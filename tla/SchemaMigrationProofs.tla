----------------------- MODULE SchemaMigrationProofs -----------------------
(***************************************************************************)
(* What holds of opening and upgrading a store for any daemons, files,     *)
(* versions and stores.                                                    *)
(*                                                                         *)
(* First what initialize does to one store, then the transaction: whoever  *)
(* has read a file keeps the others from writing to it until its own       *)
(* commit, so what it commits is what initialize makes of what is there.   *)
(***************************************************************************)
EXTENDS SchemaMigration, SequenceTheorems, TLAPS

-----------------------------------------------------------------------------
(* One store.                                                              *)

LEMMA StepType ==
  ASSUME NEW n \in Int
  PROVE  Step(n) \in Decision /\ Step(n).source = n
  BY DEF Step, Decision

LEMMA NothingType == Nothing \in Db
<1>1. <<>> \in Seq(Decision)
  OBVIOUS
<1>2. Nothing \in Tables
  BY <1>1 DEF Nothing, Tables
<1> QED BY <1>2 DEF Nothing, Db

LEMMA RefusedIsError ==
  ASSUME NEW e \in Errors
  PROVE  Refused(e).error # None /\ Refused(e).db = Nothing
  BY NoneIsNoVersion DEF Refused

(* A decision more is one step more.                                       *)
LEMMA DecidedMore ==
  ASSUME NEW s \in Seq(Decision), NEW n \in Int
  PROVE  /\ Append(s, Step(n)) \in Seq(Decision)
         /\ Sources(Append(s, Step(n))) = Sources(s) \cup {n}
<1>1. Step(n) \in Decision /\ Step(n).source = n
  BY StepType
<1>2. Append(s, Step(n)) \in Seq(Decision)
  BY <1>1
<1>3. /\ Len(s) \in Nat /\ DOMAIN s = 1 .. Len(s)
      /\ DOMAIN Append(s, Step(n)) = 1 .. Len(s) + 1
      /\ \A i \in 1 .. Len(s) : Append(s, Step(n))[i] = s[i]
      /\ Append(s, Step(n))[Len(s) + 1] = Step(n)
  BY <1>1
<1>4. Sources(Append(s, Step(n))) = Sources(s) \cup {n}
  <2>1. ASSUME NEW x \in Sources(Append(s, Step(n)))
        PROVE  x \in Sources(s) \cup {n}
    <3>1. PICK i \in 1 .. Len(s) + 1 : x = Append(s, Step(n))[i].source
      BY <1>3, <2>1 DEF Sources
    <3>2. CASE i = Len(s) + 1
      BY <1>1, <1>3, <3>1, <3>2
    <3>3. CASE i \in 1 .. Len(s)
      BY <1>3, <3>1, <3>3 DEF Sources
    <3> QED BY <1>3, <3>1, <3>2, <3>3
  <2>2. ASSUME NEW x \in Sources(s) \cup {n}
        PROVE  x \in Sources(Append(s, Step(n)))
    <3>1. CASE x = n
      <4>1. Len(s) + 1 \in 1 .. Len(s) + 1
        BY <1>3
      <4> QED BY <1>1, <1>3, <3>1, <4>1 DEF Sources
    <3>2. CASE x \in Sources(s)
      <4>1. PICK i \in 1 .. Len(s) : x = s[i].source
        BY <1>3, <3>2 DEF Sources
      <4>2. i \in 1 .. Len(s) + 1 /\ Append(s, Step(n))[i] = s[i]
        BY <1>3
      <4> QED BY <1>3, <4>1, <4>2 DEF Sources
    <3> QED BY <2>2, <3>1, <3>2
  <2> QED BY <2>1, <2>2
<1> QED BY <1>2, <1>4

LEMMA VersionFields ==
  ASSUME NEW db \in Tables, NEW n \in Int
  PROVE  LET new == [db EXCEPT !.version = n]
         IN  /\ new \in Tables /\ new.version = n /\ new.versions = db.versions
             /\ new.decisions = db.decisions /\ new.objects = db.objects
             /\ new.lineage = db.lineage /\ new.accepted = db.accepted
             /\ new.parents = db.parents
  BY DEF Tables

LEMMA DecideFields ==
  ASSUME NEW db \in Tables, NEW n \in Int
  PROVE  /\ Decide(db, n) \in Tables
         /\ Decide(db, n) = [db EXCEPT !.decisions = Append(db.decisions, Step(n))]
         /\ Sources(Decide(db, n).decisions) = Sources(db.decisions) \cup {n}
<1>1. db.decisions \in Seq(Decision)
  BY DEF Tables
<1>2. Append(db.decisions, Step(n)) \in Seq(Decision)
  BY <1>1, DecidedMore
<1>3. Decide(db, n) = [db EXCEPT !.decisions = Append(db.decisions, Step(n))]
  BY DEF Decide
<1>4. Decide(db, n).decisions = Append(db.decisions, Step(n))
  BY <1>3 DEF Tables
<1>5. Decide(db, n) \in Tables
  BY <1>2, <1>3 DEF Tables
<1> QED BY <1>1, <1>3, <1>4, <1>5, DecidedMore

(* What comes out of the common part of the upgrades.                      *)
LEMMA UpgradeFields ==
  ASSUME NEW db \in Tables, Upgrade(db).error = None
  PROVE  LET new == Upgrade(db).db
         IN  /\ new \in Db
             /\ new.version = 3 /\ V3Valid(new)
             /\ new.versions = db.versions
             /\ Sources(new.decisions) = Sources(db.decisions) \cup {2}
             /\ Upgrade(db) = Done(new)
<1> DEFINE objects == WithSlice4((db.objects \ {"decisions v2"})
                                   \cup {"observations", "decisions v3"})
           widened == [db EXCEPT !.objects = objects]
           upgraded == Decide(widened, 2)
           new == [upgraded EXCEPT !.version = 3]
<1>1. objects \in SUBSET Objects /\ "decisions v3" \in objects
  BY DEF WithSlice4, Objects, Tables
<1>2. widened \in Tables /\ widened.versions = db.versions
      /\ widened.decisions = db.decisions /\ widened.objects = objects
  BY <1>1 DEF Tables
<1>3. /\ upgraded \in Tables /\ upgraded.versions = db.versions
      /\ upgraded.objects = objects
      /\ Sources(upgraded.decisions) = Sources(db.decisions) \cup {2}
  <2> HIDE DEF widened
  <2>1. /\ upgraded \in Tables
        /\ upgraded = [widened EXCEPT !.decisions = Append(widened.decisions, Step(2))]
        /\ Sources(upgraded.decisions) = Sources(widened.decisions) \cup {2}
    <3>1. 2 \in Int
      OBVIOUS
    <3> QED BY <1>2, <3>1, DecideFields, Zenon
  <2> HIDE DEF upgraded
  <2>2. upgraded.versions = widened.versions /\ upgraded.objects = widened.objects
    BY <1>2, <2>1 DEF Tables
  <2> QED BY <1>2, <2>1, <2>2
<1>4. Upgrade(db) = Done(new) /\ V3Valid(upgraded)
  <2>1. Refused("ambiguous").error # None
    BY RefusedIsError DEF Errors
  <2> QED BY <2>1 DEF Upgrade
<1> HIDE DEF objects, widened, upgraded
<1>5. /\ new \in Tables /\ new.version = 3 /\ new.versions = upgraded.versions
      /\ new.decisions = upgraded.decisions /\ new.objects = upgraded.objects
      /\ new.lineage = upgraded.lineage /\ new.accepted = upgraded.accepted
      /\ new.parents = upgraded.parents
  <2>1. 3 \in Int
    OBVIOUS
  <2> QED BY <1>3, <2>1, VersionFields, Zenon
<1> HIDE DEF new
<1>6. V3Valid(new)
  BY <1>4, <1>5 DEF V3Valid, CoreValid
<1>7. new \in Db
  BY <1>5, <1>6 DEF Db, V3Valid, CanonicalV3
<1>8. Upgrade(db).db = new
  BY <1>4 DEF Done
<1> QED BY <1>3, <1>4, <1>5, <1>6, <1>7, <1>8

(* A whole store of schema 3 is left as it is.                             *)
LEMMA WholeAgain ==
  ASSUME NEW db \in Tables, db.version = 3, V3Valid(db)
  PROVE  Initialize(db) = Done(db)
<1>1. WithSlice4(db.objects) = db.objects
  BY DEF V3Valid, CanonicalV3, WithSlice4
<1>2. [db EXCEPT !.objects = WithSlice4(db.objects)] = db
  BY <1>1 DEF Tables
<1>3. FromV3(db) = Done(db)
  BY <1>2 DEF FromV3
<1>4. db.version # None /\ db.version \notin {0, 1, 2}
  BY NoneIsNoVersion
<1> QED BY <1>3, <1>4 DEF Initialize

LEMMA FreshIsWhole ==
  ASSUME NEW db \in Db, db.version = None, db.objects = {}
  PROVE  \E new \in Db : Fresh = Done(new) /\ Whole(new, db)
<1> DEFINE empty == [Nothing EXCEPT !.version = 3, !.lineage = 1, !.objects = CanonicalV3]
           new == Decide(empty, 2)
<1>1. db.versions = {} /\ db.decisions = <<>>
  BY DEF Db
<1>2. /\ empty \in Tables /\ empty.version = 3 /\ empty.lineage = 1
      /\ empty.objects = CanonicalV3 /\ empty.versions = {} /\ empty.accepted = {}
      /\ empty.parents = {} /\ empty.decisions = <<>>
  <2>1. Nothing \in Tables
    BY NothingType DEF Db
  <2>2. CanonicalV3 \in SUBSET Objects /\ 3 \in Int
    BY DEF CanonicalV3, Objects
  <2> QED BY <2>1, <2>2 DEF Nothing, Tables
<1> HIDE DEF empty
<1>3. /\ new \in Tables
      /\ new = [empty EXCEPT !.decisions = Append(empty.decisions, Step(2))]
      /\ Sources(new.decisions) = Sources(empty.decisions) \cup {2}
  <2>1. 2 \in Int
    OBVIOUS
  <2> QED BY <1>2, <2>1, DecideFields, Zenon
<1>4. Fresh = Done(new)
  BY DEF Fresh, empty
<1> HIDE DEF new
<1>5. /\ new.version = 3 /\ new.lineage = 1 /\ new.objects = CanonicalV3
      /\ new.versions = {} /\ new.accepted = {} /\ new.parents = {}
      /\ new.decisions = Append(<<>>, Step(2))
  BY <1>2, <1>3 DEF Tables
<1>6. ChainValid(new.decisions)
  <2>1. Append(<<>>, Step(2)) = <<Step(2)>>
    OBVIOUS
  <2> QED BY <1>5, <2>1 DEF ChainValid
<1>7. V3Valid(new)
  BY <1>5, <1>6 DEF V3Valid, CoreValid, RowsFit, LinksOf
<1>8. new \in Db
  BY <1>3, <1>5 DEF Db, CanonicalV3
<1>9. Sources(new.decisions) = Sources(db.decisions) \cup 2 .. 2
  BY <1>1, <1>2, <1>3
<1>10. Whole(new, db)
  BY <1>1, <1>5, <1>7, <1>9 DEF Whole, FirstStep, Kept, Added
<1> QED BY <1>4, <1>8, <1>10

(* The rows of schema 0 reach schema 3 as they are, but for their mark.    *)
LEMMA FromV0IsWhole ==
  ASSUME NEW db \in Db, db.version = 0, FromV0(db).error = None
  PROVE  \E new \in Db : FromV0(db) = Done(new) /\ Whole(new, db)
<1> DEFINE first == [version   |-> 1,
                     lineage   |-> 1,
                     objects   |-> WithRecords({"core", "decisions v2"}),
                     versions  |-> Copied(db.versions),
                     accepted  |-> LinksOf(db.versions),
                     parents   |-> LinksOf(db.versions),
                     decisions |-> <<Step(0), Step(1)>>]
<1>1. db \in Tables /\ db.versions \in SUBSET VersionRow
  BY DEF Db, Tables
<1>2. /\ db.objects = {"schema 0"}
      /\ FromV0(db) = Upgrade(first) /\ Upgrade(first).error = None
  <2>1. Refused("ambiguous").error # None
    BY RefusedIsError DEF Errors
  <2> QED BY <2>1 DEF FromV0
<1>3. db.decisions = <<>>
  BY <1>2 DEF Db
<1>4. Copied(db.versions) \in SUBSET VersionRow /\ LinksOf(db.versions) \in SUBSET Link
  BY <1>1 DEF Copied, LinksOf, VersionRow, Link
<1>5. Step(0) \in Decision /\ Step(1) \in Decision
      /\ Step(0).source = 0 /\ Step(1).source = 1
  BY StepType
<1>6. first \in Tables /\ first.versions = Copied(db.versions)
      /\ first.decisions = <<Step(0), Step(1)>>
  <2>1. <<Step(0), Step(1)>> \in Seq(Decision)
    BY <1>5
  <2>2. WithRecords({"core", "decisions v2"}) \in SUBSET Objects
    BY DEF WithRecords, Objects
  <2>3. 1 \in Int \cup {None} /\ 1 \in {0, 1}
    OBVIOUS
  <2>4. first \in Tables
    BY <1>4, <2>1, <2>2, <2>3, Zenon DEF Tables
  <2> QED BY <2>4
<1>7. Sources(first.decisions) = {0, 1}
  <2> DEFINE s == <<Step(0), Step(1)>>
  <2>1. DOMAIN s = {1, 2} /\ s[1] = Step(0) /\ s[2] = Step(1)
    OBVIOUS
  <2> HIDE DEF s
  <2>2. Sources(s) = {0, 1}
    BY <1>5, <2>1 DEF Sources
  <2> QED BY <1>6, <2>2 DEF s
<1> HIDE DEF first
<1> DEFINE new == Upgrade(first).db
<1>8. /\ new \in Db /\ new.version = 3 /\ V3Valid(new)
      /\ new.versions = Copied(db.versions)
      /\ Sources(new.decisions) = {0, 1} \cup {2}
      /\ Upgrade(first) = Done(new)
  BY <1>2, <1>6, <1>7, UpgradeFields
<1> HIDE DEF new
<1>9. Sources(new.decisions) = Sources(db.decisions) \cup 0 .. 2
  BY <1>3, <1>8 DEF Sources
<1>10. Kept(new, db)
  BY <1>8 DEF Kept, Copied
<1>11. Added(new, db)
  BY <1>1, <1>8 DEF Added, Copied, VersionRow
<1>12. FirstStep(db) = 0
  BY NoneIsNoVersion DEF FirstStep
<1>13. Whole(new, db)
  BY <1>8, <1>9, <1>10, <1>11, <1>12 DEF Whole
<1> QED BY <1>2, <1>8, <1>13

LEMMA SameRow ==
  ASSUME NEW r \in VersionRow
  PROVE  [r EXCEPT !.from = r.from] = r
  BY DEF VersionRow

(* A store of schema 1 or 2 keeps its rows and decisions.                  *)
LEMMA UpgradeIsWhole2 ==
  ASSUME NEW db \in Db, NEW prepared \in Tables, Upgrade(prepared).error = None,
         db.version \in {1, 2}, prepared.versions = db.versions,
         Sources(prepared.decisions) \cup {2} = Sources(db.decisions) \cup db.version .. 2
  PROVE  \E new \in Db : Upgrade(prepared) = Done(new) /\ Whole(new, db)
<1> DEFINE new == Upgrade(prepared).db
<1>1. /\ new \in Db /\ new.version = 3 /\ V3Valid(new)
      /\ new.versions = db.versions
      /\ Sources(new.decisions) = Sources(prepared.decisions) \cup {2}
      /\ Upgrade(prepared) = Done(new)
  BY UpgradeFields
<1> HIDE DEF new
<1>2. FirstStep(db) = db.version
  BY NoneIsNoVersion DEF FirstStep
<1>3. Kept(new, db)
  <2>1. ASSUME NEW r \in db.versions
        PROVE  [r EXCEPT !.from = IF db.version = 0 THEN "legacy" ELSE r.from] = r
    <3>1. r \in VersionRow
      BY DEF Db, Tables
    <3>2. db.version # 0
      OBVIOUS
    <3> QED BY <3>1, <3>2, SameRow
  <2> QED BY <1>1, <2>1 DEF Kept
<1>4. Added(new, db)
  BY <1>1 DEF Added
<1>5. Whole(new, db)
  BY <1>1, <1>2, <1>3, <1>4 DEF Whole
<1> QED BY <1>1, <1>5

LEMMA FromV1IsWhole ==
  ASSUME NEW db \in Db, db.version = 1, FromV1(db).error = None
  PROVE  \E new \in Db : FromV1(db) = Done(new) /\ Whole(new, db)
<1> DEFINE widened == [db EXCEPT !.objects = WithRecords(db.objects) \cup {"decisions v2"}]
<1>1. db \in Tables
  BY DEF Db
<1>2. widened \in Tables /\ widened.versions = db.versions
      /\ widened.decisions = db.decisions
  <2>1. WithRecords(db.objects) \cup {"decisions v2"} \in SUBSET Objects
    BY <1>1 DEF WithRecords, Objects, Tables
  <2> QED BY <1>1, <2>1 DEF Tables
<1>3. PICK base \in Tables :
        /\ base.versions = db.versions /\ base.decisions = db.decisions
        /\ FromV1(db) = Upgrade(Decide(base, 1))
  <2>1. Refused("ambiguous").error # None
    BY RefusedIsError DEF Errors
  <2>2. FromV1(db) = Upgrade(Decide(db, 1)) \/ FromV1(db) = Upgrade(Decide(widened, 1))
    BY <2>1 DEF FromV1
  <2> HIDE DEF widened
  <2> QED BY <1>1, <1>2, <2>2
<1> DEFINE prepared == Decide(base, 1)
<1>4. /\ prepared \in Tables
      /\ prepared = [base EXCEPT !.decisions = Append(base.decisions, Step(1))]
      /\ Sources(prepared.decisions) = Sources(base.decisions) \cup {1}
  <2>1. 1 \in Int
    OBVIOUS
  <2> QED BY <2>1, DecideFields, Zenon
<1>5. FromV1(db) = Upgrade(prepared)
  BY <1>3
<1> HIDE DEF prepared
<1>6. prepared.versions = db.versions
  BY <1>3, <1>4 DEF Tables
<1>7. Sources(prepared.decisions) \cup {2} = Sources(db.decisions) \cup db.version .. 2
  BY <1>3, <1>4
<1> QED BY <1>4, <1>5, <1>6, <1>7, UpgradeIsWhole2

LEMMA FromV2IsWhole ==
  ASSUME NEW db \in Db, db.version = 2, FromV2(db).error = None
  PROVE  \E new \in Db : FromV2(db) = Done(new) /\ Whole(new, db)
<1>1. db \in Tables
  BY DEF Db
<1>2. db.version .. 2 = {2}
  OBVIOUS
<1>3. Sources(db.decisions) \cup {2} = Sources(db.decisions) \cup db.version .. 2
  BY <1>2
<1>4. db.version \in {1, 2}
  OBVIOUS
<1> QED BY <1>1, <1>3, <1>4, UpgradeIsWhole2 DEF FromV2

LEMMA FromV3IsWhole ==
  ASSUME NEW db \in Db, db.version = 3, FromV3(db).error = None
  PROVE  \E new \in Db : FromV3(db) = Done(new) /\ Whole(new, db)
<1> DEFINE new == [db EXCEPT !.objects = WithSlice4(db.objects)]
<1>1. FromV3(db) = Done(new) /\ V3Valid(new)
  <2>1. Refused("ambiguous").error # None
    BY RefusedIsError DEF Errors
  <2> QED BY <2>1 DEF FromV3
<1>2. /\ new \in Tables /\ new.version = 3 /\ new.versions = db.versions
      /\ new.decisions = db.decisions
  BY DEF Db, Tables, WithSlice4, Objects
<1> HIDE DEF new
<1>3. new \in Db
  BY <1>1, <1>2 DEF Db, V3Valid, CanonicalV3
<1>4. FirstStep(db) = 3
  BY NoneIsNoVersion DEF FirstStep
<1>5. Kept(new, db)
  <2>1. ASSUME NEW r \in db.versions
        PROVE  [r EXCEPT !.from = IF db.version = 0 THEN "legacy" ELSE r.from] = r
    <3>1. r \in VersionRow
      BY DEF Db, Tables
    <3>2. db.version # 0
      OBVIOUS
    <3> QED BY <3>1, <3>2, SameRow
  <2> QED BY <1>2, <2>1 DEF Kept
<1>6. Added(new, db)
  BY <1>2 DEF Added
<1>7. Sources(new.decisions) = Sources(db.decisions) \cup 3 .. 2
  BY <1>2
<1>8. Whole(new, db)
  BY <1>1, <1>2, <1>4, <1>5, <1>6, <1>7 DEF Whole
<1> QED BY <1>1, <1>3, <1>8

(* What initialize accepts, it makes whole, whatever the store held.       *)
THEOREM InitializeIsWhole ==
  ASSUME NEW db \in Db, Initialize(db).error = None
  PROVE  \E new \in Db : Initialize(db) = Done(new) /\ Whole(new, db)
<1>1. Refused("ambiguous").error # None /\ Refused("unsupported").error # None
  BY RefusedIsError DEF Errors
<1>2. CASE db.version = None
  <2>1. db.objects = {} /\ Initialize(db) = Fresh
    BY <1>1, <1>2 DEF Initialize
  <2> QED BY <1>2, <2>1, FreshIsWhole
<1>3. CASE db.version = 0
  BY <1>3, NoneIsNoVersion, FromV0IsWhole DEF Initialize
<1>4. CASE db.version = 1
  BY <1>4, NoneIsNoVersion, FromV1IsWhole DEF Initialize
<1>5. CASE db.version = 2
  BY <1>5, NoneIsNoVersion, FromV2IsWhole DEF Initialize
<1>6. CASE db.version = 3
  BY <1>6, NoneIsNoVersion, FromV3IsWhole DEF Initialize
<1>7. db.version \in {None, 0, 1, 2, 3}
  BY <1>1 DEF Initialize
<1> QED BY <1>2, <1>3, <1>4, <1>5, <1>6, <1>7

LEMMA WholeOfItself ==
  ASSUME NEW db \in Db, Initialize(db) = Done(db)
  PROVE  Whole(db, db)
<1>1. Initialize(db).error = None
  BY DEF Done
<1>2. PICK new \in Db : Initialize(db) = Done(new) /\ Whole(new, db)
  BY <1>1, InitializeIsWhole
<1>3. new = db
  BY <1>2 DEF Done
<1> QED BY <1>2, <1>3

LEMMA WholeIsDone ==
  ASSUME NEW db \in Db, NEW old, Whole(db, old)
  PROVE  Initialize(db) = Done(db)
  BY WholeAgain DEF Whole, Db

(* A whole store stays whole with a version more.                          *)
LEMMA VersionAdded ==
  ASSUME NEW db \in Db, NEW old \in Db, Whole(db, old), NEW r \in VersionRow,
         r.fits, r.from = "native", r.parent # None => \E q \in db.versions : q.id = r.parent
  PROVE  WithVersion(db, r) \in Db /\ Whole(WithVersion(db, r), old)
<1> DEFINE new == WithVersion(db, r)
<1>1. /\ db \in Tables /\ V3Valid(db) /\ db.version = 3
  BY DEF Db, Whole
<1>2. LinksOf({r}) \in SUBSET Link
  BY DEF LinksOf, VersionRow, Link
<1>3. /\ new \in Tables /\ new.versions = db.versions \cup {r}
      /\ new.accepted = db.accepted \cup LinksOf({r})
      /\ new.parents = db.parents \cup LinksOf({r})
      /\ new.version = db.version /\ new.lineage = db.lineage
      /\ new.objects = db.objects /\ new.decisions = db.decisions
  BY <1>1, <1>2 DEF WithVersion, Tables
<1> HIDE DEF new
<1>4. LinksOf(db.versions \cup {r}) = LinksOf(db.versions) \cup LinksOf({r})
  BY DEF LinksOf
<1>5. RowsFit(new.versions)
  BY <1>1, <1>3 DEF V3Valid, CoreValid, RowsFit
<1>6. \A q \in new.versions : q.from \in {"native", "legacy"}
  BY <1>1, <1>3 DEF V3Valid, CoreValid
<1>7. V3Valid(new)
  BY <1>1, <1>3, <1>4, <1>5, <1>6 DEF V3Valid, CoreValid
<1>8. new \in Db
  BY <1>3, <1>7 DEF Db, V3Valid, CanonicalV3
<1>9. Kept(new, old) /\ Added(new, old)
  BY <1>3 DEF Whole, Kept, Added
<1>10. Whole(new, old)
  BY <1>3, <1>7, <1>9 DEF Whole
<1> QED BY <1>8, <1>10 DEF new

-----------------------------------------------------------------------------
(* The transaction.                                                        *)

IInv == TypeOK /\ LockInv /\ OpenInv /\ UpgradeIsWhole

InTransaction == {"begin", "read", "writing", "committing"}

(* What IInv says of a daemon at place a, that has checked c, is connected *)
(* to k, has read r and written w, with the path changed in windows m.     *)
Stands(a, c, k, r, w, m) ==
  /\ a \in Places /\ c \in Files \cup {None} /\ k \in Files \cup {None}
  /\ r \in Db \cup {None} /\ w \in Db \cup {None}
  /\ k # None <=> a \in Connected
  /\ k # None => content[k] # None
  /\ r # None <=> a \in {"read", "writing", "committing"}
  /\ w # None <=> a \in {"writing", "committing"}
  /\ a \in {"read", "writing", "committing"} => r = content[k]
  /\ a \in {"writing", "committing"} => Initialize(r).error = None /\ w = Initialize(r).db
  /\ m \in SUBSET Windows /\ (m # {} => a \in Windows \cup InTransaction)
  /\ a = "open" => c # None
  /\ a = "open" /\ "open" \notin m => path = c
  /\ a = "compare" /\ "open" \notin m => k = c
  /\ a = "compare" /\ "compare" \notin m => path = k
  /\ a \in InTransaction => k = c \/ m = Windows
  /\ a = "serving" => Initialize(content[k]) = Done(content[k])

LEMMA EachStands ==
  ASSUME TypeOK, LockInv, OpenInv, NEW p \in Openers
  PROVE  Stands(pc[p], checked[p], conn[p], read[p], work[p], moves[p])
  BY DEF TypeOK, LockInv, OpenInv, Stands, InTransaction

LEMMA DaemonTypes ==
  ASSUME IInv
  PROVE  /\ pc \in [Openers -> Places] /\ opens \in 0 .. MaxOpens
         /\ checked \in [Openers -> Files \cup {None}]
         /\ conn \in [Openers -> Files \cup {None}]
         /\ read \in [Openers -> Db \cup {None}] /\ work \in [Openers -> Db \cup {None}]
         /\ moves \in [Openers -> SUBSET Windows]
  BY DEF IInv, TypeOK

(* Content and its origin come together.                                   *)
LEMMA OriginIsThere ==
  ASSUME IInv, NEW f \in Files
  PROVE  content[f] = None <=> origin[f] = None
  BY DEF IInv, TypeOK

(* A step of one daemon that leaves the disk and the others alone.         *)
Local(p) ==
  /\ UNCHANGED disk /\ opens' \in 0 .. MaxOpens
  /\ pc' = [pc EXCEPT ![p] = pc'[p]] /\ checked' = [checked EXCEPT ![p] = checked'[p]]
  /\ conn' = [conn EXCEPT ![p] = conn'[p]] /\ read' = [read EXCEPT ![p] = read'[p]]
  /\ work' = [work EXCEPT ![p] = work'[p]] /\ moves' = [moves EXCEPT ![p] = moves'[p]]

LEMMA LocalKeeps ==
  ASSUME IInv, NEW p \in Openers, Local(p),
         Stands(pc'[p], checked'[p], conn'[p], read'[p], work'[p], moves'[p])
  PROVE  IInv'
<1> USE DEF IInv
<1>1. TypeOK'
  BY DEF TypeOK, Stands, Local, disk, InTransaction
<1>2. ASSUME NEW q \in Openers
      PROVE  Stands(pc[q], checked[q], conn[q], read[q], work[q], moves[q])'
  <2>1. CASE q = p
    BY <2>1 DEF Stands, Local, disk
  <2>2. CASE q # p
    <3>1. Stands(pc[q], checked[q], conn[q], read[q], work[q], moves[q])
      BY EachStands
    <3>2. /\ UNCHANGED <<path, content>> /\ pc'[q] = pc[q] /\ checked'[q] = checked[q]
          /\ conn'[q] = conn[q] /\ read'[q] = read[q] /\ work'[q] = work[q]
          /\ moves'[q] = moves[q]
      BY <2>2 DEF TypeOK, Local, disk
    <3> QED BY <3>1, <3>2 DEF Stands
  <2> QED BY <2>1, <2>2
<1>3. LockInv'
  BY <1>2 DEF LockInv, Stands
<1>4. OpenInv'
  BY <1>2 DEF OpenInv, Stands, InTransaction
<1>5. UpgradeIsWhole'
  BY DEF UpgradeIsWhole, Local, disk
<1> QED BY <1>1, <1>3, <1>4, <1>5

LEMMA FailKeeps ==
  ASSUME IInv, NEW p \in Openers, Fail(p)
  PROVE  IInv'
<1>1. /\ Local(p) /\ pc'[p] = "off" /\ checked'[p] = None /\ conn'[p] = None
      /\ read'[p] = None /\ work'[p] = None /\ moves'[p] = {}
  BY DEF IInv, TypeOK, Fail, Goto, Local
<1>2. Stands(pc'[p], checked'[p], conn'[p], read'[p], work'[p], moves'[p])
  BY <1>1 DEF Stands, Places, Opening, Connected, InTransaction
<1> QED BY <1>1, <1>2, LocalKeeps

(* A step to another place, by which nothing else changes.                 *)
LEMMA MoveKeeps ==
  ASSUME IInv, NEW p \in Openers, NEW a, Goto(p, a), UNCHANGED <<checked, conn, read, work, moves>>,
         UNCHANGED disk, opens' \in 0 .. MaxOpens,
         Stands(a, checked[p], conn[p], read[p], work[p], moves[p])
  PROVE  IInv'
<1>1. Local(p) /\ pc'[p] = a
  BY DEF IInv, TypeOK, Goto, Local
<1> QED BY <1>1, LocalKeeps

LEMMA TakeIdentityKeeps ==
  ASSUME IInv, NEW p \in Openers, pc[p] \in {"lookup", "look again"}, TakeIdentity(p)
  PROVE  IInv'
<1>1. CASE path \in private
  <2>1. /\ Local(p) /\ pc'[p] = "open" /\ checked'[p] = path
        /\ UNCHANGED <<conn, read, work, moves>>
    BY <1>1, DaemonTypes DEF TakeIdentity, Goto, Local
  <2>2. Stands(pc'[p], checked'[p], conn'[p], read'[p], work'[p], moves'[p])
    <3>1. path \in Files /\ content[path] # None /\ path # None
      BY <1>1, NoneIsNoFile DEF IInv, TypeOK
    <3> QED BY <2>1, <3>1, EachStands
            DEF IInv, Stands, TypeOK, Places, Opening, Connected, InTransaction, Windows
  <2> QED BY <2>1, <2>2, LocalKeeps
<1>2. CASE path \notin private
  BY <1>2, FailKeeps DEF TakeIdentity
<1> QED BY <1>1, <1>2

LEMMA LookupKeeps ==
  ASSUME IInv, NEW p \in Openers, Lookup(p)
  PROVE  IInv'
<1>1. CASE path # None
  BY <1>1, TakeIdentityKeeps DEF Lookup
<1>2. CASE path = None
  <2>1. Stands("create", checked[p], conn[p], read[p], work[p], moves[p])
    BY EachStands DEF Lookup, IInv, Stands, Places, Opening, Connected, InTransaction, Windows
  <2>2. /\ Goto(p, "create") /\ UNCHANGED <<checked, conn, read, work, moves>> /\ UNCHANGED disk
        /\ opens' \in 0 .. MaxOpens
    BY <1>2 DEF Lookup, IInv, TypeOK
  <2> QED BY <2>1, <2>2, MoveKeeps
<1> QED BY <1>1, <1>2

LEMMA LookAgainKeeps ==
  ASSUME IInv, NEW p \in Openers, LookAgain(p)
  PROVE  IInv'
  BY TakeIdentityKeeps, FailKeeps DEF LookAgain

LEMMA OpenFileKeeps ==
  ASSUME IInv, NEW p \in Openers, OpenFile(p)
  PROVE  IInv'
<1>1. CASE path = None
  BY <1>1, FailKeeps DEF OpenFile
<1>2. CASE path # None
  <2>1. /\ Local(p) /\ pc'[p] = "compare" /\ conn'[p] = path
        /\ UNCHANGED <<checked, read, work, moves>>
    BY <1>2 DEF IInv, TypeOK, OpenFile, Goto, Local
  <2>2. Stands(pc'[p], checked'[p], conn'[p], read'[p], work'[p], moves'[p])
    BY <1>2, <2>1, EachStands
       DEF OpenFile, IInv, Stands, TypeOK, Places, Opening, Connected, InTransaction, Windows
  <2> QED BY <2>1, <2>2, LocalKeeps
<1> QED BY <1>1, <1>2

LEMMA CompareKeeps ==
  ASSUME IInv, NEW p \in Openers, Compare(p)
  PROVE  IInv'
<1>1. CASE path # None /\ path \in private /\ path = checked[p]
  <2>1. Stands("begin", checked[p], conn[p], read[p], work[p], moves[p])
    <3>1. Stands("compare", checked[p], conn[p], read[p], work[p], moves[p])
      BY EachStands DEF Compare, IInv
    <3>2. conn[p] = checked[p] \/ moves[p] = Windows
      <4>1. moves[p] \in SUBSET Windows
        BY <3>1 DEF Stands
      <4>2. "open" \notin moves[p] => conn[p] = checked[p]
        BY <3>1 DEF Stands
      <4>3. "compare" \notin moves[p] => conn[p] = checked[p]
        BY <1>1, <3>1 DEF Stands
      <4> QED BY <4>1, <4>2, <4>3 DEF Windows
    <3> QED BY <3>1, <3>2 DEF Stands, Places, Opening, Connected, InTransaction
  <2>2. /\ Goto(p, "begin") /\ UNCHANGED <<checked, conn, read, work, moves>> /\ UNCHANGED disk
        /\ opens' \in 0 .. MaxOpens
    BY <1>1 DEF Compare, IInv, TypeOK
  <2> QED BY <2>1, <2>2, MoveKeeps
<1>2. CASE ~(path # None /\ path \in private /\ path = checked[p])
  BY <1>2, FailKeeps DEF Compare
<1> QED BY <1>1, <1>2

LEMMA ReadSchemaKeeps ==
  ASSUME IInv, NEW p \in Openers, ReadSchema(p)
  PROVE  IInv'
<1>1. conn[p] \in Files /\ content[conn[p]] \in Db
  BY DEF IInv, TypeOK, Connected, ReadSchema
<1>2. /\ Local(p) /\ pc'[p] = "read" /\ read'[p] = content[conn[p]]
      /\ UNCHANGED <<checked, conn, work, moves>>
  BY DEF IInv, TypeOK, ReadSchema, Goto, Local
<1>3. Stands("read", checked[p], conn[p], content[conn[p]], work[p], moves[p])
  <2> DEFINE c == checked[p]
             k == conn[p]
             r == content[k]
             w == work[p]
             m == moves[p]
  <2>1. Stands("begin", c, k, read[p], w, m)
    BY EachStands DEF ReadSchema, IInv
  <2> HIDE DEF c, k, w, r, m
  <2>2. /\ c \in Files \cup {None} /\ k \in Files \cup {None} /\ k # None
        /\ content[k] # None /\ w = None
        /\ m \in SUBSET Windows /\ (k = c \/ m = Windows)
    BY <2>1 DEF Stands, Connected, InTransaction
  <2>3. r = content[k] /\ r \in Db
    BY <1>1 DEF r, k
  <2>4. Stands("read", c, k, r, w, m)
    BY <2>2, <2>3 DEF Stands, Places, Opening, Connected, InTransaction, Windows
  <2> QED
    BY <2>4 DEF c, k, r, w, m
<1>4. Stands(pc'[p], checked'[p], conn'[p], read'[p], work'[p], moves'[p])
  BY <1>2, <1>3
<1> QED BY <1>2, <1>4, LocalKeeps

LEMMA InitializeSchemaKeeps ==
  ASSUME IInv, NEW p \in Openers, InitializeSchema(p)
  PROVE  IInv'
<1>1. CASE Initialize(read[p]).error = None /\ Writers(conn[p]) = {}
  <2>1. read[p] \in Db
    BY DEF IInv, TypeOK, InitializeSchema
  <2>2. Initialize(read[p]).db \in Db /\ Initialize(read[p]).db # None
    BY <1>1, <2>1, InitializeIsWhole, NoneIsNoFile DEF Done
  <2>3. /\ Local(p) /\ pc'[p] = "writing" /\ work'[p] = Initialize(read[p]).db
        /\ UNCHANGED <<checked, conn, read, moves>>
    BY <1>1 DEF IInv, TypeOK, InitializeSchema, Goto, Local
  <2>4. Stands(pc'[p], checked'[p], conn'[p], read'[p], work'[p], moves'[p])
    BY <1>1, <2>2, <2>3, EachStands
       DEF InitializeSchema, IInv, Stands, Places, Opening, Connected, InTransaction, Windows
  <2> QED BY <2>3, <2>4, LocalKeeps
<1>2. CASE ~(Initialize(read[p]).error = None /\ Writers(conn[p]) = {})
  BY <1>2, FailKeeps DEF InitializeSchema
<1> QED BY <1>1, <1>2

LEMMA CommitSchemaKeeps ==
  ASSUME IInv, NEW p \in Openers, CommitSchema(p)
  PROVE  IInv'
<1>1. Stands("committing", checked[p], conn[p], read[p], work[p], moves[p])
  BY EachStands DEF CommitSchema, IInv, Stands, Places, Opening, Connected, InTransaction, Windows
<1>2. /\ Goto(p, "committing") /\ UNCHANGED <<checked, conn, read, work, moves>> /\ UNCHANGED disk
      /\ opens' \in 0 .. MaxOpens
  BY DEF CommitSchema, IInv, TypeOK
<1> QED BY <1>1, <1>2, MoveKeeps

LEMMA StartKeeps ==
  ASSUME IInv, NEW p \in Openers, Start(p)
  PROVE  IInv'
<1>1. Stands("lookup", checked[p], conn[p], read[p], work[p], moves[p])
  BY EachStands DEF Start, IInv, Stands, Places, Opening, Connected, InTransaction, Windows
<1>2. /\ Goto(p, "lookup") /\ UNCHANGED <<checked, conn, read, work, moves>> /\ UNCHANGED disk
  BY DEF Start
<1>3. opens' \in 0 .. MaxOpens
  BY BoundsAreNumbers DEF Start, IInv, TypeOK
<1> QED BY <1>1, <1>2, <1>3, MoveKeeps


(* What is on the disk, after a file has come to be.                       *)
LEMMA NewFileKeeps ==
  ASSUME IInv, NEW f \in Files, NEW db \in Db, NewFile(f, db),
         private' \in {private \ {f}, private \cup {f}}
  PROVE  /\ content'[f] = db /\ \A g \in Files \ {f} : content'[g] = content[g]
         /\ path' \in Files \cup {None} /\ private' \subseteq Files
         /\ content' \in [Files -> Db \cup {None}] /\ origin' \in [Files -> Db \cup {None}]
         /\ \A g \in Files : g \in private' \cup {path'} => content'[g] # None
         /\ \A g \in Files : content'[g] = None <=> origin'[g] = None
         /\ \A q \in Openers : conn[q] # f
         /\ UpgradeIsWhole'
<1>1. db # None
  BY NoneIsNoFile
<1>2. \A g \in Files \ {f} : content'[g] = content[g] /\ origin'[g] = origin[g]
  BY DEF IInv, TypeOK, NewFile
<1>3. content'[f] = db /\ origin'[f] = db /\ path' = f
  BY DEF IInv, TypeOK, NewFile
<1>4. ASSUME NEW g \in Files, g \in private' \cup {path'}
      PROVE  content'[g] # None
  <2>1. CASE g = f
    BY <1>1, <1>3, <2>1
  <2>2. CASE g # f
    BY <1>2, <1>3, <1>4, <2>2 DEF IInv, TypeOK
  <2> QED BY <2>1, <2>2
<1>5. content' \in [Files -> Db \cup {None}] /\ origin' \in [Files -> Db \cup {None}]
  BY DEF IInv, TypeOK, NewFile
<1>6. \A g \in Files : content'[g] = None <=> origin'[g] = None
  BY <1>2, <1>3, OriginIsThere
<1>7. UpgradeIsWhole'
  BY <1>2, <1>3 DEF IInv, UpgradeIsWhole
<1>8. private' \subseteq Files /\ \A q \in Openers : conn[q] # f
  BY DEF IInv, TypeOK, NewFile, Free
<1> QED BY <1>2, <1>3, <1>4, <1>5, <1>6, <1>7, <1>8

(* The parts of the invariant, from what is known of the disk and of each  *)
(* daemon after a step.                                                    *)
LEMMA Gathered ==
  ASSUME path' \in Files \cup {None} /\ private' \subseteq Files,
         content' \in [Files -> Db \cup {None}], origin' \in [Files -> Db \cup {None}],
         \A g \in Files : g \in private' \cup {path'} => content'[g] # None,
         \A g \in Files : content'[g] = None <=> origin'[g] = None,
         changes' \in 0 .. MaxChanges, opens' \in 0 .. MaxOpens,
         pc' \in [Openers -> Places], checked' \in [Openers -> Files \cup {None}],
         conn' \in [Openers -> Files \cup {None}], read' \in [Openers -> Db \cup {None}],
         work' \in [Openers -> Db \cup {None}], moves' \in [Openers -> SUBSET Windows],
         \A q \in Openers : Stands(pc[q], checked[q], conn[q], read[q], work[q], moves[q])',
         UpgradeIsWhole'
  PROVE  IInv'
<1>1. TypeOK'
  <2>1. \A q \in Openers :
          /\ conn'[q] # None <=> pc'[q] \in Connected
          /\ conn'[q] # None => content'[conn'[q]] # None
          /\ read'[q] # None <=> pc'[q] \in {"read", "writing", "committing"}
          /\ work'[q] # None <=> pc'[q] \in {"writing", "committing"}
          /\ moves'[q] # {} => pc'[q] \in Windows \cup {"begin", "read", "writing", "committing"}
    BY DEF Stands, InTransaction
  <2> QED BY <2>1 DEF TypeOK
<1>2. LockInv'
  BY DEF LockInv, Stands
<1>3. OpenInv'
  BY DEF OpenInv, Stands, InTransaction
<1> QED BY <1>1, <1>2, <1>3 DEF IInv

LEMMA CreateKeeps ==
  ASSUME IInv, NEW p \in Openers, Create(p)
  PROVE  IInv'
<1>1. CASE path # None
  <2>1. Stands("look again", checked[p], conn[p], read[p], work[p], moves[p])
    BY EachStands
       DEF Create, IInv, Stands, Places, Opening, Connected, InTransaction, Windows
  <2>2. /\ Goto(p, "look again") /\ UNCHANGED <<checked, conn, read, work, moves>>
        /\ UNCHANGED disk /\ opens' \in 0 .. MaxOpens
    BY <1>1 DEF Create, IInv, TypeOK
  <2> QED BY <2>1, <2>2, MoveKeeps
<1>2. CASE path = None
  <2>1. PICK f \in Files : NewFile(f, Nothing) /\ private' = private \cup {f}
    BY <1>2 DEF Create, MakeFile
  <2>2. /\ UNCHANGED <<changes, opens>> /\ UNCHANGED <<checked, conn, read, work, moves>>
        /\ pc[p] = "create" /\ pc' = [pc EXCEPT ![p] = "look again"]
    BY <1>2 DEF Create, MakeFile, Goto
  <2>3. pc' \in [Openers -> Places]
    BY <2>2, DaemonTypes DEF Places, Opening
  <2>4. ASSUME NEW q \in Openers
        PROVE  Stands(pc[q], checked[q], conn[q], read[q], work[q], moves[q])'
    <3>1. Stands(pc[q], checked[q], conn[q], read[q], work[q], moves[q])
      BY EachStands DEF IInv
    <3>2. pc'[q] = pc[q] \/ (pc[q] = "create" /\ pc'[q] = "look again")
      BY <2>2, DaemonTypes
    <3>3. conn[q] # None => content'[conn[q]] = content[conn[q]]
      BY <2>1, <3>1, NewFileKeeps, NothingType, NoneIsNoFile DEF Stands
    <3>4. pc[q] = "open" => "open" \in moves[q]
      BY <1>2, <3>1 DEF Stands
    <3>5. pc[q] = "compare" => "compare" \in moves[q]
      BY <1>2, <3>1 DEF Stands, Connected
    <3> QED BY <2>2, <3>1, <3>2, <3>3, <3>4, <3>5
            DEF Stands, Places, Opening, Connected, InTransaction, Windows
  <2>5. changes' \in 0 .. MaxChanges /\ opens' \in 0 .. MaxOpens
    BY <2>2 DEF IInv, TypeOK
  <2> QED BY <2>1, <2>2, <2>3, <2>4, <2>5, NewFileKeeps, NothingType, DaemonTypes, Gathered
<1> QED BY <1>1, <1>2

(* Another program changes the path, and may do it again: that is why      *)
(* OpenInv speaks of the windows without a change only.                    *)
LEMMA ReplaceKeeps ==
  ASSUME IInv, Replace
  PROVE  IInv'
<1>1. /\ UNCHANGED <<opens, pc, checked, conn, read, work>> /\ NoteMove
      /\ changes' \in 0 .. MaxChanges
  BY BoundsAreNumbers DEF Replace, Change, IInv, TypeOK
<1>2. moves' \in [Openers -> SUBSET Windows]
  BY <1>1, DaemonTypes DEF NoteMove
<1>3. ASSUME NEW q \in Openers,
             conn[q] # None => content'[conn[q]] = content[conn[q]]
      PROVE  Stands(pc[q], checked[q], conn[q], read[q], work[q], moves[q])'
  <2>1. Stands(pc[q], checked[q], conn[q], read[q], work[q], moves[q])
    BY EachStands DEF IInv
  <2>2. /\ pc[q] \in Windows => pc[q] \in moves'[q] /\ moves'[q] = moves[q] \cup {pc[q]}
        /\ pc[q] \notin Windows => moves'[q] = moves[q]
    BY <1>1 DEF NoteMove
  <2>3. /\ moves'[q] \in SUBSET Windows
        /\ moves'[q] # {} => pc[q] \in Windows \cup InTransaction
        /\ pc[q] = "open" => "open" \in moves'[q]
        /\ pc[q] = "compare" => "compare" \in moves'[q]
        /\ pc[q] = "compare" /\ "open" \notin moves'[q] => conn[q] = checked[q]
        /\ pc[q] \in InTransaction => conn[q] = checked[q] \/ moves'[q] = Windows
    BY <1>2, <2>1, <2>2 DEF Stands, Windows, InTransaction
  <2>4. /\ pc'[q] = pc[q] /\ checked'[q] = checked[q] /\ conn'[q] = conn[q]
        /\ read'[q] = read[q] /\ work'[q] = work[q]
    BY <1>1
  <2> QED BY <1>3, <2>1, <2>3, <2>4 DEF Stands, Connected
<1>4. CASE path' \in Files \cup {None} /\ (path' # None => content[path'] # None)
           /\ UNCHANGED <<content, private, origin>>
  <2>1. \A q \in Openers : Stands(pc[q], checked[q], conn[q], read[q], work[q], moves[q])'
    BY <1>3, <1>4
  <2>2. UpgradeIsWhole'
    BY <1>4 DEF IInv, UpgradeIsWhole
  <2>3. \A g \in Files : g \in private' \cup {path'} => content'[g] # None
    BY <1>4, NoneIsNoFile DEF IInv, TypeOK
  <2>4. /\ private' \subseteq Files
        /\ content' \in [Files -> Db \cup {None}] /\ origin' \in [Files -> Db \cup {None}]
        /\ \A g \in Files : content'[g] = None <=> origin'[g] = None
        /\ opens' \in 0 .. MaxOpens
    BY <1>1, <1>4 DEF IInv, TypeOK
  <2> QED BY <1>1, <1>2, <1>4, <2>1, <2>2, <2>3, <2>4, DaemonTypes, Gathered
<1>5. CASE \E f \in Files, db \in Replacements :
             NewFile(f, db) /\ private' \in {private \ {f}, private \cup {f}}
  <2>1. PICK f \in Files, db \in Db :
          NewFile(f, db) /\ private' \in {private \ {f}, private \cup {f}}
    BY <1>5, StoresAreDbs
  <2>2. ASSUME NEW q \in Openers
        PROVE  Stands(pc[q], checked[q], conn[q], read[q], work[q], moves[q])'
    <3>1. conn[q] \in Files \cup {None}
      BY EachStands DEF IInv, Stands
    <3>2. conn[q] # None => content'[conn[q]] = content[conn[q]]
      BY <2>1, <3>1, NewFileKeeps
    <3> QED BY <1>3, <3>2
  <2>3. opens' \in 0 .. MaxOpens
    BY <1>1, DaemonTypes
  <2> QED BY <1>1, <1>2, <2>1, <2>2, <2>3, NewFileKeeps, DaemonTypes, Gathered
<1> QED BY <1>4, <1>5 DEF Replace

LEMMA ChangeModeKeeps ==
  ASSUME IInv, ChangeMode
  PROVE  IInv'
<1>1. /\ UNCHANGED <<path, content, origin, opens, pc, checked, conn, read, work, moves>>
      /\ changes' \in 0 .. MaxChanges
  BY BoundsAreNumbers DEF ChangeMode, Change, IInv, TypeOK, daemon
<1>2. /\ private' \subseteq Files
      /\ \A g \in Files : g \in private' \cup {path'} => content'[g] # None
  BY <1>1 DEF ChangeMode, IInv, TypeOK
<1>3. TypeOK'
  BY <1>1, <1>2 DEF IInv, TypeOK
<1>4. LockInv' /\ OpenInv' /\ UpgradeIsWhole'
  BY <1>1 DEF IInv, LockInv, OpenInv, UpgradeIsWhole
<1> QED BY <1>3, <1>4 DEF IInv

(* What initialize makes of what is there is what the others find whole.   *)
LEMMA CommittedKeeps ==
  ASSUME IInv, NEW p \in Openers, Committed(p)
  PROVE  IInv'
<1> DEFINE f == conn[p]
           new == work[p]
<1>1. /\ f \in Files /\ content[f] \in Db /\ read[p] = content[f]
      /\ Initialize(content[f]).error = None /\ new = Initialize(content[f]).db
  BY DEF Committed, IInv, TypeOK, LockInv, Connected
<1>2. new \in Db /\ Whole(new, content[f]) /\ Initialize(new) = Done(new) /\ new # None
  <2>1. PICK db \in Db : Initialize(content[f]) = Done(db) /\ Whole(db, content[f])
    BY <1>1, InitializeIsWhole
  <2>2. new = db
    BY <1>1, <2>1 DEF Done
  <2> HIDE DEF new, f
  <2> QED BY <2>1, <2>2, WholeIsDone, NoneIsNoFile
<1>3. Initialize(content[f]) = Done(content[f]) => new = content[f]
  BY <1>1 DEF Done
<1>4. Whole(new, origin[f])
  <2>1. CASE content[f] = origin[f]
    BY <1>2, <2>1
  <2>2. CASE content[f] # origin[f]
    <3>1. Whole(content[f], origin[f])
      BY <1>1, <2>2, NoneIsNoFile DEF IInv, UpgradeIsWhole
    <3>2. Initialize(content[f]) = Done(content[f])
      BY <1>1, <3>1, WholeIsDone
    <3> QED BY <1>3, <3>1, <3>2
  <2> QED BY <2>1, <2>2
<1>5. /\ content' = [content EXCEPT ![f] = new] /\ pc' = [pc EXCEPT ![p] = "serving"]
      /\ read' = [read EXCEPT ![p] = None] /\ work' = [work EXCEPT ![p] = None]
      /\ moves' = [moves EXCEPT ![p] = {}]
      /\ UNCHANGED <<path, private, origin, changes, opens, checked, conn>>
      /\ \A q \in Openers \ {p} :
           conn[q] = f => pc[q] \notin {"read", "writing", "committing"}
  BY DEF Committed, Goto, Readers
<1> HIDE DEF f, new
<1>6. /\ content'[f] = new /\ \A g \in Files \ {f} : content'[g] = content[g]
      /\ pc'[p] = "serving" /\ read'[p] = None /\ work'[p] = None /\ moves'[p] = {}
      /\ \A q \in Openers \ {p} : /\ pc'[q] = pc[q] /\ read'[q] = read[q]
                                  /\ work'[q] = work[q] /\ moves'[q] = moves[q]
  BY <1>1, <1>5 DEF IInv, TypeOK
<1>7. ASSUME NEW q \in Openers
      PROVE  Stands(pc[q], checked[q], conn[q], read[q], work[q], moves[q])'
  <2>1. Stands(pc[q], checked[q], conn[q], read[q], work[q], moves[q])
    BY <1>7, EachStands DEF IInv
  <2>2. \A g \in Files : content[g] # None => content'[g] # None
    BY <1>2, <1>6
  <2>3. CASE q = p
    <3>1. conn[q] = f
      BY <2>3 DEF f
    <3> QED BY <1>1, <1>2, <1>5, <1>6, <2>1, <2>2, <2>3, <3>1, NoneIsNoFile
            DEF Stands, Places, Connected, InTransaction
  <2>4. CASE q # p
    <3>1. pc[q] \in {"read", "writing", "committing"} => content'[conn[q]] = content[conn[q]]
      BY <1>5, <1>6, <2>1, <2>4, NoneIsNoFile DEF Stands, Connected
    <3>2. pc[q] = "serving" => content'[conn[q]] = content[conn[q]]
      BY <1>3, <1>6, <2>1, NoneIsNoFile DEF Stands, Connected
    <3>3. conn[q] # None => content'[conn[q]] # None
      BY <2>1, <2>2 DEF Stands
    <3> QED BY <1>5, <1>6, <2>1, <2>4, <3>1, <3>2, <3>3 DEF Stands
  <2> QED BY <2>3, <2>4
<1>8. \A g \in Files : g \in private' \cup {path'} => content'[g] # None
  BY <1>2, <1>5, <1>6 DEF IInv, TypeOK
<1>9. content' \in [Files -> Db \cup {None}]
  BY <1>2, <1>5 DEF IInv, TypeOK
<1>10. /\ pc' \in [Openers -> Places] /\ read' \in [Openers -> Db \cup {None}]
       /\ work' \in [Openers -> Db \cup {None}] /\ moves' \in [Openers -> SUBSET Windows]
  BY <1>5, DaemonTypes DEF Places
<1>11. \A g \in Files : content'[g] = None <=> origin'[g] = None
  BY <1>1, <1>2, <1>5, <1>6, OriginIsThere, NoneIsNoFile
<1>12. UpgradeIsWhole'
  BY <1>1, <1>4, <1>5, <1>6 DEF IInv, UpgradeIsWhole
<1>13. /\ path' \in Files \cup {None} /\ private' \subseteq Files
       /\ origin' \in [Files -> Db \cup {None}] /\ changes' \in 0 .. MaxChanges
       /\ opens' \in 0 .. MaxOpens
  BY <1>5 DEF IInv, TypeOK
<1> QED BY <1>5, <1>7, <1>8, <1>9, <1>10, <1>11, <1>12, <1>13, DaemonTypes, Gathered

(* An import adds to a store that is served, and so whole.                 *)
LEMMA ImportKeeps ==
  ASSUME IInv, NEW p \in Openers, Import(p)
  PROVE  IInv'
<1> DEFINE f == conn[p]
<1>1. PICK id \in VersionIds, parent \in VersionIds \cup {None} :
        /\ parent # None => \E r \in content[f].versions : r.id = parent
        /\ content' = [content EXCEPT ![f] =
             WithVersion(content[f], [id |-> id, parent |-> parent, from |-> "native",
                                      fits |-> TRUE])]
  BY DEF Import
<1> DEFINE row == [id |-> id, parent |-> parent, from |-> "native", fits |-> TRUE]
           new == WithVersion(content[f], row)
<1>2. /\ f \in Files /\ content[f] \in Db /\ origin[f] \in Db \cup {None}
      /\ Initialize(content[f]) = Done(content[f])
  BY DEF Import, IInv, TypeOK, LockInv, Connected
<1>3. /\ row \in VersionRow /\ row.fits /\ row.from = "native" /\ row.parent = parent
  BY DEF VersionRow
<1>4. content' = [content EXCEPT ![f] = new]
  BY <1>1
<1> HIDE DEF row
<1>5. ASSUME NEW old \in Db, Whole(content[f], old)
      PROVE  new \in Db /\ Whole(new, old)
  BY <1>1, <1>2, <1>3, <1>5, VersionAdded
<1>6. new \in Db /\ Initialize(new) = Done(new) /\ new # None
  <2>1. new \in Db /\ Whole(new, content[f])
    BY <1>2, <1>5, WholeOfItself
  <2> HIDE DEF new, f
  <2> QED BY <2>1, WholeIsDone, NoneIsNoFile
<1>7. origin[f] # None
  BY <1>2, NoneIsNoFile, OriginIsThere DEF IInv
<1>8. Whole(new, origin[f])
  <2>1. CASE content[f] = origin[f]
    BY <1>2, <1>5, <2>1, WholeOfItself
  <2>2. CASE content[f] # origin[f]
    <3>1. Whole(content[f], origin[f])
      BY <1>2, <2>2, NoneIsNoFile DEF IInv, UpgradeIsWhole
    <3> HIDE DEF new, f
    <3> QED BY <1>2, <1>5, <1>7, <3>1
  <2> QED BY <2>1, <2>2
<1>9. /\ UNCHANGED <<path, private, origin, changes, opens, pc, checked, conn>>
      /\ UNCHANGED <<read, work, moves>>
      /\ \A q \in Openers : conn[q] = f => pc[q] \notin {"read", "writing", "committing"}
  BY DEF Import, Readers, daemon
<1> HIDE DEF f, new
<1>10. content'[f] = new /\ \A g \in Files \ {f} : content'[g] = content[g]
  BY <1>2, <1>4 DEF IInv, TypeOK
<1>11. ASSUME NEW q \in Openers
       PROVE  Stands(pc[q], checked[q], conn[q], read[q], work[q], moves[q])'
  <2>1. Stands(pc[q], checked[q], conn[q], read[q], work[q], moves[q])
    BY EachStands DEF IInv
  <2>2. \A g \in Files : content[g] # None => content'[g] # None
    BY <1>6, <1>10
  <2>3. conn[q] # None => content'[conn[q]] # None
    BY <2>1, <2>2 DEF Stands
  <2>4. pc[q] \in {"read", "writing", "committing"} => content'[conn[q]] = content[conn[q]]
    BY <1>9, <1>10, <2>1, NoneIsNoFile DEF Stands, Connected
  <2>5. pc[q] = "serving" => Initialize(content'[conn[q]]) = Done(content'[conn[q]])
    <3>1. CASE conn[q] = f
      BY <1>6, <1>10, <3>1
    <3>2. CASE conn[q] # f
      BY <1>10, <2>1, <3>2, NoneIsNoFile DEF Stands, Connected
    <3> QED BY <3>1, <3>2
  <2> QED BY <1>9, <2>1, <2>3, <2>4, <2>5 DEF Stands
<1>12. \A g \in Files : g \in private' \cup {path'} => content'[g] # None
  BY <1>6, <1>9, <1>10 DEF IInv, TypeOK
<1>13. content' \in [Files -> Db \cup {None}]
  BY <1>4, <1>6 DEF IInv, TypeOK
<1>14. \A g \in Files : content'[g] = None <=> origin'[g] = None
  BY <1>6, <1>7, <1>9, <1>10, OriginIsThere
<1>15. UpgradeIsWhole'
  BY <1>8, <1>9, <1>10 DEF IInv, UpgradeIsWhole
<1>16. /\ path' \in Files \cup {None} /\ private' \subseteq Files
       /\ origin' \in [Files -> Db \cup {None}] /\ changes' \in 0 .. MaxChanges
       /\ opens' \in 0 .. MaxOpens
  BY <1>9 DEF IInv, TypeOK
<1> QED BY <1>9, <1>11, <1>12, <1>13, <1>14, <1>15, <1>16, DaemonTypes, Gathered

(* Nothing but the commit leads from committing to serving.                *)
LEMMA OnlyCommits ==
  ASSUME IInv, Next, NEW p \in Openers, pc[p] = "committing", pc'[p] = "serving"
  PROVE  Committed(p)
<1>1. pc \in [Openers -> Places]
  BY DEF IInv, TypeOK
<1>2. ~Replace /\ ~ChangeMode /\ \A q \in Openers : ~Import(q)
  BY DEF Replace, ChangeMode, Import, daemon
<1>3. \A q \in Openers : ~Start(q) /\ ~Stop(q)
  BY <1>1 DEF Start, Stop, Fail, Goto
<1>4. \A q \in Openers : Open(q) => Committed(p)
  <2>1. \A q \in Openers : ~Fail(q)
    BY <1>1 DEF Fail, Goto
  <2>2. \A q \in Openers : ~TakeIdentity(q)
    BY <1>1, <2>1 DEF TakeIdentity, Goto
  <2>3. \A q \in Openers : ~Lookup(q) /\ ~Create(q) /\ ~LookAgain(q) /\ ~OpenFile(q)
    BY <1>1, <2>1, <2>2 DEF Lookup, Create, LookAgain, OpenFile, Goto
  <2>4. \A q \in Openers : ~Compare(q) /\ ~ReadSchema(q) /\ ~CommitSchema(q) /\ ~WaitEnds(q)
    BY <1>1, <2>1 DEF Compare, ReadSchema, CommitSchema, WaitEnds, Goto
  <2>5. \A q \in Openers : ~InitializeSchema(q)
    BY <1>1, <2>1 DEF InitializeSchema, Goto
  <2>6. \A q \in Openers : Committed(q) => q = p
    BY <1>1 DEF Committed, Goto
  <2> QED BY <2>3, <2>4, <2>5, <2>6 DEF Open
<1> QED BY <1>2, <1>3, <1>4 DEF Next

LEMMA InitHolds ==
  ASSUME Init
  PROVE  IInv
<1>1. Stores \subseteq Db
  BY StoresAreDbs
<1>2. TypeOK
  <2>1. content \in [Files -> Db \cup {None}] /\ origin = content
    BY <1>1 DEF Init
  <2>2. path \in Files \cup {None} /\ private \subseteq Files
    BY DEF Init
  <2>3. \A f \in Files : f \in private \cup {path} => content[f] # None
    BY <1>1, NoneIsNoFile DEF Init
  <2>4. \A f \in Files : content[f] = None <=> origin[f] = None
    BY <2>1
  <2>5. /\ changes = 0 /\ opens = 0 /\ moves = [p \in Openers |-> {}]
        /\ pc = [p \in Openers |-> "off"]
        /\ checked = [p \in Openers |-> None] /\ conn = [p \in Openers |-> None]
        /\ read = [p \in Openers |-> None] /\ work = [p \in Openers |-> None]
    BY DEF Init
  <2>6. opens \in 0 .. MaxOpens /\ changes \in 0 .. MaxChanges
    BY <2>5, BoundsAreNumbers
  <2> QED BY <2>1, <2>2, <2>3, <2>4, <2>5, <2>6, NoneIsNoFile DEF TypeOK, Places, Connected
<1>3. LockInv /\ OpenInv
  BY DEF Init, LockInv, OpenInv
<1>4. UpgradeIsWhole
  BY DEF Init, UpgradeIsWhole
<1> QED BY <1>2, <1>3, <1>4 DEF IInv

LEMMA StepKeeps ==
  ASSUME IInv, [Next]_vars
  PROVE  IInv'
<1>1. CASE UNCHANGED vars
  BY <1>1 DEF vars, disk, daemon, IInv, TypeOK, LockInv, OpenInv, UpgradeIsWhole
<1>2. CASE Replace \/ ChangeMode
  BY <1>2, ReplaceKeeps, ChangeModeKeeps
<1>3. ASSUME NEW p \in Openers, Start(p) \/ Import(p) \/ Stop(p)
      PROVE  IInv'
  BY <1>3, StartKeeps, ImportKeeps, FailKeeps DEF Stop
<1>4. ASSUME NEW p \in Openers, Open(p)
      PROVE  IInv'
  BY <1>4, LookupKeeps, CreateKeeps, LookAgainKeeps, OpenFileKeeps, CompareKeeps,
     ReadSchemaKeeps, InitializeSchemaKeeps, CommitSchemaKeeps, CommittedKeeps, FailKeeps
     DEF Open, WaitEnds
<1> QED BY <1>1, <1>2, <1>3, <1>4 DEF Next

-----------------------------------------------------------------------------

(* The invariant, for any daemons, files and stores.                       *)
THEOREM Invariance == Spec => []IInv
<1>1. Init => IInv
  BY InitHolds
<1>2. IInv /\ [Next]_vars => IInv'
  BY StepKeeps
<1> QED BY <1>1, <1>2, PTL DEF Spec

THEOREM TypeCorrect == Spec => []TypeOK
<1>1. IInv => TypeOK
  BY DEF IInv
<1> QED BY <1>1, Invariance, PTL

(* Whatever daemons do to it and wherever they die, a file holds what it   *)
(* held at first or a whole upgrade of it.                                 *)
THEOREM UpgradesAreWhole == Spec => []UpgradeIsWhole
<1>1. IInv => UpgradeIsWhole
  BY DEF IInv
<1> QED BY <1>1, Invariance, PTL

(* What was written opens again, unchanged.                                *)
THEOREM StoresReopen == Spec => []ReopensSame
<1>1. ASSUME IInv, NEW f \in Files, content[f] # origin[f]
      PROVE  Initialize(content[f]) = Done(content[f])
  <2>1. content[f] \in Db /\ Whole(content[f], origin[f])
    BY <1>1, OriginIsThere DEF IInv, TypeOK, UpgradeIsWhole
  <2> QED BY <2>1, WholeIsDone
<1>2. IInv => ReopensSame
  BY <1>1 DEF ReopensSame
<1> QED BY <1>2, Invariance, PTL

(* Nothing is lost under an upgrade: nobody wrote to the file between the  *)
(* first read of a transaction and its commit.  And however often and when-*)
(* ever other programs change the path, it goes to the file that was       *)
(* checked, unless the path was changed in both windows of the open.       *)
THEOREM CommitsAreSerial == Spec => CommitsToWhatItSaw
<1> DEFINE A == \A p \in Openers, f \in Files :
                  pc[p] = "committing" /\ pc'[p] = "serving" /\ conn[p] = f =>
                    /\ f = checked[p] \/ moves[p] = Windows
                    /\ Initialize(content[f]).error = None
                    /\ content'[f] = Initialize(content[f]).db
<1>1. ASSUME IInv, [Next]_vars, NEW p \in Openers, NEW f \in Files,
             pc[p] = "committing", pc'[p] = "serving", conn[p] = f
      PROVE  /\ f = checked[p] \/ moves[p] = Windows
             /\ Initialize(content[f]).error = None
             /\ content'[f] = Initialize(content[f]).db
  <2>1. /\ read[p] = content[f]
        /\ Initialize(content[f]).error = None /\ work[p] = Initialize(content[f]).db
    BY <1>1 DEF IInv, LockInv
  <2>2. f = checked[p] \/ moves[p] = Windows
    BY <1>1 DEF IInv, OpenInv
  <2>3. Committed(p)
    <3>1. pc' # pc
      BY <1>1
    <3>2. Next
      BY <1>1, <3>1 DEF vars, daemon
    <3> QED BY <1>1, <3>2, OnlyCommits
  <2>4. content'[f] = work[p]
    BY <1>1, <2>3 DEF Committed, IInv, TypeOK
  <2> QED BY <2>1, <2>2, <2>4
<1>2. IInv /\ [Next]_vars => A
  BY <1>1
<1>3. IInv /\ [Next]_vars => [A]_vars
  BY <1>2
<1> QED BY <1>3, Invariance, PTL DEF Spec, CommitsToWhatItSaw
=============================================================================
