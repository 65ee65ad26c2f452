------------------------- MODULE MCSchemaMigration -------------------------
(* Stores of every schema, whole and damaged, for two daemons.             *)
EXTENDS SchemaMigration

CONSTANTS v1, v2

Row(id, parent, from) == [id |-> id, parent |-> parent, from |-> from, fits |-> TRUE]

Rows(from) == {Row(v1, None, from), Row(v2, v1, from)}

Store(version, objects, rows, decisions) ==
  [version |-> version, lineage |-> IF version = 0 THEN 0 ELSE 1, objects |-> objects,
   versions |-> rows, accepted |-> IF version = 0 THEN {} ELSE LinksOf(rows),
   parents |-> IF version = 0 THEN {} ELSE LinksOf(rows), decisions |-> decisions]

Old(rows)     == Store(0, {"schema 0"}, rows, <<>>)
First         == Store(1, {"core"}, {Row(v1, None, "native")}, <<>>)
Second(steps) == Store(2, CanonicalV2, Rows("legacy"), steps)
Third(steps)  == Store(3, CanonicalV3, {Row(v1, None, "native")}, steps)
Inexact(n)    == [Step(n) EXCEPT !.exact = FALSE]

SchemaZero ==
  {Old(Rows("none")), Old({Row(v2, v1, "none")}),
   Old({[Row(v1, None, "none") EXCEPT !.fits = FALSE]}),
   [Old({}) EXCEPT !.lineage = 1], [Old({}) EXCEPT !.objects = @ \cup {"other"}]}

SchemaOne ==
  {First, [First EXCEPT !.objects = @ \cup {"events", "records"}],
   [First EXCEPT !.objects = @ \cup {"slice 3"}],
   [First EXCEPT !.objects = @ \cup {"decisions v2"}, !.decisions = <<Step(0)>>],
   [First EXCEPT !.parents = {}], [First EXCEPT !.objects = {"records"}, !.versions = {}]}

SchemaTwo ==
  {Second(<<Step(1)>>), Second(<<Step(0), Step(1)>>), Second(<<Step(0)>>),
   Second(<<Step(1), Step(1)>>), Second(<<Inexact(0), Step(1)>>), Second(<<Inexact(1)>>),
   Second(<<Step(1), Step(0)>>),
   [Second(<<Step(1)>>) EXCEPT !.objects = @ \ {"slice 3"}],
   [Second(<<Step(1)>>) EXCEPT !.objects = @ \cup {"recovery"}]}

SchemaThree ==
  {Third(<<Step(2)>>), Third(<<Step(1), Step(2)>>), Third(<<Step(1)>>), Third(<<>>),
   [Third(<<Step(2)>>) EXCEPT !.objects = @ \ {"reconciliation", "recovery"}],
   [Third(<<Step(2)>>) EXCEPT !.objects = @ \ {"observations"}],
   [Third(<<Step(2)>>) EXCEPT !.accepted = {}]}

Strange ==
  {Nothing, [Third(<<Step(2)>>) EXCEPT !.version = 4], [Nothing EXCEPT !.version = -1],
   [Nothing EXCEPT !.objects = {"other"}]}

MCStores == SchemaZero \cup SchemaOne \cup SchemaTwo \cup SchemaThree \cup Strange
MCReplacements == {Old(Rows("none"))}
=============================================================================
