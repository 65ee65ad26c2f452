-------------------------- MODULE SchemaMigration --------------------------
(***************************************************************************)
(* Daemons that open one store file (Store::open and from_connection of    *)
(* src/src/artifacts/store.rs, called by daemon of src/src/main.rs): the   *)
(* checks of the path, and one transaction in which the schema is read,    *)
(* upgraded or checked, and written.  Daemons of two runtime directories   *)
(* have the store of their common home directory in common, and nothing    *)
(* but SQLite's locks between them.                                        *)
(*                                                                         *)
(* External, from how the code uses it: a transaction starts without a     *)
(* lock, takes a shared one with its first read and the reserved one with  *)
(* its first write, which fails at once when another holds it; to commit it*)
(* waits for the readers to leave and keeps new ones out; a wait ends after*)
(* five seconds.  What did not commit is gone.  validate_slice3_guards     *)
(* writes, and undoes it, in every transaction that is not refused.        *)
(* Other programs of the user change the path and the mode of a file       *)
(* whenever they like; one that writes to the store is another daemon here.*)
(* An import (module ArtifactLineage) is one step here.                    *)
(***************************************************************************)
EXTENDS StoreSchema, FiniteSets

CONSTANTS
  Openers,       \* daemons
  Files,         \* inodes
  Stores,        \* what the path may hold at first
  Replacements,  \* what another program may put there
  MaxOpens,      \* bound: how often daemons are started
  MaxChanges     \* bound: how often other programs change the path or a mode

ASSUME StoresAreDbs == Stores \subseteq Db /\ Replacements \subseteq Db
ASSUME NoneIsNoFile == None \notin Files \cup Db
ASSUME BoundsAreNumbers == MaxOpens \in Nat /\ MaxChanges \in Nat

VARIABLES
  path,      \* the file the store's path names, or None
  content,   \* file -> what it holds, None before there is one
  private,   \* the files that are regular, owned and of mode 0600
  origin,    \* ghost: file -> what it held when it came to be
  changes,   \* how often other programs changed the path or a mode
  opens,     \* how often daemons were started
  pc,        \* where each daemon is
  checked,   \* the file whose identity it has taken
  conn,      \* the file its connection is open on
  read,      \* what its transaction read
  work,      \* what its transaction has written
  moves      \* ghost: in which windows of its open the path was changed

disk   == <<path, content, private, origin, changes>>
daemon == <<opens, pc, checked, conn, read, work, moves>>
vars   == <<disk, daemon>>

Opening   == {"lookup", "create", "look again", "open", "compare", "begin", "read", "writing",
              "committing"}
Connected == {"compare", "begin", "read", "writing", "committing", "serving"}
Places    == Opening \cup {"off", "serving"}

(* Between the first look and the open, between the open and the second.   *)
Windows == {"open", "compare"}

-----------------------------------------------------------------------------
(* Who has the shared, the reserved and the pending lock on a file.        *)

Readers(f)    == {q \in Openers : conn[q] = f /\ pc[q] \in {"read", "writing", "committing"}}
Writers(f)    == {q \in Openers : conn[q] = f /\ pc[q] \in {"writing", "committing"}}
Committers(f) == {q \in Openers : conn[q] = f /\ pc[q] = "committing"}

(* An inode may be that of a new file when no path keeps the old one and   *)
(* nobody has it open.  Whether a file that left the store's path was moved*)
(* or removed is open.                                                     *)
Free(f) == f # path /\ \A q \in Openers : conn[q] # f

NewFile(f, db) ==
  /\ Free(f)
  /\ path' = f
  /\ content' = [content EXCEPT ![f] = db]
  /\ origin' = [origin EXCEPT ![f] = db]

-----------------------------------------------------------------------------
(* Store::open.                                                            *)

Goto(p, place) == pc' = [pc EXCEPT ![p] = place]

(* Every error ends the daemon: it gives the connection up, and with it    *)
(* the locks.                                                              *)
Fail(p) ==
  /\ Goto(p, "off")
  /\ checked' = [checked EXCEPT ![p] = None]
  /\ conn' = [conn EXCEPT ![p] = None]
  /\ read' = [read EXCEPT ![p] = None]
  /\ work' = [work EXCEPT ![p] = None]
  /\ moves' = [moves EXCEPT ![p] = {}]
  /\ UNCHANGED <<disk, opens>>

(* validate_store_metadata and the identity of the file the path names.    *)
TakeIdentity(p) ==
  IF path \in private
    THEN /\ checked' = [checked EXCEPT ![p] = path]
         /\ Goto(p, "open")
         /\ UNCHANGED <<disk, opens, conn, read, work, moves>>
    ELSE Fail(p)

Lookup(p) ==
  /\ pc[p] = "lookup"
  /\ \/ /\ path = None
        /\ Goto(p, "create")
        /\ UNCHANGED <<disk, opens, checked, conn, read, work, moves>>
     \/ path # None /\ TakeIdentity(p)

MakeFile ==
  /\ \E f \in Files : NewFile(f, Nothing) /\ private' = private \cup {f}
  /\ UNCHANGED changes

(* Faulty variant: a file that came to be is not looked at, but made again.*)
CreateOrRetry(p) ==
  /\ pc[p] = "create"
  /\ \/ path # None /\ UNCHANGED <<disk, pc>>
     \/ path = None /\ Goto(p, "look again") /\ MakeFile
  /\ UNCHANGED <<opens, checked, conn, read, work, moves>>

(* create_new: a file that came to be since is looked at, not made.        *)
Create(p) ==
  /\ pc[p] = "create"
  /\ Goto(p, "look again")
  /\ IF path = None THEN MakeFile ELSE UNCHANGED disk
  /\ UNCHANGED <<opens, checked, conn, read, work, moves>>

LookAgain(p) ==
  /\ pc[p] = "look again"
  /\ IF path = None THEN Fail(p) ELSE TakeIdentity(p)

(* open_with_flags, without the flag that creates.                         *)
OpenFile(p) ==
  /\ pc[p] = "open"
  /\ IF path = None THEN Fail(p)
     ELSE /\ conn' = [conn EXCEPT ![p] = path]
          /\ Goto(p, "compare")
          /\ UNCHANGED <<disk, opens, checked, read, work, moves>>

(* Faulty variants: the second look is dropped; the connection is kept.    *)
CompareNothing(p) ==
  /\ pc[p] = "compare"
  /\ Goto(p, "begin")
  /\ UNCHANGED <<disk, opens, checked, conn, read, work, moves>>

CompareAndKeep(p) ==
  /\ pc[p] = "compare"
  /\ Goto(p, IF path # None /\ path \in private /\ path = checked[p] THEN "begin" ELSE "off")
  /\ UNCHANGED <<disk, opens, checked, conn, read, work, moves>>

Compare(p) ==
  /\ pc[p] = "compare"
  /\ IF path # None /\ path \in private /\ path = checked[p]
       THEN Goto(p, "begin") /\ UNCHANGED <<disk, opens, checked, conn, read, work, moves>>
       ELSE Fail(p)

-----------------------------------------------------------------------------
(* from_connection.                                                        *)

ReadSchema(p) ==
  /\ pc[p] = "begin"
  /\ Committers(conn[p]) = {}
  /\ Goto(p, "read")
  /\ read' = [read EXCEPT ![p] = content[conn[p]]]
  /\ UNCHANGED <<disk, opens, checked, conn, work, moves>>

InitializeSchema(p) ==
  /\ pc[p] = "read"
  /\ IF Initialize(read[p]).error = None /\ Writers(conn[p]) = {}
       THEN /\ work' = [work EXCEPT ![p] = Initialize(read[p]).db]
            /\ Goto(p, "writing")
            /\ UNCHANGED <<disk, opens, checked, conn, read, moves>>
       ELSE Fail(p)

CommitSchema(p) ==
  /\ pc[p] = "writing"
  /\ Goto(p, "committing")
  /\ UNCHANGED <<disk, opens, checked, conn, read, work, moves>>

Committed(p) ==
  /\ pc[p] = "committing"
  /\ Readers(conn[p]) = {p}
  /\ content' = [content EXCEPT ![conn[p]] = work[p]]
  /\ Goto(p, "serving")
  /\ read' = [read EXCEPT ![p] = None]
  /\ work' = [work EXCEPT ![p] = None]
  /\ moves' = [moves EXCEPT ![p] = {}]
  /\ UNCHANGED <<path, private, origin, changes, opens, checked, conn>>

WaitEnds(p) ==
  /\ \/ pc[p] = "begin" /\ Committers(conn[p]) # {}
     \/ pc[p] = "committing" /\ Readers(conn[p]) # {p}
  /\ Fail(p)

Open(p) ==
  \/ Lookup(p) \/ Create(p) \/ LookAgain(p) \/ OpenFile(p) \/ Compare(p)
  \/ ReadSchema(p) \/ InitializeSchema(p) \/ CommitSchema(p) \/ Committed(p) \/ WaitEnds(p)

-----------------------------------------------------------------------------
(* The daemons and their surroundings.                                     *)

Start(p) ==
  /\ pc[p] = "off"
  /\ opens < MaxOpens
  /\ opens' = opens + 1
  /\ Goto(p, "lookup")
  /\ UNCHANGED <<disk, checked, conn, read, work, moves>>

(* An import: a new version, with its operation and its lineage.           *)
WithVersion(db, r) ==
  [db EXCEPT !.versions = @ \cup {r}, !.accepted = @ \cup LinksOf({r}),
             !.parents = @ \cup LinksOf({r})]

Import(p) ==
  /\ pc[p] = "serving"
  /\ Readers(conn[p]) = {}
  /\ \E id \in VersionIds, parent \in VersionIds \cup {None} :
       LET db == content[conn[p]]
       IN  /\ \A r \in db.versions : r.id # id
           /\ parent # None => \E r \in db.versions : r.id = parent
           /\ content' = [content EXCEPT ![conn[p]] =
                WithVersion(db, [id |-> id, parent |-> parent, from |-> "native",
                                 fits |-> TRUE])]
  /\ UNCHANGED <<path, private, origin, changes, daemon>>

(* A daemon ends, or dies at any step of an open.                          *)
Stop(p) == pc[p] # "off" /\ Fail(p)

(* Another program takes the store's file away, puts one that was there in *)
(* its place, or a new one, as often as it likes.                          *)
Change == changes < MaxChanges /\ changes' = changes + 1

NoteMove ==
  moves' = [p \in Openers |-> IF pc[p] \in Windows THEN moves[p] \cup {pc[p]} ELSE moves[p]]

Replace ==
  /\ Change
  /\ \/ /\ path # None /\ path' = None
        /\ UNCHANGED <<content, private, origin>>
     \/ /\ \E f \in Files : f # path /\ content[f] # None /\ path' = f
        /\ UNCHANGED <<content, private, origin>>
     \/ \E f \in Files, db \in Replacements :
          NewFile(f, db) /\ private' \in {private \ {f}, private \cup {f}}
  /\ NoteMove
  /\ UNCHANGED <<opens, pc, checked, conn, read, work>>

(* It changes the owner or the mode of a file.                             *)
ChangeMode ==
  /\ Change
  /\ \E f \in Files : content[f] # None /\ private' \in {private \ {f}, private \cup {f}}
  /\ UNCHANGED <<path, content, origin, daemon>>

-----------------------------------------------------------------------------

Init ==
  /\ \/ /\ path = None
        /\ private = {}
        /\ content = [f \in Files |-> None]
     \/ /\ path \in Files
        /\ private \in {{}, {path}}
        /\ \E db \in Stores : content = [f \in Files |-> IF f = path THEN db ELSE None]
  /\ origin = content
  /\ changes = 0
  /\ opens = 0
  /\ pc = [p \in Openers |-> "off"]
  /\ checked = [p \in Openers |-> None]
  /\ conn = [p \in Openers |-> None]
  /\ read = [p \in Openers |-> None]
  /\ work = [p \in Openers |-> None]
  /\ moves = [p \in Openers |-> {}]

Next == Replace \/ ChangeMode \/ \E p \in Openers : Start(p) \/ Open(p) \/ Import(p) \/ Stop(p)

Spec == Init /\ [][Next]_vars

(* A daemon that is opening the store goes on, and SQLite's waits end.     *)
FairSpec == Spec /\ \A p \in Openers : WF_vars(Open(p))

-----------------------------------------------------------------------------
(* Types: a daemon has a connection where it can, what it read while its   *)
(* transaction lasts, and what it wrote while it writes.                   *)
TypeOK ==
  /\ path \in Files \cup {None}
  /\ content \in [Files -> Db \cup {None}]
  /\ origin \in [Files -> Db \cup {None}]
  /\ private \subseteq Files
  /\ \A f \in Files : f \in private \cup {path} => content[f] # None
  /\ \A f \in Files : content[f] = None <=> origin[f] = None
  /\ changes \in 0 .. MaxChanges
  /\ opens \in 0 .. MaxOpens
  /\ pc \in [Openers -> Places]
  /\ checked \in [Openers -> Files \cup {None}]
  /\ conn \in [Openers -> Files \cup {None}]
  /\ read \in [Openers -> Db \cup {None}]
  /\ work \in [Openers -> Db \cup {None}]
  /\ moves \in [Openers -> SUBSET Windows]
  /\ \A p \in Openers :
       /\ conn[p] # None <=> pc[p] \in Connected
       /\ conn[p] # None => content[conn[p]] # None
       /\ read[p] # None <=> pc[p] \in {"read", "writing", "committing"}
       /\ work[p] # None <=> pc[p] \in {"writing", "committing"}
       /\ moves[p] # {} => pc[p] \in Windows \cup {"begin", "read", "writing", "committing"}

(* An upgrade is whole or has not happened (from_connection: one           *)
(* transaction; openspec/specs/event-replay-recovery): whatever daemons    *)
(* open, import, fail and die, a file holds what it held when it came to   *)
(* be, or a whole store of schema 3 with everything that was in it.        *)
UpgradeIsWhole ==
  \A f \in Files : content[f] # None => content[f] = origin[f] \/ Whole(content[f], origin[f])

(* A store that was ever written opens again: initialize accepts what it   *)
(* and the imports after it made, and has nothing more to do.              *)
ReopensSame ==
  \A f \in Files : content[f] # origin[f] => Initialize(content[f]) = Done(content[f])

(* What holds on the way: a transaction that has read keeps the others from*)
(* writing, and a daemon serves a whole store.                             *)
LockInv ==
  \A p \in Openers :
    /\ pc[p] \in {"read", "writing", "committing"} => read[p] = content[conn[p]]
    /\ pc[p] \in {"writing", "committing"} =>
         Initialize(read[p]).error = None /\ work[p] = Initialize(read[p]).db
    /\ pc[p] = "serving" => Initialize(content[conn[p]]) = Done(content[conn[p]])

(* Without a change of the path in a window of an open, what is on both    *)
(* sides of it is the same file.                                           *)
OpenInv ==
  \A p \in Openers :
    /\ pc[p] = "open" => checked[p] # None
    /\ pc[p] = "open" /\ "open" \notin moves[p] => path = checked[p]
    /\ pc[p] = "compare" /\ "open" \notin moves[p] => conn[p] = checked[p]
    /\ pc[p] = "compare" /\ "compare" \notin moves[p] => path = conn[p]
    /\ pc[p] \in {"begin", "read", "writing", "committing"} =>
         conn[p] = checked[p] \/ moves[p] = Windows

(* A daemon writes its upgrade over nothing but what it read: no version   *)
(* another daemon imported, and no upgrade another daemon made, is lost    *)
(* under it (from_connection: one transaction from the first read on).  It *)
(* writes it only to the file whose owner and mode it checked (Store::open:*)
(* look, open, look), but for one window: the path was changed after the   *)
(* first look and changed again before the second, and so may have named   *)
(* another file only while it was opened.                                  *)
CommitsToWhatItSaw ==
  [][\A p \in Openers, f \in Files :
       pc[p] = "committing" /\ pc'[p] = "serving" /\ conn[p] = f =>
         /\ f = checked[p] \/ moves[p] = Windows
         /\ Initialize(content[f]).error = None
         /\ content'[f] = Initialize(content[f]).db]_vars

(* An open ends, in a store that is served or in an error, whoever else    *)
(* opens it and whatever becomes of its path.                              *)
OpensEnd == \A p \in Openers : pc[p] \in Opening ~> pc[p] \notin Opening
=============================================================================
