# Akashic in TLA+

This directory holds TLA+ models of Akashic's daemon and artifact store, the
TLC configurations that check them on small instances, and proofs, checked by
TLAPS, of theorems about them for every instance. Paths below are relative to
the repository root.

To check a module: `tlc -config MCRecoverySafety.cfg MCRecovery.tla`. To check
proofs: `tlapm ArtifactLineageProofs.tla`. `PROJECT.json` lists every run, the
code lines behind every definition (`map`), a faulty variant of some definition
for each property (`mutants`), the hazards, findings and theorems.

## 1. Inventory

| Part | State | Operations | Correct when |
|---|---|---|---|
| Import and lineage (`src/artifacts/lineage.rs`) | tables artifacts, versions, operations, lineage, discrepancies; locals of one import | builder, `import`, `reject`, `version` | histories linear, one owner and one path per artifact, decisions final, accepted bytes are the file's, refusals on record |
| Store (`src/artifacts/store.rs`) | one SQLite connection | `open`, `observe` | what was committed reopens, a replaced store file is refused |
| Schema (`src/artifacts/schema.rs`) | tables, triggers, decisions, metadata | create, migrate 0-1-2-3, validate | a migration is whole or not at all; ambiguous stores are refused, own stores never |
| Events and projections (`src/artifacts/replay.rs`) | events, projections, rebuilds and their status, playbacks, simulations | append, rebuild, read, status, playback, evidence | what is returned as authoritative is the derivation of the current history; evidence stays true |
| Reconciliation and recovery (`src/artifacts/recovery.rs`) | runs and discrepancies, actions and outcomes, one file | three reconciliations, recover with checkpoint, retry | never overwrites, applied at most once and recorded, retries answer alike |
| Runtime directory (`src/runtime.rs`) | `daemon.lock`, `daemon.sock`, quarantine, Guard | `acquire`, `bind`, `cleanup`, Drop, `authorize_peer` | one daemon listens; cleanup takes only what is its own |
| Daemon and shutdown (`src/main.rs`, `src/shutdown.rs`) | two signal words, stopping flag, threads, deadline | accept loop, shutdown, signal handlers | a signalled daemon ends with the right code whatever its clients do |
| Client sessions (`src/main.rs`: FrameReader, handle_client, handle_request) | bytes on the socket, partial frame, handshake flag | frame, handshake, health, error | each line gets one response, in order; nothing before the handshake |
| CLI, doctor, clients (`src/main.rs`) | the connection, the response waited for, lines typed | parse, connect, request, print, exit | a verdict is proven; an exit code 0 leaves no request unanswered; nobody waits for ever |
| Configuration (`src/config.rs`) | none | read a file, resolve | precedence; a fault in any layer is an error |
| JSON (`src/json.rs`) | none | envelope, id of a damaged line | what is malformed is refused under the id it carries |
| Scripts (`scripts/`) | none | repository checks | not part of the program |

Interaction: `daemon()` takes the lock (runtime), opens the store, binds the
socket, and starts one thread per connection; the threads share only the
stopping flag with it. Clients and threads share a Unix socket. Two daemons
with one home and different runtime directories share the store's file. The store's operations are a library on one connection:
no request of the socket protocol reaches them at this commit, their callers
are the tests. Import, replay and recovery share the database; recovery reads
the newest accepted version and the status of projections. Outside actors are
an author's editor on the Markdown files, other programs of the user in the
runtime directory, clients, signals, and whoever edits the database file.

What is hard: file checks that are separate system calls; effects on files in
the middle of a transaction; statements committed one by one; retries after
lost answers and restarts; two signals, a deadline and threads in any order;
runs of reconciliation used long after they were made; lines cut into pieces
by two readers with limits of their own; upgrades of one store by two daemons
that may die at any step. The hazards of
`PROJECT.json` name each at its line.

## 2. Modules and how they correspond to the code

| Module | Models |
|---|---|
| `VersionHistory` | abstract specification: what an observer of the store relies on |
| `ArtifactLineage` | `import`, `reject`, crash, reopen with `validate_core`, an editor |
| `DaemonLifecycle` | `acquire`, `bind`, `cleanup`, `daemon()`, signals, client threads, other programs |
| `EventReplay` | `replay.rs`, crash, a program that forges projection rows |
| `Recovery` | `recovery.rs`, crash, the author of the file |
| `FrameReader` | the reader of lines of both ends of a connection |
| `Protocol` | `handle_request`, error frames, what a client makes of an answer; the parser's verdicts |
| `Configuration` | `parse_args`, `config.rs` |
| `ClientSession` | one client process, its socket, the handler thread and a daemon that stops or dies |
| `StoreSchema` | `schema::initialize` as a function of what a store holds |
| `SchemaMigration` | daemons that open one store file: `Store::open`, the transaction, SQLite's locks, other programs |
| `MC*` | instances of each for TLC |
| `ArtifactLineageProofs`, `DaemonLifecycleProofs`, `EventReplayProofs`, `RecoveryProofs`, `ClientSessionProofs`, `SchemaMigrationProofs` | theorems |
| `ClientLinesProofs` | what `Take` and `AtEnd` make of any stream, and what writing does to its lines |
| `ClientAnswersProofs` | the theorems of `ClientSession` about lines and their answers |

`ClientSession` composes `FrameReader` (twice: the handler's and that of `run
--jsonl`), `Protocol` and `Configuration`; `SchemaMigration` extends
`StoreSchema`. `DaemonLifecycle` and `ClientSession` model the daemon's end from two
sides: the first has every system call of its start and end and clients that
only poll, the second every byte of one client and an end in four steps.

**ArtifactLineage.** Tables are functions from a key to a row; `versions[a]` is
the sequence of rows of one artifact in rowid order. `pc` follows an import:
`built` (builder done, identity captured), `admitted` (all checks against the
database and the durable file passed), `staged` (second look passed),
`verified` (last look, inside the transaction, passed), `refusing` (a reason is
chosen, `reject` runs). Each file observation is an action of its own; all that
touches only the database between two observations is one action, because one
connection owns it. `Objection` is the chain of checks in the code's order.
Errors of the last observation roll back (`RollBack`); all others go through
`Reject`. `edits` is a ghost: in which windows of the running import the editor
changed its file.

**DaemonLifecycle.** `pc[d]` is the place of daemon `d`'s main thread, with a
place before and after every system call on the socket file. Closing the
listener, cleanup by Drop and the release of the lock are separate steps, in
the order Rust drops the locals of `daemon()`. A cleanup is `CheckIdentity`,
`RenameAway`, `Verify`, `RenameBack`, shared by its three callers through
`resume`. Handler threads poll, read, answer, finish or panic. A late count
(ghost, capped at 2) says how often a connection was answered after stopping.

**EventReplay.** `events` is the history in query order. A generation, SHA-256
of the rows, is the rows themselves. `mark_projection_status` is two actions, since
its statements are committed one after the other; every other call is one. `Forge`
writes what the triggers of `projections` admit, as tests do, and `forged`
remembers (ghost) which projections it touched since their last rebuild.

**Recovery.** One scope, one target. A run is the set of its bad surfaces and
the provenance of its file discrepancy; a recovery may use any recorded run,
however old. `Bind`, `CreateFile`, `WriteFile`, `VerifyFile`, `Commit` are the
steps between which the author and crashes act. What the transaction inserted
goes when it is dropped; what was done to the file stays. Ghosts: `effects`
(files made per operation, capped at 2), `lost` (operations with an effect and
no record), `touched` (the author acted since the last look).

**FrameReader, Protocol, Configuration.** Pure operators. A byte is a piece of a
line: an id, the rest of an envelope, padding, junk, a piece that is no UTF-8, a
newline; a limit counts pieces. `Take` is one turn of the loop of `next`, `AtEnd`
its end of file. `CorrelationPrefix` is what `top_level_string_prefix` finds
in a line that may be cut anywhere. A configuration file is its sequence of
entries; `LineError`, `FileError` and `Resolve` keep the order in which the code finds
faults, because the first decides the error.

**ClientSession.** `pc` follows the client from its command line to its exit;
`sent` and `replies` are all bytes and responses ever written, `fetched`, `received` and
`read` how far each end has come. The client writes a request in any pieces; the
handler's BufReader fetches any amount, its FrameReader takes a byte at a time,
and a read that times out returns to the check of the stopping flag with the
partial frame kept. An end that closes with unread bytes resets the other, as
Unix sockets do, and a reset loses no response already written. A second kind of
client, any program of the user, writes what it likes without waiting. The
ghost `killed` tells a daemon that died from one that stopped.

**StoreSchema.** A store is its version, its objects (groups of tables, columns,
indexes and triggers, as the descriptors check them), version rows, the links
of operations and lineage, and decisions. `FromV0` to `FromV3` are the branches of
`initialize`, each with its checks in order; a refusal is an error without a
store. `Whole` says what an upgrade owes to the old store and is stated
without reference to those branches.

**SchemaMigration.** One action per system call or statement that another actor
can come between: the lookup, the exclusive creation, the second lookup, the open,
the comparison of identities, the first read, the first write, the commit. `Fail`
is every error and the end of a daemon at any step: connection, locks and what was
written go. `Import` stands for the whole of `ArtifactLineage`. `origin` (ghost) is
what a file held when it came to be. Other programs act at any time and as often as
they like (`Replace`, `ChangeMode`): they take the file away, put another one or the first
one back in its place, make a new one, with an inode nobody has in use, and change owner
or mode. `moves` (ghost) is in which of the two windows of its open (`Windows`: between the
first look and the open, between the open and the second look) a daemon had its path changed.

## 3. Runs

| Run | Question | Result |
|---|---|---|
| `history` | Are histories linear, append-only, reopenable, and an implementation of `VersionHistory`? 3 operations, 2 owners, 2 artifacts | holds |
| `file` | Does a file-backed import accept only what is on disk, and keep its path? 2 operations, 2 paths, 2 contents, 2 inodes, an editor | holds, up to two named windows |
| `drift_record` | Does every drift leave a discrepancy? | violated: not the one of the last look (finding) |
| `drift_race` | Is drift of the inode always refused? | violated: not between the first two looks (finding) |
| `directory` | Does one daemon listen, and touch the path only with the lock? 2 daemons, 3 inodes, any other program | holds |
| `shutdown` | Does a signalled daemon end, with true exit codes? 1 daemon, 2 clients, both signals | holds |
| `own_socket` | Is the socket a cleanup removes the daemon's own? | violated: the identity is read from the path after bind (finding) |
| `replay` | Is what is returned current, published, and evidence for ever? 2 events, 4 bodies, 1 projection, 1 playback | holds |
| `recovery` | Untouched prior files, final results, one effect? 2 operations, 2 contents, 3 inodes, 1 stored run | holds |
| `session` | Is every line answered once and in order, every verdict proven, does every request return? One client of each kind, 3136 command lines with configurations, 74 inputs | holds; after a death of the daemon, answers may be missing in silence |
| `migration` | Is an upgrade whole or not there, serial with other daemons, final, and made in the file that was checked? 2 daemons, 2 files, 31 stores, 2 opens, 2 changes by other programs | holds, the last but for one named window |
| `effect_record` | Does every effect have a record? | violated: not after a crash or a failed write before the commit (finding) |

`FrozenUnlessRaced` and `CommitMatchesDisk` state exactly what the two drift
findings leave: outside the window between the first two looks an artifact's
bytes are frozen, and outside the one after the last look the accepted bytes
are the file's. `RemovedIsProven` is what remains of `RemovedIsOwn`, and
`OnceUnlessLost` of `EffectIsRecorded`. `CommitsToWhatItSaw` names one window too: `Store::open` never
asks the file it opened for its identity, so one that is at the path only while it is opened, with the
checked one moved away before and put back after, is upgraded whatever its owner and mode are.
A path that was changed in one window of the open only, as often as one likes, never misleads it.
The run reaches the window: without `moves[p] = Windows` in the property TLC finds this
history with two changes. (The test
`missing_store_is_created_owner_only_and_replacement_is_rejected_before_schema`,
`src/artifacts/tests/build_artifact_runtime_slice1.rs:1042`, tries a replacement that stays,
and that one is refused.)

### Bounds and why they are enough

Operations, owners, contents, paths, inodes and daemons are finite sets of
values the modules compare only for equality, so the interesting cases need as
few of them as can meet: three operations give a parent, a child and a rival
or a retry; two inodes a file and its replacement (three where a daemon's
socket, a foreign one and one in quarantine exist together); two contents the
accepted and another one. Histories are bounded by the operations, as each is
accepted once; event histories by `EventIds`. Named bounds: `MaxRuns` (different
runs kept in `Recovery`; runs are never removed, and one suffices, being
either the outdated or the fresh one when it is used), the caps of 2 on `effects` and `late`
(the properties distinguish none, one, more). Symmetry is used for safety
only, over sets that no definition singles out.

In `session` lines have one to six pieces and limits are three and four: a line
can be shorter than, equal to and longer than each limit, longer than one only,
hide a request behind the cut, and end in the middle of a character. Scripts
have up to three lines, so a line has a neighbour before and after it.
`SessionLasts` bounds the daemon: nothing is signalled, dies or starts once the
session is over. In `migration` `MaxOpens` is 2: two daemons at once, or one that
comes after the death or the finished upgrade of the other; two files are the one checked and
another, and as many as daemons, so that one that creates the store finds an inode. `MaxChanges`
is 2: a file another program puts at the path, at any step of either open, and the first
one put back. The 31 stores have every schema, whole and with one fault each that a check is there
for; the theorems hold for all of them, and for any number of opens and changes.

A migrated store, which starts with a version that has a legacy fingerprint,
is one of the initial states, so retries of legacy operations are covered.

### Fairness

Three runs need it. In `shutdown`, `FairSpec` assumes that the main thread of a daemon
that can step does (every loop of `daemon()` sleeps at most 10 ms and none of
its calls blocks: the listener is non-blocking) and that time reaches the
deadline. Nothing is assumed of client threads, clients, other programs or of
who starts daemons, so `SignalledEnds` holds even when no client thread ever
finishes. A crash is never required. In `session`, a client that is not waiting for
its user or its daemon runs on, a handler thread is scheduled (its reads time
out after 50 ms), and the accept loop polls; no user has to quit, no other
program has to write and no signal has to come. `RequestsReturn` then says that client and
daemon never wait for each other. In `migration`, a daemon that is opening the store goes
on, and SQLite gives a lock up waiting for after five seconds (rusqlite's
default busy timeout), which is the action `WaitEnds`; nobody is obliged to start,
import or stop.

## 4. Proofs

All theorems are about `Spec` for arbitrary constants under the named
assumptions of the modules. Most say that a marker is none of the values it stands
beside (NULL is no path, no identity, no reply; a kind of socket file is no
daemon): `NoneIsNoValue`, `NoneIsNone`, `DaemonsAreNoKind`, `NoneIsNothing`,
`NoneIsNoThing`, `NoneIsNoRecovery`, `NoAuthIsNone`, `NoneIsNoVersion`, `NoneIsNoFile`,
`NoneIsNoCode`, `CommandsAreClients`, `IdsDiffer`, `MarksAreMarks`. The others type a
constant: `SourceArtifactType`, `OtherKindsAreKinds`, `SignalExits` (a signal's exit
code is none of the daemon's own), `NumbersAreNumbers`, `UpperType`, `BodiesAreBodies`,
`ForgedArePayloads`, `AcceptedIsFile`, `OthersAreSurfaces`, `StoresAreDbs`,
`LimitsAreSizes`, `ScriptsAreBytes`, `DefaultsAllowed`, and the bounds as numbers.

`ArtifactLineageProofs`:
- `TypesHold`, `TypeCorrect`: `TypeInv` is the typing of every variable; that
  locals exist exactly while an import runs is needed to type the commit.
- `HistoryHolds`: `LinearHistory` is not inductive, since between the checks and
  the commit the request is only in `req`. `HistoryInv` adds `StillAdmitted`: a
  request that is past its checks still names the newest version as its parent,
  has a new operation, and agrees with the path of its artifact. It holds
  because only `Commit` changes `versions`, and it ends the import. `FileHasIdentity`
  and `ObservedIfFile` tie the recorded identity and the observation to the path.
- `HistoryIsLinear`, `PathIsFixed` follow; `RecordsAreFinal` proves the action
  property `AppendOnly` from it: rows are appended or inserted under free keys only.
- `AcceptsTheFile`, `BytesAreFrozen`: `FileInv` says what an import has seen so far and
  until which edit it is still so: after admission the file is what the newest row
  recorded, after the second look the observation is, after the last look the file is the
  observation. Every step of the editor in one of the two windows is in `edits`, and every
  other step leaves the file of the running import alone.
- `StoreAlwaysReopens`: `RowsInv` is `ValidateCore` with the checks of admission
  (`OwnerConflict`, `InvalidParent`) for a request that is past them, for these are what
  `validate_core` asks of the row the commit adds. A new operation has no discrepancy yet,
  because discrepancies belong to decided operations.
- `Refinement`: the import implements `VersionHistory`. A commit maps to `Accept`: its
  version is new because a version names its operation, which is undecided, and its owner is the
  one `artifacts` has, which all earlier rows of the artifact have as well (`RowsInv`).

`DaemonLifecycleProofs`:
- `TypeCorrect`: the type invariant.
- `LockHolds`: a daemon that is past `acquire` and has not ended holds the lock,
  and only such a daemon has an open listener. The lock alone would not be
  enough: without the second part nothing says that a daemon that ends no
  longer listens.
- `Singleton`: at most one daemon listens, for any number of daemons and
  whatever other programs do to the socket file.
- `CleanupIsProven`, `PathIsVacated`, `CodesAreTrue`, `HolderTouches`: `DaemonInv` adds
  where the socket file of a living daemon can be. At the path it is that of the
  holder of the lock, and no inode is in two places (`EntryInv`); once its daemon has a
  proof it has the proven identity, and a rename that caught something else is undone
  (`ProofInv`); what an exit code tells is known before the code is chosen, and the code is
  chosen once (`ExitInv`). Neither part is inductive alone: that a verified file is the daemon's
  own needs that no other daemon lived at the path, which is the lock.
- `AtMostOneLate`: a thread that answered once since the flag was set looks at the flag
  before it reads again (`LateInv`).

`EventReplayProofs`: `Invariance` with `TypeOK`, `ReturnedIsCurrent`,
`AnsweredIsPublished`, `EvidenceStands` and `MarkInv`: while `mark_projection_status` is between its two
statements nothing has been answered, and what its update wrote is what its insert will
publish; authority is published before it is returned.
- `AuthorityIsCurrent`, `AnswersArePublished`, `EvidenceIsLasting` are its parts. Evidence lasts
  because the checks of an append admit an event at the end of its order only, so that a
  history that was played back exactly is still a prefix of what is there.
- `ReplacementNeedsSuccess`: only a rebuild of the whole history that succeeded, or the other
  program, replaces a projection or gives it authority.

`RecoveryProofs`: `Invariance` with `TypeOK`, `OnceUnlessLost` and `RecoveryInv`: a running
recovery has no action row yet and is bound to its own request; each effect of an
operation is recorded, lost, or that of the running recovery.
- `MadeOnce`, `FilesStay`, `ResultsAreFinal`, `AppliedIsWhole` follow, for every set of operations,
  contents, inodes and runs.

`ClientSessionProofs`:
- `TypeCorrect`, `HealthIsProven`: `IInv` is `TypeOK`, `SessionInv` and `VerdictIsProven`.
  `VerdictIsProven` alone is not inductive, since between the two requests only
  `due` remembers the first answer: `SessionInv` says that a client that waits for the
  health response has read a handshake response to its own request, and that a success
  carries no error code. `TypeOK` includes the bound on both readers, which needs that
  `Take` keeps it (`TakeType`).
- `ResolvedByPrecedence`: for all files, environments and flags, `Resolve` fails
  exactly when a layer is at fault (both directions are proved), and else gives each option the value of the
  highest layer that has one, in range. `ConfigurationHolds` derives
  `StartsConfigured` from it.

`ClientLinesProofs` relates the two accounts of the protocol, byte by byte and by whole
lines. `EndOf` counts newlines, so no induction over the stream is needed: `Rank(b, i)` is the
number of newlines among the first `i` bytes, `Partial(b, i)` is what follows the last
of them, and both change by at most one element with the next byte.
- `TracksTake`, `TracksEnd`: a reader that has read `i` bytes is `Cut(Partial(b, i), max)`, the open
  line up to the limit, and has given `Rank(b, i)` frames; the byte that ends a line makes it
  give `FrameOf` that line. That what lies behind the limit is dropped for good is
  part of it: the state after an oversized line is that after any other.
- The other lemmas say that complete lines, their frames and the answers due to them stay
  as they are when more is written, and which lines a request written in pieces makes.

`ClientAnswersProofs`:
- `AnswersInOrder`: `ThreadInv` says that the handler's reader tracks the stream, that
  it has given as many frames as there are answers (one more while it answers), and that
  its flag is up exactly if one of the frames answered opened the session. The client may end the
  stream while the handler is at any place; a stream that grows or ends leaves all this true
  (`ServedGrows`), and after the end nothing is written (`clientEnd # "open"` only with `pc = "ended"`).
- `PrintsInOrder`, `CleanExitHolds`: `PrintInv` adds `Asks`: the client's own reader tracks its
  input, the lines it sent are the complete ones so far, at most one of them is not
  answered, and both ends agree on whether the session is open, which is what makes an
  answer the one due to the line typed although the daemon never saw the lines answered on
  the spot. `Heard` is about the daemon: it answers only the line that is awaited
  and has then read all there is, so a close in order, with nothing unread, leaves no
  line unanswered. Without `Heard`, `CleanExitAnswered` is not inductive.

`SchemaMigrationProofs`:
- `InitializeIsWhole`: for every store in `Db`, an upgrade that is not refused is `Whole`.
  It needs no state, only the branches of `initialize`.
- `Invariance`: `IInv` is `TypeOK`, `LockInv`, `OpenInv` and `UpgradeIsWhole`. `LockInv` carries
  the argument about the content: a transaction that has read keeps others from committing, so
  what it read is still what the file holds, whoever moves the file. `OpenInv` carries the one
  about the file: while the path was not changed since the first look it names the file
  checked, while it was not changed since the open it names the file opened, and the inode
  of a file that is open is not given to a new one. A second look that finds the checked file
  therefore leaves only the open of that file, or a change in both windows.
- `UpgradesAreWhole`, `StoresReopen` (a whole store is accepted and left as it is, and an
  import keeps it whole) and `CommitsAreSerial` follow, for any number of
  daemons, files, versions, opens and changes by other programs.

Model-checked only: liveness (`SignalledEnds`, `SecondSignalDecides`, `RequestsReturn`,
`OpensEnd`, out of this prover's reach, as is anything that needs ENABLED). Every
invariant and every action property that a passing run checks is a theorem. `ThreadInv`, `JsonlInv`
and the other strengthenings were checked by TLC on the instances of the runs before they were
proved. Hashes are injective by
assumption of the model; nothing is proved about SHA-256 or about the 63 bits of a
generation.

## 5. Left out, and why

- SQLite: transactions are atomic and durable. Errors of statements other than
  uniqueness conflicts that the code relies on end a call without a change and are left out.
- Reads and writes of a file are each one step; `observe` compares length and
  inode only, so a file rewritten in place while it is read may be hashed torn.
- `authorize_peer` sends an error and drops the connection; no state changes.
- Two runtime directories (two values of `XDG_RUNTIME_DIR`) with one home share
  a store: modelled for its opening (`SchemaMigration`); imports and recoveries of
  `ArtifactLineage` and `Recovery` have one connection.
- Upgrades: refused operations, discrepancies, projections and records are not in
  the abstract store, and a table with a changed column is the object "other". A program that
  writes into the store's file without SQLite, and a rollback journal that SQLite finds by
  the path of a file another program moved, are left out.
- The JSON grammar: escapes, numbers, the depth bound. The lookup of the configuration
  files. The text that doctor and tui print.
- `reconcile_owned_with_change` is only called with an empty change.
- Mode, owner and symlink checks of directories: one failing outcome.

What the models show of the code and no run states as a property, because the
documents leave it open or another part than the modelled one decides it:
- doctor finds a stale socket without a listener an error with exit code 1;
  `openspec/specs/project-foundation/spec.md:28` asks for degraded and 4 where "no socket/listener exists".
- A daemon that dies makes `run --jsonl` print nothing for the request on its way and go
  on; its next write fails, or its input ends and it exits with 0.
- A store of schema 1 that has tables of slice 3 is always refused, and one
  that has a table of decisions keeps it as it is, without the tables made next to it, and
  is refused by the checks of schema 2. A store of schema 3 without the tables of slice 4
  gets empty ones in silence.

What the models show that disagrees with a document, without a run of its own:
- A peer that `authorize_peer` refuses gets an error under a correlation id made for
  it, which `FailureCode` does not take for an answer to the client's request, so doctor and tui
  report `protocol.malformed`. `openspec/specs/project-foundation/spec.md:32` asks for "the underlying
  protocol or authorization code". `Refuse` is in `ClientSession`, but doctor and tui
  connect only after `runtime::probe` found the directory to be of their own user, and the daemon
  that has its socket there is of the same user: a run would end in a refusal no such
  client meets.
- `openspec/specs/runtime-contracts/spec.md:37` says that "every response and error `correlation_id`
  MUST equal the triggering request `id`". A request that is too long and has its id behind
  the limit is answered under a fresh id, because `frame_error` (`src/main.rs:364`) only has the
  part that was kept, and one that is not UTF-8 always is. `FrameError` does the same, and
  `AnsweredInOrder` and `PrintedInOrder` state the answers with these ids.

## 6. Plan

Done since the first version of this plan: `ClientSession` and `SchemaMigration`, with
`Configuration` as a function checked against `Highest`, a second account of precedence,
and `FrameReader` against whole lines; and the proofs of every safety property
that a passing run checks.

1. *Composition* of `ArtifactLineage` and `Recovery` on one file: what a
   recovered file, with its new inode, means for later imports and reconciliations.
2. *Rows of later slices* in `StoreSchema`, and imports of two daemons at once.
3. *Proofs* of what these add, and that `ClientSession`'s daemon, which ends in four steps,
   is an abstraction of `DaemonLifecycle`.
