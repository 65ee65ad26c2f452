-------------------------- MODULE DaemonLifecycle --------------------------
(***************************************************************************)
(* Daemon processes of one user that share a runtime directory: the lock   *)
(* and the socket of src/src/runtime.rs, the accept loop and the shutdown  *)
(* of src/src/main.rs (daemon), its signal handlers (src/src/shutdown.rs)  *)
(* and the client threads as far as shutdown sees them.  Other programs of *)
(* the user may remove or replace the socket file at any time, a process   *)
(* may be killed at any step, and every system call on the socket file is  *)
(* a step of its own.                                                      *)
(*                                                                         *)
(* Abstractions.  A file is its inode and what is behind it; directory and *)
(* lock file are those the checks of acquire accepted, or acquire fails.   *)
(* What clients and daemon say to each other is left out.  Sleeping takes  *)
(* no step of its own; of time only the shutdown deadline is modelled, as  *)
(* a flag.  A name in quarantine is never reused, so the file in it is     *)
(* only remembered until its daemon starts again.                          *)
(***************************************************************************)
EXTENDS Naturals, FiniteSets

CONSTANTS
  Daemons,      \* daemon processes; a daemon that ended may be started again
  Clients,      \* connections, at most one handler thread for each
  Signals,      \* SIGINT, SIGTERM
  SignalExit,   \* the exit code of each
  Inodes,       \* device:inode identities in the runtime directory
  OtherKinds,   \* what other programs may put at daemon.sock
  None

(* What is behind a file that is no socket of a running daemon: a socket   *)
(* of the user that answers, one that refuses, or anything else.           *)
Kinds == {"live", "dead", "file"}

ASSUME OtherKindsAreKinds == OtherKinds \subseteq Kinds
ASSUME SignalExits == SignalExit \in [Signals -> Nat \ {0, 1, 2, 4, 101, 124}]

Maybe(S) == S \cup {None}

Node == [ino : Inodes, kind : Kinds \cup Daemons]

ASSUME NoneIsNone ==
  None \notin Daemons \cup Signals \cup Inodes \cup Nat \cup Node

ASSUME DaemonsAreNoKind == Daemons \cap Kinds = {}

VARIABLES
  lock,       \* the daemon that holds the flock on daemon.lock
  entry,      \* the file named daemon.sock
  aside,      \* daemon -> the file it has renamed into quarantine
  pc,         \* daemon -> where its main thread is
  listens,    \* daemon -> inode of the socket its open listener is bound to
  before,     \* daemon -> pathname_before of bind
  proof,      \* daemon -> cleanup_identity of its Guard
  resume,     \* daemon -> where a running cleanup returns to
  removed,    \* daemon -> a cleanup succeeded
  code,       \* daemon -> the exit code it returns with
  first,      \* daemon -> FIRST_SIGNAL
  second,     \* daemon -> SECOND_SIGNAL
  stopping,   \* daemon -> the flag its handler threads poll
  expired,    \* daemon -> its shutdown deadline has passed
  handlers,   \* daemon -> client -> where the handler thread of the client is
  late        \* ghost: daemon -> client -> frames answered since stopping was set

directory == <<lock, entry, aside>>
binding   == <<listens, before, proof, resume, removed>>
signals   == <<first, second>>
threads   == <<stopping, expired, handlers, late>>
vars      == <<directory, pc, binding, code, signals, threads>>

MainStates ==
  {"ended", "starting", "locked", "opened", "connecting", "vacant", "bound", "proving",
   "ready", "serving", "accepting", "stopping", "window", "checking", "renaming",
   "verifying", "restoring", "cleaned", "uncleaned", "broken", "draining", "deciding",
   "release"}

HandlerStates == {"none", "polling", "reading", "answering", "finished", "panicked"}

Alive(d)  == pc[d] # "ended"
Holds(d)  == pc[d] \notin {"ended", "starting"}

-----------------------------------------------------------------------------
(* Starting.                                                               *)

(* install_signal_handlers forgets earlier signals; a process has no other *)
(* memory of an earlier life.                                              *)
Start(d) ==
  /\ pc[d] = "ended"
  /\ pc'       = [pc EXCEPT ![d] = "starting"]
  /\ aside'    = [aside EXCEPT ![d] = None]
  /\ before'   = [before EXCEPT ![d] = None]
  /\ proof'    = [proof EXCEPT ![d] = None]
  /\ resume'   = [resume EXCEPT ![d] = "release"]
  /\ removed'  = [removed EXCEPT ![d] = FALSE]
  /\ code'     = [code EXCEPT ![d] = None]
  /\ first'    = [first EXCEPT ![d] = None]
  /\ second'   = [second EXCEPT ![d] = None]
  /\ stopping' = [stopping EXCEPT ![d] = FALSE]
  /\ expired'  = [expired EXCEPT ![d] = FALSE]
  /\ late'     = [late EXCEPT ![d] = [c \in Clients |-> 0]]
  /\ UNCHANGED <<lock, entry, listens, handlers>>

(* A signal is the first or the second; any further one is not noted.      *)
Signal(d, s) ==
  /\ Alive(d)
  /\ IF first[d] = None
     THEN first' = [first EXCEPT ![d] = s] /\ UNCHANGED second
     ELSE second[d] = None /\ second' = [second EXCEPT ![d] = s] /\ UNCHANGED first
  /\ UNCHANGED <<directory, pc, binding, code, threads>>

Goto(d, place) ==
  /\ pc' = [pc EXCEPT ![d] = place]
  /\ UNCHANGED <<binding, code, signals, threads>>

(* Returning without a Guard.                                              *)
ReturnUnlocked(d, exit) ==
  /\ pc' = [pc EXCEPT ![d] = "ended"]
  /\ code' = [code EXCEPT ![d] = exit]
  /\ UNCHANGED <<directory, binding, signals, threads>>

(* Faulty variant of Leave: the Guard has no Drop.                         *)
LeaveUncleaned(d, exit) ==
  /\ pc' = [pc EXCEPT ![d] = "release"]
  /\ listens' = [listens EXCEPT ![d] = None]
  /\ code' = [code EXCEPT ![d] = exit]
  /\ UNCHANGED <<before, proof, resume, removed, signals, threads>>

(* Returning with one: the listener is closed, then Drop runs cleanup,     *)
(* then the lock goes.                                                     *)
Leave(d, exit) ==
  /\ pc' = [pc EXCEPT ![d] = "checking"]
  /\ resume' = [resume EXCEPT ![d] = "release"]
  /\ listens' = [listens EXCEPT ![d] = None]
  /\ code' = [code EXCEPT ![d] = exit]
  /\ UNCHANGED <<before, proof, removed, signals, threads>>

(* Directory or lock file fail their checks.                               *)
RuntimeUnsafe(d) == pc[d] = "starting" /\ ReturnUnlocked(d, 2)

(* Faulty variant of LockTaken: a shared lock.                              *)
LockNeverTaken == FALSE

LockTaken == lock # None

AcquireLock(d) ==
  /\ pc[d] = "starting"
  /\ ~LockTaken
  /\ lock' = d
  /\ Goto(d, "locked")
  /\ UNCHANGED <<entry, aside>>

DaemonRunning(d) ==
  /\ pc[d] = "starting"
  /\ LockTaken
  /\ ReturnUnlocked(d, 4)

OpenStore(d) ==
  /\ pc[d] = "locked"
  /\ Goto(d, "opened") \/ Leave(d, 1) \/ Leave(d, 2)
  /\ UNCHANGED directory

(* bind() looks at the path, then tries to connect; both ways a refusal is *)
(* answered end in Unsafe, so a stale socket is never replaced.            *)
Answers(node) ==
  node.kind = "live" \/ (node.kind \in Daemons /\ listens[node.kind] # None)

InspectSocket(d) ==
  /\ pc[d] = "opened"
  /\ \/ entry = None /\ Goto(d, "vacant")
     \/ entry # None /\ entry.kind = "file" /\ Leave(d, 2)
     \/ entry # None /\ entry.kind # "file" /\ Goto(d, "connecting")
  /\ UNCHANGED directory

ConnectSocket(d) ==
  /\ pc[d] = "connecting"
  /\ Leave(d, IF entry # None /\ Answers(entry) THEN 4 ELSE 2)
  /\ UNCHANGED directory

(* A socket that is still bound keeps its inode from being used again.     *)
UsedInodes ==
  {n.ino : n \in ({aside[d] : d \in Daemons} \cup {entry}) \ {None}}
    \cup {listens[d] : d \in Daemons}
FreeInodes == Inodes \ UsedInodes

BindSocket(d) ==
  /\ pc[d] = "vacant"
  /\ entry = None
  /\ \E i \in FreeInodes :
       /\ entry' = [ino |-> i, kind |-> d]
       /\ listens' = [listens EXCEPT ![d] = i]
  /\ pc' = [pc EXCEPT ![d] = "bound"]
  /\ UNCHANGED <<lock, aside, before, proof, resume, removed, code, signals, threads>>

BindFails(d) ==
  /\ pc[d] = "vacant"
  /\ Leave(d, 2)
  /\ UNCHANGED directory

(* socket_identity, and its faulty variant.                                *)
WholeNode(node)  == node
IdentityOf(node) == node.ino

(* The identity of the socket is what the path names twice in a row.       *)
ProvePathname(d) ==
  /\ pc[d] = "bound"
  /\ entry # None
  /\ before' = [before EXCEPT ![d] = IdentityOf(entry)]
  /\ pc' = [pc EXCEPT ![d] = "proving"]
  /\ UNCHANGED <<directory, listens, proof, resume, removed, code, signals, threads>>

ProveStable(d) ==
  /\ pc[d] = "proving"
  /\ entry # None /\ IdentityOf(entry) = before[d]
  /\ proof' = [proof EXCEPT ![d] = before[d]]
  /\ pc' = [pc EXCEPT ![d] = "ready"]
  /\ UNCHANGED <<directory, listens, before, resume, removed, code, signals, threads>>

(* One of the proofs fails: the socket file stays.                         *)
SocketUnproven(d) ==
  /\ pc[d] \in {"bound", "proving"}
  /\ Leave(d, 2)
  /\ UNCHANGED directory

MakeNonblocking(d) ==
  /\ pc[d] = "ready"
  /\ Goto(d, "serving") \/ Leave(d, 1)
  /\ UNCHANGED directory

-----------------------------------------------------------------------------
(* The accept loop.                                                        *)

StopServing(d) ==
  /\ pc[d] = "serving"
  /\ first[d] # None
  /\ stopping' = [stopping EXCEPT ![d] = TRUE]
  /\ pc' = [pc EXCEPT ![d] = "stopping"]
  /\ UNCHANGED <<directory, binding, code, signals, expired, handlers, late>>

PollSignal(d) ==
  /\ pc[d] = "serving"
  /\ first[d] = None
  /\ Goto(d, "accepting")
  /\ UNCHANGED directory

(* Nobody connects, or a peer of another user, who is sent an error.       *)
AcceptNobody(d) ==
  /\ pc[d] = "accepting"
  /\ Goto(d, "serving")
  /\ UNCHANGED directory

Accept(d, c) ==
  /\ pc[d] = "accepting"
  /\ handlers[d][c] = "none"
  /\ handlers' = [handlers EXCEPT ![d][c] = "polling"]
  /\ pc' = [pc EXCEPT ![d] = "serving"]
  /\ UNCHANGED <<directory, binding, code, signals, stopping, expired, late>>

(* thread::spawn panics: the main thread unwinds.                          *)
SpawnPanics(d) ==
  /\ pc[d] = "accepting"
  /\ Leave(d, 101)
  /\ UNCHANGED directory

(* The first cleanup runs with the listener open, the second by Drop.      *)
AcceptFails(d) ==
  /\ pc[d] = "accepting"
  /\ stopping' = [stopping EXCEPT ![d] = TRUE]
  /\ resume' = [resume EXCEPT ![d] = "broken"]
  /\ pc' = [pc EXCEPT ![d] = "checking"]
  /\ UNCHANGED <<directory, listens, before, proof, removed, code, signals,
                 expired, handlers, late>>

ReturnBroken(d) ==
  /\ pc[d] = "broken"
  /\ Leave(d, 1)
  /\ UNCHANGED directory

-----------------------------------------------------------------------------
(* Shutdown.                                                               *)

CloseListener(d) ==
  /\ pc[d] = "stopping"
  /\ listens' = [listens EXCEPT ![d] = None]
  /\ pc' = [pc EXCEPT ![d] = "window"]
  /\ UNCHANGED <<directory, before, proof, resume, removed, code, signals, threads>>

(* The three places that look for a second signal.                         *)
LeaveOnSecond(d) ==
  /\ second[d] # None
  /\ Leave(d, SignalExit[second[d]])
  /\ UNCHANGED directory

Window(d) ==
  /\ pc[d] = "window"
  /\ \/ LeaveOnSecond(d)
     \/ /\ second[d] = None
        /\ resume' = [resume EXCEPT ![d] = "cleaned"]
        /\ pc' = [pc EXCEPT ![d] = "checking"]
        /\ UNCHANGED <<directory, listens, before, proof, removed, code, signals, threads>>

AfterCleanup(d) ==
  /\ pc[d] \in {"cleaned", "uncleaned"}
  /\ \/ LeaveOnSecond(d)
     \/ second[d] = None /\ pc[d] = "uncleaned" /\ Leave(d, 1) /\ UNCHANGED directory
     \/ second[d] = None /\ pc[d] = "cleaned" /\ Goto(d, "draining") /\ UNCHANGED directory

(* Faulty variant of Drain: it does not look.                              *)
DrainBlindly(d) == pc[d] = "draining" /\ Goto(d, "deciding") /\ UNCHANGED directory

Drain(d) ==
  /\ pc[d] = "draining"
  /\ LeaveOnSecond(d) \/ (second[d] = None /\ Goto(d, "deciding") /\ UNCHANGED directory)

(* Faulty variant: some handler has finished.                              *)
SomeFinished(d) == Clients = {} \/ \E c \in Clients : handlers[d][c] \in {"none", "finished"}

AllFinished(d) == \A c \in Clients : handlers[d][c] \in {"none", "finished", "panicked"}

(* Faulty variant: the deadline never passes.                              *)
NoDeadline(d) == FALSE

DeadlinePassed(d) == expired[d]

Decide(d) ==
  /\ pc[d] = "deciding"
  /\ \/ /\ AllFinished(d)
        /\ \/ (\E c \in Clients : handlers[d][c] = "panicked") /\ Leave(d, 1)
           \/ /\ \A c \in Clients : handlers[d][c] # "panicked"
              /\ Leave(d, IF second[d] # None THEN SignalExit[second[d]] ELSE 0)
     \/ ~AllFinished(d) /\ DeadlinePassed(d) /\ Leave(d, 124)
     \/ ~AllFinished(d) /\ ~DeadlinePassed(d) /\ Goto(d, "draining")
  /\ UNCHANGED directory

(* Time, from the end of the cleanup on.                                   *)
Expire(d) ==
  /\ pc[d] \in {"draining", "deciding"}
  /\ ~expired[d]
  /\ expired' = [expired EXCEPT ![d] = TRUE]
  /\ UNCHANGED <<directory, pc, binding, code, signals, stopping, handlers, late>>

-----------------------------------------------------------------------------
(* cleanup(): the path must name the proven identity; it is renamed away;  *)
(* what was renamed must have the identity, or it is renamed back unless   *)
(* the name is taken.                                                      *)

CleanupDone(d, success) ==
  /\ pc' = [pc EXCEPT ![d] = IF resume[d] = "cleaned" /\ ~success THEN "uncleaned"
                             ELSE resume[d]]
  /\ removed' = [removed EXCEPT ![d] = @ \/ success]
  /\ UNCHANGED <<listens, before, proof, resume, code, signals, threads>>

(* Faulty variant: any file will do.                                       *)
IsThere(d, node) == proof[d] # None /\ node # None

IsProven(d, node) == proof[d] # None /\ node # None /\ node.ino = proof[d]

CheckIdentity(d) ==
  /\ pc[d] = "checking"
  /\ \/ IsProven(d, entry) /\ Goto(d, "renaming")
     \/ ~IsProven(d, entry) /\ CleanupDone(d, FALSE)
  /\ UNCHANGED directory

RenameAway(d) ==
  /\ pc[d] = "renaming"
  /\ \/ /\ entry # None
        /\ aside' = [aside EXCEPT ![d] = entry]
        /\ entry' = None
        /\ Goto(d, "verifying")
     \/ /\ entry = None
        /\ CleanupDone(d, FALSE)
        /\ UNCHANGED <<entry, aside>>
  /\ UNCHANGED lock

Verify(d) ==
  /\ pc[d] = "verifying"
  /\ \/ IsProven(d, aside[d]) /\ CleanupDone(d, TRUE)
     \/ ~IsProven(d, aside[d]) /\ Goto(d, "restoring")
  /\ UNCHANGED directory

RenameBack(d) ==
  /\ pc[d] = "restoring"
  /\ IF entry = None
     THEN entry' = aside[d] /\ aside' = [aside EXCEPT ![d] = None]
     ELSE UNCHANGED <<entry, aside>>
  /\ CleanupDone(d, FALSE)
  /\ UNCHANGED lock

(* The process is gone: its threads, its lock, and whoever listened behind *)
(* the socket file it may have left.                                       *)
End(d) ==
  /\ pc' = [pc EXCEPT ![d] = "ended"]
  /\ lock' = IF lock = d THEN None ELSE lock
  /\ entry' = IF entry # None /\ entry.kind = d THEN [entry EXCEPT !.kind = "dead"] ELSE entry
  /\ listens' = [listens EXCEPT ![d] = None]
  /\ handlers' = [handlers EXCEPT ![d] = [c \in Clients |-> "none"]]
  /\ UNCHANGED <<aside, before, proof, resume, removed, signals, stopping, expired, late>>

Release(d) == pc[d] = "release" /\ End(d) /\ UNCHANGED code

Crash(d) == Alive(d) /\ End(d) /\ code' = [code EXCEPT ![d] = None]

-----------------------------------------------------------------------------
(* A handler thread: it looks at the flag, reads until it has a frame or   *)
(* 50 ms pass without a byte, and answers.  How long a read or a write     *)
(* takes is up to the client.                                              *)

Handler(d, c, from, to) ==
  /\ handlers[d][c] = from
  /\ handlers' = [handlers EXCEPT ![d][c] = to]
  /\ UNCHANGED <<directory, pc, binding, code, signals, stopping, expired>>

(* Faulty variant: the flag is not looked at.                              *)
NeverToldToStop(d) == FALSE

ToldToStop(d) == stopping[d]

HandlerPolls(d, c) ==
  /\ Handler(d, c, "polling", IF ToldToStop(d) THEN "finished" ELSE "reading")
  /\ UNCHANGED late

(* A pending read, a frame, or the end of the connection.                  *)
HandlerReads(d, c) ==
  /\ \E to \in {"polling", "answering", "finished"} : Handler(d, c, "reading", to)
  /\ UNCHANGED late

(* A terminal frame or a failed write ends the connection.                 *)
HandlerAnswers(d, c) ==
  /\ \E to \in {"polling", "finished"} : Handler(d, c, "answering", to)
  /\ late' = [late EXCEPT ![d][c] = IF stopping[d] /\ @ < 2 THEN @ + 1 ELSE @]

(* Counted by the shutdown, though no code of the handler panics by design. *)
HandlerPanics(d, c) ==
  /\ \E from \in {"reading", "answering"} : Handler(d, c, from, "panicked")
  /\ UNCHANGED late

-----------------------------------------------------------------------------
(* Other programs.                                                         *)

OtherRemoves ==
  /\ entry # None
  /\ entry' = None
  /\ UNCHANGED <<lock, aside, pc, binding, code, signals, threads>>

OtherPuts ==
  /\ \E i \in FreeInodes, k \in OtherKinds : entry' = [ino |-> i, kind |-> k]
  /\ UNCHANGED <<lock, aside, pc, binding, code, signals, threads>>

Others == OtherKinds # {} /\ (OtherRemoves \/ OtherPuts)

-----------------------------------------------------------------------------
Init ==
  /\ lock = None
  /\ \/ entry = None
     \/ \E i \in Inodes, k \in OtherKinds : entry = [ino |-> i, kind |-> k]
  /\ aside = [d \in Daemons |-> None]
  /\ pc = [d \in Daemons |-> "ended"]
  /\ listens = [d \in Daemons |-> None]
  /\ before = [d \in Daemons |-> None]
  /\ proof = [d \in Daemons |-> None]
  /\ resume = [d \in Daemons |-> "release"]
  /\ removed = [d \in Daemons |-> FALSE]
  /\ code = [d \in Daemons |-> None]
  /\ first = [d \in Daemons |-> None]
  /\ second = [d \in Daemons |-> None]
  /\ stopping = [d \in Daemons |-> FALSE]
  /\ expired = [d \in Daemons |-> FALSE]
  /\ handlers = [d \in Daemons |-> [c \in Clients |-> "none"]]
  /\ late = [d \in Daemons |-> [c \in Clients |-> 0]]

Startup(d) ==
  \/ RuntimeUnsafe(d) \/ AcquireLock(d) \/ DaemonRunning(d) \/ OpenStore(d)
  \/ InspectSocket(d) \/ ConnectSocket(d) \/ BindSocket(d) \/ BindFails(d)
  \/ ProvePathname(d) \/ ProveStable(d) \/ SocketUnproven(d) \/ MakeNonblocking(d)

Serve(d) ==
  \/ StopServing(d) \/ PollSignal(d) \/ AcceptNobody(d)
  \/ \E c \in Clients : Accept(d, c)
  \/ SpawnPanics(d) \/ AcceptFails(d) \/ ReturnBroken(d)

Cleanup(d) == CheckIdentity(d) \/ RenameAway(d) \/ Verify(d) \/ RenameBack(d)

Shutdown(d) ==
  CloseListener(d) \/ Window(d) \/ AfterCleanup(d) \/ Drain(d) \/ Decide(d) \/ Release(d)

Main(d) == Startup(d) \/ Serve(d) \/ Cleanup(d) \/ Shutdown(d)

Handlers(d, c) ==
  HandlerPolls(d, c) \/ HandlerReads(d, c) \/ HandlerAnswers(d, c) \/ HandlerPanics(d, c)

Next ==
  \/ \E d \in Daemons :
       \/ Start(d) \/ Main(d) \/ Expire(d) \/ Crash(d)
       \/ \E s \in Signals : Signal(d, s)
       \/ \E c \in Clients : Handlers(d, c)
  \/ Others

Spec == Init /\ [][Next]_vars

(* The main thread runs and time passes; nothing is assumed of clients, of *)
(* handler threads, of other programs or of who starts daemons.            *)
FairSpec ==
  Spec /\ \A d \in Daemons : WF_vars(Main(d)) /\ WF_vars(Expire(d))

-----------------------------------------------------------------------------
(* Properties.                                                             *)

(* Every variable has its type.                                            *)
TypeOK ==
  /\ lock \in Maybe(Daemons)
  /\ entry \in Maybe(Node)
  /\ aside \in [Daemons -> Maybe(Node)]
  /\ pc \in [Daemons -> MainStates]
  /\ listens \in [Daemons -> Maybe(Inodes)]
  /\ before \in [Daemons -> Maybe(Inodes)]
  /\ proof \in [Daemons -> Maybe(Inodes)]
  /\ resume \in [Daemons -> {"release", "cleaned", "broken"}]
  /\ removed \in [Daemons -> BOOLEAN]
  /\ code \in [Daemons -> Maybe(Nat)]
  /\ first \in [Daemons -> Maybe(Signals)]
  /\ second \in [Daemons -> Maybe(Signals)]
  /\ stopping \in [Daemons -> BOOLEAN]
  /\ expired \in [Daemons -> BOOLEAN]
  /\ handlers \in [Daemons -> [Clients -> HandlerStates]]
  /\ late \in [Daemons -> [Clients -> 0 .. 2]]

(* At most one daemon has an open listener, even while other programs      *)
(* remove the socket file that would tell a second one off.                *)
OneListens ==
  \A d, e \in Daemons : listens[d] # None /\ listens[e] # None => d = e

(* Whatever a daemon does to the socket file, from its bind to the cleanup *)
(* of a Guard that is dropped, it does while it holds the lock.            *)
OnlyHolderTouches ==
  [][\A d \in Daemons :
       pc'[d] # pc[d] /\ (entry' # entry \/ aside'[d] \notin {aside[d], None}) => lock = d]_vars

(* A cleanup that reports success has taken away the file whose identity   *)
(* was proven at startup, however the path changed hands between its check *)
(* and its rename.                                                         *)
RemovedIsProven ==
  \A d \in Daemons : removed[d] => aside[d] # None /\ aside[d].ino = proof[d]

(* A daemon that proved its socket does not leave it at the path, whatever *)
(* made it return and with whatever exit code.                             *)
ExitVacates ==
  \A d \in Daemons :
    pc[d] = "release" /\ proof[d] # None => entry = None \/ entry.kind # d

(* Exit codes tell the truth: 0 only after a requested shutdown that took  *)
(* the socket away and left no thread behind or failed; 124 only after the *)
(* deadline; 4 only from a daemon that touched nothing.                    *)
ExitCodesTrue ==
  \A d \in Daemons :
    /\ code[d] = 0 =>
         /\ first[d] # None /\ removed[d]
         /\ \A c \in Clients : handlers[d][c] \in {"none", "finished"}
    /\ code[d] = 124 => first[d] # None /\ removed[d] /\ expired[d]
    /\ code[d] = 4 => listens[d] = None /\ proof[d] = None /\ aside[d] = None

(* Once the daemon is stopping a connection gets at most one more answer.  *)
OneLateAnswer == \A d \in Daemons, c \in Clients : late[d][c] <= 1

(* A serving daemon that is signalled ends, whatever its clients do.       *)
SignalledEnds ==
  \A d \in Daemons :
    pc[d] \in {"serving", "accepting"} /\ first[d] # None ~> pc[d] = "ended"

(* A second signal that is noted before the last look for it decides the   *)
(* exit code over a failed cleanup, a panicked thread and the deadline.    *)
Stoppable(d) ==
  /\ stopping[d] /\ code[d] = None /\ resume[d] # "broken"
  /\ pc[d] \notin {"deciding", "ended"}

SecondSignalDecides ==
  \A d \in Daemons, s \in Signals :
    Stoppable(d) /\ second[d] = s ~> pc[d] = "ended" /\ code[d] \in {SignalExit[s], None}

-----------------------------------------------------------------------------
(* What the requirements say and the code does not do.                     *)

(* "shutdown cleanup MUST occur ... only when inode/device still match the *)
(* socket created by that daemon" (openspec/specs/runtime-contracts, Lock  *)
(* and socket race safety): a cleanup that succeeded removed that socket.  *)
RemovedIsOwn ==
  \A d \in Daemons : removed[d] => aside[d].kind = d
=============================================================================
