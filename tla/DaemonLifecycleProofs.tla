----------------------- MODULE DaemonLifecycleProofs -----------------------
(***************************************************************************)
(* The lock of the runtime directory makes the daemon a singleton, for any *)
(* number of daemon processes, clients and signals, whatever other         *)
(* programs do to the socket file and wherever a daemon is killed.         *)
(***************************************************************************)
EXTENDS DaemonLifecycle, TLAPS

-----------------------------------------------------------------------------
(* Types.                                                                  *)

LEMMA TypeInit == Init => TypeOK
<1> SUFFICES ASSUME Init PROVE TypeOK
  OBVIOUS
<1>1. entry \in Maybe(Node)
  BY OtherKindsAreKinds DEF Init, Node, Maybe
<1>2. late \in [Daemons -> [Clients -> 0 .. 2]]
  BY DEF Init
<1> QED
  BY <1>1, <1>2 DEF Init, TypeOK, Maybe, MainStates, HandlerStates

LEMMA GotoType ==
  ASSUME TypeOK, NEW d \in Daemons, NEW place \in MainStates, Goto(d, place),
         UNCHANGED directory
  PROVE  TypeOK'
  BY DEF TypeOK, Goto, directory, binding, signals, threads

LEMMA LeaveType ==
  ASSUME TypeOK, NEW d \in Daemons, NEW exit \in Nat, Leave(d, exit), UNCHANGED directory
  PROVE  TypeOK'
  BY DEF TypeOK, Leave, Maybe, MainStates, directory, signals, threads

LEMMA CleanupDoneType ==
  ASSUME TypeOK, NEW d \in Daemons, NEW success \in BOOLEAN, CleanupDone(d, success),
         lock' \in Maybe(Daemons), entry' \in Maybe(Node), aside' \in [Daemons -> Maybe(Node)]
  PROVE  TypeOK'
<1>1. resume[d] \in MainStates
  BY DEF TypeOK, MainStates
<1>2. pc' \in [Daemons -> MainStates]
  BY <1>1 DEF CleanupDone, TypeOK, MainStates
<1>3. removed' \in [Daemons -> BOOLEAN]
  BY DEF CleanupDone, TypeOK
<1> QED
  BY <1>2, <1>3 DEF CleanupDone, TypeOK, signals, threads

LEMMA StartupType ==
  ASSUME TypeOK, NEW d \in Daemons, Startup(d) PROVE TypeOK'
<1>1. CASE RuntimeUnsafe(d) \/ DaemonRunning(d)
  <2>1. PICK exit \in {2, 4} : ReturnUnlocked(d, exit)
    BY <1>1 DEF RuntimeUnsafe, DaemonRunning
  <2>2. code' \in [Daemons -> Maybe(Nat)]
    BY <2>1 DEF ReturnUnlocked, TypeOK, Maybe
  <2> QED
    BY <2>1, <2>2 DEF ReturnUnlocked, TypeOK, MainStates, directory, binding, signals, threads
<1>2. CASE AcquireLock(d)
  BY <1>2 DEF AcquireLock, Goto, TypeOK, Maybe, MainStates, binding, signals, threads
<1>3. CASE OpenStore(d)
  BY <1>3, GotoType, LeaveType DEF OpenStore, MainStates
<1>4. CASE InspectSocket(d)
  BY <1>4, GotoType, LeaveType DEF InspectSocket, MainStates
<1>5. CASE ConnectSocket(d)
  BY <1>5, LeaveType DEF ConnectSocket
<1>6. CASE BindSocket(d)
  <2>1. PICK i \in FreeInodes : /\ entry' = [ino |-> i, kind |-> d]
                                /\ listens' = [listens EXCEPT ![d] = i]
    BY <1>6 DEF BindSocket
  <2>2. i \in Inodes /\ entry' \in Node
    BY <2>1 DEF FreeInodes, Node
  <2> QED
    BY <1>6, <2>1, <2>2 DEF BindSocket, TypeOK, Maybe, MainStates, signals, threads
<1>7. CASE BindFails(d) \/ SocketUnproven(d)
  BY <1>7, LeaveType DEF BindFails, SocketUnproven
<1>8. CASE ProvePathname(d)
  <2>1. entry.ino \in Inodes
    BY <1>8 DEF ProvePathname, TypeOK, Maybe, Node
  <2> QED
    BY <1>8, <2>1 DEF ProvePathname, IdentityOf, TypeOK, Maybe, MainStates,
                      directory, signals, threads
<1>9. CASE ProveStable(d)
  BY <1>9 DEF ProveStable, TypeOK, MainStates, directory, signals, threads
<1>10. CASE MakeNonblocking(d)
  BY <1>10, GotoType, LeaveType DEF MakeNonblocking, MainStates
<1> QED
  BY <1>1, <1>2, <1>3, <1>4, <1>5, <1>6, <1>7, <1>8, <1>9, <1>10 DEF Startup

LEMMA ServeType ==
  ASSUME TypeOK, NEW d \in Daemons, Serve(d) PROVE TypeOK'
<1>1. CASE StopServing(d)
  BY <1>1 DEF StopServing, TypeOK, MainStates, directory, binding, signals
<1>2. CASE PollSignal(d) \/ AcceptNobody(d)
  BY <1>2, GotoType DEF PollSignal, AcceptNobody, MainStates
<1>3. ASSUME NEW c \in Clients, Accept(d, c) PROVE TypeOK'
  BY <1>3 DEF Accept, TypeOK, MainStates, HandlerStates, directory, binding, signals
<1>4. CASE SpawnPanics(d) \/ ReturnBroken(d)
  BY <1>4, LeaveType DEF SpawnPanics, ReturnBroken
<1>5. CASE AcceptFails(d)
  BY <1>5 DEF AcceptFails, TypeOK, MainStates, directory, signals
<1> QED
  BY <1>1, <1>2, <1>3, <1>4, <1>5 DEF Serve

LEMMA CleanupType ==
  ASSUME TypeOK, NEW d \in Daemons, Cleanup(d) PROVE TypeOK'
<1>1. CASE CheckIdentity(d)
  BY <1>1, GotoType, CleanupDoneType DEF CheckIdentity, MainStates, TypeOK, directory
<1>2. CASE RenameAway(d)
  <2>1. CASE entry = None
    BY <1>2, <2>1, CleanupDoneType DEF RenameAway, TypeOK
  <2>2. CASE entry # None
    <3>1. entry' = None /\ aside' = [aside EXCEPT ![d] = entry] /\ UNCHANGED lock
      BY <1>2, <2>2 DEF RenameAway
    <3>2. aside' \in [Daemons -> Maybe(Node)] /\ entry' \in Maybe(Node)
      BY <3>1 DEF TypeOK, Maybe
    <3>3. Goto(d, "verifying")
      BY <1>2, <2>2 DEF RenameAway
    <3> QED
      BY <3>1, <3>2, <3>3 DEF Goto, TypeOK, MainStates, binding, signals, threads
  <2> QED
    BY <2>1, <2>2
<1>3. CASE Verify(d)
  BY <1>3, GotoType, CleanupDoneType DEF Verify, MainStates, TypeOK, directory
<1>4. CASE RenameBack(d)
  <2>1. entry' \in Maybe(Node) /\ aside' \in [Daemons -> Maybe(Node)]
    <3>1. CASE entry = None
      <4>1. entry' = aside[d] /\ aside' = [aside EXCEPT ![d] = None]
        BY <1>4, <3>1 DEF RenameBack
      <4> QED
        BY <4>1 DEF TypeOK, Maybe
    <3>2. CASE entry # None
      BY <1>4, <3>2 DEF RenameBack, TypeOK
    <3> QED
      BY <3>1, <3>2
  <2> QED
    BY <1>4, <2>1, CleanupDoneType DEF RenameBack, TypeOK
<1> QED
  BY <1>1, <1>2, <1>3, <1>4 DEF Cleanup

LEMMA EndType ==
  ASSUME TypeOK, NEW d \in Daemons, End(d), code' \in [Daemons -> Maybe(Nat)]
  PROVE  TypeOK'
<1>1. entry' \in Maybe(Node)
  <2>1. CASE entry # None /\ entry.kind = d
    <3>1. entry \in Node
      BY <2>1 DEF TypeOK, Maybe
    <3>2. [entry EXCEPT !.kind = "dead"] \in Node
      BY <3>1 DEF Node, Kinds
    <3> QED
      BY <2>1, <3>2 DEF End, Maybe
  <2>2. CASE ~(entry # None /\ entry.kind = d)
    BY <2>2 DEF End, TypeOK
  <2> QED
    BY <2>1, <2>2
<1> QED
  BY <1>1 DEF End, TypeOK, Maybe, MainStates, HandlerStates, signals

LEMMA ExitOfSecondType ==
  ASSUME TypeOK, NEW d \in Daemons, second[d] # None PROVE SignalExit[second[d]] \in Nat
  BY SignalExits DEF TypeOK, Maybe

LEMMA ShutdownType ==
  ASSUME TypeOK, NEW d \in Daemons, Shutdown(d) PROVE TypeOK'
<1>1. CASE CloseListener(d)
  BY <1>1 DEF CloseListener, TypeOK, Maybe, MainStates, directory, signals, threads
<1>2. ASSUME LeaveOnSecond(d) PROVE TypeOK'
  BY <1>2, ExitOfSecondType, LeaveType DEF LeaveOnSecond
<1>3. CASE Window(d) /\ ~LeaveOnSecond(d)
  BY <1>3 DEF Window, TypeOK, MainStates, directory, signals, threads
<1>4. CASE AfterCleanup(d) /\ ~LeaveOnSecond(d)
  BY <1>4, GotoType, LeaveType DEF AfterCleanup, MainStates
<1>5. CASE Drain(d) /\ ~LeaveOnSecond(d)
  BY <1>5, GotoType DEF Drain, MainStates
<1>6. CASE Decide(d)
  BY <1>6, GotoType, LeaveType, ExitOfSecondType DEF Decide, MainStates
<1>7. CASE Release(d)
  BY <1>7, EndType DEF Release, TypeOK
<1> QED
  BY <1>1, <1>2, <1>3, <1>4, <1>5, <1>6, <1>7 DEF Shutdown, Window, AfterCleanup, Drain

LEMMA HandlersType ==
  ASSUME TypeOK, NEW d \in Daemons, NEW c \in Clients, Handlers(d, c) PROVE TypeOK'
<1>1. ASSUME NEW from, NEW to \in HandlerStates, Handler(d, c, from, to)
      PROVE  /\ handlers' \in [Daemons -> [Clients -> HandlerStates]]
             /\ UNCHANGED <<directory, pc, binding, code, signals, stopping, expired>>
  BY <1>1 DEF Handler, TypeOK
<1>2. /\ handlers' \in [Daemons -> [Clients -> HandlerStates]]
      /\ UNCHANGED <<directory, pc, binding, code, signals, stopping, expired>>
  <2>1. CASE HandlerPolls(d, c)
    BY <1>1, <2>1 DEF HandlerPolls, HandlerStates
  <2>2. CASE HandlerReads(d, c)
    BY <1>1, <2>2 DEF HandlerReads, HandlerStates
  <2>3. CASE HandlerAnswers(d, c)
    BY <1>1, <2>3 DEF HandlerAnswers, HandlerStates
  <2>4. CASE HandlerPanics(d, c)
    BY <1>1, <2>4 DEF HandlerPanics, HandlerStates
  <2> QED
    BY <2>1, <2>2, <2>3, <2>4 DEF Handlers
<1>3. late' \in [Daemons -> [Clients -> 0 .. 2]]
  <2>1. CASE HandlerAnswers(d, c)
    <3>1. late[d][c] \in 0 .. 2
      BY DEF TypeOK
    <3>2. late' = [late EXCEPT ![d][c] = IF stopping[d] /\ @ < 2 THEN @ + 1 ELSE @]
      BY <2>1 DEF HandlerAnswers
    <3>3. (IF stopping[d] /\ late[d][c] < 2 THEN late[d][c] + 1 ELSE late[d][c]) \in 0 .. 2
      BY <3>1
    <3> QED
      BY <3>2, <3>3 DEF TypeOK
  <2>2. CASE HandlerPolls(d, c) \/ HandlerReads(d, c) \/ HandlerPanics(d, c)
    BY <2>2 DEF HandlerPolls, HandlerReads, HandlerPanics, TypeOK
  <2> QED
    BY <2>1, <2>2 DEF Handlers
<1> QED
  BY <1>2, <1>3 DEF TypeOK, directory, binding, signals

LEMMA OthersType ==
  ASSUME TypeOK, Others PROVE TypeOK'
<1>1. entry' \in Maybe(Node)
  <2>1. CASE OtherRemoves
    BY <2>1 DEF OtherRemoves, Maybe
  <2>2. CASE OtherPuts
    BY <2>2, OtherKindsAreKinds DEF OtherPuts, FreeInodes, Node, Maybe
  <2> QED
    BY <2>1, <2>2 DEF Others
<1> QED
  BY <1>1 DEF Others, OtherRemoves, OtherPuts, TypeOK, binding, signals, threads

LEMMA TypeNext ==
  ASSUME TypeOK, [Next]_vars PROVE TypeOK'
<1>1. ASSUME NEW d \in Daemons, Start(d) PROVE TypeOK'
  BY <1>1 DEF Start, TypeOK, Maybe, MainStates
<1>2. ASSUME NEW d \in Daemons, Main(d) PROVE TypeOK'
  BY <1>2, StartupType, ServeType, CleanupType, ShutdownType DEF Main
<1>3. ASSUME NEW d \in Daemons, Expire(d) PROVE TypeOK'
  BY <1>3 DEF Expire, TypeOK, directory, binding, signals
<1>4. ASSUME NEW d \in Daemons, Crash(d) PROVE TypeOK'
  BY <1>4, EndType DEF Crash, TypeOK, Maybe
<1>5. ASSUME NEW d \in Daemons, NEW s \in Signals, Signal(d, s) PROVE TypeOK'
  BY <1>5 DEF Signal, TypeOK, Maybe, directory, binding, threads
<1>6. CASE UNCHANGED vars
  BY <1>6 DEF vars, directory, binding, signals, threads, TypeOK
<1> QED
  BY <1>1, <1>2, <1>3, <1>4, <1>5, <1>6, HandlersType, OthersType DEF Next

(* Every variable keeps its type.                                          *)
THEOREM TypeCorrect == Spec => []TypeOK
<1> QED
  BY TypeInit, TypeNext, PTL DEF Spec

-----------------------------------------------------------------------------
(* The lock.  Every place of the main thread after acquire is reached and  *)
(* left with the lock held, and only there is a listener open.             *)

LockHeld == \A d \in Daemons : Holds(d) => lock = d

ListenersHold == \A d \in Daemons : listens[d] # None => Holds(d)

LockInv == TypeOK /\ LockHeld /\ ListenersHold

(* What a step of the main thread of d between acquire and its end does.   *)
HolderStep(d) ==
  /\ Holds(d) /\ Holds(d)'
  /\ UNCHANGED lock
  /\ \A e \in Daemons \ {d} : pc'[e] = pc[e] /\ listens'[e] = listens[e]

LEMMA HolderStepKeepsLock ==
  ASSUME LockInv, NEW d \in Daemons, HolderStep(d)
  PROVE  LockHeld' /\ ListenersHold'
  BY DEF HolderStep, LockInv, LockHeld, ListenersHold, Holds

LEMMA GotoHolds ==
  ASSUME TypeOK, NEW d \in Daemons, Holds(d), UNCHANGED lock,
         NEW place \in MainStates \ {"ended", "starting"}, Goto(d, place)
  PROVE  HolderStep(d)
  BY DEF HolderStep, Goto, Holds, TypeOK, binding

LEMMA LeaveHolds ==
  ASSUME TypeOK, NEW d \in Daemons, Holds(d), UNCHANGED lock, NEW exit, Leave(d, exit)
  PROVE  HolderStep(d)
  BY DEF HolderStep, Leave, Holds, TypeOK

LEMMA CleanupDoneHolds ==
  ASSUME TypeOK, NEW d \in Daemons, Holds(d), UNCHANGED lock, NEW success,
         CleanupDone(d, success)
  PROVE  HolderStep(d)
<1>1. resume[d] \in {"release", "cleaned", "broken"}
  BY DEF TypeOK
<1> QED
  BY <1>1 DEF HolderStep, CleanupDone, Holds, TypeOK

LEMMA StartupHolds ==
  ASSUME TypeOK, NEW d \in Daemons, Startup(d)
  PROVE  \/ HolderStep(d)
         \/ AcquireLock(d)
         \/ pc[d] = "starting" /\ \E exit \in {2, 4} : ReturnUnlocked(d, exit)
<1>1. CASE RuntimeUnsafe(d) \/ DaemonRunning(d) \/ AcquireLock(d)
  BY <1>1 DEF RuntimeUnsafe, DaemonRunning
<1>2. CASE OpenStore(d)
  BY <1>2, GotoHolds, LeaveHolds DEF OpenStore, Holds, MainStates, directory
<1>3. CASE InspectSocket(d)
  BY <1>3, GotoHolds, LeaveHolds DEF InspectSocket, Holds, MainStates, directory
<1>4. CASE ConnectSocket(d) \/ BindFails(d) \/ SocketUnproven(d)
  BY <1>4, LeaveHolds DEF ConnectSocket, BindFails, SocketUnproven, Holds, directory
<1>5. CASE BindSocket(d)
  BY <1>5 DEF BindSocket, HolderStep, Holds, TypeOK
<1>6. CASE ProvePathname(d) \/ ProveStable(d)
  BY <1>6 DEF ProvePathname, ProveStable, HolderStep, Holds, TypeOK, directory
<1>7. CASE MakeNonblocking(d)
  BY <1>7, GotoHolds, LeaveHolds DEF MakeNonblocking, Holds, MainStates, directory
<1> QED
  BY <1>1, <1>2, <1>3, <1>4, <1>5, <1>6, <1>7 DEF Startup

LEMMA ServeHolds ==
  ASSUME TypeOK, NEW d \in Daemons, Serve(d) PROVE HolderStep(d)
<1>1. CASE StopServing(d)
  BY <1>1 DEF StopServing, HolderStep, Holds, TypeOK, directory, binding
<1>2. CASE PollSignal(d) \/ AcceptNobody(d)
  BY <1>2, GotoHolds DEF PollSignal, AcceptNobody, Holds, MainStates, directory
<1>3. ASSUME NEW c \in Clients, Accept(d, c) PROVE HolderStep(d)
  BY <1>3 DEF Accept, HolderStep, Holds, TypeOK, directory, binding
<1>4. CASE SpawnPanics(d) \/ ReturnBroken(d)
  BY <1>4, LeaveHolds DEF SpawnPanics, ReturnBroken, Holds, directory
<1>5. CASE AcceptFails(d)
  BY <1>5 DEF AcceptFails, HolderStep, Holds, TypeOK, directory
<1> QED
  BY <1>1, <1>2, <1>3, <1>4, <1>5 DEF Serve

LEMMA CleanupHolds ==
  ASSUME TypeOK, NEW d \in Daemons, Cleanup(d) PROVE HolderStep(d)
<1>1. CASE CheckIdentity(d)
  BY <1>1, GotoHolds, CleanupDoneHolds DEF CheckIdentity, Holds, MainStates, directory
<1>2. CASE RenameAway(d)
  BY <1>2, GotoHolds, CleanupDoneHolds DEF RenameAway, Holds, MainStates
<1>3. CASE Verify(d)
  BY <1>3, GotoHolds, CleanupDoneHolds DEF Verify, Holds, MainStates, directory
<1>4. CASE RenameBack(d)
  BY <1>4, CleanupDoneHolds DEF RenameBack, Holds
<1> QED
  BY <1>1, <1>2, <1>3, <1>4 DEF Cleanup

LEMMA ShutdownHolds ==
  ASSUME TypeOK, NEW d \in Daemons, Shutdown(d)
  PROVE  HolderStep(d) \/ Release(d)
<1>1. CASE CloseListener(d)
  BY <1>1 DEF CloseListener, HolderStep, Holds, TypeOK, directory
<1>2. ASSUME Holds(d), LeaveOnSecond(d) PROVE HolderStep(d)
  BY <1>2, LeaveHolds DEF LeaveOnSecond, directory
<1>3. CASE Window(d)
  <2>1. CASE LeaveOnSecond(d)
    BY <1>2, <1>3, <2>1 DEF Window, Holds
  <2>2. CASE ~LeaveOnSecond(d)
    BY <1>3, <2>2 DEF Window, HolderStep, Holds, TypeOK, directory
  <2> QED
    BY <2>1, <2>2
<1>4. CASE AfterCleanup(d)
  BY <1>2, <1>4, GotoHolds, LeaveHolds DEF AfterCleanup, Holds, MainStates, directory
<1>5. CASE Drain(d)
  BY <1>2, <1>5, GotoHolds DEF Drain, Holds, MainStates, directory
<1>6. CASE Decide(d)
  BY <1>6, GotoHolds, LeaveHolds DEF Decide, Holds, MainStates, directory
<1> QED
  BY <1>1, <1>3, <1>4, <1>5, <1>6 DEF Shutdown

LEMMA MainHolds ==
  ASSUME TypeOK, NEW d \in Daemons, Main(d)
  PROVE  \/ HolderStep(d)
         \/ AcquireLock(d)
         \/ pc[d] = "starting" /\ \E exit \in {2, 4} : ReturnUnlocked(d, exit)
         \/ Release(d)
<1>1. Startup(d) \/ Serve(d) \/ Cleanup(d) \/ Shutdown(d)
  BY DEF Main
<1> QED
  BY <1>1, StartupHolds, ServeHolds, CleanupHolds, ShutdownHolds

(* Taking the lock needs it free, so nobody is past acquire; losing it     *)
(* ends the process.                                                       *)
LEMMA LockNext ==
  ASSUME LockInv, [Next]_vars PROVE LockInv'
<1> SUFFICES LockHeld' /\ ListenersHold'
  BY TypeNext DEF LockInv
<1> USE DEF LockInv
<1>1. ASSUME UNCHANGED <<lock, pc, listens>> PROVE LockHeld' /\ ListenersHold'
  BY <1>1 DEF LockHeld, ListenersHold, Holds
<1>2. ASSUME NEW d \in Daemons, AcquireLock(d) PROVE LockHeld' /\ ListenersHold'
  <2>1. lock = None /\ lock' = d /\ pc' = [pc EXCEPT ![d] = "locked"] /\ UNCHANGED listens
    BY <1>2 DEF AcquireLock, LockTaken, Goto, binding
  <2>2. \A e \in Daemons : ~Holds(e) /\ listens[e] = None
    BY <2>1, NoneIsNone DEF LockHeld, ListenersHold
  <2> QED
    BY <2>1, <2>2 DEF LockHeld, ListenersHold, Holds, TypeOK
<1>3. ASSUME NEW d \in Daemons, pc[d] = "starting",
             \E exit \in {2, 4} : ReturnUnlocked(d, exit)
      PROVE  LockHeld' /\ ListenersHold'
  BY <1>3 DEF ReturnUnlocked, LockHeld, ListenersHold, Holds, TypeOK, directory, binding
<1>4. ASSUME NEW d \in Daemons, End(d) PROVE LockHeld' /\ ListenersHold'
  BY <1>4 DEF End, LockHeld, ListenersHold, Holds, TypeOK
<1>5. ASSUME NEW d \in Daemons, Main(d) PROVE LockHeld' /\ ListenersHold'
  BY <1>2, <1>3, <1>4, <1>5, MainHolds, HolderStepKeepsLock DEF Release
<1>6. ASSUME NEW d \in Daemons, Start(d) PROVE LockHeld' /\ ListenersHold'
  BY <1>6 DEF Start, LockHeld, ListenersHold, Holds, TypeOK
<1>7. ASSUME NEW d \in Daemons, Expire(d) \/ \E s \in Signals : Signal(d, s)
      PROVE  UNCHANGED <<lock, pc, listens>>
  BY <1>7 DEF Expire, Signal, directory, binding
<1>8. ASSUME NEW d \in Daemons, NEW c \in Clients, Handlers(d, c)
      PROVE  UNCHANGED <<lock, pc, listens>>
  BY <1>8 DEF Handlers, HandlerPolls, HandlerReads, HandlerAnswers, HandlerPanics, Handler,
              directory, binding
<1>9. ASSUME Others \/ UNCHANGED vars PROVE UNCHANGED <<lock, pc, listens>>
  BY <1>9 DEF Others, OtherRemoves, OtherPuts, vars, directory, binding
<1> QED
  BY <1>1, <1>4, <1>5, <1>6, <1>7, <1>8, <1>9 DEF Next, Crash

LEMMA LockInit == Init => LockInv
  BY TypeInit DEF Init, LockInv, LockHeld, ListenersHold, Holds

(* The invariant of the lock.                                              *)
THEOREM LockHolds == Spec => []LockInv
<1> QED
  BY LockInit, LockNext, PTL DEF Spec

(* At most one daemon listens, for any number of daemons and whatever      *)
(* other programs do to the socket file.                                   *)
THEOREM Singleton == Spec => []OneListens
<1>1. LockInv => OneListens
  BY DEF LockInv, LockHeld, ListenersHold, OneListens
<1> QED
  BY <1>1, LockHolds, PTL

-----------------------------------------------------------------------------
(* The late answer.  A thread that has answered once since the flag was    *)
(* set looks at the flag before it reads again.                            *)

LateInv ==
  \A d \in Daemons, c \in Clients :
    \/ late[d][c] = 0
    \/ late[d][c] = 1 /\ stopping[d] /\ handlers[d][c] \notin {"reading", "answering"}

-----------------------------------------------------------------------------
(* The socket file.                                                        *)

Early == {"starting", "locked", "opened", "connecting", "vacant", "bound", "proving"}

Renaming == {"renaming", "verifying", "restoring"}

(* A file of a daemon that is not dead is that of the holder, and no inode *)
(* is in two places.                                                       *)
EntryInv ==
  /\ entry # None /\ entry.kind \in Daemons => Holds(entry.kind)
  /\ \A d \in Daemons : entry # None /\ aside[d] # None => aside[d].ino # entry.ino
  /\ \A d, e \in Daemons :
       d # e /\ aside[d] # None /\ aside[e] # None => aside[d].ino # aside[e].ino

(* Once a daemon has its proof, its own socket file has that identity      *)
(* wherever it is; a cleanup renames only what it could prove, once.       *)
ProofInv(d) ==
  /\ pc[d] \in Early => proof[d] = None /\ aside[d] = None /\ ~removed[d]
  /\ pc[d] \in Renaming => proof[d] # None /\ ~removed[d]
  /\ pc[d] \in {"verifying", "restoring"} =>
       /\ aside[d] # None
       /\ aside[d].kind \in Daemons => aside[d].kind = d
       /\ entry = None \/ entry.kind # d
  /\ pc[d] = "verifying" /\ aside[d].kind = d => aside[d].ino = proof[d]
  /\ pc[d] = "restoring" => aside[d].kind # d
  /\ proof[d] # None /\ entry # None /\ entry.kind = d => entry.ino = proof[d]
  /\ removed[d] => /\ proof[d] # None /\ aside[d] # None
                   /\ aside[d].ino = proof[d]
  /\ pc[d] = "release" /\ proof[d] # None => entry = None \/ entry.kind # d

(* An exit code is final, and what it tells is known before it is chosen.  *)
ExitInv(d) ==
  /\ pc[d] \in Early => resume[d] = "release"
  /\ code[d] # None => /\ pc[d] \in Renaming \cup {"checking", "release", "ended"}
                       /\ resume[d] = "release"
  /\ pc[d] \in {"cleaned", "draining", "deciding"} => removed[d]
  /\ pc[d] \in {"stopping", "window", "cleaned", "uncleaned", "draining", "deciding"}
       => first[d] # None
  /\ resume[d] = "cleaned" => first[d] # None
  /\ code[d] = 0 =>
       /\ first[d] # None /\ removed[d]
       /\ \A c \in Clients : handlers[d][c] \in {"none", "finished"}
  /\ code[d] = 124 => first[d] # None /\ removed[d] /\ expired[d]
  /\ code[d] = 4 => listens[d] = None /\ proof[d] = None /\ aside[d] = None

DaemonInv ==
  /\ LockInv /\ EntryInv
  /\ \A d \in Daemons : ProofInv(d) /\ ExitInv(d)

(* What the invariants of one daemon are about.                            *)
Same(d) ==
  /\ pc'[d] = pc[d] /\ aside'[d] = aside[d] /\ listens'[d] = listens[d]
  /\ proof'[d] = proof[d] /\ resume'[d] = resume[d] /\ removed'[d] = removed[d]
  /\ code'[d] = code[d] /\ first'[d] = first[d] /\ expired'[d] = expired[d]
  /\ handlers'[d] = handlers[d]

Own(d) == ProofInv(d) /\ ExitInv(d)

(* A step of d leaves the other daemons alone.                             *)
LEMMA SameKeeps ==
  ASSUME DaemonInv, NEW e \in Daemons, Same(e),
         entry' = entry \/ entry' = None \/ entry'.kind # e
  PROVE  Own(e)'
<1>1. ProofInv(e) /\ ExitInv(e)
  BY DEF DaemonInv
<1>2. ProofInv(e)'
  BY <1>1 DEF ProofInv, Same
<1>3. ExitInv(e)'
  BY <1>1 DEF ExitInv, Same
<1> QED
  BY <1>2, <1>3 DEF Own

LEMMA EntryStays ==
  ASSUME DaemonInv, UNCHANGED <<entry, aside>>, \A d \in Daemons : Holds(d) => Holds(d)'
  PROVE  EntryInv'
BY DEF DaemonInv, EntryInv

LEMMA LeaveKeeps ==
  ASSUME DaemonInv, NEW d \in Daemons, NEW exit \in Nat, Leave(d, exit), UNCHANGED directory,
         exit = 0 => /\ first[d] # None /\ removed[d]
                     /\ \A c \in Clients : handlers[d][c] \in {"none", "finished"},
         exit = 124 => first[d] # None /\ removed[d] /\ expired[d],
         exit = 4 => proof[d] = None /\ aside[d] = None
  PROVE  Own(d)'
<1>1. TypeOK /\ ProofInv(d) /\ ExitInv(d)
  BY DEF DaemonInv, LockInv
<1>2. ProofInv(d)'
  BY <1>1 DEF TypeOK, Leave, directory, ProofInv, Early, Renaming
<1>3. ExitInv(d)'
  BY <1>1 DEF TypeOK, Leave, directory, signals, threads, ExitInv, Early, Renaming
<1> QED
  BY <1>2, <1>3 DEF Own

(* A step from place to place where nothing new need be known.             *)
LEMMA GotoKeeps ==
  ASSUME DaemonInv, NEW d \in Daemons, NEW place, Goto(d, place), UNCHANGED directory,
         code[d] = None,
         place \in Early => pc[d] \in Early,
         place \notin Renaming /\ place # "release",
         place \in {"cleaned", "draining", "deciding"} => removed[d],
         place \in {"stopping", "window", "cleaned", "uncleaned", "draining", "deciding"}
           => first[d] # None
  PROVE  Own(d)'
<1>1. TypeOK /\ ProofInv(d) /\ ExitInv(d)
  BY DEF DaemonInv, LockInv
<1>2. ProofInv(d)'
  BY <1>1 DEF TypeOK, Goto, directory, binding, ProofInv, Early, Renaming
<1>3. ExitInv(d)'
  BY <1>1 DEF TypeOK, Goto, directory, binding, signals, threads, ExitInv, Early, Renaming
<1> QED
  BY <1>2, <1>3 DEF Own

LEMMA CleanupDoneKeeps ==
  ASSUME DaemonInv, NEW d \in Daemons, NEW success \in BOOLEAN, CleanupDone(d, success),
         pc[d] \in Renaming \cup {"checking"},
         success => /\ proof[d] # None /\ aside'[d] # None /\ aside'[d].ino = proof[d],
         removed[d] => aside'[d] = aside[d],
         proof[d] # None => entry' = None \/ entry'.kind # d,
         code[d] = 4 => aside'[d] = None
  PROVE  Own(d)'
<1>1. TypeOK /\ ProofInv(d) /\ ExitInv(d)
  BY DEF DaemonInv, LockInv
<1>2. /\ pc'[d] = IF resume[d] = "cleaned" /\ ~success THEN "uncleaned" ELSE resume[d]
      /\ removed'[d] = (removed[d] \/ success)
      /\ resume[d] \in {"release", "cleaned", "broken"}
      /\ proof'[d] = proof[d] /\ resume'[d] = resume[d] /\ code'[d] = code[d]
      /\ listens'[d] = listens[d]
      /\ first'[d] = first[d] /\ expired'[d] = expired[d] /\ handlers'[d] = handlers[d]
  BY <1>1 DEF TypeOK, CleanupDone, signals, threads
<1>3. ProofInv(d)'
  BY <1>1, <1>2 DEF ProofInv, Early, Renaming
<1>4. ExitInv(d)'
  BY <1>1, <1>2 DEF ExitInv, Early, Renaming
<1> QED
  BY <1>3, <1>4 DEF Own

AllKeep == EntryInv' /\ \A e \in Daemons : Own(e)'

OthersSame(d) == \A e \in Daemons \ {d} : Same(e)

LEMMA Alone ==
  ASSUME DaemonInv, NEW d \in Daemons, Own(d)', UNCHANGED <<entry, aside>>,
         Holds(d) => Holds(d)', OthersSame(d)
  PROVE  AllKeep
<1>1. \A e \in Daemons \ {d} : Own(e)'
  BY SameKeeps DEF OthersSame
<1>2. \A e \in Daemons : Holds(e) => Holds(e)'
  BY DEF OthersSame, Same, Holds
<1> QED
  BY <1>1, <1>2, EntryStays DEF AllKeep

LEMMA LeaveAlone ==
  ASSUME DaemonInv, NEW d \in Daemons, NEW exit \in Nat, Leave(d, exit), UNCHANGED directory,
         exit = 0 => /\ first[d] # None /\ removed[d]
                     /\ \A c \in Clients : handlers[d][c] \in {"none", "finished"},
         exit = 124 => first[d] # None /\ removed[d] /\ expired[d],
         exit = 4 => proof[d] = None /\ aside[d] = None
  PROVE  AllKeep
<1>1. Own(d)'
  BY LeaveKeeps
<1>2. OthersSame(d) /\ Holds(d)' /\ UNCHANGED <<entry, aside>>
  BY DEF DaemonInv, LockInv, TypeOK, Leave, OthersSame, Same, Holds, directory, signals, threads
<1> QED
  BY <1>1, <1>2, Alone

LEMMA GotoAlone ==
  ASSUME DaemonInv, NEW d \in Daemons, NEW place \in MainStates \ {"ended", "starting"},
         Goto(d, place), UNCHANGED directory, Own(d)'
  PROVE  AllKeep
<1>1. OthersSame(d) /\ Holds(d)' /\ UNCHANGED <<entry, aside>>
  BY DEF DaemonInv, LockInv, TypeOK, Goto, OthersSame, Same, Holds, directory, binding, signals,
         threads
<1> QED
  BY <1>1, Alone

LEMMA StartupKeeps ==
  ASSUME DaemonInv, NEW d \in Daemons, Startup(d)
  PROVE  AllKeep
<1>1. TypeOK /\ LockInv /\ ProofInv(d) /\ ExitInv(d)
  BY DEF DaemonInv, LockInv
<1>2. ASSUME NEW exit \in {2, 4}, pc[d] = "starting", ReturnUnlocked(d, exit) PROVE AllKeep
  <2>1. listens[d] = None
    BY <1>1, <1>2 DEF LockInv, ListenersHold, Holds
  <2>2. /\ pc'[d] = "ended" /\ code'[d] = exit /\ aside'[d] = aside[d] /\ listens'[d] = listens[d]
        /\ proof'[d] = proof[d] /\ resume'[d] = resume[d] /\ removed'[d] = removed[d]
        /\ first'[d] = first[d] /\ expired'[d] = expired[d] /\ handlers'[d] = handlers[d]
        /\ UNCHANGED <<entry, aside>>
    BY <1>1, <1>2 DEF TypeOK, ReturnUnlocked, directory, binding, signals, threads
  <2>3. ProofInv(d)'
    BY <1>1, <1>2, <2>2 DEF ProofInv, Early, Renaming
  <2>4. ExitInv(d)'
    BY <1>1, <1>2, <2>1, <2>2 DEF ProofInv, ExitInv, Early, Renaming
  <2>5. OthersSame(d) /\ ~Holds(d)
    BY <1>1, <1>2 DEF TypeOK, ReturnUnlocked, OthersSame, Same, Holds, directory, binding, signals,
                      threads
  <2> QED
    BY <2>2, <2>3, <2>4, <2>5, Alone DEF Own
<1>3. CASE RuntimeUnsafe(d) \/ DaemonRunning(d)
  BY <1>2, <1>3 DEF RuntimeUnsafe, DaemonRunning
<1>4. CASE AcquireLock(d)
  <2>1. pc[d] = "starting" /\ Goto(d, "locked") /\ UNCHANGED <<entry, aside>>
    BY <1>4 DEF AcquireLock
  <2>2. ProofInv(d)'
    BY <1>1, <2>1 DEF TypeOK, Goto, binding, ProofInv, Early, Renaming
  <2>3. ExitInv(d)'
    BY <1>1, <2>1 DEF TypeOK, Goto, binding, signals, threads, ExitInv, Early, Renaming
  <2>4. OthersSame(d) /\ Holds(d)'
    BY <1>1, <2>1 DEF TypeOK, Goto, OthersSame, Same, Holds, binding, signals, threads
  <2> QED
    BY <2>1, <2>2, <2>3, <2>4, Alone DEF Own
<1>5. ASSUME pc[d] \in Early \ {"starting"}, NEW place \in MainStates \ {"ended", "starting"},
             place \in Early, Goto(d, place), UNCHANGED directory
      PROVE  AllKeep
  <2>1. code[d] = None
    BY <1>1, <1>5 DEF ExitInv, Early, Renaming
  <2>2. Own(d)'
    BY <1>5, <2>1, GotoKeeps DEF Early, Renaming
  <2> QED
    BY <1>5, <2>2, GotoAlone
<1>6. ASSUME NEW exit \in {1, 2, 4}, Leave(d, exit), UNCHANGED directory,
             exit = 4 => pc[d] \in Early
      PROVE  AllKeep
  BY <1>1, <1>6, LeaveAlone DEF ProofInv
<1>7. CASE OpenStore(d)
  BY <1>5, <1>6, <1>7 DEF OpenStore, Early, MainStates
<1>8. CASE InspectSocket(d)
  BY <1>5, <1>6, <1>8 DEF InspectSocket, Early, MainStates
<1>9. CASE ConnectSocket(d)
  BY <1>6, <1>9 DEF ConnectSocket, Early
<1>10. CASE BindSocket(d)
  <2>1. PICK i \in FreeInodes : /\ entry' = [ino |-> i, kind |-> d]
                                /\ listens' = [listens EXCEPT ![d] = i]
    BY <1>10 DEF BindSocket
  <2>2. pc[d] = "vacant" /\ pc'[d] = "bound" /\ UNCHANGED aside
        /\ proof'[d] = proof[d] /\ resume'[d] = resume[d] /\ removed'[d] = removed[d]
        /\ code'[d] = code[d] /\ first'[d] = first[d] /\ expired'[d] = expired[d]
        /\ handlers'[d] = handlers[d]
    BY <1>1, <1>10 DEF TypeOK, BindSocket, signals, threads
  <2>3. code[d] = None
    BY <1>1, <2>2 DEF ExitInv, Early, Renaming
  <2>4. ProofInv(d)'
    BY <1>1, <2>2 DEF ProofInv, Early, Renaming
  <2>5. ExitInv(d)'
    BY <1>1, <2>2, <2>3, NoneIsNone DEF ExitInv, Early, Renaming
  <2>6. OthersSame(d)
    BY <1>1, <1>10 DEF TypeOK, BindSocket, OthersSame, Same, signals, threads
  <2>7. \A e \in Daemons \ {d} : Own(e)'
    BY <2>1, <2>6, SameKeeps DEF OthersSame
  <2>8. EntryInv'
    <3>1. \A e \in Daemons : aside[e] # None => aside[e].ino # i
      BY <2>1 DEF FreeInodes, UsedInodes
    <3>2. Holds(d)'
      BY <2>2 DEF Holds
    <3> QED
      BY <2>1, <2>2, <3>1, <3>2 DEF DaemonInv, EntryInv
  <2> QED
    BY <2>4, <2>5, <2>7, <2>8 DEF AllKeep, Own
<1>11. CASE BindFails(d) \/ SocketUnproven(d)
  BY <1>6, <1>11 DEF BindFails, SocketUnproven
<1>12. CASE ProvePathname(d)
  <2>1. /\ pc[d] = "bound" /\ pc'[d] = "proving" /\ UNCHANGED <<entry, aside>>
        /\ listens'[d] = listens[d]
        /\ proof'[d] = proof[d] /\ resume'[d] = resume[d] /\ removed'[d] = removed[d]
        /\ code'[d] = code[d] /\ first'[d] = first[d] /\ expired'[d] = expired[d]
        /\ handlers'[d] = handlers[d]
    BY <1>1, <1>12 DEF TypeOK, ProvePathname, directory, signals, threads
  <2>2. ProofInv(d)' /\ ExitInv(d)'
    BY <1>1, <2>1 DEF ProofInv, ExitInv, Early, Renaming
  <2>3. OthersSame(d) /\ Holds(d)'
    BY <1>1, <1>12 DEF TypeOK, ProvePathname, OthersSame, Same, Holds, directory, signals, threads
  <2> QED
    BY <2>1, <2>2, <2>3, Alone DEF Own
<1>13. CASE ProveStable(d)
  <2>1. /\ pc[d] = "proving" /\ pc'[d] = "ready" /\ UNCHANGED <<entry, aside>>
        /\ entry # None /\ entry.ino = before[d] /\ proof'[d] = before[d]
        /\ listens'[d] = listens[d] /\ resume'[d] = resume[d] /\ removed'[d] = removed[d]
        /\ code'[d] = code[d] /\ first'[d] = first[d] /\ expired'[d] = expired[d]
        /\ handlers'[d] = handlers[d]
    BY <1>1, <1>13 DEF TypeOK, ProveStable, IdentityOf, directory, signals, threads
  <2>2. code[d] = None
    BY <1>1, <2>1 DEF ExitInv, Early, Renaming
  <2>3. ProofInv(d)'
    BY <1>1, <2>1 DEF ProofInv, Early, Renaming
  <2>4. ExitInv(d)'
    BY <1>1, <2>1, <2>2, NoneIsNone DEF ExitInv, Early, Renaming
  <2>5. OthersSame(d) /\ Holds(d)'
    BY <1>1, <1>13 DEF TypeOK, ProveStable, OthersSame, Same, Holds, directory, signals, threads
  <2> QED
    BY <2>1, <2>3, <2>4, <2>5, Alone DEF Own
<1>14. CASE MakeNonblocking(d)
  <2>1. CASE Leave(d, 1)
    BY <1>6, <1>14, <2>1 DEF MakeNonblocking
  <2>2. CASE Goto(d, "serving")
    <3>1. code[d] = None
      BY <1>1, <1>14 DEF MakeNonblocking, ExitInv, Renaming
    <3>2. Own(d)'
      BY <1>14, <2>2, <3>1, GotoKeeps DEF MakeNonblocking, Early, Renaming
    <3> QED
      BY <1>14, <2>2, <3>2, GotoAlone DEF MakeNonblocking, MainStates
  <2> QED
    BY <1>14, <2>1, <2>2 DEF MakeNonblocking
<1> QED
  BY <1>3, <1>4, <1>7, <1>8, <1>9, <1>10, <1>11, <1>12, <1>13, <1>14 DEF Startup
LEMMA ServeKeeps ==
  ASSUME DaemonInv, NEW d \in Daemons, Serve(d)
  PROVE  AllKeep
<1>1. TypeOK /\ ProofInv(d) /\ ExitInv(d)
  BY DEF DaemonInv, LockInv
<1>2. code[d] = None
  BY <1>1 DEF Serve, StopServing, PollSignal, AcceptNobody, Accept, SpawnPanics, AcceptFails,
              ReturnBroken, ExitInv, Renaming
<1>3. ASSUME NEW place \in {"serving", "accepting"}, Goto(d, place), UNCHANGED directory
      PROVE  AllKeep
  <2>1. Own(d)'
    BY <1>2, <1>3, GotoKeeps DEF Early, Renaming
  <2> QED
    BY <1>3, <2>1, GotoAlone DEF MainStates
<1>4. CASE StopServing(d)
  <2>1. /\ pc[d] = "serving" /\ first[d] # None /\ pc'[d] = "stopping"
        /\ UNCHANGED <<entry, aside, listens, proof, resume, removed, code, first, expired, handlers>>
    BY <1>1, <1>4 DEF StopServing, TypeOK, directory, binding, signals
  <2>2. ProofInv(d)' /\ ExitInv(d)'
    BY <1>1, <2>1 DEF ProofInv, ExitInv, Early, Renaming
  <2>3. OthersSame(d) /\ Holds(d)'
    BY <1>1, <1>4, <2>1 DEF StopServing, TypeOK, OthersSame, Same, Holds
  <2> QED
    BY <2>1, <2>2, <2>3, Alone DEF Own
<1>5. CASE PollSignal(d) \/ AcceptNobody(d)
  BY <1>3, <1>5 DEF PollSignal, AcceptNobody
<1>6. ASSUME NEW c \in Clients, Accept(d, c) PROVE AllKeep
  <2>1. /\ pc[d] = "accepting" /\ pc'[d] = "serving"
        /\ UNCHANGED <<entry, aside, listens, proof, resume, removed, code, first, expired>>
    BY <1>1, <1>6 DEF Accept, TypeOK, directory, binding, signals
  <2>2. ProofInv(d)' /\ ExitInv(d)'
    BY <1>1, <1>2, <2>1, NoneIsNone DEF ProofInv, ExitInv, Early, Renaming
  <2>3. OthersSame(d) /\ Holds(d)'
    BY <1>1, <1>6, <2>1 DEF Accept, TypeOK, OthersSame, Same, Holds
  <2> QED
    BY <2>1, <2>2, <2>3, Alone DEF Own
<1>7. CASE SpawnPanics(d) \/ ReturnBroken(d)
  BY <1>7, LeaveAlone DEF SpawnPanics, ReturnBroken
<1>8. CASE AcceptFails(d)
  <2>1. /\ pc[d] = "accepting" /\ pc'[d] = "checking" /\ resume'[d] = "broken"
        /\ UNCHANGED <<entry, aside, listens, proof, removed, code, first, expired, handlers>>
    BY <1>1, <1>8 DEF AcceptFails, TypeOK, directory, signals
  <2>2. ProofInv(d)' /\ ExitInv(d)'
    BY <1>1, <1>2, <2>1, NoneIsNone DEF ProofInv, ExitInv, Early, Renaming
  <2>3. OthersSame(d) /\ Holds(d)'
    BY <1>1, <1>8, <2>1 DEF AcceptFails, TypeOK, OthersSame, Same, Holds
  <2> QED
    BY <2>1, <2>2, <2>3, Alone DEF Own
<1> QED
  BY <1>4, <1>5, <1>6, <1>7, <1>8 DEF Serve

LEMMA CleanupDoneSame ==
  ASSUME TypeOK, NEW d \in Daemons, NEW success \in BOOLEAN, CleanupDone(d, success),
         \A e \in Daemons \ {d} : aside'[e] = aside[e]
  PROVE  OthersSame(d) /\ Holds(d)'
<1>1. resume[d] \in {"release", "cleaned", "broken"}
  BY DEF TypeOK
<1> QED
  BY <1>1 DEF TypeOK, CleanupDone, OthersSame, Same, Holds, signals, threads

LEMMA CleanupKeeps ==
  ASSUME DaemonInv, NEW d \in Daemons, Cleanup(d)
  PROVE  AllKeep
<1>1. TypeOK /\ LockInv /\ EntryInv /\ ProofInv(d) /\ ExitInv(d)
  BY DEF DaemonInv, LockInv
<1>2. Holds(d)
  BY DEF Cleanup, CheckIdentity, RenameAway, Verify, RenameBack, Holds
<1>3. CASE CheckIdentity(d)
  <2>1. pc[d] = "checking" /\ UNCHANGED <<entry, aside>> /\ UNCHANGED directory
    BY <1>3 DEF CheckIdentity, directory
  <2>2. CASE IsProven(d, entry) /\ Goto(d, "renaming")
    <3>1. ~removed[d]
      BY <1>1, <2>2 DEF IsProven, ProofInv, EntryInv
    <3>2. ProofInv(d)' /\ ExitInv(d)'
      BY <1>1, <2>1, <2>2, <3>1 DEF TypeOK, Goto, IsProven, ProofInv, ExitInv, Early, Renaming,
                                   binding, signals, threads
    <3> QED
      BY <2>1, <2>2, <3>2, GotoAlone DEF Own, MainStates
  <2>3. CASE ~IsProven(d, entry) /\ CleanupDone(d, FALSE)
    <3>1. proof[d] # None => entry = None \/ entry.kind # d
      BY <1>1, <2>3 DEF IsProven, ProofInv
    <3>2. Own(d)'
      BY <1>1, <2>1, <2>3, <3>1, CleanupDoneKeeps DEF ExitInv
    <3>3. OthersSame(d) /\ Holds(d)'
      BY <1>1, <2>1, <2>3, CleanupDoneSame
    <3> QED
      BY <2>1, <3>2, <3>3, Alone
  <2> QED
    BY <1>3, <2>2, <2>3 DEF CheckIdentity
<1>4. CASE RenameAway(d)
  <2>1. pc[d] = "renaming" /\ UNCHANGED lock
    BY <1>4 DEF RenameAway
  <2>2. CASE entry = None
    <3>1. CleanupDone(d, FALSE) /\ UNCHANGED <<entry, aside>>
      BY <1>4, <2>2 DEF RenameAway
    <3>2. Own(d)'
      BY <1>1, <2>1, <2>2, <3>1, CleanupDoneKeeps DEF ExitInv, Renaming
    <3>3. OthersSame(d) /\ Holds(d)'
      BY <1>1, <3>1, CleanupDoneSame
    <3> QED
      BY <3>1, <3>2, <3>3, Alone
  <2>3. CASE entry # None
    <3>1. aside' = [aside EXCEPT ![d] = entry] /\ entry' = None /\ Goto(d, "verifying")
      BY <1>4, <2>3 DEF RenameAway
    <3>2. aside'[d] = entry /\ \A e \in Daemons \ {d} : aside'[e] = aside[e]
      BY <1>1, <3>1 DEF TypeOK
    <3>3. entry.kind \in Daemons => entry.kind = d
      BY <1>1, <1>2, <2>3 DEF EntryInv, LockInv, LockHeld
    <3>4. /\ pc'[d] = "verifying" /\ proof'[d] = proof[d] /\ removed'[d] = removed[d]
          /\ listens'[d] = listens[d] /\ resume'[d] = resume[d] /\ code'[d] = code[d]
          /\ first'[d] = first[d] /\ expired'[d] = expired[d] /\ handlers'[d] = handlers[d]
      BY <1>1, <3>1 DEF TypeOK, Goto, binding, signals, threads
    <3>5. ProofInv(d)'
      BY <1>1, <2>1, <2>3, <3>1, <3>2, <3>3, <3>4 DEF ProofInv, Early, Renaming
    <3>6. code[d] # 4
      BY <1>1, <2>1 DEF ProofInv, ExitInv, Renaming
    <3>7. ExitInv(d)'
      BY <1>1, <2>1, <3>4, <3>6 DEF ExitInv, Early, Renaming
    <3>8. OthersSame(d)
      BY <1>1, <3>1, <3>2 DEF TypeOK, Goto, OthersSame, Same, binding, signals, threads
    <3>9. \A e \in Daemons \ {d} : Own(e)'
      BY <3>1, <3>8, SameKeeps DEF OthersSame
    <3>10. EntryInv'
      BY <1>1, <2>3, <3>1, <3>2 DEF EntryInv
    <3> QED
      BY <3>5, <3>7, <3>9, <3>10 DEF AllKeep, Own
  <2> QED
    BY <2>2, <2>3
<1>5. CASE Verify(d)
  <2>1. pc[d] = "verifying" /\ UNCHANGED <<entry, aside>> /\ UNCHANGED directory
    BY <1>5 DEF Verify, directory
  <2>2. CASE IsProven(d, aside[d]) /\ CleanupDone(d, TRUE)
    <3>1. code[d] # 4 /\ ~removed[d] /\ (entry = None \/ entry.kind # d)
      BY <1>1, <2>1 DEF ProofInv, ExitInv, Renaming
    <3>2. Own(d)'
      BY <2>1, <2>2, <3>1, CleanupDoneKeeps DEF IsProven, Renaming
    <3>3. OthersSame(d) /\ Holds(d)'
      BY <1>1, <2>1, <2>2, CleanupDoneSame
    <3> QED
      BY <2>1, <3>2, <3>3, Alone
  <2>3. CASE ~IsProven(d, aside[d]) /\ Goto(d, "restoring")
    <3>1. aside[d].kind # d
      BY <1>1, <2>1, <2>3 DEF IsProven, ProofInv, Renaming
    <3>2. ProofInv(d)' /\ ExitInv(d)'
      BY <1>1, <2>1, <2>3, <3>1 DEF TypeOK, Goto, ProofInv, ExitInv, Early, Renaming, binding,
                                   signals, threads
    <3> QED
      BY <2>1, <2>3, <3>2, GotoAlone DEF Own, MainStates
  <2> QED
    BY <1>5, <2>2, <2>3 DEF Verify
<1>6. CASE RenameBack(d)
  <2>1. pc[d] = "restoring" /\ CleanupDone(d, FALSE)
    BY <1>6 DEF RenameBack
  <2>2. /\ aside[d] # None /\ aside[d].kind \notin Daemons /\ ~removed[d]
        /\ entry = None \/ entry.kind # d
        /\ code[d] # 4
    BY <1>1, <2>1 DEF ProofInv, ExitInv, Renaming
  <2>3. \/ entry = None /\ entry' = aside[d] /\ aside' = [aside EXCEPT ![d] = None]
        \/ entry # None /\ UNCHANGED <<entry, aside>>
    BY <1>6 DEF RenameBack
  <2>4. \A e \in Daemons \ {d} : aside'[e] = aside[e]
    BY <1>1, <2>3 DEF TypeOK
  <2>5. entry' = None \/ entry'.kind \notin Daemons \/ entry' = entry
    BY <2>2, <2>3
  <2>6. Own(d)'
    BY <2>1, <2>2, <2>5, CleanupDoneKeeps DEF Renaming
  <2>7. OthersSame(d) /\ Holds(d)'
    BY <1>1, <2>1, <2>4, CleanupDoneSame
  <2>8. \A e \in Daemons \ {d} : Own(e)'
    BY <2>5, <2>7, SameKeeps DEF OthersSame
  <2>9. EntryInv'
    <3>1. CASE entry = None
      <4>1. entry' = aside[d] /\ aside'[d] = None
        BY <1>1, <2>3, <3>1 DEF TypeOK
      <4> QED
        BY <1>1, <2>2, <2>4, <4>1 DEF EntryInv
    <3>2. CASE entry # None
      BY <1>1, <2>3, <2>7, <3>2, EntryStays DEF OthersSame, Same, Holds
    <3> QED
      BY <3>1, <3>2
  <2> QED
    BY <2>6, <2>8, <2>9 DEF AllKeep
<1> QED
  BY <1>3, <1>4, <1>5, <1>6 DEF Cleanup

LEMMA EndKeeps ==
  ASSUME DaemonInv, NEW d \in Daemons, End(d),
         (code'[d] = code[d] /\ pc[d] = "release") \/ code'[d] = None,
         \A e \in Daemons \ {d} : code'[e] = code[e]
  PROVE  AllKeep
<1>1. TypeOK /\ EntryInv /\ ProofInv(d) /\ ExitInv(d)
  BY DEF DaemonInv, LockInv
<1>2. "dead" \notin Daemons
  BY DaemonsAreNoKind DEF Kinds
<1>3. /\ entry' = None <=> entry = None
      /\ entry # None => /\ entry'.ino = entry.ino
                         /\ (entry' = entry /\ entry.kind # d) \/ entry'.kind = "dead"
  <2>1. CASE entry # None /\ entry.kind = d
    <3>1. entry \in Node /\ entry' = [entry EXCEPT !.kind = "dead"]
      BY <1>1, <2>1 DEF TypeOK, Maybe, End
    <3>2. entry' \in Node /\ entry'.ino = entry.ino /\ entry'.kind = "dead"
      BY <3>1 DEF Node, Kinds
    <3> QED
      BY <2>1, <3>2, NoneIsNone
  <2>2. CASE ~(entry # None /\ entry.kind = d)
    BY <2>2 DEF End
  <2> QED
    BY <2>1, <2>2
<1>4. /\ pc'[d] = "ended" /\ listens'[d] = None /\ handlers'[d] = [c \in Clients |-> "none"]
      /\ UNCHANGED <<aside, proof, resume, removed, first, expired>>
  BY <1>1 DEF End, TypeOK, signals
<1>5. ProofInv(d)'
  BY <1>1, <1>2, <1>3, <1>4 DEF ProofInv, Early, Renaming
<1>6. ExitInv(d)'
  BY <1>1, <1>4, NoneIsNone DEF ExitInv, Early, Renaming
<1>7. OthersSame(d)
  BY <1>1 DEF End, TypeOK, OthersSame, Same, signals
<1>8. \A e \in Daemons \ {d} : Own(e)'
  BY <1>2, <1>3, <1>7, SameKeeps DEF OthersSame
<1>9. EntryInv'
  <2>1. ASSUME entry' # None, entry'.kind \in Daemons
        PROVE  pc'[entry'.kind] \notin {"ended", "starting"}
    <3>1. entry # None /\ entry' = entry /\ entry.kind \in Daemons \ {d}
      BY <1>2, <1>3, <2>1
    <3> QED
      BY <1>1, <1>7, <3>1 DEF EntryInv, OthersSame, Same, Holds
  <2>2. \A e \in Daemons : entry' # None /\ aside'[e] # None => aside'[e].ino # entry'.ino
    BY <1>1, <1>3, <1>4 DEF EntryInv
  <2> QED
    BY <1>1, <1>4, <2>1, <2>2 DEF EntryInv, Holds
<1> QED
  BY <1>5, <1>6, <1>8, <1>9 DEF AllKeep, Own

LEMMA SecondKeeps ==
  ASSUME DaemonInv, NEW d \in Daemons, LeaveOnSecond(d)
  PROVE  AllKeep
<1>1. second[d] \in Signals
  BY DEF LeaveOnSecond, DaemonInv, LockInv, TypeOK, Maybe
<1>2. SignalExit[second[d]] \in Nat \ {0, 4, 124}
  BY <1>1, SignalExits
<1> QED
  BY <1>2, LeaveAlone DEF LeaveOnSecond

LEMMA ShutdownKeeps ==
  ASSUME DaemonInv, NEW d \in Daemons, Shutdown(d)
  PROVE  AllKeep
<1>1. TypeOK /\ ProofInv(d) /\ ExitInv(d)
  BY DEF DaemonInv, LockInv
<1>2. CASE CloseListener(d)
  <2>1. /\ pc[d] = "stopping" /\ pc'[d] = "window" /\ listens'[d] = None
        /\ UNCHANGED <<entry, aside, proof, resume, removed, code, first, expired, handlers>>
    BY <1>1, <1>2 DEF CloseListener, TypeOK, directory, signals, threads
  <2>2. ProofInv(d)' /\ ExitInv(d)'
    BY <1>1, <2>1 DEF ProofInv, ExitInv, Early, Renaming
  <2>3. OthersSame(d) /\ Holds(d)'
    BY <1>1, <1>2, <2>1 DEF CloseListener, TypeOK, OthersSame, Same, Holds
  <2> QED
    BY <2>1, <2>2, <2>3, Alone DEF Own
<1>3. CASE Window(d) /\ ~LeaveOnSecond(d)
  <2>1. /\ pc[d] = "window" /\ pc'[d] = "checking" /\ resume'[d] = "cleaned"
        /\ UNCHANGED <<entry, aside, listens, proof, removed, code, first, expired, handlers>>
    BY <1>1, <1>3 DEF Window, TypeOK, directory, signals, threads
  <2>2. code[d] = None
    BY <1>1, <2>1 DEF ExitInv, Renaming
  <2>3. ProofInv(d)' /\ ExitInv(d)'
    BY <1>1, <2>1, <2>2, NoneIsNone DEF ProofInv, ExitInv, Early, Renaming
  <2>4. OthersSame(d) /\ Holds(d)'
    BY <1>1, <1>3, <2>1 DEF Window, TypeOK, OthersSame, Same, Holds
  <2> QED
    BY <2>1, <2>3, <2>4, Alone DEF Own
<1>4. ASSUME pc[d] \in {"cleaned", "draining", "deciding"}, NEW place \in {"draining", "deciding"},
             Goto(d, place), UNCHANGED directory
      PROVE  AllKeep
  <2>1. code[d] = None /\ removed[d] /\ first[d] # None
    BY <1>1, <1>4 DEF ExitInv, Renaming
  <2>2. Own(d)'
    BY <1>4, <2>1, GotoKeeps DEF Early, Renaming
  <2> QED
    BY <1>4, <2>2, GotoAlone DEF MainStates
<1>5. CASE AfterCleanup(d) /\ ~LeaveOnSecond(d)
  BY <1>4, <1>5, LeaveAlone DEF AfterCleanup
<1>6. CASE Drain(d) /\ ~LeaveOnSecond(d)
  BY <1>4, <1>6 DEF Drain
<1>7. CASE Decide(d)
  <2>1. removed[d] /\ first[d] # None /\ pc[d] = "deciding" /\ UNCHANGED directory
    BY <1>1, <1>7 DEF Decide, ExitInv
  <2>2. CASE Leave(d, 1)
    BY <2>1, <2>2, LeaveAlone
  <2>3. CASE /\ AllFinished(d)
             /\ \A c \in Clients : handlers[d][c] # "panicked"
             /\ Leave(d, IF second[d] # None THEN SignalExit[second[d]] ELSE 0)
    <3>1. CASE second[d] # None
      BY <2>1, <2>3, <3>1, SecondKeeps DEF LeaveOnSecond
    <3>2. CASE second[d] = None
      <4>1. \A c \in Clients : handlers[d][c] \in {"none", "finished"}
        BY <2>3 DEF AllFinished
      <4>2. Leave(d, 0)
        BY <2>3, <3>2
      <4> QED
        BY <2>1, <4>1, <4>2, LeaveAlone
    <3> QED
      BY <3>1, <3>2
  <2>4. CASE DeadlinePassed(d) /\ Leave(d, 124)
    BY <2>1, <2>4, LeaveAlone DEF DeadlinePassed
  <2>5. CASE Goto(d, "draining")
    BY <1>4, <2>1, <2>5
  <2> QED
    BY <1>7, <2>2, <2>3, <2>4, <2>5 DEF Decide
<1>8. CASE Release(d)
  BY <1>8, EndKeeps DEF Release
<1> QED
  BY <1>2, <1>3, <1>5, <1>6, <1>7, <1>8, SecondKeeps DEF Shutdown, Window, AfterCleanup, Drain

LEMMA StartKeeps ==
  ASSUME DaemonInv, NEW d \in Daemons, Start(d)
  PROVE  AllKeep
<1>1. TypeOK /\ EntryInv /\ LockInv
  BY DEF DaemonInv, LockInv
<1>2. /\ pc'[d] = "starting" /\ aside'[d] = None /\ proof'[d] = None /\ resume'[d] = "release"
      /\ removed'[d] = FALSE /\ code'[d] = None /\ UNCHANGED entry
  BY <1>1 DEF Start, TypeOK
<1>3. ProofInv(d)'
  BY <1>2 DEF ProofInv, Early, Renaming
<1>4. ExitInv(d)'
  BY <1>2, NoneIsNone DEF ExitInv, Early, Renaming
<1>5. OthersSame(d)
  BY <1>1 DEF Start, TypeOK, OthersSame, Same
<1>6. \A e \in Daemons \ {d} : Own(e)'
  BY <1>2, <1>5, SameKeeps DEF OthersSame
<1>7. EntryInv'
  <2>1. ~Holds(d)
    BY DEF Start, Holds
  <2> QED
    BY <1>1, <1>2, <1>5, <2>1 DEF EntryInv, OthersSame, Same, Holds
<1> QED
  BY <1>3, <1>4, <1>6, <1>7 DEF AllKeep, Own

LEMMA ExpireKeeps ==
  ASSUME DaemonInv, NEW d \in Daemons, Expire(d)
  PROVE  AllKeep
<1>1. TypeOK /\ ProofInv(d) /\ ExitInv(d)
  BY DEF DaemonInv, LockInv
<1>2. /\ UNCHANGED <<entry, aside, pc, listens, proof, resume, removed, code, first, handlers>>
      /\ expired'[d] = TRUE
  BY <1>1 DEF Expire, TypeOK, directory, binding, signals
<1>3. ProofInv(d)' /\ ExitInv(d)'
  BY <1>1, <1>2 DEF ProofInv, ExitInv
<1>4. OthersSame(d) /\ (Holds(d) => Holds(d)')
  BY <1>1, <1>2 DEF Expire, TypeOK, OthersSame, Same, Holds
<1> QED
  BY <1>2, <1>3, <1>4, Alone DEF Own

LEMMA SignalKeeps ==
  ASSUME DaemonInv, NEW d \in Daemons, NEW s \in Signals, Signal(d, s)
  PROVE  AllKeep
<1>1. TypeOK /\ ProofInv(d) /\ ExitInv(d)
  BY DEF DaemonInv, LockInv
<1>2. UNCHANGED <<entry, aside, pc, listens, proof, resume, removed, code, expired, handlers>>
  BY DEF Signal, directory, binding, threads
<1>3. first[d] # None => first'[d] # None
  BY <1>1 DEF Signal, TypeOK
<1>4. ProofInv(d)' /\ ExitInv(d)'
  BY <1>1, <1>2, <1>3 DEF ProofInv, ExitInv
<1>5. OthersSame(d) /\ (Holds(d) => Holds(d)')
  BY <1>1, <1>2 DEF Signal, TypeOK, OthersSame, Same, Holds
<1> QED
  BY <1>2, <1>4, <1>5, Alone DEF Own

(* A thread that still runs keeps the main thread from exit code 0.        *)
LEMMA HandlersKeep ==
  ASSUME DaemonInv, NEW d \in Daemons, NEW c \in Clients, Handlers(d, c)
  PROVE  AllKeep
<1>1. TypeOK /\ ProofInv(d) /\ ExitInv(d)
  BY DEF DaemonInv, LockInv
<1>2. PICK from \in {"polling", "reading", "answering"}, to \in HandlerStates :
        Handler(d, c, from, to)
  BY DEF Handlers, HandlerPolls, HandlerReads, HandlerAnswers, HandlerPanics, HandlerStates
<1>3. /\ UNCHANGED <<entry, aside, pc, listens, proof, resume, removed, code, first, expired>>
      /\ handlers[d][c] \notin {"none", "finished"}
  BY <1>2 DEF Handler, directory, binding, signals
<1>4. code[d] # 0
  BY <1>1, <1>3 DEF ExitInv
<1>5. ProofInv(d)' /\ ExitInv(d)'
  BY <1>1, <1>3, <1>4 DEF ProofInv, ExitInv
<1>6. OthersSame(d) /\ (Holds(d) => Holds(d)')
  BY <1>1, <1>2, <1>3 DEF Handler, TypeOK, OthersSame, Same, Holds
<1> QED
  BY <1>3, <1>5, <1>6, Alone DEF Own

LEMMA OthersKeep ==
  ASSUME DaemonInv, Others
  PROVE  AllKeep
<1>1. UNCHANGED <<aside, pc, listens, proof, resume, removed, code, first, expired, handlers>>
  BY DEF Others, OtherRemoves, OtherPuts, binding, signals, threads
<1>2. entry' = None \/ \E i \in FreeInodes, k \in OtherKinds : entry' = [ino |-> i, kind |-> k]
  BY DEF Others, OtherRemoves, OtherPuts
<1>3. \A k \in OtherKinds : k \notin Daemons
  BY OtherKindsAreKinds, DaemonsAreNoKind
<1>4. \A e \in Daemons : Own(e)'
  BY <1>1, <1>2, <1>3, SameKeeps DEF Same
<1>5. EntryInv'
  <2>1. \A i \in FreeInodes, e \in Daemons : aside[e] # None => aside[e].ino # i
    BY DEF FreeInodes, UsedInodes
  <2> QED
    BY <1>1, <1>2, <1>3, <2>1 DEF DaemonInv, EntryInv
<1> QED
  BY <1>4, <1>5 DEF AllKeep

LEMMA DaemonNext ==
  ASSUME DaemonInv, [Next]_vars PROVE DaemonInv'
<1>1. LockInv'
  BY LockNext DEF DaemonInv
<1>2. CASE Next
  <2>1. ASSUME NEW d \in Daemons, Main(d) PROVE AllKeep
    BY <2>1, StartupKeeps, ServeKeeps, CleanupKeeps, ShutdownKeeps DEF Main
  <2>2. ASSUME NEW d \in Daemons, Crash(d) PROVE AllKeep
    <3>1. End(d) /\ code'[d] = None /\ \A e \in Daemons \ {d} : code'[e] = code[e]
      BY <2>2 DEF Crash, DaemonInv, LockInv, TypeOK
    <3> QED
      BY <3>1, EndKeeps
  <2>3. AllKeep
    BY <1>2, <2>1, <2>2, StartKeeps, ExpireKeeps, SignalKeeps, HandlersKeep, OthersKeep DEF Next
  <2> QED
    BY <1>1, <2>3 DEF AllKeep, Own, DaemonInv
<1>3. CASE UNCHANGED vars
  <2>1. \A d \in Daemons : Same(d)
    BY <1>3 DEF vars, directory, binding, signals, threads, Same
  <2>2. UNCHANGED <<entry, aside>> /\ \A d \in Daemons : Holds(d) => Holds(d)'
    BY <1>3 DEF vars, directory, Holds
  <2> QED
    BY <1>1, <2>1, <2>2, SameKeeps, EntryStays DEF DaemonInv, Own
<1> QED
  BY <1>2, <1>3

LEMMA DaemonInit == Init => DaemonInv
<1> SUFFICES ASSUME Init PROVE DaemonInv
  OBVIOUS
<1>1. entry # None => entry.kind \notin Daemons
  BY OtherKindsAreKinds, DaemonsAreNoKind DEF Init
<1>2. EntryInv
  BY <1>1 DEF Init, EntryInv
<1>3. ASSUME NEW d \in Daemons PROVE ProofInv(d) /\ ExitInv(d)
  BY NoneIsNone DEF Init, ProofInv, ExitInv, Early, Renaming
<1> QED
  BY <1>2, <1>3, LockInit DEF DaemonInv

(* The invariant of the socket file and of the exit codes.                 *)
THEOREM Invariance == Spec => []DaemonInv
  BY DaemonInit, DaemonNext, PTL DEF Spec

(* A cleanup reports success only when it took the proven file away, for   *)
(* any number of daemons and of other programs' changes of the path.       *)
THEOREM CleanupIsProven == Spec => []RemovedIsProven
<1>1. DaemonInv => RemovedIsProven
  BY DEF DaemonInv, ProofInv, RemovedIsProven
<1> QED
  BY <1>1, Invariance, PTL

(* A daemon that proved its socket does not leave it at the path.          *)
THEOREM PathIsVacated == Spec => []ExitVacates
<1>1. DaemonInv => ExitVacates
  BY DEF DaemonInv, ProofInv, ExitVacates
<1> QED
  BY <1>1, Invariance, PTL

(* Exit codes 0, 124 and 4 mean what they say.                             *)
THEOREM CodesAreTrue == Spec => []ExitCodesTrue
<1>1. DaemonInv => ExitCodesTrue
  BY DEF DaemonInv, ExitInv, ExitCodesTrue
<1> QED
  BY <1>1, Invariance, PTL

(* Only the holder of the lock changes the socket file or sets it aside.   *)
THEOREM HolderTouches == Spec => OnlyHolderTouches
<1> DEFINE A == \A d \in Daemons :
                  pc'[d] # pc[d] /\ (entry' # entry \/ aside'[d] \notin {aside[d], None})
                    => lock = d
<1>1. DaemonInv /\ [Next]_vars => [A]_vars
  <2> SUFFICES ASSUME DaemonInv, Next, NEW d \in Daemons, pc'[d] # pc[d], ~Holds(d),
                      entry' # entry \/ aside'[d] \notin {aside[d], None}
               PROVE  FALSE
    BY DEF DaemonInv, LockInv, LockHeld
  <2>1. pc[d] \in {"starting", "ended"} /\ TypeOK
    BY DEF Holds, DaemonInv, LockInv
  <2>2. entry # None => entry.kind # d
    BY DEF DaemonInv, EntryInv
  <2>3. ASSUME NEW e \in Daemons, Start(e) \/ Crash(e) PROVE FALSE
    BY <2>1, <2>2, <2>3 DEF Start, Crash, End, TypeOK
  <2>4. ASSUME NEW e \in Daemons, Main(e) PROVE FALSE
    <3>1. CASE HolderStep(e) \/ Release(e)
      <4>1. Holds(e) /\ e # d
        BY <3>1 DEF HolderStep, Release, Holds
      <4> QED
        BY <2>1, <3>1, <4>1 DEF HolderStep, Release, End, TypeOK
    <3>2. CASE AcquireLock(e) \/ \E exit \in {2, 4} : ReturnUnlocked(e, exit)
      BY <3>2 DEF AcquireLock, ReturnUnlocked, directory
    <3> QED
      BY <2>1, <2>4, <3>1, <3>2, MainHolds
  <2>5. ASSUME NEW e \in Daemons, Expire(e) \/ \E s \in Signals : Signal(e, s) PROVE FALSE
    BY <2>5 DEF Expire, Signal, directory
  <2>6. ASSUME NEW e \in Daemons, NEW c \in Clients, Handlers(e, c) PROVE FALSE
    BY <2>6 DEF Handlers, HandlerPolls, HandlerReads, HandlerAnswers, HandlerPanics, Handler
  <2>7. CASE Others
    BY <2>7 DEF Others, OtherRemoves, OtherPuts
  <2> QED
    BY <2>3, <2>4, <2>5, <2>6, <2>7 DEF Next
<1> QED
  BY <1>1, Invariance, PTL DEF Spec, OnlyHolderTouches

-----------------------------------------------------------------------------
(* The late answer, step by step.                                          *)

LEMMA LateSame ==
  ASSUME LateInv, UNCHANGED <<late, handlers>>,
         \A d \in Daemons : stopping[d] => stopping'[d]
  PROVE  LateInv'
BY DEF LateInv

LEMMA MainLate ==
  ASSUME TypeOK, LateInv, NEW d \in Daemons, Main(d) PROVE LateInv'
<1>1. CASE \E c \in Clients : Accept(d, c)
  BY <1>1 DEF Accept, TypeOK, LateInv
<1>2. CASE Release(d)
  BY <1>2 DEF Release, End, TypeOK, LateInv
<1>3. CASE StopServing(d) \/ AcceptFails(d)
  <2>1. UNCHANGED <<late, handlers>> /\ \A e \in Daemons : stopping[e] => stopping'[e]
    BY <1>3 DEF StopServing, AcceptFails, TypeOK
  <2> QED
    BY <2>1, LateSame
<1>4. CASE Startup(d)
  <2>1. UNCHANGED <<late, handlers, stopping>>
    BY <1>4 DEF Startup, RuntimeUnsafe, AcquireLock, DaemonRunning, OpenStore, InspectSocket,
                ConnectSocket, BindSocket, BindFails, ProvePathname, ProveStable, SocketUnproven,
                MakeNonblocking, ReturnUnlocked, Goto, Leave, threads
  <2> QED
    BY <2>1, LateSame
<1>5. CASE Cleanup(d)
  <2>1. UNCHANGED <<late, handlers, stopping>>
    BY <1>5 DEF Cleanup, CheckIdentity, RenameAway, Verify, RenameBack, CleanupDone, Goto, threads
  <2> QED
    BY <2>1, LateSame
<1>6. CASE \/ CloseListener(d) \/ Window(d) \/ AfterCleanup(d) \/ Drain(d) \/ Decide(d)
         \/ PollSignal(d) \/ AcceptNobody(d) \/ SpawnPanics(d) \/ ReturnBroken(d)
  <2>1. UNCHANGED <<late, handlers, stopping>>
    BY <1>6 DEF CloseListener, Window, AfterCleanup, Drain, Decide, LeaveOnSecond, PollSignal,
                AcceptNobody, SpawnPanics, ReturnBroken, Goto, Leave, threads
  <2> QED
    BY <2>1, LateSame
<1> QED
  BY <1>1, <1>2, <1>3, <1>4, <1>5, <1>6 DEF Main, Serve, Shutdown

LEMMA HandlersLate ==
  ASSUME TypeOK, LateInv, NEW d \in Daemons, NEW c \in Clients, Handlers(d, c) PROVE LateInv'
<1>1. CASE HandlerPolls(d, c)
  BY <1>1 DEF HandlerPolls, Handler, ToldToStop, TypeOK, LateInv
<1>2. CASE HandlerReads(d, c)
  BY <1>2 DEF HandlerReads, Handler, TypeOK, LateInv
<1>3. CASE HandlerPanics(d, c)
  BY <1>3 DEF HandlerPanics, Handler, TypeOK, LateInv
<1>4. CASE HandlerAnswers(d, c)
  <2>1. PICK to \in {"polling", "finished"} : Handler(d, c, "answering", to)
    BY <1>4 DEF HandlerAnswers
  <2>2. late[d][c] = 0
    BY <2>1 DEF Handler, LateInv
  <2>3. late'[d][c] = IF stopping[d] THEN 1 ELSE 0
    BY <1>4, <2>2 DEF HandlerAnswers, TypeOK
  <2>4. \A e \in Daemons, b \in Clients :
          <<e, b>> # <<d, c>> => late'[e][b] = late[e][b] /\ handlers'[e][b] = handlers[e][b]
    BY <1>4, <2>1 DEF HandlerAnswers, Handler, TypeOK
  <2>5. handlers'[d][c] = to /\ UNCHANGED stopping
    BY <2>1 DEF Handler, TypeOK
  <2> QED
    BY <2>3, <2>4, <2>5 DEF LateInv
<1> QED
  BY <1>1, <1>2, <1>3, <1>4 DEF Handlers

LEMMA LateNext ==
  ASSUME TypeOK, LateInv, [Next]_vars PROVE LateInv'
<1>1. ASSUME NEW d \in Daemons, Start(d) PROVE LateInv'
  BY <1>1 DEF Start, TypeOK, LateInv
<1>2. ASSUME NEW d \in Daemons, Crash(d) PROVE LateInv'
  BY <1>2 DEF Crash, End, TypeOK, LateInv
<1>3. ASSUME NEW d \in Daemons, Expire(d) \/ \E s \in Signals : Signal(d, s) PROVE LateInv'
  BY <1>3, LateSame DEF Expire, Signal, threads
<1>4. CASE Others \/ UNCHANGED vars
  BY <1>4, LateSame DEF Others, OtherRemoves, OtherPuts, vars, threads
<1> QED
  BY <1>1, <1>2, <1>3, <1>4, MainLate, HandlersLate DEF Next

(* Once a daemon is stopping, a connection gets at most one more answer.   *)
THEOREM AtMostOneLate == Spec => []OneLateAnswer
<1>1. Init => TypeOK /\ LateInv
  BY TypeInit DEF Init, LateInv
<1>2. TypeOK /\ LateInv /\ [Next]_vars => (TypeOK /\ LateInv)'
  BY TypeNext, LateNext
<1>3. LateInv => OneLateAnswer
  BY DEF LateInv, OneLateAnswer
<1> QED
  BY <1>1, <1>2, <1>3, PTL DEF Spec
=============================================================================
