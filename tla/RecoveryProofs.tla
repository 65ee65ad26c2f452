--------------------------- MODULE RecoveryProofs ---------------------------
(***************************************************************************)
(* Theorems about Recovery, for any number of operations, contents, inodes *)
(* and authorizations: its types, and that recoveries touch no file of the *)
(* author's, have one result, and make one file unless an effect was lost. *)
(***************************************************************************)
EXTENDS Recovery, TLAPS

IInv == TypeOK /\ RecoveryInv /\ OnceUnlessLost

-----------------------------------------------------------------------------
(* A binding holds what its request asks for.                              *)
LEMMA BindingType ==
  ASSUME TypeOK, NEW r \in Request, r.auth # NoAuth
  PROVE  /\ Binding(r) \in Fingerprint
         /\ Binding(r)[2] = r.content
         /\ Binding(r)[3] = r.auth
BY DEF TypeOK, Binding, Fingerprint, Request

(* A new process has no recovery, and an empty table.                      *)
LEMMA InitHolds == Init => IInv
<1> SUFFICES ASSUME Init PROVE IInv
  OBVIOUS
<1> USE DEF Init
<1>1. file \in Maybe(File)
  BY AcceptedIsFile DEF Maybe, File
<1>2. DOMAIN actions = {} /\ actions \in [DOMAIN actions -> Action]
  OBVIOUS
<1>3. effects \in [Ops -> 0 .. 2]
  OBVIOUS
<1>4. TypeOK
  BY <1>1, <1>2, <1>3 DEF TypeOK, Maybe
<1>5. RecoveryInv /\ OnceUnlessLost
  BY DEF RecoveryInv, OnceUnlessLost
<1> QED
  BY <1>4, <1>5 DEF IInv

-----------------------------------------------------------------------------
(* One lemma for each group of actions.                                    *)

(* Reconciliations only add runs; they are started by no recovery.         *)
LEMMA ReconcileKeeps ==
  ASSUME IInv, Reconcile
  PROVE  IInv'
<1>1. PICK run \in Run : RecordRun(run)
  BY DEF Reconcile, ReconcileOwned, ReconcileInput, ReconcileAccepted, Run, Surfaces,
         Provenances, FileProvenance, Maybe
<1> QED
  BY <1>1 DEF IInv, TypeOK, RecoveryInv, OnceUnlessLost, RecordRun, call

(* Whatever ends a recovery without a result: an early return that drops   *)
(* its transaction, or the end of the process.                             *)
LEMMA EndKeeps ==
  ASSUME IInv, rec # None,
         pc' = "idle", rec' = None,
         reply' \in Maybe([request : Request, status : Results \cup {"conflict"}]),
         lost' = IF rec.fd = None THEN lost ELSE lost \cup {rec.request.op},
         file' \in Maybe(File), UNCHANGED <<runs, actions, effects, touched>>
  PROVE  IInv'
<1>1. rec.request.op \in Ops
  BY DEF IInv, TypeOK, Maybe, RecType, Request
<1>2. TypeOK'
  BY <1>1 DEF IInv, TypeOK, Maybe
<1>3. RecoveryInv'
  BY <1>1 DEF IInv, RecoveryInv
<1>4. OnceUnlessLost'
  BY DEF IInv, OnceUnlessLost
<1> QED
  BY <1>2, <1>3, <1>4 DEF IInv

LEMMA CrashKeeps ==
  ASSUME IInv, Crash
  PROVE  IInv'
<1>1. rec # None /\ file \in Maybe(File)
  BY DEF Crash, IInv, TypeOK
<1> QED
  BY <1>1, EndKeeps DEF Crash, Maybe

LEMMA AbandonKeeps ==
  ASSUME IInv, rec # None, Abandon, file' \in Maybe(File)
  PROVE  IInv'
<1>1. rec.request \in Request
  BY DEF IInv, TypeOK, Maybe, RecType
<1>2. reply' \in [request : Request, status : Results \cup {"conflict"}]
  BY <1>1 DEF Abandon, Return
<1> QED
  BY <1>2, EndKeeps DEF Abandon, Return, Maybe

(* Answers of an idle store.                                               *)
LEMMA AnswerKeeps ==
  ASSUME IInv, NEW r \in Request, Retry(r) \/ \E run \in runs : RefuseBinding(r, run)
  PROVE  IInv'
<1>1. UNCHANGED <<file, runs, actions, effects, lost, touched, pc, rec>>
  BY DEF Retry, RefuseBinding, Return, IInv, TypeOK
<1>2. reply' \in Maybe([request : Request, status : Results \cup {"conflict"}])
  BY DEF Retry, RefuseBinding, Return, IInv, TypeOK, Known, Action, Maybe
<1> QED
  BY <1>1, <1>2 DEF IInv, TypeOK, RecoveryInv, OnceUnlessLost, Maybe

LEMMA BindKeeps ==
  ASSUME IInv, NEW r \in Request, NEW run \in Run, NEW checkpoint \in Checkpoints,
         Bind(r, run, checkpoint)
  PROVE  IInv'
<1>1. Binding(r) \in Fingerprint /\ Binding(r)[2] = r.content /\ Binding(r)[3] = r.auth
  BY BindingType DEF IInv, Bind, Bindable
<1>2. rec' \in RecType /\ rec'.request = r /\ rec'.fingerprint = Binding(r)
      /\ rec'.fd = None /\ rec'.checkpoint = checkpoint
  BY <1>1 DEF Bind, RecType, Maybe
<1>3. rec' # None /\ rec = None
  BY <1>2, NoneIsNoRecovery DEF Bind, IInv, TypeOK
<1>4. TypeOK'
  BY <1>2, <1>3 DEF Bind, IInv, TypeOK, Maybe
<1>5. RecoveryInv'
  BY <1>1, <1>2, <1>3 DEF Bind, IInv, RecoveryInv, Known
<1>6. OnceUnlessLost'
  BY DEF Bind, IInv, OnceUnlessLost
<1> QED
  BY <1>4, <1>5, <1>6 DEF IInv

LEMMA CreateFileKeeps ==
  ASSUME IInv, CreateFile
  PROVE  IInv'
<1>1. PICK ino \in Inodes :
        file' = [ino |-> ino, content |-> Empty] /\ rec' = [rec EXCEPT !.fd = ino]
  BY DEF CreateFile
<1>2. rec \in RecType /\ rec # None /\ rec.fd = None
  BY DEF CreateFile, IInv, TypeOK, RecoveryInv, Maybe
<1>3. rec' \in RecType /\ rec'.request = rec.request /\ rec'.fd = ino
      /\ rec'.fingerprint = rec.fingerprint
  BY <1>1, <1>2 DEF RecType, Maybe
<1>4. rec' # None /\ ino # None /\ rec.request.op \in Ops
  BY <1>2, <1>3, NoneIsNoRecovery, NoneIsNoThing DEF RecType, Request
<1> DEFINE op == rec.request.op
<1>5. effects' \in [Ops -> 0 .. 2]
      /\ \A o \in Ops \ {op} : effects'[o] = effects[o]
      /\ effects'[op] = IF effects[op] < 2 THEN effects[op] + 1 ELSE effects[op]
  BY <1>4 DEF CreateFile, IInv, TypeOK
<1>6. effects[op] > 0 => op \in lost
  BY <1>2, <1>4 DEF IInv, RecoveryInv
<1>7. effects[op] \in 0 .. 2
  BY <1>4 DEF IInv, TypeOK
<1>8. TypeOK'
  BY <1>1, <1>3, <1>4, <1>5 DEF CreateFile, IInv, TypeOK, Maybe, File
<1>9. RecoveryInv'
  BY <1>2, <1>3, <1>4, <1>5 DEF CreateFile, IInv, RecoveryInv
<1>10. OnceUnlessLost'
  BY <1>5, <1>6, <1>7 DEF CreateFile, IInv, OnceUnlessLost
<1> QED
  BY <1>8, <1>9, <1>10 DEF IInv

(* What a write leaves at the path.                                        *)
LEMMA WrittenType ==
  ASSUME IInv, rec # None
  PROVE  Written \in Maybe(File)
BY DEF IInv, TypeOK, Written, OpenFileAtPath, Maybe, File, RecType, Request

LEMMA WriteKeeps ==
  ASSUME IInv, WriteFile \/ WriteFails \/ FileExists
  PROVE  IInv'
<1>1. rec # None /\ file \in Maybe(File)
  BY DEF IInv, TypeOK, WriteFile, WriteFails, FileExists
<1>2. CASE WriteFile
  BY <1>1, <1>2, WrittenType DEF WriteFile, IInv, TypeOK, RecoveryInv, OnceUnlessLost
<1>3. CASE WriteFails
  BY <1>1, <1>3, WrittenType, AbandonKeeps DEF WriteFails
<1>4. CASE FileExists
  BY <1>1, <1>4, AbandonKeeps DEF FileExists
<1> QED
  BY <1>2, <1>3, <1>4

LEMMA VerifyKeeps ==
  ASSUME IInv, VerifyFile
  PROVE  IInv'
<1>1. rec # None /\ file \in Maybe(File) /\ UNCHANGED file
  BY DEF IInv, TypeOK, VerifyFile
<1>2. CASE Abandon
  BY <1>1, <1>2, AbandonKeeps
<1>3. CASE ~Abandon
  BY <1>1, <1>3
  DEF VerifyFile, Verified, IInv, TypeOK, RecoveryInv, OnceUnlessLost
<1> QED
  BY <1>2, <1>3

(* The row of the committed action; all others stay.                       *)
LEMMA CommitAdds ==
  ASSUME IInv, Commit
  PROVE  /\ rec # None /\ rec.request \in Request /\ rec.request.op \in Ops
         /\ rec.request.op \notin DOMAIN actions
         /\ DOMAIN actions' = DOMAIN actions \cup {rec.request.op}
         /\ actions' \in [DOMAIN actions' -> Action]
         /\ actions'[rec.request.op] = [fingerprint |-> rec.fingerprint, result |-> Terminal]
         /\ \A op \in DOMAIN actions : actions'[op] = actions[op]
         /\ Terminal \in Results
<1>1. rec \in RecType /\ rec # None
  BY DEF Commit, IInv, TypeOK, Maybe
<1>2. Terminal \in Results
  BY DEF Terminal, Results
<1>3. rec.request \in Request /\ rec.request.op \in Ops /\ rec.fingerprint \in Fingerprint
      /\ rec.request.op \notin DOMAIN actions
  BY <1>1 DEF RecType, Request, IInv, RecoveryInv
<1>4. [fingerprint |-> rec.fingerprint, result |-> Terminal] \in Action
  BY <1>2, <1>3 DEF Action
<1>5. \A op \in DOMAIN actions : actions[op] \in Action
  BY DEF IInv, TypeOK
<1> QED
  BY <1>1, <1>2, <1>3, <1>4, <1>5 DEF Commit

LEMMA CommitKeeps ==
  ASSUME IInv, Commit
  PROVE  IInv'
<1>1. reply' \in Maybe([request : Request, status : Results \cup {"conflict"}])
  BY CommitAdds DEF Commit, Return, Maybe
<1>2. TypeOK'
  BY <1>1, CommitAdds DEF Commit, Return, IInv, TypeOK, Maybe
<1>3. RecoveryInv'
  BY CommitAdds DEF Commit, Return, IInv, RecoveryInv
<1>4. OnceUnlessLost'
  BY DEF Commit, IInv, OnceUnlessLost
<1> QED
  BY <1>2, <1>3, <1>4 DEF IInv

LEMMA AuthorKeeps ==
  ASSUME IInv, Author
  PROVE  IInv'
<1>1. file' \in Maybe(File) /\ touched' = TRUE /\ UNCHANGED <<runs, actions, call, effects, lost>>
  BY DEF Author, AuthorRemoves, AuthorWrites, AuthorReplaces, AuthorChanges, IInv, TypeOK,
         Maybe, File
<1> QED
  BY <1>1 DEF IInv, TypeOK, RecoveryInv, OnceUnlessLost, call

LEMMA StepKeeps == IInv /\ [Next]_vars => IInv'
<1> SUFFICES ASSUME IInv, [Next]_vars PROVE IInv'
  OBVIOUS
<1>1. CASE Reconcile
  BY <1>1, ReconcileKeeps
<1>2. CASE Recover
  <2>1. runs \subseteq Run
    BY DEF IInv, TypeOK
  <2> QED
    BY <1>2, <2>1, AnswerKeeps, BindKeeps, CreateFileKeeps, WriteKeeps, VerifyKeeps, CommitKeeps
    DEF Recover
<1>3. CASE Crash
  BY <1>3, CrashKeeps
<1>4. CASE Author
  BY <1>4, AuthorKeeps
<1>5. CASE UNCHANGED vars
  BY <1>5 DEF vars, call, IInv, TypeOK, RecoveryInv, OnceUnlessLost
<1> QED
  BY <1>1, <1>2, <1>3, <1>4, <1>5 DEF Next

-----------------------------------------------------------------------------
(* Types, the effects of each operation and what a running recovery is     *)
(* bound to: the conjunction is inductive.                                 *)
THEOREM Invariance == Spec => []IInv
<1>1. Init => IInv
  BY InitHolds
<1>2. IInv /\ [Next]_vars => IInv'
  BY StepKeeps
<1> QED
  BY <1>1, <1>2, PTL DEF Spec

(* The tables, the running recovery and the target have their types.       *)
THEOREM TypeCorrect == Spec => []TypeOK
<1>1. IInv => TypeOK
  BY DEF IInv
<1> QED
  BY <1>1, Invariance, PTL

(* recover_with_checkpoint makes the file of an operation a second time    *)
(* only after an effect of it was lost with its transaction, however runs, *)
(* retries, deaths and the author are interleaved.                         *)
THEOREM MadeOnce == Spec => []OnceUnlessLost
<1>1. IInv => OnceUnlessLost
  BY DEF IInv
<1> QED
  BY <1>1, Invariance, PTL

(* create_new is all that protects a file: recoveries write only to files  *)
(* they made.                                                              *)
THEOREM FilesStay == Spec => PriorFilesUntouched
<1> DEFINE Untouched == pc' # pc /\ file' # file => file = None \/ (rec # None /\ file.ino = rec.fd)
<1>1. IInv /\ [Next]_vars => [Untouched]_vars
  <2> SUFFICES ASSUME IInv, Next, pc' # pc, file' # file
               PROVE  file = None \/ (rec # None /\ file.ino = rec.fd)
    OBVIOUS
  <2>1. ~Reconcile /\ ~Author
    BY DEF Reconcile, ReconcileOwned, ReconcileInput, ReconcileAccepted, RecordRun, call,
           Author, AuthorRemoves, AuthorWrites, AuthorReplaces, AuthorChanges
  <2>2. CreateFile \/ WriteFile \/ WriteFails
    BY <2>1 DEF Next, Recover, Crash, Retry, RefuseBinding, Bind, FileExists, VerifyFile, Commit
  <2>3. rec # None
    BY <2>2 DEF CreateFile, WriteFile, WriteFails, IInv, TypeOK
  <2> QED
    BY <2>2, <2>3 DEF CreateFile, PathFree, WriteFile, WriteFails, Written, OpenFileAtPath
<1> QED
  BY <1>1, Invariance, PTL DEF Spec, PriorFilesUntouched

(* A result that was committed is what every later call of the operation   *)
(* gets, and only with the content and authorization it was decided for.   *)
THEOREM ResultsAreFinal == Spec => ResultIsFinal
<1> DEFINE Final ==
      /\ \A op \in DOMAIN actions : op \in DOMAIN actions' /\ actions'[op] = actions[op]
      /\ reply' # reply /\ reply' # None /\ reply'.status \in Results =>
           LET r == reply'.request IN
           /\ r.op \in DOMAIN actions'
           /\ actions'[r.op].result = reply'.status
           /\ actions'[r.op].fingerprint[2] = r.content
           /\ actions'[r.op].fingerprint[3] = r.auth
<1>1. IInv /\ [Next]_vars => [Final]_vars
  <2> SUFFICES ASSUME IInv, Next PROVE Final
    OBVIOUS
  <2>1. CASE Commit
    <3>1. reply' = [request |-> rec.request, status |-> Terminal]
      BY <2>1 DEF Commit, Return
    <3>2. rec.fingerprint[2] = rec.request.content /\ rec.fingerprint[3] = rec.request.auth
      BY <2>1, CommitAdds DEF IInv, RecoveryInv
    <3> QED
      BY <2>1, <3>1, <3>2, CommitAdds
  <2>2. CASE \E r \in Request : Retry(r)
    <3>1. PICK r \in Request : Retry(r)
      BY <2>2
    <3>2. UNCHANGED actions /\ reply'.request = r /\ r.op \in DOMAIN actions
          /\ reply'.status = IF SameRequest(r) THEN actions[r.op].result ELSE "conflict"
      BY <3>1 DEF Retry, Return, Known
    <3>3. "conflict" \notin Results
      BY DEF Results
    <3> QED
      BY <3>2, <3>3 DEF SameRequest
  <2>3. CASE ~Commit /\ ~\E r \in Request : Retry(r)
    <3>1. UNCHANGED actions
      BY <2>3 DEF Next, Reconcile, ReconcileOwned, ReconcileInput, ReconcileAccepted, RecordRun,
                  Author, AuthorRemoves, AuthorWrites, AuthorReplaces, AuthorChanges, Crash,
                  Recover, RefuseBinding, Bind, CreateFile, FileExists, WriteFile, WriteFails,
                  VerifyFile, Abandon
    <3>2. reply' = reply \/ reply' = None \/ \E r : reply' = [request |-> r, status |-> "conflict"]
      BY <2>3 DEF Next, Reconcile, ReconcileOwned, ReconcileInput, ReconcileAccepted, RecordRun,
                  Author, AuthorRemoves, AuthorWrites, AuthorReplaces, AuthorChanges, Crash, call,
                  Recover, RefuseBinding, Bind, CreateFile, FileExists, WriteFile, WriteFails,
                  VerifyFile, Abandon, Return
    <3> QED
      BY <3>1, <3>2 DEF Results
  <2> QED
    BY <2>1, <2>2, <2>3
<1> QED
  BY <1>1, Invariance, PTL DEF Spec, ResultIsFinal

(* What is recorded as applied was whole when the transaction committed,   *)
(* unless the author acted since it was read back.                         *)
THEOREM AppliedIsWhole == Spec => AppliedWasWhole
<1> DEFINE Whole ==
      \A op \in DOMAIN actions' \ DOMAIN actions :
        actions'[op].result = "applied" /\ ~touched =>
          file # None /\ file.content = actions'[op].fingerprint[2]
<1>1. IInv /\ [Next]_vars => [Whole]_vars
  <2> SUFFICES ASSUME IInv, Next, NEW op \in DOMAIN actions' \ DOMAIN actions,
                      actions'[op].result = "applied", ~touched
               PROVE  file # None /\ file.content = actions'[op].fingerprint[2]
    OBVIOUS
  <2>1. Commit
    BY DEF Next, Reconcile, ReconcileOwned, ReconcileInput, ReconcileAccepted, RecordRun,
           Author, AuthorRemoves, AuthorWrites, AuthorReplaces, AuthorChanges, Crash,
           Recover, Retry, RefuseBinding, Bind, CreateFile, FileExists, WriteFile, WriteFails,
           VerifyFile, Abandon
  <2>2. op = rec.request.op /\ Terminal = "applied" /\ actions'[op].fingerprint = rec.fingerprint
    BY <2>1, CommitAdds
  <2>3. rec.checkpoint = "effect" /\ pc = "verified"
    BY <2>1, <2>2 DEF Terminal, Commit
  <2> QED
    BY <2>1, <2>2, <2>3, CommitAdds DEF IInv, RecoveryInv
<1> QED
  BY <1>1, Invariance, PTL DEF Spec, AppliedWasWhole
=============================================================================
