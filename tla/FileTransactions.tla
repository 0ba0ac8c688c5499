---------------------------- MODULE FileTransactions ----------------------------
(***************************************************************************)
(* The transaction manager composed with the file tree its executor acts   *)
(* on and with the rollback manager.  A client commits a transaction and   *)
(* gets a report of it, from which it may ask for a rollback, also twice.  *)
(* Nothing isolates transactions: others act on the tree at any time.      *)
(*                                                                         *)
(* The file operations hold one lock, the directory operations another one *)
(* and a rollback a third one, none of which excludes the others: between  *)
(* the check and the change of an operation the tree may change.  A change *)
(* itself (a few calls of the library) is one step.                        *)
(***************************************************************************)
EXTENDS TransactionManager, FileTree

CONSTANTS
  InitialTrees,    \* the trees to start from
  Direct,          \* operations other users perform outside of transactions
  StopOnFailure,   \* stop_on_failure of the rollback manager
  NoRollback       \* what a client that rolls nothing back has to undo

\* A rename gives a new name in the same directory, and the paths considered hold
\* what a directory that is copied or moved takes along.  Without a transaction
\* RENAME_DIRECTORY is another method, not modelled.
ASSUME FilesAssumption ==
  /\ \A tree \in InitialTrees : IsTree(tree)
  /\ Operations \cup Direct \subseteq Operation
  /\ \A op \in Direct : op.type # "RENAME_DIRECTORY"
  /\ \A op \in Operations \cup Direct :
       /\ op.type = "RENAME" => Parents(op.dst) = Parents(op.src)
       /\ op.type \in {"COPY_DIRECTORY", "MOVE_DIRECTORY"} /\ op.dst \notin Subtree(op.src) =>
            \A q \in Subtree(op.src) : Moved(op.src, op.dst, q) \in Paths
  /\ StopOnFailure \in BOOLEAN
  /\ NoRollback \notin Seq(InverseOperation)

VARIABLES
  files,      \* the tree
  report,     \* the TransactionResult of each client's last commit
  undo,       \* the rest of the plan of each client's rollback
  passed,     \* what the check of each client's next operation or inverse has seen
  direct,     \* the same of the operations of others
  snapshot,   \* history: the tree when the commit of each client began
  spoiled     \* history: clients whose rollback cannot, or need not, restore it

fileVars == <<files, report, undo, passed, direct, snapshot, spoiled>>

FilesTypeOK ==
  /\ ManagerTypeOK
  /\ IsTree(files)
  /\ report \in [Clients -> Commitment \cup {Idle}]
  /\ undo \in [Clients -> Seq(InverseOperation) \cup {NoRollback}]
  /\ passed \in [Clients -> Verdicts]
  /\ direct \in [Direct -> Verdicts]
  /\ \A c \in Clients : IsTree(snapshot[c])
  /\ spoiled \subseteq Clients

-----------------------------------------------------------------------------
\* A completed operation that replaced something, that has no inverse, or that
\* made parent directories nobody removes; or one that failed half-way.
Replaces(op, tree)     == op.type \notin Removing /\ Exists(tree, op.dst)
MakesParents(op, tree) == op.type \notin Removing /\ \E q \in Parents(op.dst) : ~Exists(tree, q)

Spoils(op, outcome) ==
  CASE outcome.status = "COMPLETED" ->
         op.type \in Removing \/ Replaces(op, files) \/ MakesParents(op, files)
    [] outcome.status = "FAILED"  -> outcome.tree # files
    [] outcome.status = "SKIPPED" -> FALSE

\* The other clients between the start of a commit and the end of its rollback.
Others(c) == Clients \ {c}

\* One lock of all file operations, one of all directory operations.
FileTypes      == {"COPY", "MOVE", "RENAME", "DELETE", "CREATE"}
DirectoryTypes == {"CREATE_DIRECTORY", "DELETE_DIRECTORY", "COPY_DIRECTORY", "MOVE_DIRECTORY",
                   "EMPTY_DIRECTORY"}

SameLock(op, other) == \E types \in {FileTypes, DirectoryTypes} : {op.type, other.type} \subseteq types

Excluded(op) ==
  \/ \E c \in Clients : /\ committing[c] # Idle /\ passed[c] # "NOT_YET"
                        /\ SameLock(op, NextOf(committing[c]))
  \/ \E other \in Direct : direct[other] # "NOT_YET" /\ SameLock(op, other)

GoesOn(op)  == ~Excluded(op) /\ Check(op, files) \in Passing
EndsNow(op) == ~Excluded(op) /\ Check(op, files) \notin Passing

BeginCommit(c, t) ==
  /\ undo[c] = NoRollback
  /\ StartCommit(c, t)
  /\ report' = [report EXCEPT ![c] = Idle]
  /\ snapshot' = [snapshot EXCEPT ![c] = files]
  /\ spoiled' = spoiled \ {c}
  /\ UNCHANGED <<files, undo, passed, direct>>

CheckNext(c) ==
  /\ committing[c] # Idle /\ HasNext(committing[c]) /\ passed[c] = "NOT_YET"
  /\ GoesOn(NextOf(committing[c]))
  /\ passed' = [passed EXCEPT ![c] = Check(NextOf(committing[c]), files)]
  /\ UNCHANGED <<managerVars, files, report, undo, direct, snapshot, spoiled>>

CommitNext(c) ==
  /\ committing[c] # Idle /\ HasNext(committing[c])
  /\ passed[c] = "NOT_YET" => EndsNow(NextOf(committing[c]))
  /\ LET op == NextOf(committing[c])
     IN  \E outcome \in Outcomes(op, passed[c], files) :
           /\ ExecuteNext(c, outcome.status)
           /\ files' = outcome.tree
           /\ spoiled' = spoiled \cup (IF files' # files THEN Others(c) ELSE {})
                                 \cup (IF Spoils(op, outcome) THEN {c} ELSE {})
  /\ passed' = [passed EXCEPT ![c] = "NOT_YET"]
  /\ UNCHANGED <<report, undo, direct, snapshot>>

EndCommit(c) ==
  /\ FinishCommit(c)
  /\ report' = [report EXCEPT ![c] = committing[c]]
  /\ UNCHANGED <<files, undo, passed, direct, snapshot, spoiled>>

\* _build_rollback_plan: the inverses of the completed operations, last one first.
CompletedOf(k) ==
  [i \in DOMAIN k.results |-> IF k.results[i] = "COMPLETED" THEN Inverses(k.operations[i]) ELSE {}]

\* Wrong on purpose (RollbackRestores): the plan follows the order of execution.
PlanInOrder(k) == FlattenSeq([i \in DOMAIN k.results |-> SetToSeq(CompletedOf(k)[i])])

PlanOf(k) == FlattenSeq([i \in DOMAIN k.results |-> SetToSeq(Reverse(CompletedOf(k))[i])])

\* rollback holds the lock of the manager to its end: one at a time.
StartRollback(c) ==
  /\ committing[c] = Idle /\ report[c] # Idle
  /\ \A d \in Clients : undo[d] = NoRollback
  /\ undo' = [undo EXCEPT ![c] = PlanOf(report[c])]
  /\ UNCHANGED <<managerVars, files, report, passed, direct, snapshot, spoiled>>

CheckUndo(c) ==
  /\ undo[c] \notin {NoRollback, << >>} /\ passed[c] = "NOT_YET"
  /\ IsThere(Head(undo[c]), files)
  /\ passed' = [passed EXCEPT ![c] = "GOES_ON"]
  /\ UNCHANGED <<managerVars, files, report, undo, direct, snapshot, spoiled>>

UndoNext(c) ==
  /\ undo[c] \notin {NoRollback, << >>}
  /\ passed[c] = "NOT_YET" => ~IsThere(Head(undo[c]), files)
  /\ \E outcome \in UndoOutcomes(Head(undo[c]), passed[c], files) :
       /\ files' = outcome.tree
       /\ undo' = [undo EXCEPT ![c] = IF outcome.status = "FAILED" /\ StopOnFailure
                                      THEN << >> ELSE Tail(@)]
       /\ spoiled' = spoiled \cup (IF files' # files THEN Others(c) ELSE {})
                             \cup (IF outcome # Undone(Head(undo[c]), passed[c], files)
                                   THEN {c} ELSE {})
  /\ passed' = [passed EXCEPT ![c] = "NOT_YET"]
  /\ UNCHANGED <<managerVars, report, direct, snapshot>>

\* A second rollback of one report promises nothing.
EndRollback(c) ==
  /\ undo[c] = << >>
  /\ undo' = [undo EXCEPT ![c] = NoRollback]
  /\ spoiled' = spoiled \cup {c}
  /\ UNCHANGED <<managerVars, files, report, passed, direct, snapshot>>

\* The provider performs an operation without a transaction at once, by the same
\* methods under the same locks.
CheckDirectly(op) ==
  /\ direct[op] = "NOT_YET" /\ GoesOn(op)
  /\ direct' = [direct EXCEPT ![op] = Check(op, files)]
  /\ UNCHANGED <<managerVars, files, report, undo, passed, snapshot, spoiled>>

ActDirectly(op) ==
  /\ direct[op] # "NOT_YET"
  /\ \E outcome \in Outcomes(op, direct[op], files) :
       /\ files' = outcome.tree
       /\ spoiled' = spoiled \cup IF files' # files THEN Clients ELSE {}
  /\ direct' = [direct EXCEPT ![op] = "NOT_YET"]
  /\ UNCHANGED <<managerVars, report, undo, passed, snapshot>>

-----------------------------------------------------------------------------
FilesInit ==
  /\ ManagerInit
  /\ files \in InitialTrees
  /\ report = [c \in Clients |-> Idle]
  /\ undo = [c \in Clients |-> NoRollback]
  /\ passed = [c \in Clients |-> "NOT_YET"]
  /\ direct = [op \in Direct |-> "NOT_YET"]
  /\ snapshot = [c \in Clients |-> files]
  /\ spoiled = {}

FilesNext ==
  \/ /\ \E t \in TransactionIds : \/ Begin(t)
                                  \/ \E op \in Operations : RecordOperation(t, op)
                                  \/ Abort(t)
     /\ UNCHANGED fileVars
  \/ Clear /\ UNCHANGED fileVars
  \/ \E c \in Clients : \/ \E t \in TransactionIds : BeginCommit(c, t)
                        \/ CheckNext(c)
                        \/ CommitNext(c)
                        \/ EndCommit(c)
                        \/ StartRollback(c)
                        \/ CheckUndo(c)
                        \/ UndoNext(c)
                        \/ EndRollback(c)
  \/ \E op \in Direct : CheckDirectly(op) \/ ActDirectly(op)

FilesSpec == FilesInit /\ [][FilesNext]_<<managerVars, fileVars>>

-----------------------------------------------------------------------------
(* Properties                                                                *)

\* A rollback, of a commit that failed as well as of one that succeeded, leaves
\* the tree as the commit found it, provided that every completed operation has an
\* inverse and made exactly what it names, that no operation was interrupted and
\* that nobody else changed the tree meanwhile.  The inverses work on whatever is
\* there, so this rests on the order of the plan.
RollbackRestores ==
  \A c \in Clients \ spoiled : undo[c] = << >> => files = snapshot[c]

\* "DENY: Fail if destination exists", "SKIP: Silently skip if destination exists",
\* "RENAME: Auto-rename destination to avoid conflict" (the comments of
\* OverwritePolicy): an operation of a commit that has one of these policies changes no
\* file that is at its destination or below it.  Refuted, under RENAME by the operation
\* alone, under DENY by an operation of another class between its check and its change.
OnlyOverwriteReplaces ==
  [][\A c \in Clients :
       (committing[c] # Idle /\ HasNext(committing[c]) /\ committing'[c] # committing[c]) =>
         LET op == NextOf(committing[c])
         IN  op.type \in Conflicting \cup {"CREATE"} /\ op.policy # "OVERWRITE" =>
               \A p \in Subtree(op.dst) : IsFile(files, p) => files'[p] = files[p]
    ]_<<managerVars, fileVars>>

\* A rollback does not remove a file the transaction had found and left alone.
RollbackSparesUntouchedFiles ==
  [][\A c \in Clients :
       (undo[c] \notin {NoRollback, << >>} /\ undo'[c] # undo[c]) =>
         \A p \in Paths : IsFile(files, p) /\ files[p] = snapshot[c][p] => files'[p] # Absent
    ]_<<managerVars, fileVars>>
=============================================================================
