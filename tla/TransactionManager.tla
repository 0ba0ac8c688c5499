--------------------------- MODULE TransactionManager ---------------------------
(***************************************************************************)
(* The transaction manager of the filesystem engine.  Its lock is held     *)
(* for the start and for the end of a commit but not in between, while the *)
(* operations are executed one after the other: other threads begin,       *)
(* abort, clear and commit meanwhile.                                      *)
(*                                                                         *)
(* A commit works on the state object it found in the table.  The table    *)
(* may lose that object (clear) or get another one under the same          *)
(* identifier (begin), so objects are told apart by a generation.          *)
(***************************************************************************)
EXTENDS Naturals, Sequences, SequencesExt

CONSTANTS
  TransactionIds,   \* identifiers of transactions
  Clients,          \* threads that commit
  Operations,       \* operations that can be recorded
  NoTransaction,    \* an identifier the table does not hold
  Idle,             \* what a client that commits nothing works on
  MaxBegins,        \* bound: how often one identifier is begun
  MaxOperations     \* bound on the operations of a transaction

TransactionStatus == {"OPEN", "COMMITTING", "COMMITTED", "ABORTED", "FAILED"}
OperationStatus   == {"COMPLETED", "SKIPPED", "FAILED"}
Generations       == 1 .. MaxBegins

Transaction == [generation : Generations, status : TransactionStatus,
                operations : Seq(Operations)]

Commitment == [id : TransactionIds, generation : Generations,
               operations : Seq(Operations), results : Seq(OperationStatus)]

ASSUME TransactionAssumption ==
  /\ MaxBegins \in Nat
  /\ MaxOperations \in Nat
  /\ NoTransaction \notin Transaction
  /\ Idle \notin Commitment

VARIABLES
  transactions,   \* _transactions
  committing,     \* the commit each client is in: its state object and results
  begins,         \* history: how often each identifier was begun
  executed        \* history: the operations executed for each state object

managerVars == <<transactions, committing, begins, executed>>

ManagerTypeOK ==
  /\ transactions \in [TransactionIds -> Transaction \cup {NoTransaction}]
  /\ committing \in [Clients -> Commitment \cup {Idle}]
  /\ begins \in [TransactionIds -> 0 .. MaxBegins]
  /\ executed \in [TransactionIds \X Generations -> Seq(Operations)]

-----------------------------------------------------------------------------
InTable(t)        == transactions[t] # NoTransaction
HasStatus(t, s)   == InTable(t) /\ transactions[t].status = s
SetStatus(t, s)   == transactions' = [transactions EXCEPT ![t].status = s]
Succeeded(result) == result \in {"COMPLETED", "SKIPPED"}

\* begin raises only when the transaction is open: it replaces a transaction that
\* is being committed.
Begin(t) ==
  /\ begins[t] < MaxBegins
  /\ ~HasStatus(t, "OPEN")
  /\ begins' = [begins EXCEPT ![t] = @ + 1]
  /\ transactions' = [transactions EXCEPT ![t] = [generation |-> begins[t] + 1,
                                                  status |-> "OPEN", operations |-> << >>]]
  /\ UNCHANGED <<committing, executed>>

RecordOperation(t, op) ==
  /\ HasStatus(t, "OPEN")
  /\ Len(transactions[t].operations) < MaxOperations
  /\ transactions' = [transactions EXCEPT ![t].operations = Append(@, op)]
  /\ UNCHANGED <<committing, begins, executed>>

\* Wrong on purpose (OneCommitPerTransaction): the status is not looked at.
StartCommitAnyway(c, t) ==
  /\ committing[c] = Idle
  /\ InTable(t)
  /\ SetStatus(t, "COMMITTING")
  /\ committing' = [committing EXCEPT ![c] =
                      [id |-> t, generation |-> transactions[t].generation,
                       operations |-> transactions[t].operations, results |-> << >>]]
  /\ UNCHANGED <<begins, executed>>

\* commit, up to the release of the lock.
StartCommit(c, t) ==
  /\ committing[c] = Idle
  /\ HasStatus(t, "OPEN")
  /\ SetStatus(t, "COMMITTING")
  /\ committing' = [committing EXCEPT ![c] =
                      [id |-> t, generation |-> transactions[t].generation,
                       operations |-> transactions[t].operations, results |-> << >>]]
  /\ UNCHANGED <<begins, executed>>

\* The loop of commit stops at the first operation that fails.  An executor that
\* raises has failed; every exception is taken to carry a message, as those of the
\* executor of this repository do.
NoFailure(k) == \A i \in DOMAIN k.results : Succeeded(k.results[i])
HasNext(k)   == NoFailure(k) /\ Len(k.results) < Len(k.operations)
NextOf(k)    == k.operations[Len(k.results) + 1]

ExecuteNext(c, result) ==
  /\ committing[c] # Idle
  /\ HasNext(committing[c])
  /\ committing' = [committing EXCEPT ![c].results = Append(@, result)]
  /\ executed' = [executed EXCEPT ![<<committing[c].id, committing[c].generation>>] =
                    Append(@, NextOf(committing[c]))]
  /\ UNCHANGED <<transactions, begins>>

\* Wrong on purpose (ManagerTypeOK): the status of an operation for that of the whole.
StatusOfLast(k) == IF k.results = << >> THEN "COMMITTED" ELSE Last(k.results)

FinalStatus(k) == IF NoFailure(k) THEN "COMMITTED" ELSE "FAILED"

\* Wrong on purpose (StatusTellsEffects): the identifier is looked up again.
InTableByName(k) == InTable(k.id)

\* Wrong on purpose (CommitsEnd): a commit that fails leaves the status alone.
InTableAndDone(k) ==
  InTable(k.id) /\ transactions[k.id].generation = k.generation /\ NoFailure(k)

\* The table still holds the state object of the commit.
StillInTable(k) == InTable(k.id) /\ transactions[k.id].generation = k.generation

\* The end of commit sets the status of its state object, whatever that is by now.
FinishCommit(c) ==
  LET k == committing[c]
  IN  /\ k # Idle
      /\ ~HasNext(k)
      /\ IF StillInTable(k) THEN SetStatus(k.id, FinalStatus(k)) ELSE UNCHANGED transactions
      /\ committing' = [committing EXCEPT ![c] = Idle]
      /\ UNCHANGED <<begins, executed>>

\* abort looks at no status.
Abort(t) ==
  /\ InTable(t)
  /\ SetStatus(t, "ABORTED")
  /\ UNCHANGED <<committing, begins, executed>>

Clear ==
  /\ \E t \in TransactionIds : InTable(t) /\ ~HasStatus(t, "OPEN")
  /\ transactions' = [t \in TransactionIds |->
                        IF HasStatus(t, "OPEN") THEN transactions[t] ELSE NoTransaction]
  /\ UNCHANGED <<committing, begins, executed>>

-----------------------------------------------------------------------------
ManagerInit ==
  /\ transactions = [t \in TransactionIds |-> NoTransaction]
  /\ committing = [c \in Clients |-> Idle]
  /\ begins = [t \in TransactionIds |-> 0]
  /\ executed = [o \in TransactionIds \X Generations |-> << >>]

ManagerNext ==
  \/ \E t \in TransactionIds : \/ Begin(t)
                               \/ \E op \in Operations : RecordOperation(t, op)
                               \/ \E c \in Clients : StartCommit(c, t)
                               \/ Abort(t)
  \/ \E c \in Clients : \/ \E result \in OperationStatus : ExecuteNext(c, result)
                        \/ FinishCommit(c)
  \/ Clear

ManagerSpec == ManagerInit /\ [][ManagerNext]_managerVars

\* A commit that has begun runs to its end: it is one call of one thread, and each
\* of its operations returns.
FairManagerSpec ==
  /\ ManagerSpec
  /\ \A c \in Clients : WF_managerVars(\/ \E result \in OperationStatus : ExecuteNext(c, result)
                                       \/ FinishCommit(c))

-----------------------------------------------------------------------------
(* Properties                                                                *)

Executed(t) == executed[<<t, transactions[t].generation>>]

\* The status of a transaction tells what was done to the disk: nothing while it is
\* open, every recorded operation exactly once and in order when it is committed,
\* the first ones when it failed.  Neither a second commit of the same
\* transaction nor an identifier begun again during a commit changes that.
StatusTellsEffects ==
  \A t \in TransactionIds : InTable(t) =>
    LET ops == transactions[t].operations
    IN  /\ HasStatus(t, "OPEN") => Executed(t) = << >>
        /\ HasStatus(t, "COMMITTED") => Executed(t) = ops
        /\ HasStatus(t, "FAILED") => Executed(t) # << >> /\ IsPrefix(Executed(t), ops)

\* Two clients never execute the operations of one transaction.
OneCommitPerTransaction ==
  \A c, d \in Clients : c # d /\ committing[c] # Idle /\ committing[d] # Idle =>
    <<committing[c].id, committing[c].generation>> # <<committing[d].id, committing[d].generation>>

\* A transaction that is being committed does not stay so: it ends, is aborted, is
\* removed, or is replaced by a new one.
CommitsEnd ==
  \A t \in TransactionIds : HasStatus(t, "COMMITTING") ~> ~HasStatus(t, "COMMITTING")

\* An aborted transaction has executed none of its operations.
AbortedExecutedNothing ==
  \A t \in TransactionIds : HasStatus(t, "ABORTED") => Executed(t) = << >>
=============================================================================
