------------------------- MODULE FileTransactionsProofs -------------------------
(***************************************************************************)
(* Proofs about transactions, for any set of identifiers, clients, paths   *)
(* and operations.  First the transaction manager alone: CommitInv is its  *)
(* inductive invariant and ties the object a client commits to what the    *)
(* table holds and to the history of what was executed.  Then the manager  *)
(* on a file tree: it implements the manager alone, because the executor   *)
(* and the rollback manager never touch its state; operations and their    *)
(* inverses make trees of trees; a rollback leads back to the tree its     *)
(* commit found (RollbackInv); and no operation loses a content it was not *)
(* told to overwrite.                                                      *)
(***************************************************************************)
EXTENDS FileTransactions, FiniteSetTheorems, SequenceTheorems, WellFoundedInduction, TLAPS

\* The generation in the table is the latest; nothing is executed for a later one.
LatestGeneration ==
  /\ \A t \in TransactionIds : InTable(t) => transactions[t].generation = begins[t]
  /\ \A c \in Clients : committing[c] # Idle =>
       committing[c].generation <= begins[committing[c].id]
  /\ \A t \in TransactionIds, g \in Generations : g > begins[t] => executed[<<t, g>>] = << >>

\* What was executed for the object of a commit: an operation for each result.
ExecutedByCommit ==
  \A c \in Clients : committing[c] # Idle =>
    LET k == committing[c]
        e == executed[<<k.id, k.generation>>]
    IN  /\ Len(e) = Len(k.results)
        /\ Len(k.results) <= Len(k.operations)
        /\ \A i \in 1 .. Len(e) : e[i] = k.operations[i]

\* The object of a commit, when the table still holds it, is neither open nor ended.
HeldObject ==
  \A c \in Clients : committing[c] # Idle =>
    LET k == committing[c]
        x == transactions[k.id]
    IN  x # NoTransaction /\ x.generation = k.generation =>
          x.status \in {"COMMITTING", "ABORTED"} /\ x.operations = k.operations

CommitInv ==
  /\ ManagerTypeOK
  /\ LatestGeneration
  /\ ExecutedByCommit
  /\ HeldObject
  /\ OneCommitPerTransaction
  /\ StatusTellsEffects

-----------------------------------------------------------------------------
(* Sequences                                                                 *)

\* Sequences of one length that agree everywhere are equal.
LEMMA SameElements ==
  ASSUME NEW S, NEW s \in Seq(S), NEW t \in Seq(S), Len(s) = Len(t),
         \A i \in 1 .. Len(s) : s[i] = t[i]
  PROVE  s = t
OBVIOUS

\* A sequence that agrees with the beginning of another one is a prefix of it.
LEMMA PrefixElements ==
  ASSUME NEW S, NEW s \in Seq(S), NEW t \in Seq(S), Len(s) <= Len(t),
         \A i \in 1 .. Len(s) : s[i] = t[i]
  PROVE  IsPrefix(s, t)
<1>1. Len(SubSeq(t, 1, Len(s))) = Len(s) /\ Len(SubSeq(s, 1, Len(s))) = Len(s)
  OBVIOUS
<1>2. \A i \in 1 .. Len(s) : SubSeq(t, 1, Len(s))[i] = t[i] /\ SubSeq(s, 1, Len(s))[i] = s[i]
  OBVIOUS
<1>3. SubSeq(t, 1, Len(s)) \in Seq(S) /\ SubSeq(s, 1, Len(s)) \in Seq(S)
  OBVIOUS
<1>4. SubSeq(s, 1, Len(s)) = SubSeq(t, 1, Len(s))
  BY <1>1, <1>2, <1>3, SameElements
<1> QED
  BY <1>4 DEF IsPrefix

-----------------------------------------------------------------------------
(* The actions                                                               *)

LEMMA InitCommitInv == ManagerInit => CommitInv
<1> SUFFICES ASSUME ManagerInit PROVE CommitInv
  OBVIOUS
<1> USE TransactionAssumption DEF ManagerInit
<1>1. ManagerTypeOK
  BY DEF ManagerTypeOK
<1>2. LatestGeneration
  BY DEF LatestGeneration, InTable, Generations
<1>3. ExecutedByCommit /\ HeldObject /\ OneCommitPerTransaction
  BY DEF ExecutedByCommit, HeldObject, OneCommitPerTransaction
<1>4. StatusTellsEffects
  BY DEF StatusTellsEffects, InTable
<1> QED
  BY <1>1, <1>2, <1>3, <1>4 DEF CommitInv

LEMMA BeginPreserves ==
  ASSUME CommitInv, NEW t \in TransactionIds, Begin(t)
  PROVE  CommitInv'
<1> USE TransactionAssumption DEF CommitInv, Begin
<1> DEFINE new == [generation |-> begins[t] + 1, status |-> "OPEN", operations |-> << >>]
<1>1. new \in Transaction /\ new # NoTransaction
  <2>1. begins[t] + 1 \in Generations
    BY DEF ManagerTypeOK, Generations
  <2>2. new \in Transaction
    BY <2>1 DEF Transaction, TransactionStatus
  <2> QED
    BY <2>2
<1>2. ManagerTypeOK'
  BY <1>1 DEF ManagerTypeOK
<1>3. LatestGeneration'
  BY <1>1 DEF LatestGeneration, ManagerTypeOK, InTable, Generations, Commitment
<1>4. ExecutedByCommit' /\ OneCommitPerTransaction'
  BY DEF ExecutedByCommit, OneCommitPerTransaction
<1>5. HeldObject'
  BY DEF HeldObject, ManagerTypeOK, LatestGeneration, Commitment, Generations
<1>6. executed[<<t, begins[t] + 1>>] = << >>
  BY DEF LatestGeneration, ManagerTypeOK, Generations
<1>7. StatusTellsEffects'
  BY <1>1, <1>6 DEF StatusTellsEffects, ManagerTypeOK, InTable, HasStatus, Executed
<1> QED
  BY <1>2, <1>3, <1>4, <1>5, <1>7

\* The object of a commit has the type of a commitment.
LEMMA CommitmentType ==
  ASSUME ManagerTypeOK, NEW c \in Clients, committing[c] # Idle
  PROVE  /\ committing[c] \in Commitment
         /\ committing[c].id \in TransactionIds
         /\ committing[c].generation \in Generations
         /\ committing[c].operations \in Seq(Operations)
         /\ committing[c].results \in Seq(OperationStatus)
         /\ <<committing[c].id, committing[c].generation>> \in TransactionIds \X Generations
BY DEF ManagerTypeOK, Commitment

LEMMA TransactionType ==
  ASSUME ManagerTypeOK, NEW t \in TransactionIds, InTable(t)
  PROVE  /\ transactions[t] \in Transaction
         /\ transactions[t].generation \in Generations
         /\ transactions[t].operations \in Seq(Operations)
         /\ transactions[t].status \in TransactionStatus
BY DEF ManagerTypeOK, InTable, Transaction

\* A change of the status of t changes the table at t, and there the status only.
LEMMA StatusChange ==
  ASSUME ManagerTypeOK, NEW t \in TransactionIds, InTable(t),
         NEW s \in TransactionStatus, SetStatus(t, s)
  PROVE  /\ transactions' \in [TransactionIds -> Transaction \cup {NoTransaction}]
         /\ transactions'[t] = [transactions[t] EXCEPT !.status = s]
         /\ transactions'[t].status = s
         /\ transactions'[t].generation = transactions[t].generation
         /\ transactions'[t].operations = transactions[t].operations
         /\ transactions'[t] # NoTransaction
         /\ \A u \in TransactionIds \ {t} : transactions'[u] = transactions[u]
<1>1. transactions'[t] = [transactions[t] EXCEPT !.status = s]
  BY DEF SetStatus, ManagerTypeOK
<1>2. transactions[t] \in Transaction
  BY TransactionType
<1>3. transactions'[t] \in Transaction
  BY <1>1, <1>2 DEF Transaction
<1>4. transactions'[t] # NoTransaction
  BY <1>3, TransactionAssumption
<1>5. transactions' \in [TransactionIds -> Transaction \cup {NoTransaction}]
  BY <1>1, <1>3 DEF SetStatus, ManagerTypeOK
<1> QED
  BY <1>1, <1>2, <1>4, <1>5 DEF SetStatus, ManagerTypeOK, Transaction

LEMMA RecordPreserves ==
  ASSUME CommitInv, NEW t \in TransactionIds, NEW op \in Operations, RecordOperation(t, op)
  PROVE  CommitInv'
<1> USE TransactionAssumption DEF CommitInv, RecordOperation
<1>1. InTable(t) /\ transactions[t].status = "OPEN"
  BY DEF HasStatus
<1>2. /\ transactions[t] \in Transaction
      /\ transactions[t].operations \in Seq(Operations)
  BY <1>1, TransactionType
<1> DEFINE ops == Append(transactions[t].operations, op)
<1>3. ops \in Seq(Operations)
  BY <1>2
<1>4. transactions'[t] = [transactions[t] EXCEPT !.operations = ops]
  BY DEF ManagerTypeOK
<1> HIDE DEF ops
<1>5. /\ transactions'[t] \in Transaction
      /\ transactions'[t].status = "OPEN"
      /\ transactions'[t].generation = transactions[t].generation
  <2>1. transactions[t] = [status |-> transactions[t].status,
                           operations |-> transactions[t].operations,
                           generation |-> transactions[t].generation]
    BY <1>2 DEF Transaction
  <2> QED
    BY <1>1, <1>2, <1>3, <1>4, <2>1 DEF Transaction
<1>6. transactions'[t] # NoTransaction
  BY <1>5
<1>7. \A u \in TransactionIds \ {t} : transactions'[u] = transactions[u]
  BY DEF ManagerTypeOK
<1>8. ManagerTypeOK'
  BY <1>4, <1>5 DEF ManagerTypeOK
<1>9. LatestGeneration'
  BY <1>1, <1>5, <1>6, <1>7 DEF LatestGeneration, InTable
<1>10. ExecutedByCommit' /\ OneCommitPerTransaction'
  BY DEF ExecutedByCommit, OneCommitPerTransaction
<1>11. HeldObject'
  BY <1>1, <1>5, <1>7, CommitmentType DEF HeldObject, InTable
<1>12. StatusTellsEffects'
  BY <1>1, <1>5, <1>7 DEF StatusTellsEffects, InTable, HasStatus, Executed
<1> QED
  BY <1>8, <1>9, <1>10, <1>11, <1>12

LEMMA StartCommitPreserves ==
  ASSUME CommitInv, NEW c \in Clients, NEW t \in TransactionIds, StartCommit(c, t)
  PROVE  CommitInv'
<1> USE TransactionAssumption DEF CommitInv, StartCommit
<1> DEFINE k == [id |-> t, generation |-> transactions[t].generation,
                 operations |-> transactions[t].operations, results |-> << >>]
<1>1. InTable(t) /\ transactions[t].status = "OPEN"
  BY DEF HasStatus
<1>2. /\ transactions[t].generation \in Generations
      /\ transactions[t].operations \in Seq(Operations)
  BY <1>1, TransactionType
<1>3. /\ transactions' \in [TransactionIds -> Transaction \cup {NoTransaction}]
      /\ transactions'[t].status = "COMMITTING"
      /\ transactions'[t].generation = transactions[t].generation
      /\ transactions'[t].operations = transactions[t].operations
      /\ transactions'[t] # NoTransaction
      /\ \A u \in TransactionIds \ {t} : transactions'[u] = transactions[u]
  BY <1>1, StatusChange DEF TransactionStatus
<1>4. k \in Commitment /\ k # Idle
  <2>1. << >> \in Seq(OperationStatus)
    OBVIOUS
  <2>2. k \in Commitment
    BY <1>2, <2>1 DEF Commitment
  <2> QED
    BY <2>2
<1>5. /\ committing'[c] = k
      /\ \A d \in Clients \ {c} : committing'[d] = committing[d]
  BY DEF ManagerTypeOK
<1>6. executed[<<t, transactions[t].generation>>] = << >>
  BY <1>1 DEF StatusTellsEffects, HasStatus, Executed
<1>7. \A d \in Clients : committing[d] # Idle =>
        <<committing[d].id, committing[d].generation>> # <<t, transactions[t].generation>>
  BY <1>1 DEF HeldObject, InTable
<1>8. ManagerTypeOK'
  BY <1>3, <1>4 DEF ManagerTypeOK
<1>9. LatestGeneration'
  <2>1. \A u \in TransactionIds : InTable(u)' => transactions'[u].generation = begins[u]
    BY <1>1, <1>3 DEF LatestGeneration, InTable
  <2>2. \A d \in Clients : committing'[d] # Idle => committing'[d].generation <= begins[committing'[d].id]
    <3> SUFFICES ASSUME NEW d \in Clients, committing'[d] # Idle
                 PROVE  committing'[d].generation <= begins[committing'[d].id]
      OBVIOUS
    <3>1. CASE d = c
      <4>1. transactions[t].generation = begins[t]
        BY <1>1 DEF LatestGeneration
      <4>2. begins[t] \in Nat
        BY DEF ManagerTypeOK
      <4> QED
        BY <3>1, <4>1, <4>2, <1>5
    <3>2. CASE d # c
      BY <3>2, <1>5 DEF LatestGeneration
    <3> QED
      BY <3>1, <3>2
  <2> QED
    BY <2>1, <2>2 DEF LatestGeneration
<1>10. ExecutedByCommit'
  <2> SUFFICES ASSUME NEW d \in Clients, committing'[d] # Idle
               PROVE  LET h == committing'[d]
                          e == executed[<<h.id, h.generation>>]
                      IN  /\ Len(e) = Len(h.results)
                          /\ Len(h.results) <= Len(h.operations)
                          /\ \A i \in 1 .. Len(e) : e[i] = h.operations[i]
    BY DEF ExecutedByCommit
  <2>1. CASE d = c
    BY <2>1, <1>2, <1>5, <1>6
  <2>2. CASE d # c
    BY <2>2, <1>5 DEF ExecutedByCommit
  <2> QED
    BY <2>1, <2>2
<1>11. HeldObject'
  <2> SUFFICES ASSUME NEW d \in Clients, committing'[d] # Idle,
                      transactions'[committing'[d].id] # NoTransaction,
                      transactions'[committing'[d].id].generation = committing'[d].generation
               PROVE  /\ transactions'[committing'[d].id].status \in {"COMMITTING", "ABORTED"}
                      /\ transactions'[committing'[d].id].operations = committing'[d].operations
    BY DEF HeldObject
  <2>1. CASE d = c
    BY <2>1, <1>3, <1>5
  <2>2. CASE d # c /\ committing[d].id = t
    BY <2>2, <1>3, <1>5, <1>7
  <2>3. CASE d # c /\ committing[d].id # t
    <3>1. transactions'[committing[d].id] = transactions[committing[d].id]
      BY <2>3, <1>3, <1>5, CommitmentType
    <3> QED
      BY <2>3, <3>1, <1>5 DEF HeldObject
  <2> QED
    BY <2>1, <2>2, <2>3
<1>12. OneCommitPerTransaction'
  BY <1>5, <1>7 DEF OneCommitPerTransaction
<1>13. StatusTellsEffects'
  BY <1>3 DEF StatusTellsEffects, InTable, HasStatus, Executed
<1> QED
  BY <1>8, <1>9, <1>10, <1>11, <1>12, <1>13

LEMMA ExecuteNextPreserves ==
  ASSUME CommitInv, NEW c \in Clients, NEW result \in OperationStatus, ExecuteNext(c, result)
  PROVE  CommitInv'
<1> USE TransactionAssumption DEF CommitInv, ExecuteNext
<1> DEFINE k == committing[c]
           o == <<k.id, k.generation>>
           h == [k EXCEPT !.results = Append(@, result)]
           e == Append(executed[o], NextOf(k))
<1>1. /\ k # Idle /\ k \in Commitment
      /\ k.id \in TransactionIds /\ k.generation \in Generations
      /\ k.operations \in Seq(Operations) /\ k.results \in Seq(OperationStatus)
      /\ o \in TransactionIds \X Generations
  BY CommitmentType
<1>2. /\ executed[o] \in Seq(Operations)
      /\ Len(executed[o]) = Len(k.results)
      /\ \A i \in 1 .. Len(executed[o]) : executed[o][i] = k.operations[i]
  BY <1>1 DEF ManagerTypeOK, ExecutedByCommit
<1>3. /\ Len(k.results) < Len(k.operations)
      /\ NextOf(k) = k.operations[Len(k.results) + 1]
      /\ NextOf(k) \in Operations
  BY <1>1 DEF HasNext, NextOf
<1>4. /\ h \in Commitment /\ h # Idle
      /\ h.id = k.id /\ h.generation = k.generation /\ h.operations = k.operations
      /\ h.results = Append(k.results, result)
  <2>1. Append(k.results, result) \in Seq(OperationStatus)
    BY <1>1
  <2>2. h \in Commitment
    BY <1>1, <2>1 DEF Commitment
  <2> QED
    BY <1>1, <2>2 DEF Commitment
<1>5. /\ e \in Seq(Operations)
      /\ Len(e) = Len(h.results) /\ Len(h.results) <= Len(h.operations)
      /\ \A i \in 1 .. Len(e) : e[i] = h.operations[i]
  <2> DEFINE f == executed[o]
             n == NextOf(k)
  <2> HIDE DEF f, n, k, h
  <2>1. f \in Seq(Operations) /\ n \in Operations
    BY <1>2, <1>3 DEF f, n
  <2>2. /\ Append(f, n) \in Seq(Operations)
        /\ Len(Append(f, n)) = Len(f) + 1
        /\ \A i \in 1 .. Len(f) : Append(f, n)[i] = f[i]
        /\ Append(f, n)[Len(f) + 1] = n
    BY <2>1
  <2>3. Len(Append(k.results, result)) = Len(k.results) + 1
    BY <1>1
  <2>4. Len(f) = Len(k.results) /\ \A i \in 1 .. Len(f) : f[i] = k.operations[i]
    BY <1>2 DEF f
  <2>5. n = k.operations[Len(k.results) + 1] /\ Len(k.results) < Len(k.operations)
    BY <1>3 DEF n
  <2>6. Len(f) \in Nat /\ Len(k.results) \in Nat /\ Len(k.operations) \in Nat
    BY <1>1, <2>1
  <2>7. \A i \in 1 .. Len(f) + 1 : Append(f, n)[i] = k.operations[i]
    BY <2>2, <2>4, <2>5, <2>6
  <2>8. Len(h.results) = Len(k.results) + 1 /\ h.operations = k.operations
    BY <1>4, <2>3
  <2>9. e = Append(f, n)
    BY DEF f, n
  <2> HIDE DEF e
  <2> QED
    BY <2>2, <2>4, <2>5, <2>6, <2>7, <2>8, <2>9
<1>6. /\ committing'[c] = h
      /\ \A d \in Clients \ {c} : committing'[d] = committing[d]
  BY DEF ManagerTypeOK
<1>7. /\ executed'[o] = e
      /\ \A p \in (TransactionIds \X Generations) \ {o} : executed'[p] = executed[p]
  BY <1>1 DEF ManagerTypeOK
<1> HIDE DEF h, e
<1>8. ManagerTypeOK'
  <2>1. committing' \in [Clients -> Commitment \cup {Idle}]
    BY <1>4 DEF ManagerTypeOK, h
  <2>2. executed' \in [TransactionIds \X Generations -> Seq(Operations)]
    BY <1>5 DEF ManagerTypeOK, e
  <2> QED
    BY <2>1, <2>2 DEF ManagerTypeOK
<1>9. LatestGeneration'
  <2>1. k.generation <= begins[k.id]
    BY <1>1 DEF LatestGeneration
  <2>2. \A t \in TransactionIds, g \in Generations : g > begins[t] => <<t, g>> # o
    BY <2>1, <1>1 DEF ManagerTypeOK, Generations
  <2>3. \A t \in TransactionIds, g \in Generations : g > begins[t] => executed'[<<t, g>>] = << >>
    BY <2>2, <1>7 DEF LatestGeneration
  <2>4. \A d \in Clients : committing'[d] # Idle => committing'[d].generation <= begins[committing'[d].id]
    BY <2>1, <1>4, <1>6 DEF LatestGeneration
  <2> QED
    BY <2>3, <2>4 DEF LatestGeneration, InTable
<1>10. \A d \in Clients \ {c} : committing[d] # Idle => <<committing[d].id, committing[d].generation>> # o
  BY <1>1 DEF OneCommitPerTransaction
<1>11. ExecutedByCommit'
  <2> SUFFICES ASSUME NEW d \in Clients, committing'[d] # Idle
               PROVE  LET j == committing'[d]
                          f == executed'[<<j.id, j.generation>>]
                      IN  /\ Len(f) = Len(j.results)
                          /\ Len(j.results) <= Len(j.operations)
                          /\ \A i \in 1 .. Len(f) : f[i] = j.operations[i]
    BY DEF ExecutedByCommit
  <2>1. CASE d = c
    <3>1. committing'[d] = h /\ executed'[<<h.id, h.generation>>] = e
      BY <2>1, <1>4, <1>6, <1>7
    <3> QED
      BY <3>1, <1>5
  <2>2. CASE d # c
    <3>1. executed'[<<committing[d].id, committing[d].generation>>]
            = executed[<<committing[d].id, committing[d].generation>>]
      BY <2>2, <1>6, <1>7, <1>10, CommitmentType
    <3>2. committing'[d] = committing[d] /\ committing[d] # Idle
      BY <2>2, <1>6
    <3> DEFINE j == committing[d]
               f == executed[<<j.id, j.generation>>]
    <3>3. Len(f) = Len(j.results) /\ Len(j.results) <= Len(j.operations)
      BY <3>2 DEF ExecutedByCommit
    <3>4. \A i \in 1 .. Len(f) : f[i] = j.operations[i]
      BY <3>2 DEF ExecutedByCommit
    <3>5. executed'[<<j.id, j.generation>>] = f
      BY <3>1
    <3> HIDE DEF f
    <3> QED
      BY <3>2, <3>3, <3>4, <3>5
  <2> QED
    BY <2>1, <2>2
<1>12. HeldObject'
  BY <1>1, <1>4, <1>6 DEF HeldObject
<1>13. OneCommitPerTransaction'
  BY <1>1, <1>4, <1>6 DEF OneCommitPerTransaction
<1>14. StatusTellsEffects'
  <2> SUFFICES ASSUME NEW t \in TransactionIds, InTable(t)
               PROVE  LET ops == transactions[t].operations
                          f == executed'[<<t, transactions[t].generation>>]
                      IN  /\ HasStatus(t, "OPEN") => f = << >>
                          /\ HasStatus(t, "COMMITTED") => f = ops
                          /\ HasStatus(t, "FAILED") => f # << >> /\ IsPrefix(f, ops)
    BY DEF StatusTellsEffects, InTable, HasStatus, Executed
  <2>1. CASE <<t, transactions[t].generation>> = o
    <3>1. t = k.id /\ transactions[t].generation = k.generation
      BY <2>1
    <3>2. transactions[t].status \in {"COMMITTING", "ABORTED"}
      BY <3>1, <1>1 DEF HeldObject, InTable
    <3> QED
      BY <3>2 DEF HasStatus
  <2>2. CASE <<t, transactions[t].generation>> # o
    <3>1. executed'[<<t, transactions[t].generation>>] = executed[<<t, transactions[t].generation>>]
      BY <2>2, <1>7, TransactionType
    <3> QED
      BY <3>1 DEF StatusTellsEffects, Executed
  <2> QED
    BY <2>1, <2>2
<1> QED
  BY <1>8, <1>9, <1>11, <1>12, <1>13, <1>14

LEMMA FinishCommitPreserves ==
  ASSUME CommitInv, NEW c \in Clients, FinishCommit(c)
  PROVE  CommitInv'
<1> USE TransactionAssumption DEF CommitInv
<1> DEFINE k == committing[c]
           t == k.id
           s == IF NoFailure(k) THEN "COMMITTED" ELSE "FAILED"
           f == executed[<<k.id, k.generation>>]
<1>1. /\ k # Idle /\ t \in TransactionIds /\ k.generation \in Generations
      /\ k.operations \in Seq(Operations) /\ k.results \in Seq(OperationStatus)
  BY CommitmentType DEF FinishCommit
<1>2. /\ ~HasNext(k) /\ begins' = begins /\ executed' = executed
      /\ IF InTable(t) /\ transactions[t].generation = k.generation
         THEN SetStatus(t, s) ELSE UNCHANGED transactions
      /\ committing' = [committing EXCEPT ![c] = Idle]
  BY DEF FinishCommit, StillInTable, FinalStatus
<1>3. /\ committing'[c] = Idle
      /\ \A d \in Clients \ {c} : committing'[d] = committing[d]
      /\ committing' \in [Clients -> Commitment \cup {Idle}]
  BY <1>2 DEF ManagerTypeOK
<1>4. ExecutedByCommit' /\ OneCommitPerTransaction'
  BY <1>2, <1>3 DEF ExecutedByCommit, OneCommitPerTransaction
<1>5. CASE InTable(t) /\ transactions[t].generation = k.generation
  <2>1. s \in TransactionStatus
    BY DEF TransactionStatus
  <2>2. /\ transactions' \in [TransactionIds -> Transaction \cup {NoTransaction}]
        /\ transactions'[t].status = s
        /\ transactions'[t].generation = transactions[t].generation
        /\ transactions'[t].operations = transactions[t].operations
        /\ transactions'[t] # NoTransaction
        /\ \A u \in TransactionIds \ {t} : transactions'[u] = transactions[u]
    <3>1. SetStatus(t, s)
      BY <1>2, <1>5
    <3> HIDE DEF t, s
    <3> QED
      BY <1>1, <1>5, <2>1, <3>1, StatusChange
  <2>3. ManagerTypeOK'
    BY <1>2, <1>3, <2>2 DEF ManagerTypeOK
  <2>4. LatestGeneration'
    BY <1>2, <1>3, <1>5, <2>2 DEF LatestGeneration, InTable
  <2>5. HeldObject'
    <3> SUFFICES ASSUME NEW d \in Clients \ {c}, committing[d] # Idle,
                        transactions'[committing[d].id] # NoTransaction,
                        transactions'[committing[d].id].generation = committing[d].generation
                 PROVE  /\ transactions'[committing[d].id].status \in {"COMMITTING", "ABORTED"}
                        /\ transactions'[committing[d].id].operations = committing[d].operations
      BY <1>3 DEF HeldObject
    <3>1. committing[d].id # t
      BY <1>1, <1>5, <2>2 DEF OneCommitPerTransaction
    <3>2. transactions'[committing[d].id] = transactions[committing[d].id]
      BY <3>1, <2>2, CommitmentType
    <3> QED
      BY <3>2 DEF HeldObject
  <2>6. /\ f \in Seq(Operations)
        /\ Len(f) = Len(k.results) /\ Len(k.results) <= Len(k.operations)
        /\ \A i \in 1 .. Len(f) : f[i] = k.operations[i]
        /\ transactions[t].operations = k.operations
    BY <1>1, <1>5 DEF ManagerTypeOK, ExecutedByCommit, HeldObject, InTable
  <2>7. NoFailure(k) => f = k.operations
    <3> SUFFICES ASSUME NoFailure(k) PROVE f = k.operations
      OBVIOUS
    <3>1. Len(f) = Len(k.operations)
      BY <1>1, <1>2, <2>6 DEF HasNext
    <3> HIDE DEF f
    <3> QED
      BY <1>1, <2>6, <3>1, SameElements
  <2>8. ~NoFailure(k) => f # << >> /\ IsPrefix(f, k.operations)
    <3> SUFFICES ASSUME ~NoFailure(k) PROVE f # << >> /\ IsPrefix(f, k.operations)
      OBVIOUS
    <3>1. Len(k.results) > 0
      BY <1>1 DEF NoFailure
    <3> HIDE DEF f
    <3>2. IsPrefix(f, k.operations)
      BY <1>1, <2>6, PrefixElements
    <3> QED
      BY <2>6, <3>1, <3>2
  <2>9. StatusTellsEffects'
    <3> SUFFICES ASSUME NEW u \in TransactionIds, transactions'[u] # NoTransaction
                 PROVE  LET ops == transactions'[u].operations
                            e == executed[<<u, transactions'[u].generation>>]
                        IN  /\ transactions'[u].status = "OPEN" => e = << >>
                            /\ transactions'[u].status = "COMMITTED" => e = ops
                            /\ transactions'[u].status = "FAILED" => e # << >> /\ IsPrefix(e, ops)
      BY <1>2 DEF StatusTellsEffects, InTable, HasStatus, Executed
    <3>1. CASE u = t
      BY <3>1, <1>5, <2>2, <2>6, <2>7, <2>8
    <3>2. CASE u # t
      BY <3>2, <2>2 DEF StatusTellsEffects, InTable, HasStatus, Executed
    <3> QED
      BY <3>1, <3>2
  <2> QED
    BY <1>4, <2>3, <2>4, <2>5, <2>9
<1>6. CASE ~(InTable(t) /\ transactions[t].generation = k.generation)
  <2>1. transactions' = transactions
    BY <1>2, <1>6
  <2>2. ManagerTypeOK'
    BY <1>2, <1>3, <2>1 DEF ManagerTypeOK
  <2>3. LatestGeneration' /\ HeldObject'
    BY <1>2, <1>3, <2>1 DEF LatestGeneration, HeldObject, InTable
  <2>4. StatusTellsEffects'
    BY <1>2, <2>1 DEF StatusTellsEffects, InTable, HasStatus, Executed
  <2> QED
    BY <1>4, <2>2, <2>3, <2>4
<1> QED
  BY <1>5, <1>6

LEMMA AbortPreserves ==
  ASSUME CommitInv, NEW t \in TransactionIds, Abort(t)
  PROVE  CommitInv'
<1> USE TransactionAssumption DEF CommitInv, Abort
<1>1. /\ transactions' \in [TransactionIds -> Transaction \cup {NoTransaction}]
      /\ transactions'[t].status = "ABORTED"
      /\ transactions'[t].generation = transactions[t].generation
      /\ transactions'[t].operations = transactions[t].operations
      /\ transactions'[t] # NoTransaction
      /\ \A u \in TransactionIds \ {t} : transactions'[u] = transactions[u]
  BY StatusChange DEF TransactionStatus
<1>2. ManagerTypeOK'
  BY <1>1 DEF ManagerTypeOK
<1>3. LatestGeneration'
  BY <1>1 DEF LatestGeneration, InTable
<1>4. ExecutedByCommit' /\ OneCommitPerTransaction'
  BY DEF ExecutedByCommit, OneCommitPerTransaction
<1>5. HeldObject'
  <2>1. SUFFICES ASSUME NEW c \in Clients, committing[c] # Idle
                 PROVE  LET k == committing[c]
                            x == transactions'[k.id]
                        IN  x # NoTransaction /\ x.generation = k.generation =>
                              x.status \in {"COMMITTING", "ABORTED"} /\ x.operations = k.operations
    BY DEF HeldObject
  <2>2. committing[c].id \in TransactionIds
    BY <2>1, CommitmentType
  <2>3. CASE committing[c].id = t
    BY <1>1, <2>1, <2>3 DEF HeldObject, InTable
  <2>4. CASE committing[c].id # t
    BY <1>1, <2>1, <2>2, <2>4 DEF HeldObject
  <2> QED
    BY <2>3, <2>4
<1>6. StatusTellsEffects'
  BY <1>1 DEF StatusTellsEffects, InTable, HasStatus, Executed
<1> QED
  BY <1>2, <1>3, <1>4, <1>5, <1>6

LEMMA ClearPreserves ==
  ASSUME CommitInv, Clear
  PROVE  CommitInv'
<1> USE TransactionAssumption DEF CommitInv, Clear
<1>1. \A t \in TransactionIds :
        transactions'[t] = IF HasStatus(t, "OPEN") THEN transactions[t] ELSE NoTransaction
  OBVIOUS
<1>2. ManagerTypeOK'
  BY DEF ManagerTypeOK
<1>3. LatestGeneration'
  BY <1>1 DEF LatestGeneration, InTable
<1>4. ExecutedByCommit' /\ OneCommitPerTransaction'
  BY DEF ExecutedByCommit, OneCommitPerTransaction
<1>5. HeldObject'
  BY <1>1, CommitmentType DEF HeldObject
<1>6. StatusTellsEffects'
  BY <1>1 DEF StatusTellsEffects, InTable, HasStatus, Executed
<1> QED
  BY <1>2, <1>3, <1>4, <1>5, <1>6

LEMMA StutterPreserves ==
  ASSUME CommitInv, UNCHANGED managerVars
  PROVE  CommitInv'
BY DEF CommitInv, managerVars, ManagerTypeOK, LatestGeneration, ExecutedByCommit, HeldObject,
       OneCommitPerTransaction, StatusTellsEffects, InTable, HasStatus, Executed

LEMMA StepPreservesCommitInv == CommitInv /\ [ManagerNext]_managerVars => CommitInv'
<1> SUFFICES ASSUME CommitInv, [ManagerNext]_managerVars PROVE CommitInv'
  OBVIOUS
<1>1. CASE \E t \in TransactionIds : Begin(t)
  BY <1>1, BeginPreserves
<1>2. CASE \E t \in TransactionIds, op \in Operations : RecordOperation(t, op)
  BY <1>2, RecordPreserves
<1>3. CASE \E t \in TransactionIds, c \in Clients : StartCommit(c, t)
  BY <1>3, StartCommitPreserves
<1>4. CASE \E t \in TransactionIds : Abort(t)
  BY <1>4, AbortPreserves
<1>5. CASE \E c \in Clients, result \in OperationStatus : ExecuteNext(c, result)
  BY <1>5, ExecuteNextPreserves
<1>6. CASE \E c \in Clients : FinishCommit(c)
  BY <1>6, FinishCommitPreserves
<1>7. CASE Clear
  BY <1>7, ClearPreserves
<1>8. CASE UNCHANGED managerVars
  BY <1>8, StutterPreserves
<1> QED
  BY <1>1, <1>2, <1>3, <1>4, <1>5, <1>6, <1>7, <1>8 DEF ManagerNext

LEMMA CommitInvariant == ManagerSpec => []CommitInv
BY InitCommitInv, StepPreservesCommitInv, PTL DEF ManagerSpec

-----------------------------------------------------------------------------
(* Theorems                                                                  *)

\* Every reachable state of the transaction manager has the declared types.
THEOREM ManagerTypeCorrect == ManagerSpec => []ManagerTypeOK
<1>1. CommitInv => ManagerTypeOK
  BY DEF CommitInv
<1> QED
  BY <1>1, CommitInvariant, PTL

\* The status of a transaction tells what was executed for it, however clients
\* begin, commit, abort and clear meanwhile.
THEOREM StatusTellsEffectsCorrect == ManagerSpec => []StatusTellsEffects
<1>1. CommitInv => StatusTellsEffects
  BY DEF CommitInv
<1> QED
  BY <1>1, CommitInvariant, PTL

\* Two clients never execute the operations of one transaction.
THEOREM OneCommitCorrect == ManagerSpec => []OneCommitPerTransaction
<1>1. CommitInv => OneCommitPerTransaction
  BY DEF CommitInv
<1> QED
  BY <1>1, CommitInvariant, PTL

-----------------------------------------------------------------------------
(* The manager on a file tree                                                *)

\* A check lets the operation go on, or ends it as completed, skipped or failed.
LEMMA CheckStatus ==
  ASSUME NEW op, NEW tree
  PROVE  Check(op, tree) \in OperationStatus \cup Passing
BY DEF Check, OperationStatus, Passing

\* A change completes or fails; its result is that and a tree.
LEMMA ActShape ==
  ASSUME NEW op, NEW verdict, NEW tree
  PROVE  /\ Act(op, verdict, tree) =
              [status |-> Act(op, verdict, tree).status, tree |-> Act(op, verdict, tree).tree]
         /\ Act(op, verdict, tree).status \in {"COMPLETED", "FAILED"}
<1> DEFINE Shape(r) == /\ r = [status |-> r.status, tree |-> r.tree]
                       /\ r.status \in {"COMPLETED", "FAILED"}
<1>1. \A possible, t, after : Shape(Attempt(possible, t, after))
  BY DEF Attempt, Completed, Failed
<1>2. \A t : Shape(Completed(t)) /\ Shape(Failed(t))
  BY DEF Completed, Failed
<1> HIDE DEF Shape
<1>3. Shape(Copy(op, tree)) /\ Shape(Create(op, tree))
  BY <1>1, <1>2 DEF Copy, Create
<1>4. Shape(ShutilMove(op.src, op.dst, tree)) /\ Shape(PathRename(op.src, op.dst, tree))
  BY <1>1, <1>2 DEF ShutilMove, PathRename
<1>5. Shape(Unlink(op.src, tree)) /\ Shape(CreateDirectory(op, tree)) /\ Shape(DeleteDirectory(op, tree))
  BY <1>1 DEF Unlink, CreateDirectory, DeleteDirectory
<1>6. Shape(CopyDirectory(op, verdict, tree)) /\ Shape(EmptyDirectory(op, tree))
  BY <1>1 DEF CopyDirectory, EmptyDirectory
<1>7. Shape(Act(op, verdict, tree))
  BY <1>2, <1>3, <1>4, <1>5, <1>6 DEF Act
<1> QED
  BY <1>7 DEF Shape

\* The executor reports every operation as completed, skipped or failed.
LEMMA OutcomeStatus ==
  ASSUME NEW op, NEW tree, NEW verdict, verdict = "NOT_YET" => Check(op, tree) \notin Passing,
         NEW outcome \in Outcomes(op, verdict, tree)
  PROVE  outcome.status \in OperationStatus
<1>1. CASE verdict = "NOT_YET"
  BY <1>1, CheckStatus DEF Outcomes
<1>2. CASE verdict # "NOT_YET"
  <2>1. outcome = Act(op, verdict, tree) \/ outcome.status = "FAILED"
    BY <1>2 DEF Outcomes, Failed
  <2> QED
    BY <2>1, ActShape DEF OperationStatus
<1> QED
  BY <1>1, <1>2

\* The outcome of the next operation of a commit is one of them.
LEMMA NextOutcomeStatus ==
  ASSUME NEW c \in Clients, CommitNext(c), NEW outcome \in Outcomes(NextOf(committing[c]), passed[c], files)
  PROVE  outcome.status \in OperationStatus
<1>1. passed[c] = "NOT_YET" => Check(NextOf(committing[c]), files) \notin Passing
  BY DEF CommitNext, EndsNow
<1> QED
  BY <1>1, OutcomeStatus

LEMMA StepIsManagerStep ==
  [FilesNext]_<<managerVars, fileVars>> => [ManagerNext]_managerVars
<1> SUFFICES ASSUME [FilesNext]_<<managerVars, fileVars>> PROVE [ManagerNext]_managerVars
  OBVIOUS
<1>1. CASE \E t \in TransactionIds : Begin(t) \/ (\E op \in Operations : RecordOperation(t, op)) \/ Abort(t)
  BY <1>1 DEF ManagerNext
<1>2. CASE Clear
  BY <1>2 DEF ManagerNext
<1>3. ASSUME NEW c \in Clients, NEW t \in TransactionIds, BeginCommit(c, t)
      PROVE  ManagerNext
  BY <1>3 DEF BeginCommit, ManagerNext
<1>4. ASSUME NEW c \in Clients, CommitNext(c)
      PROVE  ManagerNext
  <2>1. PICK outcome \in Outcomes(NextOf(committing[c]), passed[c], files) : ExecuteNext(c, outcome.status)
    BY <1>4 DEF CommitNext
  <2>2. outcome.status \in OperationStatus
    BY <1>4, NextOutcomeStatus
  <2> QED
    BY <2>1, <2>2 DEF ManagerNext
<1>5. ASSUME NEW c \in Clients, EndCommit(c)
      PROVE  ManagerNext
  BY <1>5 DEF EndCommit, ManagerNext
<1>6. ASSUME NEW c \in Clients,
             CheckNext(c) \/ StartRollback(c) \/ CheckUndo(c) \/ UndoNext(c) \/ EndRollback(c)
      PROVE  UNCHANGED managerVars
  BY <1>6 DEF CheckNext, StartRollback, CheckUndo, UndoNext, EndRollback
<1>7. ASSUME NEW op \in Direct, CheckDirectly(op) \/ ActDirectly(op)
      PROVE  UNCHANGED managerVars
  BY <1>7 DEF CheckDirectly, ActDirectly
<1> QED
  BY <1>1, <1>2, <1>3, <1>4, <1>5, <1>6, <1>7 DEF FilesNext

\* Transactions on a file tree, with their rollbacks and with operations outside of
\* transactions, implement the transaction manager.
THEOREM FilesImplementManager == FilesSpec => ManagerSpec
<1>1. FilesInit => ManagerInit
  BY DEF FilesInit
<1> QED
  BY <1>1, StepIsManagerStep, PTL DEF FilesSpec, ManagerSpec

\* So the status of a transaction tells what was executed for it, whatever the
\* operations and the rollbacks do to the tree.
THEOREM StatusTellsEffectsOnFiles == FilesSpec => []StatusTellsEffects
BY FilesImplementManager, StatusTellsEffectsCorrect

-----------------------------------------------------------------------------
(* Paths                                                                     *)

Names == UNION {Range(q) : q \in Paths}

LEMMA PathIsSeq ==
  ASSUME NEW p \in Paths
  PROVE  p \in Seq(Names) /\ p # << >> /\ Len(p) \in Nat \ {0}
BY TreeAssumption DEF Names

\* One sequence is a prefix of another one when it agrees with its beginning.
LEMMA PrefixMeaning ==
  ASSUME NEW S, NEW s \in Seq(S), NEW t \in Seq(S)
  PROVE  IsPrefix(s, t) <=> Len(s) <= Len(t) /\ \A i \in 1 .. Len(s) : s[i] = t[i]
<1>1. ASSUME IsPrefix(s, t) PROVE Len(s) <= Len(t) /\ \A i \in 1 .. Len(s) : s[i] = t[i]
  <2>1. Len(s) <= Len(t) /\ SubSeq(s, 1, Len(s)) = SubSeq(t, 1, Len(s))
    BY <1>1 DEF IsPrefix
  <2>2. \A i \in 1 .. Len(s) : SubSeq(t, 1, Len(s))[i] = t[i] /\ SubSeq(s, 1, Len(s))[i] = s[i]
    BY <2>1
  <2> QED
    BY <2>1, <2>2
<1>2. ASSUME Len(s) <= Len(t), \A i \in 1 .. Len(s) : s[i] = t[i] PROVE IsPrefix(s, t)
  BY <1>2, PrefixElements
<1> QED
  BY <1>1, <1>2

LEMMA PrefixReflexive ==
  ASSUME NEW S, NEW s \in Seq(S)
  PROVE  IsPrefix(s, s)
BY PrefixMeaning

LEMMA PrefixTransitive ==
  ASSUME NEW S, NEW s \in Seq(S), NEW t \in Seq(S), NEW u \in Seq(S),
         IsPrefix(s, t), IsPrefix(t, u)
  PROVE  IsPrefix(s, u)
<1>1. /\ Len(s) <= Len(t) /\ \A i \in 1 .. Len(s) : s[i] = t[i]
      /\ Len(t) <= Len(u) /\ \A i \in 1 .. Len(t) : t[i] = u[i]
  BY PrefixMeaning
<1>2. Len(s) \in Nat /\ Len(t) \in Nat /\ Len(u) \in Nat
  OBVIOUS
<1>3. Len(s) <= Len(u) /\ \A i \in 1 .. Len(s) : s[i] = u[i]
  BY <1>1, <1>2
<1> QED
  BY <1>3, PrefixMeaning

LEMMA PrefixAntisymmetric ==
  ASSUME NEW S, NEW s \in Seq(S), NEW t \in Seq(S), IsPrefix(s, t), IsPrefix(t, s)
  PROVE  s = t
<1>1. /\ Len(s) <= Len(t) /\ \A i \in 1 .. Len(s) : s[i] = t[i]
      /\ Len(t) <= Len(s)
  BY PrefixMeaning
<1>2. Len(s) \in Nat /\ Len(t) \in Nat
  OBVIOUS
<1>3. Len(s) = Len(t)
  BY <1>1, <1>2
<1> QED
  BY <1>1, <1>3, SameElements

\* Two prefixes of one path: one is a prefix of the other.
LEMMA PrefixComparable ==
  ASSUME NEW S, NEW s \in Seq(S), NEW t \in Seq(S), NEW u \in Seq(S),
         IsPrefix(s, u), IsPrefix(t, u)
  PROVE  IsPrefix(s, t) \/ IsPrefix(t, s)
<1>1. /\ Len(s) <= Len(u) /\ \A i \in 1 .. Len(s) : s[i] = u[i]
      /\ Len(t) <= Len(u) /\ \A i \in 1 .. Len(t) : t[i] = u[i]
  BY PrefixMeaning
<1>2. Len(s) \in Nat /\ Len(t) \in Nat /\ Len(u) \in Nat
  OBVIOUS
<1>3. CASE Len(s) <= Len(t)
  <2>1. \A i \in 1 .. Len(s) : s[i] = t[i]
    BY <1>1, <1>2, <1>3
  <2> QED
    BY <1>3, <2>1, PrefixMeaning
<1>4. CASE Len(t) <= Len(s)
  <2>1. \A i \in 1 .. Len(t) : t[i] = s[i]
    BY <1>1, <1>2, <1>4
  <2> QED
    BY <1>4, <2>1, PrefixMeaning
<1> QED
  BY <1>2, <1>3, <1>4

\* Every prefix of a path, but the root, is a path.
LEMMA PrefixIsPath ==
  ASSUME NEW q \in Paths, NEW s \in Seq(Names), s # << >>, IsPrefix(s, q)
  PROVE  s \in Paths
<1>1. q \in Seq(Names) /\ Len(q) \in Nat
  BY PathIsSeq
<1>2. Len(s) <= Len(q) /\ Len(s) \in 1 .. Len(q)
  BY <1>1, PrefixMeaning
<1>3. SubSeq(q, 1, Len(s)) \in Paths
  BY <1>2, TreeAssumption
<1>4. SubSeq(s, 1, Len(s)) = SubSeq(q, 1, Len(s))
  BY DEF IsPrefix
<1>5. SubSeq(s, 1, Len(s)) = s
  OBVIOUS
<1> QED
  BY <1>3, <1>4, <1>5

LEMMA MovedElements ==
  ASSUME NEW S, NEW src \in Seq(S), NEW dst \in Seq(S), NEW q \in Seq(S), IsPrefix(src, q)
  PROVE  /\ Moved(src, dst, q) \in Seq(S)
         /\ Len(Moved(src, dst, q)) = Len(dst) + Len(q) - Len(src)
         /\ \A i \in 1 .. Len(dst) : Moved(src, dst, q)[i] = dst[i]
         /\ \A i \in Len(dst) + 1 .. Len(dst) + Len(q) - Len(src) :
              Moved(src, dst, q)[i] = q[i - Len(dst) + Len(src)]
<1>1. Len(src) <= Len(q) /\ Len(src) \in Nat /\ Len(q) \in Nat /\ Len(dst) \in Nat
  BY PrefixMeaning
<1> DEFINE rest == SubSeq(q, Len(src) + 1, Len(q))
<1>2. rest \in Seq(S) /\ Len(rest) = Len(q) - Len(src)
  BY <1>1
<1>3. \A i \in 1 .. Len(q) - Len(src) : rest[i] = q[i + Len(src)]
  BY <1>1
<1>4. Moved(src, dst, q) = dst \o rest
  BY DEF Moved
<1> HIDE DEF rest
<1>5. /\ dst \o rest \in Seq(S) /\ Len(dst \o rest) = Len(dst) + Len(rest)
      /\ \A i \in 1 .. Len(dst) : (dst \o rest)[i] = dst[i]
      /\ \A i \in Len(dst) + 1 .. Len(dst) + Len(rest) : (dst \o rest)[i] = rest[i - Len(dst)]
  <2>1. /\ dst \o rest \in Seq(S) /\ Len(dst \o rest) = Len(dst) + Len(rest)
        /\ \A i \in 1 .. Len(dst) + Len(rest) :
             (dst \o rest)[i] = IF i <= Len(dst) THEN dst[i] ELSE rest[i - Len(dst)]
    BY <1>2, ConcatProperties
  <2>2. Len(rest) \in Nat
    BY <1>2
  <2> QED
    BY <1>1, <2>1, <2>2
<1>6. \A i \in Len(dst) + 1 .. Len(dst) + Len(q) - Len(src) :
         (dst \o rest)[i] = q[i - Len(dst) + Len(src)]
  <2> SUFFICES ASSUME NEW i \in Len(dst) + 1 .. Len(dst) + Len(q) - Len(src)
               PROVE  (dst \o rest)[i] = q[i - Len(dst) + Len(src)]
    OBVIOUS
  <2>1. i - Len(dst) \in 1 .. Len(q) - Len(src)
    BY <1>1
  <2>2. (dst \o rest)[i] = rest[i - Len(dst)]
    BY <1>1, <1>2, <1>5
  <2> QED
    BY <1>3, <2>1, <2>2
<1> QED
  BY <1>1, <1>2, <1>4, <1>5, <1>6

LEMMA MovedIsBelow ==
  ASSUME NEW S, NEW src \in Seq(S), NEW dst \in Seq(S), NEW q \in Seq(S), IsPrefix(src, q)
  PROVE  Moved(src, dst, q) \in Seq(S) /\ IsPrefix(dst, Moved(src, dst, q))
<1>1. Len(src) <= Len(q) /\ Len(src) \in Nat /\ Len(q) \in Nat /\ Len(dst) \in Nat
  BY PrefixMeaning
<1>2. /\ Moved(src, dst, q) \in Seq(S) /\ Len(Moved(src, dst, q)) = Len(dst) + Len(q) - Len(src)
      /\ \A i \in 1 .. Len(dst) : Moved(src, dst, q)[i] = dst[i]
  BY MovedElements
<1>3. Len(dst) <= Len(Moved(src, dst, q))
  BY <1>1, <1>2
<1> QED
  BY <1>2, <1>3, PrefixMeaning

\* To move there and back leaves a path as it was.
LEMMA MovedBack ==
  ASSUME NEW S, NEW src \in Seq(S), NEW dst \in Seq(S), NEW q \in Seq(S), IsPrefix(src, q)
  PROVE  Moved(dst, src, Moved(src, dst, q)) = q
<1>1. Len(src) <= Len(q) /\ Len(src) \in Nat /\ Len(q) \in Nat /\ Len(dst) \in Nat
      /\ \A i \in 1 .. Len(src) : src[i] = q[i]
  BY PrefixMeaning
<1>2. PICK there \in Seq(S) :
        /\ there = Moved(src, dst, q) /\ Len(there) = Len(dst) + Len(q) - Len(src)
        /\ \A i \in Len(dst) + 1 .. Len(dst) + Len(q) - Len(src) : there[i] = q[i - Len(dst) + Len(src)]
  BY MovedElements
<1>3. IsPrefix(dst, there)
  BY <1>2, MovedIsBelow
<1>4. PICK back \in Seq(S) :
        /\ back = Moved(dst, src, there) /\ Len(back) = Len(src) + Len(there) - Len(dst)
        /\ \A i \in 1 .. Len(src) : back[i] = src[i]
        /\ \A i \in Len(src) + 1 .. Len(src) + Len(there) - Len(dst) :
             back[i] = there[i - Len(src) + Len(dst)]
  <2>1. /\ Moved(dst, src, there) \in Seq(S)
        /\ Len(Moved(dst, src, there)) = Len(src) + Len(there) - Len(dst)
    BY <1>3, MovedElements
  <2>2. \A i \in 1 .. Len(src) : Moved(dst, src, there)[i] = src[i]
    BY <1>3, MovedElements
  <2>3. \A i \in Len(src) + 1 .. Len(src) + Len(there) - Len(dst) :
          Moved(dst, src, there)[i] = there[i - Len(src) + Len(dst)]
    BY <1>3, MovedElements
  <2> QED
    BY <2>1, <2>2, <2>3
<1>5. Len(back) = Len(q)
  BY <1>1, <1>2, <1>4
<1>6. ASSUME NEW i \in 1 .. Len(q) PROVE back[i] = q[i]
  <2>1. CASE i <= Len(src)
    BY <1>1, <1>4, <2>1
  <2>2. CASE i > Len(src)
    <3>1. i \in Len(src) + 1 .. Len(src) + Len(there) - Len(dst)
      BY <1>1, <1>2, <2>2
    <3>2. i - Len(src) + Len(dst) \in Len(dst) + 1 .. Len(dst) + Len(q) - Len(src)
      BY <1>1, <2>2
    <3>3. (i - Len(src) + Len(dst)) - Len(dst) + Len(src) = i
      BY <1>1
    <3> QED
      BY <1>2, <1>4, <3>1, <3>2, <3>3
  <2> QED
    BY <1>1, <2>1, <2>2
<1>7. back = q
  BY <1>4, <1>5, <1>6, SameElements
<1> QED
  BY <1>2, <1>4, <1>7

\* Paths are ordered by the prefix relation, and what is above one path is a chain.
LEMMA PathOrder ==
  /\ \A p \in Seq(Names) : IsPrefix(p, p)
  /\ \A p, q, r \in Seq(Names) : IsPrefix(p, q) /\ IsPrefix(q, r) => IsPrefix(p, r)
  /\ \A p, q \in Seq(Names) : IsPrefix(p, q) /\ IsPrefix(q, p) => p = q
  /\ \A p, q, r \in Seq(Names) : IsPrefix(p, r) /\ IsPrefix(q, r) => IsPrefix(p, q) \/ IsPrefix(q, p)
<1>1. \A p \in Seq(Names) : IsPrefix(p, p)
  BY PrefixReflexive
<1>2. \A p, q, r \in Seq(Names) : IsPrefix(p, q) /\ IsPrefix(q, r) => IsPrefix(p, r)
  BY PrefixTransitive
<1>3. \A p, q \in Seq(Names) : IsPrefix(p, q) /\ IsPrefix(q, p) => p = q
  BY PrefixAntisymmetric
<1>4. \A p, q, r \in Seq(Names) : IsPrefix(p, r) /\ IsPrefix(q, r) => IsPrefix(p, q) \/ IsPrefix(q, p)
  BY PrefixComparable
<1> QED
  BY <1>1, <1>2, <1>3, <1>4

LEMMA PathsAreSeqs == Paths \subseteq Seq(Names) \ {<< >>}
BY PathIsSeq

-----------------------------------------------------------------------------
(* Changes of a tree leave a tree                                            *)

\* Only directories are above what exists.
LEMMA AboveExisting ==
  ASSUME NEW tree, IsTree(tree), NEW p \in Paths, NEW q \in Subtree(p), p # q, Exists(tree, q)
  PROVE  IsDir(tree, p)
BY DEF IsTree, Parents, Subtree, IsStrictPrefix

\* What goes away goes with everything below it.
LEMMA EraseIsTree ==
  ASSUME NEW tree, IsTree(tree), NEW gone,
         \A p \in gone \cap Paths : \A q \in Subtree(p) : Exists(tree, q) => q \in gone
  PROVE  IsTree(Erase(tree, gone))
<1>1. Erase(tree, gone) \in [Paths -> Entries]
  BY DEF Erase, IsTree, Entries
<1>2. ASSUME NEW q \in Paths, Exists(Erase(tree, gone), q), NEW p \in Parents(q)
      PROVE  IsDir(Erase(tree, gone), p)
  <2>1. q \notin gone /\ Exists(tree, q) /\ p \in Paths /\ q \in Subtree(p)
    BY <1>2 DEF Erase, Exists, Parents, Subtree, IsStrictPrefix
  <2>2. p \notin gone /\ IsDir(tree, p)
    BY <2>1 DEF IsTree
  <2> QED
    BY <2>1, <2>2 DEF Erase, IsDir
<1> QED
  BY <1>1, <1>2 DEF IsTree

LEMMA EraseSubtreeIsTree ==
  ASSUME NEW tree, IsTree(tree), NEW p \in Seq(Names)
  PROVE  IsTree(Erase(tree, Subtree(p)))
<1>1. \A q \in Subtree(p) \cap Paths : \A r \in Subtree(q) : r \in Subtree(p)
  BY PathOrder, PathsAreSeqs DEF Subtree
<1> QED
  BY <1>1, EraseIsTree

LEMMA EraseFileIsTree ==
  ASSUME NEW tree, IsTree(tree), NEW p \in Paths, ~IsDir(tree, p)
  PROVE  IsTree(Erase(tree, {p}))
<1>1. \A q \in {p} \cap Paths : \A r \in Subtree(q) : Exists(tree, r) => r \in {p}
  BY AboveExisting
<1> QED
  BY <1>1, EraseIsTree

LEMMA WithParentsIsTree ==
  ASSUME NEW tree, IsTree(tree), NEW p \in Seq(Names)
  PROVE  IsTree(WithParents(tree, p))
<1> DEFINE new == WithParents(tree, p)
<1>1. \A q \in Paths : new[q] = IF q \in Parents(p) THEN Directory ELSE tree[q]
  BY DEF WithParents
<1>2. new \in [Paths -> Entries]
  BY DEF WithParents, IsTree, Entries
<1> HIDE DEF new
<1>3. ASSUME NEW q \in Paths, Exists(new, q), NEW r \in Parents(q) PROVE IsDir(new, r)
  <2>1. r \in Paths /\ IsStrictPrefix(r, q)
    BY DEF Parents
  <2>2. CASE q \in Parents(p)
    <3>1. r \in Parents(p)
      BY <2>1, <2>2, PathOrder, PathsAreSeqs DEF Parents, IsStrictPrefix
    <3> QED
      BY <1>1, <2>1, <3>1 DEF IsDir
  <2>3. CASE q \notin Parents(p)
    <3>1. IsDir(tree, r)
      BY <1>1, <1>3, <2>3 DEF Exists, IsTree
    <3> QED
      BY <1>1, <2>1, <3>1 DEF IsDir
  <2> QED
    BY <2>2, <2>3
<1>4. IsTree(new)
  BY <1>2, <1>3 DEF IsTree
<1> QED
  BY <1>4 DEF new

\* A file at dst and its parents.
LEMMA PutIsTree ==
  ASSUME NEW tree, IsTree(tree), NEW p \in Seq(Names), NEW entry \in Contents \cup {Directory},
         entry = Directory \/ \A q \in Children(p) : ~Exists(tree, q)
  PROVE  IsTree(Put(tree, p, entry))
<1> DEFINE new == Put(tree, p, entry)
<1>1. /\ new = [q \in Paths |-> IF q = p THEN entry
                                ELSE IF q \in Parents(p) THEN Directory ELSE tree[q]]
      /\ Parents(p) \subseteq Paths /\ p \notin Parents(p)
  BY DEF Put, WithParents, Parents, IsStrictPrefix
<1>2. new \in [Paths -> Entries]
  BY <1>1 DEF IsTree, Entries
<1>3. entry # Absent
  BY TreeAssumption
<1> HIDE DEF new
<1>4. ASSUME NEW q \in Paths, Exists(new, q), NEW r \in Parents(q)
      PROVE  IsDir(new, r)
  <2>1. r \in Paths /\ r # q /\ IsPrefix(r, q)
    BY DEF Parents, IsStrictPrefix
  <2>2. CASE q = p \/ q \in Parents(p)
    <3>1. r \in Parents(p)
      BY <2>1, <2>2, PathOrder, PathsAreSeqs DEF Parents, IsStrictPrefix
    <3> QED
      BY <1>1, <2>1, <3>1 DEF IsDir
  <2>3. CASE q # p /\ q \notin Parents(p)
    <3>1. Exists(tree, q)
      BY <1>1, <1>4, <2>3 DEF Exists
    <3>2. IsDir(tree, r)
      BY <3>1 DEF IsTree
    <3>3. r = p => entry = Directory
      BY <2>1, <2>3, <3>1 DEF Children, Subtree
    <3> QED
      BY <1>1, <2>1, <3>2, <3>3 DEF IsDir
  <2> QED
    BY <2>2, <2>3
<1>5. IsTree(new)
  BY <1>2, <1>4 DEF IsTree
<1> QED
  BY <1>5 DEF new

\* The tree after a transplantation, path by path.
LEMMA TransplantEntries ==
  ASSUME NEW tree, NEW src, NEW dst, NEW q \in Paths
  PROVE  Transplant(tree, src, dst)[q] =
           IF q \in Subtree(dst)
           THEN IF Moved(dst, src, q) \in Paths THEN tree[Moved(dst, src, q)] ELSE Absent
           ELSE IF q \in Parents(dst) THEN Directory ELSE tree[q]
BY DEF Transplant, WithParents, Moved

\* What is below dst comes from below src, in the same order.
LEMMA OriginOrder ==
  ASSUME NEW src \in Seq(Names), NEW dst \in Seq(Names),
         NEW q \in Subtree(dst), NEW r \in Subtree(dst), IsStrictPrefix(r, q)
  PROVE  /\ Moved(dst, src, q) \in Seq(Names) /\ Moved(dst, src, r) \in Seq(Names)
         /\ IsStrictPrefix(Moved(dst, src, r), Moved(dst, src, q))
<1>1. /\ q \in Seq(Names) /\ r \in Seq(Names) /\ IsPrefix(dst, q) /\ IsPrefix(dst, r)
      /\ IsPrefix(r, q) /\ r # q
  BY PathsAreSeqs DEF Subtree, IsStrictPrefix
<1>2. ASSUME NEW p \in Seq(Names), IsPrefix(dst, p)
      PROVE  /\ Moved(dst, src, p) \in Seq(Names)
             /\ Len(Moved(dst, src, p)) = Len(src) + Len(p) - Len(dst)
             /\ \A i \in 1 .. Len(src) : Moved(dst, src, p)[i] = src[i]
             /\ \A i \in Len(src) + 1 .. Len(src) + Len(p) - Len(dst) :
                  Moved(dst, src, p)[i] = p[i - Len(src) + Len(dst)]
  <2>1. /\ Moved(dst, src, p) \in Seq(Names)
        /\ Len(Moved(dst, src, p)) = Len(src) + Len(p) - Len(dst)
    BY <1>2, MovedElements
  <2>2. \A i \in 1 .. Len(src) : Moved(dst, src, p)[i] = src[i]
    BY <1>2, MovedElements
  <2>3. \A i \in Len(src) + 1 .. Len(src) + Len(p) - Len(dst) :
          Moved(dst, src, p)[i] = p[i - Len(src) + Len(dst)]
    BY <1>2, MovedElements
  <2> QED
    BY <2>1, <2>2, <2>3
<1>3. PICK oq \in Seq(Names) :
        /\ oq = Moved(dst, src, q) /\ Len(oq) = Len(src) + Len(q) - Len(dst)
        /\ \A i \in 1 .. Len(src) : oq[i] = src[i]
        /\ \A i \in Len(src) + 1 .. Len(src) + Len(q) - Len(dst) : oq[i] = q[i - Len(src) + Len(dst)]
  BY <1>1, <1>2
<1>4. PICK or \in Seq(Names) :
        /\ or = Moved(dst, src, r) /\ Len(or) = Len(src) + Len(r) - Len(dst)
        /\ \A i \in 1 .. Len(src) : or[i] = src[i]
        /\ \A i \in Len(src) + 1 .. Len(src) + Len(r) - Len(dst) : or[i] = r[i - Len(src) + Len(dst)]
  BY <1>1, <1>2
<1>5. /\ Len(dst) <= Len(r) /\ Len(r) <= Len(q) /\ \A i \in 1 .. Len(r) : r[i] = q[i]
      /\ Len(dst) \in Nat /\ Len(r) \in Nat /\ Len(q) \in Nat /\ Len(src) \in Nat
  BY <1>1, PrefixMeaning
<1>6. Len(or) <= Len(oq)
  BY <1>3, <1>4, <1>5
<1>7. ASSUME NEW i \in 1 .. Len(or) PROVE or[i] = oq[i]
  <2>1. CASE i <= Len(src)
    BY <1>3, <1>4, <1>5, <2>1
  <2>2. CASE i > Len(src)
    <3>1. i - Len(src) + Len(dst) \in 1 .. Len(r)
      BY <1>4, <1>5, <2>2
    <3>2. /\ i \in Len(src) + 1 .. Len(src) + Len(r) - Len(dst)
          /\ i \in Len(src) + 1 .. Len(src) + Len(q) - Len(dst)
      BY <1>4, <1>5, <2>2
    <3> QED
      BY <1>3, <1>4, <1>5, <3>1, <3>2
  <2> QED
    BY <1>4, <1>5, <2>1, <2>2
<1>8. IsPrefix(or, oq)
  BY <1>6, <1>7, PrefixMeaning
<1>9. or # oq
  <2>1. Moved(src, dst, oq) = q /\ Moved(src, dst, or) = r
    BY <1>1, <1>3, <1>4, MovedBack
  <2> QED
    BY <1>1, <2>1
<1> QED
  BY <1>3, <1>4, <1>8, <1>9 DEF IsStrictPrefix

LEMMA TransplantIsTree ==
  ASSUME NEW tree, IsTree(tree), NEW src \in Paths, NEW dst \in Seq(Names)
  PROVE  IsTree(Transplant(tree, src, dst))
<1> DEFINE new == Transplant(tree, src, dst)
<1>1. \A q \in Paths :
        new[q] = IF q \in Subtree(dst)
                 THEN IF Moved(dst, src, q) \in Paths THEN tree[Moved(dst, src, q)] ELSE Absent
                 ELSE IF q \in Parents(dst) THEN Directory ELSE tree[q]
  BY TransplantEntries
<1>2. src \in Seq(Names) /\ src # << >>
  BY PathIsSeq
<1>3. new \in [Paths -> Entries]
  <2>1. new = [q \in Paths |-> new[q]]
    BY DEF Transplant
  <2>2. \A q \in Paths : new[q] \in Entries
    BY <1>1 DEF IsTree, Entries
  <2> QED
    BY <2>1, <2>2
<1> HIDE DEF new
<1>4. ASSUME NEW q \in Paths, Exists(new, q), NEW r \in Parents(q)
      PROVE  IsDir(new, r)
  <2>1. /\ r \in Paths /\ r \in Seq(Names) /\ q \in Seq(Names)
        /\ r # q /\ IsPrefix(r, q) /\ IsStrictPrefix(r, q)
    BY PathsAreSeqs DEF Parents, IsStrictPrefix
  <2>2. CASE q \in Subtree(dst)
    <3>1. Moved(dst, src, q) \in Paths /\ Exists(tree, Moved(dst, src, q))
      BY <1>1, <1>4, <2>2 DEF Exists
    <3>2. CASE r \in Subtree(dst)
      <4>1. /\ Moved(dst, src, r) \in Seq(Names)
            /\ IsStrictPrefix(Moved(dst, src, r), Moved(dst, src, q))
        BY <1>2, <2>1, <2>2, <3>2, OriginOrder
      <4>2. Moved(dst, src, r) # << >>
        <5>1. r \in Seq(Names) /\ IsPrefix(dst, r)
          BY <2>1, <3>2 DEF Subtree
        <5>2. IsPrefix(src, Moved(dst, src, r))
          BY <1>2, <5>1, MovedIsBelow
        <5>3. Len(src) <= Len(Moved(dst, src, r)) /\ Len(src) > 0
          BY <1>2, <4>1, <5>2, PrefixMeaning
        <5> QED
          BY <5>3
      <4>3. Moved(dst, src, r) \in Paths
        BY <3>1, <4>1, <4>2, PrefixIsPath DEF IsStrictPrefix
      <4>4. IsDir(tree, Moved(dst, src, r))
        BY <3>1, <4>1, <4>3 DEF IsTree, Parents
      <4> QED
        BY <1>1, <2>1, <3>2, <4>3, <4>4 DEF IsDir
    <3>3. CASE r \notin Subtree(dst)
      <4>1. IsPrefix(r, dst) /\ r # dst
        BY <2>1, <2>2, <3>3, PathOrder DEF Subtree
      <4> QED
        BY <1>1, <2>1, <3>3, <4>1 DEF IsDir, Parents, IsStrictPrefix
    <3> QED
      BY <3>2, <3>3
  <2>3. CASE q \notin Subtree(dst)
    <3>1. r \notin Subtree(dst)
      BY <2>1, <2>3, PathOrder DEF Subtree
    <3>2. CASE q \in Parents(dst)
      <4>1. r \in Parents(dst)
        BY <2>1, <3>2, PathOrder DEF Parents, IsStrictPrefix
      <4> QED
        BY <1>1, <2>1, <3>1, <4>1 DEF IsDir
    <3>3. CASE q \notin Parents(dst)
      <4>1. IsDir(tree, r)
        BY <1>1, <1>4, <2>3, <3>3 DEF IsTree, Exists
      <4> QED
        BY <1>1, <2>1, <3>1, <4>1 DEF IsDir
    <3> QED
      BY <3>2, <3>3
  <2> QED
    BY <2>2, <2>3
<1>5. IsTree(new)
  BY <1>3, <1>4 DEF IsTree
<1> QED
  BY <1>5 DEF new

LEMMA RelocateIsTree ==
  ASSUME NEW tree, IsTree(tree), NEW src \in Paths, NEW dst \in Seq(Names)
  PROVE  IsTree(Relocate(tree, src, dst))
<1>1. IsTree(Transplant(tree, src, dst)) /\ src \in Seq(Names)
  BY TransplantIsTree, PathIsSeq
<1>2. IsTree(Erase(Transplant(tree, src, dst), Subtree(src)))
  BY <1>1, EraseSubtreeIsTree
<1> QED
  BY <1>2 DEF Relocate

\* The fields an operation has.
LEMMA OperationFields ==
  ASSUME NEW op \in Operation
  PROVE  /\ op.type \in Conflicting \cup Removing
                        \cup {"CREATE", "CREATE_DIRECTORY", "MOVE_DIRECTORY", "RENAME_DIRECTORY"}
         /\ op.type \notin {"CREATE", "CREATE_DIRECTORY"} => op.src \in Paths
         /\ op.type \notin Removing => op.dst \in Paths
         /\ op.type = "CREATE" => op.content \in Contents
BY DEF Operation, Conflicting, Removing

\* A file that goes to a directory goes to a path in it.
LEMMA IntoIsPath ==
  ASSUME NEW tree, NEW src \in Paths, NEW dst \in Paths
  PROVE  Into(tree, src, dst) \in Seq(Names) \ {<< >>}
<1>1. /\ src \in Seq(Names) /\ Len(src) \in Nat \ {0}
      /\ dst \in Seq(Names) /\ dst # << >>
  BY PathIsSeq
<1>2. Last(src) \in Names
  BY <1>1 DEF Last
<1>3. Append(dst, Last(src)) \in Seq(Names) /\ Append(dst, Last(src)) # << >>
  BY <1>1, <1>2, AppendProperties
<1> QED
  BY <1>1, <1>3 DEF Into

\* Nothing is below what is not a directory, or not among the paths.
LEMMA BelowNoDirectory ==
  ASSUME NEW tree, IsTree(tree), NEW p \in Seq(Names) \ {<< >>}, p \in Paths => ~IsDir(tree, p)
  PROVE  \A q \in Children(p) : ~Exists(tree, q)
<1> SUFFICES ASSUME NEW q \in Children(p), Exists(tree, q) PROVE FALSE
  OBVIOUS
<1>1. q \in Paths /\ IsPrefix(p, q) /\ p # q
  BY DEF Children, Subtree
<1>2. p \in Paths
  BY <1>1, PrefixIsPath
<1> QED
  BY <1>1, <1>2, AboveExisting DEF Subtree

\* Taking a file or a directory away, and moving or renaming whatever is there, leave
\* a tree.
LEMMA UnlinkIsTree ==
  ASSUME NEW tree, IsTree(tree), NEW p \in Paths
  PROVE  IsTree(Unlink(p, tree).tree) /\ IsTree(RmTree(p, tree).tree)
<1>1. ASSUME IsFile(tree, p) PROVE IsTree(Erase(tree, {p}))
  BY <1>1, EraseFileIsTree, TreeAssumption DEF IsFile, IsDir
<1>2. IsTree(Erase(tree, Subtree(p)))
  BY PathIsSeq, EraseSubtreeIsTree
<1> QED
  BY <1>1, <1>2 DEF Unlink, RmTree, Attempt, Completed, Failed

LEMMA MoveIsTree ==
  ASSUME NEW tree, IsTree(tree), NEW src \in Paths, NEW dst \in Paths
  PROVE  IsTree(ShutilMove(src, dst, tree).tree) /\ IsTree(PathRename(src, dst, tree).tree)
<1>1. IsTree(Relocate(tree, src, Into(tree, src, dst))) /\ IsTree(Relocate(tree, src, dst))
  BY IntoIsPath, PathIsSeq, RelocateIsTree
<1>2. ASSUME CanHold(tree, dst) PROVE IsTree(WithParents(tree, dst))
  BY <1>2, PathIsSeq, WithParentsIsTree
<1> QED
  BY <1>1, <1>2 DEF ShutilMove, PathRename, Attempt, Completed, Failed

LEMMA ClearedIsTree ==
  ASSUME NEW op \in Operation, NEW tree, IsTree(tree), NEW verdict
  PROVE  IsTree(Cleared(op, verdict, tree))
<1>1. ASSUME op.type = "COPY_DIRECTORY" PROVE IsTree(Erase(tree, Subtree(op.dst)))
  BY <1>1, OperationFields, PathIsSeq, EraseSubtreeIsTree DEF Removing
<1> QED
  BY <1>1 DEF Cleared

\* Every change the executor makes leaves a tree, whatever it finds.
LEMMA ActIsTree ==
  ASSUME NEW op \in Operation, NEW tree, IsTree(tree), NEW verdict
  PROVE  IsTree(Act(op, verdict, tree).tree)
<1> USE DEF Attempt, Completed, Failed
<1>1. ASSUME op.type = "COPY" PROVE IsTree(Copy(op, tree).tree)
  <2>1. op.src \in Paths /\ op.dst \in Paths /\ op.dst \in Seq(Names)
    BY <1>1, OperationFields, PathIsSeq DEF Removing
  <2> DEFINE target == Into(tree, op.src, op.dst)
  <2>2. target \in Seq(Names) \ {<< >>}
    BY <2>1, IntoIsPath
  <2> HIDE DEF target
  <2>3. ASSUME IsFile(tree, op.src), ~IsDir(tree, target)
        PROVE  IsTree(Put(tree, target, tree[op.src]))
    <3>1. \A q \in Children(target) : ~Exists(tree, q)
      BY <2>2, <2>3, BelowNoDirectory
    <3> QED
      BY <2>2, <2>3, <3>1, PutIsTree DEF IsFile
  <2>4. ASSUME CanHold(tree, op.dst) PROVE IsTree(WithParents(tree, op.dst))
    BY <2>1, <2>4, WithParentsIsTree
  <2> QED
    BY <2>3, <2>4 DEF Copy, target
<1>2. ASSUME op.type \in {"MOVE", "MOVE_DIRECTORY", "RENAME"}
      PROVE  /\ IsTree(ShutilMove(op.src, op.dst, tree).tree)
             /\ IsTree(PathRename(op.src, op.dst, tree).tree)
  BY <1>2, OperationFields, MoveIsTree DEF Removing
<1>3. ASSUME op.type = "DELETE" PROVE IsTree(Unlink(op.src, tree).tree)
  BY <1>3, OperationFields, UnlinkIsTree
<1>4. ASSUME op.type = "CREATE" PROVE IsTree(Create(op, tree).tree)
  <2>1. op.dst \in Paths /\ op.content \in Contents /\ op.dst \in Seq(Names) \ {<< >>}
    BY <1>4, OperationFields, PathsAreSeqs DEF Removing
  <2>2. ASSUME ~IsDir(tree, op.dst) PROVE IsTree(Put(tree, op.dst, op.content))
    <3>1. \A q \in Children(op.dst) : ~Exists(tree, q)
      BY <2>1, <2>2, BelowNoDirectory
    <3> QED
      BY <2>1, <3>1, PutIsTree
  <2> QED
    BY <2>2 DEF Create
<1>5. ASSUME op.type = "CREATE_DIRECTORY" PROVE IsTree(CreateDirectory(op, tree).tree)
  <2>1. op.dst \in Seq(Names)
    BY <1>5, OperationFields, PathIsSeq DEF Removing
  <2>2. IsTree(Put(tree, op.dst, Directory))
    BY <2>1, PutIsTree
  <2> QED
    BY <2>2 DEF CreateDirectory
<1>6. ASSUME op.type = "DELETE_DIRECTORY" PROVE IsTree(DeleteDirectory(op, tree).tree)
  <2>1. op.src \in Seq(Names)
    BY <1>6, OperationFields, PathIsSeq
  <2>2. IsTree(Erase(tree, Subtree(op.src)))
    BY <2>1, EraseSubtreeIsTree
  <2> QED
    BY <2>2 DEF DeleteDirectory
<1>7. ASSUME op.type = "COPY_DIRECTORY" PROVE IsTree(CopyDirectory(op, verdict, tree).tree)
  <2>1. op.src \in Paths /\ op.dst \in Seq(Names)
    BY <1>7, OperationFields, PathIsSeq DEF Removing
  <2>2. IsTree(Cleared(op, verdict, tree))
    BY <2>1, ClearedIsTree
  <2>3. IsTree(Transplant(Cleared(op, verdict, tree), op.src, op.dst))
    BY <2>1, <2>2, TransplantIsTree
  <2> QED
    BY <2>2, <2>3 DEF CopyDirectory
<1>8. ASSUME op.type = "EMPTY_DIRECTORY" PROVE IsTree(EmptyDirectory(op, tree).tree)
  <2>1. op.src \in Seq(Names)
    BY <1>8, OperationFields, PathIsSeq
  <2>2. \A p \in Children(op.src) \cap Paths : \A q \in Subtree(p) : q \in Children(op.src)
    BY <2>1, PathOrder, PathsAreSeqs DEF Children, Subtree
  <2>3. IsTree(Erase(tree, Children(op.src)))
    BY <2>2, EraseIsTree
  <2> QED
    BY <2>3 DEF EmptyDirectory
<1> QED
  BY <1>1, <1>2, <1>3, <1>4, <1>5, <1>6, <1>7, <1>8 DEF Act

\* So does every inverse operation of the rollback manager.
LEMMA UndoneIsTree ==
  ASSUME NEW u \in InverseOperation, NEW tree, IsTree(tree), NEW verdict
  PROVE  IsTree(Undone(u, verdict, tree).tree)
<1>1. u.src \in Paths /\ u.dst \in Paths
  BY DEF InverseOperation
<1>2. IsTree(TakeBack(u, tree).tree)
  BY <1>1, UnlinkIsTree, MoveIsTree DEF TakeBack
<1> QED
  BY <1>2 DEF Undone, Completed

\* A tree an interrupted change leaves is a tree.
LEMMA InterruptedIsTree ==
  ASSUME NEW tree, IsTree(tree), NEW after, NEW t \in Interrupted(tree, after)
  PROVE  IsTree(t)
<1> DEFINE changed == {p \in Paths : tree[p] # after[p]}
           removed == {p \in changed : ~Exists(after, p)}
           written == {p \in changed : IsFile(after, p)}
           left(done, torn) == [p \in Paths |-> IF p \in torn THEN Torn
                                                ELSE IF p \in done THEN after[p] ELSE tree[p]]
           possible(done, torn) ==
             /\ done \cap removed # {} => changed \ removed \subseteq done /\ torn = {}
             /\ done = changed => removed = {} /\ written # {}
             /\ IsTree(left(done, torn))
<1>1. t \in {tree} \cup UNION {{left(done, torn) : torn \in {s \in SUBSET written : possible(done, s)}} :
                                 done \in SUBSET changed}
  BY DEF Interrupted
<1>2. \A done, torn : possible(done, torn) => IsTree(left(done, torn))
  OBVIOUS
<1> HIDE DEF changed, written, left, possible
<1> QED
  BY <1>1, <1>2

LEMMA OutcomesAreTrees ==
  ASSUME NEW op \in Operation, NEW tree, IsTree(tree), NEW verdict,
         NEW outcome \in Outcomes(op, verdict, tree)
  PROVE  IsTree(outcome.tree)
<1> DEFINE result  == Act(op, verdict, tree)
           cleared == Cleared(op, verdict, tree)
<1>1. IsTree(result.tree) /\ IsTree(cleared)
  BY ActIsTree, ClearedIsTree
<1>2. \/ outcome = [status |-> Check(op, tree), tree |-> tree]
      \/ outcome = result
      \/ \E t \in Interrupted(tree, cleared) \cup Interrupted(cleared, result.tree) : outcome = Failed(t)
  BY DEF Outcomes
<1> HIDE DEF result, cleared
<1> QED
  BY <1>1, <1>2, InterruptedIsTree DEF Failed

LEMMA UndoOutcomesAreTrees ==
  ASSUME NEW u \in InverseOperation, NEW tree, IsTree(tree), NEW verdict,
         NEW outcome \in UndoOutcomes(u, verdict, tree)
  PROVE  IsTree(outcome.tree)
<1>1. \/ outcome = Undone(u, verdict, tree)
      \/ \E t \in Interrupted(tree, Undone(u, verdict, tree).tree) : outcome = Failed(t)
  BY DEF UndoOutcomes
<1> QED
  BY <1>1, UndoneIsTree, InterruptedIsTree DEF Failed

-----------------------------------------------------------------------------
(* The plan of a rollback                                                    *)

\* The least-number principle, for the inductions below.
LEMMA LeastElement ==
  ASSUME NEW T \in SUBSET Nat, T # {}
  PROVE  \E m \in T : \A n \in T : m <= n
<1> DEFINE R == OpToRel(<, Nat)
<1>1. \A m, n \in Nat : m < n => <<m, n>> \in R
  BY DEF OpToRel
<1>2. IsWellFoundedOn(R, Nat)
  BY NatLessThanWellFounded
<1> HIDE DEF R
<1>3. PICK m \in T : \A n \in T : ~(<<n, m>> \in R)
  BY <1>2, WFMin
<1>4. ASSUME NEW n \in T PROVE m <= n
  <2>1. ~(n < m)
    BY <1>1, <1>3
  <2> QED
    BY <2>1
<1> QED
  BY <1>4

\* f[i] is the concatenation of the first i sequences.
Concatenates(f, seqs, m) ==
  \A i \in 1 .. m : f[i] = IF i = 1 THEN seqs[i] ELSE f[i - 1] \o seqs[i]

LEMMA ConcatenationExists ==
  ASSUME NEW S, NEW n \in Nat, NEW seqs \in [1 .. n -> Seq(S)], NEW m \in 1 .. n
  PROVE  \E f \in [1 .. m -> Seq(S)] : Concatenates(f, seqs, m)
<1> DEFINE Bad == {i \in 1 .. n : ~ \E f \in [1 .. i -> Seq(S)] : Concatenates(f, seqs, i)}
<1>1. SUFFICES ASSUME Bad # {} PROVE FALSE
  OBVIOUS
<1>2. PICK i \in Bad : \A j \in Bad : i <= j
  <2>1. Bad \in SUBSET Nat
    OBVIOUS
  <2> HIDE DEF Bad
  <2> QED
    BY <1>1, <2>1, LeastElement
<1>3. i \in 1 .. n /\ ~ \E f \in [1 .. i -> Seq(S)] : Concatenates(f, seqs, i)
  OBVIOUS
<1>4. CASE i = 1
  <2> DEFINE f == [j \in 1 .. 1 |-> seqs[1]]
  <2>1. f \in [1 .. i -> Seq(S)]
    BY <1>3, <1>4
  <2>2. Concatenates(f, seqs, i)
    BY <1>4 DEF Concatenates
  <2> QED
    BY <1>3, <2>1, <2>2
<1>5. CASE i # 1
  <2>1. i - 1 \in 1 .. n /\ i - 1 \notin Bad
    BY <1>2, <1>3, <1>5
  <2>2. PICK g \in [1 .. i - 1 -> Seq(S)] : Concatenates(g, seqs, i - 1)
    BY <2>1
  <2> HIDE DEF Bad
  <2> DEFINE f == [j \in 1 .. i |-> IF j = i THEN g[i - 1] \o seqs[i] ELSE g[j]]
  <2>3. i - 1 \in 1 .. i - 1 /\ i \in 1 .. i /\ \A j \in 1 .. i : j # i => j \in 1 .. i - 1
    BY <1>3, <2>1
  <2>4. g[i - 1] \o seqs[i] \in Seq(S)
    BY <1>3, <2>3, ConcatProperties
  <2>5. f \in [1 .. i -> Seq(S)]
    BY <2>3, <2>4
  <2>6. ASSUME NEW j \in 1 .. i PROVE f[j] = IF j = 1 THEN seqs[j] ELSE f[j - 1] \o seqs[j]
    <3>1. CASE j = i
      <4>1. f[i - 1] = g[i - 1]
        BY <1>3, <2>1
      <4> QED
        BY <1>5, <2>3, <3>1, <4>1
    <3>2. CASE j # i
      <4>1. j \in 1 .. i - 1 /\ f[j] = g[j]
        BY <2>3, <3>2
      <4>2. j # 1 => j - 1 \in 1 .. i /\ j - 1 # i /\ f[j - 1] = g[j - 1]
        BY <1>3, <4>1
      <4> QED
        BY <2>2, <4>1, <4>2 DEF Concatenates
    <3> QED
      BY <3>1, <3>2
  <2>7. Concatenates(f, seqs, i)
    BY <2>6 DEF Concatenates
  <2> QED
    BY <1>3, <2>5, <2>7
<1> QED
  BY <1>4, <1>5

\* What FlattenSeq computes.
LEMMA FlattenIsConcatenation ==
  ASSUME NEW S, NEW n \in Nat \ {0}, NEW seqs \in [1 .. n -> Seq(S)]
  PROVE  \E f \in [1 .. n -> Seq(S)] : Concatenates(f, seqs, n) /\ FlattenSeq(seqs) = f[n]
<1>1. Len(seqs) = n
  BY LenProperties, IsASeq
<1> DEFINE IsFlat(h) == h = [i \in 1 .. Len(seqs) |-> IF i = 1 THEN seqs[i] ELSE h[i - 1] \o seqs[i]]
           f == CHOOSE h : IsFlat(h)
<1>2. PICK g \in [1 .. n -> Seq(S)] : Concatenates(g, seqs, n)
  BY ConcatenationExists
<1>3. IsFlat(g)
  BY <1>1, <1>2 DEF Concatenates
<1>4. FlattenSeq(seqs) = f[n]
  BY <1>1 DEF FlattenSeq
<1>5. IsFlat(f)
  BY <1>3
<1>6. f = [i \in 1 .. n |-> IF i = 1 THEN seqs[i] ELSE f[i - 1] \o seqs[i]]
  BY <1>1, <1>5
<1> HIDE DEF f, IsFlat
<1>7. Concatenates(f, seqs, n)
  BY <1>6 DEF Concatenates
<1>8. f = g
  <2> DEFINE Bad == {i \in 1 .. n : f[i] # g[i]}
  <2>1. ASSUME Bad # {} PROVE FALSE
    <3>1. PICK i \in Bad : \A j \in Bad : i <= j
      <4>1. Bad \in SUBSET Nat
        OBVIOUS
      <4> HIDE DEF Bad
      <4> QED
        BY <2>1, <4>1, LeastElement
    <3>2. i \in 1 .. n /\ f[i] # g[i] /\ (i # 1 => i - 1 \in 1 .. n /\ i - 1 \notin Bad)
      BY <3>1
    <3>3. i # 1 => f[i - 1] = g[i - 1]
      BY <3>2
    <3> HIDE DEF Bad
    <3> QED
      BY <1>2, <1>7, <3>2, <3>3 DEF Concatenates
  <2>2. \A i \in 1 .. n : f[i] = g[i]
    BY <2>1
  <2>3. f = [i \in 1 .. n |-> f[i]] /\ g = [i \in 1 .. n |-> g[i]]
    BY <1>6
  <2> QED
    BY <2>2, <2>3
<1> QED
  BY <1>2, <1>4, <1>8

\* An operation has one inverse or none.
LEMMA OneInverse ==
  ASSUME NEW op \in Operation
  PROVE  Inverses(op) = {} \/ \E u \in InverseOperation : Inverses(op) = {u}
<1>1. /\ op.type \notin {"CREATE", "CREATE_DIRECTORY"} => op.src \in Paths
      /\ op.type \notin Removing => op.dst \in Paths
  BY OperationFields
<1>2. ASSUME NEW src \in Paths, NEW dst \in Paths,
             NEW type \in {"DELETE_FILE", "DELETE_TREE", "MOVE_BACK", "RENAME_BACK", "MOVE_TREE_BACK"}
      PROVE  [type |-> type, src |-> src, dst |-> dst] \in InverseOperation
  BY DEF InverseOperation
<1> QED
  BY <1>1, <1>2 DEF Inverses, Removing

LEMMA SmallSetToSeq ==
  /\ SetToSeq({}) = << >>
  /\ \A x : SetToSeq({x}) = << x >>
<1>1. SetToSeq({}) = << >>
  <2>1. Cardinality({}) = 0
    BY FS_EmptySet
  <2>2. << >> \in [1 .. 0 -> {}] /\ IsInjective(<< >>)
    BY DEF IsInjective
  <2>3. \A f \in [1 .. 0 -> {}] : f = << >>
    OBVIOUS
  <2> QED
    BY <2>1, <2>2, <2>3 DEF SetToSeq
<1>2. ASSUME NEW x PROVE SetToSeq({x}) = << x >>
  <2>1. Cardinality({x}) = 1
    BY FS_Singleton
  <2>2. << x >> \in [1 .. 1 -> {x}] /\ IsInjective(<< x >>)
    BY DEF IsInjective
  <2>3. \A f \in [1 .. 1 -> {x}] : f = << x >>
    OBVIOUS
  <2> QED
    BY <2>1, <2>2, <2>3 DEF SetToSeq
<1> QED
  BY <1>1, <1>2

\* The commitment k has a result for each of its first operations.
ResultsFit(k) == Len(k.results) <= Len(k.operations)

\* The sequences the plan is made of, one for each result, the last one first.
PartsOf(k) == [i \in DOMAIN k.results |-> SetToSeq(Reverse(CompletedOf(k))[i])]

LEMMA PlanParts ==
  ASSUME NEW k \in Commitment, ResultsFit(k), NEW n, n = Len(k.results)
  PROVE  /\ n \in Nat /\ DOMAIN k.results = 1 .. n
         /\ \A i \in 1 .. n : k.operations[i] \in Operation /\ k.results[i] \in OperationStatus
         /\ PartsOf(k) \in [1 .. n -> Seq(InverseOperation)]
         /\ \A i \in 1 .. n :
              LET j == n - i + 1
              IN  PartsOf(k)[i] = IF k.results[j] = "COMPLETED" THEN SetToSeq(Inverses(k.operations[j]))
                                                                ELSE << >>
<1>1. /\ k.results \in Seq(OperationStatus) /\ k.operations \in Seq(Operations)
      /\ n <= Len(k.operations) /\ Len(k.operations) \in Nat
  BY DEF Commitment, ResultsFit
<1>2. n \in Nat /\ DOMAIN k.results = 1 .. n
  BY <1>1
<1>3. \A i \in 1 .. n : k.operations[i] \in Operation /\ k.results[i] \in OperationStatus
  BY <1>1, <1>2, FilesAssumption
<1>4. CompletedOf(k) = [i \in 1 .. n |-> IF k.results[i] = "COMPLETED" THEN Inverses(k.operations[i]) ELSE {}]
  BY <1>2 DEF CompletedOf
<1>5. Len(CompletedOf(k)) = n
  BY <1>2, <1>4
<1>6. ASSUME NEW i \in 1 .. n
      PROVE  /\ n - i + 1 \in 1 .. n
             /\ Reverse(CompletedOf(k))[i] = CompletedOf(k)[n - i + 1]
  BY <1>2, <1>5 DEF Reverse
<1>7. ASSUME NEW i \in 1 .. n
      PROVE  /\ PartsOf(k)[i] = IF k.results[n - i + 1] = "COMPLETED"
                                THEN SetToSeq(Inverses(k.operations[n - i + 1])) ELSE << >>
             /\ PartsOf(k)[i] \in Seq(InverseOperation)
  <2>1. PartsOf(k)[i] = IF k.results[n - i + 1] = "COMPLETED"
                        THEN SetToSeq(Inverses(k.operations[n - i + 1])) ELSE << >>
    BY <1>2, <1>4, <1>6, SmallSetToSeq DEF PartsOf
  <2>2. k.operations[n - i + 1] \in Operation
    BY <1>3, <1>6
  <2>3. CASE Inverses(k.operations[n - i + 1]) = {}
    <3>1. SetToSeq(Inverses(k.operations[n - i + 1])) = << >>
      BY <2>3, SmallSetToSeq
    <3>2. << >> \in Seq(InverseOperation)
      OBVIOUS
    <3> QED
      BY <2>1, <3>1, <3>2
  <2>4. CASE \E u \in InverseOperation : Inverses(k.operations[n - i + 1]) = {u}
    <3>1. PICK u \in InverseOperation : Inverses(k.operations[n - i + 1]) = {u}
      BY <2>4
    <3>2. << u >> \in Seq(InverseOperation) /\ << >> \in Seq(InverseOperation)
      OBVIOUS
    <3> QED
      BY <2>1, <3>1, <3>2, SmallSetToSeq
  <2> QED
    BY <2>1, <2>2, <2>3, <2>4, OneInverse
<1>8. PartsOf(k) = [i \in 1 .. n |-> PartsOf(k)[i]]
  BY <1>2 DEF PartsOf
<1> QED
  BY <1>2, <1>3, <1>7, <1>8

LEMMA PlanType ==
  ASSUME NEW k \in Commitment, ResultsFit(k)
  PROVE  PlanOf(k) \in Seq(InverseOperation)
<1> DEFINE n == Len(k.results)
<1>1. n \in Nat /\ PartsOf(k) \in [1 .. n -> Seq(InverseOperation)]
  BY PlanParts
<1>2. PlanOf(k) = FlattenSeq(PartsOf(k))
  BY DEF PlanOf, PartsOf
<1> HIDE DEF n
<1>3. CASE n = 0
  <2>1. PartsOf(k) = << >>
    BY <1>1, <1>3
  <2>2. FlattenSeq(<< >>) = << >>
    BY DEF FlattenSeq
  <2>3. << >> \in Seq(InverseOperation)
    OBVIOUS
  <2> QED
    BY <1>2, <2>1, <2>2, <2>3
<1>4. CASE n # 0
  <2>1. PICK f \in [1 .. n -> Seq(InverseOperation)] : FlattenSeq(PartsOf(k)) = f[n]
    BY <1>1, <1>4, FlattenIsConcatenation
  <2> QED
    BY <1>1, <1>2, <1>4, <2>1
<1> QED
  BY <1>3, <1>4

-----------------------------------------------------------------------------
(* Type correctness                                                          *)

\* The tree is typed because every operation and every inverse leaves a tree; the
\* plans are, because the report of a commit has a result for its first operations.
FilesInv ==
  /\ FilesTypeOK
  /\ snapshot \in [Clients -> [Paths -> Entries]]
  /\ \A c \in Clients : report[c] # Idle => ResultsFit(report[c])

LEMMA FilesInitInv == FilesInit => FilesInv
<1> SUFFICES ASSUME FilesInit PROVE FilesInv
  OBVIOUS
<1>1. ManagerTypeOK
  BY InitCommitInv DEF FilesInit, CommitInv
<1>2. IsTree(files) /\ files \in [Paths -> Entries]
  BY FilesAssumption DEF FilesInit, IsTree
<1> QED
  BY <1>1, <1>2 DEF FilesInit, FilesInv, FilesTypeOK, Verdicts

LEMMA FilesStepInv == FilesInv /\ CommitInv /\ CommitInv' /\ [FilesNext]_<<managerVars, fileVars>> => FilesInv'
<1> SUFFICES ASSUME FilesInv, CommitInv, CommitInv', [FilesNext]_<<managerVars, fileVars>>
             PROVE  FilesInv'
  OBVIOUS
<1> USE DEF FilesInv, FilesTypeOK
<1>1. ManagerTypeOK' /\ (\A c \in Clients : committing[c] # Idle => committing[c] \in Commitment)
  BY DEF CommitInv, ManagerTypeOK
<1>2. files \in [Paths -> Entries]
  BY DEF IsTree
<1>3. CASE UNCHANGED fileVars
  BY <1>1, <1>3 DEF fileVars, IsTree
<1>4. ASSUME NEW c \in Clients, NEW t \in TransactionIds, BeginCommit(c, t)
      PROVE  FilesInv'
  <2>1. /\ report' \in [Clients -> Commitment \cup {Idle}]
        /\ \A d \in Clients : report'[d] # Idle => ResultsFit(report'[d])
    BY <1>4 DEF BeginCommit
  <2>2. /\ snapshot' \in [Clients -> [Paths -> Entries]]
        /\ \A d \in Clients : snapshot'[d] = IF d = c THEN files ELSE snapshot[d]
    BY <1>2, <1>4 DEF BeginCommit
  <2>3. /\ files' = files /\ undo' = undo /\ spoiled' \subseteq Clients
        /\ passed' = passed /\ direct' = direct
    BY <1>4 DEF BeginCommit
  <2> QED
    BY <1>1, <2>1, <2>2, <2>3 DEF IsTree
<1>5. ASSUME NEW c \in Clients, CommitNext(c) PROVE FilesInv'
  <2>1. PICK outcome \in Outcomes(NextOf(committing[c]), passed[c], files) :
          /\ files' = outcome.tree
          /\ spoiled' = spoiled \cup (IF files' # files THEN Others(c) ELSE {})
                                \cup (IF Spoils(NextOf(committing[c]), outcome) THEN {c} ELSE {})
    BY <1>5 DEF CommitNext
  <2>2. /\ report' = report /\ undo' = undo /\ snapshot' = snapshot /\ direct' = direct
        /\ passed' \in [Clients -> Verdicts]
    BY <1>5 DEF CommitNext, Verdicts
  <2>3. NextOf(committing[c]) \in Operation
    <3>1. committing[c] \in Commitment /\ Len(committing[c].results) < Len(committing[c].operations)
      BY <1>1, <1>5 DEF CommitNext, HasNext
    <3>2. Len(committing[c].results) + 1 \in 1 .. Len(committing[c].operations)
      BY <3>1 DEF Commitment
    <3> QED
      BY <3>1, <3>2, FilesAssumption DEF Commitment, NextOf
  <2>4. IsTree(files')
    BY <2>1, <2>3, OutcomesAreTrees
  <2>5. spoiled' \subseteq Clients
    BY <2>1 DEF Others
  <2> QED
    BY <1>1, <2>2, <2>4, <2>5 DEF IsTree
<1>6. ASSUME NEW c \in Clients, EndCommit(c) PROVE FilesInv'
  <2>1. committing[c] \in Commitment /\ ResultsFit(committing[c])
    BY <1>1, <1>6 DEF EndCommit, FinishCommit, CommitInv, ExecutedByCommit, ResultsFit
  <2>2. /\ report' \in [Clients -> Commitment \cup {Idle}]
        /\ \A d \in Clients : report'[d] = IF d = c THEN committing[c] ELSE report[d]
    BY <1>6, <2>1 DEF EndCommit
  <2> QED
    BY <1>1, <1>6, <2>1, <2>2 DEF EndCommit, IsTree
<1>7. ASSUME NEW c \in Clients, StartRollback(c) PROVE FilesInv'
  <2>1. report[c] \in Commitment /\ ResultsFit(report[c])
    BY <1>7 DEF StartRollback
  <2>2. PlanOf(report[c]) \in Seq(InverseOperation)
    BY <2>1, PlanType
  <2>3. undo' \in [Clients -> Seq(InverseOperation) \cup {NoRollback}]
    BY <1>7, <2>2 DEF StartRollback
  <2> QED
    BY <1>1, <1>7, <2>3 DEF StartRollback, IsTree
<1>8. ASSUME NEW c \in Clients, UndoNext(c) PROVE FilesInv'
  <2>1. undo[c] \in Seq(InverseOperation) /\ undo[c] # << >>
    BY <1>8 DEF UndoNext
  <2>2. Head(undo[c]) \in InverseOperation /\ Tail(undo[c]) \in Seq(InverseOperation)
        /\ << >> \in Seq(InverseOperation)
    BY <2>1
  <2>3. PICK outcome \in UndoOutcomes(Head(undo[c]), passed[c], files) :
          /\ files' = outcome.tree
          /\ undo' = [undo EXCEPT ![c] = IF outcome.status = "FAILED" /\ StopOnFailure
                                         THEN << >> ELSE Tail(@)]
          /\ spoiled' = spoiled \cup (IF files' # files THEN Others(c) ELSE {})
                                \cup (IF outcome # Undone(Head(undo[c]), passed[c], files)
                                      THEN {c} ELSE {})
    BY <1>8 DEF UndoNext
  <2>4. IsTree(files')
    BY <2>2, <2>3, UndoOutcomesAreTrees
  <2>5. undo' \in [Clients -> Seq(InverseOperation) \cup {NoRollback}]
    BY <2>2, <2>3
  <2>6. spoiled' \subseteq Clients
    BY <2>3 DEF Others
  <2>7. passed' \in [Clients -> Verdicts] /\ direct' = direct
    BY <1>8 DEF UndoNext, Verdicts
  <2> QED
    BY <1>1, <1>8, <2>4, <2>5, <2>6, <2>7 DEF UndoNext, IsTree
<1>9. ASSUME NEW c \in Clients, EndRollback(c) PROVE FilesInv'
  <2>1. undo' \in [Clients -> Seq(InverseOperation) \cup {NoRollback}] /\ spoiled' \subseteq Clients
    BY <1>9 DEF EndRollback
  <2> QED
    BY <1>1, <1>9, <2>1 DEF EndRollback, IsTree
<1>10. ASSUME NEW op \in Direct, ActDirectly(op) PROVE FilesInv'
  <2>1. PICK outcome \in Outcomes(op, direct[op], files) :
          files' = outcome.tree /\ spoiled' = spoiled \cup IF files' # files THEN Clients ELSE {}
    BY <1>10 DEF ActDirectly
  <2>2. op \in Operation
    BY FilesAssumption
  <2>3. IsTree(files') /\ spoiled' \subseteq Clients
    BY <2>1, <2>2, OutcomesAreTrees
  <2>4. direct' \in [Direct -> Verdicts]
    BY <1>10 DEF ActDirectly, Verdicts
  <2> QED
    BY <1>1, <1>10, <2>3, <2>4 DEF ActDirectly, IsTree
<1>11. ASSUME NEW c \in Clients, CheckNext(c) \/ CheckUndo(c) PROVE FilesInv'
  <2>1. passed' \in [Clients -> Verdicts]
    BY <1>11 DEF CheckNext, CheckUndo, GoesOn, Passing, Verdicts
  <2>2. UNCHANGED <<files, report, undo, direct, snapshot, spoiled>>
    BY <1>11 DEF CheckNext, CheckUndo
  <2> QED
    BY <1>1, <2>1, <2>2 DEF IsTree
<1>12. ASSUME NEW op \in Direct, CheckDirectly(op) PROVE FilesInv'
  <2>1. direct' \in [Direct -> Verdicts]
    BY <1>12 DEF CheckDirectly, GoesOn, Passing, Verdicts
  <2> QED
    BY <1>1, <1>12, <2>1 DEF CheckDirectly, IsTree
<1> QED
  BY <1>3, <1>4, <1>5, <1>6, <1>7, <1>8, <1>9, <1>10, <1>11, <1>12 DEF FilesNext

\* The tree stays a tree, whatever operations are performed, interrupted, or undone
\* on it and in whatever order: a file has nothing below it, and only directories
\* are above what exists.  The plan of every rollback is one of inverse operations.
THEOREM FilesTypeCorrect == FilesSpec => []FilesTypeOK
<1>1. FilesSpec => []CommitInv
  BY FilesImplementManager, CommitInvariant, PTL
<1>2. FilesInv => FilesTypeOK
  BY DEF FilesInv
<1> QED
  BY <1>1, <1>2, FilesInitInv, FilesStepInv, PTL DEF FilesSpec

-----------------------------------------------------------------------------
(* Every inverse undoes its operation                                        *)

\* Nothing is below what does not exist.
LEMMA BelowNothing ==
  ASSUME NEW tree, IsTree(tree), NEW p \in Paths, ~Exists(tree, p)
  PROVE  \A q \in Subtree(p) : tree[q] = Absent
<1>1. ~IsDir(tree, p)
  BY TreeAssumption DEF Exists, IsDir
<1>2. \A q \in Children(p) : ~Exists(tree, q)
  BY <1>1, BelowNoDirectory, PathsAreSeqs
<1> QED
  BY <1>2 DEF Children, Exists

\* What was put where nothing was goes away again, the file alone or all that is there.
LEMMA PutAndErase ==
  ASSUME NEW tree, IsTree(tree), NEW p \in Paths, ~Exists(tree, p),
         \A q \in Parents(p) : IsDir(tree, q), NEW entry
  PROVE  /\ Put(tree, p, entry)[p] = entry
         /\ Erase(Put(tree, p, entry), {p}) = tree
         /\ Erase(Put(tree, p, entry), Subtree(p)) = tree
<1>1. tree \in [Paths -> Entries]
  BY DEF IsTree
<1>2. \A q \in Paths : Put(tree, p, entry)[q] = IF q = p THEN entry ELSE tree[q]
  BY DEF Put, WithParents, IsDir
<1>3. tree[p] = Absent /\ \A q \in Subtree(p) : tree[q] = Absent
  BY BelowNothing DEF Exists
<1>4. Erase(Put(tree, p, entry), {p}) = tree
  BY <1>1, <1>2, <1>3 DEF Erase
<1>5. p \in Subtree(p)
  BY PathOrder, PathsAreSeqs DEF Subtree
<1>6. Erase(Put(tree, p, entry), Subtree(p)) = tree
  BY <1>1, <1>2, <1>3, <1>5 DEF Erase
<1> QED
  BY <1>2, <1>4, <1>6

\* A path that goes elsewhere itself goes there.
LEMMA MovedTop ==
  ASSUME NEW src \in Paths, NEW dst \in Paths
  PROVE  Moved(src, dst, src) = dst
<1>1. src \in Seq(Names) /\ dst \in Seq(Names) /\ Len(src) \in Nat
  BY PathIsSeq
<1>2. SubSeq(src, Len(src) + 1, Len(src)) = << >>
  BY <1>1
<1>3. dst \o << >> = dst
  BY <1>1
<1> QED
  BY <1>2, <1>3 DEF Moved

LEMMA TransplantAndErase ==
  ASSUME NEW tree, IsTree(tree), NEW src \in Paths, NEW dst \in Paths, ~Exists(tree, dst),
         \A q \in Parents(dst) : IsDir(tree, q)
  PROVE  /\ Transplant(tree, src, dst)[dst] = tree[src]
         /\ Erase(Transplant(tree, src, dst), Subtree(dst)) = tree
<1>1. \A q \in Paths : q \notin Subtree(dst) => Transplant(tree, src, dst)[q] = tree[q]
  BY TransplantEntries DEF IsDir
<1>2. \A q \in Subtree(dst) : tree[q] = Absent
  BY BelowNothing
<1>3. tree \in [Paths -> Entries]
  BY DEF IsTree
<1>4. Erase(Transplant(tree, src, dst), Subtree(dst)) = tree
  BY <1>1, <1>2, <1>3 DEF Erase
<1>5. dst \in Subtree(dst)
  BY PathOrder, PathsAreSeqs DEF Subtree
<1>6. Transplant(tree, src, dst)[dst] = tree[src]
  BY <1>5, MovedTop, TransplantEntries
<1> QED
  BY <1>4, <1>6

\* What was moved to where nothing was, and fits there, comes back by a move.
LEMMA RelocateBack ==
  ASSUME NEW tree, IsTree(tree), NEW src \in Paths, NEW dst \in Paths,
         Exists(tree, src), ~Exists(tree, dst), \A q \in Parents(dst) : IsDir(tree, q),
         dst \notin Subtree(src),
         \A q \in Subtree(src) : Exists(tree, q) => Moved(src, dst, q) \in Paths,
         NEW after, after = Relocate(tree, src, dst)
  PROVE  /\ after[src] = Absent
         /\ after[dst] = tree[src]
         /\ \A q \in Parents(src) : IsDir(after, q)
         /\ src \notin Subtree(dst)
         /\ Relocate(after, dst, src) = tree
<1>1. /\ src \in Seq(Names) /\ dst \in Seq(Names) /\ src \in Subtree(src) /\ dst \in Subtree(dst)
      /\ src # dst
  BY PathOrder, PathsAreSeqs DEF Subtree
<1>2. \A q \in Subtree(dst) : tree[q] = Absent
  BY BelowNothing
<1>3. src \notin Subtree(dst)
  BY <1>2 DEF Exists
<1>4. Subtree(src) \cap Subtree(dst) = {}
  BY <1>1, <1>3, PathOrder, PathsAreSeqs DEF Subtree
<1>5. \A q \in Paths :
        after[q] = IF q \in Subtree(src) THEN Absent
                   ELSE IF q \in Subtree(dst)
                   THEN IF Moved(dst, src, q) \in Paths THEN tree[Moved(dst, src, q)] ELSE Absent
                   ELSE tree[q]
  BY <1>1, TransplantEntries DEF Relocate, Erase, IsDir
<1>6. after[src] = Absent
  BY <1>1, <1>5
<1>7. after[dst] = tree[src]
  BY <1>1, <1>4, <1>5, MovedTop
<1>8. ASSUME NEW q \in Parents(src)
      PROVE  /\ q \in Paths /\ q \notin Subtree(src) /\ q \notin Subtree(dst)
             /\ tree[q] = Directory
  <2>1. q \in Paths /\ IsPrefix(q, src) /\ q # src
    BY DEF Parents, IsStrictPrefix
  <2>2. tree[q] = Directory
    BY DEF IsTree, IsDir
  <2>3. q \notin Subtree(src)
    BY <1>1, <2>1, PathOrder, PathsAreSeqs DEF Subtree
  <2>4. q \notin Subtree(dst)
    BY <1>1, <1>3, <2>1, PathOrder, PathsAreSeqs DEF Subtree
  <2> QED
    BY <2>1, <2>2, <2>3, <2>4
<1>9. \A q \in Parents(src) : IsDir(after, q)
  BY <1>5, <1>8 DEF IsDir
<1>10. ASSUME NEW q \in Paths PROVE Relocate(after, dst, src)[q] = tree[q]
  <2>1. Relocate(after, dst, src)[q] =
          IF q \in Subtree(dst) THEN Absent
          ELSE IF q \in Subtree(src)
          THEN IF Moved(src, dst, q) \in Paths THEN after[Moved(src, dst, q)] ELSE Absent
          ELSE IF q \in Parents(src) THEN Directory ELSE after[q]
    BY <1>1, TransplantEntries DEF Relocate, Erase
  <2>2. CASE q \in Subtree(dst)
    BY <1>2, <2>1, <2>2
  <2>3. CASE q \in Subtree(src)
    <3>1. q \notin Subtree(dst) /\ q \in Seq(Names) /\ IsPrefix(src, q)
      BY <1>4, <2>3, PathsAreSeqs DEF Subtree
    <3>2. CASE Moved(src, dst, q) \notin Paths
      BY <2>1, <2>3, <3>1, <3>2 DEF Exists
    <3>3. CASE Moved(src, dst, q) \in Paths
      <4>1. IsPrefix(dst, Moved(src, dst, q)) /\ Moved(dst, src, Moved(src, dst, q)) = q
        BY <1>1, <3>1, MovedIsBelow, MovedBack
      <4>2. Moved(src, dst, q) \in Subtree(dst) /\ Moved(src, dst, q) \notin Subtree(src)
        BY <1>4, <3>3, <4>1 DEF Subtree
      <4>3. after[Moved(src, dst, q)] = tree[q]
        BY <1>5, <3>3, <4>1, <4>2
      <4> QED
        BY <2>1, <2>3, <3>1, <3>3, <4>3
    <3> QED
      BY <3>2, <3>3
  <2>4. CASE q \notin Subtree(src) /\ q \notin Subtree(dst)
    BY <1>5, <1>8, <2>1, <2>4
  <2> QED
    BY <2>2, <2>3, <2>4
<1>11. Relocate(after, dst, src) = [q \in Paths |-> Relocate(after, dst, src)[q]]
  BY <1>1 DEF Relocate, Erase
<1>12. tree = [q \in Paths |-> tree[q]]
  BY DEF IsTree
<1>13. Relocate(after, dst, src) = tree
  BY <1>10, <1>11, <1>12
<1> QED
  BY <1>3, <1>6, <1>7, <1>9, <1>13

\* An operation, and an inverse, whose change finds the tree its check has seen.
Perform(op, tree) ==
  IF Check(op, tree) \in Passing THEN Act(op, Check(op, tree), tree)
                                  ELSE [status |-> Check(op, tree), tree |-> tree]

Undo(u, tree) == IF IsThere(u, tree) THEN TakeBack(u, tree) ELSE Completed(tree)

\* A completed operation that replaced nothing and made no parents is undone by its
\* inverse, on the tree it left; one without an inverse has left the tree alone.
LEMMA InverseRestores ==
  ASSUME NEW op \in Operations, NEW tree, IsTree(tree), NEW after,
         Perform(op, tree) = Completed(after),
         op.type \notin Removing, ~Replaces(op, tree), ~MakesParents(op, tree)
  PROVE  /\ Inverses(op) = {} => after = tree
         /\ \A u \in Inverses(op) : Undo(u, after) = Completed(tree)
<1>1. /\ op \in Operation /\ op.dst \in Paths
      /\ op.type \notin {"CREATE", "CREATE_DIRECTORY"} => op.src \in Paths
      /\ op.type = "CREATE" => op.content \in Contents
  BY FilesAssumption, OperationFields
<1>2. ~Exists(tree, op.dst) /\ ~IsDir(tree, op.dst) /\ ~IsFile(tree, op.dst)
  BY TreeAssumption DEF Replaces, Exists, IsDir, IsFile
<1>3. /\ \A q \in Parents(op.dst) : Exists(tree, q)
      /\ \A q \in Paths : Exists(tree, q) <=> IsDir(tree, q) \/ IsFile(tree, q)
      /\ \A q \in Paths : ~(IsDir(tree, q) /\ IsFile(tree, q))
      /\ Parents(op.dst) \subseteq Paths
  BY TreeAssumption DEF MakesParents, IsTree, Entries, Exists, IsDir, IsFile, Parents
<1>4. CanHold(tree, op.dst) => \A q \in Parents(op.dst) : IsDir(tree, q)
  BY <1>3 DEF CanHold
<1>5. \/ op.type = "RENAME_DIRECTORY" /\ after = tree
      \/ op.type # "RENAME_DIRECTORY" /\ ~Refused(op, tree) /\ Act(op, "GOES_ON", tree) = Completed(after)
  <2>1. ~Conflict(op, "SKIP", tree)
    BY <1>2 DEF Conflict
  <2>2. NothingToDo(op, tree) <=> op.type = "RENAME_DIRECTORY"
    BY <1>2 DEF NothingToDo
  <2>3. Check(op, tree) = IF Refused(op, tree) THEN "FAILED"
                          ELSE IF op.type = "RENAME_DIRECTORY" THEN "COMPLETED" ELSE "GOES_ON"
    BY <1>2, <2>1, <2>2 DEF Check
  <2>4. ~Refused(op, tree)
    BY <2>3 DEF Perform, Passing, Completed
  <2> QED
    BY <2>3, <2>4 DEF Perform, Passing, Completed
<1>6. /\ Into(tree, op.src, op.dst) = op.dst
      /\ \A p, t, t1 : Attempt(p, t1, t) = Completed(after) => p /\ after = t
      /\ Failed(tree) # Completed(after)
  BY <1>2 DEF Into, Attempt, Completed, Failed
<1>7. ASSUME op.type = "COPY" PROVE \A u \in Inverses(op) : Undo(u, after) = Completed(tree)
  <2>1. Copy(op, tree) = Completed(after) /\ IsFile(tree, op.src)
    BY <1>5, <1>7 DEF Act, Refused, SourceMissing
  <2>3. CanHold(tree, op.dst) /\ after = Put(tree, op.dst, tree[op.src])
    BY <1>6, <2>1 DEF Copy
  <2>4. after[op.dst] = tree[op.src] /\ Erase(after, {op.dst}) = tree
    BY <1>1, <1>2, <1>4, <2>3, PutAndErase
  <2>5. Inverses(op) = {[type |-> "DELETE_FILE", src |-> op.dst, dst |-> op.dst]}
    BY <1>7 DEF Inverses
  <2> QED
    BY <2>1, <2>4, <2>5 DEF Undo, IsThere, TakeBack, Unlink, Attempt, IsFile
<1>8. ASSUME op.type = "CREATE" PROVE \A u \in Inverses(op) : Undo(u, after) = Completed(tree)
  <2>1. Create(op, tree) = Completed(after)
    BY <1>5, <1>8 DEF Act
  <2>2. CanHold(tree, op.dst) /\ after = Put(tree, op.dst, op.content)
    BY <1>6, <2>1 DEF Create
  <2>3. after[op.dst] = op.content /\ Erase(after, {op.dst}) = tree
    BY <1>1, <1>2, <1>4, <2>2, PutAndErase
  <2>4. Inverses(op) = {[type |-> "DELETE_FILE", src |-> op.dst, dst |-> op.dst]}
    BY <1>8 DEF Inverses
  <2> QED
    BY <1>1, <1>8, <2>3, <2>4 DEF Undo, IsThere, TakeBack, Unlink, Attempt, IsFile
<1>9. ASSUME op.type = "CREATE_DIRECTORY" PROVE \A u \in Inverses(op) : Undo(u, after) = Completed(tree)
  <2>1. CreateDirectory(op, tree) = Completed(after)
    BY <1>5, <1>9 DEF Act
  <2>2. CanHold(tree, op.dst) /\ after = Put(tree, op.dst, Directory)
    BY <1>6, <2>1 DEF CreateDirectory
  <2>3. after[op.dst] = Directory /\ Erase(after, Subtree(op.dst)) = tree
    <3>1. \A q \in Parents(op.dst) : IsDir(tree, q)
      BY <1>4, <2>2
    <3>2. Put(tree, op.dst, Directory)[op.dst] = Directory
      BY <1>1 DEF Put, WithParents
    <3>3. Erase(Put(tree, op.dst, Directory), Subtree(op.dst)) = tree
      BY <1>1, <1>2, <3>1, PutAndErase
    <3> QED
      BY <2>2, <3>2, <3>3
  <2>4. Inverses(op) = {[type |-> "DELETE_TREE", src |-> op.dst, dst |-> op.dst]}
    BY <1>9 DEF Inverses
  <2> QED
    BY <2>3, <2>4 DEF Undo, IsThere, TakeBack, RmTree, Attempt, IsDir
<1>10. ASSUME op.type = "COPY_DIRECTORY" PROVE \A u \in Inverses(op) : Undo(u, after) = Completed(tree)
  <2>1. CopyDirectory(op, "GOES_ON", tree) = Completed(after) /\ Cleared(op, "GOES_ON", tree) = tree
    BY <1>5, <1>10 DEF Act, Cleared
  <2>3. IsDir(tree, op.src) /\ CanHold(tree, op.dst) /\ after = Transplant(tree, op.src, op.dst)
    BY <1>6, <2>1 DEF CopyDirectory
  <2>4. after[op.dst] = tree[op.src] /\ Erase(after, Subtree(op.dst)) = tree
    BY <1>1, <1>2, <1>4, <1>10, <2>3, TransplantAndErase
  <2>5. Inverses(op) = {[type |-> "DELETE_TREE", src |-> op.dst, dst |-> op.dst]}
    BY <1>10 DEF Inverses
  <2> QED
    BY <2>3, <2>4, <2>5 DEF Undo, IsThere, TakeBack, RmTree, Attempt, IsDir
<1>11. ASSUME op.type \in {"MOVE", "RENAME"}, IsFile(tree, op.src), after = Relocate(tree, op.src, op.dst),
              \A q \in Parents(op.dst) : IsDir(tree, q)
       PROVE  /\ after[op.src] = Absent /\ after[op.dst] \in Contents
              /\ \A q \in Parents(op.src) : IsDir(after, q)
              /\ Relocate(after, op.dst, op.src) = tree
  <2>1. op.src \in Paths /\ Exists(tree, op.src)
    BY <1>1, <1>3, <1>11
  <2>2. \A q \in Subtree(op.src) : Exists(tree, q) => q = op.src
    <3>1. \A q \in Children(op.src) : ~Exists(tree, q)
      BY <1>3, <1>11, <2>1, BelowNoDirectory, PathsAreSeqs
    <3> QED
      BY <3>1 DEF Children
  <2>3. Moved(op.src, op.dst, op.src) = op.dst
    BY <1>1, <2>1, MovedTop
  <2>4. op.dst \notin Subtree(op.src)
    <3>1. op.dst # op.src
      BY <1>2, <2>1
    <3>2. ASSUME op.dst \in Subtree(op.src) PROVE op.src \in Parents(op.dst)
      BY <2>1, <3>1, <3>2 DEF Subtree, Parents, IsStrictPrefix
    <3> QED
      BY <1>3, <1>11, <2>1, <3>2
  <2>5. \A q \in Subtree(op.src) : Exists(tree, q) => Moved(op.src, op.dst, q) \in Paths
    BY <1>1, <2>2, <2>3
  <2>6. after[op.src] = Absent /\ after[op.dst] = tree[op.src]
    BY <1>1, <1>2, <1>11, <2>1, <2>4, <2>5, RelocateBack
  <2>7. \A q \in Parents(op.src) : IsDir(after, q)
    BY <1>1, <1>2, <1>11, <2>1, <2>4, <2>5, RelocateBack
  <2>8. Relocate(after, op.dst, op.src) = tree
    BY <1>1, <1>2, <1>11, <2>1, <2>4, <2>5, RelocateBack
  <2> QED
    BY <1>11, <2>6, <2>7, <2>8 DEF IsFile
<1>12. \A p \in Paths : (\A q \in Parents(p) : IsDir(after, q)) => CanHold(after, p)
  BY TreeAssumption DEF CanHold, IsDir, IsFile
<1>13. ASSUME op.type = "MOVE" PROVE \A u \in Inverses(op) : Undo(u, after) = Completed(tree)
  <2>1. ShutilMove(op.src, op.dst, tree) = Completed(after)
    BY <1>5, <1>13 DEF Act
  <2>2. IsFile(tree, op.src)
    BY <1>5, <1>13 DEF Refused, SourceMissing
  <2>3. CanHold(tree, op.dst) /\ after = Relocate(tree, op.src, op.dst)
    BY <1>6, <2>1 DEF ShutilMove
  <2>4. /\ after[op.src] = Absent /\ after[op.dst] \in Contents
        /\ \A q \in Parents(op.src) : IsDir(after, q)
        /\ Relocate(after, op.dst, op.src) = tree
    BY <1>4, <1>11, <1>13, <2>2, <2>3
  <2>5. ~IsDir(after, op.src) /\ ~IsDir(after, op.dst) /\ Exists(after, op.dst) /\ CanHold(after, op.src)
    BY <1>1, <1>12, <1>13, <2>4, TreeAssumption DEF IsDir, Exists
  <2> DEFINE u == [type |-> "MOVE_BACK", src |-> op.dst, dst |-> op.src]
  <2>6. Inverses(op) = {u}
    BY <1>13 DEF Inverses
  <2>7. ShutilMove(u.src, u.dst, after) = Completed(tree)
    BY <2>4, <2>5 DEF ShutilMove, Into, Attempt
  <2>8. Undo(u, after) = ShutilMove(u.src, u.dst, after)
    BY <2>5 DEF Undo, IsThere, TakeBack
  <2> QED
    BY <2>6, <2>7, <2>8
<1>14. ASSUME op.type = "RENAME" PROVE \A u \in Inverses(op) : Undo(u, after) = Completed(tree)
  <2>1. PathRename(op.src, op.dst, tree) = Completed(after)
    BY <1>5, <1>14 DEF Act
  <2>2. IsFile(tree, op.src)
    BY <1>5, <1>14 DEF Refused, SourceMissing
  <2>3. after = Relocate(tree, op.src, op.dst)
    BY <1>6, <2>1 DEF PathRename
  <2>4. \A q \in Parents(op.dst) : IsDir(tree, q)
    <3>1. Parents(op.dst) = Parents(op.src) /\ Exists(tree, op.src)
      BY <1>1, <1>3, <1>14, <2>2, FilesAssumption
    <3> QED
      BY <1>1, <1>14, <3>1 DEF IsTree
  <2>5. /\ after[op.src] = Absent /\ after[op.dst] \in Contents
        /\ Relocate(after, op.dst, op.src) = tree
    BY <1>11, <1>14, <2>2, <2>3, <2>4
  <2>6. ~IsDir(after, op.src) /\ ~IsDir(after, op.dst) /\ Exists(after, op.dst)
    BY <2>5, TreeAssumption DEF IsDir, Exists
  <2> DEFINE u == [type |-> "RENAME_BACK", src |-> op.dst, dst |-> op.src]
  <2>7. Inverses(op) = {u}
    BY <1>14 DEF Inverses
  <2>8. PathRename(u.src, u.dst, after) = Completed(tree)
    BY <2>5, <2>6 DEF PathRename, Attempt
  <2>9. Undo(u, after) = PathRename(u.src, u.dst, after)
    BY <2>6 DEF Undo, IsThere, TakeBack
  <2> QED
    BY <2>7, <2>8, <2>9
<1>15. ASSUME op.type = "MOVE_DIRECTORY" PROVE \A u \in Inverses(op) : Undo(u, after) = Completed(tree)
  <2>1. ShutilMove(op.src, op.dst, tree) = Completed(after)
    BY <1>5, <1>15 DEF Act
  <2>2. IsDir(tree, op.src) /\ CanHold(tree, op.dst)
    BY <1>5, <1>6, <1>15, <2>1 DEF Refused, SourceMissing, ShutilMove
  <2>3. op.dst \notin Subtree(op.src) /\ after = Relocate(tree, op.src, op.dst)
    BY <1>6, <2>1, <2>2 DEF ShutilMove
  <2>4. op.src \in Paths /\ Exists(tree, op.src) /\ \A q \in Parents(op.dst) : IsDir(tree, q)
    BY <1>1, <1>3, <1>4, <1>15, <2>2
  <2>5. \A q \in Subtree(op.src) : Exists(tree, q) => Moved(op.src, op.dst, q) \in Paths
    BY <1>15, <2>3, FilesAssumption
  <2>6. after[op.src] = Absent /\ after[op.dst] = tree[op.src]
    BY <1>1, <1>2, <2>3, <2>4, <2>5, RelocateBack
  <2>7. \A q \in Parents(op.src) : IsDir(after, q)
    BY <1>1, <1>2, <2>3, <2>4, <2>5, RelocateBack
  <2>8. op.src \notin Subtree(op.dst) /\ Relocate(after, op.dst, op.src) = tree
    BY <1>1, <1>2, <2>3, <2>4, <2>5, RelocateBack
  <2>9. ~IsDir(after, op.src) /\ ~Exists(after, op.src) /\ IsDir(after, op.dst) /\ CanHold(after, op.src)
    BY <1>12, <2>2, <2>4, <2>6, <2>7, TreeAssumption DEF IsDir, Exists
  <2> DEFINE u == [type |-> "MOVE_TREE_BACK", src |-> op.dst, dst |-> op.src]
  <2>10. Inverses(op) = {u}
    BY <1>15 DEF Inverses
  <2>11. ShutilMove(u.src, u.dst, after) = Completed(tree)
    BY <2>8, <2>9 DEF ShutilMove, Into, Attempt, IsDir, Exists
  <2>12. Undo(u, after) = ShutilMove(u.src, u.dst, after)
    BY <2>9 DEF Undo, IsThere, TakeBack
  <2> QED
    BY <2>10, <2>11, <2>12
<1>16. ASSUME op.type = "RENAME_DIRECTORY" PROVE Inverses(op) = {} /\ after = tree
  BY <1>5, <1>16 DEF Inverses
<1>17. op.type # "RENAME_DIRECTORY" => Inverses(op) # {}
  BY <1>1, OperationFields DEF Inverses, Conflicting, Removing
<1> QED
  BY <1>1, <1>7, <1>8, <1>9, <1>10, <1>13, <1>14, <1>15, <1>16, <1>17, OperationFields DEF Conflicting

-----------------------------------------------------------------------------
(* The plan of a rollback undoes the commit                                  *)

\* From the tree a, the inverses in u, each of them completing, lead to b.
Leads(u, a, b) ==
  \E v \in [0 .. Len(u) -> [Paths -> Entries]] :
    /\ v[0] = a /\ v[Len(u)] = b
    /\ \A i \in 1 .. Len(u) : Undo(u[i], v[i - 1]) = Completed(v[i])

\* The operation of the commitment k at i, with its result, took the tree from before
\* to after, and its inverse takes it back.
TookBack(k, i, before, after) ==
  IF k.results[i] = "COMPLETED" /\ Inverses(k.operations[i]) # {}
  THEN \A u \in Inverses(k.operations[i]) : Undo(u, after) = Completed(before)
  ELSE after = before

\* From the tree a, the operations of k that have a result led to b, and each of them
\* can be taken back.
Chain(k, a, b) ==
  \E w \in [0 .. Len(k.results) -> [Paths -> Entries]] :
    /\ w[0] = a /\ w[Len(k.results)] = b
    /\ \A i \in 1 .. Len(k.results) : TookBack(k, i, w[i - 1], w[i])

LEMMA LeadsNowhere ==
  ASSUME NEW a \in [Paths -> Entries]
  PROVE  Leads(<< >>, a, a)
<1> DEFINE v == [i \in 0 .. 0 |-> a]
<1>1. v \in [0 .. Len(<< >>) -> [Paths -> Entries]] /\ v[0] = a /\ v[Len(<< >>)] = a
  OBVIOUS
<1> HIDE DEF v
<1>2. \A i \in 1 .. Len(<< >>) : Undo(<< >>[i], v[i - 1]) = Completed(v[i])
  OBVIOUS
<1> QED
  BY <1>1, <1>2 DEF Leads

LEMMA LeadsOnce ==
  ASSUME NEW u \in InverseOperation, NEW a \in [Paths -> Entries], NEW b \in [Paths -> Entries],
         Undo(u, a) = Completed(b)
  PROVE  Leads(<< u >>, a, b)
<1> DEFINE v == [i \in 0 .. 1 |-> IF i = 0 THEN a ELSE b]
<1>1. Len(<< u >>) = 1 /\ << u >>[1] = u
  OBVIOUS
<1>2. v \in [0 .. Len(<< u >>) -> [Paths -> Entries]] /\ v[0] = a /\ v[Len(<< u >>)] = b /\ v[1] = b
  BY <1>1
<1> HIDE DEF v
<1>3. \A i \in 1 .. Len(<< u >>) : i = 1 /\ i - 1 = 0
  BY <1>1
<1>4. \A i \in 1 .. Len(<< u >>) : Undo(<< u >>[i], v[i - 1]) = Completed(v[i])
  BY <1>1, <1>2, <1>3
<1> QED
  BY <1>2, <1>4 DEF Leads

LEMMA LeadsFurther ==
  ASSUME NEW r \in Seq(InverseOperation), NEW s \in Seq(InverseOperation),
         NEW a, NEW b, NEW c, Leads(r, a, b), Leads(s, b, c)
  PROVE  Leads(r \o s, a, c)
<1>1. PICK v \in [0 .. Len(r) -> [Paths -> Entries]] :
        /\ v[0] = a /\ v[Len(r)] = b
        /\ \A i \in 1 .. Len(r) : Undo(r[i], v[i - 1]) = Completed(v[i])
  BY DEF Leads
<1>2. PICK w \in [0 .. Len(s) -> [Paths -> Entries]] :
        /\ w[0] = b /\ w[Len(s)] = c
        /\ \A i \in 1 .. Len(s) : Undo(s[i], w[i - 1]) = Completed(w[i])
  BY DEF Leads
<1>3. Len(r) \in Nat /\ Len(s) \in Nat
  OBVIOUS
<1>4. /\ Len(r \o s) = Len(r) + Len(s)
      /\ \A i \in 1 .. Len(r) + Len(s) : (r \o s)[i] = IF i <= Len(r) THEN r[i] ELSE s[i - Len(r)]
  BY ConcatProperties
<1> DEFINE x == [i \in 0 .. Len(r) + Len(s) |-> IF i <= Len(r) THEN v[i] ELSE w[i - Len(r)]]
<1>5. \A i \in 0 .. Len(r) + Len(s) :
        /\ i <= Len(r) => i \in 0 .. Len(r)
        /\ i >= Len(r) => i - Len(r) \in 0 .. Len(s)
  BY <1>3
<1>6. x \in [0 .. Len(r) + Len(s) -> [Paths -> Entries]]
  BY <1>3, <1>5
<1>7. \A i \in 0 .. Len(r) + Len(s) : x[i] = IF i <= Len(r) THEN v[i] ELSE w[i - Len(r)]
  OBVIOUS
<1> HIDE DEF x
<1>8. x[0] = a
  BY <1>1, <1>3, <1>7
<1>9. \A i \in 0 .. Len(r) + Len(s) : i >= Len(r) => x[i] = w[i - Len(r)]
  <2> SUFFICES ASSUME NEW i \in 0 .. Len(r) + Len(s), i >= Len(r) PROVE x[i] = w[i - Len(r)]
    OBVIOUS
  <2>1. CASE i = Len(r)
    BY <1>1, <1>2, <1>3, <1>7, <2>1
  <2>2. CASE i # Len(r)
    BY <1>3, <1>7, <2>2
  <2> QED
    BY <2>1, <2>2
<1>10. x[Len(r) + Len(s)] = c
  <2>1. Len(r) + Len(s) \in 0 .. Len(r) + Len(s) /\ Len(r) + Len(s) >= Len(r)
        /\ (Len(r) + Len(s)) - Len(r) = Len(s)
    BY <1>3
  <2> QED
    BY <1>2, <1>9, <2>1
<1>11. ASSUME NEW i \in 1 .. Len(r) + Len(s)
       PROVE  Undo((r \o s)[i], x[i - 1]) = Completed(x[i])
  <2>1. i \in 0 .. Len(r) + Len(s) /\ i - 1 \in 0 .. Len(r) + Len(s)
    BY <1>3
  <2>2. CASE i <= Len(r)
    <3>1. i \in 1 .. Len(r) /\ i - 1 <= Len(r)
      BY <1>3, <2>2
    <3>2. x[i] = v[i] /\ x[i - 1] = v[i - 1] /\ (r \o s)[i] = r[i]
      BY <1>4, <1>7, <2>1, <2>2, <3>1
    <3> QED
      BY <1>1, <3>1, <3>2
  <2>3. CASE i > Len(r)
    <3>1. i - Len(r) \in 1 .. Len(s) /\ i - 1 >= Len(r) /\ i >= Len(r)
      BY <1>3, <2>3
    <3>2. x[i] = w[i - Len(r)] /\ x[i - 1] = w[(i - 1) - Len(r)]
      BY <1>9, <2>1, <3>1
    <3>3. (r \o s)[i] = s[i - Len(r)] /\ (i - 1) - Len(r) = (i - Len(r)) - 1
      BY <1>3, <1>4, <2>3
    <3> QED
      BY <1>2, <3>1, <3>2, <3>3
  <2> QED
    BY <1>3, <2>2, <2>3
<1> QED
  BY <1>4, <1>6, <1>8, <1>10, <1>11 DEF Leads

LEMMA LeadsTail ==
  ASSUME NEW u \in Seq(InverseOperation), u # << >>, NEW a, NEW b, Leads(u, a, b)
  PROVE  \E t \in [Paths -> Entries] : Undo(Head(u), a) = Completed(t) /\ Leads(Tail(u), t, b)
<1>1. PICK v \in [0 .. Len(u) -> [Paths -> Entries]] :
        /\ v[0] = a /\ v[Len(u)] = b
        /\ \A i \in 1 .. Len(u) : Undo(u[i], v[i - 1]) = Completed(v[i])
  BY DEF Leads
<1>2. /\ Len(u) \in Nat \ {0} /\ Head(u) = u[1] /\ Tail(u) \in Seq(InverseOperation)
      /\ Len(Tail(u)) = Len(u) - 1 /\ \A i \in 1 .. Len(u) - 1 : Tail(u)[i] = u[i + 1]
  BY HeadTailProperties
<1>3. Undo(Head(u), a) = Completed(v[1]) /\ v[1] \in [Paths -> Entries]
  BY <1>1, <1>2
<1> DEFINE w == [i \in 0 .. Len(u) - 1 |-> v[i + 1]]
<1>4. w \in [0 .. Len(Tail(u)) -> [Paths -> Entries]] /\ w[0] = v[1]
  BY <1>2
<1>5. w[Len(u) - 1] = b
  <2>1. Len(u) - 1 \in 0 .. Len(u) - 1 /\ (Len(u) - 1) + 1 = Len(u)
    BY <1>2
  <2> QED
    BY <1>1, <2>1
<1>6. ASSUME NEW i \in 1 .. Len(u) - 1 PROVE Undo(Tail(u)[i], w[i - 1]) = Completed(w[i])
  <2>1. i + 1 \in 1 .. Len(u) /\ i \in 0 .. Len(u) - 1 /\ i - 1 \in 0 .. Len(u) - 1
        /\ (i - 1) + 1 = i /\ (i + 1) - 1 = i
    BY <1>2
  <2>2. w[i] = v[i + 1] /\ w[i - 1] = v[i]
    BY <2>1
  <2> HIDE DEF w
  <2>3. Undo(u[i + 1], v[(i + 1) - 1]) = Completed(v[i + 1])
    BY <1>1, <2>1
  <2> QED
    BY <1>2, <2>1, <2>2, <2>3
<1> HIDE DEF w
<1>7. Leads(Tail(u), v[1], b)
  BY <1>2, <1>4, <1>5, <1>6 DEF Leads
<1> QED
  BY <1>3, <1>7

LEMMA ChainBegins ==
  ASSUME NEW k, k.results = << >>, NEW a \in [Paths -> Entries]
  PROVE  Chain(k, a, a)
<1> DEFINE w == [i \in 0 .. 0 |-> a]
<1>1. Len(k.results) = 0
  OBVIOUS
<1>2. w \in [0 .. Len(k.results) -> [Paths -> Entries]] /\ w[0] = a /\ w[Len(k.results)] = a
  BY <1>1
<1> HIDE DEF w
<1>3. \A i \in 1 .. Len(k.results) : TookBack(k, i, w[i - 1], w[i])
  BY <1>1
<1> QED
  BY <1>2, <1>3 DEF Chain

\* One more result, and the step of its operation.
LEMMA ChainGrows ==
  ASSUME NEW k \in Commitment, NEW result \in OperationStatus, NEW next,
         next = [k EXCEPT !.results = Append(@, result)],
         NEW a, NEW b, NEW c \in [Paths -> Entries],
         Chain(k, a, b), TookBack(next, Len(k.results) + 1, b, c)
  PROVE  Chain(next, a, c)
<1> DEFINE n == Len(k.results)
<1>1. k.results \in Seq(OperationStatus) /\ n \in Nat
  BY DEF Commitment
<1>2. /\ next.results = Append(k.results, result) /\ next.operations = k.operations
      /\ Len(next.results) = n + 1
      /\ \A i \in 1 .. n : next.results[i] = k.results[i]
  BY <1>1, AppendProperties DEF Commitment
<1>3. PICK w \in [0 .. n -> [Paths -> Entries]] :
        /\ w[0] = a /\ w[n] = b
        /\ \A i \in 1 .. n : TookBack(k, i, w[i - 1], w[i])
  BY DEF Chain
<1> DEFINE x == [i \in 0 .. n + 1 |-> IF i = n + 1 THEN c ELSE w[i]]
<1>4. /\ x \in [0 .. n + 1 -> [Paths -> Entries]] /\ x[0] = a /\ x[n + 1] = c
      /\ \A i \in 0 .. n : x[i] = w[i]
  BY <1>1, <1>3
<1> HIDE DEF x
<1>5. ASSUME NEW i \in 1 .. n + 1 PROVE TookBack(next, i, x[i - 1], x[i])
  <2>1. CASE i = n + 1
    <3>1. i - 1 = n /\ n \in 0 .. n
      BY <1>1, <2>1
    <3>2. x[i - 1] = b /\ x[i] = c
      BY <1>3, <1>4, <2>1, <3>1
    <3> QED
      BY <2>1, <3>2
  <2>2. CASE i # n + 1
    <3>1. i \in 1 .. n /\ i \in 0 .. n /\ i - 1 \in 0 .. n
      BY <1>1, <2>2
    <3>2. TookBack(k, i, w[i - 1], w[i]) /\ x[i - 1] = w[i - 1] /\ x[i] = w[i]
      BY <1>3, <1>4, <3>1
    <3> QED
      BY <1>2, <3>1, <3>2 DEF TookBack
  <2> QED
    BY <2>1, <2>2
<1> QED
  BY <1>2, <1>4, <1>5 DEF Chain

\* The plan of a commit whose operations can be taken back one by one takes them back
\* together: it has the inverse of the last operation first.
LEMMA PlanReverts ==
  ASSUME NEW k \in Commitment, ResultsFit(k), NEW a, NEW b \in [Paths -> Entries], Chain(k, a, b)
  PROVE  Leads(PlanOf(k), b, a)
<1> DEFINE n == Len(k.results)
<1>1. /\ n \in Nat
      /\ \A i \in 1 .. n : k.operations[i] \in Operation /\ k.results[i] \in OperationStatus
      /\ PartsOf(k) \in [1 .. n -> Seq(InverseOperation)]
  BY PlanParts
<1>2. \A i \in 1 .. n : PartsOf(k)[i] = IF k.results[n - i + 1] = "COMPLETED"
                                       THEN SetToSeq(Inverses(k.operations[n - i + 1])) ELSE << >>
  BY PlanParts
<1>3. PlanOf(k) = FlattenSeq(PartsOf(k))
  BY DEF PlanOf, PartsOf
<1>4. PICK w \in [0 .. n -> [Paths -> Entries]] :
        /\ w[0] = a /\ w[n] = b
        /\ \A i \in 1 .. n : TookBack(k, i, w[i - 1], w[i])
  BY DEF Chain
<1> HIDE DEF n
<1>5. ASSUME NEW i \in 1 .. n PROVE Leads(PartsOf(k)[i], w[n - i + 1], w[n - i])
  <2>1. PICK j \in 1 .. n : j = n - i + 1
    BY <1>1
  <2>2. n - i = j - 1 /\ j \in 0 .. n /\ j - 1 \in 0 .. n
    BY <1>1, <2>1
  <2>3. TookBack(k, j, w[j - 1], w[j]) /\ w[j] \in [Paths -> Entries] /\ w[j - 1] \in [Paths -> Entries]
    BY <1>4, <2>2
  <2>4. PartsOf(k)[i] = IF k.results[j] = "COMPLETED" THEN SetToSeq(Inverses(k.operations[j])) ELSE << >>
    BY <1>2, <2>1
  <2>5. CASE k.results[j] = "COMPLETED" /\ Inverses(k.operations[j]) # {}
    <3>1. PICK u \in InverseOperation : Inverses(k.operations[j]) = {u}
      BY <1>1, <2>5, OneInverse
    <3>2. PartsOf(k)[i] = << u >>
      BY <2>4, <2>5, <3>1, SmallSetToSeq
    <3>3. Undo(u, w[j]) = Completed(w[j - 1])
      BY <2>3, <2>5, <3>1 DEF TookBack
    <3>4. Leads(<< u >>, w[j], w[j - 1])
      BY <2>3, <3>3, LeadsOnce
    <3> QED
      BY <2>1, <2>2, <3>2, <3>4
  <2>6. CASE ~(k.results[j] = "COMPLETED" /\ Inverses(k.operations[j]) # {})
    <3>1. PartsOf(k)[i] = << >>
      BY <2>4, <2>6, SmallSetToSeq
    <3>2. w[j] = w[j - 1]
      BY <2>3, <2>6 DEF TookBack
    <3>3. Leads(<< >>, w[j], w[j - 1])
      BY <2>3, <3>2, LeadsNowhere
    <3> QED
      BY <2>1, <2>2, <3>1, <3>3
  <2> QED
    BY <2>5, <2>6
<1>6. CASE n = 0
  <2>1. PartsOf(k) = << >>
    BY <1>1, <1>6
  <2>2. FlattenSeq(<< >>) = << >>
    BY DEF FlattenSeq
  <2>3. a = b
    BY <1>4, <1>6
  <2> QED
    BY <1>3, <2>1, <2>2, <2>3, LeadsNowhere
<1>7. CASE n # 0
  <2>1. PICK f \in [1 .. n -> Seq(InverseOperation)] :
          Concatenates(f, PartsOf(k), n) /\ FlattenSeq(PartsOf(k)) = f[n]
    BY <1>1, <1>7, FlattenIsConcatenation
  <2> DEFINE Bad == {i \in 1 .. n : ~Leads(f[i], b, w[n - i])}
  <2>2. ASSUME Bad # {} PROVE FALSE
    <3>1. PICK i \in Bad : \A j \in Bad : i <= j
      <4>1. Bad \in SUBSET Nat
        OBVIOUS
      <4> HIDE DEF Bad
      <4> QED
        BY <2>2, <4>1, LeastElement
    <3>2. i \in 1 .. n /\ ~Leads(f[i], b, w[n - i])
      OBVIOUS
    <3>3. Leads(PartsOf(k)[i], w[n - i + 1], w[n - i])
      BY <1>5, <3>2
    <3>4. CASE i = 1
      <4>1. f[i] = PartsOf(k)[i]
        BY <2>1, <3>2, <3>4 DEF Concatenates
      <4>2. n - i + 1 = n
        BY <1>1, <3>4
      <4>3. w[n - i + 1] = b
        BY <1>4, <4>2
      <4> QED
        BY <3>2, <3>3, <4>1, <4>3
    <3>5. CASE i # 1
      <4>1. PICK j \in 1 .. n : j = i - 1
        <5>1. i - 1 \in 1 .. n
          BY <1>1, <3>2, <3>5
        <5> QED
          BY <5>1
      <4>2. f[i] = f[j] \o PartsOf(k)[i]
        BY <2>1, <3>2, <3>5, <4>1 DEF Concatenates
      <4>3. j \notin Bad /\ n - j = n - i + 1
        BY <1>1, <3>1, <3>2, <4>1
      <4>4. Leads(f[j], b, w[n - i + 1])
        BY <4>3
      <4>5. f[j] \in Seq(InverseOperation) /\ PartsOf(k)[i] \in Seq(InverseOperation)
        BY <1>1, <2>1, <3>2
      <4>6. Leads(f[j] \o PartsOf(k)[i], b, w[n - i])
        BY <3>3, <4>4, <4>5, LeadsFurther
      <4> QED
        BY <3>2, <4>2, <4>6
    <3> QED
      BY <3>4, <3>5
  <2>3. n \in 1 .. n /\ n - n = 0
    BY <1>1, <1>7
  <2>4. Leads(f[n], b, w[n - n])
    BY <2>2, <2>3
  <2> QED
    BY <1>3, <1>4, <2>1, <2>3, <2>4
<1> QED
  BY <1>6, <1>7

-----------------------------------------------------------------------------
(* A rollback restores what the commit found                                 *)

\* The operations of a commit can be taken back one by one, from the tree as it is to
\* the tree the commit found; so can those of a report.  What is left of a plan leads
\* there as well.  What the check of the next operation or inverse has seen is still so.
\* All of it holds of the clients that are not spoiled.
CommitCanBeTakenBack(c) == committing[c] # Idle => Chain(committing[c], snapshot[c], files)

ReportCanBeTakenBack(c) ==
  committing[c] = Idle /\ report[c] # Idle /\ undo[c] = NoRollback => Chain(report[c], snapshot[c], files)

PlanLeadsBack(c) == undo[c] # NoRollback => Leads(undo[c], files, snapshot[c])

SeenIsStillSo(c) ==
  passed[c] # "NOT_YET" =>
    /\ committing[c] # Idle => passed[c] \in Passing /\ passed[c] = Check(NextOf(committing[c]), files)
    /\ committing[c] = Idle => IsThere(Head(undo[c]), files)

TakenBack(c) ==
  CommitCanBeTakenBack(c) /\ ReportCanBeTakenBack(c) /\ PlanLeadsBack(c) /\ SeenIsStillSo(c)

\* Who has passed a check is about to act.
AboutToAct(c) ==
  passed[c] # "NOT_YET" =>
    \/ committing[c] # Idle /\ HasNext(committing[c])
    \/ committing[c] = Idle /\ undo[c] \notin {NoRollback, << >>}

RollbackInv ==
  /\ \A c \in Clients : AboutToAct(c)
  /\ \A c \in Clients : committing[c] # Idle => undo[c] = NoRollback
  /\ \A c \in Clients \ spoiled : TakenBack(c)

\* A client whose variables a step leaves alone, with the tree, keeps what it had.
LEMMA TakenBackStays ==
  ASSUME NEW c \in Clients, TakenBack(c), files' = files, committing'[c] = committing[c],
         report'[c] = report[c], undo'[c] = undo[c], snapshot'[c] = snapshot[c],
         passed'[c] = passed[c]
  PROVE  TakenBack(c)'
BY DEF TakenBack, CommitCanBeTakenBack, ReportCanBeTakenBack, PlanLeadsBack, SeenIsStillSo

\* So does who has not passed a check yet, or no longer.
LEMMA AboutToActStays ==
  ASSUME NEW c \in Clients, AboutToAct(c),
         \/ passed'[c] = "NOT_YET"
         \/ passed'[c] = passed[c] /\ committing'[c] = committing[c] /\ undo'[c] = undo[c]
  PROVE  AboutToAct(c)'
BY DEF AboutToAct, HasNext, NoFailure

\* The result of a change that finds what its check has seen.
LEMMA OutcomeOfNext ==
  ASSUME NEW op, NEW tree, NEW verdict, NEW outcome \in Outcomes(op, verdict, tree),
         \/ verdict = "NOT_YET" /\ Check(op, tree) \notin Passing
         \/ verdict \in Passing /\ verdict = Check(op, tree)
  PROVE  outcome = Perform(op, tree) \/ outcome.status = "FAILED"
BY DEF Outcomes, Perform, Failed, Passing

LEMMA PerformShape ==
  ASSUME NEW op, NEW tree
  PROVE  /\ Perform(op, tree) = [status |-> Perform(op, tree).status, tree |-> Perform(op, tree).tree]
         /\ Perform(op, tree).status \in OperationStatus
         /\ Perform(op, tree).status = "SKIPPED" => Perform(op, tree).tree = tree
BY CheckStatus, ActShape DEF Perform, OperationStatus, Passing

\* An operation of a commit that does not spoil it can be taken back.
LEMMA StepCanBeTakenBack ==
  ASSUME FilesInv, NEW k \in Commitment, NEW next, HasNext(k),
         NEW verdict, NEW outcome \in Outcomes(NextOf(k), verdict, files),
         \/ verdict = "NOT_YET" /\ Check(NextOf(k), files) \notin Passing
         \/ verdict \in Passing /\ verdict = Check(NextOf(k), files),
         ~Spoils(NextOf(k), outcome),
         next = [k EXCEPT !.results = Append(@, outcome.status)]
  PROVE  /\ TookBack(next, Len(k.results) + 1, files, outcome.tree)
         /\ outcome.tree \in [Paths -> Entries]
<1> DEFINE op == NextOf(k)
           n  == Len(k.results) + 1
<1>1. /\ k.results \in Seq(OperationStatus) /\ k.operations \in Seq(Operations)
      /\ n \in 1 .. Len(k.operations)
  BY DEF Commitment, HasNext
<1>2. outcome.status \in OperationStatus
  BY OutcomeStatus DEF Passing
<1>3. next.operations[n] = op /\ next.results[n] = outcome.status
  BY <1>1, <1>2, AppendProperties DEF Commitment, NextOf
<1>4. op \in Operations /\ op \in Operation
  BY <1>1, FilesAssumption DEF NextOf
<1>5. IsTree(files) /\ IsTree(outcome.tree)
  BY <1>4, OutcomesAreTrees DEF FilesInv, FilesTypeOK
<1>6. \/ outcome = Perform(op, files)
      \/ outcome.status = "FAILED"
  BY OutcomeOfNext
<1> HIDE DEF op, n
<1>7. ~Spoils(op, outcome)
  BY DEF op
<1>8. CASE outcome.status = "COMPLETED"
  <2>1. outcome = Perform(op, files)
    BY <1>6, <1>8
  <2>2. Perform(op, files) = Completed(outcome.tree)
    BY <1>8, <2>1, PerformShape DEF Completed
  <2>3. op.type \notin Removing /\ ~Replaces(op, files) /\ ~MakesParents(op, files)
    BY <1>7, <1>8 DEF Spoils
  <2>4. /\ Inverses(op) = {} => outcome.tree = files
        /\ \A u \in Inverses(op) : Undo(u, outcome.tree) = Completed(files)
    BY <1>4, <1>5, <2>2, <2>3, InverseRestores
  <2> QED
    BY <1>3, <1>5, <1>8, <2>4 DEF TookBack, IsTree, n
<1>9. CASE outcome.status = "FAILED"
  <2>1. outcome.tree = files
    BY <1>7, <1>9 DEF Spoils
  <2> QED
    BY <1>3, <1>5, <1>9, <2>1 DEF TookBack, IsTree, n
<1>10. CASE outcome.status = "SKIPPED"
  <2>1. outcome = Perform(op, files)
    BY <1>6, <1>10
  <2>2. outcome.tree = files
    BY <1>10, <2>1, PerformShape
  <2> QED
    BY <1>3, <1>5, <1>10, <2>2 DEF TookBack, IsTree, n
<1> QED
  BY <1>2, <1>8, <1>9, <1>10 DEF OperationStatus

LEMMA RollbackInitInv == FilesInit => RollbackInv
BY DEF FilesInit, ManagerInit, RollbackInv, TakenBack, CommitCanBeTakenBack,
       ReportCanBeTakenBack, PlanLeadsBack, SeenIsStillSo, AboutToAct

LEMMA RollbackStepInv ==
  FilesInv /\ CommitInv /\ RollbackInv /\ [FilesNext]_<<managerVars, fileVars>> => RollbackInv'
<1> SUFFICES ASSUME FilesInv, CommitInv, RollbackInv, [FilesNext]_<<managerVars, fileVars>>
             PROVE  RollbackInv'
  OBVIOUS
<1>1. /\ committing \in [Clients -> Commitment \cup {Idle}]
      /\ report \in [Clients -> Commitment \cup {Idle}]
      /\ undo \in [Clients -> Seq(InverseOperation) \cup {NoRollback}]
      /\ snapshot \in [Clients -> [Paths -> Entries]]
      /\ files \in [Paths -> Entries] /\ spoiled \subseteq Clients
      /\ passed \in [Clients -> Verdicts]
  BY DEF FilesInv, FilesTypeOK, ManagerTypeOK, IsTree
<1>2. /\ \A c \in Clients : AboutToAct(c)
      /\ \A c \in Clients : committing[c] # Idle => undo[c] = NoRollback
      /\ \A c \in Clients \ spoiled : TakenBack(c)
  BY DEF RollbackInv
\* Who is not concerned keeps what was true, or is spoiled.
<1>3. ASSUME NEW d \in Clients, d \notin spoiled', d \notin spoiled, files' = files, committing'[d] = committing[d],
             report'[d] = report[d], undo'[d] = undo[d], snapshot'[d] = snapshot[d], passed'[d] = passed[d]
      PROVE  TakenBack(d)'
  BY <1>2, <1>3, TakenBackStays
<1>4. CASE UNCHANGED fileVars /\ UNCHANGED committing
  BY <1>2, <1>3, <1>4, AboutToActStays DEF RollbackInv, fileVars
<1>5. ASSUME NEW c \in Clients, NEW t \in TransactionIds, BeginCommit(c, t)
      PROVE  RollbackInv'
  <2> DEFINE k == [id |-> t, generation |-> transactions[t].generation,
                   operations |-> transactions[t].operations, results |-> << >>]
  <2>1. /\ committing' = [committing EXCEPT ![c] = k] /\ report' = [report EXCEPT ![c] = Idle]
        /\ snapshot' = [snapshot EXCEPT ![c] = files] /\ spoiled' = spoiled \ {c}
        /\ files' = files /\ undo' = undo /\ undo[c] = NoRollback /\ passed' = passed
        /\ committing[c] = Idle
    BY <1>5 DEF BeginCommit, StartCommit
  <2>2. Chain(k, files, files)
    BY <1>1, ChainBegins
  <2> HIDE DEF k
  <2>3. committing'[c] = k /\ snapshot'[c] = files /\ report'[c] = Idle /\ undo'[c] = NoRollback
    BY <1>1, <2>1
  <2>4. passed[c] = "NOT_YET" /\ TakenBack(c)'
    <3>1. passed[c] = "NOT_YET"
      BY <1>2, <2>1 DEF AboutToAct
    <3> QED
      BY <2>1, <2>2, <2>3, <3>1
         DEF TakenBack, CommitCanBeTakenBack, ReportCanBeTakenBack, PlanLeadsBack, SeenIsStillSo
  <2>5. ASSUME NEW d \in Clients \ spoiled', d # c PROVE TakenBack(d)'
    <3>1. /\ d \notin spoiled /\ committing'[d] = committing[d] /\ report'[d] = report[d]
          /\ undo'[d] = undo[d] /\ snapshot'[d] = snapshot[d] /\ passed'[d] = passed[d]
      BY <1>1, <2>1, <2>5
    <3> QED
      BY <1>3, <2>1, <3>1
  <2>6. \A d \in Clients : committing'[d] # Idle => undo'[d] = NoRollback
    BY <1>1, <1>2, <2>1
  <2>7. ASSUME NEW d \in Clients PROVE AboutToAct(d)'
    <3>1. d # c => committing'[d] = committing[d]
      BY <1>1, <2>1
    <3> QED
      BY <1>2, <2>1, <2>4, <3>1, AboutToActStays
  <2> QED
    BY <2>4, <2>5, <2>6, <2>7 DEF RollbackInv
<1>6. ASSUME NEW c \in Clients, CommitNext(c) PROVE RollbackInv'
  <2>1. committing[c] \in Commitment /\ committing[c] # Idle /\ HasNext(committing[c])
    BY <1>1, <1>6 DEF CommitNext
  <2>2. PICK outcome \in Outcomes(NextOf(committing[c]), passed[c], files) :
          /\ ExecuteNext(c, outcome.status)
          /\ files' = outcome.tree
          /\ spoiled' = spoiled \cup (IF files' # files THEN Others(c) ELSE {})
                                \cup (IF Spoils(NextOf(committing[c]), outcome) THEN {c} ELSE {})
    BY <1>6 DEF CommitNext
  <2>3. /\ report' = report /\ undo' = undo /\ snapshot' = snapshot
        /\ passed' = [passed EXCEPT ![c] = "NOT_YET"]
    BY <1>6 DEF CommitNext
  <2>4. PICK next \in Commitment : next = [committing[c] EXCEPT !.results = Append(@, outcome.status)]
    <3>1. outcome.status \in OperationStatus
      BY <1>6, NextOutcomeStatus
    <3>2. Append(committing[c].results, outcome.status) \in Seq(OperationStatus)
      BY <2>1, <3>1, AppendProperties DEF Commitment
    <3> QED
      BY <2>1, <3>2 DEF Commitment
  <2>5. committing' = [committing EXCEPT ![c] = next]
    BY <2>2, <2>4 DEF ExecuteNext
  <2>6. ASSUME c \notin spoiled' PROVE TakenBack(c)'
    <3>1. c \notin spoiled /\ ~Spoils(NextOf(committing[c]), outcome)
      BY <2>2, <2>6
    <3>2. Chain(committing[c], snapshot[c], files)
      BY <1>2, <2>1, <3>1 DEF TakenBack, CommitCanBeTakenBack
    <3>0. \/ passed[c] = "NOT_YET" /\ Check(NextOf(committing[c]), files) \notin Passing
          \/ passed[c] \in Passing /\ passed[c] = Check(NextOf(committing[c]), files)
      BY <1>2, <1>6, <2>1, <3>1 DEF CommitNext, EndsNow, TakenBack, SeenIsStillSo
    <3>3. /\ TookBack(next, Len(committing[c].results) + 1, files, outcome.tree)
          /\ outcome.tree \in [Paths -> Entries]
      BY <2>1, <2>4, <3>0, <3>1, StepCanBeTakenBack
    <3>4. outcome.status \in OperationStatus
      BY <1>6, NextOutcomeStatus
    <3>5. Chain(next, snapshot[c], outcome.tree)
      <4>1. PICK k \in Commitment, result \in OperationStatus, after \in [Paths -> Entries] :
              k = committing[c] /\ result = outcome.status /\ after = outcome.tree
        BY <2>1, <3>3, <3>4
      <4>2. next = [k EXCEPT !.results = Append(@, result)]
        BY <2>4, <4>1
      <4>3. Chain(k, snapshot[c], files) /\ TookBack(next, Len(k.results) + 1, files, after)
        BY <3>2, <3>3, <4>1
      <4>4. Chain(next, snapshot[c], after)
        BY <4>2, <4>3, ChainGrows
      <4> QED
        BY <4>1, <4>4
    <3>6. /\ committing'[c] = next /\ next # Idle /\ undo'[c] = NoRollback
          /\ passed'[c] = "NOT_YET"
      BY <1>1, <1>2, <2>1, <2>3, <2>5, TransactionAssumption
    <3> QED
      BY <2>2, <2>3, <3>5, <3>6
         DEF TakenBack, CommitCanBeTakenBack, ReportCanBeTakenBack, PlanLeadsBack, SeenIsStillSo
  <2>7. ASSUME NEW d \in Clients \ spoiled', d # c PROVE TakenBack(d)'
    <3>1. d \notin spoiled /\ files' = files
      BY <2>2, <2>7 DEF Others
    <3>2. committing'[d] = committing[d] /\ passed'[d] = passed[d]
      BY <1>1, <2>3, <2>5, <2>7
    <3> QED
      BY <1>3, <2>3, <3>1, <3>2
  <2>8. \A d \in Clients : committing'[d] # Idle => undo'[d] = NoRollback
    BY <1>1, <1>2, <2>1, <2>3, <2>5
  <2>9. ASSUME NEW d \in Clients PROVE AboutToAct(d)'
    <3>1. \/ passed'[d] = "NOT_YET"
          \/ passed'[d] = passed[d] /\ committing'[d] = committing[d] /\ undo'[d] = undo[d]
      BY <1>1, <2>3, <2>5
    <3> QED
      BY <1>2, <3>1, AboutToActStays
  <2> QED
    BY <2>6, <2>7, <2>8, <2>9 DEF RollbackInv
<1>7. ASSUME NEW c \in Clients, EndCommit(c) PROVE RollbackInv'
  <2>1. /\ committing[c] # Idle /\ committing' = [committing EXCEPT ![c] = Idle]
        /\ report' = [report EXCEPT ![c] = committing[c]]
        /\ files' = files /\ undo' = undo /\ snapshot' = snapshot /\ spoiled' = spoiled
        /\ passed' = passed /\ ~HasNext(committing[c])
    BY <1>7 DEF EndCommit, FinishCommit
  <2>2. /\ committing'[c] = Idle /\ report'[c] = committing[c] /\ undo'[c] = NoRollback
        /\ passed'[c] = "NOT_YET"
    <3>1. passed[c] = "NOT_YET"
      BY <1>2, <2>1 DEF AboutToAct
    <3> QED
      BY <1>1, <1>2, <2>1, <3>1
  <2>3. ASSUME c \notin spoiled' PROVE TakenBack(c)'
    <3>1. Chain(committing[c], snapshot[c], files)
      BY <1>2, <2>1, <2>3 DEF TakenBack, CommitCanBeTakenBack
    <3> QED
      BY <2>1, <2>2, <3>1
         DEF TakenBack, CommitCanBeTakenBack, ReportCanBeTakenBack, PlanLeadsBack, SeenIsStillSo
  <2>4. ASSUME NEW d \in Clients \ spoiled', d # c PROVE TakenBack(d)'
    <3>1. committing'[d] = committing[d] /\ report'[d] = report[d]
      BY <1>1, <2>1, <2>4
    <3> QED
      BY <1>3, <2>1, <3>1
  <2>5. \A d \in Clients : committing'[d] # Idle => undo'[d] = NoRollback
    BY <1>1, <1>2, <2>1
  <2>6. ASSUME NEW d \in Clients PROVE AboutToAct(d)'
    <3>1. \/ passed'[d] = "NOT_YET"
          \/ passed'[d] = passed[d] /\ committing'[d] = committing[d] /\ undo'[d] = undo[d]
      BY <1>1, <2>1, <2>2
    <3> QED
      BY <1>2, <3>1, AboutToActStays
  <2> QED
    BY <2>3, <2>4, <2>5, <2>6 DEF RollbackInv
<1>8. ASSUME NEW c \in Clients, StartRollback(c) PROVE RollbackInv'
  <2>1. /\ committing[c] = Idle /\ report[c] # Idle /\ undo[c] = NoRollback
        /\ undo' = [undo EXCEPT ![c] = PlanOf(report[c])]
        /\ committing' = committing /\ files' = files /\ report' = report
        /\ snapshot' = snapshot /\ spoiled' = spoiled /\ passed' = passed
    BY <1>8 DEF StartRollback, managerVars
  <2>0. passed[c] = "NOT_YET"
    BY <1>2, <2>1 DEF AboutToAct
  <2>2. report[c] \in Commitment /\ ResultsFit(report[c])
    BY <1>1, <2>1 DEF FilesInv
  <2>3. PlanOf(report[c]) \in Seq(InverseOperation)
    BY <2>2, PlanType
  <2>4. undo'[c] = PlanOf(report[c]) /\ undo'[c] # NoRollback
    BY <1>1, <2>1, <2>3, FilesAssumption
  <2>5. ASSUME c \notin spoiled' PROVE TakenBack(c)'
    <3>1. Chain(report[c], snapshot[c], files)
      BY <1>2, <2>1, <2>5 DEF TakenBack, ReportCanBeTakenBack
    <3>2. Leads(PlanOf(report[c]), files, snapshot[c])
      BY <1>1, <2>2, <3>1, PlanReverts
    <3> QED
      BY <2>0, <2>1, <2>4, <3>2
         DEF TakenBack, CommitCanBeTakenBack, ReportCanBeTakenBack, PlanLeadsBack, SeenIsStillSo
  <2>6. ASSUME NEW d \in Clients \ spoiled', d # c PROVE TakenBack(d)'
    <3>1. undo'[d] = undo[d]
      BY <1>1, <2>1, <2>6
    <3> QED
      BY <1>3, <2>1, <3>1
  <2>7. \A d \in Clients : committing'[d] # Idle => undo'[d] = NoRollback
    BY <1>1, <1>2, <2>1
  <2>8. ASSUME NEW d \in Clients PROVE AboutToAct(d)'
    <3>1. \/ passed'[d] = "NOT_YET"
          \/ passed'[d] = passed[d] /\ committing'[d] = committing[d] /\ undo'[d] = undo[d]
      BY <1>1, <2>0, <2>1
    <3> QED
      BY <1>2, <3>1, AboutToActStays
  <2> QED
    BY <2>5, <2>6, <2>7, <2>8 DEF RollbackInv
<1>9. ASSUME NEW c \in Clients, UndoNext(c) PROVE RollbackInv'
  <2>1. undo[c] \in Seq(InverseOperation) /\ undo[c] # << >> /\ undo[c] # NoRollback
    BY <1>1, <1>9 DEF UndoNext
  <2>2. PICK outcome \in UndoOutcomes(Head(undo[c]), passed[c], files) :
          /\ files' = outcome.tree
          /\ undo' = [undo EXCEPT ![c] = IF outcome.status = "FAILED" /\ StopOnFailure
                                         THEN << >> ELSE Tail(@)]
          /\ spoiled' = spoiled \cup (IF files' # files THEN Others(c) ELSE {})
                                \cup (IF outcome # Undone(Head(undo[c]), passed[c], files)
                                      THEN {c} ELSE {})
    BY <1>9 DEF UndoNext
  <2>3. /\ committing' = committing /\ report' = report /\ snapshot' = snapshot
        /\ passed' = [passed EXCEPT ![c] = "NOT_YET"]
    BY <1>9 DEF UndoNext, managerVars
  <2>4. committing[c] = Idle
    BY <1>2, <2>1
  <2>5. ASSUME c \notin spoiled' PROVE TakenBack(c)'
    <3>0. c \notin spoiled /\ outcome = Undone(Head(undo[c]), passed[c], files)
      BY <2>2, <2>5
    <3>1. outcome = Undo(Head(undo[c]), files)
      <4>1. passed[c] # "NOT_YET" <=> IsThere(Head(undo[c]), files)
        BY <1>2, <1>9, <2>4, <3>0 DEF UndoNext, TakenBack, SeenIsStillSo
      <4> QED
        BY <3>0, <4>1 DEF Undone, Undo
    <3>2. Leads(undo[c], files, snapshot[c])
      BY <1>2, <2>1, <3>0 DEF TakenBack, PlanLeadsBack
    <3>3. PICK t \in [Paths -> Entries] :
            Undo(Head(undo[c]), files) = Completed(t) /\ Leads(Tail(undo[c]), t, snapshot[c])
      BY <2>1, <3>2, LeadsTail
    <3>4. files' = t /\ outcome.status = "COMPLETED"
      BY <2>2, <3>1, <3>3 DEF Completed
    <3>5. undo'[c] = Tail(undo[c]) /\ undo'[c] # NoRollback /\ passed'[c] = "NOT_YET"
      <4>1. Tail(undo[c]) \in Seq(InverseOperation)
        BY <2>1
      <4> QED
        BY <1>1, <2>2, <2>3, <3>4, <4>1, FilesAssumption
    <3> QED
      BY <2>3, <2>4, <3>3, <3>4, <3>5
         DEF TakenBack, CommitCanBeTakenBack, ReportCanBeTakenBack, PlanLeadsBack, SeenIsStillSo
  <2>6. ASSUME NEW d \in Clients \ spoiled', d # c PROVE TakenBack(d)'
    <3>1. d \notin spoiled /\ files' = files
      BY <2>2, <2>6 DEF Others
    <3>2. undo'[d] = undo[d] /\ passed'[d] = passed[d]
      BY <1>1, <2>2, <2>3, <2>6
    <3> QED
      BY <1>3, <2>3, <3>1, <3>2
  <2>7. \A d \in Clients : committing'[d] # Idle => undo'[d] = NoRollback
    BY <1>1, <1>2, <2>2, <2>3, <2>4
  <2>8. ASSUME NEW d \in Clients PROVE AboutToAct(d)'
    <3>1. \/ passed'[d] = "NOT_YET"
          \/ passed'[d] = passed[d] /\ committing'[d] = committing[d] /\ undo'[d] = undo[d]
      BY <1>1, <2>2, <2>3
    <3> QED
      BY <1>2, <3>1, AboutToActStays
  <2> QED
    BY <2>5, <2>6, <2>7, <2>8 DEF RollbackInv
<1>10. ASSUME NEW c \in Clients, EndRollback(c) PROVE RollbackInv'
  <2>1. /\ undo[c] = << >> /\ undo' = [undo EXCEPT ![c] = NoRollback] /\ spoiled' = spoiled \cup {c}
        /\ committing' = committing /\ files' = files /\ report' = report /\ snapshot' = snapshot
        /\ passed' = passed
    BY <1>10 DEF EndRollback, managerVars
  <2>2. ASSUME NEW d \in Clients \ spoiled' PROVE TakenBack(d)'
    <3>1. d \notin spoiled /\ d # c /\ undo'[d] = undo[d]
      BY <1>1, <2>1, <2>2
    <3> QED
      BY <1>3, <2>1, <3>1
  <2>3. \A d \in Clients : committing'[d] # Idle => undo'[d] = NoRollback
    BY <1>1, <1>2, <2>1
  <2>4. passed[c] = "NOT_YET"
    <3>1. committing[c] = Idle
      <4>1. << >> # NoRollback
        <5>1. << >> \in Seq(InverseOperation)
          OBVIOUS
        <5> QED
          BY <5>1, FilesAssumption
      <4> QED
        BY <1>2, <2>1, <4>1
    <3> QED
      BY <1>2, <2>1, <3>1 DEF AboutToAct
  <2>5. ASSUME NEW d \in Clients PROVE AboutToAct(d)'
    <3>1. \/ passed'[d] = "NOT_YET"
          \/ passed'[d] = passed[d] /\ committing'[d] = committing[d] /\ undo'[d] = undo[d]
      BY <1>1, <2>1, <2>4
    <3> QED
      BY <1>2, <3>1, AboutToActStays
  <2> QED
    BY <2>2, <2>3, <2>5 DEF RollbackInv
<1>11. ASSUME NEW op \in Direct, ActDirectly(op) PROVE RollbackInv'
  <2>1. /\ spoiled' = spoiled \cup IF files' # files THEN Clients ELSE {}
        /\ committing' = committing /\ report' = report /\ undo' = undo /\ snapshot' = snapshot
        /\ passed' = passed
    BY <1>11 DEF ActDirectly, managerVars
  <2>2. ASSUME NEW d \in Clients \ spoiled' PROVE TakenBack(d)'
    BY <1>3, <2>1, <2>2
  <2>3. \A d \in Clients : AboutToAct(d)'
    BY <1>2, <2>1, AboutToActStays
  <2> QED
    BY <1>2, <2>1, <2>2, <2>3 DEF RollbackInv
<1>12. ASSUME NEW c \in Clients, CheckNext(c) \/ CheckUndo(c) PROVE RollbackInv'
  <2>1. UNCHANGED <<managerVars, files, report, undo, snapshot, spoiled>>
    BY <1>12 DEF CheckNext, CheckUndo
  <2>2. committing' = committing
    BY <2>1 DEF managerVars
  <2>3. \/ /\ committing[c] # Idle /\ HasNext(committing[c])
           /\ Check(NextOf(committing[c]), files) \in Passing
           /\ passed' = [passed EXCEPT ![c] = Check(NextOf(committing[c]), files)]
        \/ /\ undo[c] \notin {NoRollback, << >>} /\ IsThere(Head(undo[c]), files)
           /\ committing[c] = Idle
           /\ passed' = [passed EXCEPT ![c] = "GOES_ON"]
    BY <1>2, <1>12 DEF CheckNext, CheckUndo, GoesOn
  <2>4. \/ /\ committing[c] # Idle /\ HasNext(committing[c])
           /\ passed'[c] \in Passing /\ passed'[c] = Check(NextOf(committing[c]), files)
        \/ /\ undo[c] \notin {NoRollback, << >>} /\ IsThere(Head(undo[c]), files)
           /\ committing[c] = Idle
    BY <1>1, <2>3
  <2>5. ASSUME NEW d \in Clients, d # c PROVE passed'[d] = passed[d]
    BY <1>1, <2>3, <2>5
  <2>6. ASSUME c \notin spoiled' PROVE TakenBack(c)'
    <3>1. SeenIsStillSo(c)'
      BY <2>1, <2>2, <2>4 DEF SeenIsStillSo
    <3> QED
      BY <1>2, <2>1, <2>2, <2>6, <3>1 DEF TakenBack, CommitCanBeTakenBack, ReportCanBeTakenBack, PlanLeadsBack
  <2>7. ASSUME NEW d \in Clients \ spoiled', d # c PROVE TakenBack(d)'
    BY <1>3, <2>1, <2>2, <2>5, <2>7
  <2>8. AboutToAct(c)'
    BY <2>1, <2>2, <2>4 DEF AboutToAct
  <2>9. ASSUME NEW d \in Clients, d # c PROVE AboutToAct(d)'
    BY <1>2, <2>1, <2>2, <2>5, <2>9, AboutToActStays
  <2> QED
    BY <1>2, <2>1, <2>2, <2>6, <2>7, <2>8, <2>9 DEF RollbackInv
<1>13. ASSUME NEW op \in Direct, CheckDirectly(op) PROVE RollbackInv'
  <2>1. UNCHANGED <<managerVars, files, report, undo, passed, snapshot, spoiled>>
    BY <1>13 DEF CheckDirectly
  <2>2. committing' = committing
    BY <2>1 DEF managerVars
  <2>3. \A d \in Clients : AboutToAct(d)'
    BY <1>2, <2>1, <2>2, AboutToActStays
  <2> QED
    BY <1>2, <1>3, <2>1, <2>2, <2>3 DEF RollbackInv
<1> QED
  BY <1>4, <1>5, <1>6, <1>7, <1>8, <1>9, <1>10, <1>11, <1>12, <1>13
     DEF FilesNext, managerVars, Begin, RecordOperation, Abort, Clear

\* A rollback leaves the tree as the commit found it, for any operations, policies,
\* number of clients and length of the transactions, when every completed operation
\* has an inverse and made exactly what it names, none was interrupted and nobody else
\* changed the tree: each operation then finds what its check has seen, each inverse
\* completes on the tree its operation left, and the plan has them in the opposite order.
THEOREM RollbackRestoresCorrect == FilesSpec => []RollbackRestores
<1>1. FilesSpec => []CommitInv
  BY FilesImplementManager, CommitInvariant, PTL
<1>2. FilesSpec => []FilesInv
  BY <1>1, FilesInitInv, FilesStepInv, PTL DEF FilesSpec
<1>3. FilesInv /\ RollbackInv => RollbackRestores
  <2> SUFFICES ASSUME FilesInv, RollbackInv, NEW c \in Clients \ spoiled, undo[c] = << >>
               PROVE  files = snapshot[c]
    BY DEF RollbackRestores
  <2>1. << >> # NoRollback
    <3>1. << >> \in Seq(InverseOperation)
      OBVIOUS
    <3> QED
      BY <3>1, FilesAssumption
  <2>2. Leads(<< >>, files, snapshot[c])
    BY <2>1 DEF RollbackInv, TakenBack, PlanLeadsBack
  <2>3. Len(<< >>) = 0
    OBVIOUS
  <2> QED
    BY <2>2, <2>3 DEF Leads
<1> QED
  BY <1>1, <1>2, <1>3, RollbackInitInv, RollbackStepInv, PTL DEF FilesSpec
=============================================================================
