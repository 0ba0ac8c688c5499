---------------------- MODULE LongRunningTaskManagerProofs ----------------------
(***************************************************************************)
(* Theorems about the manager of long-running tasks, for every set of      *)
(* tasks and listeners and every configuration: its types, what the store  *)
(* holds, that an announced end is final, and that the records in the      *)
(* store follow the life cycle of a task.                                  *)
(***************************************************************************)
EXTENDS LongRunningTaskManager, FiniteSetTheorems, SequenceTheorems, TLAPS

-----------------------------------------------------------------------------
(* The inductive invariant                                                   *)

\* The record of t is about to be written.
Writing(t) == todo # << >> /\ Head(todo).op = "write" /\ Head(todo).id = t

\* The status s may be written over what the store holds of t: as a new record, or
\* along an arrow of the life cycle.
MayBecome(t, s) ==
  \/ stored[t] = NoTask /\ s = "PENDING"
  \/ /\ stored[t] \in Task
     /\ \/ <<stored[t].status, s>> \in TaskArrows /\ s # "GONE"
        \/ stored[t].status = s /\ s \notin Finals

\* The store holds the end s of t, or held it.
EndedWith(t, s) == stored[t] = Erased \/ (stored[t] \in Task /\ stored[t].status = s)

\* The store holds no end of t, nor held one.
Open(t) == stored[t] = NoTask \/ (stored[t] \in Task /\ ~IsFinished(stored[t]))

\* The hook failed to write t with the status s.
WasLost(t, s) == [id |-> t, status |-> s] \in lost

\* Neither a failing hook nor a recovery at work concerned t.
Trusted(t) == t \notin overtaken /\ \A s \in TaskStatuses : ~WasLost(t, s)

StoredOrLost(t, task) == stored[t] = task \/ (Open(t) /\ WasLost(t, task.status))

\* What a step that is left to be done relies on.
ReadyToWrite(e) ==
  /\ e.id \in createdIds /\ e.task \in Task
  /\ e.id \notin overtaken => Open(e.id)
  /\ Trusted(e.id) => MayBecome(e.id, e.task.status)

ReadyToAnnounce(e) ==
  /\ e.id \in TaskIds /\ e.task \in Task /\ IsFinished(e.task)
  /\ e.id \notin overtaken =>
       Writing(e.id) \/ EndedWith(e.id, e.task.status) \/ WasLost(e.id, e.task.status)

ReadyToDelete(e) ==
  /\ e.id \in createdIds
  /\ e.id \notin overtaken => ~IsActive(e.id)
  /\ Trusted(e.id) => \E s \in Finals : EndedWith(e.id, s)

Ready(e) ==
  /\ e.op = "write" => ReadyToWrite(e)
  /\ e.op = "announce" => ReadyToAnnounce(e)
  /\ e.op = "delete" => ReadyToDelete(e)
  /\ e.op = "archive" => e.id \in ActiveIds /\ ~IsLive(e.id)
  /\ e.op = "timeout" => e.id \in TaskIds /\ IsLive(e.id)
  /\ e.op = "create" => e.id \in TaskIds \ createdIds

StepsAreReady == \A i \in DOMAIN todo : Ready(todo[i])

\* A write comes next, an end that is not yet written after its write, and a
\* creation that waits for room last, as does the expiry, after archiving alone.
StepsInOrder ==
  \A i \in DOMAIN todo :
    /\ todo[i].op = "write" => i = 1
    /\ todo[i].op = "announce" =>
         \/ i = 1
         \/ i = 2 /\ todo[1].op = "write" /\ todo[1].id = todo[i].id /\ todo[1].task = todo[i].task
    /\ todo[i].op = "create" => i = Len(todo)
    /\ todo[i].op = "expire" => i = Len(todo) /\ \A k \in DOMAIN todo : k # i => todo[k].op = "archive"

\* A task is archived or timed out once in a method.
CallsAreDistinct ==
  \A i, k \in DOMAIN todo :
    i # k /\ todo[i].op \in {"archive", "timeout"} => <<todo[i].op, todo[i].id>> # <<todo[k].op, todo[k].id>>

\* Before the history is looked through, every active task that ended is archived.
EndedAreArchived ==
  \A i \in DOMAIN todo : todo[i].op = "expire" =>
    \A t \in ActiveIds : IsLive(t) \/ \E k \in DOMAIN todo : todo[k].op = "archive" /\ todo[k].id = t

\* Memory is ahead of the store by the write that comes next and those that failed,
\* and no more; but for the tasks a recovery at work restored from old records.
ActiveIsStored ==
  \A t \in ActiveIds \ overtaken :
    IF Writing(t) THEN Head(todo).task = activeTasks[t] ELSE StoredOrLost(t, activeTasks[t])

HistoryIsStored ==
  \A e \in Range(completedTasks) :
    /\ e.id \in createdIds
    /\ IsFinished(e.task)
    /\ e.id \notin overtaken =>
         /\ ~IsLive(e.id)
         /\ IF Writing(e.id) THEN Head(todo).task = e.task
                             ELSE stored[e.id] = Erased \/ StoredOrLost(e.id, e.task)

OnlyCreatedKnown ==
  \A t \in TaskIds : IsActive(t) \/ stored[t] # NoTask \/ loaded[t] # NoTask => t \in createdIds

\* What a listener is told is true, unless the write failed or old records came back.
TrueNews(e) ==
  e.status \in Finals /\ e \notin lost /\ e.id \notin overtaken => EndedWith(e.id, e.status)

ToldIsFinal ==
  /\ \A l \in Listeners : \A e \in heard[l] : TrueNews(e)
  /\ \A e \in delivery.event : TrueNews(e)

TaskInv ==
  /\ TaskTypeOK
  /\ StepsAreReady
  /\ StepsInOrder
  /\ CallsAreDistinct
  /\ EndedAreArchived
  /\ ActiveIsStored
  /\ HistoryIsStored
  /\ OnlyCreatedKnown
  /\ ToldIsFinal

-----------------------------------------------------------------------------
(* Sequences                                                                 *)

\* What is left when the first step is taken.
LEMMA TailLemma ==
  ASSUME NEW S, NEW s \in Seq(S), s # << >>
  PROVE  /\ 1 \in DOMAIN s
         /\ Head(s) = s[1] /\ s[1] \in S
         /\ Tail(s) \in Seq(S)
         /\ Len(Tail(s)) = Len(s) - 1
         /\ \A i \in DOMAIN Tail(s) : /\ i \in Nat \ {0} /\ i + 1 \in DOMAIN s
                                      /\ Tail(s)[i] = s[i + 1]
<1>1. Len(s) \in Nat /\ Len(s) # 0 /\ DOMAIN s = 1 .. Len(s)
  BY LenProperties, EmptySeq
<1>2. Head(s) = s[1] /\ s[1] \in S
  BY <1>1, ElementOfSeq
<1>3. /\ Tail(s) \in Seq(S) /\ Len(Tail(s)) = Len(s) - 1
      /\ \A i \in 1 .. Len(Tail(s)) : Tail(s)[i] = s[i + 1]
  BY HeadTailProperties
<1>4. DOMAIN Tail(s) = 1 .. Len(s) - 1
  BY <1>3, LenProperties
<1> QED
  BY <1>1, <1>2, <1>3, <1>4

\* A position in a concatenation is one in the first or one in the second sequence.
LEMMA FrontLemma ==
  ASSUME NEW S, NEW f \in Seq(S), NEW r \in Seq(S)
  PROVE  /\ f \o r \in Seq(S)
         /\ Len(f \o r) = Len(f) + Len(r)
         /\ \A i \in DOMAIN (f \o r) :
              \/ i \in DOMAIN f /\ i <= Len(f) /\ (f \o r)[i] = f[i]
              \/ i > Len(f) /\ i - Len(f) \in DOMAIN r /\ (f \o r)[i] = r[i - Len(f)]
<1>1. /\ Len(f) \in Nat /\ DOMAIN f = 1 .. Len(f)
      /\ Len(r) \in Nat /\ DOMAIN r = 1 .. Len(r)
  BY LenProperties
<1>2. /\ f \o r \in Seq(S) /\ Len(f \o r) = Len(f) + Len(r)
      /\ \A i \in 1 .. Len(f) + Len(r) : (f \o r)[i] = IF i <= Len(f) THEN f[i] ELSE r[i - Len(f)]
  BY ConcatProperties
<1>3. DOMAIN (f \o r) = 1 .. Len(f) + Len(r)
  BY <1>2, LenProperties
<1> QED
  BY <1>1, <1>2, <1>3

\* An effect as the methods make it is an effect.
LEMMA StepType ==
  ASSUME NEW op \in {"write", "delete", "announce", "archive", "timeout", "expire", "create"},
         NEW t \in TaskIds \cup {NoTask}, NEW task \in Task \cup {NoTask}
  PROVE  /\ Step(op, t, task) \in Effect
         /\ Step(op, t, task).op = op /\ Step(op, t, task).id = t /\ Step(op, t, task).task = task
BY DEF Step, Effect

\* The calls of one method for several tasks: one for each of them.
LEMMA CallsLemma ==
  ASSUME NEW op \in {"archive", "timeout"}, NEW ids \in SUBSET TaskIds, NEW calls \in Calls(op, ids)
  PROVE  /\ calls \in Seq(Effect)
         /\ \A i \in DOMAIN calls : calls[i].op = op /\ calls[i].id \in ids
         /\ \A i, k \in DOMAIN calls : i # k => calls[i].id # calls[k].id
         /\ \A u \in ids : \E i \in DOMAIN calls : calls[i].id = u
<1> DEFINE n == Cardinality(ids)
<1>1. n \in Nat
  BY TaskAssumption, FS_Subset, FS_CardinalityType
<1>2. PICK s \in SetToSeqs(ids) : calls = [i \in DOMAIN s |-> Step(op, s[i], NoTask)]
  BY DEF Calls
<1>3. s \in [1 .. n -> ids] /\ \A i, k \in 1 .. n : i # k => s[i] # s[k]
  BY <1>2 DEF SetToSeqs
<1>4. calls = [i \in 1 .. n |-> Step(op, s[i], NoTask)]
  BY <1>2, <1>3
<1>5. \A i \in 1 .. n : Step(op, s[i], NoTask) \in Effect
  <2> SUFFICES ASSUME NEW i \in 1 .. n PROVE Step(op, s[i], NoTask) \in Effect
    OBVIOUS
  <2>1. s[i] \in TaskIds
    BY <1>3
  <2> QED
    BY <2>1, StepType
<1>6. calls \in Seq(Effect)
  <2> HIDE DEF n
  <2> QED
    BY <1>1, <1>4, <1>5, IsASeq
<1>7. \A u \in ids : \E i \in 1 .. n : s[i] = u
  <2>1. IsFiniteSet(ids) /\ IsFiniteSet(1 .. n) /\ Cardinality(1 .. n) = n
    <3>1. IsFiniteSet(ids)
      BY TaskAssumption, FS_Subset
    <3> HIDE DEF n
    <3>2. IsFiniteSet(1 .. n) /\ Cardinality(1 .. n) = n
      BY <1>1, FS_Interval
    <3> QED
      BY <3>1, <3>2
  <2>2. s \in Injection(1 .. n, ids)
    BY <1>3 DEF Injection, IsInjective
  <2>3. s \in Surjection(1 .. n, ids)
    <3>1. Cardinality(1 .. n) = Cardinality(ids)
      BY <2>1
    <3> HIDE DEF n
    <3> QED
      BY <2>1, <2>2, <3>1, FS_Injection
  <2> QED
    BY <2>3 DEF Surjection
<1> QED
  BY <1>3, <1>4, <1>6, <1>7 DEF Step

\* A sequence made of the elements at some positions of a sequence: it is no
\* longer than that sequence and holds nothing else.
LEMMA RestrictionsLemma ==
  ASSUME NEW S, NEW s \in Seq(S), NEW keep \in SUBSET DOMAIN s,
         NEW r \in Restrictions(s, keep)
  PROVE  /\ r \in Seq(S)
         /\ Len(r) <= Len(s)
         /\ Range(r) \subseteq Range(s)
<1> DEFINE n == Cardinality(keep)
<1>1. /\ Len(s) \in Nat /\ DOMAIN s = 1 .. Len(s)
      /\ \A i \in 1 .. Len(s) : s[i] \in S
  BY LenProperties, ElementOfSeq
<1>2. n \in Nat /\ n <= Len(s)
  <2>1. IsFiniteSet(1 .. Len(s)) /\ Cardinality(1 .. Len(s)) = Len(s)
    BY <1>1, FS_Interval
  <2> QED
    BY <1>1, <2>1, FS_Subset, FS_CardinalityType
<1>3. PICK f \in [1 .. n -> keep] : r = [i \in 1 .. n |-> s[f[i]]]
  BY DEF Restrictions
<1>4. \A i \in 1 .. n : f[i] \in DOMAIN s /\ s[f[i]] \in S
  BY <1>1, <1>3
<1>5. r \in Seq(S)
  <2> HIDE DEF n
  <2> QED
    BY <1>2, <1>3, <1>4, IsASeq
<1>6. Len(r) = n
  <2>1. DOMAIN r = 1 .. n /\ DOMAIN r = 1 .. Len(r) /\ Len(r) \in Nat
    BY <1>3, <1>5, LenProperties
  <2> HIDE DEF n
  <2> QED
    BY <1>2, <2>1
<1>7. Range(r) \subseteq Range(s)
  BY <1>3, <1>4 DEF Range
<1> QED
  BY <1>2, <1>5, <1>6, <1>7

\* A deque of bounded length keeps the end of what is appended to it, and never
\* loses all of it.
LEMMA LatestLemma ==
  ASSUME NEW S, NEW s \in Seq(S)
  PROVE  /\ Latest(s) \in Seq(S)
         /\ Len(Latest(s)) <= MaximumHistory
         /\ Range(Latest(s)) \subseteq Range(s)
         /\ s # << >> => Latest(s) # << >>
<1> DEFINE m == Len(s) - MaximumHistory + 1
<1>1. MaximumHistory \in Nat \ {0} /\ Len(s) \in Nat
  BY TaskAssumption, LenProperties
<1>2. CASE Len(s) <= MaximumHistory
  BY <1>1, <1>2 DEF Latest
<1>3. CASE Len(s) > MaximumHistory
  <2>1. Latest(s) = SubSeq(s, m, Len(s))
    BY <1>1, <1>3 DEF Latest
  <2>2. \A i \in m .. Len(s) : i \in DOMAIN s /\ s[i] \in S
    BY <1>1, <1>3, LenProperties, ElementOfSeq
  <2>3. /\ Latest(s) \in Seq(S)
        /\ Len(Latest(s)) = MaximumHistory
        /\ \A i \in 1 .. MaximumHistory : Latest(s)[i] = s[m + i - 1]
    BY <1>1, <1>3, <2>1, <2>2, SubSeqProperties
  <2>4. \A i \in 1 .. MaximumHistory : m + i - 1 \in DOMAIN s
    BY <1>1, <1>3, LenProperties
  <2>5. DOMAIN Latest(s) = 1 .. MaximumHistory
    BY <2>3, LenProperties
  <2>6. Range(Latest(s)) \subseteq Range(s)
    BY <2>3, <2>4, <2>5 DEF Range
  <2>7. Latest(s) # << >>
    BY <1>1, <2>3, EmptySeq
  <2> QED
    BY <1>1, <2>3, <2>6, <2>7
<1> QED
  BY <1>1, <1>2, <1>3

\* The history after an entry was added: the entry may be the only one left.
LEMMA HistoryLemma ==
  ASSUME completedTasks \in Seq(HistoryEntry), Len(completedTasks) <= MaximumHistory,
         NEW t \in TaskIds, NEW task \in Task
  PROVE  /\ HistoryWith(t, task) \in Seq(HistoryEntry)
         /\ Len(HistoryWith(t, task)) <= MaximumHistory
         /\ HistoryWith(t, task) # << >>
         /\ \A e \in Range(HistoryWith(t, task)) :
              e \in Range(completedTasks) \/ (e.id = t /\ e.task = task)
<1> DEFINE entry == [id |-> t, task |-> task]
<1>1. entry \in HistoryEntry /\ entry.id = t /\ entry.task = task
  BY DEF HistoryEntry
<1>2. CASE entry \in Range(completedTasks)
  <2>1. HistoryWith(t, task) = completedTasks
    BY <1>2 DEF HistoryWith
  <2>2. completedTasks # << >>
    BY <1>2 DEF Range
  <2> QED
    BY <2>1, <2>2
<1>3. CASE entry \notin Range(completedTasks)
  <2>1. HistoryWith(t, task) = Latest(Append(completedTasks, entry))
    BY <1>3 DEF HistoryWith
  <2> HIDE DEF entry
  <2>2. Append(completedTasks, entry) \in Seq(HistoryEntry) /\ Append(completedTasks, entry) # << >>
    BY <1>1, AppendProperties
  <2>3. Range(Append(completedTasks, entry)) = Range(completedTasks) \cup {entry}
    <3>1. Append(completedTasks, entry) = completedTasks \o <<entry>>
      BY <1>1, AppendIsConcat
    <3>2. <<entry>> \in Seq(HistoryEntry) /\ Range(<<entry>>) = {entry}
      BY <1>1 DEF Range
    <3>3. Range(completedTasks \o <<entry>>) = Range(completedTasks) \cup Range(<<entry>>)
      BY <3>2, RangeConcatenation
    <3> QED
      BY <3>1, <3>2, <3>3
  <2>4. /\ Latest(Append(completedTasks, entry)) \in Seq(HistoryEntry)
        /\ Len(Latest(Append(completedTasks, entry))) <= MaximumHistory
        /\ Range(Latest(Append(completedTasks, entry))) \subseteq Range(Append(completedTasks, entry))
        /\ Latest(Append(completedTasks, entry)) # << >>
    BY <2>2, LatestLemma
  <2> QED
    BY <1>1, <2>1, <2>3, <2>4
<1> QED
  BY <1>2, <1>3

-----------------------------------------------------------------------------
(* What is left of a method                                                  *)

\* rest is left of the method when its next step is taken, and that step is no write;
\* it has nothing to do with t.
LeftWithout(t, rest) ==
  /\ rest \in Seq(Effect)
  /\ \A u \in TaskIds : ~Writing(u)
  /\ \A i \in DOMAIN rest :
       /\ i \in Nat \ {0} /\ i + 1 \in DOMAIN todo /\ rest[i] = todo[i + 1]
       /\ Len(todo) = Len(rest) + 1
       /\ rest[i].op \notin {"write", "announce", "expire"}
       /\ rest[i].id # t \/ (rest[i].op = "delete" /\ t \in overtaken)

LEMMA NothingLeft ==
  ASSUME LockFree, NEW t
  PROVE  LeftWithout(t, << >>)
BY EmptySeq DEF LeftWithout, LockFree, Writing

\* The steps after the next one.
LEMMA TailIsLeft ==
  ASSUME TaskInv, todo # << >>
  PROVE  /\ 1 \in DOMAIN todo
         /\ Head(todo) = todo[1] /\ todo[1] \in Effect
         /\ Tail(todo) \in Seq(Effect)
         /\ Len(todo) = Len(Tail(todo)) + 1
         /\ \A i \in DOMAIN Tail(todo) :
              /\ i \in Nat \ {0} /\ i + 1 \in DOMAIN todo
              /\ Tail(todo)[i] = todo[i + 1]
              /\ Tail(todo)[i].op # "write"
              /\ Tail(todo)[i].op = "announce" =>
                   /\ i = 1 /\ Head(todo).op = "write"
                   /\ Head(todo).id = Tail(todo)[i].id /\ Head(todo).task = Tail(todo)[i].task
<1>1. todo \in Seq(Effect)
  BY DEF TaskInv, TaskTypeOK
<1>2. /\ 1 \in DOMAIN todo
      /\ Head(todo) = todo[1] /\ todo[1] \in Effect
      /\ Tail(todo) \in Seq(Effect)
      /\ Len(Tail(todo)) = Len(todo) - 1
      /\ \A i \in DOMAIN Tail(todo) : /\ i \in Nat \ {0} /\ i + 1 \in DOMAIN todo
                                      /\ Tail(todo)[i] = todo[i + 1]
  BY <1>1, TailLemma
<1>3. Len(todo) \in Nat
  BY <1>1, LenProperties
<1>4. Len(todo) = Len(Tail(todo)) + 1
  BY <1>2, <1>3
<1>5. ASSUME NEW i \in DOMAIN Tail(todo)
      PROVE  /\ todo[i + 1].op # "write"
             /\ todo[i + 1].op = "announce" =>
                  /\ i = 1 /\ todo[1].op = "write"
                  /\ todo[1].id = todo[i + 1].id /\ todo[1].task = todo[i + 1].task
  BY <1>2, <1>5 DEF TaskInv, StepsInOrder
<1> QED
  BY <1>2, <1>4, <1>5

\* A task that is archived or timed out next is not mentioned again, and neither is one
\* that is created next.
LEMMA CallIsAlone ==
  ASSUME TaskInv, todo # << >>,
         Head(todo).op \in {"timeout", "create"}
  PROVE  LeftWithout(Head(todo).id, Tail(todo))
<1> DEFINE t == Head(todo).id
<1>1. \A u \in TaskIds : ~Writing(u)
  BY DEF Writing
<1>2. Ready(todo[1]) /\ Head(todo) = todo[1] /\ 1 \in DOMAIN todo
  BY TailIsLeft DEF TaskInv, StepsAreReady
<1>3. ASSUME NEW i \in DOMAIN Tail(todo)
      PROVE  /\ i \in Nat \ {0} /\ i + 1 \in DOMAIN todo /\ Tail(todo)[i] = todo[i + 1]
             /\ Len(todo) = Len(Tail(todo)) + 1
             /\ Tail(todo)[i].op \notin {"write", "announce", "expire"}
  <2>1. /\ i \in Nat \ {0} /\ i + 1 \in DOMAIN todo /\ Tail(todo)[i] = todo[i + 1]
        /\ Len(todo) = Len(Tail(todo)) + 1
        /\ Tail(todo)[i].op \notin {"write", "announce"}
    BY TailIsLeft
  <2>2. 1 # i + 1
    BY <2>1
  <2>3. todo[i + 1].op # "expire"
    BY <1>2, <2>1, <2>2 DEF TaskInv, StepsInOrder
  <2> QED
    BY <2>1, <2>3
<1>4. ASSUME NEW i \in DOMAIN Tail(todo)
      PROVE  Tail(todo)[i].id # t \/ (Tail(todo)[i].op = "delete" /\ t \in overtaken)
  <2>1. i + 1 \in DOMAIN todo /\ i + 1 # 1 /\ Tail(todo)[i] = todo[i + 1]
    BY TailIsLeft
  <2>2. Ready(todo[i + 1]) /\ todo[i + 1] \in Effect
    BY <2>1, ElementOfSeq, LenProperties DEF TaskInv, StepsAreReady, TaskTypeOK
  <2>3. todo[i + 1].op \in {"delete", "archive", "timeout", "create"}
    BY <1>3, <1>4, <2>1, <2>2 DEF Effect
  <2>4. CASE Head(todo).op = "create"
    <3>1. Len(todo) = 1
      BY <1>2, <2>4 DEF TaskInv, StepsInOrder
    <3>2. DOMAIN todo = 1 .. Len(todo)
      BY LenProperties DEF TaskInv, TaskTypeOK
    <3> QED
      BY <2>1, <3>1, <3>2
  <2>5. CASE Head(todo).op = "timeout"
    <3>1. t \in TaskIds /\ IsLive(t) /\ t \in createdIds
      BY <1>2, <2>5 DEF Ready, TaskInv, OnlyCreatedKnown, IsLive
    <3>2. CASE todo[i + 1].op = "timeout"
      BY <1>2, <2>1, <2>5, <3>2 DEF TaskInv, CallsAreDistinct
    <3>3. CASE todo[i + 1].op # "timeout"
      BY <2>1, <2>2, <2>3, <3>1, <3>3 DEF Ready, ReadyToDelete, IsLive
    <3> QED
      BY <3>2, <3>3
  <2> QED
    BY <2>4, <2>5
<1> QED
  BY <1>1, <1>3, <1>4, TailIsLeft DEF LeftWithout

-----------------------------------------------------------------------------
(* A change of a record, which is made in memory and then written            *)

\* The listeners are left alone, or are told that t was archived.
SameOrArchived(t) ==
  /\ UNCHANGED <<listeners, heard>>
  /\ \/ UNCHANGED delivery
     \/ delivery' = [event |-> {[id |-> t, status |-> "ARCHIVED"]}, rest |-> listeners]

LEMMA ArchivedKeepsNews ==
  ASSUME TaskInv, NEW t \in TaskIds, SameOrArchived(t), UNCHANGED <<stored, lost, overtaken>>
  PROVE  EventsTypeOK' /\ ToldIsFinal'
<1> DEFINE event == [id |-> t, status |-> "ARCHIVED"]
<1>1. EventsTypeOK /\ UNCHANGED <<listeners, heard>>
  BY DEF TaskInv, TaskTypeOK, SameOrArchived
<1>2. \A e : TrueNews(e) => TrueNews(e)'
  BY DEF TrueNews, EndedWith
<1>3. CASE UNCHANGED delivery
  BY <1>1, <1>2, <1>3 DEF TaskInv, EventsTypeOK, ToldIsFinal
<1>4. CASE delivery' = [event |-> {event}, rest |-> listeners]
  <2>1. event \in Events
    BY TaskAssumption
  <2>2. TrueNews(event)'
    BY DEF TrueNews, Finals
  <2> HIDE DEF event
  <2>3. EventsTypeOK'
    BY <1>1, <1>4, <2>1 DEF EventsTypeOK
  <2>4. ToldIsFinal'
    BY <1>1, <1>2, <1>4, <2>2 DEF TaskInv, ToldIsFinal
  <2> QED
    BY <2>3, <2>4
<1> QED
  BY <1>3, <1>4 DEF SameOrArchived

LEMMA ArchiveEvents ==
  ASSUME NEW t, NEW task, ArchiveTask(t, task)
  PROVE  SameOrArchived(t)
BY DEF ArchiveTask, Dispatch, eventVars, SameOrArchived

\* What a change of t to task is, whichever method makes it: the record changes in
\* memory or moves to the history, and the write comes first of what is left to do.
ChangeAhead(t, task, front, rest) ==
  /\ \/ front = <<Step("write", t, task)>>
     \/ front = <<Step("write", t, task), Step("announce", t, task)>> /\ IsFinished(task)
  /\ todo' = front \o rest
  /\ activeTasks' \in [TaskIds -> Task \cup {NoTask}]
  /\ \A u \in TaskIds \ {t} : activeTasks'[u] = activeTasks[u]
  /\ \/ activeTasks'[t] = task /\ completedTasks' = completedTasks
     \/ activeTasks'[t] = NoTask /\ IsFinished(task) /\ completedTasks' = HistoryWith(t, task)
  /\ createdIds' = createdIds \cup {t}
  /\ UNCHANGED <<stored, loaded, clock, cleans, lost, overtaken>>
  /\ SameOrArchived(t)

\* The history does not hold t.
Unfinished(t) == \A e \in Range(completedTasks) : e.id # t

\* The steps that are left to be done after the change.
LEMMA ChangeAheadSteps ==
  ASSUME TaskInv, NEW t \in TaskIds, NEW task \in Task, NEW front, NEW rest,
         LeftWithout(t, rest), ChangeAhead(t, task, front, rest)
  PROVE  /\ todo' \in Seq(Effect)
         /\ 1 \in DOMAIN todo' /\ Head(todo') = todo'[1] /\ todo' # << >>
         /\ \A i \in DOMAIN todo' :
              \/ i = 1 /\ todo'[i] = Step("write", t, task)
              \/ i = 2 /\ todo'[i] = Step("announce", t, task) /\ IsFinished(task)
              \/ \E k \in DOMAIN rest : i = k + Len(front) /\ todo'[i] = rest[k]
         /\ \A k \in DOMAIN rest : k + Len(front) = Len(todo') <=> k + 1 = Len(todo)
         /\ Len(front) \in Nat \ {0}
         /\ todo'[1] = Step("write", t, task)
<1>1. /\ front \in Seq(Effect) /\ Len(front) \in {1, 2} /\ DOMAIN front = 1 .. Len(front)
      /\ front[1] = Step("write", t, task)
      /\ Len(front) = 2 => front[2] = Step("announce", t, task) /\ IsFinished(task)
  <2>1. Step("write", t, task) \in Effect /\ Step("announce", t, task) \in Effect
    BY StepType
  <2>2. CASE front = <<Step("write", t, task)>>
    BY <2>1, <2>2
  <2>3. CASE front = <<Step("write", t, task), Step("announce", t, task)>> /\ IsFinished(task)
    BY <2>1, <2>3
  <2> QED
    BY <2>2, <2>3 DEF ChangeAhead
<1>2. rest \in Seq(Effect) /\ Len(rest) \in Nat /\ DOMAIN rest = 1 .. Len(rest)
  BY LenProperties DEF LeftWithout
<1>3. /\ todo' \in Seq(Effect) /\ Len(todo') = Len(front) + Len(rest)
      /\ \A i \in DOMAIN todo' :
           \/ i \in DOMAIN front /\ i <= Len(front) /\ todo'[i] = front[i]
           \/ i > Len(front) /\ i - Len(front) \in DOMAIN rest /\ todo'[i] = rest[i - Len(front)]
  <2>1. todo' = front \o rest
    BY DEF ChangeAhead
  <2>2. /\ front \o rest \in Seq(Effect)
        /\ Len(front \o rest) = Len(front) + Len(rest)
        /\ \A i \in DOMAIN (front \o rest) :
             \/ i \in DOMAIN front /\ i <= Len(front) /\ (front \o rest)[i] = front[i]
             \/ /\ i > Len(front) /\ i - Len(front) \in DOMAIN rest
                /\ (front \o rest)[i] = rest[i - Len(front)]
    BY <1>1, <1>2, FrontLemma
  <2> QED
    BY <2>1, <2>2
<1>4. DOMAIN todo' = 1 .. Len(todo')
  BY <1>3, LenProperties
<1>5. 1 \in DOMAIN todo' /\ todo'[1] = Step("write", t, task)
  <2>1. 1 \in DOMAIN todo' /\ ~(1 > Len(front))
    BY <1>1, <1>2, <1>3, <1>4
  <2> QED
    BY <1>1, <1>3, <2>1
<1>6. Head(todo') = todo'[1] /\ todo' # << >>
  <2>1. todo' # << >>
    BY <1>5
  <2> QED
    BY <2>1, <1>3, TailLemma
<1>7. ASSUME NEW i \in DOMAIN todo'
      PROVE  \/ i = 1 /\ todo'[i] = Step("write", t, task)
             \/ i = 2 /\ todo'[i] = Step("announce", t, task) /\ IsFinished(task)
             \/ \E k \in DOMAIN rest : i = k + Len(front) /\ todo'[i] = rest[k]
  <2>1. CASE i \in DOMAIN front /\ todo'[i] = front[i]
    <3>1. i = 1 \/ (i = 2 /\ Len(front) = 2)
      BY <1>1, <2>1
    <3> QED
      BY <1>1, <2>1, <3>1
  <2>2. CASE i > Len(front) /\ i - Len(front) \in DOMAIN rest /\ todo'[i] = rest[i - Len(front)]
    <3>1. i = (i - Len(front)) + Len(front)
      BY <1>1, <1>4
    <3> QED
      BY <2>2, <3>1
  <2> QED
    BY <1>3, <2>1, <2>2
<1>8. ASSUME NEW k \in DOMAIN rest
      PROVE  k + Len(front) = Len(todo') <=> k + 1 = Len(todo)
  <2>1. Len(todo) = Len(rest) + 1
    BY DEF LeftWithout
  <2>2. k \in Nat /\ Len(front) \in Nat /\ Len(rest) \in Nat
    BY <1>1, <1>2
  <2>3. Len(todo') = Len(front) + Len(rest)
    BY <1>3
  <2> QED
    BY <2>1, <2>2, <2>3
<1> QED
  BY <1>1, <1>3, <1>5, <1>6, <1>7, <1>8

\* A change that is made in memory and then written keeps the invariant.
LEMMA ChangeAheadKeepsInv ==
  ASSUME TaskInv, NEW t \in TaskIds, NEW task \in Task, NEW front, NEW rest,
         t \notin overtaken => Open(t) /\ Unfinished(t),
         Trusted(t) => MayBecome(t, task.status),
         LeftWithout(t, rest), ChangeAhead(t, task, front, rest)
  PROVE  TaskInv'
<1>1. /\ todo' \in Seq(Effect)
      /\ 1 \in DOMAIN todo' /\ Head(todo') = todo'[1] /\ todo' # << >>
      /\ \A i \in DOMAIN todo' :
           \/ i = 1 /\ todo'[i] = Step("write", t, task)
           \/ i = 2 /\ todo'[i] = Step("announce", t, task) /\ IsFinished(task)
           \/ \E k \in DOMAIN rest : i = k + Len(front) /\ todo'[i] = rest[k]
      /\ \A k \in DOMAIN rest : k + Len(front) = Len(todo') <=> k + 1 = Len(todo)
      /\ Len(front) \in Nat \ {0}
      /\ todo'[1] = Step("write", t, task)
  BY ChangeAheadSteps
<1>2. /\ Step("write", t, task).op = "write" /\ Step("write", t, task).id = t
      /\ Step("write", t, task).task = task
      /\ Step("announce", t, task).op = "announce" /\ Step("announce", t, task).id = t
      /\ Step("announce", t, task).task = task
  BY DEF Step
<1>3. Writing(t)' /\ Head(todo').task = task /\ \A u : Writing(u)' => u = t
  BY <1>1, <1>2 DEF Writing
<1>4. \A u \in TaskIds : ~Writing(u)
  BY DEF LeftWithout
<1>5. UNCHANGED <<stored, loaded, clock, cleans, lost, overtaken>> /\ SameOrArchived(t)
  BY DEF ChangeAhead
<1>6. \A k \in DOMAIN rest : /\ k + 1 \in DOMAIN todo /\ rest[k] = todo[k + 1] /\ k \in Nat \ {0}
                             /\ rest[k].op \notin {"write", "announce", "expire"}
                             /\ rest[k].id # t \/ (rest[k].op = "delete" /\ t \in overtaken)
  BY DEF LeftWithout
<1>7. TaskTypeOK'
  <2>1. completedTasks' \in Seq(HistoryEntry) /\ Len(completedTasks') <= MaximumHistory
    <3>1. completedTasks \in Seq(HistoryEntry) /\ Len(completedTasks) <= MaximumHistory
      BY DEF TaskInv, TaskTypeOK
    <3> QED
      BY <3>1, HistoryLemma DEF ChangeAhead
  <2>2. activeTasks' \in [TaskIds -> Task \cup {NoTask}]
    BY DEF ChangeAhead
  <2>3. createdIds' \subseteq TaskIds
    BY DEF ChangeAhead, TaskInv, TaskTypeOK
  <2>4. EventsTypeOK'
    BY <1>5, ArchivedKeepsNews
  <2> QED
    BY <1>1, <1>5, <2>1, <2>2, <2>3, <2>4 DEF TaskInv, TaskTypeOK
<1>8. StepsAreReady'
  <2> SUFFICES ASSUME NEW i \in DOMAIN todo' PROVE Ready(todo[i])'
    BY DEF StepsAreReady
  <2>1. CASE todo'[i] = Step("write", t, task)
    BY <1>2, <1>5, <2>1 DEF Ready, ReadyToWrite, MayBecome, Open, Trusted, WasLost, ChangeAhead
  <2>2. CASE todo'[i] = Step("announce", t, task) /\ IsFinished(task)
    BY <1>2, <1>3, <2>2 DEF Ready, ReadyToAnnounce
  <2>3. ASSUME NEW k \in DOMAIN rest, todo'[i] = rest[k] PROVE Ready(todo[i])'
    <3> DEFINE e == rest[k]
    <3>1. /\ Ready(e) /\ e.op \notin {"write", "announce", "expire"}
          /\ e.id # t \/ (e.op = "delete" /\ t \in overtaken)
      BY <1>6 DEF TaskInv, StepsAreReady
    <3>2. e.op = "delete" => ReadyToDelete(e)'
      <4> SUFFICES ASSUME e.op = "delete" PROVE ReadyToDelete(e)'
        OBVIOUS
      <4>1. ReadyToDelete(e) /\ e.id \in TaskIds
        BY <3>1 DEF Ready, ReadyToDelete, TaskInv, TaskTypeOK
      <4>2. e.id \in createdIds'
        BY <4>1 DEF ReadyToDelete, ChangeAhead
      <4>3. (e.id \notin overtaken => ~IsActive(e.id))'
        BY <1>5, <3>1, <4>1 DEF ReadyToDelete, ChangeAhead, IsActive
      <4>4. (Trusted(e.id) => \E s \in Finals : EndedWith(e.id, s))'
        BY <1>5, <4>1 DEF ReadyToDelete, Trusted, WasLost, EndedWith
      <4> QED
        BY <4>2, <4>3, <4>4 DEF ReadyToDelete
    <3>3. e.op = "archive" => (e.id \in ActiveIds /\ ~IsLive(e.id))'
      BY <3>1 DEF Ready, ChangeAhead, IsActive, IsLive, ActiveIds
    <3>4. e.op = "timeout" => (e.id \in TaskIds /\ IsLive(e.id))'
      BY <3>1 DEF Ready, ChangeAhead, IsActive, IsLive
    <3>5. e.op = "create" => (e.id \in TaskIds \ createdIds)'
      BY <3>1 DEF Ready, ChangeAhead
    <3> QED
      BY <2>3, <3>1, <3>2, <3>3, <3>4, <3>5 DEF Ready
  <2> QED
    BY <1>1, <2>1, <2>2, <2>3
<1>9. StepsInOrder'
  <2> SUFFICES ASSUME NEW i \in DOMAIN todo'
               PROVE  /\ todo'[i].op = "write" => i = 1
                      /\ todo'[i].op = "announce" =>
                           \/ i = 1
                           \/ i = 2 /\ todo'[1].op = "write" /\ todo'[1].id = todo'[i].id
                                    /\ todo'[1].task = todo'[i].task
                      /\ todo'[i].op = "create" => i = Len(todo')
                      /\ todo'[i].op # "expire"
    BY DEF StepsInOrder
  <2>1. ASSUME NEW k \in DOMAIN rest, i = k + Len(front), todo'[i] = rest[k]
        PROVE  rest[k].op = "create" => i = Len(todo')
    BY <1>1, <1>6, <2>1 DEF TaskInv, StepsInOrder
  <2> QED
    BY <1>1, <1>2, <1>6, <2>1
<1>10. CallsAreDistinct'
  <2> SUFFICES ASSUME NEW i \in DOMAIN todo', NEW j \in DOMAIN todo', i # j,
                      todo'[i].op \in {"archive", "timeout"}
               PROVE  <<todo'[i].op, todo'[i].id>> # <<todo'[j].op, todo'[j].id>>
    BY DEF CallsAreDistinct
  <2>1. PICK k \in DOMAIN rest : i = k + Len(front) /\ todo'[i] = rest[k]
    BY <1>1, <1>2
  <2>2. CASE \E m \in DOMAIN rest : j = m + Len(front) /\ todo'[j] = rest[m]
    <3>1. PICK m \in DOMAIN rest : j = m + Len(front) /\ todo'[j] = rest[m]
      BY <2>2
    <3>2. k + 1 # m + 1
      BY <1>1, <1>6, <2>1, <3>1
    <3> QED
      BY <1>6, <2>1, <3>1, <3>2 DEF TaskInv, CallsAreDistinct
  <2>3. CASE todo'[j].op \in {"write", "announce"}
    BY <2>3
  <2> QED
    BY <1>1, <1>2, <2>2, <2>3
<1>11. EndedAreArchived'
  <2>1. \A i \in DOMAIN todo' : todo'[i].op # "expire"
    BY <1>1, <1>2, <1>6
  <2> QED
    BY <2>1 DEF EndedAreArchived
<1>12. ActiveIsStored'
  BY <1>3, <1>4, <1>5 DEF TaskInv, ActiveIsStored, StoredOrLost, Open, WasLost, ActiveIds, IsActive,
                          IsFinished, ChangeAhead
<1>13. HistoryIsStored'
  <2>1. \A e \in Range(completedTasks') : e \in Range(completedTasks) \/ (e.id = t /\ e.task = task /\ IsFinished(task) /\ activeTasks'[t] = NoTask)
    BY HistoryLemma DEF ChangeAhead, TaskInv, TaskTypeOK
  <2>2. \A e \in Range(completedTasks) : e.id \in TaskIds /\ (t \notin overtaken => e.id # t)
    <3>1. Range(completedTasks) \in SUBSET HistoryEntry
      BY RangeOfSeq DEF TaskInv, TaskTypeOK
    <3> QED
      BY <3>1 DEF HistoryEntry, Unfinished
  <2> SUFFICES ASSUME NEW e \in Range(completedTasks')
               PROVE  (/\ e.id \in createdIds
                       /\ IsFinished(e.task)
                       /\ e.id \notin overtaken =>
                            /\ ~IsLive(e.id)
                            /\ IF Writing(e.id) THEN Head(todo).task = e.task
                                                ELSE stored[e.id] = Erased \/ StoredOrLost(e.id, e.task))'
    BY DEF HistoryIsStored
  <2>3. CASE e \in Range(completedTasks)
    <3>1. /\ e.id \in createdIds /\ IsFinished(e.task) /\ e.id \in TaskIds
          /\ t \notin overtaken => e.id # t
          /\ e.id \notin overtaken => ~IsLive(e.id) /\ (stored[e.id] = Erased \/ StoredOrLost(e.id, e.task))
      BY <1>4, <2>2, <2>3 DEF TaskInv, HistoryIsStored
    <3>2. e.id \notin overtaken => activeTasks'[e.id] = activeTasks[e.id] /\ ~Writing(e.id)'
      BY <1>3, <3>1 DEF ChangeAhead
    <3> QED
      BY <1>5, <3>1, <3>2 DEF IsLive, IsActive, IsFinished, StoredOrLost, Open, WasLost, ChangeAhead
  <2>4. CASE e.id = t /\ e.task = task /\ IsFinished(task) /\ activeTasks'[t] = NoTask
    BY <1>3, <2>4 DEF IsFinished, IsLive, IsActive, ChangeAhead
  <2> QED
    BY <2>1, <2>3, <2>4
<1>14. OnlyCreatedKnown'
  BY <1>5 DEF TaskInv, OnlyCreatedKnown, IsActive, ChangeAhead
<1>15. ToldIsFinal'
  BY <1>5, ArchivedKeepsNews
<1> QED
  BY <1>7, <1>8, <1>9, <1>10, <1>11, <1>12, <1>13, <1>14, <1>15 DEF TaskInv

\* An active task was created, is stored as it is in memory unless its write comes next
\* or failed, and while it has not ended it is known nowhere else.
LEMMA ActiveLemma ==
  ASSUME TaskInv, NEW t \in TaskIds, IsActive(t), ~Writing(t)
  PROVE  /\ activeTasks[t] \in Task
         /\ t \in createdIds
         /\ t \notin overtaken => StoredOrLost(t, activeTasks[t])
         /\ t \notin overtaken /\ IsLive(t) => Open(t) /\ Unfinished(t)
         /\ Trusted(t) => stored[t] = activeTasks[t]
<1>1. activeTasks[t] \in Task
  BY DEF TaskInv, TaskTypeOK, IsActive
<1>2. t \notin overtaken => StoredOrLost(t, activeTasks[t])
  BY DEF TaskInv, ActiveIsStored, ActiveIds
<1>3. t \in createdIds
  BY DEF TaskInv, OnlyCreatedKnown
<1>4. t \notin overtaken /\ IsLive(t) => Open(t) /\ Unfinished(t)
  <2>1. t \notin overtaken /\ IsLive(t) => Unfinished(t)
    BY DEF Unfinished, TaskInv, HistoryIsStored
  <2>2. t \notin overtaken /\ IsLive(t) => Open(t)
    BY <1>1, <1>2 DEF StoredOrLost, Open, IsLive
  <2> QED
    BY <2>1, <2>2
<1>5. Trusted(t) => stored[t] = activeTasks[t]
  BY <1>1, <1>2 DEF Trusted, StoredOrLost, Task
<1> QED
  BY <1>1, <1>2, <1>3, <1>4, <1>5

LEMMA ChangeStatusKeepsInv ==
  ASSUME TaskInv, LockFree, NEW t \in TaskIds, IsActive(t),
         NEW s \in TaskStatuses \ Finals,
         activeTasks[t].status = s \/ <<activeTasks[t].status, s>> \in TaskArrows,
         ChangeStatus(t, s)
  PROVE  TaskInv'
<1> DEFINE task  == [activeTasks[t] EXCEPT !.status = s]
           front == <<Step("write", t, task)>>
<1>1. ~Writing(t)
  BY DEF LockFree, Writing
<1>2. /\ activeTasks[t] \in Task /\ t \in createdIds
      /\ t \notin overtaken => Open(t) /\ Unfinished(t)
      /\ Trusted(t) => stored[t] = activeTasks[t]
  <2>1. activeTasks[t] \in Task
    BY <1>1, ActiveLemma
  <2>2. IsLive(t)
    BY <2>1 DEF IsLive, IsFinished, TaskArrows, TaskStatuses, Finals
  <2> QED
    BY <1>1, <2>2, ActiveLemma
<1>3. task \in Task /\ task.status = s
  BY <1>2 DEF Task
<1>4. Trusted(t) => MayBecome(t, task.status)
  BY <1>2, <1>3 DEF MayBecome, TaskStatuses
<1>5. LeftWithout(t, << >>)
  BY NothingLeft
<1>6. ChangeAhead(t, task, front, << >>)
  <2>1. front = front \o << >>
    <3>1. Step("write", t, task) \in Effect
      BY <1>3, StepType
    <3> QED
      BY <3>1, ConcatEmptySeq
  <2>2. todo' = front /\ activeTasks' = [activeTasks EXCEPT ![t] = task]
    BY DEF ChangeStatus
  <2>3. activeTasks' \in [TaskIds -> Task \cup {NoTask}] /\ activeTasks'[t] = task
    BY <1>3, <2>2 DEF TaskInv, TaskTypeOK
  <2>4. \A u \in TaskIds \ {t} : activeTasks'[u] = activeTasks[u]
    BY <2>2 DEF TaskInv, TaskTypeOK
  <2>5. UNCHANGED <<completedTasks, stored, loaded, clock, cleans, lost, overtaken>> /\ SameOrArchived(t)
    BY DEF ChangeStatus, history, eventVars, SameOrArchived
  <2>6. createdIds' = createdIds \cup {t}
    BY <1>2 DEF ChangeStatus, history
  <2> HIDE DEF task
  <2> QED
    BY <2>1, <2>2, <2>3, <2>4, <2>5, <2>6 DEF ChangeAhead
<1> HIDE DEF task, front
<1> QED
  BY <1>2, <1>3, <1>4, <1>5, <1>6, ChangeAheadKeepsInv

LEMMA EndInMemoryKeepsInv ==
  ASSUME TaskInv, NEW t \in TaskIds, IsLive(t), NEW status \in Finals,
         NEW rest, LeftWithout(t, rest), EndInMemory(t, status, rest)
  PROVE  TaskInv'
<1> DEFINE task == [activeTasks[t] EXCEPT !.status = status, !.ended = clock]
<1>1. IsActive(t) /\ ~Writing(t)
  BY DEF IsLive, LeftWithout
<1>2. /\ activeTasks[t] \in Task /\ t \in createdIds
      /\ t \notin overtaken => Open(t) /\ Unfinished(t)
      /\ Trusted(t) => stored[t] = activeTasks[t]
  BY <1>1, ActiveLemma
<1>3. task \in Task /\ task.status = status /\ IsFinished(task)
  <2>1. clock \in Moments
    BY DEF TaskInv, TaskTypeOK
  <2> QED
    BY <1>2, <2>1 DEF Task, TaskStatuses, IsFinished
<1>4. Trusted(t) => MayBecome(t, task.status)
  <2>1. <<activeTasks[t].status, status>> \in TaskArrows
    BY <1>2 DEF TaskArrows, IsLive, IsFinished, Task, TaskStatuses
  <2>2. status # "GONE"
    BY DEF Finals
  <2> QED
    BY <1>2, <1>3, <2>1, <2>2 DEF MayBecome
<1>5. ChangeAhead(t, task, Ending(t, task), rest)
  <2>1. todo' = Ending(t, task) \o rest
    BY DEF EndInMemory
  <2>2. Ending(t, task) = <<Step("write", t, task), Step("announce", t, task)>>
    BY DEF Ending
  <2>3. /\ activeTasks' \in [TaskIds -> Task \cup {NoTask}]
        /\ \A u \in TaskIds \ {t} : activeTasks'[u] = activeTasks[u]
        /\ \/ activeTasks'[t] = task /\ completedTasks' = completedTasks
           \/ activeTasks'[t] = NoTask /\ completedTasks' = HistoryWith(t, task)
        /\ SameOrArchived(t)
    <3>1. CASE cleans
      <4>1. ArchiveTask(t, task)
        BY <3>1 DEF EndInMemory
      <4>2. activeTasks' = [activeTasks EXCEPT ![t] = NoTask] /\ completedTasks' = HistoryWith(t, task)
        BY <4>1 DEF ArchiveTask
      <4>3. SameOrArchived(t)
        BY <4>1, ArchiveEvents
      <4> QED
        BY <4>2, <4>3 DEF TaskInv, TaskTypeOK
    <3>2. CASE ~cleans
      <4>1. activeTasks' = [activeTasks EXCEPT ![t] = task] /\ completedTasks' = completedTasks /\ SameOrArchived(t)
        BY <3>2 DEF EndInMemory, eventVars, SameOrArchived
      <4> QED
        BY <1>3, <4>1 DEF TaskInv, TaskTypeOK
    <3> QED
      BY <3>1, <3>2
  <2>4. UNCHANGED <<stored, loaded, clock, cleans, lost, overtaken>> /\ createdIds' = createdIds \cup {t}
    BY <1>2 DEF EndInMemory, history
  <2> HIDE DEF task
  <2> QED
    BY <1>3, <2>1, <2>2, <2>3, <2>4 DEF ChangeAhead
<1> HIDE DEF task
<1> QED
  BY <1>2, <1>3, <1>4, <1>5, ChangeAheadKeepsInv

LEMMA CreateNowKeepsInv ==
  ASSUME TaskInv, NEW t \in TaskIds \ createdIds, NEW rest, LeftWithout(t, rest), CreateNow(t, rest)
  PROVE  TaskInv'
<1> DEFINE task  == [status |-> "PENDING", created |-> clock, ended |-> clock]
           front == <<Step("write", t, task)>>
<1>1. task \in Task /\ task.status = "PENDING"
  BY DEF TaskInv, TaskTypeOK, Task, TaskStatuses
<1>2. ~IsActive(t) /\ stored[t] = NoTask
  BY DEF TaskInv, OnlyCreatedKnown
<1>3. Open(t) /\ MayBecome(t, task.status)
  BY <1>1, <1>2 DEF Open, MayBecome
<1>5. Unfinished(t)
  BY DEF TaskInv, HistoryIsStored, Unfinished
<1>6. ChangeAhead(t, task, front, rest)
  <2>1. /\ activeTasks' = [activeTasks EXCEPT ![t] = task]
        /\ todo' = front \o rest
        /\ createdIds' = createdIds \cup {t}
        /\ UNCHANGED <<completedTasks, stored, loaded, clock, cleans, lost, overtaken>>
        /\ SameOrArchived(t)
    BY DEF CreateNow, eventVars, SameOrArchived
  <2>2. /\ activeTasks' \in [TaskIds -> Task \cup {NoTask}] /\ activeTasks'[t] = task
        /\ \A u \in TaskIds \ {t} : activeTasks'[u] = activeTasks[u]
    BY <1>1, <2>1 DEF TaskInv, TaskTypeOK
  <2> HIDE DEF task
  <2> QED
    BY <2>1, <2>2 DEF ChangeAhead
<1> HIDE DEF task, front
<1> QED
  BY <1>1, <1>3, <1>5, <1>6, ChangeAheadKeepsInv

-----------------------------------------------------------------------------
(* Steps that leave the records alone                                        *)

\* The conjuncts of the invariant that do not mention what is left to be done, but for
\* the write that comes next, hold when neither the records nor that write change.
LEMMA RecordsUnchanged ==
  ASSUME TaskInv, UNCHANGED <<activeTasks, completedTasks, stored, loaded, history>>,
         \A u \in TaskIds : /\ Writing(u)' <=> Writing(u)
                            /\ Writing(u) => Head(todo') = Head(todo)
  PROVE  /\ ActiveIsStored'
         /\ HistoryIsStored'
         /\ OnlyCreatedKnown'
<1> USE DEF history, StoredOrLost, Open, WasLost, IsActive, IsLive, IsFinished
<1>1. ActiveIsStored'
  BY DEF TaskInv, ActiveIsStored, ActiveIds
<1>2. HistoryIsStored'
  <2>1. Range(completedTasks) \in SUBSET HistoryEntry
    BY RangeOfSeq DEF TaskInv, TaskTypeOK
  <2>2. \A e \in Range(completedTasks) : e.id \in TaskIds
    BY <2>1 DEF HistoryEntry
  <2> QED
    BY <2>2 DEF TaskInv, HistoryIsStored
<1>3. OnlyCreatedKnown'
  BY DEF TaskInv, OnlyCreatedKnown
<1> QED
  BY <1>1, <1>2, <1>3

\* What a step relies on depends on the records and on the write that comes next.
LEMMA ReadyUnchanged ==
  ASSUME UNCHANGED <<activeTasks, stored, history>>, NEW e, Ready(e),
         e.op = "announce" /\ Writing(e.id) => Writing(e.id)'
  PROVE  Ready(e)'
BY DEF Ready, ReadyToWrite, ReadyToAnnounce, ReadyToDelete, MayBecome, EndedWith, Open, Trusted,
       WasLost, IsActive, IsLive, IsFinished, ActiveIds, history

\* A method that got the lock and writes nothing itself calls others.
LEMMA NewStepsKeepInv ==
  ASSUME TaskInv, LockFree, NEW new \in Seq(Effect), todo' = new,
         UNCHANGED <<memory, stored, loaded, clock, cleans, history, eventVars>>,
         \A i \in DOMAIN new : /\ Ready(new[i])
                               /\ new[i].op \notin {"write", "announce"}
                               /\ new[i].op = "create" => i = Len(new)
                               /\ new[i].op = "expire" =>
                                    /\ i = Len(new)
                                    /\ \A k \in DOMAIN new : k # i => new[k].op = "archive"
                                    /\ \A t \in ActiveIds : IsLive(t) \/ \E k \in DOMAIN new : new[k].op = "archive" /\ new[k].id = t,
         \A i, k \in DOMAIN new : i # k /\ new[i].op \in {"archive", "timeout"} =>
                                    <<new[i].op, new[i].id>> # <<new[k].op, new[k].id>>
  PROVE  TaskInv'
<1>1. UNCHANGED <<activeTasks, completedTasks, stored, loaded, clock, createdIds, cleans, lost, overtaken,
                  listeners, delivery, heard>>
  BY DEF memory, eventVars, history
<1>2. \A u \in TaskIds : ~Writing(u) /\ ~Writing(u)'
  <2>1. todo' # << >> => Head(todo').op # "write"
    BY TailLemma
  <2> QED
    BY <2>1 DEF Writing, LockFree
<1>3. TaskTypeOK'
  BY <1>1 DEF TaskInv, TaskTypeOK, EventsTypeOK
<1>4. StepsAreReady'
  <2> SUFFICES ASSUME NEW i \in DOMAIN new PROVE Ready(new[i])'
    BY DEF StepsAreReady
  <2> QED
    BY <1>1, <1>2, ReadyUnchanged
<1>5. StepsInOrder'
  BY DEF StepsInOrder
<1>6. CallsAreDistinct'
  BY DEF CallsAreDistinct
<1>7. EndedAreArchived'
  BY <1>1 DEF EndedAreArchived, ActiveIds, IsActive, IsLive, IsFinished
<1>8. ToldIsFinal'
  BY <1>1 DEF TaskInv, ToldIsFinal, TrueNews, EndedWith
<1> QED
  BY <1>1, <1>2, <1>3, <1>4, <1>5, <1>6, <1>7, <1>8, RecordsUnchanged DEF TaskInv

\* Calls for several tasks, and perhaps one more call after them.
LEMMA NewCallsKeepInv ==
  ASSUME TaskInv, LockFree,
         NEW op \in {"archive", "timeout"}, NEW ids \in SUBSET TaskIds, NEW calls \in Calls(op, ids),
         op = "archive" => ids = {u \in ActiveIds : ~IsLive(u)},
         op = "timeout" => \A u \in ids : IsLive(u),
         UNCHANGED <<memory, stored, loaded, clock, cleans, history, eventVars>>,
         \/ todo' = calls
         \/ op = "archive" /\ todo' = Append(calls, Step("expire", NoTask, NoTask))
         \/ \E t \in TaskIds \ createdIds : todo' = Append(calls, Step("create", t, NoTask))
  PROVE  TaskInv'
<1>1. /\ calls \in Seq(Effect)
      /\ \A i \in DOMAIN calls : calls[i].op = op /\ calls[i].id \in ids
      /\ \A i, k \in DOMAIN calls : i # k => calls[i].id # calls[k].id
      /\ \A u \in ids : \E i \in DOMAIN calls : calls[i].id = u
  BY CallsLemma
<1>2. \A i \in DOMAIN calls : Ready(calls[i])
  BY <1>1 DEF Ready
<1>3. CASE todo' = calls
  BY <1>1, <1>2, <1>3, NewStepsKeepInv
<1>4. ASSUME NEW last \in Effect, last.op \in {"expire", "create"}, Ready(last),
             last.op = "expire" => op = "archive",
             todo' = Append(calls, last)
      PROVE  TaskInv'
  <2> DEFINE new == Append(calls, last)
  <2>1. /\ new \in Seq(Effect) /\ Len(new) = Len(calls) + 1
        /\ \A i \in 1 .. Len(calls) : new[i] = calls[i]
        /\ new[Len(calls) + 1] = last
    BY <1>1, AppendProperties
  <2>2. /\ Len(calls) \in Nat /\ DOMAIN calls = 1 .. Len(calls)
        /\ DOMAIN new = 1 .. Len(calls) + 1
    BY <1>1, <2>1, LenProperties
  <2> HIDE DEF new
  <2>3. \A i \in DOMAIN new : \/ i \in DOMAIN calls /\ new[i] = calls[i]
                              \/ i = Len(new) /\ new[i] = last
    BY <2>1, <2>2
  <2>4. \A i \in DOMAIN new : /\ Ready(new[i])
                              /\ new[i].op \notin {"write", "announce"}
                              /\ new[i].op = "create" => i = Len(new)
    BY <1>1, <1>2, <1>4, <2>3
  <2>7. ASSUME NEW i \in DOMAIN new, new[i].op = "expire"
        PROVE  /\ i = Len(new)
               /\ \A k \in DOMAIN new : k # i => new[k].op = "archive"
               /\ \A t \in ActiveIds : IsLive(t) \/ \E k \in DOMAIN new : new[k].op = "archive" /\ new[k].id = t
    <3>1. i = Len(new) /\ new[i] = last /\ op = "archive"
      BY <1>1, <1>4, <2>3, <2>7
    <3>2. \A k \in DOMAIN new : k # i => new[k].op = "archive"
      BY <1>1, <2>3, <3>1
    <3>3. ASSUME NEW t \in ActiveIds, ~IsLive(t)
          PROVE  \E k \in DOMAIN new : new[k].op = "archive" /\ new[k].id = t
      <4>1. PICK k \in DOMAIN calls : calls[k].id = t
        BY <1>1, <3>1, <3>3
      <4> QED
        BY <1>1, <2>1, <2>2, <3>1, <4>1
    <3> QED
      BY <3>1, <3>2, <3>3
  <2>5. ASSUME NEW i \in DOMAIN new, NEW k \in DOMAIN new, i # k,
               new[i].op \in {"archive", "timeout"}
        PROVE  <<new[i].op, new[i].id>> # <<new[k].op, new[k].id>>
    BY <1>1, <1>4, <2>3, <2>5
  <2>6. todo' = new
    BY <1>4 DEF new
  <2> QED
    BY <2>1, <2>4, <2>5, <2>6, <2>7, NewStepsKeepInv
<1>5. CASE op = "archive" /\ todo' = Append(calls, Step("expire", NoTask, NoTask))
  <2>1. Step("expire", NoTask, NoTask) \in Effect /\ Step("expire", NoTask, NoTask).op = "expire"
    BY StepType
  <2>2. Ready(Step("expire", NoTask, NoTask))
    BY <2>1 DEF Ready
  <2> QED
    BY <1>4, <1>5, <2>1, <2>2
<1>6. ASSUME NEW t \in TaskIds \ createdIds, todo' = Append(calls, Step("create", t, NoTask))
      PROVE  TaskInv'
  <2>1. /\ Step("create", t, NoTask) \in Effect /\ Step("create", t, NoTask).op = "create"
        /\ Step("create", t, NoTask).id = t
    BY StepType
  <2>2. Ready(Step("create", t, NoTask))
    BY <2>1 DEF Ready
  <2> QED
    BY <1>4, <1>6, <2>1, <2>2
<1> QED
  BY <1>3, <1>5, <1>6

\* The methods that call others for several tasks.
LEMMA CallersKeepInv ==
  ASSUME TaskInv, CheckTimeouts \/ CleanupTasks \/ CleanupExpiredTasks
  PROVE  TaskInv'
<1> DEFINE ended == {u \in ActiveIds : ~IsLive(u)}
<1>1. ended \in SUBSET TaskIds
  BY DEF ActiveIds
<1>2. CASE CheckTimeouts
  <2>1. PICK timeout \in [TaskIds -> Timeouts] : \E calls \in Calls("timeout", Overdue(timeout)) : todo' = calls
    BY <1>2 DEF CheckTimeouts
  <2>2. PICK calls \in Calls("timeout", Overdue(timeout)) : todo' = calls
    BY <2>1
  <2>3. Overdue(timeout) \in SUBSET TaskIds /\ \A u \in Overdue(timeout) : IsLive(u)
    BY DEF Overdue
  <2> QED
    BY <1>1, <1>2, <2>2, <2>3, NewCallsKeepInv DEF CheckTimeouts
<1>3. CASE CleanupTasks
  <2>1. PICK calls \in Calls("archive", ended) : todo' = calls
    BY <1>3 DEF CleanupTasks
  <2> QED
    BY <1>1, <1>3, <2>1, NewCallsKeepInv DEF CleanupTasks
<1>4. CASE CleanupExpiredTasks
  <2>1. PICK calls \in Calls("archive", ended) : todo' = Append(calls, Step("expire", NoTask, NoTask))
    BY <1>4 DEF CleanupExpiredTasks
  <2> QED
    BY <1>1, <1>4, <2>1, NewCallsKeepInv DEF CleanupExpiredTasks
<1> QED
  BY <1>2, <1>3, <1>4

LEMMA CreateTaskKeepsInv ==
  ASSUME TaskInv, NEW t \in TaskIds, CreateTask(t)
  PROVE  TaskInv'
<1>1. LockFree /\ t \in TaskIds \ createdIds
  BY DEF CreateTask
<1>2. CASE CreateNow(t, << >>)
  BY <1>1, <1>2, NothingLeft, CreateNowKeepsInv
<1>3. CASE ~HasRoomFor
  <2>1. PICK calls \in Calls("archive", {u \in ActiveIds : ~IsLive(u)}) :
          todo' = Append(calls, Step("create", t, NoTask))
    BY <1>3 DEF CreateTask
  <2>2. {u \in ActiveIds : ~IsLive(u)} \in SUBSET TaskIds
    BY DEF ActiveIds
  <2>3. UNCHANGED <<memory, stored, loaded, clock, cleans, history, eventVars>>
    BY <1>3 DEF CreateTask
  <2> QED
    BY <1>1, <2>1, <2>2, <2>3, NewCallsKeepInv
<1> QED
  BY <1>2, <1>3 DEF CreateTask

\* The methods that change one record.
LEMMA MethodsKeepInv ==
  ASSUME TaskInv, NEW t \in TaskIds,
         \/ QueueTask(t) \/ StartTask(t) \/ PauseTask(t) \/ ResumeTask(t) \/ UpdateProgress(t)
         \/ \E status \in Endings : EndTask(t, status)
  PROVE  TaskInv'
<1> USE DEF TaskArrows, TaskStatuses, Finals
<1>1. CASE QueueTask(t)
  BY <1>1, ChangeStatusKeepsInv DEF QueueTask
<1>2. CASE StartTask(t)
  BY <1>2, ChangeStatusKeepsInv DEF StartTask
<1>3. CASE PauseTask(t)
  BY <1>3, ChangeStatusKeepsInv DEF PauseTask
<1>4. CASE ResumeTask(t)
  BY <1>4, ChangeStatusKeepsInv DEF ResumeTask
<1>5. CASE UpdateProgress(t)
  <2>1. LockFree /\ IsActive(t) /\ ChangeStatus(t, activeTasks[t].status)
    BY <1>5 DEF UpdateProgress, IsLive
  <2>2. activeTasks[t].status \in TaskStatuses \ Finals
    BY <1>5 DEF UpdateProgress, IsLive, IsActive, IsFinished, TaskInv, TaskTypeOK, Task
  <2> QED
    BY <2>1, <2>2, ChangeStatusKeepsInv
<1>6. ASSUME NEW status \in Endings, EndTask(t, status) PROVE TaskInv'
  <2>1. LockFree /\ IsLive(t) /\ EndInMemory(t, status, << >>)
    BY <1>6 DEF EndTask
  <2>2. status \in Finals /\ LeftWithout(t, << >>)
    BY <2>1, TaskAssumption, NothingLeft
  <2> QED
    BY <2>1, <2>2, EndInMemoryKeepsInv
<1> QED
  BY <1>1, <1>2, <1>3, <1>4, <1>5, <1>6

\* Nothing is left to be done before and after, and the records change in memory only.
LEMMA MemoryChangeKeepsInv ==
  ASSUME TaskInv, LockFree, UNCHANGED <<todo, stored, clock, cleans, createdIds, lost, eventVars>>,
         overtaken \subseteq overtaken', overtaken' \subseteq TaskIds,
         activeTasks' \in [TaskIds -> Task \cup {NoTask}],
         completedTasks' \in Seq(HistoryEntry), Len(completedTasks') <= MaximumHistory,
         loaded' \in [TaskIds -> Task \cup {NoTask}],
         \A u \in TaskIds : activeTasks'[u] # NoTask =>
           u \in createdIds /\ (u \notin overtaken' => StoredOrLost(u, activeTasks'[u])),
         \A e \in Range(completedTasks') :
           /\ e.id \in createdIds /\ IsFinished(e.task)
           /\ e.id \notin overtaken' =>
                /\ activeTasks'[e.id] = NoTask \/ IsFinished(activeTasks'[e.id])
                /\ stored[e.id] = Erased \/ StoredOrLost(e.id, e.task),
         \A u \in TaskIds : loaded'[u] # NoTask => u \in createdIds
  PROVE  TaskInv'
<1>1. todo = << >> /\ todo' = << >> /\ UNCHANGED <<listeners, delivery, heard>>
  BY DEF LockFree, eventVars
<1>2. \A u : ~Writing(u)'
  BY <1>1 DEF Writing
<1>3. TaskTypeOK'
  BY <1>1 DEF TaskInv, TaskTypeOK, EventsTypeOK
<1>4. StepsAreReady' /\ StepsInOrder' /\ CallsAreDistinct' /\ EndedAreArchived'
  <2>1. DOMAIN todo' = {}
    BY <1>1
  <2> QED
    BY <2>1 DEF StepsAreReady, StepsInOrder, CallsAreDistinct, EndedAreArchived
<1>5. ActiveIsStored'
  BY <1>2 DEF ActiveIsStored, ActiveIds, IsActive, StoredOrLost, Open, WasLost, IsFinished
<1>6. HistoryIsStored'
  BY <1>2 DEF HistoryIsStored, IsActive, IsLive, IsFinished, StoredOrLost, Open, WasLost
<1>7. OnlyCreatedKnown'
  BY DEF TaskInv, OnlyCreatedKnown, IsActive
<1>8. ToldIsFinal'
  BY <1>1 DEF TaskInv, ToldIsFinal, TrueNews, EndedWith
<1> QED
  BY <1>3, <1>4, <1>5, <1>6, <1>7, <1>8 DEF TaskInv

LEMMA ClearKeepsInv ==
  ASSUME TaskInv, ClearTasks
  PROVE  TaskInv'
<1>1. activeTasks' = NothingLoaded /\ completedTasks' = << >> /\ loaded' = loaded
  BY DEF ClearTasks
<1>2. activeTasks' \in [TaskIds -> Task \cup {NoTask}] /\ \A u \in TaskIds : activeTasks'[u] = NoTask
  BY <1>1 DEF NothingLoaded
<1>3. completedTasks' \in Seq(HistoryEntry) /\ Len(completedTasks') <= MaximumHistory
  BY <1>1, TaskAssumption, EmptySeq
<1>4. Range(completedTasks') = {}
  BY <1>1 DEF Range
<1>5. loaded' \in [TaskIds -> Task \cup {NoTask}]
  BY <1>1 DEF TaskInv, TaskTypeOK
<1>6. \A u \in TaskIds : loaded'[u] # NoTask => u \in createdIds
  BY <1>1 DEF TaskInv, OnlyCreatedKnown
<1>7. overtaken' = overtaken /\ overtaken \subseteq TaskIds
  BY DEF ClearTasks, history, TaskInv, TaskTypeOK
<1>8. LockFree /\ UNCHANGED <<todo, stored, clock, cleans, createdIds, lost, eventVars>>
  BY DEF ClearTasks, history
<1> QED
  BY <1>2, <1>3, <1>4, <1>5, <1>6, <1>7, <1>8, MemoryChangeKeepsInv

LEMMA LoadKeepsInv ==
  ASSUME TaskInv, LoadTasks
  PROVE  TaskInv'
<1>1. /\ loaded' = [t \in TaskIds |-> IF stored[t] \in Task THEN stored[t] ELSE NoTask]
      /\ UNCHANGED <<activeTasks, completedTasks, stored, todo, clock, cleans, createdIds, lost,
                     overtaken, listeners, delivery, heard>>
  BY DEF LoadTasks, memory, eventVars, history
<1>2. \A u : Writing(u)' <=> Writing(u)
  BY <1>1 DEF Writing
<1>3. TaskTypeOK'
  BY <1>1 DEF TaskInv, TaskTypeOK, EventsTypeOK
<1>4. StepsAreReady'
  <2>1. UNCHANGED <<activeTasks, stored, history>>
    BY <1>1 DEF history
  <2> QED
    BY <1>1, <1>2, <2>1, ReadyUnchanged DEF TaskInv, StepsAreReady
<1>5. StepsInOrder' /\ CallsAreDistinct' /\ EndedAreArchived'
  BY <1>1 DEF TaskInv, StepsInOrder, CallsAreDistinct, EndedAreArchived, ActiveIds, IsActive, IsLive, IsFinished
<1>6. ActiveIsStored'
  BY <1>1, <1>2 DEF TaskInv, ActiveIsStored, ActiveIds, IsActive, StoredOrLost, Open, WasLost, IsFinished
<1>7. HistoryIsStored'
  <2>1. Range(completedTasks) \in SUBSET HistoryEntry
    BY RangeOfSeq DEF TaskInv, TaskTypeOK
  <2>2. \A e \in Range(completedTasks) : e.id \in TaskIds
    BY <2>1 DEF HistoryEntry
  <2> QED
    BY <1>1, <1>2, <2>2 DEF TaskInv, HistoryIsStored, IsActive, IsLive, IsFinished, StoredOrLost, Open, WasLost
<1>8. OnlyCreatedKnown'
  BY <1>1, TaskAssumption DEF TaskInv, OnlyCreatedKnown, IsActive
<1>9. ToldIsFinal'
  BY <1>1 DEF TaskInv, ToldIsFinal, TrueNews, EndedWith
<1> QED
  BY <1>3, <1>4, <1>5, <1>6, <1>7, <1>8, <1>9 DEF TaskInv

LEMMA RestoreKeepsInv ==
  ASSUME TaskInv, RestoreTasks
  PROVE  TaskInv'
<1> DEFINE found == {e \in HistoryEntry \ Range(completedTasks) : loaded[e.id] = e.task /\ IsFinished(e.task)}
           n     == Cardinality(found)
<1>1. PICK entries \in SetToSeqs(found) : completedTasks' = Latest(completedTasks \o entries)
  BY DEF RestoreTasks
<1>2. n \in Nat
  <2> DEFINE ids == {t \in TaskIds : loaded[t] \in Task}
             all == {[id |-> t, task |-> loaded[t]] : t \in ids}
             entry == [t \in ids |-> [id |-> t, task |-> loaded[t]]]
  <2>1. IsFiniteSet(ids)
    BY TaskAssumption, FS_Subset
  <2>2. entry \in Surjection(ids, all)
    BY DEF Surjection
  <2>3. IsFiniteSet(all)
    <3> HIDE DEF ids, all, entry
    <3> QED
      BY <2>1, <2>2, FS_Surjection
  <2>4. found \subseteq all
    <3> SUFFICES ASSUME NEW e \in found PROVE e \in all
      OBVIOUS
    <3>1. e.id \in ids /\ e = [id |-> e.id, task |-> loaded[e.id]]
      BY DEF HistoryEntry
    <3> QED
      BY <3>1
  <2> HIDE DEF all, found
  <2> QED
    BY <2>3, <2>4, FS_Subset, FS_CardinalityType
<1>3. entries \in Seq(HistoryEntry) /\ Range(entries) \subseteq found
  <2>1. entries \in [1 .. n -> found]
    BY <1>1 DEF SetToSeqs
  <2>2. entries = [i \in 1 .. n |-> entries[i]] /\ \A i \in 1 .. n : entries[i] \in HistoryEntry
    BY <2>1
  <2>3. entries \in Seq(HistoryEntry)
    <3> HIDE DEF n, found
    <3> QED
      BY <1>2, <2>2, IsASeq
  <2>4. Range(entries) \subseteq found
    BY <2>1 DEF Range
  <2> QED
    BY <2>3, <2>4
<1>4. /\ completedTasks' \in Seq(HistoryEntry) /\ Len(completedTasks') <= MaximumHistory
      /\ Range(completedTasks') \subseteq Range(completedTasks) \cup found
  <2>1. completedTasks \in Seq(HistoryEntry)
    BY DEF TaskInv, TaskTypeOK
  <2>2. completedTasks \o entries \in Seq(HistoryEntry)
    BY <1>3, <2>1, ConcatProperties
  <2>3. Range(completedTasks \o entries) = Range(completedTasks) \cup Range(entries)
    BY <1>3, <2>1, RangeConcatenation
  <2> HIDE DEF found
  <2> QED
    BY <1>1, <1>3, <2>2, <2>3, LatestLemma
<1>5. /\ LockFree /\ UNCHANGED <<stored, todo, clock, cleans, createdIds, lost, eventVars>>
      /\ overtaken' = overtaken \cup StaleLoads /\ StaleLoads \subseteq TaskIds
  BY DEF RestoreTasks, StaleLoads
<1>6. \A u \in TaskIds : ~Writing(u)
  BY <1>5 DEF LockFree, Writing
<1>7. /\ activeTasks' \in [TaskIds -> Task \cup {NoTask}]
      /\ \A u \in TaskIds : activeTasks'[u] = IF loaded[u] # NoTask /\ ~IsFinished(loaded[u])
                                              THEN loaded[u] ELSE activeTasks[u]
  BY DEF RestoreTasks, TaskInv, TaskTypeOK
<1>8. ASSUME NEW u \in TaskIds, loaded[u] # NoTask, u \notin overtaken'
      PROVE  /\ stored[u] = loaded[u] /\ loaded[u] \in Task
             /\ activeTasks[u] \in {NoTask, loaded[u]}
             /\ \A e \in Range(completedTasks) : e.id = u => e.task = loaded[u]
  BY <1>5, <1>8 DEF StaleLoads, TaskInv, TaskTypeOK
<1>9. ASSUME NEW u \in TaskIds, activeTasks'[u] # NoTask
      PROVE  u \in createdIds /\ (u \notin overtaken' => StoredOrLost(u, activeTasks'[u]))
  <2>1. CASE loaded[u] # NoTask /\ ~IsFinished(loaded[u])
    <3>1. u \in createdIds
      BY <2>1 DEF TaskInv, OnlyCreatedKnown
    <3> QED
      BY <1>7, <1>8, <2>1, <3>1 DEF StoredOrLost
  <2>2. CASE ~(loaded[u] # NoTask /\ ~IsFinished(loaded[u]))
    <3>1. activeTasks'[u] = activeTasks[u] /\ IsActive(u) /\ ~Writing(u)
      BY <1>6, <1>7, <1>9, <2>2 DEF IsActive
    <3> QED
      BY <1>5, <3>1, ActiveLemma
  <2> QED
    BY <2>1, <2>2
<1>10. ASSUME NEW e \in Range(completedTasks')
      PROVE  /\ e.id \in createdIds /\ IsFinished(e.task)
             /\ e.id \notin overtaken' =>
                  /\ activeTasks'[e.id] = NoTask \/ IsFinished(activeTasks'[e.id])
                  /\ stored[e.id] = Erased \/ StoredOrLost(e.id, e.task)
  <2>1. e.id \in TaskIds /\ e.task \in Task
    <3>1. Range(completedTasks') \in SUBSET HistoryEntry
      BY <1>4, RangeOfSeq
    <3> QED
      BY <3>1 DEF HistoryEntry
  <2>2. CASE e \in Range(completedTasks)
    <3>1. /\ e.id \in createdIds /\ IsFinished(e.task)
          /\ e.id \notin overtaken => /\ ~IsLive(e.id)
                                      /\ stored[e.id] = Erased \/ StoredOrLost(e.id, e.task)
      BY <1>6, <2>1, <2>2 DEF TaskInv, HistoryIsStored
    <3>2. e.id \notin overtaken' /\ loaded[e.id] # NoTask => IsFinished(loaded[e.id])
      BY <1>8, <2>1, <2>2, <3>1
    <3> QED
      BY <1>5, <1>7, <2>1, <3>1, <3>2 DEF IsLive, IsActive
  <2>3. CASE e \in found
    <3>1. loaded[e.id] = e.task /\ IsFinished(e.task) /\ loaded[e.id] # NoTask
      BY <2>1, <2>3, TaskAssumption
    <3>2. e.id \in createdIds
      BY <2>1, <3>1 DEF TaskInv, OnlyCreatedKnown
    <3>3. e.id \notin overtaken' => /\ stored[e.id] = e.task
                                   /\ activeTasks'[e.id] \in {NoTask, e.task}
      BY <1>7, <1>8, <2>1, <3>1
    <3> QED
      BY <3>1, <3>2, <3>3 DEF StoredOrLost
  <2> QED
    BY <1>4, <2>2, <2>3
<1>11. loaded' = NothingLoaded
  BY DEF RestoreTasks
<1>12. /\ loaded' \in [TaskIds -> Task \cup {NoTask}]
       /\ \A u \in TaskIds : loaded'[u] # NoTask => u \in createdIds
  BY <1>11 DEF NothingLoaded
<1>13. overtaken \subseteq overtaken' /\ overtaken' \subseteq TaskIds
  BY <1>5 DEF TaskInv, TaskTypeOK
<1> HIDE DEF found, n
<1> QED
  BY <1>4, <1>5, <1>7, <1>9, <1>10, <1>12, <1>13, MemoryChangeKeepsInv

-----------------------------------------------------------------------------
(* The steps a method goes through                                           *)

\* When a step is taken the others keep their order.
LEMMA TailInOrder ==
  ASSUME TaskInv, todo # << >>, todo' = Tail(todo)
  PROVE  /\ StepsInOrder' /\ CallsAreDistinct' /\ todo' \in Seq(Effect)
         /\ (Head(todo).op # "archive" => \A i \in DOMAIN todo' : todo'[i].op # "expire")
<1>1. /\ Tail(todo) \in Seq(Effect)
      /\ Len(todo) = Len(Tail(todo)) + 1
      /\ \A i \in DOMAIN Tail(todo) :
           /\ i \in Nat \ {0} /\ i + 1 \in DOMAIN todo
           /\ Tail(todo)[i] = todo[i + 1]
           /\ Tail(todo)[i].op # "write"
           /\ Tail(todo)[i].op = "announce" => i = 1
      /\ Head(todo) = todo[1] /\ 1 \in DOMAIN todo
  BY TailIsLeft
<1>2. StepsInOrder'
  <2> SUFFICES ASSUME NEW i \in DOMAIN Tail(todo)
               PROVE  /\ Tail(todo)[i].op = "write" => i = 1
                      /\ Tail(todo)[i].op = "announce" => i = 1
                      /\ Tail(todo)[i].op = "create" => i = Len(Tail(todo))
                      /\ Tail(todo)[i].op = "expire" =>
                           /\ i = Len(Tail(todo))
                           /\ \A k \in DOMAIN Tail(todo) : k # i => Tail(todo)[k].op = "archive"
    BY DEF StepsInOrder
  <2>1. Tail(todo)[i].op \in {"create", "expire"} => i + 1 = Len(todo)
    BY <1>1 DEF TaskInv, StepsInOrder
  <2>2. Len(Tail(todo)) \in Nat
    BY <1>1, LenProperties
  <2>3. ASSUME Tail(todo)[i].op = "expire", NEW k \in DOMAIN Tail(todo), k # i
        PROVE  Tail(todo)[k].op = "archive"
    <3>1. todo[i + 1].op = "expire" /\ k + 1 # i + 1 /\ i + 1 \in DOMAIN todo /\ k + 1 \in DOMAIN todo
      BY <1>1, <2>3
    <3> QED
      BY <1>1, <3>1 DEF TaskInv, StepsInOrder
  <2> QED
    BY <1>1, <2>1, <2>2, <2>3
<1>3. CallsAreDistinct'
  <2> SUFFICES ASSUME NEW i \in DOMAIN Tail(todo), NEW k \in DOMAIN Tail(todo), i # k,
                      Tail(todo)[i].op \in {"archive", "timeout"}
               PROVE  <<Tail(todo)[i].op, Tail(todo)[i].id>> # <<Tail(todo)[k].op, Tail(todo)[k].id>>
    BY DEF CallsAreDistinct
  <2>1. i + 1 # k + 1
    BY <1>1
  <2> QED
    BY <1>1, <2>1 DEF TaskInv, CallsAreDistinct
<1>4. ASSUME Head(todo).op # "archive", NEW i \in DOMAIN Tail(todo)
      PROVE  Tail(todo)[i].op # "expire"
  <2>1. i + 1 \in DOMAIN todo /\ i + 1 # 1 /\ Tail(todo)[i] = todo[i + 1]
    BY <1>1
  <2> QED
    BY <1>1, <1>4, <2>1 DEF TaskInv, StepsInOrder
<1> QED
  BY <1>1, <1>2, <1>3, <1>4

\* Nothing is about to be written after a step was taken.
LEMMA TailWritesNothing ==
  ASSUME TaskInv, todo # << >>, todo' = Tail(todo)
  PROVE  \A u : ~Writing(u)'
<1>1. todo' # << >> => Head(todo').op # "write"
  BY TailIsLeft, TailLemma
<1> QED
  BY <1>1 DEF Writing

\* What one of the later steps relies on, before the next one is taken.
LEMMA LaterIsReady ==
  ASSUME TaskInv, todo # << >>, NEW i \in DOMAIN Tail(todo)
  PROVE  /\ Ready(Tail(todo)[i])
         /\ Tail(todo)[i].op # "write"
         /\ Tail(todo)[i].op = "announce" =>
              /\ Head(todo).op = "write"
              /\ Head(todo).id = Tail(todo)[i].id /\ Head(todo).task = Tail(todo)[i].task
BY TailIsLeft DEF TaskInv, StepsAreReady

LEMMA WriteKeepsInv ==
  ASSUME TaskInv, Write
  PROVE  TaskInv'
<1>0. PICK t, task : t = Head(todo).id /\ task = Head(todo).task
  OBVIOUS
<1> DEFINE Kept == /\ stored'[t] = task /\ lost' = lost
                   /\ \A u \in TaskIds \ {t} : stored'[u] = stored[u]
           Failed == stored' = stored /\ lost' = lost \cup {[id |-> t, status |-> task.status]}
<1>1. /\ todo # << >> /\ Head(todo).op = "write" /\ todo' = Tail(todo)
      /\ (stored' = [stored EXCEPT ![t] = task] /\ lost' = lost) \/ Failed
      /\ UNCHANGED <<activeTasks, completedTasks, loaded, clock, createdIds, overtaken, cleans,
                     listeners, delivery, heard>>
  BY <1>0 DEF Write, Next_is, NextStep, Stores, memory, eventVars
<1>2. /\ t \in createdIds /\ task \in Task /\ t \in TaskIds
      /\ t \notin overtaken => Open(t)
      /\ Trusted(t) => MayBecome(t, task.status)
  <2>1. Ready(Head(todo))
    BY <1>1, TailIsLeft DEF TaskInv, StepsAreReady
  <2> QED
    BY <1>0, <1>1, <2>1 DEF Ready, ReadyToWrite, TaskInv, TaskTypeOK
<1>3. Writing(t) /\ \A u : Writing(u) => u = t
  BY <1>0, <1>1 DEF Writing
<1>4. \A u : ~Writing(u)'
  BY <1>1, TailWritesNothing
<1>5. t \notin overtaken => \A s \in Finals : ~EndedWith(t, s)
  BY <1>2, TaskAssumption DEF EndedWith, Open, IsFinished
<1>6. Kept \/ Failed
  BY <1>1, <1>2 DEF TaskInv, TaskTypeOK
<1>7. /\ Failed => WasLost(t, task.status)' /\ ~Trusted(t)'
      /\ \A u, x : WasLost(u, x) => WasLost(u, x)'
      /\ \A u : Trusted(u)' => Trusted(u)
  <2>1. task.status \in TaskStatuses
    BY <1>2 DEF Task
  <2>2. lost \subseteq lost'
    BY <1>6
  <2>3. \A u, x : WasLost(u, x) => WasLost(u, x)'
    BY <2>2 DEF WasLost
  <2>4. Failed => WasLost(t, task.status)'
    BY DEF WasLost
  <2> QED
    BY <1>1, <2>1, <2>3, <2>4 DEF Trusted
<1>8. TaskTypeOK'
  <2>1. stored' \in [TaskIds -> Task \cup {NoTask, Erased}]
    BY <1>1, <1>2 DEF TaskInv, TaskTypeOK
  <2>2. lost' \subseteq [id : TaskIds, status : TaskStatuses]
    BY <1>1, <1>2 DEF TaskInv, TaskTypeOK, Task
  <2> QED
    BY <1>1, <2>1, <2>2, TailInOrder DEF TaskInv, TaskTypeOK, EventsTypeOK
<1>9. StepsAreReady'
  <2>1. ASSUME NEW i \in DOMAIN Tail(todo), NEW e, e = Tail(todo)[i]
        PROVE  Ready(e)'
    <3>1. /\ Ready(e) /\ e.op # "write"
          /\ e.op = "announce" => t = e.id /\ task = e.task
      BY <1>0, <1>1, <2>1, LaterIsReady
    <3>2. e.op = "announce" => ReadyToAnnounce(e)'
      <4>1. e.op = "announce" => e.id \in TaskIds /\ e.task \in Task /\ IsFinished(e.task)'
        BY <3>1 DEF Ready, ReadyToAnnounce, IsFinished
      <4>2. e.op = "announce" /\ Kept => EndedWith(e.id, e.task.status)'
        BY <1>2, <3>1 DEF EndedWith
      <4>3. e.op = "announce" /\ Failed => WasLost(e.id, e.task.status)'
        BY <1>7, <3>1
      <4> QED
        BY <1>6, <4>1, <4>2, <4>3 DEF ReadyToAnnounce
    <3>3. e.op = "delete" => ReadyToDelete(e)'
      <4> SUFFICES ASSUME e.op = "delete" PROVE ReadyToDelete(e)'
        OBVIOUS
      <4>1. ReadyToDelete(e) /\ e.id \in TaskIds
        BY <3>1 DEF Ready, ReadyToDelete, TaskInv, TaskTypeOK
      <4>2. (e.id \in createdIds)' /\ (e.id \notin overtaken => ~IsActive(e.id))'
        BY <1>1, <4>1 DEF ReadyToDelete, IsActive
      <4>3. (Trusted(e.id) => \E s \in Finals : EndedWith(e.id, s))'
        <5> SUFFICES ASSUME Trusted(e.id)' PROVE \E s \in Finals : EndedWith(e.id, s)'
          OBVIOUS
        <5>1. Trusted(e.id) /\ \E s \in Finals : EndedWith(e.id, s)
          BY <1>7, <4>1 DEF ReadyToDelete
        <5>2. e.id # t
          BY <1>5, <5>1 DEF Trusted
        <5>3. stored'[e.id] = stored[e.id]
          BY <1>6, <4>1, <5>2
        <5> QED
          BY <5>1, <5>3 DEF EndedWith
      <4> QED
        BY <4>2, <4>3 DEF ReadyToDelete
    <3>4. e.op = "archive" => (e.id \in ActiveIds /\ ~IsLive(e.id))'
      BY <1>1, <3>1 DEF Ready, IsActive, IsLive, IsFinished, ActiveIds
    <3>5. e.op = "timeout" => (e.id \in TaskIds /\ IsLive(e.id))'
      BY <1>1, <3>1 DEF Ready, IsActive, IsLive, IsFinished
    <3>6. e.op = "create" => (e.id \in TaskIds \ createdIds)'
      BY <1>1, <3>1 DEF Ready
    <3> QED
      BY <3>1, <3>2, <3>3, <3>4, <3>5, <3>6 DEF Ready
  <2> QED
    BY <1>1, <2>1 DEF StepsAreReady
<1>10. StepsInOrder' /\ CallsAreDistinct' /\ EndedAreArchived'
  BY <1>1, TailInOrder DEF EndedAreArchived
<1>11. ASSUME NEW u \in TaskIds, u # t, NEW x, StoredOrLost(u, x)
       PROVE  StoredOrLost(u, x)'
  <2>1. stored'[u] = stored[u]
    BY <1>6, <1>11
  <2> QED
    BY <1>7, <1>11, <2>1 DEF StoredOrLost, Open, IsFinished
<1>12. t \notin overtaken => StoredOrLost(t, task)'
  <2>1. Kept => StoredOrLost(t, task)'
    BY DEF StoredOrLost
  <2>2. Failed /\ t \notin overtaken => StoredOrLost(t, task)'
    BY <1>2, <1>7 DEF StoredOrLost, Open, IsFinished
  <2> QED
    BY <1>6, <2>1, <2>2
<1>13. ActiveIsStored'
  <2> SUFFICES ASSUME NEW u \in ActiveIds, u \notin overtaken
               PROVE  StoredOrLost(u, activeTasks[u])'
    BY <1>1, <1>4 DEF ActiveIsStored, ActiveIds, IsActive
  <2>1. CASE u = t
    BY <1>0, <1>1, <1>3, <1>12, <2>1 DEF TaskInv, ActiveIsStored
  <2>2. CASE u # t
    <3>1. StoredOrLost(u, activeTasks[u]) /\ u \in TaskIds
      BY <1>3, <2>2 DEF TaskInv, ActiveIsStored, ActiveIds
    <3> QED
      BY <1>1, <1>11, <2>2, <3>1
  <2> QED
    BY <2>1, <2>2
<1>14. \A e \in Range(completedTasks) : e.id \in TaskIds
  <2>1. Range(completedTasks) \in SUBSET HistoryEntry
    BY RangeOfSeq DEF TaskInv, TaskTypeOK
  <2> QED
    BY <2>1 DEF HistoryEntry
<1>15. HistoryIsStored'
  <2> SUFFICES ASSUME NEW e \in Range(completedTasks)
               PROVE  (/\ e.id \in createdIds
                       /\ IsFinished(e.task)
                       /\ e.id \notin overtaken =>
                            /\ ~IsLive(e.id)
                            /\ stored[e.id] = Erased \/ StoredOrLost(e.id, e.task))'
    BY <1>1, <1>4 DEF HistoryIsStored
  <2>1. /\ e.id \in createdIds /\ IsFinished(e.task)
        /\ e.id \notin overtaken => /\ ~IsLive(e.id)
                                    /\ Writing(e.id) => task = e.task
                                    /\ ~Writing(e.id) => stored[e.id] = Erased \/ StoredOrLost(e.id, e.task)
    BY <1>0 DEF TaskInv, HistoryIsStored
  <2>2. (/\ e.id \in createdIds /\ IsFinished(e.task) /\ (e.id \notin overtaken => ~IsLive(e.id)))'
    BY <1>1, <1>14, <2>1 DEF IsLive, IsActive, IsFinished
  <2>3. CASE e.id = t
    BY <1>1, <1>3, <1>12, <2>1, <2>2, <2>3
  <2>4. CASE e.id # t
    <3>1. stored'[e.id] = stored[e.id] /\ ~Writing(e.id)
      BY <1>3, <1>6, <1>14, <2>4
    <3> QED
      BY <1>1, <1>11, <1>14, <2>1, <2>2, <2>4, <3>1
  <2> QED
    BY <2>3, <2>4
<1>16. OnlyCreatedKnown'
  BY <1>1, <1>2, <1>6 DEF TaskInv, OnlyCreatedKnown, IsActive
<1>17. ToldIsFinal'
  <2>1. ASSUME NEW e \in Events, TrueNews(e) PROVE TrueNews(e)'
    <3> SUFFICES ASSUME e.status \in Finals, e \notin lost', e.id \notin overtaken
                 PROVE  EndedWith(e.id, e.status)'
      BY <1>1 DEF TrueNews
    <3>1. EndedWith(e.id, e.status) /\ e.id \in TaskIds
      BY <1>6, <2>1, TaskAssumption DEF TrueNews
    <3>2. e.id # t
      BY <1>5, <3>1
    <3> QED
      BY <1>6, <3>1, <3>2 DEF EndedWith
  <2>2. /\ \A l \in Listeners : heard[l] \subseteq Events
        /\ delivery.event \subseteq Events
    BY DEF TaskInv, TaskTypeOK, EventsTypeOK
  <2> QED
    BY <1>1, <2>1, <2>2 DEF TaskInv, ToldIsFinal
<1> QED
  BY <1>8, <1>9, <1>10, <1>13, <1>15, <1>16, <1>17 DEF TaskInv

\* A step that leaves the records alone.
LEMMA PopKeepsInv ==
  ASSUME TaskInv, todo # << >>, Head(todo).op \notin {"write", "archive"}, todo' = Tail(todo),
         UNCHANGED <<memory, stored, loaded, clock, cleans, history>>,
         EventsTypeOK', ToldIsFinal'
  PROVE  TaskInv'
<1>1. UNCHANGED <<activeTasks, completedTasks, stored, loaded, clock, createdIds, lost, overtaken, cleans>>
  BY DEF memory, history
<1>2. \A u : ~Writing(u) /\ ~Writing(u)'
  BY TailWritesNothing DEF Writing
<1>3. TaskTypeOK'
  BY <1>1, TailInOrder DEF TaskInv, TaskTypeOK
<1>4. StepsAreReady'
  <2>1. ASSUME NEW i \in DOMAIN Tail(todo), NEW e, e = Tail(todo)[i]
        PROVE  Ready(e)'
    <3>1. Ready(e) /\ e.op # "announce"
      BY <2>1, LaterIsReady
    <3> QED
      BY <1>1, <3>1, ReadyUnchanged
  <2> QED
    BY <2>1 DEF StepsAreReady
<1>5. StepsInOrder' /\ CallsAreDistinct' /\ EndedAreArchived'
  BY TailInOrder DEF EndedAreArchived
<1>6. ActiveIsStored' /\ HistoryIsStored' /\ OnlyCreatedKnown'
  BY <1>1, <1>2, RecordsUnchanged
<1> QED
  BY <1>3, <1>4, <1>5, <1>6 DEF TaskInv

LEMMA DeleteKeepsInv ==
  ASSUME TaskInv, DeleteRecord
  PROVE  TaskInv'
<1> DEFINE t == Head(todo).id
<1>1. /\ todo # << >> /\ Head(todo).op = "delete" /\ todo' = Tail(todo)
      /\ stored' = [stored EXCEPT ![t] = Erased] \/ UNCHANGED stored
      /\ UNCHANGED <<activeTasks, completedTasks, loaded, clock, createdIds, lost, overtaken, cleans,
                     listeners, delivery, heard>>
  BY DEF DeleteRecord, Next_is, NextStep, Stores, memory, eventVars, history
<1>2. t \in createdIds /\ t \in TaskIds /\ (t \notin overtaken => ~IsActive(t))
  <2>1. Ready(Head(todo))
    BY <1>1, TailIsLeft DEF TaskInv, StepsAreReady
  <2> QED
    BY <1>1, <2>1 DEF Ready, ReadyToDelete, TaskInv, TaskTypeOK
<1>3. \A u : ~Writing(u) /\ ~Writing(u)'
  BY <1>1, TailWritesNothing DEF Writing
<1>a. CASE UNCHANGED stored
  <2>1. UNCHANGED <<memory, stored, loaded, clock, cleans, history>>
    BY <1>1, <1>a DEF memory, history
  <2>2. EventsTypeOK' /\ ToldIsFinal'
    BY <1>1, <1>a DEF TaskInv, TaskTypeOK, EventsTypeOK, ToldIsFinal, TrueNews, EndedWith
  <2> QED
    BY <1>1, <2>1, <2>2, PopKeepsInv
<1>b. CASE stored' = [stored EXCEPT ![t] = Erased]
  <2> HIDE DEF t
  <2>1. stored'[t] = Erased /\ \A u \in TaskIds \ {t} : stored'[u] = stored[u]
    BY <1>2, <1>b DEF TaskInv, TaskTypeOK
  <2>2. \A u \in TaskIds : \A s : EndedWith(u, s) => EndedWith(u, s)'
    BY <2>1 DEF EndedWith
  <2>3. TaskTypeOK'
    BY <1>1, <1>2, <1>b, TailInOrder DEF TaskInv, TaskTypeOK, EventsTypeOK
  <2>4. StepsAreReady'
    <3>1. ASSUME NEW i \in DOMAIN Tail(todo), NEW e, e = Tail(todo)[i]
          PROVE  Ready(e)'
      <4>1. Ready(e) /\ e.op \notin {"write", "announce"}
        BY <1>1, <3>1, LaterIsReady
      <4>2. e.op = "delete" => ReadyToDelete(e)'
        <5> SUFFICES ASSUME e.op = "delete" PROVE ReadyToDelete(e)'
          OBVIOUS
        <5>1. ReadyToDelete(e) /\ e.id \in TaskIds
          BY <4>1 DEF Ready, ReadyToDelete, TaskInv, TaskTypeOK
        <5> QED
          BY <1>1, <2>2, <5>1 DEF ReadyToDelete, IsActive, Trusted, WasLost
      <4>3. e.op = "archive" => (e.id \in ActiveIds /\ ~IsLive(e.id))'
        BY <1>1, <4>1 DEF Ready, IsActive, IsLive, IsFinished, ActiveIds
      <4>4. e.op = "timeout" => (e.id \in TaskIds /\ IsLive(e.id))'
        BY <1>1, <4>1 DEF Ready, IsActive, IsLive, IsFinished
      <4>5. e.op = "create" => (e.id \in TaskIds \ createdIds)'
        BY <1>1, <4>1 DEF Ready
      <4> QED
        BY <4>1, <4>2, <4>3, <4>4, <4>5 DEF Ready
    <3> QED
      BY <1>1, <3>1 DEF StepsAreReady
  <2>5. StepsInOrder' /\ CallsAreDistinct' /\ EndedAreArchived'
    BY <1>1, TailInOrder DEF EndedAreArchived
  <2>6. ASSUME NEW u \in TaskIds, u # t, NEW x, StoredOrLost(u, x)
        PROVE  StoredOrLost(u, x)'
    BY <1>1, <2>1, <2>6 DEF StoredOrLost, Open, WasLost, IsFinished
  <2>7. ActiveIsStored'
    <3> SUFFICES ASSUME NEW u \in ActiveIds, u \notin overtaken
                 PROVE  StoredOrLost(u, activeTasks[u])'
      BY <1>1, <1>3 DEF ActiveIsStored, ActiveIds, IsActive
    <3>1. u # t /\ u \in TaskIds /\ StoredOrLost(u, activeTasks[u])
      BY <1>2, <1>3 DEF TaskInv, ActiveIsStored, ActiveIds
    <3> QED
      BY <1>1, <2>6, <3>1
  <2>8. HistoryIsStored'
    <3>1. Range(completedTasks) \in SUBSET HistoryEntry
      BY RangeOfSeq DEF TaskInv, TaskTypeOK
    <3>2. \A e \in Range(completedTasks) : e.id \in TaskIds
      BY <3>1 DEF HistoryEntry
    <3> SUFFICES ASSUME NEW e \in Range(completedTasks)
                 PROVE  (/\ e.id \in createdIds
                         /\ IsFinished(e.task)
                         /\ e.id \notin overtaken =>
                              /\ ~IsLive(e.id)
                              /\ stored[e.id] = Erased \/ StoredOrLost(e.id, e.task))'
      BY <1>1, <1>3 DEF HistoryIsStored
    <3>3. /\ e.id \in createdIds /\ IsFinished(e.task) /\ e.id \in TaskIds
          /\ e.id \notin overtaken => /\ ~IsLive(e.id)
                                      /\ stored[e.id] = Erased \/ StoredOrLost(e.id, e.task)
      BY <1>3, <3>2 DEF TaskInv, HistoryIsStored
    <3>4. (/\ e.id \in createdIds /\ IsFinished(e.task) /\ (e.id \notin overtaken => ~IsLive(e.id)))'
      BY <1>1, <3>3 DEF IsLive, IsActive, IsFinished
    <3> QED
      BY <1>1, <2>1, <2>6, <3>3, <3>4
  <2>9. OnlyCreatedKnown'
    BY <1>1, <1>2, <2>1 DEF TaskInv, OnlyCreatedKnown, IsActive
  <2>10. ToldIsFinal'
    <3>1. /\ \A l \in Listeners : \A e \in heard[l] : e.id \in TaskIds
          /\ \A e \in delivery.event : e.id \in TaskIds
      BY TaskAssumption DEF TaskInv, TaskTypeOK, EventsTypeOK
    <3>2. \A e : e.id \in TaskIds /\ TrueNews(e) => TrueNews(e)'
      BY <1>1, <2>2 DEF TrueNews
    <3> QED
      BY <1>1, <3>1, <3>2 DEF TaskInv, ToldIsFinal
  <2> QED
    BY <2>3, <2>4, <2>5, <2>7, <2>8, <2>9, <2>10 DEF TaskInv
<1> QED
  BY <1>1, <1>a, <1>b

LEMMA AnnounceKeepsInv ==
  ASSUME TaskInv, Announce
  PROVE  TaskInv'
<1>0. PICK t, s, event : t = Head(todo).id /\ s = Head(todo).task.status /\ event = [id |-> t, status |-> s]
  OBVIOUS
<1>1. /\ todo # << >> /\ Head(todo).op = "announce" /\ todo' = Tail(todo)
      /\ delivery' = [event |-> {event}, rest |-> listeners]
      /\ UNCHANGED <<memory, stored, loaded, clock, cleans, history, listeners, heard>>
  BY <1>0 DEF Announce, Next_is, NextStep, Dispatch
<1>2. t \in TaskIds /\ s \in Finals /\ (t \notin overtaken => EndedWith(t, s) \/ WasLost(t, s))
  <2>1. Ready(Head(todo))
    BY <1>1, TailIsLeft DEF TaskInv, StepsAreReady
  <2> QED
    BY <1>0, <1>1, <2>1 DEF Ready, ReadyToAnnounce, IsFinished, Writing
<1>3. EventsTypeOK'
  BY <1>0, <1>1, <1>2, TaskAssumption DEF TaskInv, TaskTypeOK, EventsTypeOK
<1>4. ToldIsFinal'
  <2>1. UNCHANGED <<stored, lost, overtaken>>
    BY <1>1 DEF history
  <2>2. \A e : TrueNews(e) => TrueNews(e)'
    BY <2>1 DEF TrueNews, EndedWith
  <2>3. TrueNews(event)
    BY <1>0, <1>2 DEF TrueNews, WasLost
  <2>4. TrueNews(event)'
    BY <2>2, <2>3
  <2> QED
    BY <1>1, <2>2, <2>4 DEF TaskInv, ToldIsFinal
<1> QED
  BY <1>1, <1>3, <1>4, PopKeepsInv

\* A step that changes the clock or what the listeners hear.
LEMMA EventsKeepInv ==
  ASSUME TaskInv, UNCHANGED <<memory, stored, todo, loaded, cleans, history>>,
         clock' \in Moments, EventsTypeOK', ToldIsFinal'
  PROVE  TaskInv'
<1>1. UNCHANGED <<activeTasks, completedTasks, stored, todo, loaded, createdIds, cleans, lost, overtaken>>
  BY DEF memory, history
<1>2. \A u : Writing(u)' <=> Writing(u)
  BY <1>1 DEF Writing
<1>3. TaskTypeOK'
  BY <1>1 DEF TaskInv, TaskTypeOK
<1>4. StepsAreReady'
  BY <1>1, <1>2, ReadyUnchanged DEF TaskInv, StepsAreReady
<1>5. StepsInOrder' /\ CallsAreDistinct'
  BY <1>1 DEF TaskInv, StepsInOrder, CallsAreDistinct
<1>6. EndedAreArchived'
  BY <1>1 DEF TaskInv, EndedAreArchived, ActiveIds, IsActive, IsLive, IsFinished
<1>7. ActiveIsStored' /\ HistoryIsStored' /\ OnlyCreatedKnown'
  BY <1>1, <1>2, RecordsUnchanged
<1> QED
  BY <1>3, <1>4, <1>5, <1>6, <1>7 DEF TaskInv

\* The news stay true while neither the store nor the two histories change.
LEMMA NewsUnchanged ==
  ASSUME UNCHANGED <<stored, lost, overtaken>>
  PROVE  \A e : TrueNews(e) => TrueNews(e)'
BY DEF TrueNews, EndedWith

LEMMA DeliveryKeepsInv ==
  ASSUME TaskInv,
         \/ EndDelivery
         \/ Deliver /\ UNCHANGED <<memory, stored, todo, loaded, clock, cleans, history>>
  PROVE  TaskInv'
<1>1. /\ UNCHANGED <<memory, stored, todo, loaded, clock, cleans, history>>
      /\ clock' \in Moments
  BY DEF EndDelivery, TaskInv, TaskTypeOK
<1>2. CASE EndDelivery
  <2>1. delivery' = NoDelivery /\ UNCHANGED <<listeners, heard, stored, lost, overtaken>>
    BY <1>2 DEF EndDelivery, history
  <2>2. EventsTypeOK'
    BY <2>1 DEF TaskInv, TaskTypeOK, EventsTypeOK, NoDelivery
  <2>3. ToldIsFinal'
    BY <2>1, NewsUnchanged DEF TaskInv, ToldIsFinal, NoDelivery
  <2> QED
    BY <1>1, <2>2, <2>3, EventsKeepInv
<1>3. CASE Deliver
  <2>1. /\ delivery.rest # << >> /\ delivery' = [delivery EXCEPT !.rest = Tail(@)]
        /\ heard' = [heard EXCEPT ![Head(delivery.rest)] = @ \cup delivery.event]
        /\ UNCHANGED <<listeners, stored, lost, overtaken>>
    BY <1>1, <1>3 DEF Deliver, history
  <2>2. /\ delivery.rest \in Seq(Listeners) /\ heard \in [Listeners -> SUBSET Events]
        /\ delivery.event \in {{}} \cup {{e} : e \in Events}
        /\ delivery' = [event |-> delivery.event, rest |-> Tail(delivery.rest)]
    BY <2>1 DEF TaskInv, TaskTypeOK, EventsTypeOK
  <2>3. Head(delivery.rest) \in Listeners /\ Tail(delivery.rest) \in Seq(Listeners)
    BY <2>1, <2>2, TailLemma
  <2>4. EventsTypeOK'
    <3>1. delivery.event \subseteq Events
      BY <2>2
    <3>2. heard' \in [Listeners -> SUBSET Events]
      BY <2>1, <2>2, <3>1
    <3> QED
      BY <2>1, <2>2, <2>3, <3>2 DEF TaskInv, TaskTypeOK, EventsTypeOK
  <2>5. ToldIsFinal'
    <3>1. \A l \in Listeners : heard'[l] \subseteq heard[l] \cup delivery.event
      BY <2>1, <2>2, <2>3
    <3>2. delivery'.event = delivery.event
      BY <2>2
    <3> QED
      BY <2>1, <3>1, <3>2, NewsUnchanged DEF TaskInv, ToldIsFinal
  <2> QED
    BY <1>1, <2>4, <2>5, EventsKeepInv
<1> QED
  BY <1>2, <1>3

LEMMA ListeningKeepsInv ==
  ASSUME TaskInv, Listening
  PROVE  TaskInv'
<1>1. /\ UNCHANGED <<memory, stored, todo, loaded, clock, cleans, history>>
      /\ clock' \in Moments /\ listeners \in Seq(Listeners)
  BY DEF Listening, TaskInv, TaskTypeOK, EventsTypeOK
<1>2. listeners' \in Seq(Listeners) /\ UNCHANGED <<delivery, heard>>
  <2>1. ASSUME NEW l \in Listeners, RegisterListener(l)
        PROVE  listeners' \in Seq(Listeners) /\ UNCHANGED <<delivery, heard>>
    BY <1>1, <2>1, AppendProperties DEF RegisterListener
  <2>2. ASSUME NEW l \in Listeners, RemoveListener(l)
        PROVE  listeners' \in Seq(Listeners) /\ UNCHANGED <<delivery, heard>>
    <3>1. PICK i \in DOMAIN listeners : listeners' = RemoveAt(listeners, i)
      BY <2>2 DEF RemoveListener
    <3>2. /\ Len(listeners) \in Nat /\ i \in 1 .. Len(listeners)
          /\ \A k \in 1 .. Len(listeners) : listeners[k] \in Listeners
      BY <1>1, LenProperties, ElementOfSeq
    <3>3. SubSeq(listeners, 1, i - 1) \in Seq(Listeners)
      <4>1. \A k \in 1 .. i - 1 : listeners[k] \in Listeners
        BY <3>2
      <4>2. 1 \in Int /\ i - 1 \in Int
        BY <3>2
      <4> QED
        BY <4>1, <4>2, SubSeqProperties
    <3>4. SubSeq(listeners, i + 1, Len(listeners)) \in Seq(Listeners)
      <4>1. \A k \in i + 1 .. Len(listeners) : listeners[k] \in Listeners
        BY <3>2
      <4>2. i + 1 \in Int /\ Len(listeners) \in Int
        BY <3>2
      <4> QED
        BY <4>1, <4>2, SubSeqProperties
    <3> QED
      BY <2>2, <3>1, <3>3, <3>4, ConcatProperties DEF RemoveAt, RemoveListener
  <2>3. CASE ClearListeners
    BY <2>3, EmptySeq DEF ClearListeners
  <2> QED
    BY <2>1, <2>2, <2>3 DEF Listening
<1>3. EventsTypeOK'
  BY <1>2 DEF TaskInv, TaskTypeOK, EventsTypeOK
<1>4. ToldIsFinal'
  BY <1>1, <1>2, NewsUnchanged DEF TaskInv, ToldIsFinal, history
<1> QED
  BY <1>1, <1>3, <1>4, EventsKeepInv

LEMMA PassingKeepsInv ==
  ASSUME TaskInv, Passing
  PROVE  TaskInv'
<1>1. /\ clock' = clock + 1 /\ clock < LastMoment
      /\ UNCHANGED <<memory, stored, todo, loaded, cleans, history, listeners, delivery, heard>>
  BY DEF Passing, eventVars
<1>2. clock' \in Moments
  BY <1>1, TaskAssumption DEF TaskInv, TaskTypeOK, Moments
<1>3. EventsTypeOK' /\ ToldIsFinal'
  BY <1>1, NewsUnchanged DEF TaskInv, TaskTypeOK, EventsTypeOK, ToldIsFinal, history
<1> QED
  BY <1>1, <1>2, <1>3, EventsKeepInv

\* All of memory is lost, at any step of a method, and the store is what remains.
LEMMA CrashKeepsInv ==
  ASSUME TaskInv, CrashAndRestart
  PROVE  TaskInv'
<1>1. /\ activeTasks' = NothingLoaded /\ completedTasks' = << >> /\ todo' = << >>
      /\ loaded' = NothingLoaded /\ cleans' \in CleanupAfterCompletion
      /\ listeners' = << >> /\ delivery' = NoDelivery
      /\ UNCHANGED <<stored, clock, createdIds, lost, overtaken, heard>>
  BY DEF CrashAndRestart, LoseListeners, history
<1>2. DOMAIN todo' = {} /\ \A u : ~Writing(u)'
  BY <1>1 DEF Writing
<1>3. Range(completedTasks') = {} /\ \A u \in TaskIds : activeTasks'[u] = NoTask /\ loaded'[u] = NoTask
  BY <1>1 DEF Range, NothingLoaded
<1>4. TaskTypeOK'
  <2>1. completedTasks' \in Seq(HistoryEntry) /\ Len(completedTasks') <= MaximumHistory
    BY <1>1, TaskAssumption, EmptySeq
  <2>2. EventsTypeOK'
    BY <1>1, EmptySeq DEF TaskInv, TaskTypeOK, EventsTypeOK, NoDelivery
  <2> QED
    BY <1>1, <2>1, <2>2, EmptySeq DEF TaskInv, TaskTypeOK, NothingLoaded
<1>5. StepsAreReady' /\ StepsInOrder' /\ CallsAreDistinct' /\ EndedAreArchived'
  BY <1>2 DEF StepsAreReady, StepsInOrder, CallsAreDistinct, EndedAreArchived
<1>6. ActiveIsStored' /\ HistoryIsStored'
  BY <1>2, <1>3 DEF ActiveIsStored, HistoryIsStored, ActiveIds, IsActive
<1>7. OnlyCreatedKnown'
  BY <1>1, <1>3 DEF TaskInv, OnlyCreatedKnown, IsActive
<1>8. ToldIsFinal'
  BY <1>1, NewsUnchanged DEF TaskInv, ToldIsFinal, NoDelivery
<1> QED
  BY <1>4, <1>5, <1>6, <1>7, <1>8 DEF TaskInv

LEMMA CallTimeoutKeepsInv ==
  ASSUME TaskInv, CallTimeout
  PROVE  TaskInv'
<1>1. /\ todo # << >> /\ Head(todo).op = "timeout"
      /\ EndInMemory(Head(todo).id, "TIMED_OUT", Tail(todo))
  BY DEF CallTimeout, Next_is, NextStep
<1>2. Head(todo).id \in TaskIds /\ IsLive(Head(todo).id)
  <2>1. Ready(Head(todo))
    BY <1>1, TailIsLeft DEF TaskInv, StepsAreReady
  <2> QED
    BY <1>1, <2>1 DEF Ready
<1>3. "TIMED_OUT" \in Finals
  BY DEF Finals
<1> QED
  BY <1>1, <1>2, <1>3, CallIsAlone, EndInMemoryKeepsInv

LEMMA CallCreateKeepsInv ==
  ASSUME TaskInv, CallCreate
  PROVE  TaskInv'
<1>1. /\ todo # << >> /\ Head(todo).op = "create"
  BY DEF CallCreate, Next_is, NextStep
<1>2. CASE CreateNow(Head(todo).id, Tail(todo))
  <2>1. Ready(Head(todo))
    BY <1>1, TailIsLeft DEF TaskInv, StepsAreReady
  <2>2. Head(todo).id \in TaskIds \ createdIds
    BY <1>1, <2>1 DEF Ready
  <2> QED
    BY <1>1, <1>2, <2>2, CallIsAlone, CreateNowKeepsInv
<1>3. CASE /\ todo' = Tail(todo)
           /\ UNCHANGED <<memory, stored, loaded, clock, cleans, history, eventVars>>
  <2>1. EventsTypeOK' /\ ToldIsFinal'
    BY <1>3, NewsUnchanged DEF eventVars, history, TaskInv, TaskTypeOK, EventsTypeOK, ToldIsFinal
  <2> QED
    BY <1>1, <1>3, <2>1, PopKeepsInv
<1> QED
  BY <1>2, <1>3 DEF CallCreate, NextStep

LEMMA CallArchiveKeepsInv ==
  ASSUME TaskInv, CallArchive
  PROVE  TaskInv'
<1>0. PICK t, task : t = Head(todo).id /\ task = activeTasks[t]
  OBVIOUS
<1>1. /\ todo # << >> /\ Head(todo).op = "archive" /\ todo' = Tail(todo)
      /\ activeTasks' = [activeTasks EXCEPT ![t] = NoTask]
      /\ completedTasks' = HistoryWith(t, task)
      /\ UNCHANGED <<stored, loaded, clock, createdIds, lost, overtaken, cleans>>
  BY <1>0 DEF CallArchive, ArchiveTask, Next_is, NextStep, history
<1>2. Head(todo) = todo[1] /\ 1 \in DOMAIN todo /\ Ready(Head(todo))
  BY <1>1, TailIsLeft DEF TaskInv, StepsAreReady
<1>3. t \in TaskIds /\ IsActive(t) /\ IsFinished(task)
  BY <1>0, <1>1, <1>2 DEF Ready, IsLive, ActiveIds
<1>4. \A u : ~Writing(u) /\ ~Writing(u)'
  BY <1>1, TailWritesNothing DEF Writing
<1>5. task \in Task /\ t \in createdIds /\ (t \notin overtaken => StoredOrLost(t, task))
  BY <1>0, <1>3, <1>4, ActiveLemma
<1>6. activeTasks'[t] = NoTask /\ \A u \in TaskIds \ {t} : activeTasks'[u] = activeTasks[u]
  BY <1>1, <1>3 DEF TaskInv, TaskTypeOK
<1>7. \A i \in DOMAIN Tail(todo) : Tail(todo)[i].op = "archive" => Tail(todo)[i].id # t
  <2> SUFFICES ASSUME NEW i \in DOMAIN Tail(todo), Tail(todo)[i].op = "archive", Tail(todo)[i].id = t
               PROVE  FALSE
    OBVIOUS
  <2>1. i + 1 \in DOMAIN todo /\ i + 1 # 1 /\ Tail(todo)[i] = todo[i + 1]
    BY <1>1, TailIsLeft
  <2> QED
    BY <1>0, <1>1, <1>2, <2>1 DEF TaskInv, CallsAreDistinct
<1>8. /\ completedTasks' \in Seq(HistoryEntry) /\ Len(completedTasks') <= MaximumHistory
      /\ \A e \in Range(completedTasks') : e \in Range(completedTasks) \/ (e.id = t /\ e.task = task)
  <2>1. completedTasks \in Seq(HistoryEntry) /\ Len(completedTasks) <= MaximumHistory
    BY DEF TaskInv, TaskTypeOK
  <2> QED
    BY <1>1, <1>3, <1>5, <2>1, HistoryLemma
<1>9. EventsTypeOK' /\ ToldIsFinal'
  <2>1. SameOrArchived(t)
    BY <1>0, ArchiveEvents DEF CallArchive, NextStep
  <2> QED
    BY <1>1, <1>3, <2>1, ArchivedKeepsNews
<1>10. EndedAreArchived'
  <2> SUFFICES ASSUME NEW i \in DOMAIN Tail(todo), Tail(todo)[i].op = "expire", NEW u \in ActiveIds'
               PROVE  IsLive(u)' \/ \E k \in DOMAIN Tail(todo) : Tail(todo)[k].op = "archive" /\ Tail(todo)[k].id = u
    BY <1>1 DEF EndedAreArchived
  <2>1. u \in ActiveIds /\ u # t /\ activeTasks'[u] = activeTasks[u]
    BY <1>6 DEF ActiveIds, IsActive
  <2>2. i + 1 \in DOMAIN todo /\ todo[i + 1].op = "expire"
    BY <1>1, TailIsLeft
  <2>3. CASE IsLive(u)
    BY <2>1, <2>3 DEF IsLive, IsActive, IsFinished
  <2>4. CASE \E k \in DOMAIN todo : todo[k].op = "archive" /\ todo[k].id = u
    <3>1. PICK k \in DOMAIN todo : todo[k].op = "archive" /\ todo[k].id = u
      BY <2>4
    <3>2. k # 1
      BY <1>0, <1>2, <2>1, <3>1
    <3>3. /\ DOMAIN todo = 1 .. Len(todo) /\ DOMAIN Tail(todo) = 1 .. Len(Tail(todo))
          /\ Len(Tail(todo)) \in Nat /\ Len(todo) = Len(Tail(todo)) + 1
      BY <1>1, TailIsLeft, LenProperties DEF TaskInv, TaskTypeOK
    <3>4. k - 1 \in DOMAIN Tail(todo) /\ (k - 1) + 1 = k
      BY <3>1, <3>2, <3>3
    <3>5. Tail(todo)[k - 1] = todo[k]
      BY <1>1, <3>4, TailIsLeft
    <3> QED
      BY <3>1, <3>4, <3>5
  <2> QED
    BY <2>1, <2>2, <2>3, <2>4 DEF TaskInv, EndedAreArchived
<1>11. TaskTypeOK'
  <2>1. activeTasks' \in [TaskIds -> Task \cup {NoTask}]
    BY <1>1 DEF TaskInv, TaskTypeOK
  <2> QED
    BY <1>1, <1>8, <1>9, <2>1, TailInOrder DEF TaskInv, TaskTypeOK
<1>12. StepsAreReady'
  <2>1. ASSUME NEW i \in DOMAIN Tail(todo), NEW e, e = Tail(todo)[i]
        PROVE  Ready(e)'
    <3>1. Ready(e) /\ e.op \notin {"write", "announce"} /\ (e.op = "archive" => e.id # t)
      BY <1>1, <1>7, <2>1, LaterIsReady
    <3>2. e.op = "delete" => ReadyToDelete(e)'
      <4> SUFFICES ASSUME e.op = "delete" PROVE ReadyToDelete(e)'
        OBVIOUS
      <4>1. ReadyToDelete(e) /\ e.id \in TaskIds
        BY <3>1 DEF Ready, ReadyToDelete, TaskInv, TaskTypeOK
      <4> QED
        BY <1>1, <1>6, <4>1 DEF ReadyToDelete, IsActive, EndedWith, Trusted, WasLost
    <3>3. e.op = "archive" => (e.id \in ActiveIds /\ ~IsLive(e.id))'
      BY <1>6, <3>1 DEF Ready, IsActive, IsLive, IsFinished, ActiveIds
    <3>4. e.op = "timeout" => (e.id \in TaskIds /\ IsLive(e.id))'
      BY <1>0, <1>3, <1>6, <3>1 DEF Ready, IsActive, IsLive, IsFinished
    <3>5. e.op = "create" => (e.id \in TaskIds \ createdIds)'
      BY <1>1, <3>1 DEF Ready
    <3> QED
      BY <3>1, <3>2, <3>3, <3>4, <3>5 DEF Ready
  <2> QED
    BY <1>1, <2>1 DEF StepsAreReady
<1>13. StepsInOrder' /\ CallsAreDistinct'
  BY <1>1, TailInOrder
<1>14. \A u \in TaskIds : \A x : StoredOrLost(u, x) => StoredOrLost(u, x)'
  BY <1>1 DEF StoredOrLost, Open, WasLost, IsFinished
<1>15. ActiveIsStored'
  BY <1>1, <1>4, <1>6, <1>14 DEF TaskInv, ActiveIsStored, ActiveIds, IsActive
<1>16. HistoryIsStored'
  <2>1. Range(completedTasks) \in SUBSET HistoryEntry
    BY RangeOfSeq DEF TaskInv, TaskTypeOK
  <2>2. \A e \in Range(completedTasks) : e.id \in TaskIds
    BY <2>1 DEF HistoryEntry
  <2> SUFFICES ASSUME NEW e \in Range(completedTasks')
               PROVE  (/\ e.id \in createdIds
                       /\ IsFinished(e.task)
                       /\ e.id \notin overtaken =>
                            /\ ~IsLive(e.id)
                            /\ stored[e.id] = Erased \/ StoredOrLost(e.id, e.task))'
    BY <1>4 DEF HistoryIsStored
  <2>3. CASE e \in Range(completedTasks)
    <3>1. /\ e.id \in createdIds /\ IsFinished(e.task) /\ e.id \in TaskIds
          /\ e.id \notin overtaken => ~IsLive(e.id) /\ (stored[e.id] = Erased \/ StoredOrLost(e.id, e.task))
      BY <1>4, <2>2, <2>3 DEF TaskInv, HistoryIsStored
    <3>2. ~IsLive(e.id) => ~IsLive(e.id)'
      BY <1>6, <3>1 DEF IsLive, IsActive, IsFinished
    <3> QED
      BY <1>1, <1>14, <3>1, <3>2 DEF IsFinished
  <2>4. CASE e.id = t /\ e.task = task
    <3>1. ~IsLive(t)'
      BY <1>6 DEF IsLive, IsActive
    <3> QED
      BY <1>1, <1>3, <1>5, <1>14, <2>4, <3>1 DEF IsFinished
  <2> QED
    BY <1>8, <2>3, <2>4
<1>17. OnlyCreatedKnown'
  BY <1>1, <1>6 DEF TaskInv, OnlyCreatedKnown, IsActive
<1> QED
  BY <1>9, <1>10, <1>11, <1>12, <1>13, <1>15, <1>16, <1>17 DEF TaskInv

\* The deletions that the expiry of the history leaves to be done.
LEMMA DeletionsLemma ==
  ASSUME TaskInv, \A u : ~Writing(u), \A u \in ActiveIds : IsLive(u), NEW old \in Seq(HistoryEntry),
         Range(old) \subseteq Range(completedTasks),
         NEW deletes, deletes = [i \in DOMAIN old |-> Step("delete", old[i].id, NoTask)]
  PROVE  /\ deletes \in Seq(Effect)
         /\ \A i \in DOMAIN deletes : deletes[i].op = "delete" /\ Ready(deletes[i])
<1>1. Len(old) \in Nat /\ DOMAIN old = 1 .. Len(old) /\ DOMAIN deletes = 1 .. Len(old)
  BY LenProperties
<1>2. ASSUME NEW i \in DOMAIN old
      PROVE  /\ deletes[i] \in Effect
             /\ deletes[i].op = "delete" /\ Ready(deletes[i])
  <2>1. old[i] \in HistoryEntry /\ old[i] \in Range(completedTasks)
    BY <1>1, ElementOfSeq DEF Range
  <2>2. old[i].id \in TaskIds /\ old[i].task \in Task
    BY <2>1 DEF HistoryEntry
  <2>3. /\ deletes[i] \in Effect /\ deletes[i].op = "delete" /\ deletes[i].id = old[i].id
    BY <2>2, StepType
  <2>4. ReadyToDelete(deletes[i])
    <3> DEFINE u == old[i].id
               x == old[i].task
    <3>1. /\ u \in createdIds /\ IsFinished(x)
          /\ u \notin overtaken => ~IsLive(u) /\ (stored[u] = Erased \/ StoredOrLost(u, x))
      BY <2>1 DEF TaskInv, HistoryIsStored
    <3>2. x.status \in Finals /\ x.status \in TaskStatuses
      BY <3>1 DEF IsFinished, TaskStatuses
    <3>3. u \notin overtaken => ~IsActive(u)
      BY <2>2, <3>1 DEF ActiveIds
    <3>4. Trusted(u) => EndedWith(u, x.status)
      BY <2>2, <3>1, <3>2 DEF Trusted, StoredOrLost, EndedWith
    <3> HIDE DEF u, x
    <3>5. deletes[i].id = u
      BY <2>3 DEF u
    <3> QED
      BY <3>1, <3>2, <3>3, <3>4, <3>5 DEF ReadyToDelete
  <2> QED
    BY <2>3, <2>4 DEF Ready
<1>3. deletes \in Seq(Effect)
  <2>1. deletes = [i \in 1 .. Len(old) |-> deletes[i]] /\ \A i \in 1 .. Len(old) : deletes[i] \in Effect
    BY <1>1, <1>2
  <2> QED
    BY <1>1, <2>1, IsASeq
<1> QED
  BY <1>1, <1>2, <1>3

LEMMA CallExpireKeepsInv ==
  ASSUME TaskInv, CallExpire
  PROVE  TaskInv'
<1>1. PICK old \in Restrictions(completedTasks, OutOfDate) :
        todo' = [i \in DOMAIN old |-> Step("delete", old[i].id, NoTask)] \o Tail(todo)
  BY DEF CallExpire
<1> DEFINE deletes == [i \in DOMAIN old |-> Step("delete", old[i].id, NoTask)]
           rest    == Tail(todo)
<1>2. /\ todo # << >> /\ Head(todo).op = "expire" /\ todo' = deletes \o rest
      /\ completedTasks' \in Restrictions(completedTasks, DOMAIN completedTasks \ OutOfDate)
      /\ UNCHANGED <<activeTasks, stored, loaded, clock, createdIds, lost, overtaken, cleans,
                     listeners, delivery, heard>>
  BY <1>1 DEF CallExpire, Next_is, NextStep, eventVars, history
<1>3. /\ completedTasks \in Seq(HistoryEntry) /\ Len(completedTasks) <= MaximumHistory
      /\ Len(completedTasks) \in Nat /\ MaximumHistory \in Nat
      /\ OutOfDate \in SUBSET DOMAIN completedTasks
  BY TaskAssumption, LenProperties DEF TaskInv, TaskTypeOK, OutOfDate
<1>4. old \in Seq(HistoryEntry) /\ Range(old) \subseteq Range(completedTasks)
  BY <1>3, RestrictionsLemma
<1>5. /\ completedTasks' \in Seq(HistoryEntry)
      /\ Len(completedTasks') <= Len(completedTasks)
      /\ Range(completedTasks') \subseteq Range(completedTasks)
  <2>1. DOMAIN completedTasks \ OutOfDate \in SUBSET DOMAIN completedTasks
    OBVIOUS
  <2> QED
    BY <1>2, <1>3, <2>1, RestrictionsLemma
<1>6. \A u : ~Writing(u)
  BY <1>2 DEF Writing
<1>7. /\ rest \in Seq(Effect) /\ Len(rest) = 0
      /\ \A u \in ActiveIds : IsLive(u)
  <2>1. Head(todo) = todo[1] /\ 1 \in DOMAIN todo /\ rest \in Seq(Effect) /\ Len(todo) = Len(rest) + 1
    BY <1>2, TailIsLeft
  <2>2. Len(todo) = 1 /\ \A k \in DOMAIN todo : k # 1 => todo[k].op = "archive"
    BY <1>2, <2>1 DEF TaskInv, StepsInOrder
  <2>3. DOMAIN todo = 1 .. Len(todo) /\ Len(rest) \in Nat
    BY <2>1, LenProperties DEF TaskInv, TaskTypeOK
  <2>4. \A k \in DOMAIN todo : k = 1
    BY <2>2, <2>3
  <2>5. \A u \in ActiveIds : IsLive(u)
    BY <1>2, <2>1, <2>4 DEF TaskInv, EndedAreArchived
  <2> QED
    BY <2>1, <2>2, <2>3, <2>5
<1>8. /\ deletes \in Seq(Effect)
      /\ \A i \in DOMAIN deletes : deletes[i].op = "delete" /\ Ready(deletes[i])
  <2> HIDE DEF deletes
  <2>1. deletes = [i \in DOMAIN old |-> Step("delete", old[i].id, NoTask)]
    BY DEF deletes
  <2> QED
    BY <1>4, <1>6, <1>7, <2>1, DeletionsLemma
<1> HIDE DEF deletes, rest
<1>9. /\ todo' \in Seq(Effect)
      /\ \A i \in DOMAIN todo' : todo'[i].op = "delete" /\ Ready(todo'[i])
  <2>1. rest = << >>
    BY <1>7, EmptySeq
  <2>2. deletes \o rest = deletes
    BY <1>8, <2>1, ConcatEmptySeq
  <2> QED
    BY <1>2, <1>8, <2>2
<1>10. \A u : ~Writing(u)'
  <2>1. todo' # << >> => 1 \in DOMAIN todo' /\ Head(todo') = todo'[1]
    BY <1>9, TailLemma
  <2> QED
    BY <1>9, <2>1 DEF Writing
<1>11. TaskTypeOK'
  <2>1. Len(completedTasks') <= MaximumHistory
    BY <1>3, <1>5, LenProperties
  <2> QED
    BY <1>2, <1>5, <1>9, <2>1 DEF TaskInv, TaskTypeOK, EventsTypeOK
<1>12. StepsAreReady'
  <2> SUFFICES ASSUME NEW i \in DOMAIN todo' PROVE Ready(todo[i])'
    BY DEF StepsAreReady
  <2>1. ASSUME NEW e, Ready(e), e.op # "announce" PROVE Ready(e)'
    <3>1. UNCHANGED history
      BY <1>2 DEF history
    <3> QED
      BY <1>2, <2>1, <3>1, ReadyUnchanged
  <2>2. Ready(todo'[i]) /\ todo'[i].op # "announce"
    BY <1>9
  <2>3. ASSUME NEW e, e = todo'[i] PROVE Ready(e)'
    BY <2>1, <2>2, <2>3
  <2> QED
    BY <2>3
<1>13. StepsInOrder' /\ CallsAreDistinct' /\ EndedAreArchived'
  BY <1>9 DEF StepsInOrder, CallsAreDistinct, EndedAreArchived
<1>14. \A u : \A x : StoredOrLost(u, x) => StoredOrLost(u, x)'
  BY <1>2 DEF StoredOrLost, Open, WasLost, IsFinished
<1>15. ActiveIsStored'
  BY <1>2, <1>6, <1>10, <1>14 DEF TaskInv, ActiveIsStored, ActiveIds, IsActive
<1>16. HistoryIsStored'
  BY <1>2, <1>5, <1>6, <1>10, <1>14 DEF TaskInv, HistoryIsStored, IsLive, IsActive, IsFinished
<1>17. OnlyCreatedKnown'
  BY <1>2 DEF TaskInv, OnlyCreatedKnown, IsActive
<1>18. ToldIsFinal'
  BY <1>2, NewsUnchanged DEF TaskInv, ToldIsFinal
<1> QED
  BY <1>11, <1>12, <1>13, <1>15, <1>16, <1>17, <1>18 DEF TaskInv

-----------------------------------------------------------------------------
(* The invariant holds                                                       *)

LEMMA InitInv == TaskInit => TaskInv
<1> SUFFICES ASSUME TaskInit PROVE TaskInv
  OBVIOUS
<1>1. /\ todo = << >> /\ completedTasks = << >> /\ delivery = NoDelivery
      /\ \A t \in TaskIds : activeTasks[t] = NoTask /\ stored[t] = NoTask /\ loaded[t] = NoTask
      /\ \A l \in Listeners : heard[l] = {}
  BY DEF TaskInit, EventsInit, NothingLoaded
<1>2. DOMAIN todo = {} /\ Range(completedTasks) = {} /\ \A u : ~Writing(u)
  BY <1>1 DEF Range, Writing
<1>3. TaskTypeOK
  <2>1. clock \in Moments /\ Len(completedTasks) <= MaximumHistory
    BY <1>1, TaskAssumption DEF TaskInit, Moments
  <2>2. EventsTypeOK
    BY EmptySeq DEF TaskInit, EventsInit, EventsTypeOK, NoDelivery
  <2> QED
    BY <2>1, <2>2, EmptySeq DEF TaskInit, TaskTypeOK, NothingLoaded
<1>4. StepsAreReady /\ StepsInOrder /\ CallsAreDistinct /\ EndedAreArchived
  BY <1>2 DEF StepsAreReady, StepsInOrder, CallsAreDistinct, EndedAreArchived
<1>5. ActiveIsStored /\ HistoryIsStored /\ OnlyCreatedKnown
  BY <1>1, <1>2 DEF ActiveIsStored, HistoryIsStored, OnlyCreatedKnown, ActiveIds, IsActive
<1>6. ToldIsFinal
  BY <1>1 DEF ToldIsFinal, NoDelivery
<1> QED
  BY <1>3, <1>4, <1>5, <1>6 DEF TaskInv

LEMMA StepKeepsInv == TaskInv /\ [TaskNext]_taskVars => TaskInv'
<1> SUFFICES ASSUME TaskInv, [TaskNext]_taskVars PROVE TaskInv'
  OBVIOUS
<1>1. CASE Call
  <2>1. ASSUME NEW t \in TaskIds, CreateTask(t) PROVE TaskInv'
    BY <2>1, CreateTaskKeepsInv
  <2>2. ASSUME NEW t \in TaskIds,
               \/ QueueTask(t) \/ StartTask(t) \/ PauseTask(t) \/ ResumeTask(t) \/ UpdateProgress(t)
               \/ \E status \in Endings : EndTask(t, status)
        PROVE  TaskInv'
    BY <2>2, MethodsKeepInv
  <2>3. CASE CheckTimeouts \/ CleanupTasks \/ CleanupExpiredTasks
    BY <2>3, CallersKeepInv
  <2>4. CASE ClearTasks
    BY <2>4, ClearKeepsInv
  <2>5. CASE RestoreTasks
    BY <2>5, RestoreKeepsInv
  <2> QED
    BY <1>1, <2>1, <2>2, <2>3, <2>4, <2>5 DEF Call
<1>2. CASE Continue
  <2>1. CASE Write
    BY <2>1, WriteKeepsInv
  <2>2. CASE DeleteRecord
    BY <2>2, DeleteKeepsInv
  <2>3. CASE Announce
    BY <2>3, AnnounceKeepsInv
  <2>4. CASE \/ EndDelivery
             \/ Deliver /\ UNCHANGED <<memory, stored, todo, loaded, clock, cleans, history>>
    BY <2>4, DeliveryKeepsInv
  <2>5. CASE CallArchive
    BY <2>5, CallArchiveKeepsInv
  <2>6. CASE CallTimeout
    BY <2>6, CallTimeoutKeepsInv
  <2>7. CASE CallCreate
    BY <2>7, CallCreateKeepsInv
  <2>8. CASE CallExpire
    BY <2>8, CallExpireKeepsInv
  <2> QED
    BY <1>2, <2>1, <2>2, <2>3, <2>4, <2>5, <2>6, <2>7, <2>8 DEF Continue
<1>3. CASE LoadTasks
  BY <1>3, LoadKeepsInv
<1>4. CASE Listening
  BY <1>4, ListeningKeepsInv
<1>5. CASE Passing
  BY <1>5, PassingKeepsInv
<1>6. CASE CrashAndRestart
  BY <1>6, CrashKeepsInv
<1>7. CASE UNCHANGED taskVars
  <2>1. /\ UNCHANGED <<memory, stored, todo, loaded, clock, cleans, history>>
        /\ UNCHANGED <<listeners, delivery, heard>>
    BY <1>7 DEF taskVars, memory, eventVars, history
  <2>2. clock' \in Moments /\ EventsTypeOK' /\ ToldIsFinal'
    BY <2>1, NewsUnchanged DEF TaskInv, TaskTypeOK, EventsTypeOK, ToldIsFinal, history
  <2> QED
    BY <2>1, <2>2, EventsKeepInv
<1> QED
  BY <1>1, <1>2, <1>3, <1>4, <1>5, <1>6, <1>7 DEF TaskNext

\* The inductive invariant: what every step that is left of a method relies on, and
\* how memory, history and the listeners' news relate to the store, at every point
\* where the process may end, whichever calls of the hook fail and whenever somebody
\* recovers.
THEOREM TaskInvariance == TaskSpec => []TaskInv
BY InitInv, StepKeepsInv, PTL DEF TaskSpec

-----------------------------------------------------------------------------
(* What follows                                                              *)

\* Types; the history never holds more than maximum_history entries.
THEOREM TaskTypeCorrect == TaskSpec => []TaskTypeOK
<1>1. TaskInv => TaskTypeOK
  BY DEF TaskInv
<1> QED
  BY <1>1, TaskInvariance, PTL

\* Between two methods the store holds every active task as memory does, but for the
\* writes the hook failed to make and the tasks a recovery at work put back, and for
\* those alone: for every set of tasks, any number of failures and every configuration.
THEOREM WrittenThroughCorrect == TaskSpec => []WrittenThrough
<1>1. TaskInv => WrittenThrough
  BY DEF TaskInv, ActiveIsStored, StoredOrLost, WasLost, WrittenThrough, LockFree, Writing
<1> QED
  BY <1>1, TaskInvariance, PTL

\* Whoever holds a record of a task whose end a listener was told of holds that end,
\* across crashes, recoveries, deletions and any number of listeners, unless the hook
\* failed to write this very end or a recovery at work put an old record back.
THEOREM AnnouncedIsFinalCorrect == TaskSpec => []AnnouncedIsFinal
<1>1. TaskInv => AnnouncedIsFinal
  <2> SUFFICES ASSUME TaskInv, NEW l \in Listeners, NEW e \in heard[l],
                      e.status \in Finals, e \notin lost, e.id \notin overtaken
               PROVE  /\ stored[e.id] # Erased => stored[e.id] # NoTask /\ stored[e.id].status = e.status
                      /\ IsActive(e.id) => activeTasks[e.id].status = e.status
    BY DEF AnnouncedIsFinal
  <2>1. e.id \in TaskIds
    BY TaskAssumption DEF TaskInv, TaskTypeOK, EventsTypeOK
  <2>2. EndedWith(e.id, e.status)
    BY DEF TaskInv, ToldIsFinal, TrueNews
  <2>3. stored[e.id] # Erased => stored[e.id] # NoTask /\ stored[e.id].status = e.status
    BY <2>2, TaskAssumption DEF EndedWith
  <2>4. ~Open(e.id)
    BY <2>2, TaskAssumption DEF EndedWith, Open, IsFinished
  <2>5. ~Writing(e.id)
    <3> SUFFICES ASSUME Writing(e.id) PROVE FALSE
      OBVIOUS
    <3>1. Ready(Head(todo)) /\ Head(todo).op = "write" /\ Head(todo).id = e.id
      BY TailIsLeft DEF Writing, TaskInv, StepsAreReady
    <3> QED
      BY <2>4, <3>1 DEF Ready, ReadyToWrite
  <2>6. IsActive(e.id) => activeTasks[e.id] \in Task /\ StoredOrLost(e.id, activeTasks[e.id])
    BY <2>1, <2>5, ActiveLemma
  <2>7. IsActive(e.id) => activeTasks[e.id] \in Task /\ stored[e.id] = activeTasks[e.id]
    BY <2>4, <2>6 DEF StoredOrLost
  <2> QED
    BY <2>3, <2>7, TaskAssumption
<1> QED
  BY <1>1, TaskInvariance, PTL

\* Only a recovery makes the memory hold more tasks than maximum_tasks, however the
\* archiving that makes room interleaves with crashes.
THEOREM FullOnlyByRecoveryCorrect == TaskSpec => FullOnlyByRecovery
<1> DEFINE Full == Cardinality(ActiveIds') > Cardinality(ActiveIds) /\ Cardinality(ActiveIds') > MaximumTasks
                     => loaded # NothingLoaded
<1>1. ASSUME TaskInv, [TaskNext]_taskVars PROVE Full
  <2>1. /\ IsFiniteSet(ActiveIds) /\ IsFiniteSet(ActiveIds')
        /\ Cardinality(ActiveIds) \in Nat /\ Cardinality(ActiveIds') \in Nat /\ MaximumTasks \in Nat
    <3>1. ActiveIds \subseteq TaskIds /\ ActiveIds' \subseteq TaskIds
      BY DEF ActiveIds
    <3> QED
      BY <3>1, TaskAssumption, FS_Subset, FS_CardinalityType
  <2>2. ASSUME ActiveIds' \subseteq ActiveIds PROVE Full
    <3>1. Cardinality(ActiveIds') <= Cardinality(ActiveIds)
      BY <2>1, <2>2, FS_Subset
    <3> QED
      BY <2>1, <3>1
  <2>3. ASSUME NEW t \in TaskIds, NEW rest, HasRoomFor, CreateNow(t, rest) PROVE Full
    <3>1. ActiveIds' \subseteq ActiveIds \cup {t}
      BY <1>1, <2>3 DEF CreateNow, ActiveIds, IsActive, TaskInv, TaskTypeOK
    <3>2. /\ IsFiniteSet(ActiveIds \cup {t})
          /\ Cardinality(ActiveIds \cup {t}) <= Cardinality(ActiveIds) + 1
          /\ Cardinality(ActiveIds \cup {t}) \in Nat
      <4> DEFINE n == Cardinality(ActiveIds)
                 m == Cardinality(ActiveIds \cup {t})
      <4>1. IsFiniteSet(ActiveIds \cup {t}) /\ (m = n \/ m = n + 1)
        BY <2>1, FS_AddElement
      <4>2. n \in Nat
        BY <2>1
      <4> HIDE DEF n, m
      <4>3. m <= n + 1 /\ m \in Nat
        BY <4>1, <4>2
      <4> QED
        BY <4>1, <4>3 DEF n, m
    <3>3. Cardinality(ActiveIds') <= Cardinality(ActiveIds \cup {t})
      BY <3>1, <3>2, FS_Subset
    <3>4. Cardinality(ActiveIds) < MaximumTasks
      BY <2>3 DEF HasRoomFor
    <3> QED
      BY <2>1, <3>2, <3>3, <3>4
  <2>4. ASSUME NEW t \in TaskIds, NEW value \in Task \cup {NoTask},
               activeTasks' = [activeTasks EXCEPT ![t] = value], IsActive(t)
        PROVE  ActiveIds' \subseteq ActiveIds
    BY <1>1, <2>4 DEF ActiveIds, IsActive, TaskInv, TaskTypeOK
  <2>5. ASSUME NEW t \in TaskIds, IsActive(t), NEW s \in TaskStatuses, ChangeStatus(t, s)
        PROVE  Full
    <3>1. [activeTasks[t] EXCEPT !.status = s] \in Task
      BY <1>1, <2>5 DEF TaskInv, TaskTypeOK, IsActive, Task
    <3> QED
      BY <2>2, <2>4, <2>5, <3>1 DEF ChangeStatus
  <2>6. ASSUME NEW t \in TaskIds, IsActive(t), NEW s \in Finals, NEW rest, EndInMemory(t, s, rest)
        PROVE  Full
    <3>1. [activeTasks[t] EXCEPT !.status = s, !.ended = clock] \in Task
      BY <1>1, <2>6 DEF TaskInv, TaskTypeOK, IsActive, Task, TaskStatuses
    <3>2. \/ activeTasks' = [activeTasks EXCEPT ![t] = NoTask]
          \/ activeTasks' = [activeTasks EXCEPT ![t] = [activeTasks[t] EXCEPT !.status = s, !.ended = clock]]
      BY <2>6 DEF EndInMemory, ArchiveTask
    <3> QED
      BY <2>2, <2>4, <2>6, <3>1, <3>2
  <2>7. ASSUME UNCHANGED activeTasks PROVE Full
    BY <2>2, <2>7 DEF ActiveIds, IsActive
  <2>8. ASSUME activeTasks' = NothingLoaded PROVE Full
    BY <2>2, <2>8 DEF ActiveIds, IsActive, NothingLoaded
  <2>9. CASE Call
    <3>1. ASSUME NEW t \in TaskIds, CreateTask(t) PROVE Full
      BY <2>3, <2>7, <3>1 DEF CreateTask, memory
    <3>2. ASSUME NEW t \in TaskIds, QueueTask(t) \/ StartTask(t) \/ PauseTask(t) \/ ResumeTask(t)
          PROVE  Full
      BY <2>5, <3>2 DEF QueueTask, StartTask, PauseTask, ResumeTask, TaskStatuses
    <3>3. ASSUME NEW t \in TaskIds, UpdateProgress(t) PROVE Full
      <4>1. IsActive(t) /\ ChangeStatus(t, activeTasks[t].status)
        BY <3>3 DEF UpdateProgress, IsLive
      <4>2. activeTasks[t].status \in TaskStatuses
        BY <1>1, <4>1 DEF IsActive, TaskInv, TaskTypeOK, Task
      <4> QED
        BY <2>5, <4>1, <4>2
    <3>4. ASSUME NEW t \in TaskIds, NEW status \in Endings, EndTask(t, status) PROVE Full
      BY <2>6, <3>4, TaskAssumption DEF EndTask, IsLive
    <3>5. CASE CheckTimeouts \/ CleanupTasks \/ CleanupExpiredTasks
      BY <2>7, <3>5 DEF CheckTimeouts, CleanupTasks, CleanupExpiredTasks, memory
    <3>6. CASE ClearTasks
      BY <2>8, <3>6 DEF ClearTasks
    <3>7. CASE RestoreTasks
      BY <3>7 DEF RestoreTasks
    <3> HIDE DEF Full
    <3> QED
      BY <2>9, <3>1, <3>2, <3>3, <3>4, <3>5, <3>6, <3>7 DEF Call
  <2>10. CASE Continue
    <3>1. ASSUME Next_is("archive") \/ Next_is("timeout") \/ Next_is("create")
          PROVE  /\ NextStep.id \in TaskIds
                 /\ NextStep.op # "create" => IsActive(NextStep.id)
      <4>1. Ready(NextStep) /\ NextStep.op \in {"archive", "timeout", "create"}
        BY <1>1, <3>1, TailIsLeft DEF Next_is, NextStep, TaskInv, StepsAreReady
      <4> QED
        BY <4>1 DEF Ready, ActiveIds, IsLive
    <3>2. CASE CallArchive
      BY <2>2, <2>4, <3>1, <3>2 DEF CallArchive, ArchiveTask, Next_is
    <3>3. CASE CallTimeout
      <4>1. "TIMED_OUT" \in Finals
        BY DEF Finals
      <4> QED
        BY <2>6, <3>1, <3>3, <4>1 DEF CallTimeout, Next_is
    <3>4. CASE CallCreate
      BY <2>3, <2>7, <3>1, <3>4 DEF CallCreate, memory
    <3>5. CASE UNCHANGED activeTasks
      BY <2>7, <3>5
    <3>6. \/ CallArchive \/ CallTimeout \/ CallCreate \/ UNCHANGED activeTasks
      BY <2>10 DEF Continue, Write, DeleteRecord, Announce, EndDelivery, CallExpire, memory
    <3> HIDE DEF Full
    <3> QED
      BY <3>2, <3>3, <3>4, <3>5, <3>6
  <2>11. CASE LoadTasks \/ Listening \/ Passing \/ UNCHANGED taskVars
    BY <2>7, <2>11 DEF LoadTasks, Listening, Passing, taskVars, memory
  <2>12. CASE CrashAndRestart
    BY <2>8, <2>12 DEF CrashAndRestart
  <2> HIDE DEF Full
  <2> QED
    BY <1>1, <2>9, <2>10, <2>11, <2>12 DEF TaskNext
<1>2. TaskInv /\ [TaskNext]_taskVars => [Full]_taskVars
  BY <1>1
<1> QED
  BY <1>2, TaskInvariance, PTL DEF TaskSpec, FullOnlyByRecovery

\* The life cycle's step for a change of what the store holds of one task.
LEMMA StoredStatusSteps ==
  ASSUME TaskInv, NEW t \in TaskIds, NEW value \in Task \cup {Erased},
         stored' = [stored EXCEPT ![t] = value],
         \/ value \in Task /\ MayBecome(t, value.status)
         \/ value = Erased /\ \E s \in Finals : EndedWith(t, s)
  PROVE  [Life!LifeNext]_([u \in TaskIds |-> StoredStatus(u)])
<1> DEFINE now   == [u \in TaskIds |-> StoredStatus(u)]
           later == [u \in TaskIds |-> StoredStatus(u)']
           new   == IF value = Erased THEN "GONE" ELSE value.status
<1>1. NoTask # Erased /\ NoTask \notin Task /\ Erased \notin Task
  BY TaskAssumption
<1>2. stored \in [TaskIds -> Task \cup {NoTask, Erased}]
  BY DEF TaskInv, TaskTypeOK
<1>3. stored'[t] = value /\ \A u \in TaskIds \ {t} : stored'[u] = stored[u]
  BY <1>2
<1>4. StoredStatus(t)' = new /\ \A u \in TaskIds \ {t} : StoredStatus(u)' = StoredStatus(u)
  BY <1>1, <1>3 DEF StoredStatus
<1>5. later = [now EXCEPT ![t] = new]
  BY <1>4
<1>6. now' = later
  OBVIOUS
<1>7. StoredStatus(t) = new \/ <<StoredStatus(t), new>> \in TaskArrows
  <2>1. CASE value \in Task
    <3>1. new = value.status /\ MayBecome(t, value.status)
      BY <1>1, <2>1
    <3> QED
      BY <1>1, <3>1 DEF MayBecome, StoredStatus, TaskArrows
  <2>2. CASE value = Erased
    <3>1. new = "GONE"
      BY <2>2
    <3>2. PICK s \in Finals : EndedWith(t, s)
      BY <1>1, <2>2
    <3>3. StoredStatus(t) = "GONE" \/ StoredStatus(t) = s
      BY <1>1, <3>2 DEF EndedWith, StoredStatus
    <3> QED
      BY <3>1, <3>2, <3>3 DEF TaskArrows
  <2> QED
    BY <2>1, <2>2
<1>8. now[t] = StoredStatus(t)
  OBVIOUS
<1>9. CASE StoredStatus(t) = new
  <2>1. now' = now
    BY <1>4, <1>9
  <2> QED
    BY <2>1
<1>10. CASE <<StoredStatus(t), new>> \in TaskArrows
  <2>1. <<now[t], new>> \in TaskArrows /\ now' = [now EXCEPT ![t] = new]
    BY <1>5, <1>6, <1>8, <1>10
  <2>2. Life!Change(t, new)
    BY <2>1 DEF Life!Change
  <2>3. new = <<StoredStatus(t), new>>[2]
    OBVIOUS
  <2>4. Life!LifeNext
    BY <1>10, <2>2, <2>3 DEF Life!LifeNext
  <2> QED
    BY <2>4
<1> QED
  BY <1>7, <1>9, <1>10

\* The hook never failed and no recovery put an old record back.
Undisturbed == lost = {} /\ overtaken = {}

\* While the hook works and no recovery puts old records back, the records in the store
\* follow the life cycle of a task, step by step, whatever the memory in front of them
\* holds and wherever the process ends.
THEOREM FollowsLifeCycleCorrect == TaskSpec /\ []Undisturbed => FollowsLifeCycle
<1> DEFINE statuses == [t \in TaskIds |-> StoredStatus(t)]
<1>1. TaskInit => Life!LifeInit
  <2>1. ASSUME TaskInv, NEW t \in TaskIds, stored[t] = NoTask PROVE StoredStatus(t) = "NEW"
    <3>1. NoTask # Erased /\ NoTask \notin Task /\ stored \in [TaskIds -> Task \cup {NoTask, Erased}]
      BY <2>1, TaskAssumption DEF TaskInv, TaskTypeOK
    <3> QED
      BY <2>1, <3>1 DEF StoredStatus
  <2>2. TaskInit => \A t \in TaskIds : StoredStatus(t) = "NEW"
    BY <2>1, InitInv DEF TaskInit, NothingLoaded
  <2> QED
    BY <2>2 DEF Life!LifeInit
<1>2. TaskInv /\ Undisturbed /\ Undisturbed' /\ [TaskNext]_taskVars => [Life!LifeNext]_statuses
  <2> SUFFICES ASSUME TaskInv, Undisturbed, Undisturbed', [TaskNext]_taskVars
               PROVE  [Life!LifeNext]_statuses
    OBVIOUS
  <2>0. \A t : Trusted(t)
    BY DEF Undisturbed, Trusted, WasLost
  <2>1. CASE UNCHANGED stored
    BY <2>1 DEF StoredStatus
  <2>2. CASE Write
    <3>1. todo # << >> /\ NextStep = todo[1] /\ NextStep.op = "write" /\ Ready(NextStep)
      BY <2>2, TailIsLeft DEF Write, Next_is, NextStep, TaskInv, StepsAreReady
    <3>2. /\ NextStep.id \in TaskIds /\ NextStep.task \in Task
          /\ MayBecome(NextStep.id, NextStep.task.status)
      BY <2>0, <3>1 DEF Ready, ReadyToWrite, TaskInv, TaskTypeOK
    <3>3. stored' = [stored EXCEPT ![NextStep.id] = NextStep.task]
      BY <2>2 DEF Write, Stores, Undisturbed
    <3> HIDE DEF statuses
    <3> QED
      BY <3>2, <3>3, StoredStatusSteps DEF statuses
  <2>3. CASE DeleteRecord
    <3>1. todo # << >> /\ NextStep = todo[1] /\ NextStep.op = "delete" /\ Ready(NextStep)
      BY <2>3, TailIsLeft DEF DeleteRecord, Next_is, NextStep, TaskInv, StepsAreReady
    <3>2. NextStep.id \in TaskIds /\ \E s \in Finals : EndedWith(NextStep.id, s)
      BY <2>0, <3>1 DEF Ready, ReadyToDelete, TaskInv, TaskTypeOK
    <3>3. stored' = [stored EXCEPT ![NextStep.id] = Erased] \/ UNCHANGED stored
      BY <2>3 DEF DeleteRecord, Stores
    <3> HIDE DEF statuses
    <3> QED
      BY <2>1, <3>2, <3>3, StoredStatusSteps DEF statuses
  <2>4. CASE Call
    <3>1. UNCHANGED stored
      BY <2>4 DEF Call, CreateTask, CreateNow, QueueTask, StartTask, PauseTask, ResumeTask,
                  UpdateProgress, ChangeStatus, EndTask, EndInMemory, CheckTimeouts,
                  CleanupTasks, CleanupExpiredTasks, ClearTasks, RestoreTasks
    <3> QED
      BY <2>1, <3>1
  <2>5. CASE Continue
    <3>1. Write \/ DeleteRecord \/ UNCHANGED stored
      BY <2>5 DEF Continue, Announce, EndDelivery, CallArchive, CallTimeout, EndInMemory,
                  CallCreate, CreateNow, CallExpire
    <3> QED
      BY <2>1, <2>2, <2>3, <3>1
  <2>6. CASE LoadTasks \/ Listening \/ Passing \/ CrashAndRestart \/ UNCHANGED taskVars
    <3>1. UNCHANGED stored
      BY <2>6 DEF LoadTasks, Listening, Passing, CrashAndRestart, taskVars
    <3> QED
      BY <2>1, <3>1
  <2> QED
    BY <2>4, <2>5, <2>6 DEF TaskNext
<1> QED
  BY <1>1, <1>2, TaskInvariance, PTL DEF TaskSpec, FollowsLifeCycle, Life!LifeSpec
================================================================================
