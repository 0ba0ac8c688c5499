-------------------------- MODULE VoiceControlProofs --------------------------
(***************************************************************************)
(* Theorems about the confirmation of actions by voice, for any number of  *)
(* workers, items and questions: whatever order the workers run in,        *)
(* nothing is carried out but what a "yes" has taken up.                   *)
(***************************************************************************)
EXTENDS VoiceControl, FiniteSetTheorems, TLAPS

-----------------------------------------------------------------------------
(* The inductive invariant                                                   *)

\* The types, without what the question of the pending action is about.
Types ==
  /\ running \in BOOLEAN
  /\ worker \in [Workers -> Worker]
  /\ \A w \in Workers : worker[w].phase \in {"taken", "cleared"} <=> worker[w].held # Nothing
  /\ pending \in Action \cup {Nothing}
  /\ files \subseteq Items
  /\ asked \in [Questions -> Items \cup {Nothing}]
  /\ done \subseteq Action
  /\ confirmed \subseteq Questions
  /\ dropped \subseteq Questions

AskedQuestions == {q \in Questions : asked[q] # Nothing}

\* The questions are asked in their order, and the pending action has been asked about.
InOrder ==
  /\ \A q \in Questions : asked[q] # Nothing <=> q <= NumberAsked
  /\ pending # Nothing => asked[pending.question] = pending.item

\* Workers that may still ask find a question to ask.
Talking == {w \in Workers : worker[w].said \in Items}
Room == NumberAsked + Cardinality(Talking) <= MaximumQuestions

\* What a worker has taken up was asked about, and is confirmed if the worker was told "yes".
HeldIsAsked ==
  \A w \in Workers : worker[w].held # Nothing =>
    /\ asked[worker[w].held.question] = worker[w].held.item
    /\ worker[w].said = "yes" => worker[w].held.question \in confirmed

VoiceInv == Types /\ InOrder /\ Room /\ HeldIsAsked /\ OnlyConfirmedIsDone

-----------------------------------------------------------------------------
(* Counting                                                                  *)

LEMMA FiniteWorkers == IsFiniteSet(Workers) /\ Cardinality(Workers) \in Nat
BY FS_Union, FS_CardinalityType, VoiceAssumption DEF Workers

LEMMA SubsetOfWorkers ==
  ASSUME NEW S \in SUBSET Workers
  PROVE  /\ IsFiniteSet(S)
         /\ Cardinality(S) \in Nat
         /\ Cardinality(S) <= Cardinality(Workers)
BY FiniteWorkers, FS_Subset, FS_CardinalityType

LEMMA FewerWorkers ==
  ASSUME NEW S \in SUBSET Workers, NEW T \in SUBSET S
  PROVE  Cardinality(T) <= Cardinality(S)
BY SubsetOfWorkers, FS_Subset

LEMMA OneWorkerMore ==
  ASSUME NEW S \in SUBSET Workers, NEW w \in Workers
  PROVE  /\ w \notin S => Cardinality(S \cup {w}) = Cardinality(S) + 1
         /\ Cardinality(S \cup {w}) <= Cardinality(S) + 1
<1>1. IsFiniteSet(S) /\ Cardinality(S) \in Nat
  BY SubsetOfWorkers
<1>2. Cardinality(S \cup {w}) = IF w \in S THEN Cardinality(S) ELSE Cardinality(S) + 1
  BY <1>1, FS_AddElement
<1> QED
  BY <1>1, <1>2

LEMMA OneWorkerLess ==
  ASSUME NEW S \in SUBSET Workers, NEW w \in S
  PROVE  Cardinality(S \ {w}) = Cardinality(S) - 1
BY SubsetOfWorkers, FS_RemoveElement

LEMMA NumberAskedType ==
  IsFiniteSet(AskedQuestions) /\ NumberAsked = Cardinality(AskedQuestions) /\ NumberAsked \in Nat
<1>1. IsFiniteSet(Questions)
  BY FS_Interval, VoiceAssumption DEF Questions
<1>2. AskedQuestions \in SUBSET Questions
  BY DEF AskedQuestions
<1>3. NumberAsked = Cardinality(AskedQuestions)
  BY DEF NumberAsked, AskedQuestions
<1> QED
  BY <1>1, <1>2, <1>3, FS_Subset, FS_CardinalityType

-----------------------------------------------------------------------------
(* Steps of a worker that neither asks nor takes up an answer                 *)

LEMMA QuietMove ==
  ASSUME VoiceInv, NEW w \in Workers, NEW r \in Worker,
         worker' = [worker EXCEPT ![w] = r],
         r.held = Nothing, r.phase \notin {"taken", "cleared"},
         r.said \in Items => worker[w].said \in Items \/ MayBeSaid(r.said),
         UNCHANGED <<pending, asked, confirmed>>,
         running' \in BOOLEAN, files' \subseteq Items, dropped' \subseteq Questions,
         done' \subseteq Action,
         OnlyConfirmedIsDone'
  PROVE  VoiceInv'
<1>1. /\ worker \in [Workers -> Worker]
      /\ worker'[w] = r
      /\ \A v \in Workers \ {w} : worker'[v] = worker[v]
  BY DEF VoiceInv, Types
<1>2. worker' \in [Workers -> Worker]
  BY <1>1
<1>3. Types'
  BY <1>1, <1>2 DEF VoiceInv, Types
<1>4. NumberAsked' = NumberAsked /\ NumberAsked \in Nat
  BY NumberAskedType DEF NumberAsked
<1>5. InOrder'
  BY <1>4 DEF VoiceInv, InOrder
<1>6. Room'
  <2>1. Talking \in SUBSET Workers /\ Talking' \in SUBSET Workers
    BY DEF Talking
  <2>2. Cardinality(Talking) \in Nat /\ Cardinality(Talking') \in Nat
    BY <2>1, SubsetOfWorkers
  <2>3. CASE r.said \in Items /\ worker[w].said \notin Items
    <3>1. NumberAsked + Cardinality(Talking) < MaximumQuestions
      BY <2>3 DEF MayBeSaid, Talking
    <3>2. Talking' \in SUBSET (Talking \cup {w})
      BY <1>1 DEF Talking
    <3>3. Talking \cup {w} \in SUBSET Workers
      BY <2>1
    <3>4. Cardinality(Talking') <= Cardinality(Talking \cup {w})
      BY <3>2, <3>3, FewerWorkers
    <3>5. /\ Cardinality(Talking \cup {w}) <= Cardinality(Talking) + 1
          /\ Cardinality(Talking \cup {w}) \in Nat
      BY <2>1, <3>3, OneWorkerMore, SubsetOfWorkers
    <3> QED
      BY <1>4, <2>2, <3>1, <3>4, <3>5, VoiceAssumption DEF Room
  <2>4. CASE ~(r.said \in Items /\ worker[w].said \notin Items)
    <3>1. Talking' \in SUBSET Talking
      BY <1>1, <2>4 DEF Talking
    <3>2. Cardinality(Talking') <= Cardinality(Talking)
      BY <2>1, <3>1, FewerWorkers
    <3>3. Room
      BY DEF VoiceInv
    <3> QED
      BY <1>4, <2>2, <3>2, <3>3, VoiceAssumption DEF Room
  <2> QED
    BY <2>3, <2>4
<1>7. HeldIsAsked'
  BY <1>1 DEF VoiceInv, HeldIsAsked
<1> QED
  BY <1>3, <1>5, <1>6, <1>7 DEF VoiceInv

-----------------------------------------------------------------------------
(* The listener, the route and the harmless ends of a command                *)

LEMMA IdleLemma ==
  ASSUME NEW phase \in Phases
  PROVE  /\ Idle(phase) \in Worker
         /\ Idle(phase).held = Nothing
         /\ Idle(phase).phase = phase
         /\ Idle(phase).said \notin Items
BY VoiceAssumption DEF Idle, Worker

\* What a worker that goes idle leaves as it was.
LEMMA GoesIdle ==
  ASSUME VoiceInv, NEW w \in Workers, NEW phase \in {"gone", "loop", "listening"},
         worker' = [worker EXCEPT ![w] = Idle(phase)],
         UNCHANGED <<pending, asked, confirmed>>,
         running' \in BOOLEAN, files' \subseteq Items, dropped' \subseteq Questions,
         done' \subseteq Action,
         OnlyConfirmedIsDone'
  PROVE  VoiceInv'
<1>1. PICK r \in Worker :
        /\ r = Idle(phase) /\ r.held = Nothing /\ r.phase = phase
        /\ r.said \notin Items
  BY IdleLemma DEF Phases
<1>2. /\ worker' = [worker EXCEPT ![w] = r]
      /\ r.phase \notin {"taken", "cleared"}
  BY <1>1
<1> QED
  BY <1>1, <1>2, QuietMove

LEMMA OverLemma ==
  ASSUME NEW w
  PROVE  \E phase \in {"gone", "loop"} : Over(w) = Idle(phase)
BY DEF Over

LEMMA GoesOver ==
  ASSUME VoiceInv, NEW w \in Workers,
         worker' = [worker EXCEPT ![w] = Over(w)],
         UNCHANGED <<pending, asked, confirmed>>,
         running' \in BOOLEAN, files' \subseteq Items, dropped' \subseteq Questions,
         done' \subseteq Action,
         OnlyConfirmedIsDone'
  PROVE  VoiceInv'
<1>1. PICK phase \in {"gone", "loop"} : Over(w) = Idle(phase)
  BY OverLemma
<1> QED
  BY <1>1, GoesIdle

\* What is done stays confirmed while the questions stay as they are.
LEMMA StaysConfirmed ==
  ASSUME OnlyConfirmedIsDone, UNCHANGED <<asked, confirmed, done>>
  PROVE  OnlyConfirmedIsDone'
BY DEF OnlyConfirmedIsDone

LEMMA StartAndStop ==
  ASSUME VoiceInv, Start \/ Stop \/ Meanwhile \/ \E c \in Calls : BeginCall(c)
  PROVE  VoiceInv'
<1>0. /\ running \in BOOLEAN /\ files \subseteq Items /\ dropped \subseteq Questions
      /\ done \subseteq Action
      /\ OnlyConfirmedIsDone
  BY DEF VoiceInv, Types
<1>1. CASE Start
  <2>1. PICK l \in Listeners : worker' = [worker EXCEPT ![l] = Idle("loop")]
    BY <1>1 DEF Start
  <2>2. /\ running' \in BOOLEAN /\ l \in Workers
        /\ UNCHANGED <<pending, files, asked, done, confirmed, dropped>>
    BY <1>1 DEF Start, Workers
  <2>3. OnlyConfirmedIsDone'
    BY <1>0, <2>2, StaysConfirmed
  <2> QED
    BY <1>0, <2>1, <2>2, <2>3, GoesIdle
<1>2. CASE Stop \/ Meanwhile
  <2>1. /\ UNCHANGED <<worker, pending, asked, done, confirmed, dropped>>
        /\ running' \in BOOLEAN /\ files' \subseteq Items
    BY <1>0, <1>2 DEF Stop, Meanwhile
  <2>2. Types'
    BY <2>1 DEF VoiceInv, Types
  <2>3. OnlyConfirmedIsDone'
    BY <1>0, <2>1, StaysConfirmed
  <2>4. NumberAsked' = NumberAsked /\ Talking' = Talking
    BY <2>1 DEF NumberAsked, Talking
  <2>5. InOrder' /\ Room' /\ HeldIsAsked'
    BY <2>1, <2>4 DEF VoiceInv, InOrder, Room, HeldIsAsked
  <2> QED
    BY <2>2, <2>3, <2>5 DEF VoiceInv
<1>3. ASSUME NEW c \in Calls, BeginCall(c)
      PROVE  VoiceInv'
  <2>1. /\ c \in Workers
        /\ worker' = [worker EXCEPT ![c] = Idle("listening")]
        /\ UNCHANGED <<running, pending, files, asked, done, confirmed, dropped>>
    BY <1>3 DEF BeginCall, Workers
  <2>2. OnlyConfirmedIsDone'
    BY <1>0, <2>1, StaysConfirmed
  <2> QED
    BY <1>0, <2>1, <2>2, GoesIdle
<1> QED
  BY <1>1, <1>2, <1>3

LEMMA Hearing ==
  ASSUME VoiceInv, NEW w \in Workers, Loop(w) \/ Hears(w) \/ Decide(w)
  PROVE  VoiceInv'
<1>0. /\ running \in BOOLEAN /\ files \subseteq Items /\ dropped \subseteq Questions
      /\ done \subseteq Action
      /\ OnlyConfirmedIsDone
      /\ worker[w] \in Worker
      /\ worker[w].phase \in {"taken", "cleared"} <=> worker[w].held # Nothing
  BY DEF VoiceInv, Types
<1>1. UNCHANGED <<running, pending, files, asked, done, confirmed, dropped>>
  BY DEF Loop, Hears, HearNothing, Hear, Decide
<1>2. OnlyConfirmedIsDone'
  BY <1>0, <1>1, StaysConfirmed
<1>3. CASE Loop(w)
  <2>1. PICK phase \in {"listening", "gone"} : worker' = [worker EXCEPT ![w] = Idle(phase)]
    BY <1>3 DEF Loop
  <2> QED
    BY <1>0, <1>1, <1>2, <2>1, GoesIdle
<1>4. CASE HearNothing(w)
  <2>1. worker' = [worker EXCEPT ![w] = Over(w)]
    BY <1>4 DEF HearNothing
  <2> QED
    BY <1>0, <1>1, <1>2, <2>1, GoesOver
<1>5. ASSUME NEW command \in Commands, Hear(w, command)
      PROVE  VoiceInv'
  <2> DEFINE r == [worker[w] EXCEPT !.phase = "heard", !.said = command]
  <2>1. /\ worker[w].phase = "listening" /\ MayBeSaid(command)
        /\ worker' = [worker EXCEPT ![w] = r]
    BY <1>5 DEF Hear
  <2>2. /\ r \in Worker /\ r.held = worker[w].held
        /\ r.phase = "heard" /\ r.said = command
    BY <1>0 DEF Worker, Phases
  <2> HIDE DEF r
  <2>3. r.held = Nothing
    BY <1>0, <2>1, <2>2
  <2> QED
    BY <1>0, <1>1, <1>2, <2>1, <2>2, <2>3, QuietMove
<1>6. CASE Decide(w)
  <2>1. worker[w].phase = "heard" /\ worker[w].held = Nothing
    BY <1>0, <1>6 DEF Decide
  <2>2. CASE ~Accepts(worker[w].said)
    <3>1. worker' = [worker EXCEPT ![w] = Over(w)]
      BY <1>6, <2>2 DEF Decide
    <3> QED
      BY <1>0, <1>1, <1>2, <2>1, <3>1, GoesOver
  <2>3. CASE Accepts(worker[w].said)
    <3> DEFINE r == [worker[w] EXCEPT !.phase = "decided"]
    <3>1. worker' = [worker EXCEPT ![w] = r]
      BY <1>6, <2>3 DEF Decide
    <3>2. /\ r \in Worker /\ r.held = Nothing
          /\ r.phase = "decided" /\ r.said = worker[w].said
      BY <1>0, <2>1 DEF Worker, Phases
    <3> HIDE DEF r
    <3> QED
      BY <1>0, <1>1, <1>2, <2>1, <3>1, <3>2, QuietMove
  <2> QED
    BY <2>2, <2>3
<1> QED
  BY <1>3, <1>4, <1>5, <1>6 DEF Hears

\* Harmless commands, items that are not found, and answers with nothing pending.
LEMMA NothingToAsk ==
  ASSUME VoiceInv, NEW w \in Workers,
         Harmless(w) \/ Unresolved(w) \/ (Take(w) /\ pending = Nothing)
  PROVE  VoiceInv'
<1>0. /\ running \in BOOLEAN /\ files \subseteq Items /\ dropped \subseteq Questions
      /\ done \subseteq Action
      /\ OnlyConfirmedIsDone
  BY DEF VoiceInv, Types
<1>1. /\ worker' = [worker EXCEPT ![w] = Over(w)]
      /\ UNCHANGED <<running, pending, files, asked, done, confirmed, dropped>>
  BY DEF Harmless, Unresolved, Take, Decided
<1>2. OnlyConfirmedIsDone'
  BY <1>0, <1>1, StaysConfirmed
<1> QED
  BY <1>0, <1>1, <1>2, GoesOver

-----------------------------------------------------------------------------
(* The question and its answers                                              *)

\* A new question is none that somebody holds, or that was confirmed and done.
LEMMA AskStep ==
  ASSUME VoiceInv, NEW w \in Workers, Ask(w)
  PROVE  VoiceInv'
<1> DEFINE q == NumberAsked + 1
           item == worker[w].said
<1>1. /\ worker[w].phase = "decided" /\ item \in Items
      /\ pending' = [question |-> q, item |-> item]
      /\ asked' = [asked EXCEPT ![q] = item]
      /\ worker' = [worker EXCEPT ![w] = Over(w)]
      /\ UNCHANGED <<running, files, done, confirmed, dropped>>
  BY DEF Ask, Decided, VoiceInv, Types
<1>2. PICK phase \in {"gone", "loop"} : Over(w) = Idle(phase)
  BY OverLemma
<1>3. /\ Idle(phase) \in Worker
      /\ Idle(phase).held = Nothing
      /\ Idle(phase).phase = phase
      /\ Idle(phase).said \notin Items
  BY IdleLemma DEF Phases
<1>4. /\ worker \in [Workers -> Worker]
      /\ worker' = [worker EXCEPT ![w] = Idle(phase)]
      /\ worker'[w] = Idle(phase)
      /\ \A v \in Workers \ {w} : worker'[v] = worker[v]
  BY <1>1, <1>2 DEF VoiceInv, Types
<1>5. /\ Talking \in SUBSET Workers /\ w \in Talking
      /\ Cardinality(Talking) \in Nat /\ Cardinality(Talking) > 0
      /\ Cardinality(Talking') = Cardinality(Talking) - 1
  <2>1. Talking \in SUBSET Workers /\ w \in Talking
    BY <1>1 DEF Talking
  <2>2. Talking' = Talking \ {w}
    BY <1>3, <1>4 DEF Talking
  <2>3. Talking \ {w} \in SUBSET Workers
    BY <2>1
  <2>4. Cardinality(Talking \ {w}) \in Nat /\ Cardinality(Talking) \in Nat
    BY <2>1, <2>3, SubsetOfWorkers
  <2>5. Cardinality(Talking \ {w}) = Cardinality(Talking) - 1
    BY <2>1, OneWorkerLess
  <2> QED
    BY <2>1, <2>2, <2>4, <2>5
<1>6. NumberAsked \in Nat /\ q \in Questions /\ asked[q] = Nothing
  <2>1. NumberAsked \in Nat
    BY NumberAskedType
  <2>2. q \in Questions
    BY <1>5, <2>1, VoiceAssumption DEF VoiceInv, Room, Questions
  <2> QED
    BY <2>1, <2>2 DEF VoiceInv, InOrder
<1>7. /\ asked \in [Questions -> Items \cup {Nothing}]
      /\ asked'[q] = item
      /\ \A k \in Questions \ {q} : asked'[k] = asked[k]
  BY <1>1, <1>6 DEF VoiceInv, Types
<1>8. NumberAsked' = q
  <2>1. AskedQuestions' = AskedQuestions \cup {q} /\ q \notin AskedQuestions
    BY <1>1, <1>6, <1>7, VoiceAssumption DEF AskedQuestions
  <2>2. IsFiniteSet(AskedQuestions) /\ NumberAsked = Cardinality(AskedQuestions)
    BY NumberAskedType
  <2>3. NumberAsked' = Cardinality(AskedQuestions')
    BY DEF NumberAsked, AskedQuestions
  <2>4. Cardinality(AskedQuestions \cup {q}) = Cardinality(AskedQuestions) + 1
    BY <2>1, <2>2, FS_AddElement
  <2> QED
    BY <2>1, <2>2, <2>3, <2>4
<1>9. /\ pending' \in Action /\ pending' # Nothing
      /\ pending'.question = q /\ pending'.item = item
  BY <1>1, <1>6, VoiceAssumption DEF Action
<1> HIDE DEF q, item
<1>10. Types'
  <2>1. worker' \in [Workers -> Worker]
    BY <1>3, <1>4
  <2>2. asked' \in [Questions -> Items \cup {Nothing}]
    BY <1>1, <1>7
  <2>3. \A v \in Workers :
          worker'[v].phase \in {"taken", "cleared"} <=> worker'[v].held # Nothing
    BY <1>3, <1>4 DEF VoiceInv, Types
  <2> QED
    BY <1>1, <1>9, <2>1, <2>2, <2>3 DEF VoiceInv, Types
<1>11. InOrder'
  <2>1. \A k \in Questions : asked[k] # Nothing <=> k <= NumberAsked
    BY DEF VoiceInv, InOrder
  <2>2. \A k \in Questions : asked'[k] # Nothing <=> k <= q
    BY <1>1, <1>6, <1>7, <2>1, VoiceAssumption DEF q, Questions
  <2> QED
    BY <1>7, <1>8, <1>9, <2>2 DEF InOrder
<1>12. Room'
  <2>1. NumberAsked + Cardinality(Talking) <= MaximumQuestions
    BY DEF VoiceInv, Room
  <2> QED
    BY <1>5, <1>6, <1>8, <2>1, VoiceAssumption DEF Room, q
<1>13. \A v \in Workers : worker'[v].held # Nothing =>
         /\ v # w /\ worker'[v] = worker[v]
         /\ asked[worker[v].held.question] = worker[v].held.item
         /\ worker[v].held \in Action /\ worker[v].held.question # q
         /\ worker[v].said = "yes" => worker[v].held.question \in confirmed
  <2> SUFFICES ASSUME NEW v \in Workers, worker'[v].held # Nothing
               PROVE  /\ v # w /\ worker'[v] = worker[v]
                      /\ asked[worker[v].held.question] = worker[v].held.item
                      /\ worker[v].held \in Action /\ worker[v].held.question # q
                      /\ worker[v].said = "yes" => worker[v].held.question \in confirmed
    OBVIOUS
  <2>1. v # w /\ worker'[v] = worker[v]
    BY <1>3, <1>4
  <2>2. worker[v].held \in Action
    BY <1>4, <2>1 DEF Worker
  <2>3. /\ asked[worker[v].held.question] = worker[v].held.item
        /\ worker[v].said = "yes" => worker[v].held.question \in confirmed
    BY <2>1 DEF VoiceInv, HeldIsAsked
  <2> QED
    BY <1>6, <2>1, <2>2, <2>3, VoiceAssumption DEF Action
<1>14. HeldIsAsked'
  BY <1>1, <1>7, <1>13 DEF HeldIsAsked, Action
<1>15. OnlyConfirmedIsDone'
  <2> SUFFICES ASSUME NEW a \in done
               PROVE  asked'[a.question] = a.item /\ a.question \in confirmed'
    BY <1>1 DEF OnlyConfirmedIsDone
  <2>1. a.question \in Questions /\ a.item \in Items
    BY DEF VoiceInv, Types, Action
  <2>2. asked[a.question] = a.item /\ a.question \in confirmed
    BY DEF VoiceInv, OnlyConfirmedIsDone
  <2>3. a.question # q
    BY <1>6, <2>1, <2>2, VoiceAssumption
  <2> QED
    BY <1>1, <1>7, <2>1, <2>2, <2>3
<1> QED
  BY <1>10, <1>11, <1>12, <1>14, <1>15 DEF VoiceInv

\* Whoever is told "yes" confirms what is pending by then, and holds it.
LEMMA TakeStep ==
  ASSUME VoiceInv, NEW w \in Workers, Take(w), pending # Nothing
  PROVE  VoiceInv'
<1> DEFINE r == [worker[w] EXCEPT !.phase = "taken", !.held = pending]
           q == pending.question
<1>1. /\ worker[w].phase = "decided" /\ worker[w].said \in {"yes", "no"}
      /\ worker' = [worker EXCEPT ![w] = r]
      /\ confirmed' = IF worker[w].said = "yes" THEN confirmed \cup {q} ELSE confirmed
      /\ UNCHANGED <<running, pending, files, asked, done, dropped>>
  BY DEF Take, Decided
<1>2. /\ worker \in [Workers -> Worker] /\ worker[w] \in Worker
      /\ pending \in Action /\ q \in Questions
      /\ asked[q] = pending.item
  BY VoiceAssumption DEF VoiceInv, Types, InOrder, Action
<1>3. r \in Worker /\ r.phase = "taken" /\ r.held = pending /\ r.said = worker[w].said
  BY <1>2 DEF Worker, Phases
<1> HIDE DEF r, q
<1>4. /\ worker'[w] = r
      /\ \A v \in Workers \ {w} : worker'[v] = worker[v]
  BY <1>1, <1>2
<1>5. /\ confirmed \subseteq confirmed'
      /\ confirmed' \subseteq Questions
      /\ worker[w].said = "yes" => q \in confirmed'
  BY <1>1, <1>2 DEF VoiceInv, Types
<1>6. Types'
  <2>1. worker' \in [Workers -> Worker]
    BY <1>1, <1>2, <1>3
  <2>2. \A v \in Workers :
          worker'[v].phase \in {"taken", "cleared"} <=> worker'[v].held # Nothing
    BY <1>3, <1>4 DEF VoiceInv, Types
  <2> QED
    BY <1>1, <1>5, <2>1, <2>2 DEF VoiceInv, Types
<1>7. NumberAsked' = NumberAsked /\ Talking' = Talking
  BY <1>1, <1>3, <1>4 DEF NumberAsked, Talking
<1>8. InOrder' /\ Room'
  BY <1>1, <1>7 DEF VoiceInv, InOrder, Room
<1>9. HeldIsAsked'
  <2> SUFFICES ASSUME NEW v \in Workers, worker'[v].held # Nothing
               PROVE  /\ asked[worker'[v].held.question] = worker'[v].held.item
                      /\ worker'[v].said = "yes" => worker'[v].held.question \in confirmed'
    BY <1>1 DEF HeldIsAsked
  <2>1. CASE v = w
    BY <1>2, <1>3, <1>4, <1>5, <2>1 DEF q
  <2>2. CASE v # w
    BY <1>4, <1>5, <2>2 DEF VoiceInv, HeldIsAsked
  <2> QED
    BY <2>1, <2>2
<1>10. OnlyConfirmedIsDone'
  BY <1>1, <1>5 DEF VoiceInv, OnlyConfirmedIsDone
<1> QED
  BY <1>6, <1>8, <1>9, <1>10 DEF VoiceInv

LEMMA ClearStep ==
  ASSUME VoiceInv, NEW w \in Workers, Clear(w)
  PROVE  VoiceInv'
<1> DEFINE r == [worker[w] EXCEPT !.phase = "cleared"]
<1>1. /\ worker[w].phase = "taken"
      /\ worker' = [worker EXCEPT ![w] = r]
      /\ pending' = Nothing
      /\ UNCHANGED <<running, files, asked, done, confirmed, dropped>>
  BY DEF Clear
<1>2. worker \in [Workers -> Worker] /\ worker[w] \in Worker
  BY DEF VoiceInv, Types
<1>3. /\ r \in Worker /\ r.phase = "cleared"
      /\ r.held = worker[w].held /\ r.said = worker[w].said
  BY <1>2 DEF Worker, Phases
<1> HIDE DEF r
<1>4. /\ worker'[w] = r
      /\ \A v \in Workers \ {w} : worker'[v] = worker[v]
  BY <1>1, <1>2
<1>5. worker[w].held # Nothing
  BY <1>1 DEF VoiceInv, Types
<1>6. Types'
  <2>1. worker' \in [Workers -> Worker]
    BY <1>1, <1>2, <1>3
  <2>2. \A v \in Workers :
          worker'[v].phase \in {"taken", "cleared"} <=> worker'[v].held # Nothing
    BY <1>3, <1>4, <1>5 DEF VoiceInv, Types
  <2> QED
    BY <1>1, <2>1, <2>2 DEF VoiceInv, Types
<1>7. NumberAsked' = NumberAsked /\ Talking' = Talking
  BY <1>1, <1>3, <1>4 DEF NumberAsked, Talking
<1>8. InOrder' /\ Room'
  BY <1>1, <1>7 DEF VoiceInv, InOrder, Room
<1>9. HeldIsAsked'
  <2>1. \A v \in Workers : worker'[v].held = worker[v].held /\ worker'[v].said = worker[v].said
    BY <1>3, <1>4
  <2> QED
    BY <1>1, <2>1 DEF VoiceInv, HeldIsAsked
<1>10. OnlyConfirmedIsDone'
  BY <1>1, StaysConfirmed DEF VoiceInv
<1> QED
  BY <1>6, <1>8, <1>9, <1>10 DEF VoiceInv

\* What was held goes to what is done, or to what is dropped.
LEMMA AnswerStep ==
  ASSUME VoiceInv, NEW w \in Workers, CarryOut(w) \/ Drop(w)
  PROVE  VoiceInv'
<1>1. /\ worker[w].phase = "cleared"
      /\ worker' = [worker EXCEPT ![w] = Over(w)]
      /\ UNCHANGED <<running, pending, asked, confirmed>>
  BY DEF CarryOut, Drop
<1>2. /\ worker[w].held \in Action
      /\ asked[worker[w].held.question] = worker[w].held.item
      /\ worker[w].said = "yes" => worker[w].held.question \in confirmed
  <2>1. worker[w].held # Nothing /\ worker[w] \in Worker
    BY <1>1 DEF VoiceInv, Types
  <2> QED
    BY <2>1 DEF VoiceInv, HeldIsAsked, Worker
<1>3. /\ running \in BOOLEAN /\ files \subseteq Items /\ dropped \subseteq Questions
      /\ done \subseteq Action
      /\ OnlyConfirmedIsDone
  BY DEF VoiceInv, Types
<1>4. /\ files' \subseteq Items /\ dropped' \subseteq Questions /\ done' \subseteq Action
  BY <1>2, <1>3 DEF CarryOut, Drop, Action
<1>5. OnlyConfirmedIsDone'
  <2>1. CASE CarryOut(w)
    BY <1>1, <1>2, <1>3, <2>1 DEF CarryOut, OnlyConfirmedIsDone
  <2>2. CASE Drop(w)
    BY <1>1, <1>3, <2>2 DEF Drop, OnlyConfirmedIsDone
  <2> QED
    BY <2>1, <2>2
<1> QED
  BY <1>1, <1>3, <1>4, <1>5, GoesOver

-----------------------------------------------------------------------------
(* The theorems                                                              *)

LEMMA VoiceInvInit == VoiceInit => VoiceInv
<1> SUFFICES ASSUME VoiceInit
             PROVE  VoiceInv
  OBVIOUS
<1>1. \A w \in Workers : /\ worker[w] = Idle("gone") /\ worker[w] \in Worker
                         /\ worker[w].phase = "gone" /\ worker[w].held = Nothing
                         /\ worker[w].said \notin Items
  BY IdleLemma DEF VoiceInit, Phases
<1>2. Types
  BY <1>1 DEF VoiceInit, Types
<1>3. NumberAsked = 0
  <2>1. AskedQuestions = {}
    BY DEF VoiceInit, AskedQuestions
  <2> QED
    BY <2>1, NumberAskedType, FS_EmptySet
<1>4. InOrder
  BY <1>3 DEF VoiceInit, InOrder, Questions
<1>5. Room
  <2>1. Talking = {}
    BY <1>1 DEF Talking
  <2> QED
    BY <1>3, <2>1, FS_EmptySet, VoiceAssumption DEF Room
<1>6. HeldIsAsked /\ OnlyConfirmedIsDone
  BY <1>1 DEF VoiceInit, HeldIsAsked, OnlyConfirmedIsDone
<1> QED
  BY <1>2, <1>4, <1>5, <1>6 DEF VoiceInv

LEMMA VoiceInvStep == VoiceInv /\ [VoiceNext]_voiceVars => VoiceInv'
<1> SUFFICES ASSUME VoiceInv, [VoiceNext]_voiceVars
             PROVE  VoiceInv'
  OBVIOUS
<1>1. CASE Start \/ Stop \/ Meanwhile \/ \E c \in Calls : BeginCall(c)
  BY <1>1, StartAndStop
<1>2. ASSUME NEW w \in Workers, Works(w)
      PROVE  VoiceInv'
  <2>1. CASE Loop(w) \/ Hears(w) \/ Decide(w)
    BY <2>1, Hearing
  <2>2. CASE Harmless(w) \/ Unresolved(w) \/ (Take(w) /\ pending = Nothing)
    BY <2>2, NothingToAsk
  <2>3. CASE Ask(w)
    BY <2>3, AskStep
  <2>4. CASE Take(w) /\ pending # Nothing
    BY <2>4, TakeStep
  <2>5. CASE Clear(w)
    BY <2>5, ClearStep
  <2>6. CASE CarryOut(w) \/ Drop(w)
    BY <2>6, AnswerStep
  <2> QED
    BY <1>2, <2>1, <2>2, <2>3, <2>4, <2>5, <2>6 DEF Works, Executes
<1>3. CASE UNCHANGED voiceVars
  <2>1. UNCHANGED <<running, worker, pending, files, asked, done, confirmed, dropped>>
    BY <1>3 DEF voiceVars
  <2>2. Types'
    BY <2>1 DEF VoiceInv, Types
  <2>3. NumberAsked' = NumberAsked /\ Talking' = Talking
    BY <2>1 DEF NumberAsked, Talking
  <2>4. InOrder' /\ Room' /\ HeldIsAsked'
    BY <2>1, <2>3 DEF VoiceInv, InOrder, Room, HeldIsAsked
  <2>5. OnlyConfirmedIsDone'
    BY <2>1, StaysConfirmed DEF VoiceInv
  <2> QED
    BY <2>2, <2>4, <2>5 DEF VoiceInv
<1> QED
  BY <1>1, <1>2, <1>3 DEF VoiceNext

\* The invariant the other theorems follow from.
THEOREM VoiceInvariance == VoiceSpec => []VoiceInv
BY VoiceInvInit, VoiceInvStep, PTL DEF VoiceSpec

\* The types, and that the pending action is the one its question was about.
THEOREM VoiceTypeCorrect == VoiceSpec => []VoiceTypeOK
<1>1. VoiceInv => VoiceTypeOK
  BY DEF VoiceInv, Types, InOrder, VoiceTypeOK
<1> QED
  BY <1>1, VoiceInvariance, PTL

\* Whatever order any number of workers run in, nothing is deleted, moved or organized by
\* voice but what was asked about and taken up by a "yes".
THEOREM OnlyConfirmedIsDoneCorrect == VoiceSpec => []OnlyConfirmedIsDone
<1>1. VoiceInv => OnlyConfirmedIsDone
  BY DEF VoiceInv
<1> QED
  BY <1>1, VoiceInvariance, PTL
=============================================================================
