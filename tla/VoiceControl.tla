----------------------------- MODULE VoiceControl -----------------------------
(***************************************************************************)
(* Commands by voice: the threads of the continuous listener and the calls *)
(* of the voice route hear commands, and both answer for the one pending   *)
(* action of the process.  A command that would delete, move or organize   *)
(* something is kept as the pending action and asked about; "yes" carries  *)
(* it out and "no" drops it.                                               *)
(*                                                                         *)
(* The pending action has no lock: a worker looks whether there is one,    *)
(* then acts on what there is by then, while the others do the same.  What *)
(* the brain's manager of confirmations keeps a copy of is read by nothing *)
(* and left out, and so are the commands of /command and /assistant, which *)
(* delete, move and organize without a question.                           *)
(***************************************************************************)
EXTENDS Naturals, FiniteSets

CONSTANTS
  Listeners,         \* bound on the threads of the listener alive at one time
  Calls,             \* bound on the calls of the voice route at one time
  Items,             \* files and directories a command may name
  Nothing,           \* no item, no pending action
  MaximumQuestions   \* bound on the questions ever asked

Workers == Listeners \cup Calls
Questions == 1 .. MaximumQuestions

\* A command that asks for confirmation is known by the item it is about; opening,
\* creating, searching and copying are harmless.
Commands == Items \cup {"yes", "no", "harmless"}

Action == [question : Questions, item : Items]

ASSUME VoiceAssumption ==
  /\ MaximumQuestions \in Nat
  /\ Listeners \cap Calls = {}
  /\ IsFiniteSet(Listeners) /\ IsFiniteSet(Calls)
  /\ Items \cap {"yes", "no", "harmless"} = {}
  /\ Nothing \notin Items \cup Action

Phases == {"gone", "loop", "listening", "heard", "decided", "taken", "cleared"}
Worker == [phase : Phases, said : Commands \cup {Nothing}, held : Action \cup {Nothing}]
Idle(phase) == [phase |-> phase, said |-> Nothing, held |-> Nothing]

VARIABLES
  running,    \* _running of the listener
  worker,     \* what each thread of the listener and each call is about to do
  pending,    \* the pending action of the process
  files,      \* the items that are where a command finds them
  asked,      \* history: the actions asked about, by question
  done,       \* history: the actions carried out
  confirmed,  \* history: the questions a "yes" has taken up
  dropped     \* history: the questions answered with "Action cancelled"

voiceVars == <<running, worker, pending, files, asked, done, confirmed, dropped>>

IsPending(q) == pending # Nothing /\ pending.question = q

NumberAsked == Cardinality({q \in Questions : asked[q] # Nothing})

VoiceTypeOK ==
  /\ running \in BOOLEAN
  /\ worker \in [Workers -> Worker]
  /\ \A w \in Workers : worker[w].phase \in {"taken", "cleared"} <=> worker[w].held # Nothing
  /\ pending \in Action \cup {Nothing}
  /\ files \subseteq Items
  /\ asked \in [Questions -> Items \cup {Nothing}]
  /\ pending # Nothing => asked[pending.question] = pending.item
  /\ done \subseteq Action
  /\ confirmed \subseteq Questions
  /\ dropped \subseteq Questions

-----------------------------------------------------------------------------
(* The listener and the route                                                *)

\* start: the flag is set and a new thread runs the loop, whatever became of the old.
Start ==
  /\ ~running
  /\ \E l \in Listeners :
       /\ worker[l].phase = "gone"
       /\ worker' = [worker EXCEPT ![l] = Idle("loop")]
  /\ running' = TRUE
  /\ UNCHANGED <<pending, files, asked, done, confirmed, dropped>>

Stop ==
  /\ running
  /\ running' = FALSE
  /\ UNCHANGED <<worker, pending, files, asked, done, confirmed, dropped>>

BeginCall(c) ==
  /\ worker[c].phase = "gone"
  /\ worker' = [worker EXCEPT ![c] = Idle("listening")]
  /\ UNCHANGED <<running, pending, files, asked, done, confirmed, dropped>>

\* Wrong on purpose (StoppedListenersEnd): the flag is not looked at.
LoopForEver(l) ==
  /\ worker[l].phase = "loop"
  /\ worker' = [worker EXCEPT ![l] = Idle("listening")]
  /\ UNCHANGED <<running, pending, files, asked, done, confirmed, dropped>>

Loop(l) ==
  /\ worker[l].phase = "loop"
  /\ worker' = [worker EXCEPT ![l] = Idle(IF running THEN "listening" ELSE "gone")]
  /\ UNCHANGED <<running, pending, files, asked, done, confirmed, dropped>>

\* A thread goes back to its loop; a call returns.
Over(w) == Idle(IF w \in Listeners THEN "loop" ELSE "gone")

\* Nothing is heard, or no wake word, or no command after it.
HearNothing(w) ==
  /\ worker[w].phase = "listening"
  /\ worker' = [worker EXCEPT ![w] = Over(w)]
  /\ UNCHANGED <<running, pending, files, asked, done, confirmed, dropped>>

\* No more is said about items than questions may be asked.
MayBeSaid(command) ==
  command \in Items =>
    NumberAsked + Cardinality({w \in Workers : worker[w].said \in Items}) < MaximumQuestions

Hear(w, command) ==
  /\ worker[w].phase = "listening"
  /\ MayBeSaid(command)
  /\ worker' = [worker EXCEPT ![w].phase = "heard", ![w].said = command]
  /\ UNCHANGED <<running, pending, files, asked, done, confirmed, dropped>>

\* With an action pending, "Please say yes or no" answers every other command.
Accepts(command) == pending # Nothing => command \in {"yes", "no"}

Decide(w) ==
  /\ worker[w].phase = "heard"
  /\ worker' = [worker EXCEPT ![w] = IF Accepts(@.said) THEN [@ EXCEPT !.phase = "decided"]
                                                       ELSE Over(w)]
  /\ UNCHANGED <<running, pending, files, asked, done, confirmed, dropped>>

-----------------------------------------------------------------------------
(* execute_action                                                            *)

Decided(w, commands) == worker[w].phase = "decided" /\ worker[w].said \in commands

Harmless(w) ==
  /\ Decided(w, {"harmless"})
  /\ worker' = [worker EXCEPT ![w] = Over(w)]
  /\ UNCHANGED <<running, pending, files, asked, done, confirmed, dropped>>

\* The item is found: the action becomes the pending one, and the question is spoken.
Ask(w) ==
  /\ Decided(w, files)
  /\ LET q == NumberAsked + 1
     IN  /\ pending' = [question |-> q, item |-> worker[w].said]
         /\ asked' = [asked EXCEPT ![q] = worker[w].said]
  /\ worker' = [worker EXCEPT ![w] = Over(w)]
  /\ UNCHANGED <<running, files, done, confirmed, dropped>>

\* The item is not found, or several items have the name.
Unresolved(w) ==
  /\ Decided(w, Items)
  /\ worker' = [worker EXCEPT ![w] = Over(w)]
  /\ UNCHANGED <<running, pending, files, asked, done, confirmed, dropped>>

\* Wrong on purpose (VoiceTypeOK): "yes" goes ahead with nothing pending.
TakeAnyway(w) ==
  /\ Decided(w, {"yes", "no"})
  /\ worker' = [worker EXCEPT ![w].phase = "taken", ![w].held = pending]
  /\ UNCHANGED <<running, pending, files, asked, done, confirmed, dropped>>

\* confirm and cancel read what is pending now, which Decide has not seen.
Take(w) ==
  /\ Decided(w, {"yes", "no"})
  /\ IF pending = Nothing
     THEN worker' = [worker EXCEPT ![w] = Over(w)] /\ UNCHANGED confirmed
     ELSE /\ worker' = [worker EXCEPT ![w].phase = "taken", ![w].held = pending]
          /\ confirmed' = IF worker[w].said = "yes" THEN confirmed \cup {pending.question}
                                                    ELSE confirmed
  /\ UNCHANGED <<running, pending, files, asked, done, dropped>>

\* Wrong on purpose (AnsweredIsNotPending): what is answered stays pending.
ClearNothing(w) ==
  /\ worker[w].phase = "taken"
  /\ worker' = [worker EXCEPT ![w].phase = "cleared"]
  /\ UNCHANGED <<running, pending, files, asked, done, confirmed, dropped>>

Clear(w) ==
  /\ worker[w].phase = "taken"
  /\ pending' = Nothing
  /\ worker' = [worker EXCEPT ![w].phase = "cleared"]
  /\ UNCHANGED <<running, files, asked, done, confirmed, dropped>>

\* Wrong on purpose (OnlyConfirmedIsDone): "no" goes ahead as well.
CarryOutEither(w) ==
  /\ worker[w].phase = "cleared"
  /\ files' \in {files, files \ {worker[w].held.item}}
  /\ done' = done \cup {worker[w].held}
  /\ worker' = [worker EXCEPT ![w] = Over(w)]
  /\ UNCHANGED <<running, pending, asked, confirmed, dropped>>

\* The item goes; or it is organized in its place, or is no longer there, or the
\* system refuses.
CarryOut(w) ==
  /\ worker[w].phase = "cleared"
  /\ worker[w].said = "yes"
  /\ files' \in {files, files \ {worker[w].held.item}}
  /\ done' = done \cup {worker[w].held}
  /\ worker' = [worker EXCEPT ![w] = Over(w)]
  /\ UNCHANGED <<running, pending, asked, confirmed, dropped>>

Drop(w) ==
  /\ worker[w].phase = "cleared"
  /\ worker[w].said = "no"
  /\ dropped' = dropped \cup {worker[w].held.question}
  /\ worker' = [worker EXCEPT ![w] = Over(w)]
  /\ UNCHANGED <<running, pending, files, asked, done, confirmed>>

\* Items come and go by other hands.
Meanwhile ==
  /\ \E i \in Items : files' = IF i \in files THEN files \ {i} ELSE files \cup {i}
  /\ UNCHANGED <<running, worker, pending, asked, done, confirmed, dropped>>

-----------------------------------------------------------------------------
VoiceInit ==
  /\ running = FALSE
  /\ worker = [w \in Workers |-> Idle("gone")]
  /\ pending = Nothing
  /\ files = Items
  /\ asked = [q \in Questions |-> Nothing]
  /\ done = {}
  /\ confirmed = {}
  /\ dropped = {}

Hears(w) == HearNothing(w) \/ \E command \in Commands : Hear(w, command)

Executes(w) ==
  Harmless(w) \/ Ask(w) \/ Unresolved(w) \/ Take(w) \/ Clear(w) \/ CarryOut(w) \/ Drop(w)

Works(w) == (w \in Listeners /\ Loop(w)) \/ Hears(w) \/ Decide(w) \/ Executes(w)

VoiceNext ==
  \/ Start
  \/ Stop
  \/ Meanwhile
  \/ \E c \in Calls : BeginCall(c)
  \/ \E w \in Workers : Works(w)

VoiceSpec == VoiceInit /\ [][VoiceNext]_voiceVars

\* The threads run, and listening ends after ten seconds at the latest.
FairVoiceSpec == VoiceSpec /\ \A w \in Workers : WF_voiceVars(Works(w))

-----------------------------------------------------------------------------
(* Properties                                                                *)

\* Whatever order the workers run in, a command by voice deletes, moves or organizes
\* nothing but what was asked about, by the path it was asked about, and what a "yes" took
\* up while that question was the pending one; a "no" never carries anything out.
OnlyConfirmedIsDone ==
  \A a \in done : asked[a.question] = a.item /\ a.question \in confirmed

\* A question somebody is about to answer does not stay pending, which would bar every
\* other command for good.
AnsweredIsNotPending ==
  \A w \in Workers, q \in Questions :
    Decided(w, {"yes", "no"}) /\ IsPending(q) ~> ~IsPending(q)

\* Refuted: a command that comes while a question is pending is told to wait, so that no
\* question is lost under another one and "yes" means the one that was spoken.
NoQuestionIsOverwritten ==
  [][\A q \in Questions : IsPending(q) => pending' \in {pending, Nothing}]_voiceVars

\* Refuted: what was reported as cancelled is not carried out, before or after.
CancelledIsNotDone == \A a \in done : a.question \notin dropped

\* Once stopped, the listener's threads end, unless a start comes first: nothing they
\* are at, a question or an answer, holds them for good.
StoppedListenersEnd ==
  ~running ~> (running \/ \A l \in Listeners : worker[l].phase = "gone")
=============================================================================
