------------------------------ MODULE TaskEvents ------------------------------
(***************************************************************************)
(* The dispatcher of task events.  dispatch takes a snapshot of the        *)
(* listeners under the dispatcher's lock and calls them one after the      *)
(* other without it, so listeners come and go while an event is under way. *)
(* An exception of a listener is logged and the next one is called.        *)
(* Only the events that tell the end of a task, or that it was archived,   *)
(* are followed to each listener; the others change nothing that is        *)
(* modelled.                                                               *)
(***************************************************************************)
EXTENDS Naturals, Sequences, SequencesExt

CONSTANTS
  Listeners,   \* objects that may register
  Events       \* the events that are followed

VARIABLES
  listeners,   \* _listeners, in the order of registration
  delivery,    \* the event under way and the listeners still to be called
  heard        \* history: what each listener was told

eventVars == <<listeners, delivery, heard>>

NoDelivery == [event |-> {}, rest |-> << >>]

EventsTypeOK ==
  /\ listeners \in Seq(Listeners)
  /\ delivery \in [event : {{}} \cup {{e} : e \in Events}, rest : Seq(Listeners)]
  /\ heard \in [Listeners -> SUBSET Events]

EventsInit ==
  /\ listeners = << >>
  /\ delivery = NoDelivery
  /\ heard = [l \in Listeners |-> {}]

-----------------------------------------------------------------------------
RegisterListener(l) ==
  /\ l \notin Range(listeners)
  /\ listeners' = Append(listeners, l)
  /\ UNCHANGED <<delivery, heard>>

RemoveListener(l) ==
  /\ \E i \in DOMAIN listeners :
       listeners[i] = l /\ listeners' = RemoveAt(listeners, i)
  /\ UNCHANGED <<delivery, heard>>

ClearListeners ==
  /\ listeners # << >>
  /\ listeners' = << >>
  /\ UNCHANGED <<delivery, heard>>

\* The snapshot is taken.
Dispatch(event) ==
  /\ delivery' = [event |-> {event}, rest |-> listeners]
  /\ UNCHANGED <<listeners, heard>>

\* Wrong on purpose (EveryListenerIsTold): the exception of a listener ends the
\* dispatch.
DeliverUnguarded ==
  /\ delivery.rest # << >>
  /\ \E raised \in BOOLEAN :
       delivery' = [delivery EXCEPT !.rest = IF raised THEN << >> ELSE Tail(@)]
  /\ heard' = [heard EXCEPT ![Head(delivery.rest)] = @ \cup delivery.event]
  /\ UNCHANGED listeners

\* The next listener of the snapshot is called, whether it is still registered
\* or not, and whether it raises or not.
Deliver ==
  /\ delivery.rest # << >>
  /\ delivery' = [delivery EXCEPT !.rest = Tail(@)]
  /\ heard' = [heard EXCEPT ![Head(delivery.rest)] = @ \cup delivery.event]
  /\ UNCHANGED listeners

\* The process ends and its listeners with it.
LoseListeners ==
  /\ listeners' = << >>
  /\ delivery' = NoDelivery
  /\ UNCHANGED heard
=============================================================================
