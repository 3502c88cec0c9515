----------------------------- MODULE Dispatcher -----------------------------
(***************************************************************************)
(* The listeners of a MYDVB_ENGINE and the notification of events          *)
(* (src/events.c).                                                         *)
(*                                                                         *)
(* A callback runs in the middle of mydvb_notify_event and may call every  *)
(* operation again, mydvb_notify_event included.  "events" is the C stack: *)
(* one record for each call of mydvb_notify_event that has not returned,   *)
(* innermost last; each is inside the callback of its listener "i".  The   *)
(* code between two callbacks is one step.                                 *)
(***************************************************************************)
EXTENDS Integers, Sequences, SequencesExt

CONSTANTS
  Kind,       \* what a listener listens to: an event type, or, for
              \* MYDVB_EVENT_EXT_FD, one descriptor
  MaxIds,     \* bound on the listeners ever registered
  MaxDepth    \* bound on the notifications inside one another

ASSUME DispatcherAssumption == MaxIds \in Nat /\ MaxDepth \in Nat

VARIABLES
  listeners,          \* engine->listeners, in the order of the array
  listener_cnt,       \* identifier of the next listener (the code starts at 100)
  event_propagation,  \* the one flag of the engine
  events              \* the events being notified

vars == <<listeners, listener_cnt, event_propagation, events>>

Listener == [id : Nat, kind : Kind]

(* told, present, stopped and meanwhile are history: the listeners called  *)
(* so far; those that were there at the start; whether a callback of this  *)
(* very event stopped it; what has been done, by a callback of this event  *)
(* or of one inside it, that puts the flag down or up.                     *)
Event == [kind : Kind, i : Nat, told : Seq(Nat), present : SUBSET Nat,
          stopped : BOOLEAN, meanwhile : SUBSET {"stop", "remove", "notify"}]

Running == events[Len(events)]

Matching(kind) == {k \in 1..Len(listeners) : listeners[k].kind = kind}

(* The listeners the loop of mydvb_notify_event has yet to look at. *)
FirstFrom(kind, i) == {k \in Matching(kind) : k >= i /\ \A l \in Matching(kind) : l >= i => k <= l}

-----------------------------------------------------------------------------
(* Definitions whose name ends in _mutant are plausible mistakes in the     *)
(* definition that follows, each caught by a property (PROJECT.json).      *)

Register_mutant(kind) ==  \* the new listener goes to the front
  /\ listener_cnt < MaxIds
  /\ listeners' = <<[id |-> listener_cnt, kind |-> kind]>> \o listeners
  /\ listener_cnt' = listener_cnt + 1
  /\ UNCHANGED <<event_propagation, events>>

(* mydvb_register_listener, mydvb_register_ext_listener *)
Register(kind) ==
  /\ listener_cnt < MaxIds
  /\ listeners' = Append(listeners, [id |-> listener_cnt, kind |-> kind])
  /\ listener_cnt' = listener_cnt + 1
  /\ UNCHANGED <<event_propagation, events>>

FlagDown(what) ==
  /\ event_propagation' = FALSE
  /\ events' = [n \in DOMAIN events |->
       [events[n] EXCEPT !.meanwhile = @ \cup {what},
                         !.stopped = @ \/ (what = "stop" /\ n = Len(events))]]

RemoveListener_mutant_flag(k) ==  \* the propagation goes on
  /\ listeners' = RemoveAt(listeners, k)
  /\ UNCHANGED <<listener_cnt, event_propagation, events>>

(* mydvb_remove_listener: the array is shifted under the events that are   *)
(* being notified, so the propagation is stopped as well.                  *)
RemoveListener(k) ==
  /\ listeners' = RemoveAt(listeners, k)
  /\ FlagDown("remove")
  /\ UNCHANGED listener_cnt

(* mydvb_event_stop_propagation *)
StopPropagation ==
  /\ FlagDown("stop")
  /\ UNCHANGED <<listeners, listener_cnt>>

Outer == [n \in DOMAIN events |-> [events[n] EXCEPT !.meanwhile = @ \cup {"notify"}]]

Notify_mutant(kind) ==  \* the flag is not raised
  /\ Len(events) < MaxDepth
  /\ \/ /\ FirstFrom(kind, 1) = {}
        /\ events' = Outer
     \/ \E k \in FirstFrom(kind, 1) :
          events' = Append(Outer,
            [kind |-> kind, i |-> k, told |-> <<listeners[k].id>>,
             present |-> {listeners[l].id : l \in Matching(kind)},
             stopped |-> FALSE, meanwhile |-> {}])
  /\ UNCHANGED <<listeners, listener_cnt, event_propagation>>

(* mydvb_notify_event, up to the first callback. *)
Notify(kind) ==
  /\ Len(events) < MaxDepth
  /\ event_propagation' = TRUE
  /\ \/ /\ FirstFrom(kind, 1) = {}
        /\ events' = Outer
     \/ \E k \in FirstFrom(kind, 1) :
          events' = Append(Outer,
            [kind |-> kind, i |-> k, told |-> <<listeners[k].id>>,
             present |-> {listeners[l].id : l \in Matching(kind)},
             stopped |-> FALSE, meanwhile |-> {}])
  /\ UNCHANGED <<listeners, listener_cnt>>

(* The callback returns: the loop ends if the flag is down, else it goes   *)
(* on from the next place in the array as it is now.                       *)
Finish ==
  /\ events # <<>>
  /\ ~event_propagation \/ FirstFrom(Running.kind, Running.i + 1) = {}
  /\ events' = Front(events)
  /\ UNCHANGED <<listeners, listener_cnt, event_propagation>>

Continue_mutant ==  \* the flag is not looked at
  /\ events # <<>>
  /\ \E k \in FirstFrom(Running.kind, Running.i + 1) :
       events' = [events EXCEPT ![Len(events)].i = k,
                                ![Len(events)].told = Append(@, listeners[k].id)]
  /\ UNCHANGED <<listeners, listener_cnt, event_propagation>>

Continue ==
  /\ events # <<>>
  /\ event_propagation
  /\ \E k \in FirstFrom(Running.kind, Running.i + 1) :
       events' = [events EXCEPT ![Len(events)].i = k,
                                ![Len(events)].told = Append(@, listeners[k].id)]
  /\ UNCHANGED <<listeners, listener_cnt, event_propagation>>

Init ==
  /\ listeners = <<>>
  /\ listener_cnt = 0
  /\ event_propagation = FALSE
  /\ events = <<>>

Next ==
  \/ \E kind \in Kind : Register(kind) \/ Notify(kind)
  \/ \E k \in DOMAIN listeners : RemoveListener(k)
  \/ StopPropagation \/ Finish \/ Continue

Spec == Init /\ [][Next]_vars

-----------------------------------------------------------------------------
(* Correctness                                                             *)

TypeOK ==
  /\ listeners \in Seq(Listener)
  /\ listener_cnt \in Nat
  /\ event_propagation \in BOOLEAN
  /\ events \in Seq(Event)

(* An identifier is given to one listener only, so a client that removes a *)
(* listener twice, or late, never removes another one's: the identifiers   *)
(* in the array increase and the next one is above them all.  Part of the  *)
(* inductive invariant of module Dispatcher_proofs.                        *)
IdsIncrease ==
  /\ \A k \in DOMAIN listeners : listeners[k].id < listener_cnt
  /\ \A k, l \in DOMAIN listeners : k < l => listeners[k].id < listeners[l].id

(* An event calls each listener at most once, in the order in which they   *)
(* were registered, whatever its callbacks do to the array meanwhile       *)
(* (register, remove, notify other events that do the same).               *)
ToldInOrder ==
  \A n \in DOMAIN events : \A a, b \in DOMAIN events[n].told :
    a < b => events[n].told[a] < events[n].told[b]

(* When an event ends and nothing was stopped or removed while it was      *)
(* notified, every listener that was there at the start has been called.   *)
NobodyMissed ==
  [][\A n \in DOMAIN events :
       n \notin DOMAIN events' /\ events[n].meanwhile \subseteq {"notify"}
         => events[n].present \subseteq ToSet(events[n].told)]_vars

(* No listener is called over the head of one that precedes it: those that *)
(* are not called are the last ones.  It is why mydvb_remove_listener puts *)
(* the flag down, and true as long as no callback puts it up again by      *)
(* notifying another event.                                                *)
NoGaps ==
  \A n \in DOMAIN events :
    LET e == events[n] IN
      \A k \in DOMAIN listeners :
        /\ "notify" \notin e.meanwhile
        /\ listeners[k].id \in e.present
        /\ listeners[k].id < Last(e.told)
        => listeners[k].id \in ToSet(e.told)

(* An event stopped by one of its callbacks calls nobody else, as long as  *)
(* its callbacks notify no other event.                                    *)
StoppedAlone ==
  [][\A n \in DOMAIN events \cap DOMAIN events' :
       events[n].stopped /\ "notify" \notin events[n].meanwhile
         => events'[n].told = events[n].told]_vars

=============================================================================
