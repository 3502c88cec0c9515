------------------------- MODULE Dispatcher_proofs --------------------------
(* Proofs about Dispatcher, for every set of kinds and every bound: see    *)
(* README.md, "What is proved".                                            *)
EXTENDS Dispatcher, SequenceTheorems, WellFoundedInduction, TLAPS

-----------------------------------------------------------------------------
(* Lemmas about sequences.                                                 *)

(* RemoveAt closes the gap. *)
LEMMA RemoveAtProperties ==
  ASSUME NEW S, NEW s \in Seq(S), NEW k \in 1..Len(s)
  PROVE  /\ RemoveAt(s, k) \in Seq(S)
         /\ Len(RemoveAt(s, k)) = Len(s) - 1
         /\ \A i \in 1..Len(s) - 1 :
              RemoveAt(s, k)[i] = IF i < k THEN s[i] ELSE s[i + 1]
<1> DEFINE a == SubSeq(s, 1, k - 1)
           b == SubSeq(s, k + 1, Len(s))
<1>1. Len(s) \in Nat /\ k \in Nat /\ k >= 1 /\ k <= Len(s)
  OBVIOUS
<1>2. /\ a \in Seq(S) /\ Len(a) = k - 1
      /\ \A i \in 1..k - 1 : a[i] = s[i]
  <2>1. \A i \in 1..k - 1 : s[i] \in S
    BY <1>1, ElementOfSeq
  <2>2. 1 \in Int /\ k - 1 \in Int
    BY <1>1
  <2>3. /\ a \in Seq(S)
        /\ Len(a) = IF 1 <= k - 1 THEN k - 1 - 1 + 1 ELSE 0
        /\ \A i \in 1..k - 1 - 1 + 1 : a[i] = s[1 + i - 1]
    BY <2>1, <2>2, SubSeqProperties
  <2> HIDE DEF a
  <2> QED BY <1>1, <2>3
<1>3. /\ b \in Seq(S) /\ Len(b) = Len(s) - k
      /\ \A i \in 1..Len(s) - k : b[i] = s[k + i]
  <2>1. \A i \in k + 1..Len(s) : s[i] \in S
    BY <1>1, ElementOfSeq
  <2>2. k + 1 \in Int /\ Len(s) \in Int
    BY <1>1
  <2>3. /\ b \in Seq(S)
        /\ Len(b) = IF k + 1 <= Len(s) THEN Len(s) - (k + 1) + 1 ELSE 0
        /\ \A i \in 1..Len(s) - (k + 1) + 1 : b[i] = s[k + 1 + i - 1]
    BY <2>1, <2>2, SubSeqProperties
  <2> HIDE DEF b
  <2> QED BY <1>1, <2>3
<1>4. RemoveAt(s, k) = a \o b
  BY DEF RemoveAt
<1> HIDE DEF a, b
<1>5. /\ a \o b \in Seq(S) /\ Len(a \o b) = Len(s) - 1
      /\ \A i \in 1..Len(s) - 1 : (a \o b)[i] = IF i < k THEN a[i] ELSE b[i - (k - 1)]
  <2>1. /\ a \o b \in Seq(S) /\ Len(a \o b) = Len(a) + Len(b)
        /\ \A i \in 1..Len(a) + Len(b) :
             (a \o b)[i] = IF i <= Len(a) THEN a[i] ELSE b[i - Len(a)]
    BY <1>2, <1>3, ConcatProperties
  <2> QED BY <1>1, <1>2, <1>3, <2>1
<1>6. \A i \in 1..Len(s) - 1 : (a \o b)[i] = IF i < k THEN s[i] ELSE s[i + 1]
  <2> SUFFICES ASSUME NEW i \in 1..Len(s) - 1
               PROVE  (a \o b)[i] = IF i < k THEN s[i] ELSE s[i + 1]
    OBVIOUS
  <2>1. CASE i < k
    BY <1>1, <1>2, <1>5, <2>1
  <2>2. CASE ~(i < k)
    <3>1. i - (k - 1) \in 1..Len(s) - k /\ k + (i - (k - 1)) = i + 1
      BY <1>1, <2>2
    <3> QED BY <1>3, <1>5, <2>2, <3>1
  <2> QED BY <2>1, <2>2
<1> QED BY <1>4, <1>5, <1>6

(* Front drops the last element. *)
LEMMA FrontTheorem ==
  ASSUME NEW S, NEW s \in Seq(S), s # <<>>
  PROVE  /\ Front(s) \in Seq(S) /\ Len(Front(s)) = Len(s) - 1
         /\ \A i \in 1..Len(s) - 1 : Front(s)[i] = s[i]
<1> DEFINE n == Len(s) - 1
           f == SubSeq(s, 1, n)
<1>1. n \in Nat /\ n \in Int /\ \A i \in 1..n : s[i] \in S
  BY EmptySeq, ElementOfSeq
<1>2. Front(s) = f
  BY DEF Front
<1> HIDE DEF n
<1>3. /\ f \in Seq(S)
      /\ Len(f) = IF 1 <= n THEN n - 1 + 1 ELSE 0
      /\ \A i \in 1..n - 1 + 1 : f[i] = s[1 + i - 1]
  BY <1>1, SubSeqProperties
<1> HIDE DEF f
<1>4. Len(f) = n /\ \A i \in 1..n : f[i] = s[i]
  BY <1>1, <1>3
<1> QED BY <1>2, <1>3, <1>4 DEF n

-----------------------------------------------------------------------------
(* The inductive invariant: with IdsIncrease, what an event has called is  *)
(* below everything it may still call.                                     *)

ToldIsBehind ==
  \A n \in DOMAIN events : \A a \in DOMAIN events[n].told :
    /\ events[n].told[a] < listener_cnt
    /\ \A k \in DOMAIN listeners :
         events[n].i < k => events[n].told[a] < listeners[k].id

OrderInv == TypeOK /\ IdsIncrease /\ ToldIsBehind /\ ToldInOrder

(* What the types say of an element. *)
LEMMA Elements ==
  ASSUME TypeOK
  PROVE  /\ DOMAIN listeners = 1..Len(listeners) /\ Len(listeners) \in Nat
         /\ \A k \in DOMAIN listeners : listeners[k] \in Listener /\ listeners[k].id \in Nat
         /\ DOMAIN events = 1..Len(events) /\ Len(events) \in Nat
         /\ events \in [1..Len(events) -> Event]
         /\ \A n \in DOMAIN events :
              /\ events[n] \in Event /\ events[n].i \in Nat
              /\ events[n].told \in Seq(Nat)
              /\ DOMAIN events[n].told = 1..Len(events[n].told)
              /\ Len(events[n].told) \in Nat
              /\ \A a \in DOMAIN events[n].told : events[n].told[a] \in Nat
<1>1. listeners \in Seq(Listener) /\ events \in Seq(Event)
  BY DEF TypeOK
<1>2. DOMAIN listeners = 1..Len(listeners) /\ Len(listeners) \in Nat
  BY <1>1, LenProperties
<1>3. \A k \in DOMAIN listeners : listeners[k] \in Listener /\ listeners[k].id \in Nat
  <2>1. \A k \in DOMAIN listeners : listeners[k] \in Listener
    BY <1>1, <1>2, ElementOfSeq
  <2> QED BY <2>1 DEF Listener
<1>4. /\ DOMAIN events = 1..Len(events) /\ Len(events) \in Nat
      /\ events \in [1..Len(events) -> Event]
  BY <1>1, LenProperties
<1>5. \A n \in DOMAIN events : events[n] \in Event
  BY <1>1, <1>4, ElementOfSeq
<1>6. \A n \in DOMAIN events : events[n].i \in Nat /\ events[n].told \in Seq(Nat)
  BY <1>5 DEF Event
<1>7. \A n \in DOMAIN events :
        /\ DOMAIN events[n].told = 1..Len(events[n].told)
        /\ Len(events[n].told) \in Nat
        /\ \A a \in DOMAIN events[n].told : events[n].told[a] \in Nat
  BY <1>6, LenProperties, ElementOfSeq
<1> QED BY <1>2, <1>3, <1>4, <1>5, <1>6, <1>7

LEMMA InitOrder == Init => OrderInv
<1> SUFFICES ASSUME Init PROVE OrderInv
  OBVIOUS
<1>1. listeners = <<>> /\ events = <<>> /\ listener_cnt = 0 /\ event_propagation = FALSE
  BY DEF Init
<1>2. TypeOK
  BY <1>1, EmptySeq DEF TypeOK
<1>3. DOMAIN listeners = {} /\ DOMAIN events = {}
  BY <1>1
<1>4. IdsIncrease /\ ToldIsBehind /\ ToldInOrder
  BY <1>3 DEF IdsIncrease, ToldIsBehind, ToldInOrder
<1> QED BY <1>2, <1>4 DEF OrderInv

(* A new listener is behind every listener that has been called. *)
LEMMA RegisterOrder ==
  ASSUME OrderInv, NEW kind \in Kind, Register(kind)
  PROVE  OrderInv'
<1> DEFINE new == [id |-> listener_cnt, kind |-> kind]
<1>1. /\ listeners' = Append(listeners, new)
      /\ listener_cnt' = listener_cnt + 1
      /\ UNCHANGED <<event_propagation, events>>
  BY DEF Register
<1>2. listeners \in Seq(Listener) /\ listener_cnt \in Nat /\ events \in Seq(Event)
  BY DEF OrderInv, TypeOK
<1>3. new \in Listener /\ new.id = listener_cnt
  BY <1>2 DEF Listener
<1> HIDE DEF new
<1>4. /\ listeners' \in Seq(Listener) /\ Len(listeners') = Len(listeners) + 1
      /\ \A k \in 1..Len(listeners) : listeners'[k] = listeners[k]
      /\ listeners'[Len(listeners) + 1] = new
  BY <1>1, <1>2, <1>3, AppendProperties
<1>5. DOMAIN listeners = 1..Len(listeners) /\ DOMAIN listeners' = 1..Len(listeners) + 1
      /\ Len(listeners) \in Nat
  BY <1>2, <1>4, LenProperties
<1>6. \A k \in 1..Len(listeners) : listeners[k].id \in Nat
  BY <1>5, Elements DEF OrderInv
<1>7. TypeOK'
  BY <1>1, <1>2, <1>4 DEF OrderInv, TypeOK
<1>8. IdsIncrease'
  BY <1>1, <1>2, <1>3, <1>4, <1>5, <1>6 DEF OrderInv, IdsIncrease
<1>9. \A n \in DOMAIN events : \A a \in DOMAIN events[n].told : events[n].told[a] \in Nat
  BY Elements DEF OrderInv
<1>10. ToldIsBehind'
  BY <1>1, <1>2, <1>3, <1>4, <1>5, <1>9 DEF OrderInv, ToldIsBehind
<1>11. ToldInOrder'
  BY <1>1 DEF OrderInv, ToldInOrder
<1> QED BY <1>7, <1>8, <1>10, <1>11 DEF OrderInv

(* Putting the flag down changes no place and no list of calls. *)
LEMMA FlagDownOrder ==
  ASSUME TypeOK, NEW what \in {"stop", "remove"}, FlagDown(what)
  PROVE  /\ events' \in Seq(Event) /\ event_propagation' \in BOOLEAN
         /\ DOMAIN events' = DOMAIN events
         /\ \A n \in DOMAIN events : /\ events'[n].told = events[n].told
                                     /\ events'[n].i = events[n].i
<1> DEFINE g(n) == [events[n] EXCEPT !.meanwhile = events[n].meanwhile \cup {what},
                       !.stopped = events[n].stopped \/ (what = "stop" /\ n = Len(events))]
<1>1. events \in Seq(Event) /\ DOMAIN events = 1..Len(events) /\ Len(events) \in Nat
  BY Elements DEF TypeOK
<1>2. events' = [n \in 1..Len(events) |-> g(n)] /\ event_propagation' = FALSE
  BY <1>1 DEF FlagDown
<1>3. \A n \in 1..Len(events) : g(n) \in Event /\ g(n).told = events[n].told /\ g(n).i = events[n].i
  <2> SUFFICES ASSUME NEW n \in 1..Len(events)
               PROVE  g(n) \in Event /\ g(n).told = events[n].told /\ g(n).i = events[n].i
    OBVIOUS
  <2>1. events[n] \in Event
    BY <1>1, ElementOfSeq
  <2>2. events[n].meanwhile \cup {what} \in SUBSET {"stop", "remove", "notify"}
    BY <2>1 DEF Event
  <2>3. (events[n].stopped \/ (what = "stop" /\ n = Len(events))) \in BOOLEAN
    OBVIOUS
  <2> QED BY <2>1, <2>2, <2>3 DEF Event
<1> HIDE DEF g
<1>4. events' \in [1..Len(events) -> Event]
  BY <1>2, <1>3
<1>5. events' \in Seq(Event)
  BY <1>1, <1>4, SeqDef
<1> QED BY <1>1, <1>2, <1>3, <1>5

(* What is left of the array is still in order. *)
LEMMA RemoveListenerOrder ==
  ASSUME OrderInv, NEW r \in DOMAIN listeners, RemoveListener(r)
  PROVE  OrderInv'
<1>1. /\ listeners' = RemoveAt(listeners, r) /\ FlagDown("remove")
      /\ UNCHANGED listener_cnt
  BY DEF RemoveListener
<1>2. listeners \in Seq(Listener) /\ listener_cnt \in Nat /\ events \in Seq(Event) /\ TypeOK
  BY DEF OrderInv, TypeOK
<1>3. DOMAIN listeners = 1..Len(listeners) /\ Len(listeners) \in Nat /\ r \in 1..Len(listeners)
  BY <1>2, LenProperties
<1>4. /\ listeners' \in Seq(Listener) /\ Len(listeners') = Len(listeners) - 1
      /\ \A k \in 1..Len(listeners) - 1 :
           listeners'[k] = IF k < r THEN listeners[k] ELSE listeners[k + 1]
  BY <1>1, <1>2, <1>3, RemoveAtProperties
<1>5. DOMAIN listeners' = 1..Len(listeners) - 1
  BY <1>4, LenProperties
<1>6. \A k \in 1..Len(listeners) : listeners[k].id \in Nat
  BY <1>2, <1>3, Elements
<1>7. /\ events' \in Seq(Event) /\ event_propagation' \in BOOLEAN
      /\ DOMAIN events' = DOMAIN events
      /\ \A n \in DOMAIN events : /\ events'[n].told = events[n].told
                                  /\ events'[n].i = events[n].i
  BY <1>1, <1>2, FlagDownOrder
<1>8. TypeOK'
  BY <1>1, <1>2, <1>4, <1>7 DEF TypeOK
<1>9. IdsIncrease'
  <2>1. \A k \in 1..Len(listeners) - 1 : \E m \in 1..Len(listeners) :
          /\ listeners'[k] = listeners[m]
          /\ m = IF k < r THEN k ELSE k + 1
    BY <1>3, <1>4
  <2>2. \A k \in 1..Len(listeners) - 1 : listeners'[k].id < listener_cnt
    BY <1>3, <2>1 DEF OrderInv, IdsIncrease
  <2>3. ASSUME NEW k \in 1..Len(listeners) - 1, NEW l \in 1..Len(listeners) - 1, k < l
        PROVE  listeners'[k].id < listeners'[l].id
    <3>1. PICK m \in 1..Len(listeners) :
            listeners'[k] = listeners[m] /\ m = IF k < r THEN k ELSE k + 1
      BY <2>1
    <3>2. PICK n \in 1..Len(listeners) :
            listeners'[l] = listeners[n] /\ n = IF l < r THEN l ELSE l + 1
      BY <2>1
    <3>3. m < n
      BY <1>3, <2>3, <3>1, <3>2
    <3> QED BY <1>3, <3>1, <3>2, <3>3 DEF OrderInv, IdsIncrease
  <2> QED BY <1>1, <1>5, <2>2, <2>3 DEF IdsIncrease
<1>10. \A n \in DOMAIN events : events[n].i \in Nat
  BY <1>2, Elements
<1>11. ToldIsBehind'
  <2> SUFFICES ASSUME NEW n \in DOMAIN events, NEW a \in DOMAIN events[n].told
               PROVE  /\ events[n].told[a] < listener_cnt
                      /\ \A k \in 1..Len(listeners) - 1 :
                           events[n].i < k => events[n].told[a] < listeners'[k].id
    BY <1>1, <1>5, <1>7 DEF ToldIsBehind
  <2>1. \A k \in 1..Len(listeners) : events[n].i < k => events[n].told[a] < listeners[k].id
    BY <1>3 DEF OrderInv, ToldIsBehind
  <2>2. events[n].told[a] < listener_cnt
    BY DEF OrderInv, ToldIsBehind
  <2>3. ASSUME NEW k \in 1..Len(listeners) - 1, events[n].i < k
        PROVE  events[n].told[a] < listeners'[k].id
    <3>1. k \in 1..Len(listeners) /\ k + 1 \in 1..Len(listeners) /\ events[n].i < k + 1
      BY <1>3, <1>10, <2>3
    <3> QED BY <1>4, <2>1, <2>3, <3>1
  <2> QED BY <2>2, <2>3
<1>12. ToldInOrder'
  BY <1>7 DEF OrderInv, ToldInOrder
<1> QED BY <1>8, <1>9, <1>11, <1>12 DEF OrderInv

LEMMA StopPropagationOrder ==
  ASSUME OrderInv, StopPropagation
  PROVE  OrderInv'
<1>1. FlagDown("stop") /\ UNCHANGED <<listeners, listener_cnt>> /\ TypeOK
  BY DEF StopPropagation, OrderInv
<1>2. /\ events' \in Seq(Event) /\ event_propagation' \in BOOLEAN
      /\ DOMAIN events' = DOMAIN events
      /\ \A n \in DOMAIN events : /\ events'[n].told = events[n].told
                                  /\ events'[n].i = events[n].i
  BY <1>1, FlagDownOrder
<1>3. TypeOK'
  BY <1>1, <1>2 DEF TypeOK
<1>4. IdsIncrease'
  BY <1>1 DEF OrderInv, IdsIncrease
<1>5. ToldIsBehind'
  BY <1>1, <1>2 DEF OrderInv, ToldIsBehind
<1>6. ToldInOrder'
  BY <1>2 DEF OrderInv, ToldInOrder
<1> QED BY <1>3, <1>4, <1>5, <1>6 DEF OrderInv

(* The place the loop goes on from is a place of the array. *)
LEMMA FirstFromType ==
  ASSUME TypeOK, NEW kind, NEW i, NEW k \in FirstFrom(kind, i)
  PROVE  k \in DOMAIN listeners /\ k \in Nat /\ k >= i
BY Elements DEF FirstFrom, Matching

(* Nor does noting that an event is notified inside others. *)
LEMMA OuterOrder ==
  ASSUME TypeOK
  PROVE  /\ Outer \in Seq(Event) /\ DOMAIN Outer = DOMAIN events
         /\ \A n \in DOMAIN events : /\ Outer[n].told = events[n].told
                                     /\ Outer[n].i = events[n].i
<1> DEFINE g(n) == [events[n] EXCEPT !.meanwhile = events[n].meanwhile \cup {"notify"}]
<1>1. events \in Seq(Event) /\ DOMAIN events = 1..Len(events) /\ Len(events) \in Nat
  BY Elements DEF TypeOK
<1>2. Outer = [n \in 1..Len(events) |-> g(n)]
  BY <1>1 DEF Outer
<1>3. \A n \in 1..Len(events) : g(n) \in Event /\ g(n).told = events[n].told /\ g(n).i = events[n].i
  <2> SUFFICES ASSUME NEW n \in 1..Len(events)
               PROVE  g(n) \in Event /\ g(n).told = events[n].told /\ g(n).i = events[n].i
    OBVIOUS
  <2>1. events[n] \in Event
    BY <1>1, ElementOfSeq
  <2>2. events[n].meanwhile \cup {"notify"} \in SUBSET {"stop", "remove", "notify"}
    BY <2>1 DEF Event
  <2> QED BY <2>1, <2>2 DEF Event
<1> HIDE DEF g
<1>4. Outer \in [1..Len(events) -> Event]
  BY <1>2, <1>3
<1>5. Outer \in Seq(Event)
  BY <1>1, <1>4, SeqDef
<1> QED BY <1>1, <1>2, <1>3, <1>5

(* An event begins: it has called one listener and is at its place. *)
LEMMA NotifyOrder ==
  ASSUME OrderInv, NEW kind \in Kind, Notify(kind)
  PROVE  OrderInv'
<1>1. event_propagation' = TRUE /\ UNCHANGED <<listeners, listener_cnt>> /\ TypeOK
  BY DEF Notify, OrderInv
<1>2. CASE events' = Outer
  <2>1. TypeOK'
    BY <1>1, <1>2, OuterOrder DEF TypeOK
  <2>2. IdsIncrease'
    BY <1>1 DEF OrderInv, IdsIncrease
  <2>3. ToldIsBehind'
    BY <1>1, <1>2, OuterOrder DEF OrderInv, ToldIsBehind
  <2>4. ToldInOrder'
    BY <1>1, <1>2, OuterOrder DEF OrderInv, ToldInOrder
  <2> QED BY <2>1, <2>2, <2>3, <2>4 DEF OrderInv
<1>3. ASSUME NEW k \in FirstFrom(kind, 1),
             events' = Append(Outer,
               [kind |-> kind, i |-> k, told |-> <<listeners[k].id>>,
                present |-> {listeners[l].id : l \in Matching(kind)},
                stopped |-> FALSE, meanwhile |-> {}])
      PROVE  OrderInv'
  <2> DEFINE e == [kind |-> kind, i |-> k, told |-> <<listeners[k].id>>,
                   present |-> {listeners[l].id : l \in Matching(kind)},
                   stopped |-> FALSE, meanwhile |-> {}]
  <2>1. k \in DOMAIN listeners /\ k \in Nat /\ listeners[k].id \in Nat
    BY <1>1, FirstFromType, Elements
  <2>2. e \in Event
    <3>1. {listeners[l].id : l \in Matching(kind)} \in SUBSET Nat
      BY <1>1, Elements DEF Matching
    <3>2. <<listeners[k].id>> \in Seq(Nat)
      BY <2>1
    <3> QED BY <2>1, <3>1, <3>2 DEF Event
  <2>3. e.told = <<listeners[k].id>> /\ e.i = k
    OBVIOUS
  <2>4. Outer \in Seq(Event) /\ events' = Append(Outer, e)
    BY <1>1, <1>3, OuterOrder
  <2> HIDE DEF e
  <2>5. /\ events' \in Seq(Event) /\ Len(events') = Len(Outer) + 1
        /\ \A n \in 1..Len(Outer) : events'[n] = Outer[n]
        /\ events'[Len(Outer) + 1] = e
    BY <2>2, <2>4, AppendProperties
  <2>6. /\ DOMAIN Outer = 1..Len(Outer) /\ Len(Outer) \in Nat
        /\ DOMAIN events' = 1..Len(Outer) + 1
    BY <2>4, <2>5, LenProperties
  <2>7. DOMAIN e.told = {1} /\ e.told[1] = listeners[k].id
    BY <2>3
  <2>8. TypeOK'
    BY <1>1, <2>5 DEF TypeOK
  <2>9. IdsIncrease'
    BY <1>1 DEF OrderInv, IdsIncrease
  <2>10. \A n \in DOMAIN events' :
           \/ /\ n \in DOMAIN events
              /\ events'[n].told = events[n].told /\ events'[n].i = events[n].i
           \/ events'[n] = e
    BY <1>1, <2>5, <2>6, OuterOrder
  <2>11. ToldIsBehind'
    <3> SUFFICES ASSUME NEW n \in DOMAIN events', NEW a \in DOMAIN events'[n].told
                 PROVE  /\ events'[n].told[a] < listener_cnt
                        /\ \A l \in DOMAIN listeners :
                             events'[n].i < l => events'[n].told[a] < listeners[l].id
      BY <1>1 DEF ToldIsBehind
    <3>1. CASE n \in DOMAIN events /\ events'[n].told = events[n].told /\ events'[n].i = events[n].i
      BY <3>1 DEF OrderInv, ToldIsBehind
    <3>2. CASE events'[n] = e
      <4>1. events'[n].told[a] = listeners[k].id /\ events'[n].i = k
        BY <2>3, <2>7, <3>2
      <4> QED BY <2>1, <4>1 DEF OrderInv, IdsIncrease
    <3> QED BY <2>10, <3>1, <3>2
  <2>12. ToldInOrder'
    <3> SUFFICES ASSUME NEW n \in DOMAIN events', NEW a \in DOMAIN events'[n].told,
                        NEW b \in DOMAIN events'[n].told, a < b
                 PROVE  events'[n].told[a] < events'[n].told[b]
      BY DEF ToldInOrder
    <3>1. CASE n \in DOMAIN events /\ events'[n].told = events[n].told /\ events'[n].i = events[n].i
      BY <3>1 DEF OrderInv, ToldInOrder
    <3>2. CASE events'[n] = e
      BY <2>7, <3>2
    <3> QED BY <2>10, <3>1, <3>2
  <2> QED BY <2>8, <2>9, <2>11, <2>12 DEF OrderInv
<1> QED BY <1>2, <1>3 DEF Notify

LEMMA FinishOrder ==
  ASSUME OrderInv, Finish
  PROVE  OrderInv'
<1>1. /\ events # <<>> /\ events' = Front(events)
      /\ UNCHANGED <<listeners, listener_cnt, event_propagation>>
  BY DEF Finish
<1>2. events \in Seq(Event)
  BY DEF OrderInv, TypeOK
<1>3. /\ events' \in Seq(Event) /\ Len(events') = Len(events) - 1
      /\ \A n \in 1..Len(events) - 1 : events'[n] = events[n]
  BY <1>1, <1>2, FrontTheorem
<1>4. DOMAIN events' = 1..Len(events) - 1 /\ DOMAIN events = 1..Len(events) /\ Len(events) \in Nat
  BY <1>2, <1>3, LenProperties
<1>5. \A n \in DOMAIN events' : n \in DOMAIN events /\ events'[n] = events[n]
  BY <1>3, <1>4
<1>6. TypeOK'
  BY <1>1, <1>3 DEF OrderInv, TypeOK
<1>7. IdsIncrease'
  BY <1>1 DEF OrderInv, IdsIncrease
<1>8. ToldIsBehind'
  BY <1>1, <1>5 DEF OrderInv, ToldIsBehind
<1>9. ToldInOrder'
  BY <1>5 DEF OrderInv, ToldInOrder
<1> QED BY <1>6, <1>7, <1>8, <1>9 DEF OrderInv

(* The next listener of the event is behind the ones it has called. *)
LEMMA ContinueOrder ==
  ASSUME OrderInv, Continue
  PROVE  OrderInv'
<1> DEFINE m == Len(events)
<1>1. /\ events # <<>> /\ UNCHANGED <<listeners, listener_cnt, event_propagation>> /\ TypeOK
  BY DEF Continue, OrderInv
<1>2. PICK k \in FirstFrom(events[m].kind, events[m].i + 1) :
        events' = [events EXCEPT ![m].i = k,
                                 ![m].told = Append(events[m].told, listeners[k].id)]
  BY DEF Continue, Running
<1>3. events \in Seq(Event) /\ m \in Nat /\ m \in 1..m /\ m \in DOMAIN events
      /\ DOMAIN events = 1..m
  <2>1. events \in Seq(Event)
    BY <1>1 DEF TypeOK
  <2>2. m \in Nat \ {0} /\ DOMAIN events = 1..m
    BY <1>1, <2>1, EmptySeq, LenProperties
  <2> QED BY <2>1, <2>2
<1> DEFINE old == events[m]
           new == [old EXCEPT !.i = k, !.told = Append(old.told, listeners[k].id)]
<1>4. /\ old \in Event /\ old.i \in Nat /\ old.told \in Seq(Nat)
      /\ DOMAIN old.told = 1..Len(old.told) /\ Len(old.told) \in Nat
      /\ \A a \in DOMAIN old.told : old.told[a] \in Nat
  BY <1>1, <1>3, Elements
<1>5. k \in DOMAIN listeners /\ k \in Nat /\ k >= old.i + 1 /\ listeners[k].id \in Nat
  BY <1>1, FirstFromType, Elements
<1>6. /\ Append(old.told, listeners[k].id) \in Seq(Nat)
      /\ DOMAIN Append(old.told, listeners[k].id) = 1..Len(old.told) + 1
      /\ \A a \in 1..Len(old.told) : Append(old.told, listeners[k].id)[a] = old.told[a]
      /\ Append(old.told, listeners[k].id)[Len(old.told) + 1] = listeners[k].id
  BY <1>4, <1>5, AppendProperties, LenProperties
<1>7. new \in Event /\ new.i = k /\ new.told = Append(old.told, listeners[k].id)
  BY <1>4, <1>5, <1>6 DEF Event
<1>8. events' = [events EXCEPT ![m] = new]
  BY <1>2
<1> HIDE DEF new
<1>9. /\ events' \in Seq(Event) /\ Len(events') = m
      /\ \A n \in 1..m : events'[n] = IF n = m THEN new ELSE events[n]
  BY <1>3, <1>7, <1>8, ExceptSeq
<1>10. DOMAIN events' = 1..m
  BY <1>9, LenProperties
<1> HIDE DEF m, old
<1>11. \A n \in DOMAIN events' : (n \in DOMAIN events /\ events'[n] = events[n]) \/ events'[n] = new
  BY <1>3, <1>9, <1>10
<1>12. \A a \in DOMAIN old.told :
         /\ old.told[a] < listener_cnt
         /\ \A l \in DOMAIN listeners : old.i < l => old.told[a] < listeners[l].id
  BY <1>3 DEF OrderInv, ToldIsBehind, old
<1>13. \A a \in DOMAIN old.told : old.told[a] < listeners[k].id
  <2>1. old.i < k
    BY <1>4, <1>5
  <2> QED BY <1>5, <1>12, <2>1
<1>14. TypeOK'
  BY <1>1, <1>9 DEF TypeOK
<1>15. IdsIncrease'
  BY <1>1 DEF OrderInv, IdsIncrease
<1>16. ToldIsBehind'
  <2> SUFFICES ASSUME NEW n \in DOMAIN events', NEW a \in DOMAIN events'[n].told
               PROVE  /\ events'[n].told[a] < listener_cnt
                      /\ \A l \in DOMAIN listeners :
                           events'[n].i < l => events'[n].told[a] < listeners[l].id
    BY <1>1 DEF ToldIsBehind
  <2>1. CASE n \in DOMAIN events /\ events'[n] = events[n]
    BY <2>1 DEF OrderInv, ToldIsBehind
  <2>2. CASE events'[n] = new /\ a \in 1..Len(old.told)
    <3>1. events'[n].told[a] = old.told[a] /\ events'[n].i = k
      BY <1>6, <1>7, <2>2
    <3>2. \A l \in DOMAIN listeners : k < l => old.i < l
      BY <1>1, <1>4, <1>5, Elements
    <3> QED BY <1>4, <1>12, <2>2, <3>1, <3>2
  <2>3. CASE events'[n] = new /\ a \notin 1..Len(old.told)
    <3>1. a = Len(old.told) + 1
      BY <1>4, <1>6, <1>7, <2>3
    <3>2. events'[n].told[a] = listeners[k].id /\ events'[n].i = k
      BY <1>6, <1>7, <2>3, <3>1
    <3> QED BY <1>5, <3>2 DEF OrderInv, IdsIncrease
  <2> QED BY <1>11, <2>1, <2>2, <2>3
<1>17. ToldInOrder'
  <2> SUFFICES ASSUME NEW n \in DOMAIN events', NEW a \in DOMAIN events'[n].told,
                      NEW b \in DOMAIN events'[n].told, a < b
               PROVE  events'[n].told[a] < events'[n].told[b]
    BY DEF ToldInOrder
  <2>1. CASE n \in DOMAIN events /\ events'[n] = events[n]
    BY <2>1 DEF OrderInv, ToldInOrder
  <2>2. CASE events'[n] = new
    <3>1. a \in 1..Len(old.told) /\ events'[n].told[a] = old.told[a]
      BY <1>4, <1>6, <1>7, <2>2
    <3>2. CASE b \in 1..Len(old.told)
      BY <1>3, <1>4, <1>6, <1>7, <2>2, <3>1, <3>2 DEF OrderInv, ToldInOrder, old
    <3>3. CASE b \notin 1..Len(old.told)
      <4>1. b = Len(old.told) + 1
        BY <1>4, <1>6, <1>7, <2>2, <3>3
      <4> QED BY <1>4, <1>6, <1>7, <1>13, <2>2, <3>1, <4>1
    <3> QED BY <3>2, <3>3
  <2> QED BY <1>11, <2>1, <2>2
<1> QED BY <1>14, <1>15, <1>16, <1>17 DEF OrderInv

LEMMA NextOrder == OrderInv /\ [Next]_vars => OrderInv'
<1> SUFFICES ASSUME OrderInv, [Next]_vars PROVE OrderInv'
  OBVIOUS
<1>1. CASE UNCHANGED vars
  BY <1>1 DEF vars, OrderInv, TypeOK, IdsIncrease, ToldIsBehind, ToldInOrder
<1> QED
  BY <1>1, RegisterOrder, NotifyOrder, RemoveListenerOrder, StopPropagationOrder,
     FinishOrder, ContinueOrder DEF Next

-----------------------------------------------------------------------------
(* Every event calls each listener at most once and in the order of        *)
(* registration, however deep events are notified inside one another and   *)
(* whatever is registered, removed or stopped meanwhile.                   *)
THEOREM ToldInOrderCorrect == Spec => []ToldInOrder
<1>1. OrderInv => ToldInOrder
  BY DEF OrderInv
<1> QED BY <1>1, InitOrder, NextOrder, PTL DEF Spec

-----------------------------------------------------------------------------
(* Who is told.  The invariant is about one event e, the array L, the      *)
(* counter cnt and the flag on.                                            *)

(* The listeners an event found at its start are known by their            *)
(* identifiers.                                                            *)
Known(e, L, cnt) ==
  /\ \A x \in e.present : x < cnt
  /\ \A k \in DOMAIN L : L[k].id \in e.present => L[k].kind = e.kind

(* The flag is down if the last that was done about it put it down.        *)
Flagged(e, on) ==
  /\ e.stopped => "stop" \in e.meanwhile
  /\ e.meanwhile \subseteq {"notify"} => on
  /\ on => e.meanwhile = {} \/ "notify" \in e.meanwhile

(* Until one is removed, they are in the array, and told up to the place   *)
(* of the event.                                                           *)
Covered(e, L) ==
  "remove" \notin e.meanwhile =>
    /\ \A x \in e.present : \E k \in DOMAIN L : L[k].id = x
    /\ \A k \in DOMAIN L : k <= e.i /\ L[k].id \in e.present => L[k].id \in ToSet(e.told)

Unskipped(e, L) ==
  "notify" \notin e.meanwhile =>
    \A k \in DOMAIN L :
      L[k].id \in e.present /\ L[k].id < Last(e.told) => L[k].id \in ToSet(e.told)

Complete(e, L, cnt, on) ==
  Known(e, L, cnt) /\ Flagged(e, on) /\ Covered(e, L) /\ Unskipped(e, L)

AllComplete ==
  \A n \in DOMAIN events : Complete(events[n], listeners, listener_cnt, event_propagation)

CompleteInv == OrderInv /\ AllComplete

(* A new listener is not one that was there.                               *)
LEMMA RegisterComplete ==
  ASSUME CompleteInv, NEW kind \in Kind, Register(kind)
  PROVE  AllComplete'
<1> DEFINE new == [id |-> listener_cnt, kind |-> kind]
<1>1. /\ listeners' = Append(listeners, new)
      /\ listener_cnt' = listener_cnt + 1
      /\ UNCHANGED <<event_propagation, events>>
  BY DEF Register
<1>2. listeners \in Seq(Listener) /\ listener_cnt \in Nat /\ TypeOK
  BY DEF CompleteInv, OrderInv, TypeOK
<1>3. new \in Listener /\ new.id = listener_cnt
  BY <1>2 DEF Listener
<1> HIDE DEF new
<1>4. /\ Len(listeners') = Len(listeners) + 1 /\ listeners' \in Seq(Listener)
      /\ \A k \in 1..Len(listeners) : listeners'[k] = listeners[k]
      /\ listeners'[Len(listeners) + 1] = new
  BY <1>1, <1>2, <1>3, AppendProperties
<1>5. DOMAIN listeners = 1..Len(listeners) /\ DOMAIN listeners' = 1..Len(listeners) + 1
      /\ Len(listeners) \in Nat
  BY <1>2, <1>4, LenProperties
<1>6. ASSUME NEW n \in DOMAIN events
      PROVE  Complete(events[n], listeners', listener_cnt', event_propagation)
  <2> DEFINE e == events[n]
  <2>1. Complete(e, listeners, listener_cnt, event_propagation)
    BY DEF CompleteInv, AllComplete
  <2>2. e.present \in SUBSET Nat
    BY <1>2, Elements DEF Event
  <2> HIDE DEF e
  <2>3. \A x \in e.present : x < listener_cnt /\ x \in Nat
    BY <2>1, <2>2 DEF Complete, Known
  <2>4. \A k \in DOMAIN listeners' : listeners'[k].id \in e.present =>
          k \in DOMAIN listeners /\ listeners'[k] = listeners[k]
    BY <1>2, <1>3, <1>4, <1>5, <2>3
  <2>5. Known(e, listeners', listener_cnt')
    BY <1>1, <1>2, <2>1, <2>3, <2>4 DEF Complete, Known
  <2>6. Covered(e, listeners')
    BY <1>4, <1>5, <2>1, <2>4 DEF Complete, Covered
  <2>7. Unskipped(e, listeners')
    BY <2>1, <2>4 DEF Complete, Unskipped
  <2>8. Complete(e, listeners', listener_cnt', event_propagation)
    BY <2>1, <2>5, <2>6, <2>7 DEF Complete
  <2> QED BY <2>8 DEF e
<1> QED BY <1>1, <1>6 DEF AllComplete

(* What noting something about an event leaves of it.                      *)
Noted(f, e, what) ==
  /\ f.kind = e.kind /\ f.i = e.i /\ f.told = e.told /\ f.present = e.present
  /\ f.meanwhile = e.meanwhile \cup {what}
  /\ f.stopped => e.stopped \/ what = "stop"

LEMMA FlagDownNotes ==
  ASSUME TypeOK, NEW what \in {"stop", "remove"}, FlagDown(what)
  PROVE  /\ event_propagation' = FALSE
         /\ DOMAIN events' = DOMAIN events
         /\ \A n \in DOMAIN events : Noted(events'[n], events[n], what)
<1> DEFINE g(n) == [events[n] EXCEPT !.meanwhile = events[n].meanwhile \cup {what},
                       !.stopped = events[n].stopped \/ (what = "stop" /\ n = Len(events))]
<1>1. events' = [n \in DOMAIN events |-> g(n)] /\ event_propagation' = FALSE
  BY DEF FlagDown
<1>2. \A n \in DOMAIN events : Noted(g(n), events[n], what)
  <2> TAKE n \in DOMAIN events
  <2>1. events[n] \in Event
    BY Elements
  <2> QED BY <2>1 DEF Event, Noted
<1> HIDE DEF g
<1> QED BY <1>1, <1>2

LEMMA OuterNotes ==
  ASSUME TypeOK
  PROVE  \A n \in DOMAIN events : Noted(Outer[n], events[n], "notify")
<1> DEFINE g(n) == [events[n] EXCEPT !.meanwhile = events[n].meanwhile \cup {"notify"}]
<1>1. Outer = [n \in DOMAIN events |-> g(n)]
  BY DEF Outer
<1>2. \A n \in DOMAIN events : Noted(g(n), events[n], "notify")
  <2> TAKE n \in DOMAIN events
  <2>1. events[n] \in Event
    BY Elements
  <2> QED BY <2>1 DEF Event, Noted
<1> HIDE DEF g
<1> QED BY <1>1, <1>2

(* The array is shifted, so places say no more; the flag is down.          *)
LEMMA RemoveListenerComplete ==
  ASSUME CompleteInv, NEW r \in DOMAIN listeners, RemoveListener(r)
  PROVE  AllComplete'
<1>1. /\ listeners' = RemoveAt(listeners, r) /\ FlagDown("remove")
      /\ UNCHANGED listener_cnt
  BY DEF RemoveListener
<1>2. listeners \in Seq(Listener) /\ TypeOK
  BY DEF CompleteInv, OrderInv, TypeOK
<1>3. DOMAIN listeners = 1..Len(listeners) /\ Len(listeners) \in Nat /\ r \in 1..Len(listeners)
  BY <1>2, LenProperties
<1>4. /\ listeners' \in Seq(Listener) /\ Len(listeners') = Len(listeners) - 1
      /\ \A k \in 1..Len(listeners) - 1 :
           listeners'[k] = IF k < r THEN listeners[k] ELSE listeners[k + 1]
  BY <1>1, <1>2, <1>3, RemoveAtProperties
<1>5. DOMAIN listeners' = 1..Len(listeners) - 1
  BY <1>4, LenProperties
<1>6. \A k \in DOMAIN listeners' : \E l \in DOMAIN listeners : listeners'[k] = listeners[l]
  BY <1>3, <1>4, <1>5
<1>7. /\ event_propagation' = FALSE /\ DOMAIN events' = DOMAIN events
      /\ \A n \in DOMAIN events : Noted(events'[n], events[n], "remove")
  BY <1>1, <1>2, FlagDownNotes
<1>8. ASSUME NEW n \in DOMAIN events
      PROVE  Complete(events'[n], listeners', listener_cnt, FALSE)
  <2> DEFINE e == events[n]
             f == events'[n]
  <2>1. Complete(e, listeners, listener_cnt, event_propagation)
    BY DEF CompleteInv, AllComplete
  <2>2. Noted(f, e, "remove")
    BY <1>7
  <2> HIDE DEF e, f
  <2>3. Known(f, listeners', listener_cnt)
    BY <1>6, <2>1, <2>2 DEF Complete, Known, Noted
  <2>4. Flagged(f, FALSE) /\ Covered(f, listeners')
    BY <2>1, <2>2 DEF Complete, Flagged, Covered, Noted
  <2>5. Unskipped(f, listeners')
    BY <1>6, <2>1, <2>2 DEF Complete, Unskipped, Noted
  <2>6. Complete(f, listeners', listener_cnt, FALSE)
    BY <2>3, <2>4, <2>5 DEF Complete
  <2> QED BY <2>6 DEF f
<1> QED BY <1>1, <1>7, <1>8 DEF AllComplete

LEMMA StopPropagationComplete ==
  ASSUME CompleteInv, StopPropagation
  PROVE  AllComplete'
<1>1. FlagDown("stop") /\ UNCHANGED <<listeners, listener_cnt>> /\ TypeOK
  BY DEF StopPropagation, CompleteInv, OrderInv
<1>2. /\ event_propagation' = FALSE /\ DOMAIN events' = DOMAIN events
      /\ \A n \in DOMAIN events : Noted(events'[n], events[n], "stop")
  BY <1>1, FlagDownNotes
<1>3. ASSUME NEW n \in DOMAIN events
      PROVE  Complete(events'[n], listeners, listener_cnt, FALSE)
  <2> DEFINE e == events[n]
             f == events'[n]
  <2>1. Complete(e, listeners, listener_cnt, event_propagation)
    BY DEF CompleteInv, AllComplete
  <2>2. Noted(f, e, "stop")
    BY <1>2
  <2> HIDE DEF e, f
  <2>3. Known(f, listeners, listener_cnt) /\ Flagged(f, FALSE)
    BY <2>1, <2>2 DEF Complete, Known, Flagged, Noted
  <2>4. Covered(f, listeners) /\ Unskipped(f, listeners)
    BY <2>1, <2>2 DEF Complete, Covered, Unskipped, Noted
  <2>5. Complete(f, listeners, listener_cnt, FALSE)
    BY <2>3, <2>4 DEF Complete
  <2> QED BY <2>5 DEF f
<1> QED BY <1>1, <1>2, <1>3 DEF AllComplete

(* The outer events of a new one go on with the flag up.                   *)
LEMMA OuterComplete ==
  ASSUME CompleteInv, NEW n \in DOMAIN events
  PROVE  Complete(Outer[n], listeners, listener_cnt, TRUE)
<1> DEFINE e == events[n]
           f == Outer[n]
<1>1. Complete(e, listeners, listener_cnt, event_propagation)
  BY DEF CompleteInv, AllComplete
<1>2. Noted(f, e, "notify")
  BY OuterNotes DEF CompleteInv, OrderInv
<1> HIDE DEF e, f
<1>3. Known(f, listeners, listener_cnt) /\ Flagged(f, TRUE)
  BY <1>1, <1>2 DEF Complete, Known, Flagged, Noted
<1>4. Covered(f, listeners) /\ Unskipped(f, listeners)
  BY <1>1, <1>2 DEF Complete, Covered, Unskipped, Noted
<1>5. Complete(f, listeners, listener_cnt, TRUE)
  BY <1>3, <1>4 DEF Complete
<1> QED BY <1>5 DEF f

(* An event that begins has called the first of those that were there.     *)
LEMMA BeginComplete ==
  ASSUME CompleteInv, NEW kind, NEW k \in FirstFrom(kind, 1), NEW e,
         e = [kind |-> kind, i |-> k, told |-> <<listeners[k].id>>,
              present |-> {listeners[l].id : l \in Matching(kind)},
              stopped |-> FALSE, meanwhile |-> {}]
  PROVE  Complete(e, listeners, listener_cnt, TRUE)
<1>1. TypeOK /\ IdsIncrease
  BY DEF CompleteInv, OrderInv
<1>2. /\ e.kind = kind /\ e.i = k /\ e.told = <<listeners[k].id>>
      /\ e.present = {listeners[l].id : l \in Matching(kind)}
      /\ ~e.stopped /\ e.meanwhile = {}
  OBVIOUS
<1>3. /\ DOMAIN listeners = 1..Len(listeners) /\ Len(listeners) \in Nat
      /\ \A l \in DOMAIN listeners : listeners[l].id \in Nat
  BY <1>1, Elements
<1>4. \A l, m \in DOMAIN listeners : listeners[l].id = listeners[m].id => l = m
  BY <1>1, <1>3 DEF IdsIncrease
<1>5. \A l \in DOMAIN listeners : listeners[l].id \in e.present => l \in Matching(kind)
  BY <1>2, <1>3, <1>4 DEF Matching
<1>6. k \in Matching(kind) /\ \A l \in Matching(kind) : k <= l
  BY <1>3 DEF FirstFrom, Matching
<1>7. ToSet(e.told) = {listeners[k].id} /\ Last(e.told) = listeners[k].id
  BY <1>2 DEF ToSet, Last
<1>8. Known(e, listeners, listener_cnt)
  <2>1. \A x \in e.present : x < listener_cnt
    BY <1>1, <1>2, <1>3 DEF IdsIncrease, Matching
  <2> QED BY <1>2, <1>5, <2>1 DEF Known, Matching
<1>9. Flagged(e, TRUE)
  BY <1>2 DEF Flagged
<1>10. Covered(e, listeners)
  <2>1. \A x \in e.present : \E l \in DOMAIN listeners : listeners[l].id = x
    BY <1>2, <1>3 DEF Matching
  <2>2. \A l \in DOMAIN listeners :
          l <= e.i /\ listeners[l].id \in e.present => listeners[l].id \in ToSet(e.told)
    BY <1>2, <1>3, <1>5, <1>6, <1>7 DEF Matching
  <2> QED BY <2>1, <2>2 DEF Covered
<1>11. Unskipped(e, listeners)
  <2> SUFFICES ASSUME NEW l \in DOMAIN listeners, listeners[l].id \in e.present,
                      listeners[l].id < listeners[k].id
               PROVE  FALSE
    BY <1>7 DEF Unskipped
  <2>1. k <= l /\ k \in DOMAIN listeners
    BY <1>3, <1>5, <1>6 DEF Matching
  <2> QED BY <1>1, <1>3, <2>1 DEF IdsIncrease
<1> QED BY <1>8, <1>9, <1>10, <1>11 DEF Complete

LEMMA NotifyComplete ==
  ASSUME CompleteInv, NEW kind \in Kind, Notify(kind)
  PROVE  AllComplete'
<1>1. event_propagation' = TRUE /\ UNCHANGED <<listeners, listener_cnt>> /\ TypeOK
  BY DEF Notify, CompleteInv, OrderInv
<1>2. /\ Outer \in Seq(Event) /\ DOMAIN Outer = DOMAIN events
      /\ DOMAIN Outer = 1..Len(Outer) /\ Len(Outer) \in Nat
  BY <1>1, OuterOrder, LenProperties
<1>3. CASE events' = Outer
  BY <1>1, <1>2, <1>3, OuterComplete DEF AllComplete
<1>4. ASSUME NEW k \in FirstFrom(kind, 1),
             events' = Append(Outer,
               [kind |-> kind, i |-> k, told |-> <<listeners[k].id>>,
                present |-> {listeners[l].id : l \in Matching(kind)},
                stopped |-> FALSE, meanwhile |-> {}])
      PROVE  AllComplete'
  <2> DEFINE e == [kind |-> kind, i |-> k, told |-> <<listeners[k].id>>,
                   present |-> {listeners[l].id : l \in Matching(kind)},
                   stopped |-> FALSE, meanwhile |-> {}]
  <2>1. Complete(e, listeners, listener_cnt, TRUE)
    BY BeginComplete
  <2>2. events' \in Seq(Event)
    BY NotifyOrder DEF CompleteInv, OrderInv, TypeOK
  <2>3. events' = Append(Outer, e)
    BY <1>4
  <2> HIDE DEF e
  <2>4. /\ DOMAIN events' = 1..Len(Outer) + 1
        /\ \A n \in 1..Len(Outer) : events'[n] = Outer[n]
        /\ events'[Len(Outer) + 1] = e
    BY <1>2, <2>3
  <2>5. \A n \in DOMAIN events' : Complete(events'[n], listeners, listener_cnt, TRUE)
    <3> TAKE n \in DOMAIN events'
    <3>1. (n \in DOMAIN events /\ events'[n] = Outer[n]) \/ events'[n] = e
      BY <1>2, <2>4
    <3> QED BY <2>1, <3>1, OuterComplete
  <2> QED BY <1>1, <2>5 DEF AllComplete
<1> QED BY <1>3, <1>4 DEF Notify

LEMMA FinishComplete ==
  ASSUME CompleteInv, Finish
  PROVE  AllComplete'
<1>1. /\ events # <<>> /\ events' = Front(events) /\ events \in Seq(Event)
      /\ UNCHANGED <<listeners, listener_cnt, event_propagation>>
  BY DEF Finish, CompleteInv, OrderInv, TypeOK
<1>2. /\ events' \in Seq(Event) /\ Len(events') = Len(events) - 1
      /\ \A n \in 1..Len(events) - 1 : events'[n] = events[n]
  BY <1>1, FrontTheorem
<1>3. DOMAIN events' = 1..Len(events) - 1 /\ DOMAIN events = 1..Len(events) /\ Len(events) \in Nat
  BY <1>1, <1>2, LenProperties
<1>4. \A n \in DOMAIN events' : n \in DOMAIN events /\ events'[n] = events[n]
  BY <1>2, <1>3
<1> QED BY <1>1, <1>4 DEF CompleteInv, AllComplete

(* The event goes on to the next of those that were there.                 *)
LEMMA ContinueComplete ==
  ASSUME CompleteInv, Continue
  PROVE  AllComplete'
<1> DEFINE m == Len(events)
           old == events[m]
<1>1. /\ events # <<>> /\ event_propagation
      /\ UNCHANGED <<listeners, listener_cnt, event_propagation>>
      /\ TypeOK /\ IdsIncrease
  BY DEF Continue, CompleteInv, OrderInv
<1>2. PICK k \in FirstFrom(old.kind, old.i + 1) :
        events' = [events EXCEPT ![m].i = k,
                                 ![m].told = Append(old.told, listeners[k].id)]
  BY DEF Continue, Running
<1>3. events \in Seq(Event) /\ m \in DOMAIN events /\ DOMAIN events = 1..m
  <2>1. events \in Seq(Event)
    BY <1>1 DEF TypeOK
  <2>2. m \in Nat \ {0} /\ DOMAIN events = 1..m
    BY <1>1, <2>1, EmptySeq, LenProperties
  <2> QED BY <2>1, <2>2
<1> DEFINE new == [old EXCEPT !.i = k, !.told = Append(old.told, listeners[k].id)]
<1>4. /\ old \in Event /\ old.i \in Nat /\ old.told \in Seq(Nat)
      /\ DOMAIN old.told = 1..Len(old.told) /\ Len(old.told) \in Nat
  BY <1>1, <1>3, Elements
<1>5. /\ k \in DOMAIN listeners /\ k \in Nat /\ k >= old.i + 1 /\ listeners[k].id \in Nat
      /\ DOMAIN listeners = 1..Len(listeners) /\ Len(listeners) \in Nat
      /\ \A l \in DOMAIN listeners : listeners[l].id \in Nat
  BY <1>1, FirstFromType, Elements
<1>6. /\ DOMAIN Append(old.told, listeners[k].id) = 1..Len(old.told) + 1
      /\ Len(Append(old.told, listeners[k].id)) = Len(old.told) + 1
      /\ \A a \in 1..Len(old.told) : Append(old.told, listeners[k].id)[a] = old.told[a]
      /\ Append(old.told, listeners[k].id)[Len(old.told) + 1] = listeners[k].id
  BY <1>4, <1>5, AppendProperties, LenProperties
<1>7. /\ new.i = k /\ new.told = Append(old.told, listeners[k].id)
      /\ new.kind = old.kind /\ new.present = old.present
      /\ new.stopped = old.stopped /\ new.meanwhile = old.meanwhile
  BY <1>4 DEF Event
<1>8. events' = [events EXCEPT ![m] = new]
  BY <1>2
<1>9. Complete(old, listeners, listener_cnt, event_propagation)
  BY <1>3 DEF CompleteInv, AllComplete
<1> HIDE DEF new, old, m
<1>10. ToSet(new.told) = ToSet(old.told) \cup {listeners[k].id}
  BY <1>4, <1>6, <1>7 DEF ToSet
<1>11. Last(new.told) = listeners[k].id
  BY <1>6, <1>7 DEF Last
<1>12. \A l \in DOMAIN listeners :
         l < k /\ l >= old.i + 1 => listeners[l].kind # old.kind
  BY <1>4, <1>5 DEF FirstFrom, Matching
<1>13. \A l \in DOMAIN listeners :
         "remove" \notin old.meanwhile /\ l <= k /\ listeners[l].id \in old.present
           => listeners[l].id \in ToSet(new.told)
  <2> SUFFICES ASSUME NEW l \in DOMAIN listeners, "remove" \notin old.meanwhile,
                      l <= k, listeners[l].id \in old.present
               PROVE  listeners[l].id \in ToSet(new.told)
    OBVIOUS
  <2>1. CASE l = k
    BY <1>10, <2>1
  <2>2. CASE l <= old.i
    BY <1>9, <1>10, <2>2 DEF Complete, Covered
  <2>3. CASE l < k /\ l >= old.i + 1
    BY <1>9, <1>12, <2>3 DEF Complete, Known
  <2> QED BY <1>4, <1>5, <2>1, <2>2, <2>3
<1>14. Known(new, listeners, listener_cnt) /\ Flagged(new, event_propagation)
  BY <1>7, <1>9 DEF Complete, Known, Flagged
<1>15. Covered(new, listeners)
  BY <1>7, <1>9, <1>13 DEF Complete, Covered
<1>16. Unskipped(new, listeners)
  <2> SUFFICES ASSUME NEW l \in DOMAIN listeners, "notify" \notin old.meanwhile,
                      listeners[l].id \in old.present, listeners[l].id < listeners[k].id
               PROVE  listeners[l].id \in ToSet(new.told)
    BY <1>7, <1>11 DEF Unskipped
  <2>1. old.meanwhile = {}
    BY <1>1, <1>9 DEF Complete, Flagged
  <2>2. l <= k
    BY <1>1, <1>5 DEF IdsIncrease
  <2> QED BY <1>13, <2>1, <2>2
<1>17. Complete(new, listeners, listener_cnt, event_propagation)
  BY <1>14, <1>15, <1>16 DEF Complete
<1>18. DOMAIN events' = DOMAIN events
       /\ \A n \in DOMAIN events : events'[n] = events[n] \/ events'[n] = new
  BY <1>8
<1> QED BY <1>1, <1>17, <1>18 DEF CompleteInv, AllComplete

LEMMA NextComplete == CompleteInv /\ [Next]_vars => CompleteInv'
<1> SUFFICES ASSUME CompleteInv, [Next]_vars PROVE AllComplete'
  BY NextOrder DEF CompleteInv
<1>1. CASE UNCHANGED vars
  BY <1>1 DEF vars, CompleteInv, AllComplete
<1> QED
  BY <1>1, RegisterComplete, NotifyComplete, RemoveListenerComplete, StopPropagationComplete,
     FinishComplete, ContinueComplete DEF Next

LEMMA InitComplete == Init => CompleteInv
<1> SUFFICES ASSUME Init PROVE AllComplete
  BY InitOrder DEF CompleteInv
<1> QED BY DEF Init, AllComplete

(* No listener is called over the head of one that precedes it, unless a   *)
(* callback puts the flag up again by notifying another event.             *)
THEOREM NothingSkipped == Spec => []NoGaps
<1>1. CompleteInv => NoGaps
  BY DEF CompleteInv, AllComplete, Complete, Unskipped, NoGaps
<1> QED BY <1>1, InitComplete, NextComplete, PTL DEF Spec

(* When nobody is left to call, the loop is at the end of the array.       *)
LEMMA NobodyLeft ==
  ASSUME TypeOK, NEW kind, NEW i \in Nat, FirstFrom(kind, i) = {}
  PROVE  \A k \in Matching(kind) : k < i
<1> DEFINE left == {k \in Matching(kind) : k >= i}
           Less == OpToRel(<, Nat)
<1> SUFFICES ASSUME left # {} PROVE FALSE
  BY Elements DEF Matching
<1>1. left \subseteq Nat
  BY DEF Matching
<1>2. IsWellFoundedOn(Less, Nat)
  BY NatLessThanWellFounded, Zenon
<1>3. \A x, y \in Nat : x < y => <<x, y>> \in Less
  BY DEF OpToRel
<1> HIDE DEF Less
<1>4. PICK n \in left : \A m \in left : ~(<<m, n>> \in Less)
  BY <1>1, <1>2, WFMin
<1>5. \A m \in left : n <= m
  <2> HIDE DEF left
  <2> TAKE m \in left
  <2>1. m \in Nat /\ n \in Nat /\ ~(<<m, n>> \in Less)
    BY <1>1, <1>4
  <2> QED BY <1>3, <2>1
<1> QED BY <1>4, <1>5 DEF FirstFrom

(* A step that ends an event is a Finish, and ends the innermost.          *)
LEMMA EndedByFinish ==
  ASSUME CompleteInv, [Next]_vars, NEW n \in DOMAIN events, n \notin DOMAIN events'
  PROVE  Finish /\ n = Len(events)
<1>1. TypeOK /\ DOMAIN events = 1..Len(events) /\ Len(events) \in Nat
  BY Elements DEF CompleteInv, OrderInv
<1>2. ASSUME NEW kind \in Kind, Notify(kind) PROVE FALSE
  <2>1. /\ Outer \in Seq(Event) /\ DOMAIN Outer = DOMAIN events
        /\ DOMAIN Outer = 1..Len(Outer) /\ Len(Outer) \in Nat
    BY <1>1, OuterOrder, LenProperties
  <2>2. events' = Outer \/ \E e : events' = Append(Outer, e)
    BY <1>2 DEF Notify
  <2>3. DOMAIN Outer \subseteq DOMAIN events'
    BY <2>1, <2>2
  <2> QED BY <2>1, <2>3
<1>3. ASSUME NEW kind \in Kind, Register(kind) PROVE FALSE
  BY <1>3 DEF Register
<1>4. ASSUME NEW what \in {"stop", "remove"}, FlagDown(what) PROVE FALSE
  BY <1>1, <1>4, FlagDownNotes
<1>5. CASE Continue
  BY <1>5 DEF Continue
<1>6. CASE Finish
  <2>1. events # <<>> /\ events' = Front(events) /\ events \in Seq(Event)
    BY <1>6 DEF Finish, CompleteInv, OrderInv, TypeOK
  <2>2. events' \in Seq(Event) /\ Len(events') = Len(events) - 1
    BY <2>1, FrontTheorem
  <2>3. DOMAIN events' = 1..Len(events) - 1
    BY <2>2, LenProperties
  <2> QED BY <1>1, <1>6, <2>3
<1>7. CASE UNCHANGED vars
  BY <1>7 DEF vars
<1> QED BY <1>2, <1>3, <1>4, <1>5, <1>6, <1>7 DEF Next, RemoveListener, StopPropagation

(* When an event ends and nothing was stopped or removed meanwhile, every  *)
(* listener that was there at its start has been called.                   *)
THEOREM EverybodyTold == Spec => NobodyMissed
<1> DEFINE Told ==
      \A n \in DOMAIN events :
        n \notin DOMAIN events' /\ events[n].meanwhile \subseteq {"notify"}
          => events[n].present \subseteq ToSet(events[n].told)
<1>1. CompleteInv /\ [Next]_vars => Told
  <2> SUFFICES ASSUME CompleteInv, [Next]_vars, NEW n \in DOMAIN events,
                      n \notin DOMAIN events', events[n].meanwhile \subseteq {"notify"},
                      NEW x \in events[n].present
               PROVE  x \in ToSet(events[n].told)
    OBVIOUS
  <2> DEFINE e == events[n]
  <2>1. Finish /\ n = Len(events)
    BY EndedByFinish
  <2>2. Complete(e, listeners, listener_cnt, event_propagation) /\ TypeOK
    BY DEF CompleteInv, AllComplete, OrderInv
  <2>3. event_propagation
    BY <2>2 DEF Complete, Flagged
  <2>4. FirstFrom(e.kind, e.i + 1) = {}
    BY <2>1, <2>3 DEF Finish, Running
  <2>5. e.i \in Nat
    BY <2>2, Elements
  <2> HIDE DEF e
  <2>6. "remove" \notin e.meanwhile
    BY DEF e
  <2>7. PICK k \in DOMAIN listeners : listeners[k].id = x
    BY <2>2, <2>6 DEF Complete, Covered, e
  <2>8. k \in Matching(e.kind)
    BY <2>2, <2>7, Elements DEF Complete, Known, Matching, e
  <2>9. k <= e.i
    BY <2>2, <2>4, <2>5, <2>8, NobodyLeft DEF Matching
  <2> QED BY <2>2, <2>6, <2>7, <2>9 DEF Complete, Covered, e
<1>2. CompleteInv /\ [Next]_vars => [Told]_vars
  BY <1>1
<1> HIDE DEF Told
<1>3. Spec => [][Told]_vars
  BY <1>2, InitComplete, NextComplete, PTL DEF Spec
<1> QED BY <1>3 DEF NobodyMissed, Told

(* An event stopped by one of its callbacks calls nobody else, as long as  *)
(* its callbacks notify no other event.                                    *)
THEOREM StoppedTellsNobody == Spec => StoppedAlone
<1> DEFINE Quiet ==
      \A n \in DOMAIN events \cap DOMAIN events' :
        events[n].stopped /\ "notify" \notin events[n].meanwhile
          => events'[n].told = events[n].told
<1>1. CompleteInv /\ [Next]_vars => Quiet
  <2> SUFFICES ASSUME CompleteInv, [Next]_vars, NEW n \in DOMAIN events \cap DOMAIN events',
                      events[n].stopped, "notify" \notin events[n].meanwhile
               PROVE  events'[n].told = events[n].told
    OBVIOUS
  <2>1. /\ Complete(events[n], listeners, listener_cnt, event_propagation) /\ TypeOK
        /\ DOMAIN events = 1..Len(events) /\ Len(events) \in Nat /\ events \in Seq(Event)
    BY Elements DEF CompleteInv, AllComplete, OrderInv, TypeOK
  <2>2. ~event_propagation
    BY <2>1 DEF Complete, Flagged
  <2>3. ASSUME NEW kind \in Kind, Notify(kind) PROVE events'[n].told = events[n].told
    <3>1. /\ Outer \in Seq(Event) /\ DOMAIN Outer = DOMAIN events
          /\ DOMAIN Outer = 1..Len(Outer) /\ Len(Outer) \in Nat
          /\ Outer[n].told = events[n].told
      BY <2>1, OuterOrder, LenProperties
    <3>2. events' = Outer \/ \E e : events' = Append(Outer, e)
      BY <2>3 DEF Notify
    <3>3. events'[n] = Outer[n]
      BY <3>1, <3>2
    <3> QED BY <3>1, <3>3
  <2>4. ASSUME NEW kind \in Kind, Register(kind) PROVE events'[n].told = events[n].told
    BY <2>4 DEF Register
  <2>5. ASSUME NEW what \in {"stop", "remove"}, FlagDown(what)
        PROVE  events'[n].told = events[n].told
    BY <2>1, <2>5, FlagDownNotes DEF Noted
  <2>6. CASE Continue
    BY <2>2, <2>6 DEF Continue
  <2>7. CASE Finish
    <3>1. events # <<>> /\ events' = Front(events)
      BY <2>7 DEF Finish
    <3>2. /\ events' \in Seq(Event) /\ Len(events') = Len(events) - 1
          /\ \A k \in 1..Len(events) - 1 : events'[k] = events[k]
      BY <2>1, <3>1, FrontTheorem
    <3>3. DOMAIN events' = 1..Len(events) - 1
      BY <3>2, LenProperties
    <3> QED BY <3>2, <3>3
  <2>8. CASE UNCHANGED vars
    BY <2>8 DEF vars
  <2> QED BY <2>3, <2>4, <2>5, <2>6, <2>7, <2>8 DEF Next, RemoveListener, StopPropagation
<1>2. CompleteInv /\ [Next]_vars => [Quiet]_vars
  BY <1>1
<1> HIDE DEF Quiet
<1>3. Spec => [][Quiet]_vars
  BY <1>2, InitComplete, NextComplete, PTL DEF Spec
<1> QED BY <1>3 DEF StoppedAlone, Quiet
=============================================================================
