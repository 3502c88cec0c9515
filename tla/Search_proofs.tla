---------------------------- MODULE Search_proofs ----------------------------
(* Proofs about Search, for any tuners, capabilities, range of frequencies *)
(* and number of searches: see README.md, "What is proved".                *)
EXTENDS Search, TLAPS, WellFoundedInduction, FiniteSetTheorems, SequenceTheorems

-----------------------------------------------------------------------------
(* The listeners Only takes from a list, by least counterexample: of the   *)
(* prefixes of the list for which something is wrong, there is a shortest. *)

LEMMA SmallestIn ==
  ASSUME NEW S, S \subseteq Nat, S # {}
  PROVE  \E m \in S : \A k \in S : m <= k
<1>1. IsWellFoundedOn(OpToRel(<, Nat), Nat)
  BY NatLessThanWellFounded
<1>2. PICK m \in S : \A k \in S : ~(<<k, m>> \in OpToRel(<, Nat))
  BY <1>1, WFMin, Zenon
<1>3. \A k \in S : ~(k < m)
  BY <1>2 DEF OpToRel
<1>4. m \in Nat /\ \A k \in S : k \in Nat
  BY <1>2
<1>5. \A k \in S : m <= k
  BY <1>3, <1>4
<1> QED BY <1>2, <1>5

OnlyStep(ls, S, g, n) ==
  IF n = 0 THEN <<>>
  ELSE IF ls[n] \in S THEN Append(g[n - 1], ls[n]) ELSE g[n - 1]

IsOnlyUpTo(ls, S, g, m) == g = [n \in 0..m |-> OnlyStep(ls, S, g, n)]

(* The recursive function Only is defined by exists.                       *)
LEMMA OnlyUpToExists ==
  ASSUME NEW ls, Len(ls) \in Nat, NEW S
  PROVE  \E g : IsOnlyUpTo(ls, S, g, Len(ls))
<1> DEFINE Has(m) == \E g : IsOnlyUpTo(ls, S, g, m)
<1> DEFINE Bad == {m \in Nat : m <= Len(ls) /\ ~Has(m)}
<1> HIDE DEF Has
<1>1. Has(0)
  <2> DEFINE g == [n \in 0..0 |-> <<>>]
  <2>1. g = [n \in 0..0 |-> OnlyStep(ls, S, g, n)]
    BY DEF OnlyStep
  <2> HIDE DEF g
  <2> QED BY <2>1 DEF Has, IsOnlyUpTo
<1>2. ASSUME NEW m \in Nat, Has(m) PROVE Has(m + 1)
  <2>1. PICK g : g = [n \in 0..m |-> OnlyStep(ls, S, g, n)]
    BY <1>2 DEF Has, IsOnlyUpTo
  <2> DEFINE h == [n \in 0..m + 1 |-> OnlyStep(ls, S, g, n)]
  <2>2. ASSUME NEW n \in 0..m + 1 PROVE OnlyStep(ls, S, g, n) = OnlyStep(ls, S, h, n)
    <3>1. CASE n = 0
      BY <3>1 DEF OnlyStep
    <3>2. CASE n # 0
      <4>1. n - 1 \in 0..m /\ n - 1 \in 0..m + 1
        BY <3>2
      <4>2. h[n - 1] = g[n - 1]
        BY <4>1, <2>1
      <4> QED BY <3>2, <4>2 DEF OnlyStep
    <3> QED BY <3>1, <3>2
  <2>3. h = [n \in 0..m + 1 |-> OnlyStep(ls, S, h, n)]
    BY <2>2
  <2> HIDE DEF h
  <2> QED BY <2>3 DEF Has, IsOnlyUpTo
<1>3. Bad = {}
  <2> SUFFICES ASSUME Bad # {} PROVE FALSE
    OBVIOUS
  <2>1. PICK m \in Bad : \A k \in Bad : m <= k
    BY SmallestIn, Bad \subseteq Nat, Zenon
  <2>2. m \in Nat /\ m # 0 /\ m <= Len(ls) /\ ~Has(m)
    BY <2>1, <1>1
  <2>3. m - 1 \in Nat /\ m - 1 \notin Bad /\ m - 1 + 1 = m
    BY <2>1, <2>2
  <2>4. Has(m - 1)
    BY <2>3, <2>2
  <2> QED BY <2>4, <2>3, <2>2, <1>2
<1> QED BY <1>3 DEF Has

(* So Only is its last value.                                              *)
LEMMA OnlyUpTo ==
  ASSUME NEW ls, Len(ls) \in Nat, NEW S
  PROVE  \E g : IsOnlyUpTo(ls, S, g, Len(ls)) /\ Only(ls, S) = g[Len(ls)]
<1> DEFINE g == CHOOSE g : IsOnlyUpTo(ls, S, g, Len(ls))
<1>1. IsOnlyUpTo(ls, S, g, Len(ls))
  BY OnlyUpToExists, Zenon
<1>2. Only(ls, S) = g[Len(ls)]
  BY DEF Only, IsOnlyUpTo, OnlyStep
<1> HIDE DEF g
<1> QED BY <1>1, <1>2

(* Only returns elements of the list that are in the set.                  *)
LEMMA OnlyElements ==
  ASSUME NEW L, NEW ls \in Seq(L), NEW S
  PROVE  /\ Only(ls, S) \in Seq(L)
         /\ \A k \in DOMAIN Only(ls, S) :
              Only(ls, S)[k] \in S /\ \E i \in DOMAIN ls : Only(ls, S)[k] = ls[i]
<1>0. PICK g : IsOnlyUpTo(ls, S, g, Len(ls)) /\ Only(ls, S) = g[Len(ls)]
  BY OnlyUpTo
<1> DEFINE Good(s) == /\ s \in Seq(L)
                      /\ \A k \in DOMAIN s : s[k] \in S /\ \E i \in DOMAIN ls : s[k] = ls[i]
           Bad == {m \in Nat : m <= Len(ls) /\ ~Good(g[m])}
<1>1. Good(<<>>)
  OBVIOUS
<1>2. ASSUME NEW s, Good(s), NEW i \in DOMAIN ls, ls[i] \in S PROVE Good(Append(s, ls[i]))
  BY <1>2
<1> HIDE DEF Good
<1>3. Bad = {}
  <2> SUFFICES ASSUME Bad # {} PROVE FALSE
    OBVIOUS
  <2>1. PICK m \in Bad : \A k \in Bad : m <= k
    BY SmallestIn, Bad \subseteq Nat, Zenon
  <2>2. m \in Nat /\ m <= Len(ls) /\ ~Good(g[m])
    BY <2>1
  <2>3. g[m] = OnlyStep(ls, S, g, m)
    BY <1>0, <2>2 DEF IsOnlyUpTo
  <2>4. m # 0
    BY <2>2, <2>3, <1>1 DEF OnlyStep
  <2>5. m - 1 \in Nat /\ m - 1 \notin Bad /\ m \in DOMAIN ls
    BY <2>1, <2>2, <2>4
  <2>6. Good(g[m - 1])
    BY <2>5, <2>2
  <2>7. CASE ls[m] \in S
    BY <2>2, <2>3, <2>4, <2>5, <2>6, <2>7, <1>2 DEF OnlyStep
  <2>8. CASE ls[m] \notin S
    BY <2>2, <2>3, <2>4, <2>6, <2>8 DEF OnlyStep
  <2> QED BY <2>7, <2>8
<1>4. Good(Only(ls, S))
  BY <1>0, <1>3
<1> QED BY <1>4 DEF Good

-----------------------------------------------------------------------------
(* The inductive invariant.                                                *)

Active    == {s \in SearchId : search[s].phase \in {"searching", "reporting"}}
Reporting == {s \in SearchId : search[s].phase = "reporting"}

(* The searches that have listeners in a list. *)
Owners(ls) == {ls[k].owner : k \in DOMAIN ls} \ {User}

OnlyClientsKept(ls) ==
  \A k \in DOMAIN ls : ls[k].kind \in KeptKinds => ls[k].owner = User

(* The listeners of a search are in the engine or in what one other search *)
(* has saved, never in two lists.                                          *)
ListenersInv ==
  /\ Owners(listeners) \subseteq Searching
  /\ OnlyClientsKept(listeners)
  /\ \A s \in Searching :
       /\ Owners(search[s].saved) \subseteq Searching
       /\ Owners(search[s].saved) \cap Owners(listeners) = {}
       /\ OnlyClientsKept(search[s].saved)
  /\ \A s, q \in Searching :
       s # q => Owners(search[s].saved) \cap Owners(search[q].saved) = {}

(* Only the innermost frame is about to run a callback, of a search that   *)
(* has listeners in the engine; a search ends in one frame at most.        *)
StackInv(stack, owners, reporting) ==
  /\ \A n \in DOMAIN stack :
       stack[n].at = "callback" => n = Len(stack) /\ stack[n].search \in owners
  /\ \A n \in DOMAIN stack : stack[n].at = "finishing" => stack[n].search \in reporting
  /\ \A m, n \in DOMAIN stack :
       /\ stack[m].at = "finishing" /\ stack[n].at = "finishing"
       /\ stack[m].search = stack[n].search
       => m = n

EventsInv == StackInv(events, Owners(listeners), Reporting)

Held(t) == \E s \in Active : search[s].tuner = t

TunersInv ==
  /\ \A s \in Active : search[s].tuner \in Tuner
  /\ \A s, q \in Active : search[s].tuner = search[q].tuner => s = q
  /\ \A t \in Tuner : Held(t) => tune[t].references = 1
  /\ \A t \in Tuner : ~Held(t) => /\ tune[t].references = 0
                                  /\ tune[t].status = "NOOP"
                                  /\ tune[t].mydvb = NoDecoder

StatusInv == \A s \in Searching : search[s].status \in {"SEARCHING"} \cup Wish

SearchInv == TypeOK /\ ListenersInv /\ EventsInv /\ TunersInv /\ StatusInv

-----------------------------------------------------------------------------
(* Lists of listeners.                                                     *)

(* The searches that have listeners in one list or in the other.           *)
LEMMA OwnersOfConcat ==
  ASSUME NEW a \in Seq(Listener), NEW b \in Seq(Listener)
  PROVE  /\ a \o b \in Seq(Listener)
         /\ Owners(a \o b) = Owners(a) \cup Owners(b)
         /\ OnlyClientsKept(a) /\ OnlyClientsKept(b) => OnlyClientsKept(a \o b)
<1>1. /\ a \o b \in Seq(Listener) /\ Len(a \o b) = Len(a) + Len(b)
      /\ Len(a) \in Nat /\ Len(b) \in Nat
      /\ DOMAIN a = 1..Len(a) /\ DOMAIN b = 1..Len(b)
      /\ DOMAIN (a \o b) = 1..Len(a) + Len(b)
  OBVIOUS
<1>2. \A k \in 1..Len(a) : (a \o b)[k] = a[k]
  BY <1>1
<1>3. \A k \in 1..Len(b) : (a \o b)[Len(a) + k] = b[k] /\ Len(a) + k \in DOMAIN (a \o b)
  BY <1>1
<1>4. \A k \in DOMAIN (a \o b) : k \in DOMAIN a \/ k - Len(a) \in DOMAIN b
  BY <1>1
<1>5. \A k \in DOMAIN (a \o b) :
        (k \in DOMAIN a /\ (a \o b)[k] = a[k])
          \/ \E j \in DOMAIN b : (a \o b)[k] = b[j]
  <2> SUFFICES ASSUME NEW k \in DOMAIN (a \o b), k \notin DOMAIN a
               PROVE  \E j \in DOMAIN b : (a \o b)[k] = b[j]
    BY <1>1, <1>2
  <2>1. k - Len(a) \in 1..Len(b) /\ Len(a) + (k - Len(a)) = k
    BY <1>1, <1>4
  <2> QED BY <2>1, <1>3, <1>1
<1>6. \A k \in DOMAIN a : k \in DOMAIN (a \o b) /\ (a \o b)[k] = a[k]
  BY <1>1, <1>2
<1>7. \A j \in DOMAIN b : \E k \in DOMAIN (a \o b) : (a \o b)[k] = b[j]
  BY <1>1, <1>3
<1> DEFINE c == a \o b
<1> HIDE DEF c
<1>8. Owners(c) = Owners(a) \cup Owners(b)
  BY <1>5, <1>6, <1>7 DEF Owners, c
<1>9. OnlyClientsKept(a) /\ OnlyClientsKept(b) => OnlyClientsKept(c)
  BY <1>5 DEF OnlyClientsKept, c
<1> QED BY <1>1, <1>8, <1>9 DEF c

LEMMA OnlyListeners ==
  ASSUME NEW ls \in Seq(Listener), NEW S
  PROVE  /\ Only(ls, S) \in Seq(Listener)
         /\ Owners(Only(ls, S)) \subseteq Owners(ls)
         /\ OnlyClientsKept(ls) => OnlyClientsKept(Only(ls, S))
BY OnlyElements DEF Owners, OnlyClientsKept

(* What a search leaves in the engine is of clients.                       *)
LEMMA KeptListeners ==
  ASSUME NEW ls \in Seq(Listener), OnlyClientsKept(ls)
  PROVE  /\ Kept(ls) \in Seq(Listener)
         /\ Owners(Kept(ls)) = {}
         /\ OnlyClientsKept(Kept(ls))
<1> DEFINE K == [id : Nat, kind : KeptKinds, owner : SearchId \cup {User}]
<1>1. \A l \in K : l.kind \in KeptKinds
  OBVIOUS
<1> HIDE DEF K
<1>2. /\ Only(ls, K) \in Seq(Listener)
      /\ \A k \in DOMAIN Only(ls, K) :
           Only(ls, K)[k] \in K /\ \E i \in DOMAIN ls : Only(ls, K)[k] = ls[i]
  BY OnlyElements
<1>3. Kept(ls) = Only(ls, K)
  BY DEF Kept, K
<1> QED BY <1>1, <1>2, <1>3 DEF Owners, OnlyClientsKept

(* What a search saves was in the engine.                                  *)
LEMMA SavedListeners ==
  ASSUME NEW ls \in Seq(Listener)
  PROVE  /\ SavedOf(ls) \in Seq(Listener)
         /\ Owners(SavedOf(ls)) \subseteq Owners(ls)
         /\ OnlyClientsKept(SavedOf(ls))
<1> DEFINE K == [id : Nat, kind : Kind \ KeptKinds, owner : SearchId \cup {User}]
<1>1. \A l \in K : l.kind \in Kind \ KeptKinds
  OBVIOUS
<1> HIDE DEF K
<1>2. /\ Only(ls, K) \in Seq(Listener)
      /\ \A k \in DOMAIN Only(ls, K) :
           Only(ls, K)[k] \in K /\ \E i \in DOMAIN ls : Only(ls, K)[k] = ls[i]
  BY OnlyElements
<1>3. SavedOf(ls) = Only(ls, K)
  BY DEF SavedOf, K
<1> QED BY <1>1, <1>2, <1>3 DEF Owners, OnlyClientsKept

-----------------------------------------------------------------------------
(* Stacks of events.                                                       *)

(* A frame about to call a listener of a search is of one that has some in *)
(* the list.                                                               *)
LEMMA EnteredFrame ==
  ASSUME NEW ls \in Seq(Listener), NEW e \in Frame, NEW i \in Nat \ {0},
         NEW k \in FirstFrom(ls, e.kind, i)
  PROVE  LET f == Entered(ls, e, k) IN
           /\ f \in Frame
           /\ f.at \in {"user", "callback"}
           /\ f.at = "callback" => f.search \in Owners(ls)
<1>1. k \in DOMAIN ls /\ k \in Nat
  BY DEF FirstFrom
<1>2. ls[k] \in Listener
  BY <1>1
<1>3. Entered(ls, e, k) \in Frame
  <2>1. ls[k].owner \in SearchId \cup {User}
    BY <1>2 DEF Listener
  <2> QED BY <1>1, <2>1 DEF Entered, Frame
<1>4. /\ Entered(ls, e, k).search = ls[k].owner
      /\ Entered(ls, e, k).at = IF ls[k].owner = User THEN "user" ELSE "callback"
  BY DEF Entered, Frame
<1>5. ls[k].owner # User => ls[k].owner \in Owners(ls)
  BY <1>1 DEF Owners
<1> QED BY <1>3, <1>4, <1>5

(* An event is notified on a stack whose other frames run no callback.     *)
LEMMA NotifiedStack ==
  ASSUME NEW ls \in Seq(Listener), NEW stack \in Seq(Frame), NEW e \in Frame, NEW R,
         StackInv(stack, {}, R)
  PROVE  /\ Notified(ls, stack, e) \in Seq(Frame)
         /\ StackInv(Notified(ls, stack, e), Owners(ls), R)
<1> DEFINE first == FirstFrom(ls, e.kind, 1)
           k == CHOOSE k \in first : TRUE
           f == Entered(ls, e, k)
<1>1. CASE first = {}
  BY <1>1 DEF Notified, StackInv
<1>2. CASE first # {}
  <2>1. k \in first
    BY <1>2
  <2>2. /\ f \in Frame /\ f.at \in {"user", "callback"}
        /\ f.at = "callback" => f.search \in Owners(ls)
    BY <2>1, EnteredFrame
  <2>3. Notified(ls, stack, e) = Append(stack, f)
    BY <1>2 DEF Notified
  <2> HIDE DEF f
  <2> DEFINE new == Append(stack, f)
  <2>4. /\ new \in Seq(Frame) /\ Len(new) = Len(stack) + 1 /\ Len(stack) \in Nat
        /\ DOMAIN new = 1..Len(stack) + 1 /\ DOMAIN stack = 1..Len(stack)
        /\ new[Len(stack) + 1] = f
    BY <2>2
  <2>5. \A n \in DOMAIN new :
          \/ n \in DOMAIN stack /\ new[n] = stack[n]
          \/ n = Len(new) /\ new[n] = f
    BY <2>4
  <2> HIDE DEF new
  <2>6. \A n \in DOMAIN stack : stack[n].at # "callback"
    BY DEF StackInv
  <2>7. \A n \in DOMAIN new : new[n].at = "callback" => n = Len(new) /\ new[n].search \in Owners(ls)
    BY <2>2, <2>5, <2>6
  <2>8. \A n \in DOMAIN new : new[n].at = "finishing" => n \in DOMAIN stack /\ new[n] = stack[n]
    BY <2>2, <2>5
  <2>9. StackInv(new, Owners(ls), R)
    BY <2>7, <2>8 DEF StackInv
  <2> QED BY <2>3, <2>4, <2>9 DEF new
<1> QED BY <1>1, <1>2

(* The callback or the end of the search on top returns. *)
LEMMA ReturnedStack ==
  ASSUME TypeOK, EventsInv, events # <<>>, NEW R,
         Reporting \subseteq R \cup (IF Top.at = "finishing" THEN {Top.search} ELSE {})
  PROVE  /\ Returned("done") \in Seq(Frame)
         /\ \A O : StackInv(Returned("done"), O, R)
<1> DEFINE new == Returned("done")
<1>1. /\ events \in Seq(Frame) /\ Len(events) \in Nat /\ Len(events) > 0
      /\ DOMAIN events = 1..Len(events)
  BY DEF TypeOK
<1>2. events[Len(events)] \in Frame
  BY <1>1
<1>3. [events[Len(events)] EXCEPT !.at = "done"] \in Frame
  BY <1>2 DEF Frame
<1>4. new \in Seq(Frame) /\ DOMAIN new = DOMAIN events
  BY <1>1, <1>3 DEF Returned
<1>5. new[Len(events)].at = "done"
  BY <1>1, <1>2 DEF Returned, Frame
<1>6. \A n \in DOMAIN events : n # Len(events) => new[n] = events[n]
  BY <1>1 DEF Returned
<1> HIDE DEF new
<1>7. \A n \in DOMAIN new : new[n].at # "callback"
  BY <1>4, <1>5, <1>6 DEF EventsInv, StackInv
<1>8. \A n \in DOMAIN new : new[n].at = "finishing"
        => n \in DOMAIN events /\ new[n] = events[n] /\ n # Len(events)
  BY <1>4, <1>5, <1>6
<1>9. ASSUME NEW n \in DOMAIN new, new[n].at = "finishing" PROVE new[n].search \in R
  <2>1. new[n].search \in Reporting
    BY <1>8, <1>9 DEF EventsInv, StackInv
  <2>2. Top.at = "finishing" => new[n].search # Top.search
    BY <1>1, <1>8, <1>9 DEF EventsInv, StackInv, Top
  <2> QED BY <2>1, <2>2
<1>10. \A m, n \in DOMAIN new :
          new[m].at = "finishing" /\ new[n].at = "finishing" /\ new[m].search = new[n].search
            => m = n
  BY <1>8 DEF EventsInv, StackInv
<1>11. \A O : StackInv(new, O, R)
  BY <1>7, <1>9, <1>10 DEF StackInv
<1> QED BY <1>4, <1>11 DEF new

(* The callback on top goes into the end of its search. *)
LEMMA FinishingStack ==
  ASSUME TypeOK, EventsInv, events # <<>>, Top.search \notin Reporting
  PROVE  /\ Returned("finishing") \in Seq(Frame)
         /\ StackInv(Returned("finishing"), {}, Reporting \cup {Top.search})
<1> DEFINE new == Returned("finishing")
<1>1. /\ events \in Seq(Frame) /\ Len(events) \in Nat /\ Len(events) > 0
      /\ DOMAIN events = 1..Len(events)
  BY DEF TypeOK
<1>2. events[Len(events)] \in Frame
  BY <1>1
<1>3. [events[Len(events)] EXCEPT !.at = "finishing"] \in Frame
  BY <1>2 DEF Frame
<1>4. new \in Seq(Frame) /\ DOMAIN new = DOMAIN events
  BY <1>1, <1>3 DEF Returned
<1>5. new[Len(events)].at = "finishing" /\ new[Len(events)].search = Top.search
  BY <1>1, <1>2 DEF Returned, Frame, Top
<1>6. \A n \in DOMAIN events : n # Len(events) => new[n] = events[n]
  BY <1>1 DEF Returned
<1> HIDE DEF new
<1>7. \A n \in DOMAIN new : new[n].at # "callback"
  BY <1>4, <1>5, <1>6 DEF EventsInv, StackInv
<1>8. \A n \in DOMAIN new : new[n].at = "finishing"
        => \/ n = Len(events) /\ new[n].search = Top.search
           \/ n \in DOMAIN events /\ new[n] = events[n] /\ new[n].search \in Reporting
  BY <1>4, <1>5, <1>6 DEF EventsInv, StackInv
<1>9. \A m, n \in DOMAIN new :
          new[m].at = "finishing" /\ new[n].at = "finishing" /\ new[m].search = new[n].search
            => m = n
  BY <1>8 DEF EventsInv, StackInv
<1>10. StackInv(new, {}, Reporting \cup {Top.search})
  BY <1>7, <1>8, <1>9 DEF StackInv
<1> QED BY <1>4, <1>10 DEF new

-----------------------------------------------------------------------------
(* Searches and tuners: what a step leaves as it is.                       *)

Same(new, old) ==
  /\ new.phase = old.phase /\ new.status = old.status
  /\ new.tuner = old.tuner /\ new.saved = old.saved

Unchanged(q) == Same(search'[q], search[q]) /\ SearchType(search'[q])

SearchesSame == DOMAIN search' = SearchId /\ \A q \in SearchId : Unchanged(q)

(* Nothing but tuner t is touched, and not its references. *)
TuneKept(t) ==
  /\ tune' \in [Tuner -> TuneState]
  /\ \A u \in Tuner : tune'[u].references = tune[u].references
  /\ \A u \in Tuner \ {t} : tune'[u] = tune[u]

(* The end of search s, up to its event. *)
Reported(s, status) ==
  /\ DOMAIN search' = SearchId
  /\ \A q \in SearchId \ {s} : Unchanged(q)
  /\ SearchType(search'[s])
  /\ search'[s].phase = "reporting" /\ search'[s].status = status
  /\ search'[s].tuner = search[s].tuner

(* Nothing but the frequencies at which tuners have locked. *)
SearchesLeft ==
  /\ SearchesSame
  /\ \A q \in SearchId : /\ search'[q].scan = search[q].scan
                         /\ search'[q].disturbed = search[q].disturbed

GoesOn(s) ==
  /\ SearchesSame
  /\ TuneKept(search[s].tuner)
  /\ UNCHANGED <<listeners, event_propagation>>
  /\ events' = Returned("done")

Finished(s) ==
  /\ Reported(s, IF search[s].status \in Wish THEN search[s].status ELSE "COMPLETED")
  /\ TuneKept(search[s].tuner)
  /\ listeners' = Restored(listeners, search[s])
  /\ events' = Notified(listeners', Returned("finishing"), Event("search", NoTuner, None, {}))
  /\ event_propagation' = TRUE

(* The fields of a search.                                                 *)
LEMMA SearchFields ==
  ASSUME NEW sr, SearchType(sr)
  PROVE  DOMAIN sr = {"phase", "status", "tuner", "scan", "saved", "found",
                      "user_number", "tried", "locked", "disturbed"}
BY DEF SearchType, NoSearch

(* A tuner that locks.                                                     *)
LEMMA WithLockedLeaves ==
  ASSUME TypeOK, search' = search \/ \E t \in Tuner : search' = WithLocked(t)
  PROVE  SearchesLeft
<1>1. CASE search' = search
  BY <1>1 DEF SearchesLeft, SearchesSame, Unchanged, Same, TypeOK
<1>2. ASSUME NEW t \in Tuner, search' = WithLocked(t) PROVE SearchesLeft
  <2>1. DOMAIN search' = SearchId
    BY <1>2 DEF WithLocked
  <2>2. ASSUME NEW q \in SearchId
        PROVE  /\ Unchanged(q) /\ search'[q].scan = search[q].scan
               /\ search'[q].disturbed = search[q].disturbed
    <3> DEFINE sr == search[q]
               new == [sr EXCEPT !.locked = @ \cup {sr.scan.f}]
    <3>1. SearchType(sr)
      BY DEF TypeOK
    <3> HIDE DEF sr
    <3>2. /\ DOMAIN new = DOMAIN sr /\ new.phase = sr.phase /\ new.status = sr.status
          /\ new.tuner = sr.tuner /\ new.saved = sr.saved /\ new.scan = sr.scan
          /\ new.disturbed = sr.disturbed
      BY <3>1, SearchFields
    <3>3. search'[q] = new \/ search'[q] = sr
      BY <1>2 DEF WithLocked, sr
    <3> HIDE DEF new
    <3>4. SearchType(new)
      BY <3>1, <3>2 DEF SearchType
    <3> QED BY <3>1, <3>2, <3>3, <3>4 DEF Unchanged, Same, sr
  <2> QED BY <2>1, <2>2 DEF SearchesLeft, SearchesSame
<1> QED BY <1>1, <1>2

(* The history an event leaves does not matter.                            *)
LEMMA ReachedSame ==
  ASSUME TypeOK, NEW s \in SearchId
  PROVE  Same(Reached(s), search[s]) /\ SearchType(Reached(s))
<1> DEFINE sr == search[s]
<1>1. SearchType(sr)
  BY DEF TypeOK
<1> HIDE DEF sr
<1>2. /\ Reached(s).phase = sr.phase /\ Reached(s).status = sr.status
      /\ Reached(s).tuner = sr.tuner /\ Reached(s).saved = sr.saved
      /\ Reached(s).scan = sr.scan
      /\ DOMAIN Reached(s) = DOMAIN sr
  BY <1>1, SearchFields DEF Reached, sr
<1> QED BY <1>1, <1>2 DEF Same, SearchType, sr

(* Nor what has been found.                                                *)
LEMMA RecordedSame ==
  ASSUME NEW t, NEW sr, SearchType(sr)
  PROVE  Same(Recorded(t, sr), sr) /\ SearchType(Recorded(t, sr))
<1>1. LET new == Recorded(t, sr) IN
        /\ new.phase = sr.phase /\ new.status = sr.status
        /\ new.tuner = sr.tuner /\ new.saved = sr.saved
        /\ new.scan = sr.scan
        /\ DOMAIN new = DOMAIN sr
  BY SearchFields DEF Recorded
<1> QED BY <1>1 DEF Same, SearchType

(* A frequency stays a natural number.                                     *)
LEMMA ScanNextType ==
  ASSUME NEW valid, NEW type, NEW status, NEW scan, scan.f \in Nat
  PROVE  ScanNext(valid, type, status, scan).f \in Nat
<1>1. NextFrequency(scan.f) \in Nat
  BY ScanAssumption DEF NextFrequency
<1> QED BY <1>1 DEF ScanNext

(* Tuning leaves the references.                                           *)
LEMMA ScannedTuneType ==
  ASSUME NEW t, NEW r \in TuneState, NEW f \in Nat, NEW taken \in BOOLEAN
  PROVE  /\ ScannedTune(t, r, f, taken) \in TuneState
         /\ ScannedTune(t, r, f, taken).references = r.references
<1>1. ChannelNumber(TunerType[t], f) \in Int
  BY DEF ChannelNumber, UhfChannel
<1> QED BY <1>1 DEF ScannedTune, TuneState

(* So does stopping the decoder.                                           *)
LEMMA StoppedDecoderType ==
  ASSUME NEW r \in TuneState
  PROVE  StoppedDecoder(r) \in TuneState /\ StoppedDecoder(r).references = r.references
BY DEF StoppedDecoder, TuneState, NoDecoder

(* The search s of a callback, so far sr, and its tuner, so far r. *)
LEMMA FinishEffect ==
  ASSUME TypeOK, NEW s \in SearchId, NEW sr, NEW old,
         SearchType(old), Same(old, search[s]),
         sr = old \/ \E next : next.f \in Nat /\ sr = [old EXCEPT !.scan = next],
         NEW status \in {"COMPLETED"} \cup Wish,
         NEW t \in Tuner, t = search[s].tuner,
         NEW r \in TuneState, r.references = tune[t].references,
         Finish(s, sr, status), tune' = [tune EXCEPT ![sr.tuner] = r],
         status = IF search[s].status \in Wish THEN search[s].status ELSE "COMPLETED"
  PROVE  Finished(s)
<1>1. /\ DOMAIN sr = DOMAIN old /\ sr.phase = old.phase /\ sr.status = old.status
      /\ sr.tuner = old.tuner /\ sr.saved = old.saved /\ sr.scan.f \in Nat
  BY SearchFields DEF SearchType
<1> DEFINE new == [sr EXCEPT !.phase = "reporting", !.status = status]
<1>2. /\ DOMAIN new = DOMAIN old /\ new.phase = "reporting" /\ new.status = status
      /\ new.tuner = sr.tuner /\ new.saved = sr.saved /\ new.scan = sr.scan
  BY <1>1, SearchFields
<1> HIDE DEF new
<1>3. search' = [search EXCEPT ![s] = new]
  BY DEF Finish, new
<1>4. DOMAIN search = SearchId
  BY DEF TypeOK
<1>5. Reported(s, status)
  <2>1. search'[s] = new /\ DOMAIN search' = SearchId
    BY <1>3, <1>4
  <2>2. SearchType(new)
    BY <1>1, <1>2 DEF SearchType
  <2>3. \A q \in SearchId \ {s} : search'[q] = search[q]
    BY <1>3, <1>4
  <2> QED BY <1>1, <1>2, <2>1, <2>2, <2>3 DEF Reported, Unchanged, Same, TypeOK
<1>6. TuneKept(t)
  BY <1>1 DEF TuneKept, TypeOK, Same
<1>7. listeners' = Restored(listeners, search[s])
  BY <1>1 DEF Finish, Restored, Same
<1> QED BY <1>5, <1>6, <1>7 DEF Finish, Finished

(* The end of a callback: the search goes on or is finished.               *)
LEMMA ScanOnEffect ==
  ASSUME TypeOK, NEW s \in SearchId, NEW sr, SearchType(sr), Same(sr, search[s]),
         NEW t \in Tuner, t = search[s].tuner,
         NEW r \in TuneState, r.references = tune[t].references,
         ScanOn(s, r, sr)
  PROVE  GoesOn(s) \/ Finished(s)
<1>1. CASE sr.status \in Wish
  <2>1. Finish(s, sr, sr.status) /\ tune' = [tune EXCEPT ![sr.tuner] = r]
    BY <1>1 DEF ScanOn
  <2> QED BY <1>1, <2>1, FinishEffect DEF Same
<1>2. CASE sr.status \notin Wish
  <2> DEFINE next == ScanNext(Valid[sr.tuner], TunerType[sr.tuner], r.status, sr.scan)
  <2>1. next.f \in Nat
    BY ScanNextType DEF SearchType
  <2>2. TryNext(s, r, sr)
    BY <1>2 DEF ScanOn
  <2>3. CASE ScanGoesOn(TunerType[sr.tuner], next)
    <3>1. PICK taken \in BOOLEAN :
            tune' = [tune EXCEPT ![sr.tuner] = ScannedTune(sr.tuner, r, next.f, taken)]
      BY <2>2, <2>3 DEF TryNext
    <3>2. /\ search' = [search EXCEPT ![s] = [sr EXCEPT !.scan = next,
                                 !.tried = @ \cup {<<next.f, next.d>>}]]
          /\ events' = Returned("done")
          /\ UNCHANGED <<listeners, event_propagation>>
      BY <2>2, <2>3 DEF TryNext
    <3> HIDE DEF next
    <3>3. /\ ScannedTune(sr.tuner, r, next.f, taken) \in TuneState
          /\ ScannedTune(sr.tuner, r, next.f, taken).references = r.references
      BY <2>1, ScannedTuneType
    <3>4. TuneKept(t)
      BY <3>1, <3>3 DEF TuneKept, TypeOK, Same
    <3> DEFINE new == [sr EXCEPT !.scan = next, !.tried = @ \cup {<<next.f, next.d>>}]
    <3>5. /\ DOMAIN new = DOMAIN sr /\ new.phase = sr.phase /\ new.status = sr.status
          /\ new.tuner = sr.tuner /\ new.saved = sr.saved /\ new.scan = next
      BY SearchFields
    <3> HIDE DEF new
    <3>6. SearchType(new) /\ Same(new, search[s])
      BY <2>1, <3>5 DEF SearchType, Same
    <3>7. search' = [search EXCEPT ![s] = new]
      BY <3>2 DEF new
    <3>8. SearchesSame
      BY <3>6, <3>7 DEF SearchesSame, Unchanged, Same, TypeOK
    <3> QED BY <3>2, <3>4, <3>8 DEF GoesOn
  <2>4. CASE ~ScanGoesOn(TunerType[sr.tuner], next)
    <3>1. /\ Finish(s, [sr EXCEPT !.scan = next], "COMPLETED")
          /\ tune' = [tune EXCEPT ![sr.tuner] = r]
      BY <2>2, <2>4 DEF TryNext
    <3> HIDE DEF next
    <3>2. [sr EXCEPT !.scan = next].tuner = sr.tuner
      BY SearchFields
    <3>3. tune' = [tune EXCEPT ![[sr EXCEPT !.scan = next].tuner] = r]
      BY <3>1, <3>2
    <3>4. search[s].status \notin Wish
      BY <1>2 DEF Same
    <3> QED BY <2>1, <3>1, <3>3, <3>4, FinishEffect
  <2> QED BY <2>3, <2>4
<1> QED BY <1>1, <1>2

-----------------------------------------------------------------------------
(* Parts of the invariant under the effects above.                         *)

(* Searches that stay as they are.                                         *)
LEMMA SameSearches ==
  ASSUME TypeOK, SearchesSame
  PROVE  Searching' = Searching /\ Active' = Active /\ Reporting' = Reporting
BY DEF SearchesSame, Unchanged, Same, Searching, Active, Reporting

LEMMA ListenersUntouched ==
  ASSUME TypeOK, ListenersInv, SearchesSame, listeners' = listeners
  PROVE  ListenersInv'
<1>1. Searching' = Searching /\ \A s \in Searching : search'[s].saved = search[s].saved
  BY SameSearches DEF SearchesSame, Unchanged, Same, Searching
<1>2. Owners(listeners)' = Owners(listeners) /\ OnlyClientsKept(listeners)' = OnlyClientsKept(listeners)
  BY DEF Owners, OnlyClientsKept
<1>3. \A s \in Searching : /\ Owners(search[s].saved)' = Owners(search[s].saved)
                           /\ OnlyClientsKept(search[s].saved)' = OnlyClientsKept(search[s].saved)
  BY <1>1 DEF Owners, OnlyClientsKept
<1> QED BY <1>1, <1>2, <1>3 DEF ListenersInv

LEMMA StatusUntouched ==
  ASSUME TypeOK, StatusInv, SearchesSame
  PROVE  StatusInv'
BY SameSearches DEF StatusInv, SearchesSame, Unchanged, Same, Searching

LEMMA TunersUntouched ==
  ASSUME TypeOK, TunersInv, Active' = Active,
         \A s \in Active : search'[s].tuner = search[s].tuner,
         NEW t \in Tuner, Held(t), TuneKept(t)
  PROVE  TunersInv'
<1>1. \A u \in Tuner : Held(u)' <=> Held(u)
  BY DEF Held
<1>2. \A u \in Tuner : ~Held(u) => tune'[u] = tune[u]
  BY DEF TuneKept
<1> QED BY <1>1, <1>2 DEF TunersInv, TuneKept

(* With the tuners as they are, whatever happens to the searches. *)
LEMMA TunersLeft ==
  ASSUME TypeOK, TunersInv, SearchesSame, UNCHANGED tune
  PROVE  TunersInv'
<1>1. Active' = Active /\ \A s \in Active : search'[s].tuner = search[s].tuner
  BY SameSearches DEF SearchesSame, Unchanged, Same, Active
<1>2. \A u \in Tuner : Held(u)' <=> Held(u)
  BY <1>1 DEF Held
<1> QED BY <1>1, <1>2 DEF TunersInv

(* A callback is of a search that goes on and has its tuner.               *)
LEMMA CallingSearch ==
  ASSUME SearchInv, NEW kind, Calling(kind)
  PROVE  /\ events # <<>> /\ Top \in Frame
         /\ Top.search \in Searching /\ Top.search \in Owners(listeners)
         /\ Top.search \in SearchId /\ Top.search \notin Reporting
         /\ search[Top.search].tuner \in Tuner /\ Held(search[Top.search].tuner)
<1>1. events # <<>> /\ Top.at = "callback"
  BY DEF Calling
<1>2. Len(events) \in DOMAIN events /\ Top \in Frame
  BY <1>1 DEF SearchInv, TypeOK, Top
<1>3. Top.search \in Owners(listeners)
  BY <1>1, <1>2 DEF SearchInv, EventsInv, StackInv, Top
<1>4. Top.search \in Searching /\ Top.search \in SearchId
  BY <1>3 DEF SearchInv, ListenersInv, Searching
<1>5. Top.search \in Active /\ Top.search \notin Reporting
  BY <1>4 DEF Searching, Active, Reporting
<1> QED BY <1>1, <1>2, <1>3, <1>4, <1>5 DEF Held, SearchInv, TunersInv

-----------------------------------------------------------------------------
(* The callbacks of a search.                                              *)

(* A callback after which the search goes on.                              *)
LEMMA GoesOnInv ==
  ASSUME SearchInv, NEW kind, Calling(kind), GoesOn(Top.search),
         UNCHANGED <<listener_cnt, tables, mine, crashed>>
  PROVE  SearchInv'
<1>1. /\ events # <<>> /\ Top.search \in SearchId /\ Top.at # "finishing"
      /\ search[Top.search].tuner \in Tuner /\ Held(search[Top.search].tuner)
  BY CallingSearch DEF Calling
<1>2. SearchesSame /\ Active' = Active /\ Reporting' = Reporting /\ TypeOK
  BY SameSearches DEF GoesOn, SearchInv
<1>3. events' \in Seq(Frame) /\ StackInv(events', Owners(listeners), Reporting)
  BY <1>1, ReturnedStack DEF SearchInv, GoesOn
<1>4. EventsInv'
  <2>1. Owners(listeners)' = Owners(listeners)
    BY DEF GoesOn, Owners
  <2> QED BY <1>2, <1>3, <2>1 DEF EventsInv, StackInv
<1>5. TypeOK'
  BY <1>2, <1>3 DEF TypeOK, GoesOn, TuneKept, SearchesSame, Unchanged
<1>6. TunersInv'
  <2>1. \A s \in Active : search'[s].tuner = search[s].tuner
    BY <1>2 DEF Active, SearchesSame, Unchanged, Same
  <2> QED BY <1>1, <1>2, <2>1, TunersUntouched DEF GoesOn, SearchInv
<1>7. ListenersInv' /\ StatusInv'
  BY <1>2, ListenersUntouched, StatusUntouched DEF GoesOn, SearchInv
<1> QED BY <1>4, <1>5, <1>6, <1>7 DEF SearchInv

(* A search that reports is active still.                                  *)
LEMMA ReportedSearches ==
  ASSUME TypeOK, NEW s \in Searching, NEW status, Reported(s, status)
  PROVE  /\ Searching' = Searching \ {s}
         /\ Active' = Active
         /\ Reporting' = Reporting \cup {s}
         /\ \A q \in SearchId : search'[q].tuner = search[q].tuner
         /\ \A q \in Searching' : search'[q] # search[q] => Same(search'[q], search[q])
BY DEF Reported, Unchanged, Same, Searching, Active, Reporting

(* The listeners of s are gone; those it saved are in the engine again.    *)
LEMMA FinishedListeners ==
  ASSUME SearchInv, NEW s \in Searching, s \in Owners(listeners), Finished(s)
  PROVE  ListenersInv' /\ listeners' \in Seq(Listener)
<1> DEFINE kept == Kept(listeners)
           saved == search[s].saved
<1>1. /\ listeners \in Seq(Listener) /\ saved \in Seq(Listener)
      /\ OnlyClientsKept(listeners) /\ OnlyClientsKept(saved)
  BY DEF SearchInv, TypeOK, SearchType, ListenersInv, Searching
<1>2. kept \in Seq(Listener) /\ Owners(kept) = {} /\ OnlyClientsKept(kept)
  BY <1>1, KeptListeners
<1>3. listeners' = kept \o saved
  BY DEF Finished, Restored
<1> HIDE DEF kept, saved
<1>4. /\ kept \o saved \in Seq(Listener)
      /\ Owners(kept \o saved) = Owners(saved)
      /\ OnlyClientsKept(kept \o saved)
  <2>1. /\ kept \o saved \in Seq(Listener)
        /\ Owners(kept \o saved) = Owners(kept) \cup Owners(saved)
        /\ OnlyClientsKept(kept \o saved)
    BY <1>1, <1>2, OwnersOfConcat, Zenon
  <2> QED BY <1>2, <2>1
<1>5. Owners(listeners)' = Owners(saved) /\ OnlyClientsKept(listeners)'
  BY <1>3, <1>4 DEF Owners, OnlyClientsKept
<1>6. /\ Searching' = Searching \ {s}
      /\ \A q \in Searching' : search'[q].saved = search[q].saved
  <2>1. Reported(s, IF search[s].status \in Wish THEN search[s].status ELSE "COMPLETED")
    BY DEF Finished
  <2>2. Searching' = Searching \ {s}
    BY <2>1, ReportedSearches DEF SearchInv
  <2>3. \A q \in SearchId \ {s} : search'[q].saved = search[q].saved
    BY <2>1 DEF Reported, Unchanged, Same
  <2> QED BY <2>2, <2>3 DEF Searching
<1>7. \A q \in Searching' : /\ Owners(search[q].saved)' = Owners(search[q].saved)
                            /\ OnlyClientsKept(search[q].saved)' = OnlyClientsKept(search[q].saved)
  BY <1>6 DEF Owners, OnlyClientsKept
<1>8. Owners(saved) \subseteq Searching \ {s}
  BY DEF SearchInv, ListenersInv, saved
<1>9. \A q \in Searching \ {s} : /\ Owners(search[q].saved) \subseteq Searching \ {s}
                                 /\ Owners(search[q].saved) \cap Owners(saved) = {}
                                 /\ OnlyClientsKept(search[q].saved)
  BY DEF SearchInv, ListenersInv, saved
<1>10. \A p, q \in Searching \ {s} :
         p # q => Owners(search[p].saved) \cap Owners(search[q].saved) = {}
  BY DEF SearchInv, ListenersInv
<1> QED BY <1>3, <1>4, <1>5, <1>6, <1>7, <1>8, <1>9, <1>10 DEF ListenersInv

(* A callback that ends its search.                                        *)
LEMMA FinishedInv ==
  ASSUME SearchInv, NEW kind, Calling(kind), Finished(Top.search),
         UNCHANGED <<listener_cnt, tables, mine, crashed>>
  PROVE  SearchInv'
<1> DEFINE s == Top.search
           status == IF search[s].status \in Wish THEN search[s].status ELSE "COMPLETED"
<1>1. /\ events # <<>> /\ s \in Searching /\ s \in Owners(listeners) /\ s \in SearchId
      /\ s \notin Reporting /\ search[s].tuner \in Tuner /\ Held(search[s].tuner)
  BY CallingSearch
<1>2. TypeOK /\ Reported(s, status)
  BY DEF SearchInv, Finished
<1> HIDE DEF status
<1>3. /\ Searching' = Searching \ {s} /\ Active' = Active
      /\ Reporting' = Reporting \cup {s}
      /\ \A q \in SearchId : search'[q].tuner = search[q].tuner
  BY <1>1, <1>2, ReportedSearches
<1>4. ListenersInv' /\ listeners' \in Seq(Listener)
  BY <1>1, FinishedListeners
<1>5. /\ Returned("finishing") \in Seq(Frame)
      /\ StackInv(Returned("finishing"), {}, Reporting \cup {s})
  BY <1>1, FinishingStack DEF SearchInv
<1>6. Event("search", NoTuner, None, {}) \in Frame
  BY DEF Event, Frame, Kind
<1>7. events' = Notified(listeners', Returned("finishing"), Event("search", NoTuner, None, {}))
  BY DEF Finished
<1>8. events' \in Seq(Frame) /\ StackInv(events', Owners(listeners'), Reporting \cup {s})
  BY <1>4, <1>5, <1>6, <1>7, NotifiedStack
<1>9. EventsInv'
  <2>1. Owners(listeners)' = Owners(listeners')
    BY DEF Owners
  <2> QED BY <1>3, <1>8, <2>1 DEF EventsInv, StackInv
<1>10. TypeOK'
  <2>1. \A q \in SearchId : SearchType(search'[q])
    BY <1>2 DEF Reported, Unchanged
  <2> QED BY <1>2, <1>4, <1>8, <2>1 DEF TypeOK, Finished, TuneKept, Reported
<1>11. TunersInv'
  BY <1>1, <1>2, <1>3, TunersUntouched DEF Finished, SearchInv, Active
<1>12. StatusInv'
  BY <1>2, <1>3 DEF StatusInv, Reported, Unchanged, Same, SearchInv, Searching
<1> QED BY <1>4, <1>9, <1>10, <1>11, <1>12 DEF SearchInv

(* mydvb_start_decoder, in the callback of the tuner. *)
LEMMA StartDecoderInv ==
  ASSUME SearchInv, Calling("tuner"), NEW s, s = Top.search, NEW t, t = search[s].tuner,
         StartDecoder(t), search' = [search EXCEPT ![s] = Reached(s)],
         UNCHANGED <<listeners, listener_cnt, tables, mine, crashed>>
  PROVE  SearchInv'
<1>1. /\ events # <<>> /\ s \in SearchId /\ Top.at # "finishing"
      /\ t \in Tuner /\ Held(t) /\ TypeOK
  BY CallingSearch DEF Calling, SearchInv
<1>2. SearchesSame
  BY <1>1, ReachedSame DEF SearchesSame, Unchanged, Same, TypeOK
<1>3. Active' = Active /\ Reporting' = Reporting
  BY <1>1, <1>2, SameSearches
<1>4. TuneKept(t)
  <2> DEFINE r == [tune[t] EXCEPT !.mydvb = tune[t].channel]
  <2>1. tune[t] \in TuneState /\ tune \in [Tuner -> TuneState]
    BY <1>1 DEF TypeOK
  <2>2. r \in TuneState /\ r.references = tune[t].references
    BY <2>1 DEF TuneState
  <2>3. tune' = [tune EXCEPT ![t] = r]
    BY DEF StartDecoder
  <2> HIDE DEF r
  <2> QED BY <1>1, <2>1, <2>2, <2>3 DEF TuneKept
<1>5. /\ Returned("done") \in Seq(Frame)
      /\ \A O : StackInv(Returned("done"), O, Reporting)
  BY <1>1, ReturnedStack DEF SearchInv
<1>6. Event("ready", t, None, {}) \in Frame
  BY <1>1 DEF Event, Frame, Kind
<1>7. events' \in Seq(Frame) /\ StackInv(events', Owners(listeners), Reporting)
  <2>1. listeners \in Seq(Listener)
    BY <1>1 DEF TypeOK
  <2>2. CASE events' = Returned("done")
    BY <1>5, <2>2
  <2>3. CASE events' = Notified(listeners, Returned("done"), Event("ready", t, None, {}))
    <3>1. StackInv(Returned("done"), {}, Reporting)
      BY <1>5
    <3> QED BY <1>5, <1>6, <2>1, <2>3, <3>1, NotifiedStack
  <2> QED BY <2>2, <2>3 DEF StartDecoder
<1>8. EventsInv'
  <2>1. Owners(listeners)' = Owners(listeners)
    BY DEF Owners
  <2> QED BY <1>3, <1>7, <2>1 DEF EventsInv, StackInv
<1>9. event_propagation' \in BOOLEAN
  BY <1>1 DEF StartDecoder, TypeOK
<1>10. TypeOK'
  BY <1>1, <1>2, <1>4, <1>7, <1>9 DEF TypeOK, TuneKept, SearchesSame, Unchanged
<1>11. TunersInv'
  <2>1. \A q \in Active : search'[q].tuner = search[q].tuner
    BY <1>2 DEF Active, SearchesSame, Unchanged, Same
  <2> QED BY <1>1, <1>3, <1>4, <2>1, TunersUntouched DEF SearchInv
<1>12. ListenersInv' /\ StatusInv'
  BY <1>1, <1>2, ListenersUntouched, StatusUntouched DEF SearchInv
<1> QED BY <1>8, <1>10, <1>11, <1>12 DEF SearchInv

LEMMA TuneCallbackInv == SearchInv /\ TuneCallback => SearchInv'
<1> SUFFICES ASSUME SearchInv, TuneCallback PROVE SearchInv'
  OBVIOUS
<1> DEFINE s == Top.search
           t == search[s].tuner
<1>1. /\ Calling("tuner") /\ TypeOK /\ s \in SearchId /\ t \in Tuner
      /\ UNCHANGED <<listener_cnt, tables, mine, crashed>>
  BY CallingSearch DEF TuneCallback, SearchInv
<1>2. tune[t] \in TuneState
  BY <1>1 DEF TypeOK
<1>3. CASE ScanOn(s, tune[t], Reached(s))
  BY <1>1, <1>2, <1>3, ReachedSame, ScanOnEffect, GoesOnInv, FinishedInv
<1>4. CASE /\ StartDecoder(t) /\ search' = [search EXCEPT ![s] = Reached(s)]
           /\ UNCHANGED listeners
  BY <1>1, <1>4, StartDecoderInv
<1>5. CASE /\ search' = [search EXCEPT ![s] = Reached(s)] /\ events' = Returned("done")
           /\ UNCHANGED <<listeners, event_propagation, tune>>
  <2>1. SearchesSame
    BY <1>1, <1>5, ReachedSame DEF SearchesSame, Unchanged, Same, TypeOK
  <2>2. GoesOn(s)
    BY <1>1, <1>5, <2>1 DEF GoesOn, TuneKept, TypeOK
  <2> QED BY <1>1, <2>2, GoesOnInv
<1> QED BY <1>3, <1>4, <1>5 DEF TuneCallback

LEMMA ReadyCallbackInv == SearchInv /\ ReadyCallback => SearchInv'
<1> SUFFICES ASSUME SearchInv, ReadyCallback PROVE SearchInv'
  OBVIOUS
<1> DEFINE s == Top.search
           t == search[s].tuner
<1>1. /\ Calling("ready") /\ TypeOK /\ s \in SearchId /\ t \in Tuner /\ Held(t)
      /\ UNCHANGED <<listener_cnt, tables, mine>>
  BY CallingSearch DEF ReadyCallback, SearchInv
<1>2. tune[t] \in TuneState
  BY <1>1 DEF TypeOK
<1>3. Same(Reached(s), search[s]) /\ SearchType(Reached(s))
  BY <1>1, ReachedSame
<1>4. CASE HasTables(t)
  <2> DEFINE sr == Recorded(t, Reached(s))
  <2>1. ScanOn(s, StoppedDecoder(tune[t]), sr) /\ UNCHANGED crashed
    BY <1>4 DEF ReadyCallback
  <2>2. Same(sr, search[s]) /\ SearchType(sr)
    BY <1>3, RecordedSame DEF Same
  <2>3. /\ StoppedDecoder(tune[t]) \in TuneState
        /\ StoppedDecoder(tune[t]).references = tune[t].references
    BY <1>2, StoppedDecoderType
  <2> HIDE DEF sr
  <2>4. GoesOn(s) \/ Finished(s)
    BY <1>1, <2>1, <2>2, <2>3, ScanOnEffect
  <2> QED BY <1>1, <2>1, <2>4, GoesOnInv, FinishedInv
<1>5. CASE ~HasTables(t)
  <2>1. /\ crashed' = TRUE
        /\ search' = [search EXCEPT ![s] = Reached(s)]
        /\ UNCHANGED <<listeners, event_propagation, events, tune>>
    BY <1>5 DEF ReadyCallback
  <2>2. SearchesSame
    BY <1>1, <1>3, <2>1 DEF SearchesSame, Unchanged, Same, TypeOK
  <2>3. ListenersInv' /\ StatusInv' /\ TunersInv'
    BY <1>1, <2>1, <2>2, ListenersUntouched, StatusUntouched, TunersLeft DEF SearchInv
  <2>4. EventsInv'
    <3>1. Owners(listeners)' = Owners(listeners) /\ Reporting' = Reporting
      BY <1>1, <2>1, <2>2, SameSearches DEF Owners
    <3> QED BY <2>1, <3>1 DEF SearchInv, EventsInv, StackInv
  <2>5. TypeOK'
    BY <1>1, <2>1, <2>2 DEF TypeOK, SearchesSame, Unchanged
  <2> QED BY <2>3, <2>4, <2>5 DEF SearchInv
<1> QED BY <1>4, <1>5

LEMMA TimeoutCallbackInv == SearchInv /\ TimeoutCallback => SearchInv'
<1> SUFFICES ASSUME SearchInv, TimeoutCallback PROVE SearchInv'
  OBVIOUS
<1> DEFINE s == Top.search
           t == search[s].tuner
<1>1. /\ Calling("timeout") /\ TypeOK /\ s \in SearchId /\ t \in Tuner
      /\ UNCHANGED <<listener_cnt, tables, mine, crashed>>
  BY CallingSearch DEF TimeoutCallback, SearchInv
<1>2. tune[t] \in TuneState
  BY <1>1 DEF TypeOK
<1>3. SearchType(search[s]) /\ Same(search[s], search[s])
  BY <1>1 DEF TypeOK, Same
<1>4. /\ StoppedDecoder(tune[t]) \in TuneState
      /\ StoppedDecoder(tune[t]).references = tune[t].references
  BY <1>2, StoppedDecoderType
<1>5. CASE ScanOn(s, StoppedDecoder(tune[t]), search[s])
  <2>1. GoesOn(s) \/ Finished(s)
    BY <1>1, <1>3, <1>4, <1>5, ScanOnEffect
  <2> QED BY <1>1, <2>1, GoesOnInv, FinishedInv
<1>6. CASE events' = Returned("done") /\ UNCHANGED <<listeners, event_propagation, tune, search>>
  <2>1. SearchesSame
    BY <1>1, <1>6 DEF SearchesSame, Unchanged, Same, TypeOK
  <2>2. GoesOn(s)
    BY <1>1, <1>6, <2>1 DEF GoesOn, TuneKept, TypeOK
  <2> QED BY <1>1, <2>2, GoesOnInv
<1> QED BY <1>5, <1>6 DEF TimeoutCallback

-----------------------------------------------------------------------------
(* The end of a search, and of a callback.                                 *)

(* The last reference of a tuner is given back.                            *)
LEMMA ReleasedTuneType ==
  ASSUME NEW r \in TuneState, r.references = 1
  PROVE  LET new == ReleasedTune(r) IN
           /\ new \in TuneState
           /\ new.references = 0 /\ new.status = "NOOP" /\ new.mydvb = NoDecoder
<1>1. NoDecoder \in Int
  BY DEF NoDecoder
<1>2. ReleasedTune(r) = [r EXCEPT !.references = 0, !.status = "NOOP",
                                  !.mydvb = NoDecoder, !.taken = FALSE]
  BY DEF ReleasedTune
<1>3. ReleasedTune(r) \in TuneState
  <2>1. PICK no \in BOOLEAN : no = FALSE
    OBVIOUS
  <2>2. ReleasedTune(r) = [r EXCEPT !.references = 0, !.status = "NOOP",
                                    !.mydvb = NoDecoder, !.taken = no]
    BY <1>2, <2>1
  <2>3. \A b \in BOOLEAN :
          [r EXCEPT !.references = 0, !.status = "NOOP", !.mydvb = NoDecoder,
                    !.taken = b] \in TuneState
    BY <1>1 DEF TuneState
  <2> QED BY <2>2, <2>3, Zenon
<1>4. {"references", "status", "mydvb"} \subseteq DOMAIN r
  BY DEF TuneState
<1> QED BY <1>2, <1>3, <1>4

(* After the event of the end.                                             *)
LEMMA FinishSearchInv == SearchInv /\ FinishSearch => SearchInv'
<1> SUFFICES ASSUME SearchInv, FinishSearch PROVE SearchInv'
  OBVIOUS
<1>s. PICK s : s = Top.search
  OBVIOUS
<1>t. PICK t : t = search[s].tuner
  OBVIOUS
<1>1. TypeOK /\ events # <<>> /\ Top.at = "finishing" /\ Len(events) \in DOMAIN events
  BY DEF SearchInv, FinishSearch, TypeOK
<1>2. s \in Reporting /\ s \in SearchId /\ s \in Active /\ t \in Tuner
  BY <1>s, <1>t, <1>1 DEF SearchInv, EventsInv, StackInv, Top, Reporting, Active, TunersInv
<1>3. /\ tune' = [tune EXCEPT ![t] = ReleasedTune(tune[t])]
      /\ search' = [search EXCEPT ![s].phase = "closed"]
      /\ events' = Returned("done") /\ event_propagation' = FALSE
      /\ UNCHANGED <<listeners, listener_cnt, tables, mine, crashed>>
  BY <1>s, <1>t DEF FinishSearch
<1>4. SearchType(search[s])
  BY <1>1, <1>2 DEF TypeOK
<1> DEFINE new == [search[s] EXCEPT !.phase = "closed"]
<1>5. /\ DOMAIN new = DOMAIN search[s] /\ new.phase = "closed" /\ new.status = search[s].status
      /\ new.tuner = search[s].tuner /\ new.saved = search[s].saved
      /\ new.scan = search[s].scan
  BY <1>4, SearchFields
<1>6. search' = [search EXCEPT ![s] = new]
  BY <1>3
<1> HIDE DEF new
<1>7. /\ DOMAIN search' = SearchId /\ search'[s] = new /\ SearchType(new)
      /\ \A q \in SearchId \ {s} : search'[q] = search[q]
  BY <1>1, <1>2, <1>4, <1>5, <1>6 DEF TypeOK, SearchType
<1>8. /\ Searching' = Searching /\ Reporting' = Reporting \ {s} /\ Active' = Active \ {s}
      /\ \A q \in SearchId : /\ search'[q].tuner = search[q].tuner
                             /\ search'[q].saved = search[q].saved
                             /\ search'[q].status = search[q].status
  BY <1>2, <1>5, <1>7 DEF Searching, Reporting, Active
<1>9. /\ Returned("done") \in Seq(Frame)
      /\ \A O : StackInv(Returned("done"), O, Reporting \ {s})
  BY <1>s, <1>1, ReturnedStack DEF SearchInv
<1>10. EventsInv'
  BY <1>3, <1>8, <1>9 DEF EventsInv, StackInv
<1>11. ListenersInv'
  <2>1. Owners(listeners)' = Owners(listeners) /\ OnlyClientsKept(listeners)' = OnlyClientsKept(listeners)
    BY <1>3 DEF Owners, OnlyClientsKept
  <2>2. \A q \in Searching : /\ Owners(search[q].saved)' = Owners(search[q].saved)
                             /\ OnlyClientsKept(search[q].saved)' = OnlyClientsKept(search[q].saved)
    BY <1>8 DEF Owners, OnlyClientsKept, Searching
  <2> QED BY <1>8, <2>1, <2>2 DEF SearchInv, ListenersInv
<1>12. StatusInv'
  BY <1>8 DEF SearchInv, StatusInv, Searching
<1>13. /\ tune[t].references = 1 /\ tune[t] \in TuneState
       /\ tune' \in [Tuner -> TuneState]
       /\ tune'[t].references = 0 /\ tune'[t].status = "NOOP" /\ tune'[t].mydvb = NoDecoder
       /\ \A u \in Tuner \ {t} : tune'[u] = tune[u]
  <2>1. tune[t].references = 1 /\ tune[t] \in TuneState /\ tune \in [Tuner -> TuneState]
    BY <1>t, <1>1, <1>2 DEF SearchInv, TunersInv, Held, TypeOK
  <2> DEFINE r == ReleasedTune(tune[t])
  <2>2. r \in TuneState /\ r.references = 0 /\ r.status = "NOOP" /\ r.mydvb = NoDecoder
    BY <2>1, ReleasedTuneType
  <2> HIDE DEF r
  <2>3. tune' = [tune EXCEPT ![t] = r]
    BY <1>3 DEF r
  <2> QED BY <1>2, <2>1, <2>2, <2>3
<1>14. TunersInv'
  <2>1. \A u \in Tuner \ {t} : Held(u)' <=> Held(u)
    BY <1>t, <1>2, <1>8 DEF Held, Active
  <2>2. ~Held(t)'
    BY <1>t, <1>2, <1>8 DEF Held, SearchInv, TunersInv, Active
  <2> QED BY <1>2, <1>8, <1>13, <2>1, <2>2 DEF SearchInv, TunersInv, Active
<1>15. TypeOK'
  BY <1>1, <1>3, <1>7, <1>9, <1>13 DEF TypeOK
<1> QED BY <1>10, <1>11, <1>12, <1>14, <1>15 DEF SearchInv

(* Steps that leave searches and listeners alone. *)
LEMMA EventStep ==
  ASSUME SearchInv, UNCHANGED listeners, SearchesSame,
         listener_cnt' \in Nat, mine' \in Seq(Listener),
         event_propagation' \in BOOLEAN, crashed' \in BOOLEAN,
         tables' \in [Decoder -> Nat],
         events' \in Seq(Frame) /\ StackInv(events', Owners(listeners), Reporting),
         tune' = tune \/ \E t \in Tuner : Held(t) /\ TuneKept(t)
  PROVE  SearchInv'
<1>1. TypeOK
  BY DEF SearchInv
<1>2. Active' = Active /\ Reporting' = Reporting
  BY <1>1, SameSearches
<1>3. TypeOK'
  BY <1>1 DEF TypeOK, TuneKept, SearchesSame, Unchanged
<1>4. ListenersInv' /\ StatusInv'
  BY <1>1, ListenersUntouched, StatusUntouched DEF SearchInv
<1>5. EventsInv'
  <2>1. Owners(listeners)' = Owners(listeners)
    BY DEF Owners
  <2> QED BY <1>2, <2>1 DEF EventsInv, StackInv
<1>6. TunersInv'
  <2>1. CASE tune' = tune
    BY <1>1, <2>1, TunersLeft DEF SearchInv
  <2>2. CASE \E t \in Tuner : Held(t) /\ TuneKept(t)
    <3>1. \A s \in Active : search'[s].tuner = search[s].tuner
      BY DEF Active, SearchesSame, Unchanged, Same
    <3> QED BY <1>1, <1>2, <2>2, <3>1, TunersUntouched DEF SearchInv
  <2> QED BY <2>1, <2>2
<1> QED BY <1>3, <1>4, <1>5, <1>6 DEF SearchInv

(* Front drops the last frame.                                             *)
LEMMA FrontFrames ==
  ASSUME NEW S, NEW e \in Seq(S), e # <<>>
  PROVE  /\ Front(e) \in Seq(S) /\ Len(Front(e)) = Len(e) - 1
         /\ \A n \in DOMAIN Front(e) : n \in DOMAIN e /\ n # Len(e) /\ Front(e)[n] = e[n]
<1>1. /\ Len(e) \in Nat /\ Len(e) > 0 /\ DOMAIN e = 1..Len(e)
      /\ \A n \in DOMAIN e : e[n] \in S
  OBVIOUS
<1>2. Front(e) = [n \in 1..Len(e) - 1 |-> e[n]]
  BY <1>1 DEF Front
<1> DEFINE f == [n \in 1..Len(e) - 1 |-> e[n]]
<1>3. f \in Seq(S) /\ Len(f) = Len(e) - 1
  BY <1>1
<1> QED BY <1>1, <1>2, <1>3

(* The loop of mydvb_notify_event goes on or ends.                         *)
LEMMA NextListenerInv == SearchInv /\ NextListener => SearchInv'
<1> SUFFICES ASSUME SearchInv, NextListener PROVE SearchInv'
  OBVIOUS
<1>1. /\ TypeOK /\ events # <<>> /\ Top.at \in {"user", "done"}
      /\ events \in Seq(Frame) /\ listeners \in Seq(Listener)
      /\ Len(events) \in DOMAIN events
  BY DEF SearchInv, NextListener, TypeOK
<1>2. Top \in Frame /\ Top.kind \in Kind /\ Top.i \in Nat
  <2>1. Top \in Frame
    BY <1>1 DEF Top
  <2> QED BY <2>1 DEF Frame
<1>3. /\ Front(events) \in Seq(Frame) /\ Len(Front(events)) \in Nat
      /\ \A n \in DOMAIN Front(events) :
           n \in DOMAIN events /\ n # Len(events) /\ Front(events)[n] = events[n]
  BY <1>1, FrontFrames
<1>4. \A n \in DOMAIN events : events[n].at # "callback"
  BY <1>1 DEF SearchInv, EventsInv, StackInv, Top
<1>5. /\ \A n \in DOMAIN events : events[n].at = "finishing" => events[n].search \in Reporting
      /\ \A m, n \in DOMAIN events :
           /\ events[m].at = "finishing" /\ events[n].at = "finishing"
           /\ events[m].search = events[n].search
           => m = n
  BY DEF SearchInv, EventsInv, StackInv
<1> DEFINE front == Front(events)
           next == FirstFrom(listeners, Top.kind, Top.i + 1)
           k == CHOOSE k \in next : TRUE
           f == Entered(listeners, Top, k)
<1>6. events' \in Seq(Frame) /\ StackInv(events', Owners(listeners), Reporting)
  <2>1. CASE events' = front
    <3> HIDE DEF front
    <3> QED BY <1>3, <1>4, <1>5, <2>1 DEF StackInv, front
  <2>2. CASE next # {} /\ events' = Append(front, f)
    <3>1. k \in next
      BY <2>2
    <3>2. /\ f \in Frame /\ f.at \in {"user", "callback"}
          /\ f.at = "callback" => f.search \in Owners(listeners)
      BY <1>1, <1>2, <3>1, EnteredFrame
    <3> HIDE DEF f, k, next, front
    <3>3. front \in Seq(Frame)
      BY <1>3 DEF front
    <3> DEFINE new == Append(front, f)
    <3>4. /\ new \in Seq(Frame) /\ Len(new) = Len(front) + 1
          /\ DOMAIN new = 1..Len(front) + 1 /\ DOMAIN front = 1..Len(front)
          /\ new[Len(front) + 1] = f /\ Len(front) \in Nat
      BY <3>2, <3>3
    <3>5. \A n \in DOMAIN new :
            \/ n \in DOMAIN front /\ new[n] = front[n]
            \/ n = Len(new) /\ new[n] = f
      BY <3>3, <3>4
    <3> HIDE DEF new
    <3>6. \A n \in DOMAIN new :
            \/ n \in DOMAIN events /\ new[n] = events[n]
            \/ n = Len(new) /\ new[n] = f
      BY <1>3, <3>5 DEF front
    <3>7. StackInv(new, Owners(listeners), Reporting)
      BY <1>4, <1>5, <3>2, <3>6 DEF StackInv
    <3> QED BY <2>2, <3>4, <3>7 DEF new
  <2> QED BY <2>1, <2>2 DEF NextListener
<1>7. UNCHANGED <<listeners, listener_cnt, event_propagation, tune, tables, search, mine, crashed>>
  BY DEF NextListener
<1>8. SearchesSame
  BY <1>1, <1>7, WithLockedLeaves DEF SearchesLeft
<1> QED BY <1>1, <1>6, <1>7, <1>8, EventStep DEF TypeOK

-----------------------------------------------------------------------------
(* The main loop.                                                          *)

LEMMA MainLoopEventInv ==
  ASSUME SearchInv, InMainLoop, NEW e \in Frame, MainLoopEvent(e), SearchesSame,
         tables' \in [Decoder -> Nat],
         tune' = tune \/ \E t \in Tuner : Held(t) /\ TuneKept(t)
  PROVE  SearchInv'
<1>1. /\ events = <<>> /\ <<>> \in Seq(Frame) /\ StackInv(<<>>, {}, Reporting)
      /\ listeners \in Seq(Listener)
  BY DEF InMainLoop, StackInv, SearchInv, TypeOK
<1>2. events' \in Seq(Frame) /\ StackInv(events', Owners(listeners), Reporting)
  BY <1>1, NotifiedStack DEF MainLoopEvent
<1> QED BY <1>2, EventStep DEF MainLoopEvent, SearchInv, TypeOK

(* A tuner that is being tuned is in use.                                  *)
LEMMA TryingIsHeld ==
  ASSUME SearchInv, NEW t \in Tuner, tune[t].status = "TRYING"
  PROVE  /\ Held(t)
         /\ \A status \in {"LOCK", "FAILED"} :
              tune' = [tune EXCEPT ![t].status = status] => TuneKept(t)
<1>1. Held(t)
  BY DEF SearchInv, TunersInv
<1>2. tune \in [Tuner -> TuneState] /\ tune[t] \in TuneState
  BY DEF SearchInv, TypeOK
<1>3. ASSUME NEW status \in {"LOCK", "FAILED"},
             tune' = [tune EXCEPT ![t].status = status]
      PROVE  TuneKept(t)
  <2> DEFINE r == [tune[t] EXCEPT !.status = status]
  <2>1. r \in TuneState /\ r.references = tune[t].references
    BY <1>2 DEF TuneState
  <2>2. tune' = [tune EXCEPT ![t] = r]
    BY <1>3
  <2> HIDE DEF r
  <2> QED BY <1>2, <2>1, <2>2 DEF TuneKept
<1> QED BY <1>1, <1>3

LEMMA EventFrame ==
  ASSUME NEW kind \in Kind, NEW t \in Tuner \cup {NoTuner, Other},
         NEW status \in {"TRYING", "LOCK", "FAILED", None}, NEW late \in SUBSET Tuner
  PROVE  Event(kind, t, status, late) \in Frame
BY DEF Event, Frame

(* Of the searches only the frequencies that locked change.                *)
LEMMA MainLoopLeaves ==
  ASSUME TypeOK, MainLoop
  PROVE  SearchesLeft
<1>1. search' = search \/ \E t \in Tuner : search' = WithLocked(t)
  BY DEF MainLoop, Lock, Fail, ReadTables, Second, OtherEvent
<1> QED BY <1>1, WithLockedLeaves

LEMMA MainLoopInv == SearchInv /\ MainLoop => SearchInv'
<1> SUFFICES ASSUME SearchInv, MainLoop PROVE SearchInv'
  OBVIOUS
<1>0. {"tuner", "ready", "timeout"} \subseteq Kind /\ tables \in [Decoder -> Nat]
  BY DEF Kind, SearchInv, TypeOK
<1>s. SearchesSame
  BY MainLoopLeaves DEF SearchInv, SearchesLeft
<1>1. ASSUME NEW t \in Tuner, Lock(t) PROVE SearchInv'
  <2>1. Event("tuner", t, "LOCK", {}) \in Frame
    BY <1>0, EventFrame
  <2>2. Held(t) /\ TuneKept(t)
    BY <1>1, TryingIsHeld DEF Lock
  <2> QED BY <1>0, <1>s, <1>1, <2>1, <2>2, MainLoopEventInv DEF Lock
<1>2. ASSUME NEW t \in Tuner, Fail(t) PROVE SearchInv'
  <2>1. Event("tuner", t, "FAILED", {}) \in Frame
    BY <1>0, EventFrame
  <2>2. Held(t) /\ TuneKept(t)
    BY <1>2, TryingIsHeld DEF Fail
  <2> QED BY <1>0, <1>s, <1>2, <2>1, <2>2, MainLoopEventInv DEF Fail
<1>3. ASSUME NEW t \in Tuner, ReadTables(t) PROVE SearchInv'
  <2>1. Event("ready", t, None, {}) \in Frame
    BY <1>0, EventFrame
  <2>2. tune[t].p \in Nat
    <3>1. tune[t] \in TuneState
      BY DEF SearchInv, TypeOK
    <3> QED BY <3>1 DEF TuneState
  <2>3. tables' \in [Decoder -> Nat]
    BY <1>0, <1>3, <2>2 DEF ReadTables
  <2> QED BY <1>s, <1>3, <2>1, <2>3, MainLoopEventInv DEF ReadTables
<1>4. ASSUME NEW late \in SUBSET Locked, Second(late) PROVE SearchInv'
  <2>1. Event("timeout", NoTuner, None, late) \in Frame
    BY <1>0, EventFrame DEF Locked
  <2> QED BY <1>0, <1>s, <1>4, <2>1, MainLoopEventInv DEF Second
<1>5. CASE OtherEvent
  <2>1. PICK e \in Frame : MainLoopEvent(e)
    BY <1>0, <1>5, EventFrame DEF OtherEvent
  <2> QED BY <1>0, <1>s, <1>5, <2>1, MainLoopEventInv DEF OtherEvent
<1> QED BY <1>1, <1>2, <1>3, <1>4, <1>5 DEF MainLoop

-----------------------------------------------------------------------------
(* Clients.                                                                *)

(* While client code runs, no callback of a search is about to.            *)
LEMMA NoCallback ==
  ASSUME SearchInv, ClientTurn
  PROVE  \A O : StackInv(events, O, Reporting)
<1>1. \A n \in DOMAIN events : events[n].at # "callback"
  <2>1. CASE events = <<>>
    BY <2>1
  <2>2. CASE events # <<>>
    BY <2>2 DEF ClientTurn, Top, SearchInv, EventsInv, StackInv
  <2> QED BY <2>1, <2>2
<1> QED BY <1>1 DEF SearchInv, EventsInv, StackInv

(* The listeners of clients come and go. *)
LEMMA ClientListeners ==
  ASSUME SearchInv, ClientTurn, UNCHANGED <<events, tune, tables, search, crashed>>,
         listeners' \in Seq(Listener), mine' \in Seq(Listener), listener_cnt' \in Nat,
         event_propagation' \in BOOLEAN,
         Owners(listeners') \subseteq Owners(listeners), OnlyClientsKept(listeners')
  PROVE  SearchInv'
<1>1. TypeOK /\ SearchesSame
  BY DEF SearchInv, SearchesSame, Unchanged, Same, TypeOK
<1>2. Searching' = Searching /\ Active' = Active /\ Reporting' = Reporting
  BY <1>1, SameSearches
<1>3. TypeOK'
  BY <1>1 DEF TypeOK
<1>4. StatusInv' /\ TunersInv'
  BY <1>1, StatusUntouched, TunersLeft DEF SearchInv
<1>5. Owners(listeners)' = Owners(listeners') /\ OnlyClientsKept(listeners)' = OnlyClientsKept(listeners')
  BY DEF Owners, OnlyClientsKept
<1>6. EventsInv'
  BY <1>2, <1>5, NoCallback DEF EventsInv, StackInv
<1>7. ListenersInv'
  <2>1. \A s \in Searching : /\ Owners(search[s].saved)' = Owners(search[s].saved)
                             /\ OnlyClientsKept(search[s].saved)' = OnlyClientsKept(search[s].saved)
    BY DEF Owners, OnlyClientsKept
  <2> QED BY <1>2, <1>5, <2>1 DEF SearchInv, ListenersInv
<1> QED BY <1>3, <1>4, <1>6, <1>7 DEF SearchInv

LEMMA RegisterInv ==
  ASSUME SearchInv, NEW kind \in ClientKinds, Register(kind)
  PROVE  SearchInv'
<1> DEFINE l == [id |-> listener_cnt, kind |-> kind, owner |-> User]
<1>1. /\ listeners \in Seq(Listener) /\ mine \in Seq(Listener) /\ listener_cnt \in Nat
      /\ OnlyClientsKept(listeners)
      /\ event_propagation \in BOOLEAN
  BY DEF SearchInv, TypeOK, ListenersInv
<1>2. l \in Listener /\ l.owner = User
  BY <1>1, SearchAssumption DEF Listener
<1>3. /\ listeners' = Append(listeners, l) /\ mine' \in {mine, Append(mine, l)}
      /\ listener_cnt' = listener_cnt + 1 /\ ClientTurn
      /\ UNCHANGED <<event_propagation, events, tune, tables, search, crashed>>
  BY DEF Register
<1> HIDE DEF l
<1>4. listeners' \in Seq(Listener) /\ mine' \in Seq(Listener)
  BY <1>1, <1>2, <1>3
<1>5. \A k \in DOMAIN listeners' :
        \/ k \in DOMAIN listeners /\ listeners'[k] = listeners[k]
        \/ listeners'[k] = l
  BY <1>1, <1>2, <1>3
<1>6. Owners(listeners') \subseteq Owners(listeners) /\ OnlyClientsKept(listeners')
  BY <1>1, <1>2, <1>5 DEF Owners, OnlyClientsKept
<1> QED BY <1>1, <1>3, <1>4, <1>6, ClientListeners

LEMMA RemoveListenerInv ==
  ASSUME SearchInv, NEW l, RemoveListener(l)
  PROVE  SearchInv'
<1>1. /\ listeners \in Seq(Listener) /\ mine \in Seq(Listener) /\ listener_cnt \in Nat
      /\ OnlyClientsKept(listeners)
  BY DEF SearchInv, TypeOK, ListenersInv
<1>2. /\ listeners' \in Seq(Listener)
      /\ Owners(listeners') \subseteq Owners(listeners) /\ OnlyClientsKept(listeners')
  BY <1>1, OnlyListeners DEF RemoveListener
<1>3. mine' \in Seq(Listener)
  BY <1>1, OnlyListeners DEF RemoveListener
<1> QED BY <1>1, <1>2, <1>3, ClientListeners DEF RemoveListener

LEMMA AskEndInv ==
  ASSUME SearchInv, NEW s \in SearchId, NEW wish \in Wish, AskEnd(s, wish)
  PROVE  SearchInv'
<1> DEFINE new == [search[s] EXCEPT !.status = wish]
<1>1. TypeOK /\ SearchType(search[s])
  BY DEF SearchInv, TypeOK
<1>2. /\ DOMAIN new = DOMAIN search[s] /\ new.status = wish
      /\ new.phase = search[s].phase /\ new.tuner = search[s].tuner
      /\ new.saved = search[s].saved /\ new.scan = search[s].scan
  BY <1>1, SearchFields
<1>3. search' = [search EXCEPT ![s] = new]
  BY DEF AskEnd
<1> HIDE DEF new
<1>4. /\ DOMAIN search' = SearchId /\ search'[s] = new /\ SearchType(new)
      /\ \A q \in SearchId \ {s} : search'[q] = search[q]
  BY <1>1, <1>2, <1>3 DEF TypeOK, SearchType
<1>5. /\ Searching' = Searching /\ Active' = Active /\ Reporting' = Reporting
      /\ \A q \in SearchId : /\ search'[q].tuner = search[q].tuner
                             /\ search'[q].saved = search[q].saved
  BY <1>2, <1>4 DEF Searching, Active, Reporting
<1>6. UNCHANGED <<listeners, listener_cnt, event_propagation, events, tune, tables, mine, crashed>>
  BY DEF AskEnd
<1>7. TypeOK'
  BY <1>1, <1>4, <1>6 DEF TypeOK
<1>8. ListenersInv'
  <2>1. Owners(listeners)' = Owners(listeners) /\ OnlyClientsKept(listeners)' = OnlyClientsKept(listeners)
    BY <1>6 DEF Owners, OnlyClientsKept
  <2>2. \A q \in Searching : /\ Owners(search[q].saved)' = Owners(search[q].saved)
                             /\ OnlyClientsKept(search[q].saved)' = OnlyClientsKept(search[q].saved)
    BY <1>5 DEF Owners, OnlyClientsKept, Searching
  <2> QED BY <1>5, <2>1, <2>2 DEF SearchInv, ListenersInv
<1>9. EventsInv'
  <2>1. Owners(listeners)' = Owners(listeners)
    BY <1>6 DEF Owners
  <2> QED BY <1>5, <1>6, <2>1 DEF SearchInv, EventsInv, StackInv
<1>10. TunersInv'
  <2>1. \A u \in Tuner : Held(u)' <=> Held(u)
    BY <1>5 DEF Held, Active
  <2> QED BY <1>5, <1>6, <2>1 DEF SearchInv, TunersInv, Active
<1>11. StatusInv'
  BY <1>2, <1>4, <1>5 DEF SearchInv, StatusInv, Searching
<1> QED BY <1>7, <1>8, <1>9, <1>10, <1>11 DEF SearchInv

(* What mydvb_tuner_search does, with the tuner it has found. *)
TakesTuner(s, t) ==
  /\ s \notin Started /\ t \in Tuner /\ tune[t].references = 0
  /\ tune' \in [Tuner -> TuneState] /\ tune'[t].references = 1
  /\ \A u \in Tuner \ {t} : tune'[u] = tune[u]
  /\ DOMAIN search' = SearchId /\ SearchType(search'[s])
  /\ search'[s].phase = "searching" /\ search'[s].status = "SEARCHING"
  /\ search'[s].tuner = t /\ search'[s].saved = SavedOf(listeners)
  /\ \A q \in SearchId \ {s} : Unchanged(q)

LEMMA TunerSearchEffect ==
  ASSUME SearchInv, NEW s \in SearchId, NEW type, TunerSearch(s, type)
  PROVE  \E t \in Tuner : TakesTuner(s, t)
<1>1. TypeOK /\ listeners \in Seq(Listener) /\ tune \in [Tuner -> TuneState]
  BY DEF SearchInv, TypeOK
<1>2. PICK t \in Available(type), taken \in BOOLEAN :
        LET scan == ScanInit(Valid[t], type) IN
          /\ tune' = [tune EXCEPT ![t] = ScannedTune(t,
               [tune[t] EXCEPT !.references = @ + 1], scan.f, taken)]
          /\ search' = [q \in SearchId |->
               IF q = s THEN [NoSearch EXCEPT !.phase = "searching",
                                !.status = "SEARCHING", !.tuner = t, !.scan = scan,
                                !.saved = SavedOf(listeners),
                                !.tried = {<<scan.f, scan.d>>}]
               ELSE [search[q] EXCEPT !.disturbed = @ \/ q \in Searching]]
  BY DEF TunerSearch
<1>3. t \in Tuner /\ tune[t].references = 0 /\ s \notin Started
  BY DEF Available, TunerSearch
<1> DEFINE scan == ScanInit(Valid[t], type)
           mine1 == [NoSearch EXCEPT !.phase = "searching", !.status = "SEARCHING",
                       !.tuner = t, !.scan = scan, !.saved = SavedOf(listeners),
                       !.tried = {<<scan.f, scan.d>>}]
           other(q) == [search[q] EXCEPT !.disturbed = @ \/ q \in Searching]
<1>4. scan.f \in Nat
  BY ScanAssumption DEF ScanInit
<1> DEFINE r == [tune[t] EXCEPT !.references = @ + 1]
<1>5. r \in TuneState /\ r.references = 1
  <2>1. tune[t] \in TuneState
    BY <1>1, <1>3
  <2> QED BY <1>3, <2>1 DEF TuneState
<1>6. tune' = [tune EXCEPT ![t] = ScannedTune(t, r, scan.f, taken)]
  BY <1>2
<1> HIDE DEF r
<1>7. /\ search' = [q \in SearchId |-> IF q = s THEN mine1 ELSE other(q)]
  BY <1>2
<1>8. SavedOf(listeners) \in Seq(Listener)
  BY <1>1, SavedListeners
<1> HIDE DEF scan
<1>9. /\ DOMAIN mine1 = DOMAIN NoSearch
      /\ mine1.phase = "searching" /\ mine1.status = "SEARCHING" /\ mine1.tuner = t
      /\ mine1.saved = SavedOf(listeners) /\ mine1.scan = scan
  BY DEF NoSearch
<1> HIDE DEF mine1
<1>10. SearchType(mine1)
  BY <1>3, <1>4, <1>8, <1>9 DEF SearchType
<1>11. ASSUME NEW q \in SearchId PROVE Same(other(q), search[q]) /\ SearchType(other(q))
  <2>1. SearchType(search[q])
    BY <1>1 DEF TypeOK
  <2>2. /\ DOMAIN other(q) = DOMAIN search[q]
        /\ other(q).phase = search[q].phase /\ other(q).status = search[q].status
        /\ other(q).tuner = search[q].tuner /\ other(q).saved = search[q].saved
        /\ other(q).scan = search[q].scan
    BY <2>1, SearchFields
  <2> HIDE DEF other
  <2> QED BY <2>1, <2>2 DEF Same, SearchType
<1> HIDE DEF other
<1>12. /\ ScannedTune(t, r, scan.f, taken) \in TuneState
       /\ ScannedTune(t, r, scan.f, taken).references = 1
  BY <1>4, <1>5, ScannedTuneType
<1>13. /\ tune' \in [Tuner -> TuneState] /\ tune'[t].references = 1
       /\ \A u \in Tuner \ {t} : tune'[u] = tune[u]
  BY <1>1, <1>3, <1>6, <1>12
<1>14. /\ DOMAIN search' = SearchId /\ search'[s] = mine1
       /\ \A q \in SearchId \ {s} : search'[q] = other(q)
  BY <1>7
<1>15. \A q \in SearchId \ {s} : Unchanged(q)
  BY <1>11, <1>14 DEF Unchanged
<1> QED BY <1>3, <1>9, <1>10, <1>13, <1>14, <1>15 DEF TakesTuner

(* The three listeners of a search.                                        *)
LEMMA OwnListenersOf ==
  ASSUME listener_cnt \in Nat, NEW s \in SearchId
  PROVE  /\ OwnListeners(s) \in Seq(Listener)
         /\ Owners(OwnListeners(s)) = {s}
         /\ OnlyClientsKept(OwnListeners(s))
<1> DEFINE a == [id |-> listener_cnt,     kind |-> "tuner",   owner |-> s]
           b == [id |-> listener_cnt + 1, kind |-> "ready",   owner |-> s]
           c == [id |-> listener_cnt + 2, kind |-> "timeout", owner |-> s]
<1>1. /\ a \in Listener /\ b \in Listener /\ c \in Listener
      /\ a.owner = s /\ b.owner = s /\ c.owner = s
      /\ a.kind = "tuner" /\ b.kind = "ready" /\ c.kind = "timeout"
  BY DEF Listener, Kind
<1>2. OwnListeners(s) = <<a, b, c>>
  BY DEF OwnListeners
<1> HIDE DEF a, b, c
<1>3. /\ <<a, b, c>> \in Seq(Listener) /\ DOMAIN <<a, b, c>> = 1..3
      /\ <<a, b, c>>[1] = a /\ <<a, b, c>>[2] = b /\ <<a, b, c>>[3] = c
  BY <1>1
<1>4. s # User
  BY SearchAssumption DEF SearchId, User
<1>5. Owners(<<a, b, c>>) = {s}
  BY <1>1, <1>3, <1>4 DEF Owners
<1>6. OnlyClientsKept(<<a, b, c>>)
  BY <1>1, <1>3 DEF OnlyClientsKept, KeptKinds
<1> QED BY <1>2, <1>3, <1>5, <1>6

LEMMA TunerSearchInv ==
  ASSUME SearchInv, NEW s \in SearchId, NEW type, TunerSearch(s, type)
  PROVE  SearchInv'
<1>1. PICK t \in Tuner : TakesTuner(s, t)
  BY TunerSearchEffect
<1>2. TypeOK /\ listeners \in Seq(Listener) /\ listener_cnt \in Nat /\ OnlyClientsKept(listeners)
  BY DEF SearchInv, TypeOK, ListenersInv
<1>3. /\ listeners' = Kept(listeners) \o OwnListeners(s)
      /\ listener_cnt' = listener_cnt + 3 /\ event_propagation' = TRUE /\ ClientTurn
      /\ UNCHANGED <<events, tables, mine, crashed>>
  BY DEF TunerSearch
<1>4. s \notin Active /\ s \notin Searching /\ s \notin Reporting
  BY <1>1 DEF TakesTuner, Started, Active, Searching, Reporting
<1>5. /\ Searching' = Searching \cup {s} /\ Active' = Active \cup {s}
      /\ Reporting' = Reporting
      /\ \A q \in SearchId \ {s} : Same(search'[q], search[q]) /\ SearchType(search'[q])
  BY <1>1, <1>4 DEF TakesTuner, Unchanged, Same, Searching, Active, Reporting
<1>6. /\ listeners' \in Seq(Listener) /\ Owners(listeners') = {s} /\ OnlyClientsKept(listeners')
  <2>1. /\ Kept(listeners) \in Seq(Listener) /\ Owners(Kept(listeners)) = {}
        /\ OnlyClientsKept(Kept(listeners))
    BY <1>2, KeptListeners
  <2>2. /\ OwnListeners(s) \in Seq(Listener) /\ Owners(OwnListeners(s)) = {s}
        /\ OnlyClientsKept(OwnListeners(s))
    BY <1>2, OwnListenersOf
  <2>3. /\ Kept(listeners) \o OwnListeners(s) \in Seq(Listener)
        /\ Owners(Kept(listeners) \o OwnListeners(s))
             = Owners(Kept(listeners)) \cup Owners(OwnListeners(s))
        /\ OnlyClientsKept(Kept(listeners) \o OwnListeners(s))
    BY <2>1, <2>2, OwnersOfConcat, Zenon
  <2> QED BY <1>3, <2>1, <2>2, <2>3
<1>7. /\ Owners(SavedOf(listeners)) \subseteq Searching
      /\ OnlyClientsKept(SavedOf(listeners))
      /\ Owners(SavedOf(listeners)) \subseteq Owners(listeners)
  BY <1>2, SavedListeners DEF SearchInv, ListenersInv
<1>8. TypeOK'
  <2>1. \A q \in SearchId : SearchType(search'[q])
    BY <1>1, <1>5 DEF TakesTuner
  <2> QED BY <1>1, <1>2, <1>3, <1>6, <2>1 DEF TypeOK, TakesTuner
<1>9. /\ Owners(listeners)' = {s} /\ OnlyClientsKept(listeners)'
  BY <1>6 DEF Owners, OnlyClientsKept
<1>10. ListenersInv'
  <2>1. /\ Owners(search[s].saved)' = Owners(SavedOf(listeners))
        /\ OnlyClientsKept(search[s].saved)'
    BY <1>1, <1>7 DEF TakesTuner, Owners, OnlyClientsKept
  <2>2. \A q \in Searching : /\ Owners(search[q].saved)' = Owners(search[q].saved)
                             /\ OnlyClientsKept(search[q].saved)' = OnlyClientsKept(search[q].saved)
    BY <1>4, <1>5 DEF Owners, OnlyClientsKept, Searching, Same
  <2>3. \A q \in Searching : /\ Owners(search[q].saved) \subseteq Searching
                             /\ Owners(search[q].saved) \cap Owners(listeners) = {}
                             /\ OnlyClientsKept(search[q].saved)
    BY DEF SearchInv, ListenersInv
  <2>4. \A p, q \in Searching : p # q => Owners(search[p].saved) \cap Owners(search[q].saved) = {}
    BY DEF SearchInv, ListenersInv
  <2>5. \A q \in Searching' : /\ Owners(search[q].saved)' \subseteq Searching'
                              /\ Owners(search[q].saved)' \cap Owners(listeners)' = {}
                              /\ OnlyClientsKept(search[q].saved)'
    BY <1>4, <1>5, <1>7, <1>9, <2>1, <2>2, <2>3
  <2>6. \A p, q \in Searching' :
          p # q => Owners(search[p].saved)' \cap Owners(search[q].saved)' = {}
    BY <1>5, <1>7, <2>1, <2>2, <2>3, <2>4
  <2>7. Owners(listeners)' \subseteq Searching'
    BY <1>5, <1>9
  <2> HIDE DEF ListenersInv
  <2> QED BY <1>9, <2>5, <2>6, <2>7 DEF ListenersInv
<1>11. EventsInv'
  BY <1>3, <1>5, NoCallback DEF EventsInv, StackInv
<1>12. TunersInv'
  <2>1. /\ \A q \in Active : q # s /\ q \in SearchId /\ search'[q].tuner = search[q].tuner
        /\ search'[s].tuner = t
    BY <1>1, <1>4, <1>5 DEF Active, Same, TakesTuner
  <2>2. \A q \in Active : search[q].tuner \in Tuner /\ search[q].tuner # t
    BY <1>1 DEF SearchInv, TunersInv, Held, TakesTuner
  <2>3. \A u \in Tuner : Held(u)' <=> Held(u) \/ u = t
    BY <1>5, <2>1 DEF Held
  <2>4. /\ tune'[t].references = 1
        /\ \A u \in Tuner \ {t} : tune'[u] = tune[u]
    BY <1>1 DEF TakesTuner
  <2>5. \A q \in Active' : search'[q].tuner \in Tuner
    BY <1>5, <2>1, <2>2
  <2>6. \A p, q \in Active' : search'[p].tuner = search'[q].tuner => p = q
    BY <1>5, <2>1, <2>2 DEF SearchInv, TunersInv
  <2> QED BY <2>3, <2>4, <2>5, <2>6 DEF SearchInv, TunersInv
<1>13. StatusInv'
  BY <1>1, <1>4, <1>5 DEF SearchInv, StatusInv, TakesTuner, Same, Searching
<1> QED BY <1>8, <1>10, <1>11, <1>12, <1>13 DEF SearchInv

(* The invariant holds at first and is kept by every step.                 *)
LEMMA InitInv == Init => SearchInv
<1> SUFFICES ASSUME Init PROVE SearchInv
  OBVIOUS
<1>1. TypeOK
  <2>1. SearchType(NoSearch)
    BY DEF SearchType, NoSearch, NoTuner
  <2>2. FreshTune \in TuneState
    BY DEF FreshTune, TuneState, NoDecoder
  <2>3. /\ listeners \in Seq(Listener) /\ listener_cnt \in Nat /\ mine \in Seq(Listener)
        /\ events \in Seq(Frame)
    BY DEF Init
  <2>6. event_propagation \in BOOLEAN /\ crashed \in BOOLEAN
    BY Zenon DEF Init
  <2>4. tune \in [Tuner -> TuneState] /\ tables \in [Decoder -> Nat]
    BY <2>2 DEF Init, Unread
  <2>5. DOMAIN search = SearchId /\ \A s \in SearchId : SearchType(search[s])
    BY <2>1 DEF Init
  <2> QED BY <2>3, <2>4, <2>5, <2>6 DEF TypeOK
<1>2. Active = {} /\ Searching = {} /\ Reporting = {}
  BY DEF Init, Active, Searching, Reporting, NoSearch
<1>3. ListenersInv /\ StatusInv /\ EventsInv
  BY <1>2 DEF Init, ListenersInv, StatusInv, EventsInv, StackInv, Owners, OnlyClientsKept
<1>4. TunersInv
  BY <1>2 DEF Init, TunersInv, Held, FreshTune
<1> QED BY <1>1, <1>3, <1>4 DEF SearchInv

LEMMA NextInv == SearchInv /\ [Next]_vars => SearchInv'
<1> SUFFICES ASSUME SearchInv, [Next]_vars PROVE SearchInv'
  OBVIOUS
<1>1. CASE UNCHANGED vars
  <2>1. SearchesSame
    BY <1>1, WithLockedLeaves DEF vars, SearchInv, SearchesLeft
  <2> QED BY <1>1, <2>1, EventStep DEF vars, SearchInv, TypeOK, EventsInv
<1>2. CASE Client
  BY <1>2, TunerSearchInv, AskEndInv, RegisterInv, RemoveListenerInv DEF Client
<1>3. CASE Library
  BY <1>3, TuneCallbackInv, ReadyCallbackInv, TimeoutCallbackInv, FinishSearchInv DEF Library
<1> QED BY <1>1, <1>2, <1>3, NextListenerInv, MainLoopInv DEF Next

-----------------------------------------------------------------------------
(* The types of the listeners, the stack of events, the tuners and the     *)
(* searches of src/mydvb_search.c hold, for any number of tuners and       *)
(* searches and any capabilities.                                          *)
THEOREM TypeCorrect == Spec => []TypeOK
<1>1. SearchInv => TypeOK
  BY DEF SearchInv
<1> QED BY <1>1, InitInv, NextInv, PTL DEF Spec

(* However many searches are started and ended inside one another, no      *)
(* listener of one that has ended, whose TUNER_SCAN_INFO is free, is in    *)
(* the engine, saved by another search or about to be called.              *)
THEOREM NoStaleListenerCorrect == Spec => []NoStaleListener
<1>1. SearchInv => NoStaleListener
  <2> SUFFICES ASSUME SearchInv PROVE NoStaleListener
    OBVIOUS
  <2>1. ASSUME NEW ls, Owners(ls) \subseteq Searching, NEW k \in DOMAIN ls
        PROVE  ls[k].owner \in Searching \cup {User}
    BY <2>1 DEF Owners
  <2>2. /\ Owners(listeners) \subseteq Searching
        /\ \A s \in Searching : Owners(search[s].saved) \subseteq Searching
        /\ \A n \in DOMAIN events :
             events[n].at = "callback" => events[n].search \in Owners(listeners)
    BY DEF SearchInv, ListenersInv, EventsInv, StackInv
  <2> QED BY <2>1, <2>2 DEF NoStaleListener
<1> QED BY <1>1, InitInv, NextInv, PTL DEF Spec

(* The tuners of searches are counted right and given back: one reference  *)
(* for the search that has a tuner, none and a closed device without one.  *)
THEOREM TunersGivenBackCorrect == Spec => []TunersGivenBack
<1>1. SearchInv => TunersGivenBack
  <2> SUFFICES ASSUME SearchInv, NEW t \in Tuner
               PROVE  LET users == {s \in SearchId :
                            /\ search[s].phase \in {"searching", "reporting"}
                            /\ search[s].tuner = t}
                      IN  /\ tune[t].references = Cardinality(users)
                          /\ Cardinality(users) <= 1
                          /\ users = {} => tune[t].status = "NOOP" /\ tune[t].mydvb = NoDecoder
    BY DEF TunersGivenBack
  <2> DEFINE users == {s \in SearchId : /\ search[s].phase \in {"searching", "reporting"}
                                        /\ search[s].tuner = t}
  <2>1. CASE Held(t)
    <3>1. PICK s \in Active : search[s].tuner = t
      BY <2>1 DEF Held
    <3>2. users = {s}
      BY <3>1 DEF Active, SearchInv, TunersInv
    <3>3. Cardinality({s}) = 1
      BY FS_Singleton
    <3>4. tune[t].references = 1
      BY <2>1 DEF SearchInv, TunersInv
    <3> HIDE DEF users
    <3>5. Cardinality(users) = 1 /\ users # {}
      BY <3>2, <3>3
    <3> QED BY <3>4, <3>5 DEF users
  <2>2. CASE ~Held(t)
    <3>1. users = {}
      BY <2>2 DEF Active, Held
    <3>2. Cardinality({}) = 0
      BY FS_EmptySet
    <3>3. tune[t].references = 0 /\ tune[t].status = "NOOP" /\ tune[t].mydvb = NoDecoder
      BY <2>2 DEF SearchInv, TunersInv
    <3> HIDE DEF users
    <3>4. Cardinality(users) = 0
      BY <3>1, <3>2
    <3> QED BY <3>3, <3>4 DEF users
  <2> QED BY <2>1, <2>2
<1> QED BY <1>1, InitInv, NextInv, PTL DEF Spec

-----------------------------------------------------------------------------
(* The service of module SearchService.                                    *)

Phases   == [s \in SearchId |-> search[s].phase]
Statuses == [s \in SearchId |-> search[s].status]
Holds    == [s \in SearchId |->
               {t \in Tuner : /\ search[s].phase \in {"searching", "reporting"}
                              /\ search[s].tuner = t}]

(* Searches that stay as they are stutter.                                 *)
LEMMA SameService ==
  ASSUME TypeOK, SearchesSame
  PROVE  UNCHANGED <<Phases, Statuses, Holds>>
BY DEF SearchesSame, Unchanged, Same, Phases, Statuses, Holds

(* What a callback does to the searches.                                   *)
LEMMA CallbackEffect ==
  ASSUME SearchInv, TuneCallback \/ ReadyCallback \/ TimeoutCallback
  PROVE  SearchesSame \/ \E s \in Searching : Finished(s)
<1>0. PICK s : s = Top.search
  OBVIOUS
<1>1. PICK t : t = search[s].tuner
  OBVIOUS
<1>2. /\ TypeOK /\ s \in SearchId /\ s \in Searching /\ t \in Tuner
      /\ tune[t] \in TuneState
  BY <1>0, <1>1, CallingSearch
     DEF TuneCallback, ReadyCallback, TimeoutCallback, SearchInv, TypeOK
<1>3. Same(Reached(s), search[s]) /\ SearchType(Reached(s))
  BY <1>2, ReachedSame
<1>4. CASE search' = [search EXCEPT ![s] = Reached(s)] \/ search' = search
  BY <1>2, <1>3, <1>4 DEF SearchesSame, Unchanged, Same, TypeOK
<1>5. CASE ScanOn(s, tune[t], Reached(s))
  BY <1>1, <1>2, <1>3, <1>5, ScanOnEffect DEF GoesOn
<1>6. CASE ScanOn(s, StoppedDecoder(tune[t]), search[s])
  <2>1. SearchType(search[s]) /\ Same(search[s], search[s])
    BY <1>2 DEF TypeOK, Same
  <2> QED BY <1>1, <1>2, <1>6, <2>1, StoppedDecoderType, ScanOnEffect DEF GoesOn
<1>7. ASSUME NEW sr, sr = Recorded(t, Reached(s)), ScanOn(s, StoppedDecoder(tune[t]), sr)
      PROVE  GoesOn(s) \/ Finished(s)
  <2>1. SearchType(sr) /\ Same(sr, search[s])
    BY <1>3, <1>7, RecordedSame DEF Same
  <2> QED BY <1>1, <1>2, <1>7, <2>1, StoppedDecoderType, ScanOnEffect
<1>8. CASE TuneCallback
  BY <1>0, <1>1, <1>4, <1>5, <1>8 DEF TuneCallback
<1>9. CASE ReadyCallback
  BY <1>0, <1>1, <1>2, <1>4, <1>7, <1>9 DEF ReadyCallback, GoesOn
<1>10. CASE TimeoutCallback
  BY <1>0, <1>1, <1>4, <1>6, <1>10 DEF TimeoutCallback
<1> QED BY <1>8, <1>9, <1>10

(* The end of a search is its report ...                                   *)
LEMMA FinishedReports ==
  ASSUME SearchInv, NEW s \in Searching, Finished(s)
  PROVE  Service!Report(s)
<1>1. TypeOK /\ s \in SearchId /\ search[s].phase = "searching"
  BY DEF SearchInv, Searching
<1>2. search[s].status \in {"SEARCHING"} \cup Wish
  BY DEF SearchInv, StatusInv
<1>3. /\ \A q \in SearchId \ {s} : Same(search'[q], search[q])
      /\ search'[s].phase = "reporting" /\ search'[s].tuner = search[s].tuner
      /\ search'[s].status = IF search[s].status \in Wish THEN search[s].status
                             ELSE "COMPLETED"
  BY DEF Finished, Reported, Unchanged
<1>4. search'[s].status = IF search[s].status \in Service!Asked THEN search[s].status
                          ELSE "COMPLETED"
  BY <1>2, <1>3, SearchAssumption DEF Service!Asked
<1>5. Phases[s] = "searching" /\ Phases' = [Phases EXCEPT ![s] = "reporting"]
  BY <1>1, <1>3 DEF Phases, Same
<1>6. Statuses' = [Statuses EXCEPT ![s] = IF Statuses[s] \in Service!Asked THEN Statuses[s]
                                          ELSE "COMPLETED"]
  BY <1>1, <1>3, <1>4 DEF Statuses, Same
<1>7. UNCHANGED Holds
  BY <1>1, <1>3 DEF Holds, Same
<1> QED BY <1>5, <1>6, <1>7 DEF Service!Report, Phases, Statuses, Holds

(* ... giving its tuner back closes it ...                                 *)
LEMMA FinishSearchCloses ==
  ASSUME SearchInv, FinishSearch
  PROVE  \E s \in SearchId : Service!Close(s)
<1>0. PICK s : s = Top.search
  OBVIOUS
<1>1. events # <<>> /\ Top.at = "finishing" /\ Len(events) \in DOMAIN events /\ TypeOK
  BY DEF SearchInv, FinishSearch, TypeOK
<1>2. s \in SearchId /\ search[s].phase = "reporting"
  BY <1>0, <1>1 DEF SearchInv, EventsInv, StackInv, Top, Reporting
<1>3. search' = [search EXCEPT ![s].phase = "closed"]
  BY <1>0 DEF FinishSearch
<1>4. SearchType(search[s]) /\ DOMAIN search = SearchId
  BY <1>1, <1>2 DEF TypeOK
<1>5. /\ \A q \in SearchId \ {s} : search'[q] = search[q]
      /\ search'[s].phase = "closed" /\ search'[s].status = search[s].status
  BY <1>2, <1>3, <1>4, SearchFields
<1>6. Phases[s] = "reporting" /\ Phases' = [Phases EXCEPT ![s] = "closed"]
  BY <1>2, <1>5 DEF Phases
<1>7. UNCHANGED Statuses
  BY <1>2, <1>5 DEF Statuses
<1>8. Holds' = [Holds EXCEPT ![s] = {}]
  BY <1>2, <1>5 DEF Holds
<1>9. Service!Close(s)
  BY <1>6, <1>7, <1>8 DEF Service!Close, Phases, Statuses, Holds
<1> QED BY <1>2, <1>9

(* ... and mydvb_tuner_search starts it.                                   *)
LEMMA TunerSearchStarts ==
  ASSUME SearchInv, NEW s \in SearchId, NEW type, TunerSearch(s, type)
  PROVE  \E t \in Tuner : Service!Start(s, t)
<1>1. PICK t \in Tuner : TakesTuner(s, t)
  BY TunerSearchEffect
<1>2. /\ search[s].phase = "none" /\ ~Held(t)
      /\ \A q \in SearchId \ {s} : Same(search'[q], search[q])
      /\ search'[s].phase = "searching" /\ search'[s].status = "SEARCHING"
      /\ search'[s].tuner = t
  BY <1>1 DEF TakesTuner, Started, Unchanged, SearchInv, TunersInv
<1>3. Phases[s] = "none" /\ Phases' = [Phases EXCEPT ![s] = "searching"]
  BY <1>2 DEF Phases, Same
<1>4. Statuses' = [Statuses EXCEPT ![s] = "SEARCHING"]
  BY <1>2 DEF Statuses, Same
<1>5. Holds' = [Holds EXCEPT ![s] = {t}]
  <2>1. {u \in Tuner : search'[s].phase \in {"searching", "reporting"} /\ search'[s].tuner = u}
          = {t}
    BY <1>2
  <2> QED BY <1>2, <2>1 DEF Holds, Same
<1>6. \A q \in SearchId : t \notin Holds[q]
  BY <1>2 DEF Holds, Held, Active
<1>7. Service!Start(s, t)
  BY <1>3, <1>4, <1>5, <1>6 DEF Service!Start, Service!Free, Phases, Statuses, Holds
<1> QED BY <1>7

LEMMA AskEndAsks ==
  ASSUME SearchInv, NEW s \in SearchId, NEW wish \in Wish, AskEnd(s, wish)
  PROVE  Service!Ask(s, wish)
<1>1. SearchType(search[s]) /\ DOMAIN search = SearchId
  BY DEF SearchInv, TypeOK
<1>2. search[s].phase = "searching" /\ search' = [search EXCEPT ![s].status = wish]
  BY DEF AskEnd
<1>3. /\ \A q \in SearchId \ {s} : search'[q] = search[q]
      /\ search'[s].phase = search[s].phase /\ search'[s].status = wish
      /\ search'[s].tuner = search[s].tuner
  BY <1>1, <1>2, SearchFields
<1>4. Phases[s] = "searching" /\ UNCHANGED <<Phases, Holds>>
  BY <1>2, <1>3 DEF Phases, Holds
<1>5. Statuses' = [Statuses EXCEPT ![s] = wish]
  BY <1>3 DEF Statuses
<1> QED BY <1>4, <1>5 DEF Service!Ask, Phases, Statuses, Holds

LEMMA NextIsService ==
  ASSUME SearchInv, [Next]_vars
  PROVE  Service!Next \/ UNCHANGED <<Phases, Statuses, Holds>>
<1>1. CASE UNCHANGED search
  BY <1>1 DEF Phases, Statuses, Holds
<1>2. CASE \E s \in SearchId, type \in {"dvbs", "dvbt", "dvbc"} : TunerSearch(s, type)
  BY <1>2, TunerSearchStarts DEF Service!Next
<1>3. CASE \E s \in SearchId, wish \in Wish : AskEnd(s, wish)
  <2>1. Wish \subseteq Service!Asked
    BY SearchAssumption DEF Service!Asked
  <2> QED BY <1>3, <2>1, AskEndAsks DEF Service!Next
<1>4. CASE TuneCallback \/ ReadyCallback \/ TimeoutCallback
  <2>1. CASE SearchesSame
    BY <2>1, SameService DEF SearchInv
  <2>2. CASE \E s \in Searching : Finished(s)
    BY <2>2, FinishedReports DEF Service!Next, Searching
  <2> QED BY <1>4, <2>1, <2>2, CallbackEffect
<1>5. CASE FinishSearch
  BY <1>5, FinishSearchCloses DEF Service!Next
<1>6. CASE MainLoop
  BY <1>6, MainLoopLeaves, SameService DEF SearchInv, SearchesLeft
<1> QED
  BY <1>1, <1>2, <1>3, <1>4, <1>5, <1>6
     DEF Next, Client, Library, NextListener, Register, RemoveListener, vars

(* A search, with everything clients, devices and other searches do        *)
(* meanwhile, is the service of module SearchService: a tuner of its own,  *)
(* one report with the status asked for, the tuner back after it.          *)
THEOREM ImplementsServiceCorrect == Spec => ImplementsService
<1>1. Init => Service!Init
  BY DEF Init, NoSearch, Service!Init
<1>2. SearchInv /\ [Next]_vars => [Service!Next]_(Service!vars)
  BY NextIsService DEF Service!vars, Phases, Statuses, Holds
<1> QED BY <1>1, <1>2, InitInv, NextInv, PTL DEF Spec, ImplementsService, Service!Spec

-----------------------------------------------------------------------------
(***************************************************************************)
(* Further on: proofs that after any number of searches, started and ended *)
(* inside one another, the listeners of clients are where a client may     *)
(* count on them, and that a search that is told READY has the tables it   *)
(* then reads.                                                             *)
(*                                                                         *)
(* The listeners a search takes away are in its saved list, among them     *)
(* those of a search that began before it; so the invariant RestoreInv     *)
(* says where the listeners of clients are: the searches that go on form a *)
(* chain, from the one whose listeners are in the engine to the first one, *)
(* whose saved list has those of the clients.  What the order of a list    *)
(* becomes when elements are taken from it, and put behind others, are     *)
(* lemmas about the operator Only.                                         *)
(*                                                                         *)
(* An event is told to listeners one after the other, and a callback ahead *)
(* may end the search, start another one, or release the tuner.  So the    *)
(* invariant TablesInv says of a READY event that it is of a tuner a       *)
(* search has, and that the tables of its decoder are there until the      *)
(* search has been told (ReadyInv); which events can be inside which       *)
(* (ShapeInv), so that nothing above a READY event takes the tables away;  *)
(* that a search has one listener of each kind (OnceInv), so that it is    *)
(* told once; that a search nobody has disturbed is the one that has its   *)
(* listeners in the engine (DisturbedInv); and that decoders and tables    *)
(* are never those of no channel (ParametersInv).                          *)
(***************************************************************************)

(* Taking elements of lists, further: what Only does to a list that grows, *)
(* to two lists in a row, and after itself.                                *)

(* Induction over lists: of a set of lists, one is shortest.               *)
LEMMA ShortestIn ==
  ASSUME NEW L, NEW B, B \subseteq Seq(L), B # {}, <<>> \notin B
  PROVE  \E ls \in Seq(L) : \E x \in L : ls \notin B /\ Append(ls, x) \in B
<1> DEFINE Lengths == {n \in Nat : \E b \in B : Len(b) = n}
<1>1. Lengths \subseteq Nat /\ Lengths # {}
  OBVIOUS
<1>2. PICK m \in Lengths : \A k \in Lengths : m <= k
  BY <1>1, SmallestIn, Zenon
<1>3. PICK b \in B : Len(b) = m
  BY <1>2
<1>4. b \in Seq(L) /\ b # <<>> /\ Len(b) \in Nat
  BY <1>3
<1>5. Len(b) > 0
  BY <1>4
<1> DEFINE f == [n \in 1..Len(b) - 1 |-> b[n]]
           x == b[Len(b)]
<1>6. f \in Seq(L) /\ Len(f) = Len(b) - 1 /\ x \in L
  BY <1>4, <1>5
<1>7. Append(f, x) = b
  <2> HIDE DEF f, x
  <2>1. Append(f, x) \in Seq(L) /\ Len(Append(f, x)) = Len(b)
    BY <1>6, <1>4
  <2>2. ASSUME NEW i \in 1..Len(b) PROVE Append(f, x)[i] = b[i]
    <3>1. CASE i = Len(b)
      BY <3>1, <1>6, <1>4 DEF x
    <3>2. CASE i # Len(b)
      <4>1. i \in 1..Len(f)
        BY <3>2, <1>6, <1>4
      <4>2. Append(f, x)[i] = f[i]
        BY <4>1, <1>6
      <4> QED BY <4>1, <4>2, <1>6 DEF f
    <3> QED BY <3>1, <3>2
  <2> QED BY <2>1, <2>2, <1>4, SeqEqual
<1>8. f \notin B
  BY <1>2, <1>3, <1>4, <1>6
<1> QED BY <1>3, <1>6, <1>7, <1>8

LEMMA OnlyOfEmpty ==
  ASSUME NEW S
  PROVE  Only(<<>>, S) = <<>>
<1>1. Len(<<>>) = 0
  OBVIOUS
<1>2. PICK g : IsOnlyUpTo(<<>>, S, g, Len(<<>>)) /\ Only(<<>>, S) = g[Len(<<>>)]
  BY <1>1, OnlyUpTo
<1> QED BY <1>1, <1>2 DEF IsOnlyUpTo, OnlyStep

(* An element more is one more, if it is in the set.                       *)
LEMMA OnlyOfAppend ==
  ASSUME NEW L, NEW ls \in Seq(L), NEW x \in L, NEW S
  PROVE  Only(Append(ls, x), S) = IF x \in S THEN Append(Only(ls, S), x) ELSE Only(ls, S)
<1> DEFINE n == Len(ls)
           longer == Append(ls, x)
<1>1. /\ n \in Nat /\ Len(longer) = n + 1 /\ longer[n + 1] = x
      /\ \A m \in 1..n : longer[m] = ls[m]
  OBVIOUS
<1> HIDE DEF longer, n
<1>2. PICK g : IsOnlyUpTo(ls, S, g, n) /\ Only(ls, S) = g[n]
  BY <1>1, OnlyUpTo DEF n
<1>3. PICK h : IsOnlyUpTo(longer, S, h, n + 1) /\ Only(longer, S) = h[n + 1]
  <2>1. \E f : IsOnlyUpTo(longer, S, f, Len(longer)) /\ Only(longer, S) = f[Len(longer)]
    BY <1>1, OnlyUpTo
  <2> QED BY <1>1, <2>1
<1> DEFINE Bad == {m \in Nat : m <= n /\ h[m] # g[m]}
<1>4. Bad = {}
  <2> SUFFICES ASSUME Bad # {} PROVE FALSE
    OBVIOUS
  <2>1. PICK m \in Bad : \A k \in Bad : m <= k
    BY SmallestIn, Bad \subseteq Nat, Zenon
  <2>2. m \in Nat /\ m <= n /\ h[m] # g[m]
    BY <2>1
  <2>3. h[m] = OnlyStep(longer, S, h, m) /\ g[m] = OnlyStep(ls, S, g, m)
    <3>1. m \in 0..n /\ m \in 0..n + 1
      BY <1>1, <2>2
    <3> QED BY <1>2, <1>3, <3>1 DEF IsOnlyUpTo
  <2>4. m # 0
    BY <2>2, <2>3 DEF OnlyStep
  <2>5. m - 1 \in Nat /\ m - 1 \notin Bad /\ m - 1 <= n
    BY <1>1, <2>1, <2>2, <2>4
  <2>6. h[m - 1] = g[m - 1] /\ longer[m] = ls[m]
    BY <1>1, <2>2, <2>4, <2>5
  <2> QED BY <2>2, <2>3, <2>4, <2>6 DEF OnlyStep
<1>5. h[n] = g[n]
  BY <1>1, <1>4
<1>6. h[n + 1] = IF x \in S THEN Append(h[n], x) ELSE h[n]
  <2>1. h[n + 1] = OnlyStep(longer, S, h, n + 1)
    BY <1>1, <1>3 DEF IsOnlyUpTo
  <2>2. n + 1 # 0 /\ n + 1 - 1 = n
    BY <1>1
  <2> QED BY <1>1, <2>1, <2>2 DEF OnlyStep
<1> QED BY <1>2, <1>3, <1>5, <1>6 DEF longer

(* Every element that is in the set is kept.                               *)
LEMMA OnlyKeeps ==
  ASSUME NEW L, NEW S, NEW ls \in Seq(L), NEW i \in DOMAIN ls, ls[i] \in S
  PROVE  \E k \in DOMAIN Only(ls, S) : Only(ls, S)[k] = ls[i]
<1> DEFINE Has(l, x) == \E k \in DOMAIN Only(l, S) : Only(l, S)[k] = x
           B == {l \in Seq(L) : \E j \in DOMAIN l : l[j] \in S /\ ~Has(l, l[j])}
<1>1. B = {}
  <2> SUFFICES ASSUME B # {} PROVE FALSE
    OBVIOUS
  <2>1. <<>> \notin B
    OBVIOUS
  <2> HIDE DEF Has
  <2>2. PICK l \in Seq(L), x \in L : l \notin B /\ Append(l, x) \in B
    BY <2>1, ShortestIn, B \subseteq Seq(L), Zenon
  <2>3. PICK j \in DOMAIN Append(l, x) : Append(l, x)[j] \in S /\ ~Has(Append(l, x), Append(l, x)[j])
    BY <2>2
  <2>4. Only(Append(l, x), S) = IF x \in S THEN Append(Only(l, S), x) ELSE Only(l, S)
    BY <2>2, OnlyOfAppend, Zenon
  <2>5. Only(l, S) \in Seq(L)
    BY <2>2, OnlyElements
  <2>6. x \in S => Has(Append(l, x), x)
    <3> DEFINE o == Only(l, S)
    <3> SUFFICES ASSUME x \in S PROVE Has(Append(l, x), x)
      OBVIOUS
    <3> HIDE DEF o
    <3>1. Len(o) + 1 \in DOMAIN Append(o, x) /\ Append(o, x)[Len(o) + 1] = x
      BY <2>5 DEF o
    <3> QED BY <2>4, <3>1 DEF Has, o
  <2>7. \A y : Has(l, y) => Has(Append(l, x), y)
    <3> DEFINE o == Only(l, S)
    <3> SUFFICES ASSUME NEW y, Has(l, y) PROVE Has(Append(l, x), y)
      OBVIOUS
    <3>1. PICK k \in DOMAIN o : o[k] = y
      BY DEF Has
    <3> HIDE DEF o
    <3>2. k \in DOMAIN Append(o, x) /\ Append(o, x)[k] = y
      BY <2>5, <3>1 DEF o
    <3> QED BY <2>4, <3>1, <3>2 DEF Has, o
  <2>8. (j \in DOMAIN l /\ Append(l, x)[j] = l[j]) \/ Append(l, x)[j] = x
    BY <2>2
  <2>9. \A a \in DOMAIN l : l[a] \in S => Has(l, l[a])
    BY <2>2
  <2> QED BY <2>3, <2>6, <2>7, <2>8, <2>9
<1> QED BY <1>1

(* Only the elements of the list matter in a set.                          *)
LEMMA OnlyAgrees ==
  ASSUME NEW L, NEW S, NEW T, NEW ls \in Seq(L),
         \A i \in DOMAIN ls : ls[i] \in S <=> ls[i] \in T
  PROVE  Only(ls, S) = Only(ls, T)
<1> DEFINE Agree(l) == \A i \in DOMAIN l : l[i] \in S <=> l[i] \in T
           B == {l \in Seq(L) : Agree(l) /\ Only(l, S) # Only(l, T)}
<1>1. B = {}
  <2> SUFFICES ASSUME B # {} PROVE FALSE
    OBVIOUS
  <2>1. <<>> \notin B
    BY OnlyOfEmpty
  <2>2. PICK l \in Seq(L), x \in L : l \notin B /\ Append(l, x) \in B
    BY <2>1, ShortestIn, B \subseteq Seq(L), Zenon
  <2>3. \A i \in DOMAIN l : i \in DOMAIN Append(l, x) /\ Append(l, x)[i] = l[i]
    BY <2>2
  <2>4. /\ Only(Append(l, x), S) = IF x \in S THEN Append(Only(l, S), x) ELSE Only(l, S)
        /\ Only(Append(l, x), T) = IF x \in T THEN Append(Only(l, T), x) ELSE Only(l, T)
    BY <2>2, OnlyOfAppend, Zenon
  <2>5. Len(l) + 1 \in DOMAIN Append(l, x) /\ Append(l, x)[Len(l) + 1] = x
    BY <2>2
  <2>6. Agree(Append(l, x)) /\ Only(Append(l, x), S) # Only(Append(l, x), T)
    BY <2>2, Zenon
  <2>7. Agree(l) /\ (x \in S <=> x \in T)
    BY <2>3, <2>5, <2>6
  <2>8. Only(l, S) = Only(l, T)
    BY <2>2, <2>7
  <2> QED BY <2>4, <2>6, <2>7, <2>8
<1>2. Agree(ls)
  OBVIOUS
<1> QED BY <1>1, <1>2

(* One after the other is both at once.                                    *)
LEMMA OnlyTwice ==
  ASSUME NEW L, NEW S, NEW T, NEW ls \in Seq(L)
  PROVE  Only(Only(ls, S), T) = Only(ls, S \cap T)
<1> DEFINE B == {l \in Seq(L) : Only(Only(l, S), T) # Only(l, S \cap T)}
<1>1. B = {}
  <2> SUFFICES ASSUME B # {} PROVE FALSE
    OBVIOUS
  <2>1. <<>> \notin B
    BY OnlyOfEmpty
  <2>2. PICK l \in Seq(L), x \in L : l \notin B /\ Append(l, x) \in B
    BY <2>1, ShortestIn, B \subseteq Seq(L), Zenon
  <2>3. Only(l, S) \in Seq(L)
    BY <2>2, OnlyElements
  <2>4. Only(Append(l, x), S) = IF x \in S THEN Append(Only(l, S), x) ELSE Only(l, S)
    <3>1. l \in Seq(L) /\ x \in L
      BY <2>2
    <3> HIDE DEF B
    <3> QED BY <3>1, OnlyOfAppend, ZenonT(60)
  <2>8. Only(Append(l, x), S \cap T)
          = IF x \in S \cap T THEN Append(Only(l, S \cap T), x) ELSE Only(l, S \cap T)
    <3> DEFINE U == S \cap T
    <3> HIDE DEF U
    <3>1. Only(Append(l, x), U) = IF x \in U THEN Append(Only(l, U), x) ELSE Only(l, U)
      BY <2>2, OnlyOfAppend, ZenonT(60)
    <3> QED BY <3>1 DEF U
  <2>5. Only(Append(Only(l, S), x), T)
          = IF x \in T THEN Append(Only(Only(l, S), T), x) ELSE Only(Only(l, S), T)
    BY <2>3, OnlyOfAppend, Zenon
  <2>6. Only(Only(l, S), T) = Only(l, S \cap T)
    BY <2>2
  <2>7. Only(Only(Append(l, x), S), T) # Only(Append(l, x), S \cap T)
    BY <2>2
  <2>9. CASE x \in S
    <3>1. Only(Only(Append(l, x), S), T) = Only(Append(Only(l, S), x), T)
      BY <2>4, <2>9, Zenon
    <3>2. x \in S \cap T <=> x \in T
      BY <2>9
    <3> QED BY <2>5, <2>6, <2>7, <2>8, <3>1, <3>2, Zenon
  <2>10. CASE x \notin S
    BY <2>4, <2>6, <2>7, <2>8, <2>10
  <2> QED BY <2>9, <2>10
<1> QED BY <1>1

LEMMA AppendOfConcat ==
  ASSUME NEW L, NEW a \in Seq(L), NEW b \in Seq(L), NEW x \in L
  PROVE  /\ a \o b \in Seq(L)
         /\ a \o Append(b, x) = Append(a \o b, x)
<1> DEFINE c == Append(b, x)
<1>1. c \in Seq(L) /\ Len(c) = Len(b) + 1 /\ Len(b) \in Nat /\ Len(a) \in Nat
  OBVIOUS
<1>2. \A i \in 1..Len(b) + 1 : c[i] = IF i = Len(b) + 1 THEN x ELSE b[i]
  OBVIOUS
<1> HIDE DEF c
<1>3. /\ a \o b \in Seq(L) /\ Len(a \o b) = Len(a) + Len(b)
      /\ \A i \in 1..Len(a) + Len(b) : (a \o b)[i] = IF i <= Len(a) THEN a[i] ELSE b[i - Len(a)]
  BY ConcatProperties
<1>4. /\ a \o c \in Seq(L) /\ Len(a \o c) = Len(a) + Len(b) + 1
      /\ \A i \in 1..Len(a) + Len(c) : (a \o c)[i] = IF i <= Len(a) THEN a[i] ELSE c[i - Len(a)]
  <2>1. /\ a \o c \in Seq(L) /\ Len(a \o c) = Len(a) + Len(c)
        /\ \A i \in 1..Len(a) + Len(c) : (a \o c)[i] = IF i <= Len(a) THEN a[i] ELSE c[i - Len(a)]
    BY <1>1, ConcatProperties, Zenon
  <2> QED BY <1>1, <2>1
<1> DEFINE d == a \o b
<1> HIDE DEF d
<1>5. /\ Append(d, x) \in Seq(L) /\ Len(Append(d, x)) = Len(a) + Len(b) + 1
      /\ \A i \in 1..Len(a) + Len(b) + 1 :
           Append(d, x)[i] = IF i = Len(a) + Len(b) + 1 THEN x ELSE d[i]
  BY <1>3 DEF d
<1>6. ASSUME NEW i \in 1..Len(a) + Len(b) + 1
      PROVE  (a \o c)[i] = Append(d, x)[i]
  <2>1. CASE i <= Len(a)
    BY <1>1, <1>3, <1>4, <1>5, <2>1 DEF d
  <2>2. CASE i = Len(a) + Len(b) + 1
    <3>1. i - Len(a) = Len(b) + 1 /\ ~(i <= Len(a)) /\ i \in 1..Len(a) + Len(c)
      BY <1>1, <2>2
    <3> QED BY <1>1, <1>2, <1>4, <1>5, <2>2, <3>1
  <2>3. CASE ~(i <= Len(a)) /\ i # Len(a) + Len(b) + 1
    <3>1. i - Len(a) \in 1..Len(b) /\ i \in 1..Len(a) + Len(b) /\ i \in 1..Len(a) + Len(c)
      BY <1>1, <2>3
    <3> QED BY <1>1, <1>2, <1>3, <1>4, <1>5, <2>3, <3>1 DEF d
  <2> QED BY <2>1, <2>2, <2>3
<1>7. a \o c = Append(d, x)
  BY <1>1, <1>4, <1>5, <1>6, SeqEqual
<1> QED BY <1>3, <1>7 DEF c, d

(* Of two lists in a row: of the one, then of the other.                   *)
LEMMA OnlyOfConcat ==
  ASSUME NEW L, NEW S, NEW a \in Seq(L), NEW b \in Seq(L)
  PROVE  Only(a \o b, S) = Only(a, S) \o Only(b, S)
<1> DEFINE B == {l \in Seq(L) : Only(a \o l, S) # Only(a, S) \o Only(l, S)}
<1>0. Only(a, S) \in Seq(L)
  BY OnlyElements
<1>1. B = {}
  <2> SUFFICES ASSUME B # {} PROVE FALSE
    OBVIOUS
  <2>1. <<>> \notin B
    <3>1. a \o <<>> = a /\ Only(a, S) \o <<>> = Only(a, S)
      BY <1>0, ConcatEmptySeq
    <3> QED BY <3>1, OnlyOfEmpty
  <2>2. PICK l \in Seq(L), x \in L : l \notin B /\ Append(l, x) \in B
    BY <2>1, ShortestIn, B \subseteq Seq(L), Zenon
  <2>10. l \in Seq(L) /\ x \in L
    BY <2>2, Zenon
  <2>3. a \o l \in Seq(L) /\ a \o Append(l, x) = Append(a \o l, x)
    BY <2>10, AppendOfConcat
  <2>4. Only(Append(l, x), S) = IF x \in S THEN Append(Only(l, S), x) ELSE Only(l, S)
    BY <2>10, OnlyOfAppend, Zenon
  <2>9. Only(Append(a \o l, x), S)
          = IF x \in S THEN Append(Only(a \o l, S), x) ELSE Only(a \o l, S)
    BY <2>10, <2>3, OnlyOfAppend, Zenon
  <2>5. Only(a \o l, S) = Only(a, S) \o Only(l, S)
    BY <2>2
  <2>6. Only(l, S) \in Seq(L)
    BY <2>10, OnlyElements
  <2> DEFINE p == Only(a, S)
             q == Only(l, S)
  <2>7. p \o Append(q, x) = Append(p \o q, x)
    <3> HIDE DEF p, q
    <3>1. p \in Seq(L) /\ q \in Seq(L) /\ x \in L
      BY <1>0, <2>10, <2>6 DEF p, q
    <3> QED BY <3>1, AppendOfConcat
  <2>8. Only(a \o Append(l, x), S) # p \o Only(Append(l, x), S)
    BY <2>2, Zenon
  <2> QED BY <2>3, <2>4, <2>5, <2>7, <2>8, <2>9
<1> QED BY <1>1

(* Nothing is left of a list that has nothing in the set.                  *)
LEMMA OnlyNothing ==
  ASSUME NEW L, NEW S, NEW ls \in Seq(L), \A i \in DOMAIN ls : ls[i] \notin S
  PROVE  Only(ls, S) = <<>>
<1> DEFINE o == Only(ls, S)
<1>1. o \in Seq(L) /\ \A k \in DOMAIN o : FALSE
  BY OnlyElements
<1> HIDE DEF o
<1>2. Len(o) \in Nat /\ DOMAIN o = 1..Len(o)
  BY <1>1
<1>3. Len(o) = 0
  <2>1. Len(o) > 0 => 1 \in DOMAIN o
    BY <1>2
  <2> QED BY <1>1, <1>2, <2>1
<1> QED BY <1>1, <1>3 DEF o

-----------------------------------------------------------------------------
(* The inductive invariant: where the listeners of searches and of clients *)
(* are while searches go on.                                               *)

Alone(ls)    == \A p, q \in Owners(ls) : p = q
Below(ls, n) == \A k \in DOMAIN ls : ls[k].id < n
NotKept(ls)  == \A k \in DOMAIN ls : ls[k].kind \notin KeptKinds

StartedInOrder == \A s \in Started : \A q \in 1..s - 1 : q \in Started

(* Each search has its listeners in the engine or in what a later one has  *)
(* saved, alone: so the last one's are in the engine, and the first one    *)
(* has saved those of no other.                                            *)
Chained ==
  /\ StartedInOrder
  /\ \A q \in Searching : \/ q \in Owners(listeners)
                          \/ \E s \in Searching : q \in Owners(search[s].saved)
  /\ Alone(listeners)
  /\ \A s \in Searching : /\ Alone(search[s].saved)
                          /\ \A q \in Owners(search[s].saved) : q < s

(* The listeners of clients in a list are those of m, or none of them.     *)
AsMine(ls, m, kinds) == \A kind \in kinds : OfClients(ls, kind) = OfClients(m, kind)
Forgotten(ls, m) ==
  \A k \in DOMAIN ls : ls[k].owner = User /\ ls[k].kind \notin KeptKinds => ls[k] \notin ToSet(m)

EngineLists ==
  /\ Below(listeners, listener_cnt) /\ Below(mine, listener_cnt)
  /\ AsMine(listeners, mine, KeptKinds)
  /\ IF Searching = {} THEN AsMine(listeners, mine, Kind \ KeptKinds)
     ELSE Forgotten(listeners, mine)

SavedLists ==
  \A s \in Searching :
    /\ Below(search[s].saved, listener_cnt) /\ NotKept(search[s].saved)
    /\ IF Owners(search[s].saved) = {}
       THEN AsMine(search[s].saved, mine, Kind \ KeptKinds)
       ELSE Forgotten(search[s].saved, mine)

RestoreInv == SearchInv /\ Chained /\ EngineLists /\ SavedLists

(* Of searches that only each other have saved, one is in the engine.      *)
LEMMA LastInEngine ==
  ASSUME TypeOK, Chained, NEW Q, Q \subseteq Searching, Q # {},
         \A q \in Q, s \in Searching : q \in Owners(search[s].saved) => s \in Q
  PROVE  Q \cap Owners(listeners) # {}
<1> DEFINE Back == {n \in Nat : MaxSearches - n \in Q}
<1>1. MaxSearches \in Nat /\ \A q \in Q : q \in Nat /\ q <= MaxSearches
  BY SearchAssumption DEF Searching, SearchId
<1>2. Back \subseteq Nat /\ Back # {}
  <2>1. PICK q \in Q : TRUE
    OBVIOUS
  <2>2. MaxSearches - q \in Nat /\ MaxSearches - (MaxSearches - q) = q
    BY <1>1
  <2>3. MaxSearches - q \in Back
    BY <2>2
  <2> QED BY <2>3
<1>3. PICK n \in Back : \A k \in Back : n <= k
  BY <1>2, SmallestIn, Zenon
<1>4. PICK m : m = MaxSearches - n
  OBVIOUS
<1>5. m \in Q /\ \A q \in Q : q <= m
  <2>1. ASSUME NEW q \in Q PROVE q <= m
    <3>1. MaxSearches - q \in Nat /\ MaxSearches - (MaxSearches - q) = q
      BY <1>1
    <3>2. MaxSearches - q \in Back
      BY <3>1
    <3>3. n <= MaxSearches - q /\ n \in Nat
      BY <1>3, <3>2
    <3> QED BY <1>1, <1>4, <3>3
  <2> QED BY <1>3, <1>4, <2>1
<1>6. \A s \in Searching : m \in Owners(search[s].saved) => m < s /\ s \in Q
  BY <1>5 DEF Chained
<1>7. m \in Owners(listeners)
  <2>1. \A s \in Searching : m \notin Owners(search[s].saved)
    BY <1>1, <1>5, <1>6
  <2> QED BY <1>5, <2>1 DEF Chained
<1> QED BY <1>5, <1>7

LEMMA SomeInEngine ==
  ASSUME TypeOK, Chained, Searching # {}
  PROVE  Owners(listeners) # {}
BY LastInEngine

(* A search in the engine that has saved nobody's listeners is the last.   *)
LEMMA FirstIsLast ==
  ASSUME TypeOK, Chained, NEW s \in Searching, s \in Owners(listeners),
         Owners(search[s].saved) = {}
  PROVE  Searching = {s}
<1> DEFINE Q == Searching \ {s}
<1>1. \A q \in Q, r \in Searching : q \in Owners(search[r].saved) => r \in Q
  OBVIOUS
<1>2. Q \cap Owners(listeners) = {}
  BY DEF Chained, Alone
<1> HIDE DEF Q
<1>3. Q = {}
  <2>1. Q \subseteq Searching
    BY DEF Q
  <2> QED BY <1>1, <1>2, <2>1, LastInEngine
<1> QED BY <1>3 DEF Q

-----------------------------------------------------------------------------
(* The listeners of clients in the lists that steps make.                  *)

ClientKind(kind) == [id : Nat, kind : {kind}, owner : {User}]

LEMMA OfClientsIsOnly ==
  ASSUME NEW ls, NEW kind
  PROVE  OfClients(ls, kind) = Only(ls, ClientKind(kind))
BY DEF OfClients, ClientKind

LEMMA InClientKind ==
  ASSUME NEW l \in Listener, NEW kind
  PROVE  l \in ClientKind(kind) <=> l.owner = User /\ l.kind = kind
BY DEF Listener, ClientKind

(* A list that takes over all of a kind.                                   *)
LEMMA OfClientsOnly ==
  ASSUME NEW ls \in Seq(Listener), NEW S, NEW kind,
         \A l \in Listener : l.owner = User /\ l.kind = kind => l \in S
  PROVE  OfClients(Only(ls, S), kind) = OfClients(ls, kind)
<1>1. Only(Only(ls, S), ClientKind(kind)) = Only(ls, S \cap ClientKind(kind))
  BY OnlyTwice
<1>2. \A i \in DOMAIN ls : ls[i] \in S \cap ClientKind(kind) <=> ls[i] \in ClientKind(kind)
  BY InClientKind
<1>3. Only(ls, S \cap ClientKind(kind)) = Only(ls, ClientKind(kind))
  <2> DEFINE T == S \cap ClientKind(kind)
  <2> HIDE DEF T
  <2>1. \A i \in DOMAIN ls : ls[i] \in T <=> ls[i] \in ClientKind(kind)
    BY <1>2 DEF T
  <2>2. Only(ls, T) = Only(ls, ClientKind(kind))
    <3> DEFINE U == ClientKind(kind)
    <3> HIDE DEF U
    <3>1. \A i \in DOMAIN ls : ls[i] \in T <=> ls[i] \in U
      BY <2>1 DEF U
    <3>2. Only(ls, T) = Only(ls, U)
      BY <3>1, OnlyAgrees, ZenonT(60)
    <3> QED BY <3>2 DEF U
  <2> QED BY <2>2 DEF T
<1> QED BY <1>1, <1>3, OfClientsIsOnly

(* A list that has none of a kind.                                         *)
LEMMA OfClientsNone ==
  ASSUME NEW ls \in Seq(Listener), NEW kind,
         \A k \in DOMAIN ls : ~(ls[k].owner = User /\ ls[k].kind = kind)
  PROVE  OfClients(ls, kind) = <<>>
<1>1. \A k \in DOMAIN ls : ls[k] \notin ClientKind(kind)
  BY InClientKind
<1>2. Only(ls, ClientKind(kind)) = <<>>
  BY <1>1, OnlyNothing, Zenon
<1> QED BY <1>2, OfClientsIsOnly

LEMMA OfClientsConcat ==
  ASSUME NEW a \in Seq(Listener), NEW b \in Seq(Listener), NEW kind
  PROVE  OfClients(a \o b, kind) = OfClients(a, kind) \o OfClients(b, kind)
BY OnlyOfConcat, OfClientsIsOnly

LEMMA OfClientsSeq ==
  ASSUME NEW ls \in Seq(Listener), NEW kind
  PROVE  OfClients(ls, kind) \in Seq(Listener)
<1>1. Only(ls, ClientKind(kind)) \in Seq(Listener)
  BY OnlyElements
<1> QED BY <1>1, OfClientsIsOnly

(* Without a listener, or with it when it was not there.                   *)
Without(ls, l) == Only(ls, ToSet(ls) \ {l})

LEMMA OfClientsWithout ==
  ASSUME NEW ls \in Seq(Listener), NEW l, NEW kind
  PROVE  /\ OfClients(Without(ls, l), kind) = Only(OfClients(ls, kind), Listener \ {l})
         /\ l \notin ToSet(ls) \cap ClientKind(kind)
              => OfClients(Without(ls, l), kind) = OfClients(ls, kind)
<1> DEFINE S == ToSet(ls) \ {l}
           C == ClientKind(kind)
           T == Listener \ {l}
           U == S \cap C
           V == C \cap T
<1>1. Only(Only(ls, S), C) = Only(ls, U)
  <2> HIDE DEF S, C
  <2> QED BY OnlyTwice
<1>2. Only(Only(ls, C), T) = Only(ls, V)
  <2> HIDE DEF T, C
  <2> QED BY OnlyTwice
<1>3. \A i \in DOMAIN ls : ls[i] \in Listener /\ ls[i] \in ToSet(ls)
  BY DEF ToSet
<1>4. \A i \in DOMAIN ls : ls[i] \in U <=> ls[i] \in V
  BY <1>3
<1>5. Only(ls, U) = Only(ls, V)
  <2> HIDE DEF U, V
  <2> QED BY <1>4, OnlyAgrees, Zenon
<1>6. ASSUME l \notin ToSet(ls) \cap C PROVE Only(ls, U) = Only(ls, C)
  <2>1. \A i \in DOMAIN ls : ls[i] \in U <=> ls[i] \in C
    BY <1>3, <1>6
  <2> HIDE DEF U, C
  <2> QED BY <2>1, OnlyAgrees, Zenon
<1>7. /\ Without(ls, l) = Only(ls, S)
      /\ OfClients(Only(ls, S), kind) = Only(Only(ls, S), C)
      /\ OfClients(ls, kind) = Only(ls, C)
  BY OfClientsIsOnly DEF Without
<1> HIDE DEF S, C, T, U, V
<1>8. OfClients(Without(ls, l), kind) = Only(OfClients(ls, kind), T)
  BY <1>1, <1>2, <1>5, <1>7
<1>9. l \notin ToSet(ls) \cap C => OfClients(Without(ls, l), kind) = OfClients(ls, kind)
  BY <1>1, <1>6, <1>7
<1> QED BY <1>8, <1>9 DEF T, C

LEMMA OfClientsWithoutOther ==
  ASSUME NEW ls \in Seq(Listener), NEW l, NEW kind, l \notin ToSet(ls) \cap ClientKind(kind)
  PROVE  OfClients(Without(ls, l), kind) = OfClients(ls, kind)
BY OfClientsWithout, Zenon

(* One more at the end.                                                    *)
LEMMA OfClientsAppend ==
  ASSUME NEW ls \in Seq(Listener), NEW l \in Listener, NEW kind
  PROVE  OfClients(Append(ls, l), kind) =
           IF l.owner = User /\ l.kind = kind THEN Append(OfClients(ls, kind), l)
           ELSE OfClients(ls, kind)
<1>1. Only(Append(ls, l), ClientKind(kind)) =
        IF l \in ClientKind(kind) THEN Append(Only(ls, ClientKind(kind)), l)
        ELSE Only(ls, ClientKind(kind))
  BY OnlyOfAppend, Zenon
<1> QED BY <1>1, InClientKind, OfClientsIsOnly

(* What of a list has an id below n, is of kinds searches save, or is no   *)
(* longer counted on.                                                      *)
LEMMA PartsOfOnly ==
  ASSUME NEW ls \in Seq(Listener), NEW S
  PROVE  /\ \A n : Below(ls, n) => Below(Only(ls, S), n)
         /\ \A m : Forgotten(ls, m) => Forgotten(Only(ls, S), m)
         /\ ToSet(Only(ls, S)) \subseteq ToSet(ls)
BY OnlyElements DEF Below, Forgotten, ToSet

LEMMA PartsOfConcat ==
  ASSUME NEW a \in Seq(Listener), NEW b \in Seq(Listener)
  PROVE  /\ \A n : Below(a, n) /\ Below(b, n) => Below(a \o b, n)
         /\ \A m : Forgotten(a, m) /\ Forgotten(b, m) => Forgotten(a \o b, m)
<1> DEFINE c == a \o b
<1>1. \A k \in DOMAIN c : \/ \E i \in DOMAIN a : c[k] = a[i]
                          \/ \E i \in DOMAIN b : c[k] = b[i]
  <2>1. /\ Len(c) = Len(a) + Len(b) /\ c \in Seq(Listener)
        /\ \A i \in 1..Len(a) + Len(b) : c[i] = IF i <= Len(a) THEN a[i] ELSE b[i - Len(a)]
    BY ConcatProperties
  <2> HIDE DEF c
  <2> SUFFICES ASSUME NEW k \in DOMAIN c
               PROVE  \/ \E i \in DOMAIN a : c[k] = a[i]
                      \/ \E i \in DOMAIN b : c[k] = b[i]
    OBVIOUS
  <2>2. k \in 1..Len(a) + Len(b) /\ Len(a) \in Nat /\ Len(b) \in Nat
    BY <2>1
  <2>3. CASE k <= Len(a)
    BY <2>1, <2>2, <2>3
  <2>4. CASE ~(k <= Len(a))
    <3>1. k - Len(a) \in DOMAIN b
      BY <2>2, <2>4
    <3> QED BY <2>1, <2>2, <2>4, <3>1
  <2> QED BY <2>3, <2>4
<1> HIDE DEF c
<1> QED BY <1>1 DEF Below, Forgotten, c

-----------------------------------------------------------------------------
(* Steps.                                                                  *)

ListsInv == Chained /\ EngineLists /\ SavedLists

(* The lists of the next state.                                            *)
LEMMA PrimedLists ==
  /\ \A kinds : AsMine(listeners, mine, kinds)' <=> AsMine(listeners', mine', kinds)
  /\ \A s, kinds : AsMine(search[s].saved, mine, kinds)' <=> AsMine(search'[s].saved, mine', kinds)
  /\ Forgotten(listeners, mine)' <=> Forgotten(listeners', mine')
  /\ \A s : Forgotten(search[s].saved, mine)' <=> Forgotten(search'[s].saved, mine')
  /\ Below(listeners, listener_cnt)' <=> Below(listeners', listener_cnt')
  /\ Below(mine, listener_cnt)' <=> Below(mine', listener_cnt')
  /\ \A s : Below(search[s].saved, listener_cnt)' <=> Below(search'[s].saved, listener_cnt')
  /\ \A s : NotKept(search[s].saved)' <=> NotKept(search'[s].saved)
  /\ Owners(listeners)' = Owners(listeners')
  /\ \A s : Owners(search[s].saved)' = Owners(search'[s].saved)
  /\ Alone(listeners)' <=> Alone(listeners')
  /\ \A s : Alone(search[s].saved)' <=> Alone(search'[s].saved)
<1>1. /\ \A kind : OfClients(listeners, kind)' = OfClients(listeners', kind)
      /\ \A kind : OfClients(mine, kind)' = OfClients(mine', kind)
      /\ \A s, kind : OfClients(search[s].saved, kind)' = OfClients(search'[s].saved, kind)
  BY DEF OfClients, Only
<1>2. /\ \A kinds : AsMine(listeners, mine, kinds)' <=> AsMine(listeners', mine', kinds)
      /\ \A s, kinds : AsMine(search[s].saved, mine, kinds)' <=> AsMine(search'[s].saved, mine', kinds)
  BY <1>1 DEF AsMine
<1>3. /\ Forgotten(listeners, mine)' <=> Forgotten(listeners', mine')
      /\ \A s : Forgotten(search[s].saved, mine)' <=> Forgotten(search'[s].saved, mine')
  BY DEF Forgotten, ToSet
<1>4. /\ Below(listeners, listener_cnt)' <=> Below(listeners', listener_cnt')
      /\ Below(mine, listener_cnt)' <=> Below(mine', listener_cnt')
      /\ \A s : Below(search[s].saved, listener_cnt)' <=> Below(search'[s].saved, listener_cnt')
      /\ \A s : NotKept(search[s].saved)' <=> NotKept(search'[s].saved)
  BY DEF Below, NotKept
<1>5. /\ Owners(listeners)' = Owners(listeners')
      /\ \A s : Owners(search[s].saved)' = Owners(search'[s].saved)
      /\ Alone(listeners)' <=> Alone(listeners')
      /\ \A s : Alone(search[s].saved)' <=> Alone(search'[s].saved)
  BY DEF Owners, Alone
<1> QED BY <1>2, <1>3, <1>4, <1>5

(* Most steps leave the lists alone.                                       *)
LEMMA ListsUntouched ==
  ASSUME RestoreInv, UNCHANGED <<listeners, listener_cnt, mine>>,
         Started' = Started, Searching' = Searching,
         \A s \in Searching : search'[s].saved = search[s].saved
  PROVE  ListsInv'
<1>1. /\ Owners(listeners)' = Owners(listeners)
      /\ \A s \in Searching : Owners(search[s].saved)' = Owners(search[s].saved)
  BY DEF Owners
<1>2. Chained'
  <2>1. Alone(listeners)' /\ StartedInOrder'
    BY <1>1 DEF RestoreInv, Chained, Alone, StartedInOrder
  <2>2. \A s \in Searching : Alone(search[s].saved)'
    BY <1>1 DEF RestoreInv, Chained, Alone
  <2> QED BY <1>1, <2>1, <2>2 DEF RestoreInv, Chained
<1>3. EngineLists'
  BY PrimedLists DEF RestoreInv, EngineLists
<1>4. SavedLists'
  <2> SUFFICES ASSUME NEW s \in Searching
               PROVE  (/\ Below(search[s].saved, listener_cnt) /\ NotKept(search[s].saved)
                       /\ IF Owners(search[s].saved) = {}
                          THEN AsMine(search[s].saved, mine, Kind \ KeptKinds)
                          ELSE Forgotten(search[s].saved, mine))'
    BY DEF SavedLists
  <2>1. search'[s].saved = search[s].saved
    OBVIOUS
  <2> QED BY <2>1, PrimedLists DEF RestoreInv, SavedLists
<1> QED BY <1>2, <1>3, <1>4 DEF ListsInv

(* The end of a search puts back what it saved, which are the listeners    *)
(* that count if it was the only one left.                                 *)
LEMMA FinishedLists ==
  ASSUME RestoreInv, NEW s \in Searching, s \in Owners(listeners), Finished(s),
         UNCHANGED <<listener_cnt, mine>>
  PROVE  ListsInv'
<1> DEFINE saved == search[s].saved
           kept == Kept(listeners)
           K == [id : Nat, kind : KeptKinds, owner : SearchId \cup {User}]
<1>1. /\ TypeOK /\ listeners \in Seq(Listener) /\ mine \in Seq(Listener)
      /\ saved \in Seq(Listener) /\ s \in SearchId
  BY DEF RestoreInv, SearchInv, TypeOK, SearchType, Searching
<1>2. /\ Reported(s, IF search[s].status \in Wish THEN search[s].status ELSE "COMPLETED")
      /\ listeners' = kept \o saved
  BY DEF Finished, Restored
<1>3. /\ Searching' = Searching \ {s} /\ Started' = Started
      /\ \A q \in Searching' : search'[q].saved = search[q].saved
  BY <1>1, <1>2 DEF Reported, Unchanged, Same, Searching, Started
<1>4. /\ kept \in Seq(Listener) /\ Owners(kept) = {}
  BY <1>1, KeptListeners DEF RestoreInv, SearchInv, ListenersInv
<1>5. \A l \in Listener : l \in K <=> l.kind \in KeptKinds
  BY DEF Listener
<1>6. kept = Only(listeners, K)
  BY DEF Kept
<1>7. \A k \in DOMAIN kept : kept[k].kind \in KeptKinds
  <2> HIDE DEF K, kept
  <2>1. \A k \in DOMAIN kept : kept[k] \in K /\ kept[k] \in Listener
    BY <1>1, <1>4, <1>6, OnlyElements
  <2> QED BY <1>5, <2>1
<1> HIDE DEF K, kept, saved
<1>8. Owners(listeners)' = Owners(saved)
  <2>1. Owners(kept \o saved) = Owners(kept) \cup Owners(saved)
    BY <1>1, <1>4, OwnersOfConcat, Zenon
  <2> QED BY <1>2, <1>4, <2>1 DEF Owners
<1>9. \A q \in Searching' : Owners(search[q].saved)' = Owners(search[q].saved)
  BY <1>3 DEF Owners
<1>10. Chained'
  <2>1. StartedInOrder' /\ Alone(listeners)'
    BY <1>3, <1>8 DEF RestoreInv, Chained, Alone, StartedInOrder, saved
  <2>2. \A q \in Searching' : Alone(search[q].saved)'
    BY <1>3, <1>9 DEF RestoreInv, Chained, Alone
  <2>3. \A q \in Searching' : \/ q \in Owners(saved)
                              \/ \E r \in Searching' : q \in Owners(search[r].saved)
    <3>1. \A q \in Searching' : q \notin Owners(listeners)
      BY <1>3 DEF RestoreInv, Chained, Alone
    <3> QED BY <1>3, <3>1 DEF RestoreInv, Chained, saved
  <2> QED BY <1>3, <1>8, <1>9, <2>1, <2>2, <2>3 DEF RestoreInv, Chained
<1>11. NotKept(saved) /\ Below(saved, listener_cnt) /\ Below(kept, listener_cnt)
  BY <1>1, <1>6, PartsOfOnly DEF RestoreInv, SavedLists, EngineLists, saved
<1>12. \A kind : OfClients(listeners', kind) = OfClients(kept, kind) \o OfClients(saved, kind)
  BY <1>1, <1>2, <1>4, OfClientsConcat
<1>13. \A kind : OfClients(kept, kind) \in Seq(Listener) /\ OfClients(saved, kind) \in Seq(Listener)
  BY <1>1, <1>4, OfClientsSeq
<1>14. AsMine(listeners', mine, KeptKinds)
  <2> SUFFICES ASSUME NEW kind \in KeptKinds
               PROVE  OfClients(listeners', kind) = OfClients(mine, kind)
    BY DEF AsMine
  <2>1. OfClients(saved, kind) = <<>>
    BY <1>1, <1>11, OfClientsNone DEF NotKept
  <2>2. OfClients(kept, kind) = OfClients(listeners, kind)
    BY <1>1, <1>5, <1>6, OfClientsOnly
  <2>3. OfClients(listeners, kind) = OfClients(mine, kind)
    BY DEF RestoreInv, EngineLists, AsMine
  <2> QED BY <1>12, <1>13, <2>1, <2>2, <2>3, ConcatEmptySeq
<1>15. ASSUME Owners(saved) = {}
       PROVE  Searching' = {} /\ AsMine(listeners', mine, Kind \ KeptKinds)
  <2>1. Searching' = {}
    BY <1>1, <1>3, <1>15, FirstIsLast DEF RestoreInv, saved
  <2>2. AsMine(saved, mine, Kind \ KeptKinds)
    BY <1>15 DEF RestoreInv, SavedLists, saved
  <2>3. AsMine(listeners', mine, Kind \ KeptKinds)
    <3> SUFFICES ASSUME NEW kind \in Kind \ KeptKinds
                 PROVE  OfClients(listeners', kind) = OfClients(mine, kind)
      BY DEF AsMine
    <3>1. OfClients(kept, kind) = <<>>
      BY <1>4, <1>7, OfClientsNone
    <3>2. OfClients(listeners', kind) = OfClients(saved, kind)
      BY <1>12, <1>13, <3>1, ConcatEmptySeq
    <3> QED BY <2>2, <3>2 DEF AsMine
  <2> QED BY <2>1, <2>3
<1>16. ASSUME Owners(saved) # {}
       PROVE  Searching' # {} /\ Forgotten(listeners', mine)
  <2>1. Searching' # {}
    BY <1>3, <1>16 DEF RestoreInv, SearchInv, ListenersInv, saved
  <2>2. Forgotten(saved, mine)
    BY <1>16 DEF RestoreInv, SavedLists, saved
  <2>3. Forgotten(kept, mine)
    BY <1>7 DEF Forgotten
  <2>4. Forgotten(listeners', mine)
    BY <1>1, <1>2, <1>4, <2>2, <2>3, PartsOfConcat
  <2> QED BY <2>1, <2>4
<1>17. EngineLists'
  <2>1. Below(listeners', listener_cnt) /\ Below(mine, listener_cnt)
    BY <1>1, <1>2, <1>4, <1>11, PartsOfConcat DEF RestoreInv, EngineLists
  <2>2. IF Searching' = {} THEN AsMine(listeners', mine, Kind \ KeptKinds)
        ELSE Forgotten(listeners', mine)
    BY <1>15, <1>16
  
  <2> QED BY <1>14, <2>1, <2>2, PrimedLists DEF EngineLists
<1>18. SavedLists'
  <2> SUFFICES ASSUME NEW q \in Searching'
               PROVE  (/\ Below(search[q].saved, listener_cnt) /\ NotKept(search[q].saved)
                       /\ IF Owners(search[q].saved) = {}
                          THEN AsMine(search[q].saved, mine, Kind \ KeptKinds)
                          ELSE Forgotten(search[q].saved, mine))'
    BY DEF SavedLists
  <2>1. q \in Searching /\ search'[q].saved = search[q].saved
    BY <1>3
  <2> QED BY <2>1, PrimedLists DEF RestoreInv, SavedLists
<1> QED BY <1>10, <1>17, <1>18 DEF ListsInv

(* Identifiers are numbers.                                                *)
LEMMA IdsAreNumbers ==
  ASSUME NEW ls \in Seq(Listener), NEW k \in DOMAIN ls
  PROVE  ls[k].id \in Nat
<1>1. ls[k] \in Listener
  OBVIOUS
<1> QED BY <1>1 DEF Listener

(* The listeners a search begins with are its own: nothing of clients.     *)
LEMMA OwnLists ==
  ASSUME listener_cnt \in Nat, NEW s \in SearchId
  PROVE  LET own == OwnListeners(s) IN
           /\ \A k \in DOMAIN own : own[k].owner # User /\ own[k].kind \notin KeptKinds
           /\ Below(own, listener_cnt + 3)
<1> DEFINE own == OwnListeners(s)
<1>1. DOMAIN own = 1..3
  BY DEF OwnListeners
<1>2. /\ own[1].owner = s /\ own[2].owner = s /\ own[3].owner = s
      /\ own[1].kind = "tuner" /\ own[2].kind = "ready" /\ own[3].kind = "timeout"
      /\ own[1].id = listener_cnt /\ own[2].id = listener_cnt + 1 /\ own[3].id = listener_cnt + 2
  BY DEF OwnListeners
<1>3. s # User
  BY SearchAssumption DEF SearchId, User
<1> HIDE DEF own
<1>4. \A k \in DOMAIN own : k = 1 \/ k = 2 \/ k = 3
  BY <1>1
<1>5. \A k \in DOMAIN own : own[k].owner # User /\ own[k].kind \notin KeptKinds
                            /\ own[k].id < listener_cnt + 3
  BY <1>2, <1>3, <1>4 DEF KeptKinds
<1> QED BY <1>5 DEF Below, own

(* A search saves what counts, if it is the first, and its place in the    *)
(* engine is the last.                                                     *)
LEMMA TunerSearchLists ==
  ASSUME RestoreInv, NEW s \in SearchId, NEW type, TunerSearch(s, type)
  PROVE  ListsInv'
<1> DEFINE own   == OwnListeners(s)
           kept  == Kept(listeners)
           saved == SavedOf(listeners)
           K == [id : Nat, kind : KeptKinds, owner : SearchId \cup {User}]
           N == [id : Nat, kind : Kind \ KeptKinds, owner : SearchId \cup {User}]
<1>1. PICK t \in Tuner : TakesTuner(s, t)
  BY TunerSearchEffect DEF RestoreInv
<1>2. /\ TypeOK /\ listeners \in Seq(Listener) /\ mine \in Seq(Listener) /\ listener_cnt \in Nat
      /\ OnlyClientsKept(listeners) /\ Owners(listeners) \subseteq Searching
  BY DEF RestoreInv, SearchInv, TypeOK, ListenersInv
<1>3. /\ listeners' = kept \o own /\ listener_cnt' = listener_cnt + 3 /\ mine' = mine
      /\ \A q \in 1..s - 1 : q \in Started
  BY DEF TunerSearch
<1>4. /\ s \notin Started /\ s \notin Searching
      /\ Searching' = Searching \cup {s} /\ Started' = Started \cup {s}
      /\ \A q \in Searching : search'[q].saved = search[q].saved
      /\ search'[s].saved = saved
  BY <1>1 DEF TakesTuner, Unchanged, Same, Searching, Started
<1>5. /\ kept \in Seq(Listener) /\ Owners(kept) = {}
      /\ own \in Seq(Listener) /\ Owners(own) = {s}
      /\ saved \in Seq(Listener) /\ Owners(saved) \subseteq Owners(listeners)
  BY <1>2, KeptListeners, OwnListenersOf, SavedListeners
<1>6. \A l \in Listener : (l \in K <=> l.kind \in KeptKinds) /\ (l \in N <=> l.kind \notin KeptKinds)
  BY DEF Listener
<1>7. kept = Only(listeners, K) /\ saved = Only(listeners, N)
  BY DEF Kept, SavedOf
<1> HIDE DEF K, N, kept, saved
<1>8. /\ \A k \in DOMAIN kept : kept[k].kind \in KeptKinds
      /\ NotKept(saved)
  <2>1. \A k \in DOMAIN kept : kept[k] \in K /\ kept[k] \in Listener
    BY <1>2, <1>5, <1>7, OnlyElements
  <2>2. \A k \in DOMAIN saved : saved[k] \in N /\ saved[k] \in Listener
    BY <1>2, <1>5, <1>7, OnlyElements
  <2> QED BY <1>6, <2>1, <2>2 DEF NotKept
<1>9. /\ \A k \in DOMAIN own : own[k].owner # User /\ own[k].kind \notin KeptKinds
      /\ Below(own, listener_cnt + 3)
  BY <1>2, OwnLists
<1> HIDE DEF own
<1>10. Owners(kept \o own) = {s} /\ kept \o own \in Seq(Listener)
  <2>1. /\ Owners(kept \o own) = Owners(kept) \cup Owners(own)
        /\ kept \o own \in Seq(Listener)
    BY <1>5, OwnersOfConcat, Zenon
  <2> QED BY <1>5, <2>1
<1>11. Owners(saved) = Owners(listeners)
  <2> SUFFICES ASSUME NEW q \in Owners(listeners) PROVE q \in Owners(saved)
    BY <1>5
  <2>1. PICK k \in DOMAIN listeners : listeners[k].owner = q /\ q # User
    BY DEF Owners
  <2>2. listeners[k] \in N
    BY <1>2, <1>6, <2>1 DEF OnlyClientsKept
  <2>3. PICK j \in DOMAIN saved : saved[j] = listeners[k]
    BY <1>2, <1>7, <2>2, OnlyKeeps
  <2> QED BY <2>1, <2>3 DEF Owners
<1>12. /\ (Owners(listeners))' = {s}
       /\ (Owners(search[s].saved))' = Owners(listeners)
       /\ \A q \in Searching : (Owners(search[q].saved))' = Owners(search[q].saved)
  BY <1>3, <1>4, <1>10, <1>11, PrimedLists
<1>13. \A q \in Started : q < s
  <2> SUFFICES ASSUME NEW q \in Started, ~(q < s) PROVE FALSE
    OBVIOUS
  <2>1. q \in Nat /\ s \in Nat /\ q # s /\ s > 0
    BY <1>4, SearchAssumption DEF Started, SearchId
  <2>2. s \in 1..q - 1
    BY <2>1
  <2>3. s \in Started
    BY <2>2 DEF RestoreInv, Chained, StartedInOrder
  <2> QED BY <1>4, <2>3
<1>14. Chained'
  <2>1. StartedInOrder'
    BY <1>3, <1>4 DEF RestoreInv, Chained, StartedInOrder
  <2>2. /\ Alone(listeners)' /\ Alone(search[s].saved)'
        /\ \A q \in Searching : Alone(search[q].saved)'
    <3>1. (Alone(listeners))' <=> Alone(kept \o own)
      BY <1>3, PrimedLists
    <3>2. (Alone(search[s].saved))' <=> Alone(saved)
      BY <1>4, PrimedLists
    <3>3. \A q \in Searching : (Alone(search[q].saved))' <=> Alone(search[q].saved)
      BY <1>4, PrimedLists
    <3> QED BY <1>10, <1>11, <3>1, <3>2, <3>3 DEF Alone, RestoreInv, Chained
  <2>3. \A q \in Owners(listeners) : q < s
    BY <1>2, <1>13 DEF Searching, Started
  <2> QED BY <1>4, <1>12, <2>1, <2>2, <2>3 DEF RestoreInv, Chained
<1>15. /\ Below(kept, listener_cnt) /\ Below(saved, listener_cnt)
       /\ Forgotten(listeners, mine) => Forgotten(saved, mine)
  BY <1>2, <1>7, PartsOfOnly DEF RestoreInv, EngineLists
<1>16. /\ \A ls \in Seq(Listener) : Below(ls, listener_cnt) => Below(ls, listener_cnt + 3)
  <2>1. \A ls \in Seq(Listener) : \A k \in DOMAIN ls : ls[k].id \in Nat
    BY IdsAreNumbers
  <2> QED BY <1>2, <2>1 DEF Below
<1>17. EngineLists'
  <2>1. Below(kept \o own, listener_cnt + 3) /\ Below(mine, listener_cnt + 3)
    BY <1>2, <1>5, <1>9, <1>15, <1>16, PartsOfConcat DEF RestoreInv, EngineLists
  <2>2. Forgotten(kept \o own, mine)
    <3>1. Forgotten(kept, mine) /\ Forgotten(own, mine)
      BY <1>8, <1>9 DEF Forgotten
    <3> QED BY <1>5, <3>1, PartsOfConcat
  <2>3. AsMine(kept \o own, mine, KeptKinds)
    <3> SUFFICES ASSUME NEW kind \in KeptKinds
                 PROVE  OfClients(kept \o own, kind) = OfClients(mine, kind)
      BY DEF AsMine
    <3>1. OfClients(own, kind) = <<>>
      BY <1>5, <1>9, OfClientsNone
    <3>2. OfClients(kept, kind) = OfClients(listeners, kind)
      BY <1>2, <1>6, <1>7, OfClientsOnly
    <3>3. OfClients(listeners, kind) = OfClients(mine, kind)
      BY DEF RestoreInv, EngineLists, AsMine
    <3>4. OfClients(kept \o own, kind) = OfClients(kept, kind) \o OfClients(own, kind)
      BY <1>5, OfClientsConcat
    <3>5. OfClients(kept, kind) \in Seq(Listener)
      BY <1>5, OfClientsSeq
    <3> QED BY <3>1, <3>2, <3>3, <3>4, <3>5, ConcatEmptySeq
  <2>4. Searching' # {}
    BY <1>4
  <2> QED BY <1>3, <2>1, <2>2, <2>3, <2>4, PrimedLists DEF EngineLists
<1>18. ASSUME Owners(saved) = {} PROVE AsMine(saved, mine, Kind \ KeptKinds)
  <2>1. Searching = {}
    BY <1>2, <1>11, <1>18, SomeInEngine DEF RestoreInv
  <2>2. AsMine(listeners, mine, Kind \ KeptKinds)
    BY <2>1 DEF RestoreInv, EngineLists
  <2>3. \A kind \in Kind \ KeptKinds : OfClients(saved, kind) = OfClients(listeners, kind)
    <3> SUFFICES ASSUME NEW kind \in Kind \ KeptKinds
                 PROVE  OfClients(saved, kind) = OfClients(listeners, kind)
      OBVIOUS
    <3>1. \A l \in Listener : l.owner = User /\ l.kind = kind => l \in N
      BY <1>6
    <3> QED BY <1>2, <1>7, <3>1, OfClientsOnly
  <2> QED BY <2>2, <2>3 DEF AsMine
<1>19. ASSUME Owners(saved) # {} PROVE Forgotten(saved, mine)
  BY <1>2, <1>11, <1>15, <1>19 DEF RestoreInv, EngineLists
<1>20. SavedLists'
  <2> SUFFICES ASSUME NEW q \in Searching'
               PROVE  (/\ Below(search[q].saved, listener_cnt) /\ NotKept(search[q].saved)
                       /\ IF Owners(search[q].saved) = {}
                          THEN AsMine(search[q].saved, mine, Kind \ KeptKinds)
                          ELSE Forgotten(search[q].saved, mine))'
    BY DEF SavedLists
  <2>1. CASE q = s
    <3>1. Below(saved, listener_cnt + 3)
      BY <1>5, <1>15, <1>16
    <3> QED BY <1>3, <1>4, <1>8, <1>18, <1>19, <2>1, <3>1, PrimedLists
  <2>2. CASE q # s
    <3>1. q \in Searching /\ search'[q].saved = search[q].saved
      BY <1>4, <2>2
    <3>2. search[q].saved \in Seq(Listener)
      BY <1>2, <3>1 DEF TypeOK, SearchType, Searching
    <3>3. Below(search[q].saved, listener_cnt + 3)
      BY <1>16, <3>1, <3>2 DEF RestoreInv, SavedLists
    <3> QED BY <1>3, <3>1, <3>3, PrimedLists DEF RestoreInv, SavedLists
  <2> QED BY <2>1, <2>2
<1> QED BY <1>14, <1>17, <1>20 DEF ListsInv

(* Client code registers a listener, which counts if no search goes on or  *)
(* its kind is one searches leave alone.                                   *)
LEMMA RegisterLists ==
  ASSUME RestoreInv, NEW kind \in ClientKinds, Register(kind)
  PROVE  ListsInv'
<1> DEFINE l == [id |-> listener_cnt, kind |-> kind, owner |-> User]
           counts == Searching = {} \/ kind \in KeptKinds
<1>1. /\ TypeOK /\ listeners \in Seq(Listener) /\ mine \in Seq(Listener) /\ listener_cnt \in Nat
      /\ \A s \in Searching : search[s].saved \in Seq(Listener)
  BY DEF RestoreInv, SearchInv, TypeOK, SearchType, Searching
<1>2. l \in Listener /\ l.owner = User /\ l.kind = kind /\ l.id = listener_cnt
  BY <1>1, SearchAssumption DEF Listener
<1>3. /\ listeners' = Append(listeners, l)
      /\ mine' = IF counts THEN Append(mine, l) ELSE mine
      /\ listener_cnt' = listener_cnt + 1 /\ search' = search
  BY DEF Register
<1> HIDE DEF l, counts
<1>4. Searching' = Searching /\ Started' = Started
  BY <1>3 DEF Searching, Started
<1>5. \A ls \in Seq(Listener) :
        /\ Append(ls, l) \in Seq(Listener)
        /\ \A k \in DOMAIN Append(ls, l) :
             \/ k \in DOMAIN ls /\ Append(ls, l)[k] = ls[k]
             \/ Append(ls, l)[k] = l
        /\ \A k \in DOMAIN ls : k \in DOMAIN Append(ls, l) /\ Append(ls, l)[k] = ls[k]
  BY <1>2
<1>6. \A ls \in Seq(Listener) : \A k \in DOMAIN ls : ls[k].id \in Nat
  BY IdsAreNumbers
<1>7. \A ls \in Seq(Listener) : Below(ls, listener_cnt)
        => Below(ls, listener_cnt + 1) /\ Below(Append(ls, l), listener_cnt + 1)
  BY <1>1, <1>2, <1>5, <1>6 DEF Below
<1>8. Owners(Append(listeners, l)) = Owners(listeners)
  BY <1>1, <1>2, <1>5 DEF Owners
<1>9. ToSet(mine') \subseteq ToSet(mine) \cup (IF counts THEN {l} ELSE {})
  BY <1>1, <1>3, <1>5 DEF ToSet
(* The new listener is in no list yet. *)
<1>10. \A ls \in Seq(Listener) : Below(ls, listener_cnt) => \A k \in DOMAIN ls : ls[k] # l
  BY <1>1, <1>2, <1>6 DEF Below
<1>11. \A ls \in Seq(Listener) : Below(ls, listener_cnt) /\ Forgotten(ls, mine) => Forgotten(ls, mine')
  BY <1>9, <1>10 DEF Forgotten
<1>12. Chained'
  <2>1. StartedInOrder'
    BY <1>4 DEF RestoreInv, Chained, StartedInOrder
  <2>2. /\ (Owners(listeners))' = Owners(listeners)
        /\ \A s \in Searching : (Owners(search[s].saved))' = Owners(search[s].saved)
    BY <1>3, <1>8, PrimedLists
  <2>3. (Alone(listeners))' /\ \A s \in Searching : (Alone(search[s].saved))'
    <3>1. Alone(Append(listeners, l))
      BY <1>8 DEF RestoreInv, Chained, Alone
    <3> QED BY <1>3, <3>1, PrimedLists DEF RestoreInv, Chained
  <2> QED BY <1>4, <2>1, <2>2, <2>3 DEF RestoreInv, Chained
<1>13. ASSUME NEW k2, OfClients(listeners, k2) = OfClients(mine, k2), k2 = kind => counts
       PROVE  OfClients(listeners', k2) = OfClients(mine', k2)
  <2>1. /\ OfClients(Append(listeners, l), k2) =
             IF k2 = kind THEN Append(OfClients(listeners, k2), l) ELSE OfClients(listeners, k2)
        /\ OfClients(Append(mine, l), k2) =
             IF k2 = kind THEN Append(OfClients(mine, k2), l) ELSE OfClients(mine, k2)
    BY <1>1, <1>2, OfClientsAppend
  <2> QED BY <1>3, <1>13, <2>1
<1>14. EngineLists'
  <2>1. Below(listeners', listener_cnt') /\ Below(mine', listener_cnt')
    BY <1>1, <1>3, <1>7 DEF RestoreInv, EngineLists
  <2>2. AsMine(listeners', mine', KeptKinds)
    BY <1>13 DEF RestoreInv, EngineLists, AsMine, counts
  <2>3. ASSUME Searching = {} PROVE AsMine(listeners', mine', Kind \ KeptKinds)
    BY <1>13, <2>3 DEF RestoreInv, EngineLists, AsMine, counts
  <2>4. ASSUME Searching # {} PROVE Forgotten(listeners', mine')
    <3>1. Forgotten(listeners, mine')
      BY <1>1, <1>11, <2>4 DEF RestoreInv, EngineLists
    <3>2. ASSUME kind \notin KeptKinds PROVE l \notin ToSet(mine')
      <4>1. mine' = mine
        BY <1>3, <2>4, <3>2 DEF counts
      <4>2. \A k \in DOMAIN mine : mine[k] # l
        BY <1>1, <1>10 DEF RestoreInv, EngineLists
      <4> QED BY <4>1, <4>2 DEF ToSet
    <3> QED BY <1>1, <1>2, <1>3, <1>5, <3>1, <3>2 DEF Forgotten
  <2> QED BY <1>4, <2>1, <2>2, <2>3, <2>4, PrimedLists DEF EngineLists
<1>15. SavedLists'
  <2> SUFFICES ASSUME NEW s \in Searching
               PROVE  (/\ Below(search[s].saved, listener_cnt) /\ NotKept(search[s].saved)
                       /\ IF Owners(search[s].saved) = {}
                          THEN AsMine(search[s].saved, mine, Kind \ KeptKinds)
                          ELSE Forgotten(search[s].saved, mine))'
    BY <1>4 DEF SavedLists
  <2> DEFINE saved == search[s].saved
  <2>1. saved \in Seq(Listener) /\ search' = search /\ Below(saved, listener_cnt) /\ NotKept(saved)
    BY <1>1, <1>3 DEF RestoreInv, SavedLists
  <2>2. Below(saved, listener_cnt')
    BY <1>3, <1>7, <2>1
  <2>3. Forgotten(saved, mine) => Forgotten(saved, mine')
    BY <1>11, <2>1
  <2>4. AsMine(saved, mine, Kind \ KeptKinds) => AsMine(saved, mine', Kind \ KeptKinds)
    <3> SUFFICES ASSUME NEW k2 \in Kind \ KeptKinds
                 PROVE  OfClients(mine', k2) = OfClients(mine, k2)
      BY DEF AsMine
    <3>1. CASE counts
      <4>1. k2 # kind
        BY <3>1 DEF counts
      <4>2. OfClients(Append(mine, l), k2) = OfClients(mine, k2)
        BY <1>1, <1>2, <4>1, OfClientsAppend
      <4> QED BY <1>3, <3>1, <4>2
    <3>2. CASE ~counts
      BY <1>3, <3>2
    <3> QED BY <3>1, <3>2
  <2> QED BY <2>1, <2>2, <2>3, <2>4, PrimedLists DEF RestoreInv, SavedLists
<1> QED BY <1>12, <1>14, <1>15 DEF ListsInv

(* Client code removes a listener it has in the engine, which counts, or   *)
(* was registered while the search went on.                                *)
LEMMA RemoveListenerLists ==
  ASSUME RestoreInv, NEW l \in ToSet(listeners), RemoveListener(l)
  PROVE  ListsInv'
<1>1. /\ TypeOK /\ listeners \in Seq(Listener) /\ mine \in Seq(Listener) /\ listener_cnt \in Nat
      /\ \A s \in Searching : search[s].saved \in Seq(Listener)
  BY DEF RestoreInv, SearchInv, TypeOK, SearchType, Searching
<1>2. /\ listeners' = Without(listeners, l) /\ mine' = Without(mine, l)
      /\ listener_cnt' = listener_cnt /\ search' = search /\ l.owner = User
  BY DEF RemoveListener, Without
<1>3. Searching' = Searching /\ Started' = Started
  BY <1>2 DEF Searching, Started
<1>4. PICK i \in DOMAIN listeners : listeners[i] = l
  BY DEF ToSet
<1>5. l \in Listener
  BY <1>1, <1>4
<1>6. Searching # {} /\ l.kind \notin KeptKinds => l \notin ToSet(mine)
  BY <1>2, <1>4 DEF RestoreInv, EngineLists, Forgotten
<1>7. \A ls \in Seq(Listener) :
        /\ \A n : Below(ls, n) => Below(Without(ls, l), n)
        /\ \A m : Forgotten(ls, m) => Forgotten(Without(ls, l), m)
        /\ ToSet(Without(ls, l)) \subseteq ToSet(ls)
  BY PartsOfOnly DEF Without
<1>8. Owners(Without(listeners, l)) = Owners(listeners)
  <2>1. Owners(Without(listeners, l)) \subseteq Owners(listeners)
    BY <1>1, OnlyListeners DEF Without
  <2> SUFFICES ASSUME NEW q \in Owners(listeners) PROVE q \in Owners(Without(listeners, l))
    BY <2>1
  <2>2. PICK k \in DOMAIN listeners : listeners[k].owner = q /\ q # User
    BY DEF Owners
  <2>3. listeners[k] \in ToSet(listeners) \ {l}
    BY <1>2, <2>2 DEF ToSet
  <2>4. PICK j \in DOMAIN Without(listeners, l) : Without(listeners, l)[j] = listeners[k]
    BY <1>1, <2>3, OnlyKeeps DEF Without
  <2> QED BY <2>2, <2>4 DEF Owners
<1>9. Chained'
  <2>1. StartedInOrder'
    BY <1>3 DEF RestoreInv, Chained, StartedInOrder
  <2>2. /\ (Owners(listeners))' = Owners(listeners)
        /\ \A s \in Searching : (Owners(search[s].saved))' = Owners(search[s].saved)
    BY <1>2, <1>8, PrimedLists
  <2>3. (Alone(listeners))' /\ \A s \in Searching : (Alone(search[s].saved))'
    <3>1. Alone(Without(listeners, l))
      BY <1>8 DEF RestoreInv, Chained, Alone
    <3> QED BY <1>2, <3>1, PrimedLists DEF RestoreInv, Chained
  <2> QED BY <1>3, <2>1, <2>2, <2>3 DEF RestoreInv, Chained
<1>10. ASSUME NEW kind, OfClients(listeners, kind) = OfClients(mine, kind)
       PROVE  OfClients(listeners', kind) = OfClients(mine', kind)
  <2>1. OfClients(Without(listeners, l), kind) = Only(OfClients(listeners, kind), Listener \ {l})
    BY <1>1, OfClientsWithout
  <2>2. OfClients(Without(mine, l), kind) = Only(OfClients(mine, kind), Listener \ {l})
    BY <1>1, OfClientsWithout
  <2> QED BY <1>2, <1>10, <2>1, <2>2, Zenon
<1>11. \A ls : Forgotten(ls, mine) => Forgotten(ls, mine')
  BY <1>1, <1>2, <1>7 DEF Forgotten
<1>12. EngineLists'
  <2>1. Below(listeners', listener_cnt') /\ Below(mine', listener_cnt')
    BY <1>1, <1>2, <1>7 DEF RestoreInv, EngineLists
  <2>2. AsMine(listeners', mine', KeptKinds)
    BY <1>10 DEF RestoreInv, EngineLists, AsMine
  <2>3. ASSUME Searching = {} PROVE AsMine(listeners', mine', Kind \ KeptKinds)
    BY <1>10, <2>3 DEF RestoreInv, EngineLists, AsMine
  <2>4. ASSUME Searching # {} PROVE Forgotten(listeners', mine')
    BY <1>1, <1>2, <1>7, <1>11, <2>4 DEF RestoreInv, EngineLists
  <2> QED BY <1>3, <2>1, <2>2, <2>3, <2>4, PrimedLists DEF EngineLists
<1>13. SavedLists'
  <2> SUFFICES ASSUME NEW s \in Searching
               PROVE  (/\ Below(search[s].saved, listener_cnt) /\ NotKept(search[s].saved)
                       /\ IF Owners(search[s].saved) = {}
                          THEN AsMine(search[s].saved, mine, Kind \ KeptKinds)
                          ELSE Forgotten(search[s].saved, mine))'
    BY <1>3 DEF SavedLists
  <2>1. \A kind \in Kind \ KeptKinds : OfClients(mine', kind) = OfClients(mine, kind)
    <3> SUFFICES ASSUME NEW kind \in Kind \ KeptKinds
                 PROVE  OfClients(mine', kind) = OfClients(mine, kind)
      OBVIOUS
    <3>1. l \notin ToSet(mine) \cap ClientKind(kind)
      BY <1>5, <1>6, InClientKind
    <3>2. OfClients(Without(mine, l), kind) = OfClients(mine, kind)
      BY <1>1, <3>1, OfClientsWithoutOther, Zenon
    <3> QED BY <1>2, <3>2, Zenon
  <2>2. AsMine(search[s].saved, mine, Kind \ KeptKinds) => AsMine(search[s].saved, mine', Kind \ KeptKinds)
    BY <2>1 DEF AsMine
  <2> QED BY <1>2, <1>11, <2>2, PrimedLists DEF RestoreInv, SavedLists
<1> QED BY <1>9, <1>12, <1>13 DEF ListsInv

(* Callbacks of a search, as CallbackEffect, with the lists.               *)
LEMMA CallbackLists ==
  ASSUME RestoreInv, TuneCallback \/ ReadyCallback \/ TimeoutCallback
  PROVE  ListsInv'
<1>1. \/ SearchesSame /\ UNCHANGED listeners
      \/ \E s \in Searching : s \in Owners(listeners) /\ Finished(s)
  <2>0. PICK s : s = Top.search
    OBVIOUS
  <2>1. PICK t : t = search[s].tuner
    OBVIOUS
  <2>2. /\ TypeOK /\ s \in SearchId /\ s \in Searching /\ t \in Tuner
        /\ s \in Owners(listeners) /\ tune[t] \in TuneState
    BY <2>0, <2>1, CallingSearch
       DEF TuneCallback, ReadyCallback, TimeoutCallback, RestoreInv, SearchInv, TypeOK
  <2>3. Same(Reached(s), search[s]) /\ SearchType(Reached(s))
    BY <2>2, ReachedSame
  <2>4. ASSUME search' = [search EXCEPT ![s] = Reached(s)] \/ search' = search
        PROVE  SearchesSame
    BY <2>2, <2>3, <2>4 DEF SearchesSame, Unchanged, Same, TypeOK
  <2>5. ASSUME ScanOn(s, tune[t], Reached(s)) PROVE GoesOn(s) \/ Finished(s)
    BY <2>1, <2>2, <2>3, <2>5, ScanOnEffect
  <2>6. ASSUME ScanOn(s, StoppedDecoder(tune[t]), search[s]) PROVE GoesOn(s) \/ Finished(s)
    <3>1. SearchType(search[s]) /\ Same(search[s], search[s])
      BY <2>2 DEF TypeOK, Same
    <3> QED BY <2>1, <2>2, <2>6, <3>1, StoppedDecoderType, ScanOnEffect
  <2>7. ASSUME NEW sr, sr = Recorded(t, Reached(s)), ScanOn(s, StoppedDecoder(tune[t]), sr)
        PROVE  GoesOn(s) \/ Finished(s)
    <3>1. SearchType(sr) /\ Same(sr, search[s])
      BY <2>3, <2>7, RecordedSame DEF Same
    <3> QED BY <2>1, <2>2, <2>7, <3>1, StoppedDecoderType, ScanOnEffect
  <2>8. GoesOn(s) => SearchesSame /\ UNCHANGED listeners
    BY DEF GoesOn
  <2>9. CASE TuneCallback
    BY <2>0, <2>1, <2>2, <2>4, <2>5, <2>8, <2>9 DEF TuneCallback
  <2>10. CASE ReadyCallback
    BY <2>0, <2>1, <2>2, <2>4, <2>7, <2>8, <2>10 DEF ReadyCallback
  <2>11. CASE TimeoutCallback
    BY <2>0, <2>1, <2>2, <2>4, <2>6, <2>8, <2>11 DEF TimeoutCallback
  <2> QED BY <2>9, <2>10, <2>11
<1>2. UNCHANGED <<listener_cnt, mine>>
  BY DEF TuneCallback, ReadyCallback, TimeoutCallback
<1>3. CASE SearchesSame /\ UNCHANGED listeners
  <2>1. Started' = Started /\ Searching' = Searching
        /\ \A s \in Searching : search'[s].saved = search[s].saved
    BY <1>3 DEF SearchesSame, Unchanged, Same, Started, Searching
  <2> QED BY <1>2, <1>3, <2>1, ListsUntouched
<1>4. CASE \E s \in Searching : s \in Owners(listeners) /\ Finished(s)
  BY <1>2, <1>4, FinishedLists
<1> QED BY <1>1, <1>3, <1>4

LEMMA RestoreInvInit == Init => RestoreInv
<1> SUFFICES ASSUME Init PROVE RestoreInv
  OBVIOUS
<1>1. /\ listeners = <<>> /\ mine = <<>> /\ listener_cnt = 0
      /\ Searching = {} /\ Started = {}
  BY DEF Init, Searching, Started, NoSearch
<1>2. Chained
  BY <1>1 DEF Chained, StartedInOrder, Alone, Owners
<1>3. EngineLists /\ SavedLists
  BY <1>1 DEF EngineLists, SavedLists, Below, AsMine
<1> QED BY <1>2, <1>3, InitInv DEF RestoreInv

LEMMA RestoreInvStep == RestoreInv /\ [Next]_vars => RestoreInv'
<1> SUFFICES ASSUME RestoreInv, [Next]_vars PROVE RestoreInv'
  OBVIOUS
<1>1. SearchInv'
  BY NextInv DEF RestoreInv
<1>2. ASSUME UNCHANGED <<listeners, listener_cnt, mine, search>> PROVE ListsInv'
  <2>1. Started' = Started /\ Searching' = Searching
    BY <1>2 DEF Started, Searching
  <2> QED BY <1>2, <2>1, ListsUntouched
<1>3. CASE UNCHANGED vars
  BY <1>1, <1>2, <1>3 DEF vars, ListsInv, RestoreInv
<1>4. CASE Client
  <2>1. ASSUME NEW s \in SearchId, NEW wish \in Wish, AskEnd(s, wish) PROVE ListsInv'
    <3>1. DOMAIN search = SearchId /\ SearchType(search[s])
      BY DEF RestoreInv, SearchInv, TypeOK
    <3>2. /\ \A q \in SearchId \ {s} : search'[q] = search[q]
          /\ search'[s].phase = search[s].phase /\ search'[s].saved = search[s].saved
      BY <2>1, <3>1, SearchFields DEF AskEnd
    <3>3. Started' = Started /\ Searching' = Searching
      BY <3>2 DEF Started, Searching
    <3> QED BY <2>1, <3>2, <3>3, ListsUntouched DEF AskEnd, Searching
  <2>2. ListsInv'
    BY <1>4, <2>1, TunerSearchLists, RegisterLists, RemoveListenerLists DEF Client
  <2> QED BY <1>1, <2>2 DEF ListsInv, RestoreInv
<1>5. CASE Library
  <2>1. ASSUME FinishSearch PROVE ListsInv'
    <3>1. TypeOK /\ events # <<>> /\ Top.search \in Reporting
      <4>1. events # <<>> /\ Top.at = "finishing" /\ TypeOK
        BY <2>1 DEF FinishSearch, RestoreInv, SearchInv
      <4>2. Len(events) \in DOMAIN events
        BY <4>1 DEF TypeOK
      <4> QED BY <4>1, <4>2 DEF RestoreInv, SearchInv, EventsInv, StackInv, Top
    <3>2. /\ DOMAIN search = SearchId /\ Top.search \in SearchId
          /\ search[Top.search].phase = "reporting" /\ SearchType(search[Top.search])
      BY <3>1 DEF Reporting, TypeOK
    <3>3. /\ \A q \in SearchId \ {Top.search} : search'[q] = search[q]
          /\ search'[Top.search].phase = "closed"
      BY <2>1, <3>2, SearchFields DEF FinishSearch
    <3>4. Started' = Started /\ Searching' = Searching
      BY <3>2, <3>3 DEF Started, Searching
    <3>5. \A q \in Searching : search'[q].saved = search[q].saved
      BY <3>2, <3>3 DEF Searching
    <3> QED BY <2>1, <3>4, <3>5, ListsUntouched DEF FinishSearch
  <2>2. ListsInv'
    BY <1>5, <2>1, CallbackLists DEF Library
  <2> QED BY <1>1, <2>2 DEF ListsInv, RestoreInv
<1>6. CASE NextListener
  <2>1. UNCHANGED <<listeners, listener_cnt, mine, search>>
    BY <1>6 DEF NextListener
  <2> QED BY <1>1, <1>2, <2>1 DEF ListsInv, RestoreInv
<1>7. CASE MainLoop
  <2>1. UNCHANGED <<listeners, listener_cnt, mine>>
    BY <1>7 DEF MainLoop, Lock, Fail, ReadTables, Second, OtherEvent, MainLoopEvent
  <2>2. SearchesSame
    BY <1>7, MainLoopLeaves DEF RestoreInv, SearchInv, SearchesLeft
  <2>3. Started' = Started /\ Searching' = Searching
        /\ \A s \in Searching : search'[s].saved = search[s].saved
    BY <2>2 DEF SearchesSame, Unchanged, Same, Started, Searching
  <2> QED BY <1>1, <2>1, <2>3, ListsUntouched DEF ListsInv, RestoreInv
<1> QED BY <1>3, <1>4, <1>5, <1>6, <1>7 DEF Next

(* "restore everything !!!" (__mydvb_search_finish): when no search goes   *)
(* on, clients have the listeners they may count on, in their order,       *)
(* however searches were started and ended inside one another.             *)
THEOREM ListenersRestoredCorrect == Spec => []ListenersRestored
<1>1. RestoreInv => ListenersRestored
  <2> SUFFICES ASSUME RestoreInv, Searching = {}, NEW kind \in Kind
               PROVE  OfClients(listeners, kind) = OfClients(mine, kind)
    BY DEF ListenersRestored
  <2> QED BY DEF RestoreInv, EngineLists, AsMine
<1> QED BY <1>1, RestoreInvInit, RestoreInvStep, PTL DEF Spec

-----------------------------------------------------------------------------
(* A search has one listener of each kind.                                 *)

OneEach(ls) ==
  \A k, l \in DOMAIN ls :
    /\ ls[k].owner # User
    /\ ls[k].owner = ls[l].owner /\ ls[k].kind = ls[l].kind
    => k = l

(* The elements of a list that are kept come from places at or behind      *)
(* those they get.                                                         *)
LEMMA OnlyMovesDown ==
  ASSUME NEW L, NEW S, NEW ls \in Seq(L)
  PROVE  /\ Len(Only(ls, S)) <= Len(ls)
         /\ \A k \in DOMAIN Only(ls, S) :
              \E i \in DOMAIN ls : k <= i /\ Only(ls, S)[k] = ls[i]
<1> DEFINE Good(l) == /\ Len(Only(l, S)) <= Len(l)
                      /\ \A k \in DOMAIN Only(l, S) :
                           \E i \in DOMAIN l : k <= i /\ Only(l, S)[k] = l[i]
           Bad == {l \in Seq(L) : ~Good(l)}
<1>1. Good(<<>>)
  BY OnlyOfEmpty
<1>2. ASSUME NEW l \in Seq(L), NEW x \in L, Good(l) PROVE Good(Append(l, x))
  <2> DEFINE o == Only(l, S)
             a == Append(l, x)
             b == Append(o, x)
  <2>1. o \in Seq(L) /\ Len(o) \in Nat /\ Len(l) \in Nat /\ Len(o) <= Len(l)
    BY <1>2, OnlyElements
  <2>2. /\ Len(a) = Len(l) + 1 /\ a[Len(l) + 1] = x
        /\ DOMAIN a = 1..Len(l) + 1 /\ DOMAIN l = 1..Len(l)
        /\ \A i \in DOMAIN l : a[i] = l[i]
    OBVIOUS
  <2>3. \A k \in DOMAIN o : \E i \in DOMAIN l : k <= i /\ o[k] = l[i]
    BY <1>2
  <2>4. Only(a, S) = IF x \in S THEN b ELSE o
    BY OnlyOfAppend, Zenon
  <2> HIDE DEF o
  <2>5. /\ Len(b) = Len(o) + 1 /\ b[Len(o) + 1] = x
        /\ DOMAIN b = 1..Len(o) + 1 /\ DOMAIN o = 1..Len(o)
        /\ \A k \in DOMAIN o : b[k] = o[k]
    BY <2>1
  <2> HIDE DEF a, b, Good
  <2>6. \A k \in DOMAIN o : \E i \in DOMAIN a : k <= i /\ o[k] = a[i]
    BY <2>1, <2>2, <2>3
  <2>7. ASSUME NEW k \in DOMAIN b PROVE \E i \in DOMAIN a : k <= i /\ b[k] = a[i]
    <3>1. CASE k = Len(o) + 1
      <4>1. Len(l) + 1 \in DOMAIN a /\ k <= Len(l) + 1
        BY <2>1, <2>2, <3>1
      <4>2. b[k] = a[Len(l) + 1]
        BY <2>2, <2>5, <3>1
      <4> QED BY <4>1, <4>2
    <3>2. CASE k # Len(o) + 1
      <4>1. k \in DOMAIN o
        BY <2>1, <2>5, <3>2
      <4> QED BY <2>5, <2>6, <4>1
    <3> QED BY <3>1, <3>2
  <2>8. Len(Only(a, S)) <= Len(a)
    BY <2>1, <2>2, <2>4, <2>5
  <2>9. \A k \in DOMAIN Only(a, S) : \E i \in DOMAIN a : k <= i /\ Only(a, S)[k] = a[i]
    <3>1. CASE x \in S
      BY <2>4, <2>7, <3>1
    <3>2. CASE x \notin S
      BY <2>4, <2>6, <3>2
    <3> QED BY <3>1, <3>2
  <2>10. Good(a)
    BY <2>8, <2>9 DEF Good
  <2> QED BY <2>10 DEF a
<1> HIDE DEF Good
<1>3. Bad = {}
  <2> SUFFICES ASSUME Bad # {} PROVE FALSE
    OBVIOUS
  <2>1. Bad \subseteq Seq(L) /\ <<>> \notin Bad
    BY <1>1
  <2>2. PICK l \in Seq(L) : \E x \in L : l \notin Bad /\ Append(l, x) \in Bad
    BY <2>1, ShortestIn
  <2>3. PICK x \in L : l \notin Bad /\ Append(l, x) \in Bad
    BY <2>2
  <2> QED BY <1>2, <2>2, <2>3
<1>4. Good(ls)
  BY <1>3
<1> QED BY <1>4 DEF Good

LEMMA OneEachOnly ==
  ASSUME NEW ls \in Seq(Listener), OneEach(ls), NEW S
  PROVE  OneEach(Only(ls, S))
<1> DEFINE Good(l) == OneEach(l) => OneEach(Only(l, S))
           Bad == {l \in Seq(Listener) : ~Good(l)}
<1>1. Good(<<>>)
  BY OnlyOfEmpty
<1>2. ASSUME NEW l \in Seq(Listener), NEW x \in Listener, Good(l), OneEach(Append(l, x))
      PROVE  OneEach(Only(Append(l, x), S))
  <2> DEFINE o == Only(l, S)
             a == Append(l, x)
  <2>1. /\ o \in Seq(Listener) /\ Len(o) \in Nat /\ Len(l) \in Nat
        /\ \A k \in DOMAIN o : \E i \in DOMAIN l : o[k] = l[i]
    BY OnlyElements
  <2>2. /\ DOMAIN a = 1..Len(l) + 1 /\ DOMAIN l = 1..Len(l)
        /\ a[Len(l) + 1] = x
        /\ \A i \in DOMAIN l : a[i] = l[i]
    OBVIOUS
  <2>3. Only(a, S) = IF x \in S THEN Append(o, x) ELSE o
    BY OnlyOfAppend, Zenon
  <2>4. OneEach(a)
    BY <1>2
  <2> HIDE DEF a
  <2>5. OneEach(l)
    BY <2>2, <2>4 DEF OneEach
  <2>6. OneEach(o)
    BY <1>2, <2>5
  <2> HIDE DEF o
  <2>7. CASE x \in S
    <3> DEFINE b == Append(o, x)
    <3>1. /\ DOMAIN b = 1..Len(o) + 1 /\ DOMAIN o = 1..Len(o)
          /\ b[Len(o) + 1] = x
          /\ \A k \in DOMAIN o : b[k] = o[k]
      BY <2>1
    <3> HIDE DEF b
    <3>2. ASSUME NEW k \in DOMAIN o, x.owner # User \/ o[k].owner # User,
                 o[k].owner = x.owner, o[k].kind = x.kind
          PROVE  FALSE
      <4>1. PICK i \in DOMAIN l : o[k] = l[i]
        BY <2>1
      <4>2. i \in DOMAIN a /\ Len(l) + 1 \in DOMAIN a /\ a[i] = o[k] /\ i # Len(l) + 1
        BY <2>1, <2>2, <4>1
      <4> QED BY <2>2, <2>4, <3>2, <4>2 DEF OneEach
    <3>3. \A k \in DOMAIN b : k \in DOMAIN o \/ k = Len(o) + 1
      BY <2>1, <3>1
    <3>4. OneEach(b)
      BY <2>6, <3>1, <3>2, <3>3 DEF OneEach
    <3> QED BY <2>3, <2>7, <3>4 DEF b, a
  <2>8. CASE x \notin S
    BY <2>3, <2>6, <2>8 DEF a
  <2> QED BY <2>7, <2>8
<1> HIDE DEF Good
<1>3. Bad = {}
  <2> SUFFICES ASSUME Bad # {} PROVE FALSE
    OBVIOUS
  <2>1. Bad \subseteq Seq(Listener) /\ <<>> \notin Bad
    BY <1>1
  <2>2. PICK l \in Seq(Listener) : \E x \in Listener : l \notin Bad /\ Append(l, x) \in Bad
    BY <2>1, ShortestIn
  <2>3. PICK x \in Listener : l \notin Bad /\ Append(l, x) \in Bad
    BY <2>2
  <2> QED BY <1>2, <2>2, <2>3 DEF Good
<1>4. Good(ls)
  BY <1>3
<1> QED BY <1>4 DEF Good

(* A list of clients' listeners before those of searches.                  *)
LEMMA OneEachConcat ==
  ASSUME NEW a \in Seq(Listener), NEW b \in Seq(Listener), Owners(a) = {}, OneEach(b)
  PROVE  OneEach(a \o b)
<1> DEFINE c == a \o b
<1>1. /\ DOMAIN c = 1..Len(a) + Len(b) /\ DOMAIN a = 1..Len(a) /\ DOMAIN b = 1..Len(b)
      /\ Len(a) \in Nat /\ Len(b) \in Nat
      /\ \A i \in 1..Len(a) + Len(b) : c[i] = IF i <= Len(a) THEN a[i] ELSE b[i - Len(a)]
  BY ConcatProperties
<1> HIDE DEF c
<1>2. \A i \in DOMAIN a : a[i].owner = User
  BY DEF Owners
<1>3. \A k \in DOMAIN c : c[k].owner # User => /\ k - Len(a) \in DOMAIN b
                                               /\ c[k] = b[k - Len(a)]
  <2> SUFFICES ASSUME NEW k \in DOMAIN c, c[k].owner # User
               PROVE  k - Len(a) \in DOMAIN b /\ c[k] = b[k - Len(a)]
    OBVIOUS
  <2>1. k \in Int /\ ~(k <= Len(a))
    BY <1>1, <1>2
  <2> QED BY <1>1, <2>1
<1>4. ASSUME NEW k \in DOMAIN c, NEW l \in DOMAIN c,
             c[k].owner # User, c[k].owner = c[l].owner, c[k].kind = c[l].kind
      PROVE  k = l
  <2>1. k - Len(a) = l - Len(a)
    BY <1>3, <1>4 DEF OneEach
  <2> QED BY <1>1, <2>1
<1> QED BY <1>4 DEF OneEach, c

LEMMA OneEachOwn ==
  ASSUME NEW s \in SearchId
  PROVE  OneEach(OwnListeners(s))
<1> DEFINE own == OwnListeners(s)
<1>1. DOMAIN own = 1..3
  BY DEF OwnListeners
<1>2. own[1].kind = "tuner" /\ own[2].kind = "ready" /\ own[3].kind = "timeout"
  BY DEF OwnListeners
<1> HIDE DEF own
<1>3. \A k \in DOMAIN own : k = 1 \/ k = 2 \/ k = 3
  BY <1>1
<1>4. \A k, l \in DOMAIN own : own[k].kind = own[l].kind => k = l
  BY <1>2, <1>3
<1> QED BY <1>4 DEF OneEach, own

-----------------------------------------------------------------------------
(* Frequencies, channel numbers and decoders.                              *)

(* Terrestrial channels are in UHF (mydvb_tune_get_uhf_channel), satellite *)
(* ones above: a frequency is not 0, nor is a channel number negative.     *)
FromUhf == FStart >= 306

(* The channel numbers of a tuner: -1 before it is tuned.                  *)
Numbers(t) == {-1} \cup {ChannelNumber(TunerType[t], f) : f \in Frequencies}

TunedRight(t, r) ==
  /\ r.channel \in Numbers(t) /\ r.mydvb \in Numbers(t) \cup {NoDecoder}
  /\ r.taken => r.p \in Frequencies

ParametersInv ==
  /\ \A t \in Tuner : TunedRight(t, tune[t])
  /\ \A s \in Searching : search[s].scan.f \in Frequencies

LEMMA FrequenciesAreNumbers ==
  ASSUME NEW f \in Frequencies
  PROVE  f \in Nat /\ FStart <= f /\ f <= FEnd /\ (FromUhf => f # Unread)
BY ScanAssumption DEF Frequencies, FromUhf, Unread

LEMMA NumbersAreDecoders ==
  ASSUME FromUhf, NEW t \in Tuner, NEW n \in Numbers(t)
  PROVE  n # NoDecoder /\ <<TunerType[t], n>> \in Decoder
<1>1. CASE n = -1
  BY <1>1 DEF NoDecoder, Decoder
<1>2. CASE n # -1
  <2>1. PICK f \in Frequencies : n = ChannelNumber(TunerType[t], f)
    BY <1>2 DEF Numbers
  <2>2. f \in Nat /\ f >= 306
    BY FrequenciesAreNumbers, ScanAssumption DEF FromUhf
  <2>3. n # NoDecoder
    BY <2>1, <2>2 DEF ChannelNumber, UhfChannel, NoDecoder
  <2> QED BY <2>1, <2>3 DEF Decoder
<1> QED BY <1>1, <1>2

LEMMA RestOf ==
  ASSUME NEW a \in Int, NEW q \in Int, NEW c \in Nat \ {0}, a = c * q
  PROVE  a % c = 0
OBVIOUS

LEMMA StepLeavesRest ==
  ASSUME NEW a \in Nat, NEW c \in Nat \ {0}, a % c = 0
  PROVE  (a + c) % c = 0
<1>1. a = c * (a \div c) /\ a \div c \in Int
  OBVIOUS
<1>2. PICK q \in Int : a = c * q
  BY <1>1
<1>3. a + c = c * (q + 1) /\ q + 1 \in Int /\ a + c \in Int
  BY <1>2
<1> QED BY <1>3, RestOf

(* The scan goes from a frequency to the same or the next one.             *)
LEMMA ScanInFrequencies ==
  ASSUME NEW valid, NEW type, NEW status, NEW scan, scan.f \in Frequencies,
         ScanGoesOn(type, ScanNext(valid, type, status, scan))
  PROVE  ScanNext(valid, type, status, scan).f \in Frequencies
<1> DEFINE f == scan.f
           g == ScanNext(valid, type, status, scan).f
<1>1. f \in Nat /\ FStart <= f /\ f <= FEnd /\ (f - FStart) % FStep = 0
  BY ScanAssumption DEF Frequencies
<1>2. g = f \/ g = NextFrequency(f)
  BY DEF ScanNext
<1>3. g <= FEnd
  BY DEF ScanGoesOn
<1> HIDE DEF f, g
<1>4. CASE g = NextFrequency(f)
  <2>1. /\ FStep \in Nat \ {0} /\ FStart \in Nat /\ FreqMod \in Nat
        /\ FEnd \in Nat /\ FEnd + FStep < FreqMod
    BY ScanAssumption
  <2>2. f + FStep \in Nat /\ f + FStep < FreqMod
    BY <1>1, <2>1
  <2>3. (f + FStep) % FreqMod = f + FStep
    BY <2>1, <2>2
  <2>4. g = f + FStep
    BY <1>4, <2>3 DEF NextFrequency
  <2>5. f - FStart \in Nat
    BY <1>1, <2>1
  <2>6. ((f - FStart) + FStep) % FStep = 0
    BY <1>1, <2>1, <2>5, StepLeavesRest
  <2>7. g - FStart = (f - FStart) + FStep /\ g \in FStart..FEnd
    BY <1>1, <1>3, <2>1, <2>4
  <2>8. (g - FStart) % FStep = 0
    BY <2>6, <2>7
  <2> QED BY <2>7, <2>8 DEF Frequencies, g
<1> QED BY <1>2, <1>4 DEF f, g

LEMMA ScannedTuneRight ==
  ASSUME NEW t \in Tuner, NEW r \in TuneState, TunedRight(t, r),
         NEW f \in Frequencies, NEW taken \in BOOLEAN
  PROVE  TunedRight(t, ScannedTune(t, r, f, taken))
<1> DEFINE new == ScannedTune(t, r, f, taken)
<1>1. DOMAIN r = {"status", "references", "channel", "p", "taken", "mydvb"}
  BY DEF TuneState
<1>2. CASE TunerType[t] = "dvbc"
  BY <1>2 DEF ScannedTune
<1>3. CASE TunerType[t] # "dvbc"
  <2>1. /\ new.p = f /\ new.mydvb = r.mydvb /\ new.taken = taken
        /\ new.channel = IF taken THEN ChannelNumber(TunerType[t], f) ELSE r.channel
    BY <1>1, <1>3 DEF ScannedTune
  <2>2. ChannelNumber(TunerType[t], f) \in Numbers(t)
    BY DEF Numbers
  <2> QED BY <2>1, <2>2 DEF TunedRight
<1> QED BY <1>2, <1>3

LEMMA StoppedDecoderRight ==
  ASSUME NEW t \in Tuner, NEW r \in TuneState, TunedRight(t, r)
  PROVE  TunedRight(t, StoppedDecoder(r))
<1>1. /\ StoppedDecoder(r).channel = r.channel /\ StoppedDecoder(r).mydvb = NoDecoder
      /\ StoppedDecoder(r).p = r.p /\ StoppedDecoder(r).taken = r.taken
  BY DEF StoppedDecoder, TuneState
<1> QED BY <1>1 DEF TunedRight

LEMMA ReleasedTuneRight ==
  ASSUME NEW t \in Tuner, NEW r \in TuneState, TunedRight(t, r), r.references = 1
  PROVE  TunedRight(t, ReleasedTune(r))
<1>1. ReleasedTune(r) = [r EXCEPT !.references = 0, !.status = "NOOP",
                                  !.mydvb = NoDecoder, !.taken = FALSE]
  BY DEF ReleasedTune
<1>2. /\ ReleasedTune(r).channel = r.channel /\ ReleasedTune(r).mydvb = NoDecoder
      /\ ~ReleasedTune(r).taken
  BY <1>1 DEF TuneState
<1> QED BY <1>2 DEF TunedRight

-----------------------------------------------------------------------------
(* What a callback does to its search and its tuner, with what the         *)
(* invariant of module Search_proofs leaves out.                           *)

(* The history of a search: it does not become undisturbed again.          *)
StillDisturbed(new, old) == new.disturbed \in BOOLEAN /\ (old.disturbed => new.disturbed)

Onward(s, t) ==
  /\ \A q \in SearchId \ {s} : search'[q] = search[q]
  /\ StillDisturbed(search'[s], search[s])
  /\ search'[s].phase = "searching" => search'[s].scan.f \in Frequencies
  /\ TunedRight(t, tune'[t])

LEMMA ReachedOnward ==
  ASSUME TypeOK, NEW s \in SearchId, search[s].disturbed \in BOOLEAN
  PROVE  /\ Reached(s).scan = search[s].scan
         /\ StillDisturbed(Reached(s), search[s])
<1> DEFINE sr == search[s]
<1>1. SearchType(sr)
  BY DEF TypeOK
<1> HIDE DEF sr
<1>2. /\ Reached(s).scan = sr.scan
      /\ Reached(s).disturbed = (sr.disturbed \/ Top.tuner # sr.tuner)
  BY <1>1, SearchFields DEF Reached, sr
<1>3. Reached(s).disturbed \in BOOLEAN /\ (sr.disturbed => Reached(s).disturbed)
  BY <1>2
<1> QED BY <1>2, <1>3 DEF sr, StillDisturbed

LEMMA RecordedOnward ==
  ASSUME NEW t, NEW sr, SearchType(sr)
  PROVE  Recorded(t, sr).scan = sr.scan /\ Recorded(t, sr).disturbed = sr.disturbed
BY SearchFields DEF Recorded

LEMMA ScanOnOnward ==
  ASSUME TypeOK, NEW s \in SearchId, NEW sr, SearchType(sr), Same(sr, search[s]),
         sr.scan = search[s].scan, search[s].scan.f \in Frequencies,
         StillDisturbed(sr, search[s]),
         NEW t \in Tuner, t = search[s].tuner,
         NEW r \in TuneState, TunedRight(t, r), ScanOn(s, r, sr)
  PROVE  Onward(s, t)
<1>1. DOMAIN search = SearchId /\ sr.tuner = t /\ DOMAIN tune = Tuner
  BY DEF TypeOK, Same
<1>2. ASSUME NEW one, NEW status, Finish(s, one, status), tune' = [tune EXCEPT ![t] = r],
             DOMAIN one = DOMAIN sr, one.disturbed = sr.disturbed
      PROVE  Onward(s, t)
  <2> DEFINE new == [one EXCEPT !.phase = "reporting", !.status = status]
  <2>1. new.phase = "reporting" /\ new.disturbed = sr.disturbed
    BY <1>2, SearchFields
  <2>2. search' = [search EXCEPT ![s] = new]
    BY <1>2 DEF Finish
  <2> HIDE DEF new
  <2>3. search'[s] = new /\ \A q \in SearchId \ {s} : search'[q] = search[q]
    BY <1>1, <2>2
  <2>4. tune'[t] = r
    BY <1>1, <1>2
  <2> QED BY <2>1, <2>3, <2>4 DEF Onward, StillDisturbed
<1>3. CASE sr.status \in Wish
  <2>1. Finish(s, sr, sr.status) /\ tune' = [tune EXCEPT ![t] = r]
    BY <1>1, <1>3 DEF ScanOn
  <2> QED BY <1>2, <2>1
<1>4. CASE sr.status \notin Wish
  <2> DEFINE next == ScanNext(Valid[t], TunerType[t], r.status, sr.scan)
  <2>1. TryNext(s, r, sr)
    BY <1>4 DEF ScanOn
  <2>2. CASE ScanGoesOn(TunerType[t], next)
    <3>1. next.f \in Frequencies
      BY <2>2, ScanInFrequencies
    <3>2. PICK taken \in BOOLEAN :
            tune' = [tune EXCEPT ![t] = ScannedTune(t, r, next.f, taken)]
      BY <1>1, <2>1, <2>2 DEF TryNext
    <3>3. search' = [search EXCEPT ![s] = [sr EXCEPT !.scan = next,
                                 !.tried = @ \cup {<<next.f, next.d>>}]]
      BY <1>1, <2>1, <2>2 DEF TryNext
    <3> HIDE DEF next
    <3> DEFINE new == [sr EXCEPT !.scan = next, !.tried = @ \cup {<<next.f, next.d>>}]
    <3>4. new.scan = next /\ new.disturbed = sr.disturbed
      BY SearchFields
    <3> HIDE DEF new
    <3>5. search'[s] = new /\ \A q \in SearchId \ {s} : search'[q] = search[q]
      BY <1>1, <3>3 DEF new
    <3>6. TunedRight(t, tune'[t])
      <4>1. TunedRight(t, ScannedTune(t, r, next.f, taken))
        BY <3>1, ScannedTuneRight
      <4> QED BY <1>1, <3>2, <4>1
    <3> QED BY <3>1, <3>4, <3>5, <3>6 DEF Onward, StillDisturbed
  <2>3. CASE ~ScanGoesOn(TunerType[t], next)
    <3>1. /\ Finish(s, [sr EXCEPT !.scan = next], "COMPLETED")
          /\ tune' = [tune EXCEPT ![t] = r]
      BY <1>1, <2>1, <2>3 DEF TryNext
    <3> HIDE DEF next
    <3>2. LET one == [sr EXCEPT !.scan = next] IN
            DOMAIN one = DOMAIN sr /\ one.disturbed = sr.disturbed
      BY SearchFields
    <3> QED BY <1>2, <3>1, <3>2
  <2> QED BY <2>2, <2>3
<1> QED BY <1>3, <1>4

-----------------------------------------------------------------------------
(* Which events are inside which: READY in that of a tuner whose callback  *)
(* has started the decoder, the report of a search in that which ended it. *)

Joined(f, g) ==
  \/ f.at = "done" /\ f.kind = "tuner" /\ g.kind = "ready"
  \/ f.at = "finishing" /\ f.kind # "search" /\ g.kind = "search"

Nested(stack) ==
  /\ \A n \in DOMAIN stack : n + 1 \in DOMAIN stack => Joined(stack[n], stack[n + 1])
  /\ \A n \in DOMAIN stack : stack[n].kind = "search" => stack[n].at = "user"

(* A callback that is about to run is that of the listener of its frame.   *)
Called(stack, ls) ==
  \A n \in DOMAIN stack : stack[n].at = "callback" =>
    /\ stack[n].i \in DOMAIN ls
    /\ ls[stack[n].i].owner = stack[n].search
    /\ ls[stack[n].i].kind = stack[n].kind

ReadyIn(stack) == {n \in DOMAIN stack : stack[n].kind = "ready" /\ stack[n].tuner \in Tuner}

(* Only the report of a search is ever above a READY event.                *)
LEMMA ReadyOnTop ==
  ASSUME NEW stack \in Seq(Frame), Nested(stack), NEW n \in ReadyIn(stack)
  PROVE  \/ n = Len(stack)
         \/ n + 1 = Len(stack) /\ stack[n].at = "finishing" /\ stack[n + 1].kind = "search"
<1>1. /\ DOMAIN stack = 1..Len(stack) /\ Len(stack) \in Nat
      /\ n \in DOMAIN stack /\ stack[n].kind = "ready"
  BY DEF ReadyIn
<1>2. ASSUME n # Len(stack)
      PROVE  n + 1 = Len(stack) /\ stack[n].at = "finishing" /\ stack[n + 1].kind = "search"
  <2>1. n + 1 \in DOMAIN stack
    BY <1>1, <1>2
  <2>2. Joined(stack[n], stack[n + 1])
    BY <1>1, <2>1 DEF Nested
  <2>3. stack[n].at = "finishing" /\ stack[n + 1].kind = "search"
    BY <1>1, <2>2 DEF Joined
  <2>4. (n + 1) + 1 \notin DOMAIN stack
    <3> SUFFICES ASSUME (n + 1) + 1 \in DOMAIN stack PROVE FALSE
      OBVIOUS
    <3>1. Joined(stack[n + 1], stack[(n + 1) + 1])
      BY <2>1 DEF Nested
    <3> QED BY <2>3, <3>1 DEF Joined
  <2> QED BY <1>1, <2>1, <2>3, <2>4
<1> QED BY <1>2

LEMMA EnteredFields ==
  ASSUME NEW ls \in Seq(Listener), OnlyClientsKept(ls), NEW e \in Frame, NEW i \in Nat \ {0},
         NEW k \in FirstFrom(ls, e.kind, i)
  PROVE  LET f == Entered(ls, e, k) IN
           /\ k \in DOMAIN ls /\ i <= k /\ ls[k].kind = e.kind
           /\ f.i = k /\ f.search = ls[k].owner /\ f.kind = e.kind /\ f.tuner = e.tuner
           /\ f.at = IF ls[k].owner = User THEN "user" ELSE "callback"
           /\ e.kind = "search" => f.at = "user"
<1> DEFINE f == Entered(ls, e, k)
<1>1. k \in DOMAIN ls /\ i <= k /\ ls[k].kind = e.kind
  BY DEF FirstFrom
<1>2. /\ f.i = k /\ f.search = ls[k].owner /\ f.kind = e.kind /\ f.tuner = e.tuner
      /\ f.at = IF ls[k].owner = User THEN "user" ELSE "callback"
  BY DEF Entered, Frame
<1>3. e.kind = "search" => ls[k].owner = User
  BY <1>1 DEF OnlyClientsKept, KeptKinds
<1> QED BY <1>1, <1>2, <1>3

(* One more frame, in one that may have it.                                *)
LEMMA NestedAppend ==
  ASSUME NEW ls \in Seq(Listener), OnlyClientsKept(ls), NEW stack \in Seq(Frame), Nested(stack),
         \A n \in DOMAIN stack : stack[n].at # "callback",
         NEW e \in Frame, stack # <<>> => Joined(stack[Len(stack)], e),
         NEW i \in Nat \ {0}, NEW k \in FirstFrom(ls, e.kind, i)
  PROVE  LET new == Append(stack, Entered(ls, e, k)) IN
           /\ Nested(new) /\ Called(new, ls)
           /\ Len(new) = Len(stack) + 1 /\ new[Len(new)] = Entered(ls, e, k)
           /\ \A n \in DOMAIN new :
                \/ n \in DOMAIN stack /\ new[n] = stack[n]
                \/ n = Len(new) /\ new[n].kind = e.kind /\ new[n].tuner = e.tuner
<1> DEFINE f == Entered(ls, e, k)
           new == Append(stack, f)
<1>1. /\ k \in DOMAIN ls /\ ls[k].kind = e.kind
      /\ f.i = k /\ f.search = ls[k].owner /\ f.kind = e.kind /\ f.tuner = e.tuner
      /\ e.kind = "search" => f.at = "user"
  BY EnteredFields
<1>2. f \in Frame
  BY EnteredFrame
<1> HIDE DEF f
<1>3. /\ DOMAIN new = 1..Len(stack) + 1 /\ DOMAIN stack = 1..Len(stack) /\ Len(stack) \in Nat
      /\ Len(new) = Len(stack) + 1 /\ new[Len(stack) + 1] = f
      /\ \A n \in DOMAIN stack : new[n] = stack[n]
  BY <1>2
<1> HIDE DEF new
<1>4. \A n \in DOMAIN new : n \in DOMAIN stack \/ n = Len(stack) + 1
  BY <1>3
<1>5. ASSUME NEW n \in DOMAIN new, n + 1 \in DOMAIN new PROVE Joined(new[n], new[n + 1])
  <2>1. n \in DOMAIN stack /\ n \in Nat /\ stack # <<>>
    BY <1>3, <1>5
  <2>2. CASE n = Len(stack)
    <3>1. Joined(stack[n], f)
      BY <1>1, <2>1, <2>2 DEF Joined
    <3> QED BY <1>3, <2>1, <2>2, <3>1
  <2>3. CASE n # Len(stack)
    <3>1. n + 1 \in DOMAIN stack
      BY <1>3, <2>1, <2>3
    <3> QED BY <1>3, <2>1, <3>1 DEF Nested
  <2> QED BY <2>2, <2>3
<1>6. \A n \in DOMAIN new : new[n].kind = "search" => new[n].at = "user"
  BY <1>1, <1>3, <1>4 DEF Nested
<1>7. Called(new, ls)
  BY <1>1, <1>3, <1>4 DEF Called
<1> QED BY <1>1, <1>3, <1>4, <1>5, <1>6, <1>7 DEF Nested, new, f

LEMMA NestedNotified ==
  ASSUME NEW ls \in Seq(Listener), OnlyClientsKept(ls), NEW stack \in Seq(Frame), Nested(stack),
         \A n \in DOMAIN stack : stack[n].at # "callback",
         NEW e \in Frame, stack # <<>> => Joined(stack[Len(stack)], e)
  PROVE  LET new == Notified(ls, stack, e) IN
           /\ Nested(new) /\ Called(new, ls)
           /\ \A n \in DOMAIN new :
                \/ n \in DOMAIN stack /\ new[n] = stack[n]
                \/ new[n].kind = e.kind /\ new[n].tuner = e.tuner
<1> DEFINE first == FirstFrom(ls, e.kind, 1)
           k == CHOOSE k \in first : TRUE
<1>1. CASE first = {}
  BY <1>1 DEF Notified, Called
<1>2. CASE first # {}
  <2>1. k \in first
    BY <1>2
  <2>2. Notified(ls, stack, e) = Append(stack, Entered(ls, e, k))
    BY <1>2 DEF Notified
  <2> HIDE DEF k
  <2> QED BY <2>1, <2>2, NestedAppend
<1> QED BY <1>1, <1>2

(* The frame on top, as its callback leaves it.                            *)
LEMMA NestedReturned ==
  ASSUME TypeOK, Nested(events), events # <<>>, Top.kind # "search",
         \A n \in DOMAIN events : events[n].at = "callback" => n = Len(events),
         NEW at \in {"done", "finishing"}
  PROVE  LET new == Returned(at) IN
           /\ new \in Seq(Frame) /\ new # <<>> /\ Len(new) = Len(events) /\ Nested(new)
           /\ DOMAIN new = DOMAIN events /\ Len(events) \in DOMAIN events
           /\ \A n \in DOMAIN new : new[n].at # "callback"
           /\ \A n \in DOMAIN new :
                /\ new[n].kind = events[n].kind /\ new[n].tuner = events[n].tuner
                /\ new[n].i = events[n].i
                /\ n # Len(events) => new[n] = events[n]
           /\ new[Len(events)].at = at
<1> DEFINE new == Returned(at)
           m == Len(events)
<1>1. /\ events \in Seq(Frame) /\ m \in Nat /\ m > 0 /\ DOMAIN events = 1..m
  BY DEF TypeOK
<1>2. m \in DOMAIN events /\ events[m] \in Frame
  BY <1>1
<1>3. /\ [events[m] EXCEPT !.at = at] \in Frame
      /\ [events[m] EXCEPT !.at = at].kind = events[m].kind
      /\ [events[m] EXCEPT !.at = at].tuner = events[m].tuner
      /\ [events[m] EXCEPT !.at = at].i = events[m].i
      /\ [events[m] EXCEPT !.at = at].at = at
  BY <1>2 DEF Frame
<1>4. /\ new \in Seq(Frame) /\ DOMAIN new = DOMAIN events /\ Len(new) = m
      /\ new[m] = [events[m] EXCEPT !.at = at]
      /\ \A n \in DOMAIN events : n # m => new[n] = events[n]
  BY <1>1, <1>2, <1>3 DEF Returned
<1> HIDE DEF new
<1>5. \A n \in DOMAIN new :
        /\ new[n].kind = events[n].kind /\ new[n].tuner = events[n].tuner
        /\ new[n].i = events[n].i
        /\ n # m => new[n] = events[n]
  BY <1>3, <1>4
<1>6. new[m].at = at /\ \A n \in DOMAIN new : new[n].at # "callback"
  BY <1>3, <1>4
<1>7. ASSUME NEW n \in DOMAIN new, n + 1 \in DOMAIN new PROVE Joined(new[n], new[n + 1])
  <2>1. n # m /\ Joined(events[n], events[n + 1])
    BY <1>1, <1>4, <1>7 DEF Nested
  <2> QED BY <1>4, <1>5, <1>7, <2>1 DEF Joined
<1>8. \A n \in DOMAIN new : new[n].kind = "search" => new[n].at = "user"
  BY <1>4, <1>5 DEF Nested, Top
<1> QED BY <1>1, <1>2, <1>4, <1>5, <1>6, <1>7, <1>8 DEF Nested, new

-----------------------------------------------------------------------------
(* The inductive invariant.                                                *)

OnceInv == OneEach(listeners) /\ \A s \in Searching : OneEach(search[s].saved)

(* A search whose listeners another one has saved has been disturbed.      *)
DisturbedInv ==
  /\ \A s \in SearchId : search[s].disturbed \in BOOLEAN
  /\ \A s \in Searching : \A q \in Owners(search[s].saved) : search[q].disturbed

ShapeInv == Nested(events) /\ Called(events, listeners)

(* Nobody will be told of the events that are being notified.              *)
Doomed == ~event_propagation /\ \A n \in DOMAIN events : events[n].at = "done"

(* The loop of an event is past the READY listener of a search.            *)
Told(ls, s, i) == \A k \in DOMAIN ls : ls[k].owner = s /\ ls[k].kind = "ready" => k <= i

(* A READY event of the tuner of an undisturbed search: the tables are     *)
(* there, or it has been told.                                             *)
ReadyInv ==
  \A n \in ReadyIn(events) :
    \/ Doomed
    \/ /\ Held(events[n].tuner)
       /\ \A s \in Searching :
            ~search[s].disturbed /\ search[s].tuner = events[n].tuner
              => \/ HasTables(events[n].tuner)
                 \/ events[n].at # "callback" /\ Told(listeners, s, events[n].i)

TablesInv == ParametersInv /\ OnceInv /\ DisturbedInv /\ ShapeInv /\ ReadyInv

(* The lists and stacks of the next state.                                 *)
LEMMA PrimedTables ==
  /\ OneEach(listeners)' <=> OneEach(listeners')
  /\ \A s : OneEach(search[s].saved)' <=> OneEach(search'[s].saved)
  /\ Nested(events)' <=> Nested(events')
  /\ Called(events, listeners)' <=> Called(events', listeners')
  /\ ReadyIn(events)' = ReadyIn(events')
  /\ \A s, i : Told(listeners, s, i)' <=> Told(listeners', s, i)
  /\ \A t : TunedRight(t, tune[t])' <=> TunedRight(t, tune'[t])
<1>1. /\ OneEach(listeners)' <=> OneEach(listeners')
      /\ \A s : OneEach(search[s].saved)' <=> OneEach(search'[s].saved)
      /\ \A s, i : Told(listeners, s, i)' <=> Told(listeners', s, i)
  BY DEF OneEach, Told
<1>2. /\ Nested(events)' <=> Nested(events')
      /\ Called(events, listeners)' <=> Called(events', listeners')
  BY DEF Nested, Called, Joined
<1>3. ReadyIn(events)' = ReadyIn(events')
  BY DEF ReadyIn
<1>4. \A t : TunedRight(t, tune[t])' <=> TunedRight(t, tune'[t])
  BY DEF TunedRight, Numbers, ChannelNumber, UhfChannel, Frequencies
<1> QED BY <1>1, <1>2, <1>3, <1>4

(* An undisturbed search is the one that has its listeners in the engine.  *)
LEMMA UndisturbedInEngine ==
  ASSUME RestoreInv, DisturbedInv, NEW q \in Searching, ~search[q].disturbed
  PROVE  q \in Owners(listeners) /\ \A p \in Owners(listeners) : p = q
<1>1. q \in Owners(listeners)
  BY DEF RestoreInv, Chained, DisturbedInv
<1> QED BY <1>1 DEF RestoreInv, Chained, Alone

(* Steps that leave the lists and the history of searches alone.           *)
LEMMA HistoryUntouched ==
  ASSUME SearchInv, OnceInv, DisturbedInv, UNCHANGED listeners, Searching' = Searching,
         \A s \in Searching : search'[s].saved = search[s].saved,
         \A s \in SearchId : StillDisturbed(search'[s], search[s])
  PROVE  OnceInv' /\ DisturbedInv'
<1>1. OnceInv'
  BY PrimedTables DEF OnceInv
<1>2. \A s \in Searching : Owners(search[s].saved)' = Owners(search[s].saved)
  BY PrimedLists
<1>3. \A s \in SearchId : search[s].disturbed => search'[s].disturbed
  BY DEF StillDisturbed
<1>4. \A s \in Searching : \A q \in Owners(search[s].saved) : search'[q].disturbed
  <2> SUFFICES ASSUME NEW s \in Searching, NEW q \in Owners(search[s].saved)
               PROVE  search'[q].disturbed
    OBVIOUS
  <2>1. search[q].disturbed /\ q \in SearchId
    BY DEF DisturbedInv, SearchInv, ListenersInv, Searching
  <2> QED BY <1>3, <2>1
<1> QED BY <1>1, <1>2, <1>4 DEF DisturbedInv, StillDisturbed

-----------------------------------------------------------------------------
(* The loop of the dispatcher and the main loop.                           *)

LEMMA SameTuning ==
  ASSUME ParametersInv, UNCHANGED <<tune, search>>
  PROVE  ParametersInv'
<1>1. Searching' = Searching
  BY DEF Searching
<1> QED BY <1>1, PrimedTables DEF ParametersInv, Frequencies

LEMMA NextListenerTables ==
  ASSUME RestoreInv, TablesInv, NextListener
  PROVE  TablesInv'
<1> DEFINE front == Front(events)
           next == FirstFrom(listeners, Top.kind, Top.i + 1)
           k == CHOOSE k \in next : TRUE
           f == Entered(listeners, Top, k)
<1>1. /\ events # <<>> /\ Top.at \in {"user", "done"}
      /\ events \in Seq(Frame) /\ listeners \in Seq(Listener) /\ OnlyClientsKept(listeners)
      /\ Len(events) \in DOMAIN events /\ Top = events[Len(events)] /\ Top \in Frame
      /\ UNCHANGED <<listeners, event_propagation, tune, tables, search>>
  BY DEF RestoreInv, SearchInv, NextListener, TypeOK, ListenersInv, Top
<1>2. Top.kind \in Kind /\ Top.i \in Nat
  BY <1>1 DEF Frame
<1>3. /\ front \in Seq(Frame) /\ Len(front) = Len(events) - 1 /\ Len(events) \in Nat
      /\ \A n \in DOMAIN front : n \in DOMAIN events /\ n # Len(events) /\ front[n] = events[n]
  BY <1>1, FrontFrames
<1>4. Searching' = Searching /\ \A t \in Tuner : (Held(t))' <=> Held(t)
  BY <1>1 DEF Searching, Held, Active
<1>5. \A t : HasTables(t)' <=> HasTables(t)
  BY <1>1 DEF HasTables, DecoderOf
<1>6. ParametersInv' /\ OnceInv' /\ DisturbedInv'
  <2>1. \A s \in SearchId : StillDisturbed(search'[s], search[s])
    BY <1>1 DEF TablesInv, DisturbedInv, StillDisturbed
  <2> QED BY <1>1, <1>4, <2>1, SameTuning, HistoryUntouched DEF TablesInv, RestoreInv
<1>7. /\ Nested(events) /\ Nested(front)
      /\ \A n \in DOMAIN events : events[n].at # "callback"
      /\ \A n \in DOMAIN front : front[n].at # "callback"
  <2>1. \A n \in DOMAIN events : events[n].at # "callback"
    BY <1>1 DEF RestoreInv, SearchInv, EventsInv, StackInv
  <2>2. Nested(events)
    BY DEF TablesInv, ShapeInv
  <2>3. \A n \in DOMAIN front : n + 1 \in DOMAIN front => n + 1 \in DOMAIN events
    BY <1>1, <1>3
  <2> HIDE DEF front
  <2>4. Nested(front)
    BY <1>3, <2>2, <2>3 DEF Nested
  <2> QED BY <1>3, <2>1, <2>2, <2>4
(* A frame that was there. *)
<1>8. ASSUME NEW n \in ReadyIn(events), event_propagation => n # Len(events),
             n \in DOMAIN events', events'[n] = events[n],
             ~event_propagation => \A m \in DOMAIN events' : m \in DOMAIN events /\ events'[m] = events[m]
      PROVE  (\/ Doomed
              \/ /\ Held(events[n].tuner)
                 /\ \A s \in Searching :
                      ~search[s].disturbed /\ search[s].tuner = events[n].tuner
                        => \/ HasTables(events[n].tuner)
                           \/ events[n].at # "callback" /\ Told(listeners, s, events[n].i))'
  <2>1. events[n].tuner \in Tuner
    BY DEF ReadyIn
  <2>2. CASE Doomed
    BY <1>1, <1>8, <2>2 DEF Doomed
  <2>3. CASE ~Doomed
    BY <1>1, <1>4, <1>5, <1>8, <2>1, <2>3, PrimedTables DEF TablesInv, ReadyInv
  <2> QED BY <2>2, <2>3
<1>9. CASE ~event_propagation \/ next = {}
  <2>1. events' = front
    BY <1>9 DEF NextListener
  <2>2. ShapeInv'
    <3>1. Called(front, listeners')
      BY <1>7 DEF Called
    <3> QED BY <1>7, <2>1, <3>1, PrimedTables DEF ShapeInv
  <2>3. ReadyIn(events') \subseteq ReadyIn(events)
    BY <1>3, <2>1 DEF ReadyIn
  <2>4. ReadyInv'
    <3>1. \A n \in ReadyIn(events') : n \in DOMAIN events'
      BY DEF ReadyIn
    <3> QED BY <1>3, <1>8, <2>1, <2>3, <3>1, PrimedTables DEF ReadyInv
  <2> QED BY <1>6, <2>2, <2>4 DEF TablesInv
<1>10. CASE event_propagation /\ next # {}
  <2>1. k \in next /\ events' = Append(front, f)
    BY <1>10 DEF NextListener
  <2>2. /\ k \in DOMAIN listeners /\ Top.i + 1 <= k /\ listeners[k].kind = Top.kind
        /\ f.i = k /\ f.search = listeners[k].owner /\ f.kind = Top.kind /\ f.tuner = Top.tuner
        /\ f.at = IF listeners[k].owner = User THEN "user" ELSE "callback"
    BY <1>1, <1>2, <2>1, EnteredFields
  <2>3. front # <<>> => Joined(front[Len(front)], Top)
    <3> SUFFICES ASSUME front # <<>> PROVE Joined(front[Len(front)], Top)
      OBVIOUS
    <3>1. Len(front) \in DOMAIN front
      BY <1>3
    <3>2. Len(front) \in DOMAIN events /\ Len(front) + 1 = Len(events)
      BY <1>3, <3>1
    <3>3. Joined(events[Len(front)], events[Len(front) + 1])
      BY <1>1, <1>7, <3>2 DEF Nested
    <3> QED BY <1>1, <1>3, <3>1, <3>2, <3>3
  <2> HIDE DEF f, k, front, next
  <2>4. /\ Nested(events') /\ Called(events', listeners)
        /\ Len(events') = Len(events) /\ events'[Len(events)] = f
        /\ \A n \in DOMAIN events' : (n \in DOMAIN front /\ events'[n] = front[n]) \/ n = Len(events)
    <3>1. /\ Nested(Append(front, f)) /\ Called(Append(front, f), listeners)
          /\ Len(Append(front, f)) = Len(front) + 1
          /\ Append(front, f)[Len(Append(front, f))] = f
          /\ \A n \in DOMAIN Append(front, f) :
               \/ n \in DOMAIN front /\ Append(front, f)[n] = front[n]
               \/ n = Len(Append(front, f))
      <4>1. Top.i + 1 \in Nat \ {0}
        BY <1>2
      <4> QED BY <1>1, <1>3, <1>7, <2>1, <2>3, <4>1, NestedAppend DEF f, next
    <3> QED BY <1>3, <2>1, <3>1
  <2>5. ShapeInv'
    BY <1>1, <2>4, PrimedTables DEF ShapeInv
  <2>6. ASSUME NEW n \in ReadyIn(events'), n = Len(events)
        PROVE  /\ n \in ReadyIn(events) /\ ~Doomed
               /\ \A s \in Searching :
                    ~search[s].disturbed /\ search[s].tuner = f.tuner
                      => HasTables(f.tuner) \/ (f.at # "callback" /\ Told(listeners, s, k))
    <3>1. n \in ReadyIn(events)
      BY <1>1, <2>2, <2>4, <2>6 DEF ReadyIn
    <3>2. ~Doomed
      BY <1>10 DEF Doomed
    <3>3. ASSUME NEW s \in Searching, ~search[s].disturbed, search[s].tuner = f.tuner,
                 ~HasTables(f.tuner)
          PROVE  f.at # "callback" /\ Told(listeners, s, k)
      <4>1. Told(listeners, s, Top.i)
        BY <1>1, <2>2, <2>6, <3>1, <3>2, <3>3 DEF TablesInv, ReadyInv
      <4>2. Told(listeners, s, k)
        BY <1>1, <1>2, <2>2, <4>1 DEF Told
      <4>3. listeners[k].owner # s
        <5>1. Top.kind = "ready"
          BY <1>1, <2>6, <3>1 DEF ReadyIn
        <5> QED BY <1>1, <1>2, <2>2, <4>1, <5>1 DEF Told
      <4>4. listeners[k].owner # User => listeners[k].owner \in Owners(listeners)
        BY <2>2 DEF Owners
      <4>5. listeners[k].owner = User
        BY <3>3, <4>3, <4>4, UndisturbedInEngine DEF TablesInv
      <4> QED BY <2>2, <4>2, <4>5
    <3> QED BY <3>1, <3>2, <3>3
  <2>7. ReadyInv'
    <3> SUFFICES ASSUME NEW n \in ReadyIn(events')
                 PROVE  (\/ Doomed
                         \/ /\ Held(events[n].tuner)
                            /\ \A s \in Searching :
                                 ~search[s].disturbed /\ search[s].tuner = events[n].tuner
                                   => \/ HasTables(events[n].tuner)
                                      \/ events[n].at # "callback" /\ Told(listeners, s, events[n].i))'
      BY PrimedTables DEF ReadyInv
    <3>1. CASE n = Len(events)
      <4>1. Held(f.tuner) /\ f.tuner \in Tuner
        BY <1>1, <2>2, <2>6, <3>1 DEF TablesInv, ReadyInv, ReadyIn
      <4> QED BY <1>1, <1>4, <1>5, <2>2, <2>4, <2>6, <3>1, <4>1, PrimedTables
    <3>2. CASE n # Len(events)
      <4>1. n \in DOMAIN front /\ events'[n] = front[n] /\ n \in DOMAIN events'
        BY <2>4, <3>2 DEF ReadyIn
      <4>2. n \in ReadyIn(events) /\ events'[n] = events[n]
        BY <1>3, <4>1 DEF ReadyIn, front
      <4> QED BY <1>8, <1>10, <3>2, <4>1, <4>2
    <3> QED BY <3>1, <3>2
  <2> QED BY <1>6, <2>5, <2>7 DEF TablesInv
<1> QED BY <1>9, <1>10

(* An event of the main loop: of READY ones the decoder has its tables.    *)
LEMMA MainLoopEventTables ==
  ASSUME RestoreInv, TablesInv, InMainLoop, NEW e \in Frame, MainLoopEvent(e),
         SearchesLeft, ParametersInv',
         e.kind = "ready" /\ e.tuner \in Tuner => Held(e.tuner) /\ HasTables(e.tuner)'
  PROVE  TablesInv'
<1>1. /\ events' = Notified(listeners, <<>>, e)
      /\ UNCHANGED listeners
      /\ listeners \in Seq(Listener) /\ OnlyClientsKept(listeners)
  BY DEF InMainLoop, MainLoopEvent, RestoreInv, SearchInv, TypeOK, ListenersInv
<1>2. Searching' = Searching /\ \A t \in Tuner : (Held(t))' <=> Held(t)
  BY DEF SearchesLeft, SearchesSame, Unchanged, Same, Searching, Held, Active
<1>s. \A s \in SearchId : /\ search'[s].saved = search[s].saved
                          /\ search'[s].tuner = search[s].tuner
                          /\ search'[s].disturbed = search[s].disturbed
  BY DEF SearchesLeft, SearchesSame, Unchanged, Same
<1>3. OnceInv' /\ DisturbedInv'
  <2>1. \A s \in SearchId : StillDisturbed(search'[s], search[s])
    BY <1>s DEF TablesInv, DisturbedInv, StillDisturbed
  <2> QED BY <1>1, <1>2, <1>s, <2>1, HistoryUntouched DEF TablesInv, RestoreInv, Searching
<1>4. /\ Nested(events') /\ Called(events', listeners)
      /\ \A n \in DOMAIN events' : events'[n].kind = e.kind /\ events'[n].tuner = e.tuner
  <2>1. <<>> \in Seq(Frame) /\ DOMAIN <<>> = {} /\ Nested(<<>>)
    BY DEF Nested
  <2> QED BY <1>1, <2>1, NestedNotified
<1>5. ShapeInv'
  BY <1>1, <1>4, PrimedTables DEF ShapeInv
<1>6. ReadyInv'
  <2> SUFFICES ASSUME NEW n \in ReadyIn(events')
               PROVE  (/\ Held(events[n].tuner)
                       /\ HasTables(events[n].tuner))'
    BY PrimedTables DEF ReadyInv
  <2>1. events'[n].tuner = e.tuner /\ e.kind = "ready" /\ e.tuner \in Tuner
    BY <1>4 DEF ReadyIn
  <2> QED BY <1>2, <2>1 DEF Held, HasTables, DecoderOf
<1> QED BY <1>3, <1>5, <1>6 DEF TablesInv

LEMMA MainLoopTables ==
  ASSUME FromUhf, RestoreInv, TablesInv, MainLoop
  PROVE  TablesInv'
<1>1. /\ {"tuner", "ready", "timeout"} \subseteq Kind /\ tables \in [Decoder -> Nat]
      /\ tune \in [Tuner -> TuneState]
  BY DEF Kind, RestoreInv, SearchInv, TypeOK
<1>s. SearchesLeft
  BY MainLoopLeaves DEF RestoreInv, SearchInv
<1>2. ASSUME NEW t \in Tuner, NEW status, tune' = [tune EXCEPT ![t].status = status]
      PROVE  ParametersInv'
  <2>1. \A u \in Tuner : /\ tune'[u].channel = tune[u].channel /\ tune'[u].mydvb = tune[u].mydvb
                         /\ tune'[u].taken = tune[u].taken /\ tune'[u].p = tune[u].p
    <3>1. tune[t] \in TuneState
      BY <1>1
    <3> QED BY <1>1, <1>2, <3>1 DEF TuneState
  <2>2. /\ Searching' = Searching
        /\ \A s \in Searching : search'[s].scan.f = search[s].scan.f
    BY <1>s DEF SearchesLeft, SearchesSame, Unchanged, Same, Searching
  <2>3. \A u \in Tuner : TunedRight(u, tune'[u])
    BY <2>1 DEF TablesInv, ParametersInv, TunedRight
  <2> QED BY <2>2, <2>3, PrimedTables DEF TablesInv, ParametersInv, Frequencies
<1>3. ASSUME NEW t \in Tuner, Lock(t) PROVE TablesInv'
  <2>1. Event("tuner", t, "LOCK", {}) \in Frame /\ Event("tuner", t, "LOCK", {}).kind = "tuner"
    BY <1>1, EventFrame DEF Event
  <2>2. ParametersInv'
    BY <1>2, <1>3 DEF Lock
  <2> QED BY <1>s, <1>3, <2>1, <2>2, MainLoopEventTables DEF Lock
<1>4. ASSUME NEW t \in Tuner, Fail(t) PROVE TablesInv'
  <2>1. Event("tuner", t, "FAILED", {}) \in Frame /\ Event("tuner", t, "FAILED", {}).kind = "tuner"
    BY <1>1, EventFrame DEF Event
  <2>2. ParametersInv'
    BY <1>2, <1>4 DEF Fail
  <2> QED BY <1>s, <1>4, <2>1, <2>2, MainLoopEventTables DEF Fail
<1>5. ASSUME UNCHANGED <<tune, search>> PROVE ParametersInv'
  BY <1>5, SameTuning DEF TablesInv
<1>6. ASSUME NEW t \in Tuner, ReadTables(t) PROVE TablesInv'
  <2> DEFINE e == Event("ready", t, None, {})
  <2>1. e \in Frame /\ e.tuner = t
    BY <1>1, EventFrame DEF Event
  <2> HIDE DEF e
  <2>2. /\ tune[t].mydvb # NoDecoder /\ tune[t].taken /\ tune' = tune
        /\ tables' = [tables EXCEPT ![DecoderOf(t)] = tune[t].p]
        /\ InMainLoop /\ MainLoopEvent(e) /\ search' = search
    BY <1>6 DEF ReadTables, MainLoopEvent, e
  <2>3. Held(t)
    BY <2>2 DEF RestoreInv, SearchInv, TunersInv
  <2>4. tune[t].mydvb \in Numbers(t) /\ tune[t].p \in Frequencies
    BY <2>2 DEF TablesInv, ParametersInv, TunedRight
  <2>5. DecoderOf(t) \in Decoder /\ tune[t].p # Unread
    BY <2>4, NumbersAreDecoders, FrequenciesAreNumbers DEF DecoderOf
  <2>6. HasTables(t)'
    <3>1. tables'[DecoderOf(t)] = tune[t].p
      BY <1>1, <2>2, <2>5
    <3> QED BY <2>2, <2>5, <3>1 DEF HasTables, DecoderOf
  <2>7. HasTables(e.tuner)'
    <3>1. e' = e
      BY <2>1 DEF e, Event
    <3> QED BY <2>1, <2>6, <3>1
  <2> QED BY <1>s, <1>5, <2>1, <2>2, <2>3, <2>7, MainLoopEventTables
<1>7. ASSUME NEW late \in SUBSET Locked, Second(late) PROVE TablesInv'
  <2>1. /\ Event("timeout", NoTuner, None, late) \in Frame
        /\ Event("timeout", NoTuner, None, late).kind = "timeout"
    BY <1>1, EventFrame DEF Locked, Event
  <2> QED BY <1>s, <1>5, <1>7, <2>1, MainLoopEventTables DEF Second
<1>8. CASE OtherEvent
  <2>1. /\ \A status \in {"TRYING", "LOCK", "FAILED"} :
             /\ Event("tuner", Other, status, {}) \in Frame
             /\ Event("tuner", Other, status, {}).kind = "tuner"
        /\ Event("ready", Other, None, {}) \in Frame
        /\ Event("ready", Other, None, {}).tuner = Other
    BY <1>1, EventFrame DEF Event
  <2>2. Other \notin Tuner
    BY SearchAssumption DEF Other, Tuner
  <2> QED BY <1>s, <1>5, <1>8, <2>1, <2>2, MainLoopEventTables DEF OtherEvent
<1> QED BY <1>3, <1>4, <1>6, <1>7, <1>8 DEF MainLoop

-----------------------------------------------------------------------------
(* Clients.                                                                *)

(* Client code runs, so an event that is being notified is not doomed; the *)
(* listeners it registers are behind, those it removes are not searches'.  *)
LEMMA ClientTables ==
  ASSUME RestoreInv, TablesInv, ClientTurn, OneEach(listeners'),
         UNCHANGED <<events, tune, tables, search>>,
         \A k \in DOMAIN listeners' : listeners'[k].owner # User
           => \E i \in DOMAIN listeners : k <= i /\ listeners'[k] = listeners[i],
         DOMAIN listeners' \subseteq Nat /\ DOMAIN listeners \subseteq Nat
  PROVE  TablesInv'
<1>1. Searching' = Searching /\ \A t \in Tuner : (Held(t))' <=> Held(t)
  BY DEF Searching, Held, Active
<1>2. \A t : HasTables(t)' <=> HasTables(t)
  BY DEF HasTables, DecoderOf
<1>3. ParametersInv'
  BY SameTuning DEF TablesInv
<1>4. OnceInv'
  BY <1>1, PrimedTables DEF TablesInv, OnceInv
<1>5. DisturbedInv'
  <2>1. \A s \in Searching : Owners(search[s].saved)' = Owners(search[s].saved)
    BY PrimedLists
  <2> QED BY <1>1, <2>1 DEF TablesInv, DisturbedInv
<1>6. \A n \in DOMAIN events : events[n].at # "callback"
  <2>1. events = <<>> \/ Top.at = "user"
    BY DEF ClientTurn
  <2> QED BY <2>1 DEF RestoreInv, SearchInv, EventsInv, StackInv, Top
<1>7. ShapeInv'
  <2>1. Called(events, listeners')
    BY <1>6 DEF Called
  <2> QED BY <2>1, PrimedTables DEF TablesInv, ShapeInv
<1>8. ASSUME NEW s \in Searching, NEW i \in Nat, Told(listeners, s, i)
      PROVE  Told(listeners', s, i)
  <2> SUFFICES ASSUME NEW k \in DOMAIN listeners', listeners'[k].owner = s,
                      listeners'[k].kind = "ready"
               PROVE  k <= i
    BY DEF Told
  <2>1. s # User
    BY SearchAssumption DEF Searching, SearchId, User
  <2>2. PICK j \in DOMAIN listeners : k <= j /\ listeners'[k] = listeners[j]
    BY <2>1
  <2>3. j <= i
    BY <1>8, <2>2 DEF Told
  <2> QED BY <2>2, <2>3
<1>9. ReadyInv'
  <2> SUFFICES ASSUME NEW n \in ReadyIn(events)
               PROVE  (/\ Held(events[n].tuner)
                       /\ \A s \in Searching :
                            ~search[s].disturbed /\ search[s].tuner = events[n].tuner
                              => \/ HasTables(events[n].tuner)
                                 \/ events[n].at # "callback" /\ Told(listeners, s, events[n].i))'
    BY PrimedTables DEF ReadyInv
  <2>1. /\ n \in DOMAIN events /\ events[n] \in Frame /\ events # <<>>
        /\ Len(events) \in DOMAIN events /\ events[n].tuner \in Tuner
    BY DEF ReadyIn, RestoreInv, SearchInv, TypeOK
  <2>2. events[n].i \in Nat
    BY <2>1 DEF Frame
  <2>3. ~Doomed
    <3>1. events[Len(events)].at = "user"
      BY <2>1 DEF ClientTurn, Top
    <3> QED BY <2>1, <3>1 DEF Doomed
  <2>4. /\ Held(events[n].tuner)
        /\ \A s \in Searching :
             ~search[s].disturbed /\ search[s].tuner = events[n].tuner
               => \/ HasTables(events[n].tuner)
                  \/ events[n].at # "callback" /\ Told(listeners, s, events[n].i)
    BY <2>3 DEF TablesInv, ReadyInv
  <2> QED BY <1>1, <1>2, <1>8, <2>1, <2>2, <2>4, PrimedTables
<1> QED BY <1>3, <1>4, <1>5, <1>7, <1>9 DEF TablesInv

LEMMA RegisterTables ==
  ASSUME RestoreInv, TablesInv, NEW kind \in ClientKinds, Register(kind)
  PROVE  TablesInv'
<1> DEFINE l == [id |-> listener_cnt, kind |-> kind, owner |-> User]
           new == Append(listeners, l)
<1>1. /\ listeners \in Seq(Listener) /\ l \in Listener /\ l.owner = User
  BY SearchAssumption DEF RestoreInv, SearchInv, TypeOK, Listener
<1>2. /\ listeners' = new /\ ClientTurn /\ UNCHANGED <<events, tune, tables, search>>
  BY DEF Register
<1> HIDE DEF l
<1>3. /\ DOMAIN new = 1..Len(listeners) + 1 /\ DOMAIN listeners = 1..Len(listeners)
      /\ Len(listeners) \in Nat /\ new[Len(listeners) + 1] = l
      /\ \A k \in DOMAIN listeners : new[k] = listeners[k]
  BY <1>1
<1> HIDE DEF new
<1>4. \A k \in DOMAIN new : new[k].owner # User => k \in DOMAIN listeners /\ new[k] = listeners[k]
  BY <1>1, <1>3
<1>5. OneEach(new)
  BY <1>4 DEF TablesInv, OnceInv, OneEach
<1>6. \A k \in DOMAIN new : new[k].owner # User
        => \E i \in DOMAIN listeners : k <= i /\ new[k] = listeners[i]
  BY <1>3, <1>4
<1>7. DOMAIN new \subseteq Nat /\ DOMAIN listeners \subseteq Nat
  BY <1>3
<1> QED BY <1>2, <1>5, <1>6, <1>7, ClientTables

LEMMA RemoveListenerTables ==
  ASSUME RestoreInv, TablesInv, NEW l, RemoveListener(l)
  PROVE  TablesInv'
<1> DEFINE new == Only(listeners, ToSet(listeners) \ {l})
<1>1. listeners \in Seq(Listener) /\ OneEach(listeners)
  BY DEF RestoreInv, SearchInv, TypeOK, TablesInv, OnceInv
<1>2. /\ listeners' = new /\ ClientTurn /\ UNCHANGED <<events, tune, tables, search>>
  BY DEF RemoveListener
<1>3. OneEach(new)
  BY <1>1, OneEachOnly
<1>4. \A k \in DOMAIN new : \E i \in DOMAIN listeners : k <= i /\ new[k] = listeners[i]
  BY <1>1, OnlyMovesDown
<1>5. new \in Seq(Listener)
  BY <1>1, OnlyListeners
<1> HIDE DEF new
<1>6. DOMAIN new \subseteq Nat /\ DOMAIN listeners \subseteq Nat
  BY <1>1, <1>5
<1> QED BY <1>2, <1>3, <1>4, <1>6, ClientTables

(* A wish of the client changes no history.                                *)
LEMMA AskEndTables ==
  ASSUME RestoreInv, TablesInv, NEW s \in SearchId, NEW wish \in Wish, AskEnd(s, wish)
  PROVE  TablesInv'
<1>1. /\ DOMAIN search = SearchId /\ SearchType(search[s])
      /\ UNCHANGED <<listeners, event_propagation, events, tune, tables>>
  BY DEF RestoreInv, SearchInv, TypeOK, AskEnd
<1> DEFINE new == [search[s] EXCEPT !.status = wish]
<1>2. /\ new.phase = search[s].phase /\ new.saved = search[s].saved
      /\ new.tuner = search[s].tuner /\ new.scan = search[s].scan
      /\ new.disturbed = search[s].disturbed
  BY <1>1, SearchFields
<1>3. search' = [search EXCEPT ![s] = new]
  BY DEF AskEnd
<1> HIDE DEF new
<1>4. \A q \in SearchId :
        /\ search'[q].phase = search[q].phase /\ search'[q].saved = search[q].saved
        /\ search'[q].tuner = search[q].tuner /\ search'[q].scan = search[q].scan
        /\ search'[q].disturbed = search[q].disturbed
  BY <1>1, <1>2, <1>3
<1>5. /\ Searching' = Searching /\ Active' = Active
      /\ \A t \in Tuner : (Held(t))' <=> Held(t)
  BY <1>4 DEF Searching, Held, Active
<1>6. ParametersInv'
  BY <1>1, <1>4, <1>5, PrimedTables DEF TablesInv, ParametersInv, Searching, Frequencies
<1>7. OnceInv' /\ DisturbedInv'
  BY <1>1, <1>4, <1>5, HistoryUntouched
     DEF TablesInv, DisturbedInv, StillDisturbed, Searching, RestoreInv
<1>8. ShapeInv'
  BY <1>1, PrimedTables DEF TablesInv, ShapeInv
<1>9. ReadyInv'
  <2>1. \A t : HasTables(t)' <=> HasTables(t)
    BY <1>1 DEF HasTables, DecoderOf
  <2>2. Doomed => Doomed'
    BY <1>1 DEF Doomed
  <2>3. \A q \in Searching : q \in SearchId
    BY DEF Searching
  <2>4. \A n \in ReadyIn(events) : events[n].tuner \in Tuner
    BY DEF ReadyIn
  <2> QED BY <1>1, <1>4, <1>5, <2>1, <2>2, <2>3, <2>4, PrimedTables DEF TablesInv, ReadyInv
<1> QED BY <1>6, <1>7, <1>8, <1>9 DEF TablesInv

(* The search that begins: its tuner, which nobody had, its frequency, and *)
(* what it does to the others.                                             *)
LEMMA TunerSearchDetail ==
  ASSUME RestoreInv, TablesInv, NEW s \in SearchId, NEW type, TunerSearch(s, type)
  PROVE  \E t \in Tuner :
           /\ TakesTuner(s, t) /\ TunedRight(t, tune'[t])
           /\ search'[s].scan.f \in Frequencies /\ search'[s].disturbed = FALSE
           /\ \A q \in SearchId \ {s} : StillDisturbed(search'[q], search[q])
           /\ \A q \in Searching : search'[q].disturbed
           /\ \A q \in Searching : search'[q].scan = search[q].scan
<1>1. PICK t \in Available(type), taken \in BOOLEAN :
        LET scan == ScanInit(Valid[t], type) IN
          /\ tune' = [tune EXCEPT ![t] = ScannedTune(t,
               [tune[t] EXCEPT !.references = @ + 1], scan.f, taken)]
          /\ search' = [q \in SearchId |->
               IF q = s THEN [NoSearch EXCEPT !.phase = "searching",
                                !.status = "SEARCHING", !.tuner = t, !.scan = scan,
                                !.saved = SavedOf(listeners),
                                !.tried = {<<scan.f, scan.d>>}]
               ELSE [search[q] EXCEPT !.disturbed = @ \/ q \in Searching]]
  BY DEF TunerSearch
<1>2. /\ t \in Tuner /\ s \notin Searching /\ tune \in [Tuner -> TuneState]
      /\ \A q \in SearchId : SearchType(search[q])
  BY DEF Available, TunerSearch, Searching, Started, RestoreInv, SearchInv, TypeOK
<1> DEFINE scan == ScanInit(Valid[t], type)
           mine1 == [NoSearch EXCEPT !.phase = "searching", !.status = "SEARCHING",
                       !.tuner = t, !.scan = scan, !.saved = SavedOf(listeners),
                       !.tried = {<<scan.f, scan.d>>}]
           other(q) == [search[q] EXCEPT !.disturbed = @ \/ q \in Searching]
           r == [tune[t] EXCEPT !.references = @ + 1]
<1>3. scan.f \in Frequencies
  <2>1. FStart \in FStart..FEnd /\ FStart - FStart = 0 /\ FStep \in Nat \ {0}
    BY ScanAssumption
  <2>2. (FStart - FStart) % FStep = 0
    BY <2>1
  <2>3. scan.f = FStart
    BY DEF ScanInit
  <2> QED BY <2>1, <2>2, <2>3 DEF Frequencies
<1>4. /\ tune' = [tune EXCEPT ![t] = ScannedTune(t, r, scan.f, taken)]
      /\ search' = [q \in SearchId |-> IF q = s THEN mine1 ELSE other(q)]
  BY <1>1
<1>5. r \in TuneState /\ TunedRight(t, r)
  <2>1. tune[t] \in TuneState
    BY <1>2
  <2>2. r \in TuneState /\ r.channel = tune[t].channel /\ r.mydvb = tune[t].mydvb
        /\ r.taken = tune[t].taken /\ r.p = tune[t].p
    BY <2>1 DEF TuneState
  <2> QED BY <1>2, <2>2 DEF TablesInv, ParametersInv, TunedRight
<1> HIDE DEF r, scan
<1>6. TunedRight(t, tune'[t])
  <2>1. TunedRight(t, ScannedTune(t, r, scan.f, taken))
    BY <1>2, <1>3, <1>5, ScannedTuneRight
  <2> QED BY <1>2, <1>4, <2>1
<1>7. mine1.scan = scan /\ mine1.tuner = t /\ mine1.disturbed = FALSE
  BY DEF NoSearch
<1>8. \A q \in SearchId : /\ other(q).disturbed = (search[q].disturbed \/ q \in Searching)
                          /\ other(q).scan = search[q].scan
  BY <1>2, SearchFields
<1> HIDE DEF mine1, other
<1>9. search'[s] = mine1 /\ \A q \in SearchId \ {s} : search'[q] = other(q)
  BY <1>4
<1>10. /\ \A q \in SearchId \ {s} : StillDisturbed(search'[q], search[q])
       /\ \A q \in Searching : search'[q].disturbed /\ search'[q].scan = search[q].scan
  <2>1. \A q \in Searching : q \in SearchId \ {s}
    BY <1>2 DEF Searching
  <2> QED BY <1>8, <1>9, <2>1 DEF StillDisturbed
<1>11. TakesTuner(s, t)
  <2>1. PICK u \in Tuner : TakesTuner(s, u)
    BY TunerSearchEffect DEF RestoreInv
  <2>2. u = t
    BY <1>7, <1>9, <2>1 DEF TakesTuner
  <2> QED BY <2>1, <2>2
<1> QED BY <1>2, <1>3, <1>6, <1>7, <1>9, <1>10, <1>11

LEMMA TunerSearchTables ==
  ASSUME RestoreInv, TablesInv, NEW s \in SearchId, NEW type, TunerSearch(s, type)
  PROVE  TablesInv'
<1>1. PICK t \in Tuner :
           /\ TakesTuner(s, t) /\ TunedRight(t, tune'[t])
           /\ search'[s].scan.f \in Frequencies /\ search'[s].disturbed = FALSE
           /\ \A q \in SearchId \ {s} : StillDisturbed(search'[q], search[q])
           /\ \A q \in Searching : search'[q].disturbed
           /\ \A q \in Searching : search'[q].scan = search[q].scan
  BY TunerSearchDetail
<1>2. /\ listeners \in Seq(Listener) /\ OnlyClientsKept(listeners) /\ listener_cnt \in Nat
      /\ Owners(listeners) \subseteq Searching
      /\ listeners' = Kept(listeners) \o OwnListeners(s)
      /\ ClientTurn /\ UNCHANGED <<events, tables>>
  BY DEF RestoreInv, SearchInv, TypeOK, ListenersInv, TunerSearch
<1>3. /\ s \notin Searching /\ s \notin Active /\ tune[t].references = 0
      /\ Searching' = Searching \cup {s} /\ Active' = Active \cup {s}
      /\ search'[s].tuner = t /\ search'[s].saved = SavedOf(listeners)
      /\ \A q \in SearchId \ {s} : search'[q].tuner = search[q].tuner
      /\ \A q \in Searching : q # s /\ search'[q].saved = search[q].saved
      /\ \A u \in Tuner \ {t} : tune'[u] = tune[u]
  BY <1>1 DEF TakesTuner, Unchanged, Same, Searching, Active, Started
<1>4. ParametersInv'
  <2>1. \A u \in Tuner : TunedRight(u, tune'[u])
    BY <1>1, <1>3 DEF TablesInv, ParametersInv
  <2>2. \A q \in Searching' : search'[q].scan.f \in Frequencies
    BY <1>1, <1>3 DEF TablesInv, ParametersInv
  <2> QED BY <2>1, <2>2, PrimedTables DEF ParametersInv, Frequencies
<1>5. OnceInv'
  <2>1. OneEach(Kept(listeners) \o OwnListeners(s))
    <3>1. /\ Kept(listeners) \in Seq(Listener) /\ Owners(Kept(listeners)) = {}
          /\ OwnListeners(s) \in Seq(Listener)
      BY <1>2, KeptListeners, OwnListenersOf
    <3>2. OneEach(OwnListeners(s))
      BY OneEachOwn
    <3> QED BY <3>1, <3>2, OneEachConcat
  <2>2. OneEach(SavedOf(listeners))
    BY <1>2, OneEachOnly DEF TablesInv, OnceInv, SavedOf
  <2> QED BY <1>2, <1>3, <2>1, <2>2, PrimedTables DEF TablesInv, OnceInv
<1>6. DisturbedInv'
  <2>1. \A q \in SearchId : search'[q].disturbed \in BOOLEAN
    BY <1>1 DEF StillDisturbed
  <2>2. /\ \A q \in Searching : Owners(search[q].saved)' = Owners(search[q].saved)
        /\ Owners(search[s].saved)' = Owners(SavedOf(listeners))
    BY <1>3, PrimedLists
  <2>3. Owners(SavedOf(listeners)) \subseteq Searching
    BY <1>2, SavedListeners
  <2>4. \A q \in Searching : Owners(search[q].saved) \subseteq Searching
    BY DEF RestoreInv, SearchInv, ListenersInv
  <2> QED BY <1>1, <1>3, <2>1, <2>2, <2>3, <2>4 DEF DisturbedInv
<1>7. \A n \in DOMAIN events : events[n].at # "callback"
  <2>1. events = <<>> \/ Top.at = "user"
    BY <1>2 DEF ClientTurn
  <2> QED BY <2>1 DEF RestoreInv, SearchInv, EventsInv, StackInv, Top
<1>8. ShapeInv'
  <2>1. Called(events, listeners')
    BY <1>7 DEF Called
  <2> QED BY <1>2, <2>1, PrimedTables DEF TablesInv, ShapeInv
<1>9. ReadyInv'
  <2> SUFFICES ASSUME NEW n \in ReadyIn(events)
               PROVE  (/\ Held(events[n].tuner)
                       /\ \A q \in Searching :
                            search[q].disturbed \/ search[q].tuner # events[n].tuner)'
    BY <1>2, PrimedTables DEF ReadyInv
  <2>1. n \in DOMAIN events /\ Len(events) \in DOMAIN events /\ events[n].tuner \in Tuner
    BY DEF ReadyIn, RestoreInv, SearchInv, TypeOK
  <2>2. ~Doomed
    <3>1. events[Len(events)].at = "user"
      BY <1>2, <2>1 DEF ClientTurn, Top
    <3> QED BY <2>1, <3>1 DEF Doomed
  <2>3. Held(events[n].tuner)
    BY <2>2 DEF TablesInv, ReadyInv
  <2>4. events[n].tuner # t
    <3>1. \A u \in Tuner : Held(u) => tune[u].references = 1
      BY DEF RestoreInv, SearchInv, TunersInv
    <3> QED BY <1>3, <2>1, <2>3, <3>1
  <2>5. Held(events[n].tuner)'
    <3>1. PICK q \in Active : search[q].tuner = events[n].tuner
      BY <2>3 DEF Held
    <3>2. q \in SearchId \ {s}
      BY <1>3 DEF Active
    <3> QED BY <1>2, <1>3, <3>1, <3>2 DEF Held
  <2> QED BY <1>1, <1>2, <1>3, <2>4, <2>5
<1> QED BY <1>4, <1>5, <1>6, <1>8, <1>9 DEF TablesInv

-----------------------------------------------------------------------------
(* Callbacks of a search.                                                  *)

(* A callback runs in the frame on top, the only one that may be of READY; *)
(* if a search is undisturbed, then it is the one of the callback, and has *)
(* no other READY listener.                                                *)
LEMMA CallbackAlone ==
  ASSUME RestoreInv, TablesInv, NEW kind, Calling(kind), NEW s, s = Top.search
  PROVE  /\ s \in Searching /\ s \in SearchId /\ s \in Owners(listeners)
         /\ search[s].tuner \in Tuner /\ Held(search[s].tuner) /\ tune[search[s].tuner] \in TuneState
         /\ TypeOK /\ Nested(events) /\ events # <<>> /\ Top.kind = kind /\ kind # "search"
         /\ \A n \in DOMAIN events : events[n].at = "callback" => n = Len(events)
         /\ \A n \in ReadyIn(events) : n = Len(events) /\ kind = "ready" /\ Held(events[n].tuner)
         /\ \A q \in Searching : ~search[q].disturbed => q = s
         /\ kind = "ready" => Told(listeners, s, Top.i)
<1>1. /\ s \in Searching /\ s \in SearchId /\ s \in Owners(listeners) /\ events # <<>>
      /\ search[s].tuner \in Tuner /\ Held(search[s].tuner) /\ TypeOK
      /\ Top.kind = kind /\ Top.at = "callback"
  BY CallingSearch DEF RestoreInv, SearchInv, Calling
<1>2. /\ events \in Seq(Frame) /\ Len(events) \in DOMAIN events /\ Top = events[Len(events)]
      /\ tune \in [Tuner -> TuneState]
  BY <1>1 DEF TypeOK, Top
<1>3. Nested(events) /\ kind # "search"
  BY <1>1, <1>2 DEF TablesInv, ShapeInv, Nested
<1>4. \A n \in DOMAIN events : events[n].at = "callback" => n = Len(events)
  BY DEF RestoreInv, SearchInv, EventsInv, StackInv
<1>5. ASSUME NEW n \in ReadyIn(events)
      PROVE  n = Len(events) /\ kind = "ready" /\ Held(events[n].tuner)
  <2>1. n = Len(events) \/ (n + 1 = Len(events) /\ events[n + 1].kind = "search")
    BY <1>2, <1>3, ReadyOnTop
  <2>2. n = Len(events)
    BY <1>1, <1>2, <1>3, <2>1
  <2>3. kind = "ready"
    BY <1>1, <1>2, <2>2 DEF ReadyIn
  <2>4. ~Doomed
    BY <1>1, <1>2 DEF Doomed
  <2> QED BY <2>2, <2>3, <2>4 DEF TablesInv, ReadyInv
<1>6. \A q \in Searching : ~search[q].disturbed => q = s
  BY <1>1, UndisturbedInEngine DEF TablesInv
<1>7. kind = "ready" => Told(listeners, s, Top.i)
  <2> SUFFICES ASSUME kind = "ready", NEW k \in DOMAIN listeners,
                      listeners[k].owner = s, listeners[k].kind = "ready"
               PROVE  k <= Top.i
    BY DEF Told
  <2>1. /\ Top.i \in DOMAIN listeners /\ listeners[Top.i].owner = s
        /\ listeners[Top.i].kind = "ready"
    BY <1>1, <1>2 DEF TablesInv, ShapeInv, Called
  <2>2. s # User /\ OneEach(listeners)
    BY <1>1, SearchAssumption DEF SearchId, User, TablesInv, OnceInv
  <2>3. k = Top.i
    BY <2>1, <2>2 DEF OneEach
  <2>4. k \in Nat
    BY <1>1 DEF TypeOK
  <2> QED BY <2>3, <2>4
<1> QED BY <1>1, <1>2, <1>3, <1>4, <1>5, <1>6, <1>7

(* What holds of tuners and searches after either end of a callback.       *)
LEMMA OnwardTables ==
  ASSUME TablesInv, NEW s \in SearchId, NEW t \in Tuner, Onward(s, t), TuneKept(t),
         Searching' \subseteq Searching
  PROVE  /\ ParametersInv'
         /\ \A q \in SearchId : StillDisturbed(search'[q], search[q])
<1>1. \A u \in Tuner : TunedRight(u, tune'[u])
  BY DEF TablesInv, ParametersInv, Onward, TuneKept
<1>2. \A q \in Searching' : search'[q].scan.f \in Frequencies
  <2>1. \A q \in Searching' : q \in SearchId /\ search'[q].phase = "searching"
    BY DEF Searching
  <2> QED BY <2>1 DEF TablesInv, ParametersInv, Onward
<1>3. \A q \in SearchId : StillDisturbed(search'[q], search[q])
  BY DEF TablesInv, DisturbedInv, Onward, StillDisturbed
<1> QED BY <1>1, <1>2, <1>3, PrimedTables DEF ParametersInv, Frequencies

(* The search goes on: it has been told, and may have lost its tables.     *)
LEMMA GoesOnTables ==
  ASSUME RestoreInv, TablesInv, NEW kind, Calling(kind), NEW s, s = Top.search,
         NEW t, t = search[s].tuner, GoesOn(s), Onward(s, t)
  PROVE  TablesInv'
<1>1. /\ s \in SearchId /\ t \in Tuner /\ TypeOK /\ Nested(events) /\ events # <<>>
      /\ Top.kind # "search"
      /\ \A n \in DOMAIN events : events[n].at = "callback" => n = Len(events)
      /\ \A n \in ReadyIn(events) : n = Len(events) /\ kind = "ready" /\ Held(events[n].tuner)
      /\ \A q \in Searching : ~search[q].disturbed => q = s
      /\ kind = "ready" => Told(listeners, s, Top.i)
  BY CallbackAlone
<1>2. /\ SearchesSame /\ TuneKept(t) /\ UNCHANGED listeners /\ events' = Returned("done")
  BY DEF GoesOn
<1>3. /\ Searching' = Searching /\ Active' = Active
      /\ \A q \in SearchId : /\ search'[q].saved = search[q].saved
                             /\ search'[q].tuner = search[q].tuner
  BY <1>1, <1>2, SameSearches DEF SearchesSame, Unchanged, Same
<1>4. ParametersInv' /\ \A q \in SearchId : StillDisturbed(search'[q], search[q])
  BY <1>1, <1>2, <1>3, OnwardTables
<1>5. OnceInv' /\ DisturbedInv'
  BY <1>2, <1>3, <1>4, HistoryUntouched DEF TablesInv, Searching, RestoreInv
<1>6. /\ Nested(events') /\ DOMAIN events' = DOMAIN events
      /\ \A n \in DOMAIN events' : events'[n].at # "callback"
      /\ \A n \in DOMAIN events' :
           /\ events'[n].kind = events[n].kind /\ events'[n].tuner = events[n].tuner
           /\ events'[n].i = events[n].i
  <2> DEFINE new == Returned("done")
  <2>1. /\ Nested(new) /\ DOMAIN new = DOMAIN events
        /\ \A n \in DOMAIN new : new[n].at # "callback"
        /\ \A n \in DOMAIN new :
             /\ new[n].kind = events[n].kind /\ new[n].tuner = events[n].tuner
             /\ new[n].i = events[n].i
    BY <1>1, NestedReturned
  <2> HIDE DEF new
  <2> QED BY <1>2, <2>1 DEF new
<1>7. ShapeInv'
  BY <1>6, PrimedTables DEF ShapeInv, Called
<1>8. ReadyInv'
  <2> SUFFICES ASSUME NEW n \in ReadyIn(events')
               PROVE  (/\ Held(events[n].tuner)
                       /\ \A q \in Searching :
                            ~search[q].disturbed
                              => events[n].at # "callback" /\ Told(listeners, q, events[n].i))'
    BY PrimedTables DEF ReadyInv
  <2>1. n \in ReadyIn(events) /\ n \in DOMAIN events' /\ events'[n].tuner = events[n].tuner
    BY <1>6 DEF ReadyIn
  <2>2. n = Len(events) /\ kind = "ready" /\ events'[n].i = Top.i
    BY <1>1, <1>6, <2>1 DEF Top
  <2>3. Held(events[n].tuner)'
    BY <1>1, <1>3, <2>1 DEF Held, Active
  <2>4. \A q \in Searching : ~search'[q].disturbed => q = s
    BY <1>1, <1>4 DEF StillDisturbed, Searching
  <2>5. Told(listeners', s, events'[n].i)
    BY <1>1, <1>2, <2>2
  <2> QED BY <1>3, <1>6, <2>1, <2>3, <2>4, <2>5, PrimedTables
<1> QED BY <1>4, <1>5, <1>7, <1>8 DEF TablesInv

(* The search ends: whatever is told below its report, it is not of it.    *)
LEMMA FinishedTables ==
  ASSUME RestoreInv, TablesInv, NEW kind, Calling(kind), NEW s, s = Top.search,
         NEW t, t = search[s].tuner, Finished(s), Onward(s, t)
  PROVE  TablesInv'
<1>1. /\ s \in SearchId /\ s \in Searching /\ s \in Owners(listeners) /\ t \in Tuner
      /\ TypeOK /\ Nested(events) /\ events # <<>>
      /\ Top.kind # "search"
      /\ \A n \in DOMAIN events : events[n].at = "callback" => n = Len(events)
      /\ \A n \in ReadyIn(events) : Held(events[n].tuner)
      /\ \A q \in Searching : ~search[q].disturbed => q = s
  BY CallbackAlone
<1>2. /\ TuneKept(t) /\ listeners' = Kept(listeners) \o search[s].saved
      /\ events' = Notified(listeners', Returned("finishing"), Event("search", NoTuner, None, {}))
      /\ Reported(s, IF search[s].status \in Wish THEN search[s].status ELSE "COMPLETED")
  BY DEF Finished, Restored
<1>3. /\ Searching' = Searching \ {s} /\ Active' = Active
      /\ \A q \in SearchId : search'[q].tuner = search[q].tuner
      /\ \A q \in SearchId \ {s} : search'[q].saved = search[q].saved
  BY <1>1, <1>2, ReportedSearches DEF Reported, Unchanged, Same
<1>4. ParametersInv' /\ \A q \in SearchId : StillDisturbed(search'[q], search[q])
  BY <1>1, <1>2, <1>3, OnwardTables
<1>5. /\ listeners \in Seq(Listener) /\ OnlyClientsKept(listeners)
      /\ search[s].saved \in Seq(Listener) /\ OneEach(search[s].saved)
  BY <1>1 DEF RestoreInv, SearchInv, ListenersInv, TypeOK, SearchType, TablesInv, OnceInv
<1>6. OnceInv'
  <2>1. OneEach(Kept(listeners) \o search[s].saved)
    BY <1>5, KeptListeners, OneEachConcat
  <2>2. \A q \in Searching' : q \in Searching /\ search'[q].saved = search[q].saved
    BY <1>3 DEF Searching
  <2> QED BY <1>2, <2>1, <2>2, PrimedTables DEF TablesInv, OnceInv
<1>7. DisturbedInv'
  <2>1. \A q \in Searching' : q \in Searching /\ Owners(search[q].saved)' = Owners(search[q].saved)
    BY <1>3, PrimedLists DEF Searching
  <2>2. \A q \in Searching : Owners(search[q].saved) \subseteq SearchId
    BY DEF RestoreInv, SearchInv, ListenersInv, Searching
  <2> QED BY <1>4, <2>1, <2>2 DEF TablesInv, DisturbedInv, StillDisturbed
<1> DEFINE stack == Returned("finishing")
           e == Event("search", NoTuner, None, {})
<1>8. /\ stack \in Seq(Frame) /\ stack # <<>> /\ Len(stack) = Len(events) /\ Nested(stack)
      /\ DOMAIN stack = DOMAIN events /\ Len(events) \in DOMAIN events
      /\ \A n \in DOMAIN stack : stack[n].at # "callback"
      /\ \A n \in DOMAIN stack : stack[n].kind = events[n].kind /\ stack[n].tuner = events[n].tuner
      /\ stack[Len(events)].at = "finishing"
  BY <1>1, NestedReturned
<1>9. e \in Frame /\ e.kind = "search"
  BY DEF Event, Frame, Kind
<1> HIDE DEF stack, e
<1>10. listeners' \in Seq(Listener) /\ (OnlyClientsKept(listeners))'
  BY <1>1, FinishedListeners DEF RestoreInv, ListenersInv
<1>11. /\ Nested(events') /\ Called(events', listeners')
       /\ \A n \in DOMAIN events' :
            (n \in DOMAIN stack /\ events'[n] = stack[n]) \/ events'[n].kind = "search"
  <2>1. Joined(stack[Len(stack)], e)
    BY <1>1, <1>8, <1>9 DEF Joined, Top
  <2>2. OnlyClientsKept(listeners')
    BY <1>10 DEF OnlyClientsKept
  <2>3. PICK ls \in Seq(Listener) : ls = listeners' /\ OnlyClientsKept(ls)
    BY <1>10, <2>2
  <2> DEFINE new == Notified(ls, stack, e)
  <2>4. /\ Nested(new) /\ Called(new, ls)
        /\ \A n \in DOMAIN new :
             \/ n \in DOMAIN stack /\ new[n] = stack[n]
             \/ new[n].kind = e.kind /\ new[n].tuner = e.tuner
    BY <1>8, <1>9, <2>1, <2>3, NestedNotified
  <2>5. events' = new
    BY <1>2, <2>3 DEF stack, e
  <2> HIDE DEF new
  <2> QED BY <1>9, <2>3, <2>4, <2>5
<1>12. ShapeInv'
  BY <1>11, PrimedTables DEF ShapeInv
<1>13. ReadyInv'
  <2> SUFFICES ASSUME NEW n \in ReadyIn(events')
               PROVE  (/\ Held(events[n].tuner)
                       /\ \A q \in Searching : search[q].disturbed)'
    BY PrimedTables DEF ReadyInv
  <2>1. n \in ReadyIn(events) /\ events'[n].tuner = events[n].tuner
    BY <1>8, <1>11 DEF ReadyIn
  <2>2. Held(events[n].tuner)'
    BY <1>1, <1>3, <2>1 DEF Held, Active
  <2>3. \A q \in Searching \ {s} : search'[q].disturbed
    BY <1>1, <1>4 DEF StillDisturbed, Searching
  <2> QED BY <1>3, <2>2, <2>3
<1> QED BY <1>4, <1>6, <1>7, <1>12, <1>13 DEF TablesInv

(* mydvb_start_decoder: READY there and then only with tables.             *)
LEMMA StartDecoderTables ==
  ASSUME FromUhf, RestoreInv, TablesInv, Calling("tuner"), NEW s, s = Top.search,
         NEW t, t = search[s].tuner, StartDecoder(t), search' = [search EXCEPT ![s] = Reached(s)],
         UNCHANGED <<listeners, tables>>
  PROVE  TablesInv'
<1>1. /\ s \in SearchId /\ s \in Searching /\ t \in Tuner /\ Held(t) /\ tune[t] \in TuneState
      /\ TypeOK /\ Nested(events) /\ events # <<>>
      /\ Top.kind = "tuner"
      /\ \A n \in DOMAIN events : events[n].at = "callback" => n = Len(events)
      /\ ReadyIn(events) = {}
  BY CallbackAlone
<1>2. tune \in [Tuner -> TuneState] /\ DOMAIN search = SearchId
      /\ listeners \in Seq(Listener) /\ OnlyClientsKept(listeners)
  BY <1>1 DEF TypeOK, RestoreInv, SearchInv, ListenersInv
<1> DEFINE r == [tune[t] EXCEPT !.mydvb = tune[t].channel]
<1>3. /\ r.channel = tune[t].channel /\ r.mydvb = tune[t].channel
      /\ r.taken = tune[t].taken /\ r.p = tune[t].p
  BY <1>1 DEF TuneState
<1>4. tune' = [tune EXCEPT ![t] = r]
  BY DEF StartDecoder
<1> HIDE DEF r
<1>5. tune[t].channel \in Numbers(t) /\ TunedRight(t, r)
  BY <1>1, <1>3 DEF TablesInv, ParametersInv, TunedRight
<1>6. /\ Same(Reached(s), search[s]) /\ Reached(s).scan = search[s].scan
      /\ StillDisturbed(Reached(s), search[s])
  BY <1>1, ReachedSame, ReachedOnward DEF TablesInv, DisturbedInv
<1>7. /\ search'[s] = Reached(s) /\ \A q \in SearchId \ {s} : search'[q] = search[q]
  BY <1>1, <1>2
<1>8. /\ \A q \in SearchId : /\ search'[q].phase = search[q].phase
                             /\ search'[q].saved = search[q].saved
                             /\ search'[q].tuner = search[q].tuner
                             /\ search'[q].scan = search[q].scan
      /\ \A q \in SearchId : StillDisturbed(search'[q], search[q])
  BY <1>6, <1>7 DEF Same, StillDisturbed, TablesInv, DisturbedInv
<1>9. Searching' = Searching /\ Active' = Active
  BY <1>8 DEF Searching, Active
<1>10. ParametersInv'
  <2>1. \A u \in Tuner : TunedRight(u, tune'[u])
    BY <1>1, <1>2, <1>4, <1>5 DEF TablesInv, ParametersInv
  <2>2. \A q \in Searching : search'[q].scan.f \in Frequencies
    BY <1>8 DEF TablesInv, ParametersInv, Searching
  <2> QED BY <1>9, <2>1, <2>2, PrimedTables DEF ParametersInv, Frequencies
<1>11. OnceInv' /\ DisturbedInv'
  BY <1>8, <1>9, HistoryUntouched DEF TablesInv, Searching, RestoreInv
<1> DEFINE stack == Returned("done")
           e == Event("ready", t, None, {})
<1>12. /\ stack \in Seq(Frame) /\ stack # <<>> /\ Nested(stack) /\ Len(stack) = Len(events)
       /\ DOMAIN stack = DOMAIN events /\ Len(events) \in DOMAIN events
       /\ \A n \in DOMAIN stack : stack[n].at # "callback"
       /\ \A n \in DOMAIN stack : stack[n].kind = events[n].kind /\ stack[n].tuner = events[n].tuner
       /\ stack[Len(events)].at = "done"
  BY <1>1, NestedReturned
<1>13. e \in Frame /\ e.kind = "ready" /\ e.tuner = t
  BY <1>1 DEF Event, Frame, Kind
<1> HIDE DEF stack, e
<1>14. ReadyIn(stack) = {}
  BY <1>1, <1>12 DEF ReadyIn
<1>15. CASE events' = stack
  <2>1. ShapeInv'
    BY <1>12, <1>15, PrimedTables DEF ShapeInv, Called
  <2>2. ReadyInv'
    BY <1>14, <1>15, PrimedTables DEF ReadyInv
  <2> QED BY <1>10, <1>11, <2>1, <2>2 DEF TablesInv
<1>16. CASE /\ events' = Notified(listeners, stack, e)
            /\ tables[<<TunerType[t], tune[t].channel>>] # Unread
  <2>1. Joined(stack[Len(stack)], e)
    BY <1>1, <1>12, <1>13 DEF Joined, Top
  <2>2. /\ Nested(events') /\ Called(events', listeners)
        /\ \A n \in DOMAIN events' :
             \/ n \in DOMAIN stack /\ events'[n] = stack[n]
             \/ events'[n].kind = e.kind /\ events'[n].tuner = e.tuner
    <3> DEFINE new == Notified(listeners, stack, e)
    <3>1. /\ Nested(new) /\ Called(new, listeners)
          /\ \A n \in DOMAIN new :
               \/ n \in DOMAIN stack /\ new[n] = stack[n]
               \/ new[n].kind = e.kind /\ new[n].tuner = e.tuner
      BY <1>2, <1>12, <1>13, <2>1, NestedNotified
    <3>2. events' = new
      BY <1>16
    <3> HIDE DEF new
    <3> QED BY <3>1, <3>2
  <2>3. ShapeInv'
    BY <2>2, PrimedTables DEF ShapeInv
  <2>4. HasTables(t)'
    <3>1. tune'[t].mydvb = tune[t].channel /\ tune[t].channel # NoDecoder
      BY <1>1, <1>2, <1>3, <1>4, <1>5, NumbersAreDecoders
    <3> QED BY <1>16, <3>1 DEF HasTables, DecoderOf
  <2>5. Held(t)'
    BY <1>1, <1>8, <1>9 DEF Held, Active
  <2>6. ReadyInv'
    <3> SUFFICES ASSUME NEW n \in ReadyIn(events')
                 PROVE  (Held(events[n].tuner) /\ HasTables(events[n].tuner))'
      BY PrimedTables DEF ReadyInv
    <3>1. events'[n].tuner = t
      BY <1>13, <1>14, <2>2 DEF ReadyIn
    <3> QED BY <2>4, <2>5, <3>1 DEF Held, HasTables, DecoderOf
  <2> QED BY <1>10, <1>11, <2>3, <2>6 DEF TablesInv
<1> QED BY <1>15, <1>16 DEF StartDecoder, stack, e

LEMMA CallbackTables ==
  ASSUME FromUhf, RestoreInv, TablesInv, TuneCallback \/ ReadyCallback \/ TimeoutCallback
  PROVE  TablesInv'
<1>0. PICK s : s = Top.search
  OBVIOUS
<1>1. PICK t : t = search[s].tuner
  OBVIOUS
<1>2. PICK kind : Calling(kind)
  BY DEF TuneCallback, ReadyCallback, TimeoutCallback
<1>3. /\ TypeOK /\ s \in SearchId /\ s \in Searching /\ t \in Tuner /\ tune[t] \in TuneState
      /\ SearchType(search[s]) /\ Same(search[s], search[s]) /\ SearchInv
      /\ DOMAIN search = SearchId /\ tune \in [Tuner -> TuneState]
  BY <1>0, <1>1, <1>2, CallbackAlone DEF TypeOK, Same, RestoreInv
<1>4. /\ TunedRight(t, tune[t]) /\ TunedRight(t, StoppedDecoder(tune[t]))
      /\ search[s].scan.f \in Frequencies /\ search[s].disturbed \in BOOLEAN
      /\ StillDisturbed(search[s], search[s])
      /\ StoppedDecoder(tune[t]) \in TuneState
      /\ StoppedDecoder(tune[t]).references = tune[t].references
  BY <1>3, StoppedDecoderRight, StoppedDecoderType
     DEF TablesInv, ParametersInv, DisturbedInv, StillDisturbed
<1>5. /\ Same(Reached(s), search[s]) /\ SearchType(Reached(s))
      /\ Reached(s).scan = search[s].scan /\ StillDisturbed(Reached(s), search[s])
  BY <1>3, <1>4, ReachedSame, ReachedOnward
<1>6. ASSUME GoesOn(s) \/ Finished(s), Onward(s, t) PROVE TablesInv'
  BY <1>0, <1>1, <1>2, <1>6, GoesOnTables, FinishedTables
<1>7. ASSUME NEW r \in TuneState, NEW sr, ScanOn(s, r, sr), TunedRight(t, r),
             r.references = tune[t].references,
             SearchType(sr), Same(sr, search[s]), sr.scan = search[s].scan,
             StillDisturbed(sr, search[s])
      PROVE  TablesInv'
  <2>1. GoesOn(s) \/ Finished(s)
    BY <1>1, <1>3, <1>7, ScanOnEffect
  <2>2. Onward(s, t)
    BY <1>1, <1>3, <1>4, <1>7, ScanOnOnward
  <2> QED BY <1>6, <2>1, <2>2
<1>8. ASSUME NEW sr, search' = [search EXCEPT ![s] = sr], Same(sr, search[s]), SearchType(sr),
             sr.scan = search[s].scan, StillDisturbed(sr, search[s]), UNCHANGED tune
      PROVE  Onward(s, t) /\ SearchesSame
  <2>1. search'[s] = sr /\ \A q \in SearchId \ {s} : search'[q] = search[q]
    BY <1>3, <1>8
  <2>2. Onward(s, t)
    BY <1>4, <1>8, <2>1 DEF Onward
  <2>3. SearchesSame
    BY <1>3, <1>8, <2>1 DEF SearchesSame, Unchanged, Same, TypeOK
  <2> QED BY <2>2, <2>3
<1>9. ASSUME NEW sr, search' = [search EXCEPT ![s] = sr], Same(sr, search[s]), SearchType(sr),
             sr.scan = search[s].scan, StillDisturbed(sr, search[s]),
             UNCHANGED <<tune, listeners, event_propagation>>, events' = Returned("done")
      PROVE  TablesInv'
  <2>1. Onward(s, t) /\ SearchesSame
    BY <1>8, <1>9
  <2>2. GoesOn(s)
    BY <1>1, <1>3, <1>9, <2>1 DEF GoesOn, TuneKept
  <2> QED BY <1>6, <2>1, <2>2
<1>10. CASE TuneCallback
  <2>1. CASE ScanOn(s, tune[t], Reached(s))
    BY <1>3, <1>4, <1>5, <1>7, <2>1
  <2>2. CASE /\ StartDecoder(t) /\ search' = [search EXCEPT ![s] = Reached(s)]
             /\ UNCHANGED listeners
    <3>1. Calling("tuner") /\ UNCHANGED tables
      BY <1>10 DEF TuneCallback
    <3> QED BY <1>0, <1>1, <2>2, <3>1, StartDecoderTables
  <2>3. CASE /\ search' = [search EXCEPT ![s] = Reached(s)] /\ events' = Returned("done")
             /\ UNCHANGED <<listeners, event_propagation, tune>>
    BY <1>5, <1>9, <2>3
  <2> QED BY <1>0, <1>1, <1>10, <2>1, <2>2, <2>3 DEF TuneCallback
<1>11. CASE ReadyCallback
  <2>1. CASE HasTables(t)
    <3>1. PICK sr : sr = Recorded(t, Reached(s)) /\ ScanOn(s, StoppedDecoder(tune[t]), sr)
      BY <1>0, <1>1, <1>11, <2>1 DEF ReadyCallback
    <3>2. /\ SearchType(sr) /\ Same(sr, Reached(s))
          /\ sr.scan = Reached(s).scan /\ sr.disturbed = Reached(s).disturbed
      BY <1>5, <3>1, RecordedSame, RecordedOnward
    <3>3. Same(sr, search[s]) /\ sr.scan = search[s].scan /\ StillDisturbed(sr, search[s])
      BY <1>5, <3>2 DEF Same, StillDisturbed
    <3> QED BY <1>4, <1>7, <3>1, <3>2, <3>3
  <2>2. CASE ~HasTables(t)
    <3>1. /\ search' = [search EXCEPT ![s] = Reached(s)]
          /\ UNCHANGED <<listeners, event_propagation, events, tune, tables>>
      BY <1>0, <1>1, <1>11, <2>2 DEF ReadyCallback
    <3>2. Onward(s, t) /\ SearchesSame
      BY <1>5, <1>8, <3>1
    <3>3. /\ Searching' = Searching /\ Active' = Active
          /\ \A q \in SearchId : /\ search'[q].saved = search[q].saved
                                 /\ search'[q].tuner = search[q].tuner
      BY <1>3, <3>2, SameSearches DEF SearchesSame, Unchanged, Same
    <3>4. TuneKept(t)
      BY <1>3, <3>1 DEF TuneKept
    <3>5. ParametersInv' /\ \A q \in SearchId : StillDisturbed(search'[q], search[q])
      BY <1>3, <3>2, <3>3, <3>4, OnwardTables
    <3>6. OnceInv' /\ DisturbedInv'
      BY <1>3, <3>1, <3>3, <3>5, HistoryUntouched DEF TablesInv, Searching
    <3>7. ShapeInv'
      BY <3>1, PrimedTables DEF TablesInv, ShapeInv
    <3>8. ReadyInv'
      <4>1. /\ \A u : HasTables(u)' <=> HasTables(u)
            /\ Doomed' <=> Doomed
        BY <3>1 DEF HasTables, DecoderOf, Doomed
      <4>2. \A u \in Tuner : Held(u)' <=> Held(u)
        BY <3>3 DEF Held, Active
      <4>3. /\ \A q \in Searching : ~search'[q].disturbed => ~search[q].disturbed
            /\ \A q \in Searching : search'[q].tuner = search[q].tuner
        BY <3>3, <3>5 DEF StillDisturbed, Searching
      <4>4. \A n \in ReadyIn(events) : events[n].tuner \in Tuner
        BY DEF ReadyIn
      <4> QED BY <3>1, <3>3, <4>1, <4>2, <4>3, <4>4, PrimedTables DEF TablesInv, ReadyInv
    <3> QED BY <3>5, <3>6, <3>7, <3>8 DEF TablesInv
  <2> QED BY <2>1, <2>2
<1>12. CASE TimeoutCallback
  <2>1. CASE ScanOn(s, StoppedDecoder(tune[t]), search[s])
    BY <1>3, <1>4, <1>7, <2>1
  <2>2. CASE events' = Returned("done") /\ UNCHANGED <<listeners, event_propagation, tune, search>>
    <3>1. Onward(s, t)
      BY <1>4, <2>2 DEF Onward
    <3>2. SearchesSame
      BY <1>3, <2>2 DEF SearchesSame, Unchanged, Same, TypeOK
    <3>3. GoesOn(s)
      BY <1>3, <2>2, <3>2 DEF GoesOn, TuneKept
    <3> QED BY <1>6, <3>1, <3>3
  <2> QED BY <1>0, <1>1, <1>12, <2>1, <2>2 DEF TimeoutCallback
<1> QED BY <1>10, <1>11, <1>12

(* __mydvb_search_finish after its event: the frames below are of events   *)
(* nobody will be told of, since it has stopped the propagation.           *)
LEMMA FinishSearchTables ==
  ASSUME RestoreInv, TablesInv, FinishSearch
  PROVE  TablesInv' /\ Doomed'
<1>0. PICK s : s = Top.search
  OBVIOUS
<1>1. PICK t : t = search[s].tuner
  OBVIOUS
<1>2. /\ TypeOK /\ events # <<>> /\ Top.at = "finishing" /\ Nested(events) /\ SearchInv
      /\ Len(events) \in DOMAIN events /\ Len(events) \in Nat /\ DOMAIN events = 1..Len(events)
  BY DEF RestoreInv, SearchInv, FinishSearch, TypeOK, TablesInv, ShapeInv
<1>3. s \in Reporting /\ s \in SearchId /\ s \in Active /\ t \in Tuner
  BY <1>0, <1>1, <1>2 DEF SearchInv, EventsInv, StackInv, Top, Reporting, Active, TunersInv
<1>4. /\ tune' = [tune EXCEPT ![t] = ReleasedTune(tune[t])]
      /\ search' = [search EXCEPT ![s].phase = "closed"]
      /\ events' = Returned("done") /\ event_propagation' = FALSE
      /\ UNCHANGED <<listeners, tables>>
  BY <1>0, <1>1 DEF FinishSearch
<1>5. SearchType(search[s]) /\ DOMAIN search = SearchId /\ tune \in [Tuner -> TuneState]
  BY <1>2, <1>3 DEF TypeOK
<1> DEFINE new == [search[s] EXCEPT !.phase = "closed"]
<1>6. /\ new.phase = "closed" /\ new.tuner = search[s].tuner /\ new.saved = search[s].saved
      /\ new.scan = search[s].scan /\ new.disturbed = search[s].disturbed
  BY <1>5, SearchFields
<1>7. search' = [search EXCEPT ![s] = new]
  BY <1>4
<1> HIDE DEF new
<1>8. search'[s] = new /\ \A q \in SearchId \ {s} : search'[q] = search[q]
  BY <1>3, <1>5, <1>7
<1>9. /\ Searching' = Searching
      /\ \A q \in SearchId : /\ search'[q].saved = search[q].saved
                             /\ search'[q].scan = search[q].scan
                             /\ search'[q].disturbed = search[q].disturbed
  BY <1>3, <1>6, <1>8 DEF Searching, Reporting
<1>10. \A q \in SearchId : StillDisturbed(search'[q], search[q])
  BY <1>9 DEF TablesInv, DisturbedInv, StillDisturbed
<1>11. OnceInv' /\ DisturbedInv'
  BY <1>2, <1>4, <1>9, <1>10, HistoryUntouched DEF TablesInv, Searching
<1>12. ParametersInv'
  <2>1. tune[t].references = 1 /\ tune[t] \in TuneState /\ TunedRight(t, tune[t])
    BY <1>1, <1>2, <1>3, <1>5 DEF SearchInv, TunersInv, Held, TablesInv, ParametersInv
  <2>2. TunedRight(t, ReleasedTune(tune[t]))
    BY <1>3, <2>1, ReleasedTuneRight
  <2>3. /\ tune'[t] = ReleasedTune(tune[t])
        /\ \A u \in Tuner \ {t} : tune'[u] = tune[u]
    BY <1>3, <1>4, <1>5
  <2>4. \A u \in Tuner : TunedRight(u, tune'[u])
    BY <2>2, <2>3 DEF TablesInv, ParametersInv
  <2>5. \A q \in Searching : search'[q].scan.f \in Frequencies
    BY <1>9 DEF TablesInv, ParametersInv, Searching
  <2> QED BY <1>9, <2>4, <2>5, PrimedTables DEF ParametersInv, Frequencies
<1>13. /\ Top.kind # "search"
       /\ \A n \in DOMAIN events : events[n].at = "callback" => n = Len(events)
  <2>1. Top.kind # "search"
    BY <1>2 DEF Nested, Top
  <2> QED BY <1>2, <2>1 DEF SearchInv, EventsInv, StackInv
<1>14. \A n \in DOMAIN events : n # Len(events) => events[n].at = "done"
  <2> SUFFICES ASSUME NEW n \in DOMAIN events, n # Len(events) PROVE events[n].at = "done"
    OBVIOUS
  <2>1. n + 1 \in DOMAIN events /\ Joined(events[n], events[n + 1])
    BY <1>2 DEF Nested
  <2>2. ASSUME events[n].at = "finishing" PROVE FALSE
    <3>1. events[n + 1].kind = "search" /\ events[n + 1].at = "user"
      BY <1>2, <2>1, <2>2 DEF Joined, Nested
    <3>2. n + 1 # Len(events)
      BY <1>13, <3>1 DEF Top
    <3>3. (n + 1) + 1 \in DOMAIN events
      BY <1>2, <2>1, <3>2
    <3>4. Joined(events[n + 1], events[(n + 1) + 1])
      BY <1>2, <2>1, <3>3 DEF Nested
    <3> QED BY <3>1, <3>4 DEF Joined
  <2> QED BY <2>1, <2>2 DEF Joined
<1> DEFINE stack == Returned("done")
<1>15. /\ Nested(stack) /\ DOMAIN stack = DOMAIN events
       /\ \A n \in DOMAIN stack : stack[n].at # "callback"
       /\ \A n \in DOMAIN stack : n # Len(events) => stack[n] = events[n]
       /\ stack[Len(events)].at = "done"
  BY <1>2, <1>13, NestedReturned
<1> HIDE DEF stack
<1>16. events' = stack
  BY <1>4 DEF stack
<1>17. ShapeInv'
  BY <1>15, <1>16, PrimedTables DEF ShapeInv, Called
<1>18. Doomed'
  BY <1>4, <1>14, <1>15, <1>16 DEF Doomed
<1>19. ReadyInv'
  BY <1>18 DEF ReadyInv
<1> QED BY <1>11, <1>12, <1>17, <1>18, <1>19 DEF TablesInv

-----------------------------------------------------------------------------
LEMMA TablesInvInit == Init => TablesInv
<1> SUFFICES ASSUME Init PROVE TablesInv
  OBVIOUS
<1>1. /\ listeners = <<>> /\ events = <<>>
      /\ tune = [t \in Tuner |-> FreshTune] /\ search = [s \in SearchId |-> NoSearch]
  BY DEF Init
<1>2. Searching = {} /\ \A s \in SearchId : search[s].disturbed = FALSE
  BY <1>1 DEF Searching, NoSearch
<1>3. \A t \in Tuner : TunedRight(t, tune[t])
  BY <1>1 DEF TunedRight, FreshTune, Numbers
<1>4. ParametersInv /\ OnceInv /\ DisturbedInv
  <2>1. OneEach(<<>>)
    BY DEF OneEach
  <2>2. \A s \in SearchId : search[s].disturbed \in BOOLEAN
    BY <1>2
  <2> QED BY <1>1, <1>2, <1>3, <2>1, <2>2 DEF ParametersInv, OnceInv, DisturbedInv
<1>5. ShapeInv /\ ReadyInv
  BY <1>1 DEF ShapeInv, Nested, Called, ReadyInv, ReadyIn
<1> QED BY <1>4, <1>5 DEF TablesInv

LEMMA TablesInvStep == FromUhf /\ RestoreInv /\ TablesInv /\ [Next]_vars => TablesInv'
<1> SUFFICES ASSUME FromUhf, RestoreInv, TablesInv, [Next]_vars PROVE TablesInv'
  OBVIOUS
<1>1. CASE UNCHANGED vars
  <2>1. /\ UNCHANGED <<listeners, event_propagation, events, tune, tables, search>>
        /\ SearchInv
    BY <1>1 DEF vars, RestoreInv
  <2>2. Searching' = Searching /\ \A t : (Held(t))' <=> Held(t)
    BY <2>1 DEF Searching, Held, Active
  <2>3. /\ \A t : HasTables(t)' <=> HasTables(t)
        /\ Doomed' <=> Doomed
    BY <2>1 DEF HasTables, DecoderOf, Doomed
  <2>4. \A s \in SearchId : StillDisturbed(search'[s], search[s])
    BY <2>1 DEF TablesInv, DisturbedInv, StillDisturbed
  <2>5. ParametersInv' /\ OnceInv' /\ DisturbedInv'
    BY <2>1, <2>2, <2>4, SameTuning, HistoryUntouched DEF TablesInv
  <2>6. ShapeInv'
    BY <2>1, PrimedTables DEF TablesInv, ShapeInv
  <2>7. ReadyInv'
    BY <2>1, <2>2, <2>3, PrimedTables DEF TablesInv, ReadyInv
  <2> QED BY <2>5, <2>6, <2>7 DEF TablesInv
<1>2. CASE Client
  BY <1>2, TunerSearchTables, AskEndTables, RegisterTables, RemoveListenerTables DEF Client
<1>3. CASE Library
  BY <1>3, CallbackTables, FinishSearchTables DEF Library
<1>4. CASE NextListener \/ MainLoop
  BY <1>4, NextListenerTables, MainLoopTables
<1> QED BY <1>1, <1>2, <1>3, <1>4 DEF Next

(* The READY callback of a search follows tune->mydvb and its tables       *)
(* without a look (__mydvb_search_ready_callback): they are there, if only *)
(* events of its own tuner have reached the search, whatever was started,  *)
(* removed or ended in the callbacks of the events around it.              *)
THEOREM ReadyHasTablesCorrect == FromUhf => (Spec => []ReadyHasTables)
<1> SUFFICES ASSUME FromUhf PROVE Spec => []ReadyHasTables
  OBVIOUS
<1>1. RestoreInv /\ TablesInv => ReadyHasTables
  <2> SUFFICES ASSUME RestoreInv, TablesInv, Calling("ready"), ~search[Top.search].disturbed,
                      Top.tuner = search[Top.search].tuner
               PROVE  HasTables(search[Top.search].tuner)
    BY DEF ReadyHasTables
  <2>1. /\ Top.search \in Searching /\ search[Top.search].tuner \in Tuner
        /\ TypeOK /\ events # <<>> /\ Top.kind = "ready" /\ Top.at = "callback"
    BY CallbackAlone DEF Calling
  <2>2. /\ Len(events) \in DOMAIN events /\ Top = events[Len(events)]
    BY <2>1 DEF TypeOK, Top
  <2>3. Len(events) \in ReadyIn(events)
    BY <2>1, <2>2 DEF ReadyIn
  <2>4. ~Doomed
    BY <2>1, <2>2 DEF Doomed
  <2> QED BY <2>1, <2>2, <2>3, <2>4 DEF TablesInv, ReadyInv
<1>2. FromUhf /\ RestoreInv /\ TablesInv /\ [Next]_vars => (RestoreInv /\ TablesInv)'
  BY RestoreInvStep, TablesInvStep
<1> QED BY <1>1, <1>2, RestoreInvInit, TablesInvInit, PTL DEF Spec
=============================================================================
