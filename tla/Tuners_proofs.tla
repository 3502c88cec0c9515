--------------------------- MODULE Tuners_proofs ----------------------------
(* Proofs about the tuners of module Tuners, for every value of its        *)
(* constants.  First their users: how many there are, who is tuning, the   *)
(* channel a tuner is on, and its decoder.  Then the descriptors tuners    *)
(* own: whose they are, which are open and which are polled, and the       *)
(* filters of programs.  See README.md, "What is proved".                  *)
EXTENDS Tuners, FiniteSetTheorems, SequenceTheorems, WellFoundedInduction, TLAPS

-----------------------------------------------------------------------------
(* Lemmas about the operators.                                             *)

(* An open returns a free descriptor, or fails. *)
LEMMA OpenResultType ==
  ASSUME NEW used, NEW f \in OpenResult(used)
  PROVE  f \in Fd \cup {NoFd} /\ (f # NoFd => f \in Fd \ used)
BY DEF OpenResult

(* Adding a filter keeps a table a finite set of entries. *)
LEMMA AddFilterType ==
  ASSUME NEW table \in SUBSET Entry, IsFiniteSet(table),
         NEW pid \in Pid, NEW f \in Fd \cup {NoFd}
  PROVE  AddFilter(table, pid, f) \in SUBSET Entry /\ IsFiniteSet(AddFilter(table, pid, f))
<1>1. Cardinality(table) \in Nat
  BY FS_CardinalityType
<1>2. CASE f = NoFd
  BY <1>2 DEF AddFilter
<1>3. CASE f # NoFd
  <2> DEFINE e == [pid |-> pid, fd |-> f, slot |-> Cardinality(table) + 1]
  <2>1. e \in Entry
    BY <1>1, <1>3 DEF Entry
  <2>2. AddFilter(table, pid, f) = table \cup {e}
    BY <1>3 DEF AddFilter
  <2> HIDE DEF e
  <2>3. IsFiniteSet(table \cup {e})
    BY FS_AddElement
  <2> QED BY <2>1, <2>2, <2>3
<1> QED BY <1>2, <1>3

(* Removing a pid keeps a table a finite set of entries, and adds no       *)
(* descriptor to it.                                                       *)
LEMMA RemoveFiltersType ==
  ASSUME NEW table \in SUBSET Entry, IsFiniteSet(table), NEW pid
  PROVE  /\ RemoveFilters(table, pid) \in SUBSET Entry
         /\ IsFiniteSet(RemoveFilters(table, pid))
         /\ FdsOf(RemoveFilters(table, pid)) \subseteq FdsOf(table)
<1> DEFINE gone     == Dropped(table, pid)
           Shift(e) == Cardinality({d \in gone : d.slot < e.slot})
           Moved(e) == [e EXCEPT !.slot = @ - Shift(e)]
           kept     == table \ gone
           result   == {Moved(e) : e \in kept}
<1>1. RemoveFilters(table, pid) = result
  BY DEF RemoveFilters
<1>2. gone \in SUBSET table
  BY DEF Dropped
<1>3. \A e \in kept : Shift(e) \in Int
  <2> TAKE e \in kept
  <2>1. {d \in gone : d.slot < e.slot} \in SUBSET table
    BY <1>2
  <2>2. IsFiniteSet({d \in gone : d.slot < e.slot})
    BY <2>1, FS_Subset
  <2> QED BY <2>2, FS_CardinalityType
<1>4. \A e \in kept : Moved(e) \in Entry /\ Moved(e).fd = e.fd
  <2> HIDE DEF Shift, gone
  <2> QED BY <1>3 DEF Entry
<1>5. IsFiniteSet(kept)
  BY FS_Subset
<1>6. IsFiniteSet(result)
  <2> DEFINE g == [e \in kept |-> Moved(e)]
  <2> HIDE DEF Moved, kept
  <2>1. g \in Surjection(kept, result)
    BY DEF Surjection
  <2> QED BY <1>5, <2>1, FS_Surjection
<1>7. FdsOf(result) \subseteq FdsOf(table)
  <2> HIDE DEF Moved, gone
  <2> QED BY <1>4 DEF FdsOf
<1> QED BY <1>1, <1>4, <1>6, <1>7

-----------------------------------------------------------------------------
(* The types of the variables, with what makes the descriptors of a table  *)
(* and the stack of calls well defined.                                    *)
TypeInv == TypeOK /\ TablesFinite /\ CallsAreStacked /\ ClientsHaveTuners

(* A state of a tuner that a step may store. *)
GoodTune(r) == r \in TuneState /\ IsFiniteSet(r.sct) /\ IsFiniteSet(r.pes)

LEMMA PidTypes ==
  /\ PAT_PID \in Pid /\ NIT_PID \in Pid /\ SDT_PID \in Pid /\ EIT_PID \in Pid
  /\ \A p \in Program : PmtPid[p] \in Pid /\ StreamPid[p] \in Pid
BY DEF Pid

LEMMA ClosedTuneGood ==
  ASSUME NEW r, GoodTune(r)
  PROVE  GoodTune(ClosedTune(r))
<1>1. ClosedTune(r) \in TuneState
  <2>1. r \in TuneState
    BY DEF GoodTune
  <2>2. 0 \in 0..TuneSeconds /\ "NOOP" \in Status
    BY DEF TuneSeconds, Status
  <2>3. FALSE \in BOOLEAN
    OBVIOUS
  <2> QED BY <2>1, <2>2, <2>3 DEF ClosedTune, TuneState
<1>2. ClosedTune(r).sct = {} /\ ClosedTune(r).pes = {}
  BY DEF GoodTune, ClosedTune, TuneState
<1> QED BY <1>1, <1>2, FS_EmptySet DEF GoodTune

LEMMA InitTypeInv == Init => TypeInv
<1> SUFFICES ASSUME Init PROVE TypeInv
  OBVIOUS
<1>1. FreshTune \in TuneState
  BY DEF FreshTune, TuneState, Status, TuneSeconds
<1>2. TypeOK
  <2>1. NoClient \in ClientState
    BY DEF NoClient, ClientState
  <2>2. NTuners + 1 \in 1..NTuners + 1
    BY TunersAssumption
  <2>3. tune \in [Tuner -> TuneState] /\ client \in [Client -> ClientState]
    BY <1>1, <2>1 DEF Init
  <2>4. polled = {} /\ open = {} /\ calls = <<>> /\ due \in BOOLEAN /\ up \in BOOLEAN /\ patRead = {}
    BY DEF Init
  <2>5. checking \in 1..NTuners + 1
    BY <2>2 DEF Init
  <2> QED BY <2>3, <2>4, <2>5 DEF TypeOK
<1>3. TablesFinite
  BY FS_EmptySet DEF Init, TablesFinite, FreshTune
<1>4. CallsAreStacked
  BY DEF Init, CallsAreStacked
<1>5. ClientsHaveTuners
  BY DEF Init, ClientsHaveTuners, NoClient, NoTuner, Tuner
<1> QED BY <1>2, <1>3, <1>4, <1>5 DEF TypeInv

(* A step that leaves the clients on their tuners, the tuners on the       *)
(* channel asked of them and the calls as they are.                        *)
LEMMA SameUseStep ==
  ASSUME TypeInv,
         tune' \in [Tuner -> TuneState],
         \A t \in Tuner : GoodTune(tune'[t]) /\ tune'[t].p = tune[t].p,
         client' \in [Client -> ClientState],
         \A cl \in Client : /\ client'[cl].phase = client[cl].phase
                            /\ client'[cl].tuner = client[cl].tuner,
         polled' \in SUBSET Fd, open' \in SUBSET Fd,
         checking' \in 1..NTuners + 1, due' \in BOOLEAN, patRead' \in SUBSET Decoder, up' \in BOOLEAN,
         UNCHANGED calls
  PROVE  TypeInv'
<1>1. TypeOK'
  BY DEF TypeInv, TypeOK
<1>2. TablesFinite'
  BY DEF TablesFinite, GoodTune
<1>3. CallsAreStacked'
  BY DEF TypeInv, TypeOK, CallsAreStacked
<1>4. ClientsHaveTuners'
  <2> SUFFICES ASSUME NEW cl \in Client
               PROVE  /\ client'[cl].phase # "none" <=> client'[cl].tuner \in Tuner
                      /\ client'[cl].phase = "calling" => tune'[client'[cl].tuner].p \in Channel
    BY DEF ClientsHaveTuners
  <2>1. /\ client[cl].phase # "none" <=> client[cl].tuner \in Tuner
        /\ client[cl].phase = "calling" => tune[client[cl].tuner].p \in Channel
    BY DEF TypeInv, ClientsHaveTuners
  <2> QED BY <2>1
<1> QED BY <1>1, <1>2, <1>3, <1>4 DEF TypeInv

(* The same when one tuner changes. *)
LEMMA OneTunerStep ==
  ASSUME TypeInv, NEW t \in Tuner, NEW r, GoodTune(r),
         tune' = [tune EXCEPT ![t] = r], r.p = tune[t].p,
         client' \in [Client -> ClientState],
         \A cl \in Client : /\ client'[cl].phase = client[cl].phase
                            /\ client'[cl].tuner = client[cl].tuner,
         polled' \in SUBSET Fd, open' \in SUBSET Fd,
         checking' \in 1..NTuners + 1, patRead' \in SUBSET Decoder,
         UNCHANGED <<calls, due, up>>
  PROVE  TypeInv'
<1>1. tune \in [Tuner -> TuneState] /\ due \in BOOLEAN /\ up \in BOOLEAN
  BY DEF TypeInv, TypeOK
<1>2. tune' \in [Tuner -> TuneState]
  BY <1>1 DEF GoodTune
<1>3. \A u \in Tuner : GoodTune(tune[u])
  BY <1>1 DEF TypeInv, TablesFinite, GoodTune
<1>4. \A u \in Tuner : GoodTune(tune'[u]) /\ tune'[u].p = tune[u].p
  BY <1>1, <1>3
<1> QED BY <1>1, <1>2, <1>4, SameUseStep

(* One lemma per action of a client, of the library and of the main loop.  *)
LEMMA TunerChannelShareTypes ==
  ASSUME TypeInv, NEW cl \in Client, NEW c \in Channel, TunerChannelShare(cl, c)
  PROVE  TypeInv'
<1>1. PICK t \in Tuner :
        /\ IsFirst(t, Sharable(c))
        /\ tune' = [tune EXCEPT ![t] = AddUser(tune[t])]
        /\ client' = [client EXCEPT ![cl].phase = "holding", ![cl].tuner = t,
                                    ![cl].channel = c]
  BY DEF TunerChannelShare
<1>2. UNCHANGED <<polled, open, calls, checking, due, patRead, up>> /\ client[cl].phase = "none"
  BY DEF TunerChannelShare
<1>3. tune[t] \in TuneState /\ client[cl] \in ClientState
  BY DEF TypeInv, TypeOK
<1>4. TypeOK'
  <2>1. AddUser(tune[t]) \in TuneState
    BY <1>3 DEF TuneState, AddUser
  <2>2. tune' \in [Tuner -> TuneState]
    BY <1>1, <2>1 DEF TypeInv, TypeOK
  <2>3. client' \in [Client -> ClientState]
    BY <1>1, <1>3 DEF TypeInv, TypeOK, ClientState
  <2> QED BY <1>2, <2>2, <2>3 DEF TypeInv, TypeOK
<1>5. TablesFinite'
  BY <1>1, <1>3 DEF TypeInv, TypeOK, TablesFinite, TuneState, AddUser
<1>6. CallsAreStacked'
  BY <1>1, <1>2 DEF TypeInv, TypeOK, CallsAreStacked, ClientState
<1>7. ClientsHaveTuners'
  BY <1>1, <1>2, <1>3 DEF TypeInv, TypeOK, ClientsHaveTuners, TuneState, ClientState, AddUser
<1> QED BY <1>4, <1>5, <1>6, <1>7 DEF TypeInv

LEMMA TunerChannelOpenTypes ==
  ASSUME TypeInv, NEW cl \in Client, NEW c \in Channel, TunerChannelOpen(cl, c)
  PROVE  TypeInv'
<1>1. PICK t \in Tuner, f \in OpenResult(open) :
        /\ tune' = [tune EXCEPT ![t] = OpenedTune(AddUser(tune[t]), f, c)]
        /\ open' = Opened(open, f)
        /\ polled' = Opened(polled, f)
        /\ client' = [client EXCEPT ![cl].phase = "calling", ![cl].tuner = t,
                                    ![cl].channel = c]
  BY DEF TunerChannelOpen
<1>2. /\ UNCHANGED <<checking, due, patRead, up>> /\ client[cl].phase = "none"
      /\ calls' = Append(calls, cl)
  BY DEF TunerChannelOpen
<1>3. tune[t] \in TuneState /\ client[cl] \in ClientState /\ GoodTune(tune[t])
  BY DEF TypeInv, TypeOK, TablesFinite, GoodTune
<1>4. f \in Fd \cup {NoFd}
  BY OpenResultType
<1>5. GoodTune(OpenedTune(AddUser(tune[t]), f, c))
      /\ OpenedTune(AddUser(tune[t]), f, c).p = c
  <2>1. GoodTune(AddUser(tune[t]))
    BY <1>3 DEF GoodTune, TuneState, AddUser
  <2>2. GoodTune(ClosedTune(AddUser(tune[t])))
    BY <2>1, ClosedTuneGood
  <2>3. CASE f = NoFd
    BY <2>1, <2>3 DEF OpenedTune, GoodTune, TuneState
  <2>4. CASE f # NoFd
    BY <1>4, <2>2, <2>4 DEF OpenedTune, GoodTune, TuneState
  <2> QED BY <2>3, <2>4
<1>6. TypeOK'
  <2>1. tune' \in [Tuner -> TuneState]
    BY <1>1, <1>5 DEF TypeInv, TypeOK, GoodTune
  <2>2. client' \in [Client -> ClientState]
    BY <1>1, <1>3 DEF TypeInv, TypeOK, ClientState
  <2>3. open' \subseteq Fd /\ polled' \subseteq Fd
    BY <1>1, <1>4 DEF TypeInv, TypeOK, Opened, RealFds
  <2>4. calls' \in Seq(Client)
    BY <1>2 DEF TypeInv, TypeOK
  <2> QED BY <1>2, <2>1, <2>2, <2>3, <2>4 DEF TypeInv, TypeOK
<1>7. TablesFinite'
  BY <1>1, <1>5 DEF TypeInv, TypeOK, TablesFinite, GoodTune
<1>8. CallsAreStacked'
  BY <1>1, <1>2 DEF TypeInv, TypeOK, CallsAreStacked, ClientState
<1>9. ClientsHaveTuners'
  BY <1>1, <1>2, <1>3, <1>5 DEF TypeInv, TypeOK, ClientsHaveTuners, TuneState, ClientState
<1> QED BY <1>6, <1>7, <1>8, <1>9 DEF TypeInv

LEMMA TunerChannelTuneTypes ==
  ASSUME TypeInv, TunerChannelTune
  PROVE  TypeInv'
<1> DEFINE cl == calls[Len(calls)]
           t  == client[cl].tuner
<1>1. PICK taken \in BOOLEAN : tune' = [tune EXCEPT ![t] = TriedTune(tune[t], taken)]
  BY DEF TunerChannelTune
<1>2. /\ calls # <<>>
      /\ client' = [client EXCEPT ![cl].phase = "holding"]
      /\ calls' = SubSeq(calls, 1, Len(calls) - 1)
      /\ UNCHANGED <<polled, open, checking, due, patRead, up>>
  BY DEF TunerChannelTune
<1>3. Len(calls) \in Nat \ {0} /\ cl \in Client
  BY <1>2 DEF TypeInv, TypeOK
<1>4. client[cl].phase = "calling" /\ client[cl] \in ClientState
  BY <1>3 DEF TypeInv, TypeOK, CallsAreStacked
<1>5. t \in Tuner /\ tune[t].p \in Channel
  BY <1>3, <1>4 DEF TypeInv, ClientsHaveTuners
<1>6. tune[t] \in TuneState /\ GoodTune(tune[t])
  BY <1>5 DEF TypeInv, TypeOK, TablesFinite, GoodTune
<1>7. Number[tune[t].p] \in Int
  BY <1>5, TunersAssumption
<1>8. GoodTune(TriedTune(tune[t], taken)) /\ TriedTune(tune[t], taken).p = tune[t].p
  <2>1. "TRYING" \in Status /\ 0 \in 0..TuneSeconds
    BY DEF Status, TuneSeconds
  <2>2. CASE taken
    BY <1>5, <1>6, <1>7, <2>1, <2>2 DEF GoodTune, TuneState, TriedTune
  <2>3. CASE ~taken
    BY <1>6, <2>1, <2>3 DEF GoodTune, TuneState, TriedTune
  <2> QED BY <2>2, <2>3
<1> HIDE DEF t, cl
<1>9. TypeOK'
  <2>1. tune' \in [Tuner -> TuneState]
    BY <1>1, <1>5, <1>8 DEF TypeInv, TypeOK, GoodTune
  <2>2. client' \in [Client -> ClientState]
    BY <1>2, <1>3, <1>4 DEF TypeInv, TypeOK, ClientState
  <2>3. calls' \in Seq(Client)
    BY <1>2, <1>3 DEF TypeInv, TypeOK
  <2> QED BY <1>2, <2>1, <2>2, <2>3 DEF TypeInv, TypeOK
<1>10. TablesFinite'
  BY <1>1, <1>5, <1>8 DEF TypeInv, TypeOK, TablesFinite, GoodTune
<1>11. CallsAreStacked'
  <2>1. calls \in Seq(Client)
    BY DEF TypeInv, TypeOK
  <2>2. /\ Len(calls') = Len(calls) - 1
        /\ \A i \in 1..Len(calls) - 1 : calls'[i] = calls[i]
    <3> DEFINE n == Len(calls) - 1
    <3>1. n \in Nat /\ \A i \in 1..n : calls[i] \in Client
      BY <1>3, <2>1
    <3>2. calls' = SubSeq(calls, 1, n)
      BY <1>2
    <3> HIDE DEF n
    <3>3. /\ Len(SubSeq(calls, 1, n)) = IF 1 <= n THEN n - 1 + 1 ELSE 0
          /\ \A i \in 1..n - 1 + 1 : SubSeq(calls, 1, n)[i] = calls[1 + i - 1]
      BY <3>1, SubSeqProperties
    <3>4. Len(calls') = n /\ \A i \in 1..n : calls'[i] = calls[i]
      BY <3>1, <3>2, <3>3
    <3> QED BY <3>4 DEF n
  <2>3. \A i \in 1..Len(calls) - 1 : calls[i] \in Client /\ calls[i] # cl
    BY <1>3, <2>1 DEF TypeInv, CallsAreStacked, cl
  <2>4. \A i \in 1..Len(calls) - 1 : client'[calls[i]] = client[calls[i]]
    BY <1>2, <1>3, <2>3 DEF TypeInv, TypeOK
  <2> QED BY <1>3, <2>2, <2>4 DEF TypeInv, CallsAreStacked
<1>12. ClientsHaveTuners'
  BY <1>1, <1>2, <1>3, <1>4, <1>5, <1>8
  DEF TypeInv, TypeOK, ClientsHaveTuners, TuneState, ClientState, t
<1> QED BY <1>9, <1>10, <1>11, <1>12 DEF TypeInv

LEMMA TunerReleaseTypes ==
  ASSUME TypeInv, NEW cl \in Client, TunerRelease(cl)
  PROVE  TypeInv'
<1> DEFINE t == client[cl].tuner
           r == IF tune[t].references = 1 THEN ClosedTune(RemoveUser(tune[t]))
                ELSE RemoveUser(tune[t])
<1>1. /\ client[cl].phase = "holding"
      /\ tune' = [tune EXCEPT ![t] = r]
      /\ polled' \subseteq polled /\ open' \subseteq open
      /\ client' = [client EXCEPT ![cl] = NoClient]
      /\ UNCHANGED <<calls, checking, due, patRead, up>>
  BY DEF TunerRelease
<1>2. client \in [Client -> ClientState] /\ tune \in [Tuner -> TuneState]
  BY DEF TypeInv, TypeOK
<1>3. t \in Tuner
  BY <1>1 DEF TypeInv, ClientsHaveTuners
<1>4. GoodTune(tune[t])
  BY <1>2, <1>3 DEF TypeInv, TablesFinite, GoodTune
<1>5. GoodTune(RemoveUser(tune[t])) /\ RemoveUser(tune[t]).p = tune[t].p
  BY <1>4 DEF GoodTune, TuneState, RemoveUser
<1>6. GoodTune(r) /\ r.p = tune[t].p
  <2>1. /\ GoodTune(ClosedTune(RemoveUser(tune[t])))
        /\ ClosedTune(RemoveUser(tune[t])).p = RemoveUser(tune[t]).p
    <3> HIDE DEF t
    <3>1. RemoveUser(tune[t]) \in TuneState
      BY <1>5 DEF GoodTune
    <3>2. ClosedTune(RemoveUser(tune[t])).p = RemoveUser(tune[t]).p
      BY <3>1 DEF ClosedTune, TuneState
    <3> QED BY <1>5, <3>2, ClosedTuneGood
  <2> QED BY <1>5, <2>1
<1> HIDE DEF t, r
<1>7. TypeOK'
  <2>1. NoClient \in ClientState
    BY DEF NoClient, ClientState
  <2>2. tune' \in [Tuner -> TuneState]
    BY <1>1, <1>2, <1>6 DEF GoodTune
  <2>3. client' \in [Client -> ClientState]
    BY <1>1, <1>2, <2>1
  <2> QED BY <1>1, <2>2, <2>3 DEF TypeInv, TypeOK
<1>8. TablesFinite'
  BY <1>1, <1>2, <1>6 DEF TypeInv, TablesFinite, GoodTune
<1>9. CallsAreStacked'
  <2>1. calls \in Seq(Client)
    BY DEF TypeInv, TypeOK
  <2>2. \A i \in 1..Len(calls) : calls[i] \in Client /\ calls[i] # cl
    BY <1>1, <2>1 DEF TypeInv, CallsAreStacked
  <2> QED BY <1>1, <1>2, <2>2 DEF TypeInv, CallsAreStacked
<1>10. ClientsHaveTuners'
  <2> SUFFICES ASSUME NEW d \in Client
               PROVE  /\ client'[d].phase # "none" <=> client'[d].tuner \in Tuner
                      /\ client'[d].phase = "calling" => tune'[client'[d].tuner].p \in Channel
    BY DEF ClientsHaveTuners
  <2>1. /\ client[d].phase # "none" <=> client[d].tuner \in Tuner
        /\ client[d].phase = "calling" => tune[client[d].tuner].p \in Channel
    BY DEF TypeInv, ClientsHaveTuners
  <2>2. CASE d = cl
    BY <1>1, <1>2, <2>2 DEF NoClient, NoTuner, Tuner
  <2>3. CASE d # cl
    <3>1. client'[d] = client[d]
      BY <1>1, <1>2, <2>3
    <3>2. client[d].tuner \in Tuner => tune'[client[d].tuner].p = tune[client[d].tuner].p
      BY <1>1, <1>2, <1>6
    <3> QED BY <2>1, <3>1, <3>2
  <2> QED BY <2>2, <2>3
<1> QED BY <1>7, <1>8, <1>9, <1>10 DEF TypeInv

(* New filter tables, and a new dvr, in a good tuner. *)
LEMMA FiltersGood ==
  ASSUME NEW r, GoodTune(r),
         NEW sct \in SUBSET Entry, IsFiniteSet(sct),
         NEW pes \in SUBSET Entry, IsFiniteSet(pes),
         NEW dvr \in Fd \cup {NoFd}, NEW b \in BOOLEAN
  PROVE  /\ GoodTune([r EXCEPT !.sct = sct])
         /\ GoodTune([r EXCEPT !.pes = pes])
         /\ GoodTune([r EXCEPT !.pes = pes, !.sct = sct])
         /\ GoodTune([r EXCEPT !.sct = sct, !.pes = pes])
         /\ GoodTune([r EXCEPT !.sct = sct, !.pes = pes, !.fd_dvr = dvr, !.mydvb = b])
         /\ GoodTune([r EXCEPT !.fd_dvr = dvr, !.sct = sct, !.pes = pes, !.mydvb = b])
BY DEF GoodTune, TuneState

(* The tuner of a client that holds one. *)
LEMMA HeldTuner ==
  ASSUME TypeInv, NEW cl \in Client, client[cl].phase = "holding"
  PROVE  /\ client[cl].tuner \in Tuner
         /\ GoodTune(tune[client[cl].tuner])
         /\ client[cl] \in ClientState
BY DEF TypeInv, TypeOK, TablesFinite, ClientsHaveTuners, GoodTune

LEMMA StartDecoderTypes ==
  ASSUME TypeInv, NEW cl \in Client, StartDecoder(cl)
  PROVE  TypeInv'
<1> DEFINE t == client[cl].tuner
           r == tune[t]
<1>1. PICK pat \in OpenResult(open) :
      \E pes \in OpenResult(Opened(open, pat)) :
      \E sdt \in OpenResult(open \cup RealFds({pat, pes})) :
      \E eit \in OpenResult(open \cup RealFds({pat, pes, sdt})) :
      \E dvr \in OpenResult(open \cup RealFds({pat, pes, sdt, eit})) :
        /\ tune' = [tune EXCEPT ![t] =
             [r EXCEPT
               !.sct = AddFilter(AddFilter(AddFilter(r.sct, PAT_PID, pat),
                                           SDT_PID, sdt), EIT_PID, eit),
               !.pes = AddFilter(r.pes, PAT_PID, pes),
               !.fd_dvr = dvr, !.mydvb = TRUE]]
        /\ open' = open \cup RealFds({pat, pes, sdt, eit, dvr})
        /\ polled' = polled \cup RealFds({pat, sdt, eit, dvr})
  BY DEF StartDecoder
<1>2. PICK pes \in Fd \cup {NoFd}, sdt \in Fd \cup {NoFd},
           eit \in Fd \cup {NoFd}, dvr \in Fd \cup {NoFd} :
        /\ tune' = [tune EXCEPT ![t] =
             [r EXCEPT
               !.sct = AddFilter(AddFilter(AddFilter(r.sct, PAT_PID, pat),
                                           SDT_PID, sdt), EIT_PID, eit),
               !.pes = AddFilter(r.pes, PAT_PID, pes),
               !.fd_dvr = dvr, !.mydvb = TRUE]]
        /\ open' = open \cup RealFds({pat, pes, sdt, eit, dvr})
        /\ polled' = polled \cup RealFds({pat, sdt, eit, dvr})
  BY <1>1, OpenResultType
<1>3. pat \in Fd \cup {NoFd}
  BY OpenResultType
<1>4. client[cl].phase = "holding" /\ UNCHANGED <<client, calls, checking, due, patRead, up>>
  BY DEF StartDecoder
<1>5. t \in Tuner /\ GoodTune(r)
  BY <1>4, HeldTuner
<1> HIDE DEF t
<1> DEFINE s1 == AddFilter(r.sct, PAT_PID, pat)
           s2 == AddFilter(s1, SDT_PID, sdt)
           s3 == AddFilter(s2, EIT_PID, eit)
           ps == AddFilter(r.pes, PAT_PID, pes)
           new == [r EXCEPT !.sct = s3, !.pes = ps, !.fd_dvr = dvr, !.mydvb = TRUE]
<1>6. r \in TuneState /\ r.sct \in SUBSET Entry /\ r.pes \in SUBSET Entry
      /\ IsFiniteSet(r.sct) /\ IsFiniteSet(r.pes)
  BY <1>5 DEF GoodTune, TuneState
<1>7. s1 \in SUBSET Entry /\ IsFiniteSet(s1)
  BY <1>3, <1>6, AddFilterType, PidTypes
<1>8. ps \in SUBSET Entry /\ IsFiniteSet(ps)
  BY <1>2, <1>6, AddFilterType, PidTypes
<1> HIDE DEF s1, ps
<1>9. s2 \in SUBSET Entry /\ IsFiniteSet(s2)
  BY <1>2, <1>7, AddFilterType, PidTypes
<1> HIDE DEF s2
<1>10. s3 \in SUBSET Entry /\ IsFiniteSet(s3)
  BY <1>2, <1>9, AddFilterType, PidTypes
<1> HIDE DEF s3
<1>11. GoodTune(new)
  BY <1>2, <1>5, <1>8, <1>10, FiltersGood
<1>12. new.p = r.p
  BY <1>6 DEF TuneState
<1>13. tune' = [tune EXCEPT ![t] = new]
  BY <1>2 DEF s1, s2, s3, ps
<1> HIDE DEF new
<1>14. polled' \in SUBSET Fd /\ open' \in SUBSET Fd
  BY <1>2, <1>3 DEF RealFds, TypeInv, TypeOK
<1> QED
  BY <1>4, <1>5, <1>11, <1>12, <1>13, <1>14, OneTunerStep DEF TypeInv, TypeOK

LEMMA StopDecoderTypes ==
  ASSUME TypeInv, NEW cl \in Client, StopDecoder(cl)
  PROVE  TypeInv'
<1> DEFINE t == client[cl].tuner
           new == [tune[t] EXCEPT !.fd_dvr = NoFd, !.sct = {}, !.pes = {}, !.mydvb = FALSE]
<1>1. /\ client[cl].phase = "holding"
      /\ tune' = [tune EXCEPT ![t] = new]
      /\ polled' \subseteq polled /\ open' \subseteq open
      /\ UNCHANGED <<client, calls, checking, due, patRead, up>>
  BY DEF StopDecoder
<1>2. t \in Tuner /\ GoodTune(tune[t])
  BY <1>1, HeldTuner
<1> HIDE DEF t
<1>3. GoodTune(new)
  BY <1>2, FiltersGood, FS_EmptySet
<1>4. new.p = tune[t].p
  BY <1>2 DEF GoodTune, TuneState
<1> HIDE DEF new
<1> QED BY <1>1, <1>2, <1>3, <1>4, OneTunerStep DEF TypeInv, TypeOK

(* A step that only replaces the filter tables of a held tuner.            *)
LEMMA TablesStep ==
  ASSUME TypeInv, NEW cl \in Client, client[cl].phase = "holding",
         NEW sct \in SUBSET Entry, IsFiniteSet(sct),
         NEW pes \in SUBSET Entry, IsFiniteSet(pes),
         tune' = [tune EXCEPT ![client[cl].tuner] =
                    [tune[client[cl].tuner] EXCEPT !.sct = sct, !.pes = pes]],
         NEW ps \in SUBSET Program, NEW ss \in SUBSET Program,
         client' = [client EXCEPT ![cl].programs = ps, ![cl].streams = ss],
         polled' \in SUBSET Fd, open' \in SUBSET Fd,
         UNCHANGED <<calls, checking, due, patRead, up>>
  PROVE  TypeInv'
<1> DEFINE t == client[cl].tuner
           new == [tune[t] EXCEPT !.sct = sct, !.pes = pes]
<1>1. t \in Tuner /\ GoodTune(tune[t]) /\ client[cl] \in ClientState
  BY HeldTuner
<1> HIDE DEF t
<1>2. GoodTune(new)
  BY <1>1 DEF GoodTune, TuneState
<1>3. new.p = tune[t].p
  BY <1>1 DEF GoodTune, TuneState
<1>4. tune' = [tune EXCEPT ![t] = new]
  BY DEF t
<1> HIDE DEF new
<1>5. /\ client \in [Client -> ClientState] /\ checking \in 1..NTuners + 1
      /\ patRead \in SUBSET Decoder
  BY DEF TypeInv, TypeOK
<1>6. client' \in [Client -> ClientState]
  BY <1>1, <1>5 DEF ClientState
<1>7. \A d \in Client : /\ client'[d].phase = client[d].phase
                        /\ client'[d].tuner = client[d].tuner
  BY <1>5 DEF ClientState
<1> QED BY <1>1, <1>2, <1>3, <1>4, <1>5, <1>6, <1>7, OneTunerStep

LEMMA StartProgramTypes ==
  ASSUME TypeInv, NEW cl \in Client, NEW p \in Program, StartProgram(cl, p)
  PROVE  TypeInv'
<1> DEFINE t == client[cl].tuner
<1>1. PICK s \in OpenResult(open) : \E q \in OpenResult(Opened(open, s)) :
        /\ tune' = [tune EXCEPT ![t] =
             [tune[t] EXCEPT !.sct = AddFilter(tune[t].sct, PmtPid[p], s),
                             !.pes = AddFilter(tune[t].pes, PmtPid[p], q)]]
        /\ open' = open \cup RealFds({s, q})
        /\ polled' = Opened(polled, s)
  BY DEF StartProgram
<1>2. PICK q \in OpenResult(Opened(open, s)) :
        /\ tune' = [tune EXCEPT ![t] =
             [tune[t] EXCEPT !.sct = AddFilter(tune[t].sct, PmtPid[p], s),
                             !.pes = AddFilter(tune[t].pes, PmtPid[p], q)]]
        /\ open' = open \cup RealFds({s, q})
        /\ polled' = Opened(polled, s)
  BY <1>1
<1>3. s \in Fd \cup {NoFd} /\ q \in Fd \cup {NoFd}
  BY OpenResultType
<1>4. /\ client[cl].phase = "holding" /\ UNCHANGED <<calls, checking, due, patRead, up>>
      /\ client' = [client EXCEPT ![cl].programs = client[cl].programs \cup {p}]
  BY DEF StartProgram
<1>5. t \in Tuner /\ GoodTune(tune[t]) /\ client[cl] \in ClientState
  BY <1>4, HeldTuner
<1> DEFINE sct == AddFilter(tune[t].sct, PmtPid[p], s)
           pes == AddFilter(tune[t].pes, PmtPid[p], q)
<1>6. /\ sct \in SUBSET Entry /\ IsFiniteSet(sct)
      /\ pes \in SUBSET Entry /\ IsFiniteSet(pes)
  <2>1. PmtPid[p] \in Pid
    BY PidTypes
  <2>2. /\ tune[t].sct \in SUBSET Entry /\ IsFiniteSet(tune[t].sct)
        /\ tune[t].pes \in SUBSET Entry /\ IsFiniteSet(tune[t].pes)
    BY <1>5 DEF GoodTune, TuneState
  <2> HIDE DEF t
  <2>3. sct \in SUBSET Entry /\ IsFiniteSet(sct)
    BY <1>3, <2>1, <2>2, AddFilterType
  <2>4. pes \in SUBSET Entry /\ IsFiniteSet(pes)
    BY <1>3, <2>1, <2>2, AddFilterType
  <2> QED BY <2>3, <2>4
<1>7. client' = [client EXCEPT ![cl].programs = client[cl].programs \cup {p},
                               ![cl].streams = client[cl].streams]
      /\ client[cl].programs \cup {p} \in SUBSET Program
      /\ client[cl].streams \in SUBSET Program
  BY <1>4, <1>5 DEF TypeInv, TypeOK, ClientState
<1>8. polled' \in SUBSET Fd /\ open' \in SUBSET Fd
  BY <1>2, <1>3 DEF RealFds, Opened, TypeInv, TypeOK
<1>9. tune' = [tune EXCEPT ![t] = [tune[t] EXCEPT !.sct = sct, !.pes = pes]]
  BY <1>2
<1> HIDE DEF sct, pes
<1> QED BY <1>4, <1>6, <1>7, <1>8, <1>9, TablesStep

LEMMA StopProgramTypes ==
  ASSUME TypeInv, NEW cl \in Client, NEW p \in Program, StopProgram(cl, p)
  PROVE  TypeInv'
<1> DEFINE t   == client[cl].tuner
           pe1 == RemoveFilters(tune[t].pes, StreamPid[p])
           pes == RemoveFilters(pe1, PmtPid[p])
           sct == RemoveFilters(tune[t].sct, PmtPid[p])
<1>1. /\ client[cl].phase = "holding"
      /\ tune' = [tune EXCEPT ![t] = [tune[t] EXCEPT !.pes = pes, !.sct = sct]]
      /\ polled' \subseteq polled /\ open' \subseteq open
      /\ client' = [client EXCEPT ![cl].programs = client[cl].programs \ {p},
                                  ![cl].streams = client[cl].streams \ {p}]
      /\ UNCHANGED <<calls, checking, due, patRead, up>>
  BY DEF StopProgram
<1>2. t \in Tuner /\ GoodTune(tune[t]) /\ client[cl] \in ClientState
  BY <1>1, HeldTuner
<1>3. /\ tune[t].sct \in SUBSET Entry /\ IsFiniteSet(tune[t].sct)
      /\ tune[t].pes \in SUBSET Entry /\ IsFiniteSet(tune[t].pes)
  BY <1>2 DEF GoodTune, TuneState
<1> HIDE DEF t
<1>4. pe1 \in SUBSET Entry /\ IsFiniteSet(pe1) /\ sct \in SUBSET Entry /\ IsFiniteSet(sct)
  BY <1>3, RemoveFiltersType
<1> HIDE DEF pe1, sct
<1>5. pes \in SUBSET Entry /\ IsFiniteSet(pes)
  BY <1>4, RemoveFiltersType
<1> HIDE DEF pes
<1>6. tune' = [tune EXCEPT ![client[cl].tuner] =
                 [tune[client[cl].tuner] EXCEPT !.sct = sct, !.pes = pes]]
  <2>1. [tune[t] EXCEPT !.pes = pes, !.sct = sct] = [tune[t] EXCEPT !.sct = sct, !.pes = pes]
    BY <1>2 DEF GoodTune, TuneState
  <2> QED BY <1>1, <2>1 DEF t
<1>7. /\ client[cl].programs \ {p} \in SUBSET Program
      /\ client[cl].streams \ {p} \in SUBSET Program
  BY <1>2 DEF ClientState
<1>8. polled' \in SUBSET Fd /\ open' \in SUBSET Fd
  BY <1>1 DEF TypeInv, TypeOK
<1> QED BY <1>1, <1>4, <1>5, <1>6, <1>7, <1>8, TablesStep

LEMMA StartStreamTypes ==
  ASSUME TypeInv, NEW cl \in Client, NEW p \in Program, StartStream(cl, p)
  PROVE  TypeInv'
<1> DEFINE t == client[cl].tuner
<1>1. PICK f \in OpenResult(open) :
        /\ tune' = [tune EXCEPT ![t] =
             [tune[t] EXCEPT !.pes = AddFilter(tune[t].pes, StreamPid[p], f)]]
        /\ open' = Opened(open, f)
  BY DEF StartStream
<1>2. /\ client[cl].phase = "holding" /\ UNCHANGED <<polled, calls, checking, due, patRead, up>>
      /\ client' = [client EXCEPT ![cl].streams = client[cl].streams \cup {p}]
  BY DEF StartStream
<1>3. t \in Tuner /\ GoodTune(tune[t]) /\ client[cl] \in ClientState
  BY <1>2, HeldTuner
<1>4. f \in Fd \cup {NoFd}
  BY OpenResultType
<1> DEFINE sct == tune[t].sct
           pes == AddFilter(tune[t].pes, StreamPid[p], f)
<1>5. /\ sct \in SUBSET Entry /\ IsFiniteSet(sct)
      /\ tune[t].pes \in SUBSET Entry /\ IsFiniteSet(tune[t].pes)
  BY <1>3 DEF GoodTune, TuneState
<1>6. pes \in SUBSET Entry /\ IsFiniteSet(pes)
  <2> HIDE DEF t
  <2> QED BY <1>4, <1>5, AddFilterType, PidTypes
<1>7. tune' = [tune EXCEPT ![client[cl].tuner] =
                 [tune[client[cl].tuner] EXCEPT !.sct = sct, !.pes = pes]]
  <2> HIDE DEF t, pes
  <2>1. [tune[t] EXCEPT !.pes = pes] = [tune[t] EXCEPT !.sct = sct, !.pes = pes]
    BY <1>3 DEF GoodTune, TuneState
  <2> QED BY <1>1, <2>1 DEF t, pes
<1>8. client' = [client EXCEPT ![cl].programs = client[cl].programs,
                               ![cl].streams = client[cl].streams \cup {p}]
      /\ client[cl].streams \cup {p} \in SUBSET Program
      /\ client[cl].programs \in SUBSET Program
  BY <1>2, <1>3 DEF TypeInv, TypeOK, ClientState
<1>9. polled' \in SUBSET Fd /\ open' \in SUBSET Fd
  BY <1>1, <1>2, <1>4 DEF RealFds, Opened, TypeInv, TypeOK
<1> HIDE DEF sct, pes
<1> QED BY <1>2, <1>5, <1>6, <1>7, <1>8, <1>9, TablesStep

LEMMA StopStreamTypes ==
  ASSUME TypeInv, NEW cl \in Client, NEW p \in Program, StopStream(cl, p)
  PROVE  TypeInv'
<1> DEFINE t   == client[cl].tuner
           pes == RemoveFilters(tune[t].pes, StreamPid[p])
           sct == tune[t].sct
<1>1. /\ client[cl].phase = "holding"
      /\ tune' = [tune EXCEPT ![t] = [tune[t] EXCEPT !.pes = pes]]
      /\ open' \subseteq open
      /\ client' = [client EXCEPT ![cl].streams = client[cl].streams \ {p}]
      /\ UNCHANGED <<polled, calls, checking, due, patRead, up>>
  BY DEF StopStream
<1>2. t \in Tuner /\ GoodTune(tune[t]) /\ client[cl] \in ClientState
  BY <1>1, HeldTuner
<1>3. /\ sct \in SUBSET Entry /\ IsFiniteSet(sct)
      /\ tune[t].pes \in SUBSET Entry /\ IsFiniteSet(tune[t].pes)
  BY <1>2 DEF GoodTune, TuneState
<1> HIDE DEF t
<1>4. pes \in SUBSET Entry /\ IsFiniteSet(pes)
  BY <1>3, RemoveFiltersType
<1> HIDE DEF pes
<1>5. tune' = [tune EXCEPT ![client[cl].tuner] =
                 [tune[client[cl].tuner] EXCEPT !.sct = sct, !.pes = pes]]
  <2>1. [tune[t] EXCEPT !.pes = pes] = [tune[t] EXCEPT !.sct = sct, !.pes = pes]
    BY <1>2 DEF GoodTune, TuneState
  <2> QED BY <1>1, <2>1 DEF t
<1>6. client' = [client EXCEPT ![cl].programs = client[cl].programs,
                               ![cl].streams = client[cl].streams \ {p}]
      /\ client[cl].streams \ {p} \in SUBSET Program
      /\ client[cl].programs \in SUBSET Program
  BY <1>1, <1>2 DEF TypeInv, TypeOK, ClientState
<1>7. polled' \in SUBSET Fd /\ open' \in SUBSET Fd
  BY <1>1 DEF TypeInv, TypeOK
<1> HIDE DEF sct
<1> QED BY <1>1, <1>3, <1>4, <1>5, <1>6, <1>7, TablesStep

LEMMA ReadFirstPatTypes ==
  ASSUME TypeInv, NEW t \in Tuner, ReadFirstPat(t)
  PROVE  TypeInv'
<1> DEFINE r == tune[t]
<1>1. PICK f \in OpenResult(open) \cup {NoFd} :
        /\ tune' = [tune EXCEPT ![t] = [r EXCEPT !.sct = AddFilter(r.sct, NIT_PID, f)]]
        /\ open' = Opened(open, f)
        /\ polled' = Opened(polled, f)
  BY DEF ReadFirstPat
<1>2. UNCHANGED <<client, calls, checking, due, up>> /\ patRead' = patRead \cup {DecoderOf(t)}
  BY DEF ReadFirstPat
<1>3. f \in Fd \cup {NoFd}
  BY OpenResultType
<1>4. GoodTune(r)
  BY DEF TypeInv, TypeOK, TablesFinite, GoodTune
<1> DEFINE sct == AddFilter(r.sct, NIT_PID, f)
           new == [r EXCEPT !.sct = sct]
<1>5. sct \in SUBSET Entry /\ IsFiniteSet(sct)
  <2>1. r.sct \in SUBSET Entry /\ IsFiniteSet(r.sct)
    BY <1>4 DEF GoodTune, TuneState
  <2> QED BY <1>3, <2>1, AddFilterType, PidTypes
<1> HIDE DEF sct
<1>6. GoodTune(new) /\ new.p = r.p
  BY <1>4, <1>5 DEF GoodTune, TuneState
<1>7. tune' = [tune EXCEPT ![t] = new]
  BY <1>1 DEF sct
<1> HIDE DEF new
<1>8. polled' \in SUBSET Fd /\ open' \in SUBSET Fd
  BY <1>1, <1>3 DEF RealFds, Opened, TypeInv, TypeOK
<1>9. patRead' \in SUBSET Decoder
  <2>1. DecoderOf(t) \in Decoder
    BY <1>4, TunersAssumption DEF DecoderOf, Decoder, GoodTune, TuneState
  <2> QED BY <1>2, <2>1 DEF TypeInv, TypeOK
<1> QED BY <1>2, <1>6, <1>7, <1>8, <1>9, OneTunerStep DEF TypeInv, TypeOK

LEMMA FrontendEventTypes ==
  ASSUME TypeInv, NEW t \in Tuner, NEW status \in Status, FrontendEvent(t, status)
  PROVE  TypeInv'
<1> DEFINE new == [tune[t] EXCEPT !.status = status, !.age = 0]
<1>1. tune' = [tune EXCEPT ![t] = new]
      /\ UNCHANGED <<polled, open, client, calls, checking, due, patRead, up>>
  BY DEF FrontendEvent
<1>2. GoodTune(tune[t])
  BY DEF TypeInv, TypeOK, TablesFinite, GoodTune
<1>3. GoodTune(new) /\ new.p = tune[t].p
  <2>1. 0 \in 0..TuneSeconds
    BY DEF TuneSeconds
  <2> QED BY <1>2, <2>1 DEF GoodTune, TuneState
<1> HIDE DEF new
<1> QED BY <1>1, <1>3, OneTunerStep DEF TypeInv, TypeOK

LEMMA SecondTypes == TypeInv /\ Second => TypeInv'
<1> SUFFICES ASSUME TypeInv, Second PROVE TypeInv'
  OBVIOUS
<1> DEFINE older(t) == IF tune[t].status = "TRYING" /\ tune[t].age < TuneSeconds
                       THEN [tune[t] EXCEPT !.age = tune[t].age + 1] ELSE tune[t]
<1>1. /\ tune' = [t \in Tuner |-> older(t)] /\ due' = TRUE
      /\ UNCHANGED <<polled, open, client, calls, checking, patRead, up>>
  BY DEF Second
<1>2. \A t \in Tuner : GoodTune(tune[t])
  BY DEF TypeInv, TypeOK, TablesFinite, GoodTune
<1>3. \A t \in Tuner : GoodTune(older(t)) /\ older(t).p = tune[t].p
  <2> SUFFICES ASSUME NEW t \in Tuner
               PROVE  GoodTune(older(t)) /\ older(t).p = tune[t].p
    OBVIOUS
  <2>1. CASE tune[t].status = "TRYING" /\ tune[t].age < TuneSeconds
    <3>1. tune[t].age + 1 \in 0..TuneSeconds
      BY <1>2, <2>1 DEF GoodTune, TuneState, TuneSeconds
    <3> QED BY <1>2, <2>1, <3>1 DEF GoodTune, TuneState
  <2>2. CASE ~(tune[t].status = "TRYING" /\ tune[t].age < TuneSeconds)
    BY <1>2, <2>2
  <2> QED BY <2>1, <2>2
<1> HIDE DEF older
<1>4. tune' \in [Tuner -> TuneState]
  BY <1>1, <1>3 DEF GoodTune
<1>5. \A t \in Tuner : GoodTune(tune'[t]) /\ tune'[t].p = tune[t].p
  BY <1>1, <1>3
<1> QED BY <1>1, <1>4, <1>5, SameUseStep DEF TypeInv, TypeOK

LEMMA PeriodicCheckTypes == TypeInv /\ PeriodicCheck => TypeInv'
<1> SUFFICES ASSUME TypeInv, PeriodicCheck PROVE TypeInv'
  OBVIOUS
<1>1. /\ checking' = 1 /\ due' = FALSE
      /\ UNCHANGED <<tune, polled, open, client, calls, patRead, up>>
  BY DEF PeriodicCheck
<1>2. checking' \in 1..NTuners + 1
  BY <1>1, TunersAssumption
<1>3. \A t \in Tuner : GoodTune(tune'[t]) /\ tune'[t].p = tune[t].p
  BY <1>1 DEF TypeInv, TypeOK, TablesFinite, GoodTune
<1> QED BY <1>1, <1>2, <1>3, SameUseStep DEF TypeInv, TypeOK

LEMMA CheckTunerTypes == TypeInv /\ CheckTuner => TypeInv'
<1> SUFFICES ASSUME TypeInv, CheckTuner PROVE TypeInv'
  OBVIOUS
<1> DEFINE t == checking
           new == IF tune[t].status = "TRYING" /\ tune[t].age >= TuneSeconds
                  THEN [tune[t] EXCEPT !.status = "FAILED", !.age = 0] ELSE tune[t]
<1>1. /\ checking \in Tuner /\ checking' = checking + 1
      /\ UNCHANGED <<polled, open, client, calls, due, patRead, up>>
  BY DEF CheckTuner
<1>2. checking' \in 1..NTuners + 1
  BY <1>1, TunersAssumption DEF Tuner
<1>3. GoodTune(tune[t]) /\ tune \in [Tuner -> TuneState]
  BY <1>1 DEF TypeInv, TypeOK, TablesFinite, GoodTune
<1>4. tune' = [tune EXCEPT ![t] = new]
  BY <1>1, <1>3 DEF CheckTuner
<1>5. GoodTune(new) /\ new.p = tune[t].p
  <2>1. 0 \in 0..TuneSeconds /\ "FAILED" \in Status
    BY DEF TuneSeconds, Status
  <2> QED BY <1>3, <2>1 DEF GoodTune, TuneState
<1> HIDE DEF new
<1> QED BY <1>1, <1>2, <1>4, <1>5, OneTunerStep DEF TypeInv, TypeOK

LEMMA EngineEndTypes == TypeInv /\ EngineEnd => TypeInv'
<1> SUFFICES ASSUME TypeInv, EngineEnd PROVE TypeInv'
  OBVIOUS
<1>1. /\ tune' = [t \in Tuner |-> ClosedTune(tune[t])]
      /\ open' \subseteq open /\ up' = FALSE
      /\ UNCHANGED <<polled, client, calls, checking, due, patRead>>
  BY DEF EngineEnd
<1>2. \A t \in Tuner : GoodTune(ClosedTune(tune[t])) /\ ClosedTune(tune[t]).p = tune[t].p
  <2> SUFFICES ASSUME NEW t \in Tuner
               PROVE  GoodTune(ClosedTune(tune[t])) /\ ClosedTune(tune[t]).p = tune[t].p
    OBVIOUS
  <2>1. GoodTune(tune[t])
    BY DEF TypeInv, TypeOK, TablesFinite, GoodTune
  <2>2. ClosedTune(tune[t]).p = tune[t].p
    BY <2>1 DEF GoodTune, TuneState, ClosedTune
  <2> QED BY <2>1, <2>2, ClosedTuneGood
<1>3. tune' \in [Tuner -> TuneState]
  BY <1>1, <1>2 DEF GoodTune
<1>4. \A t \in Tuner : GoodTune(tune'[t]) /\ tune'[t].p = tune[t].p
  BY <1>1, <1>2
<1> QED BY <1>1, <1>3, <1>4, SameUseStep DEF TypeInv, TypeOK

(* Every step keeps the types. *)
LEMMA NextTypes == TypeInv /\ [Next]_vars => TypeInv'
<1> SUFFICES ASSUME TypeInv, [Next]_vars PROVE TypeInv'
  OBVIOUS
<1>1. ASSUME NEW cl \in Client, ClientStep(cl) PROVE TypeInv'
  <2>1. ASSUME NEW c \in Channel, TunerChannelShare(cl, c) \/ TunerChannelOpen(cl, c)
        PROVE  TypeInv'
    BY <2>1, TunerChannelShareTypes, TunerChannelOpenTypes
  <2>2. ASSUME NEW p \in Program,
               \/ StartProgram(cl, p) \/ StopProgram(cl, p)
               \/ StartStream(cl, p) \/ StopStream(cl, p)
        PROVE  TypeInv'
    BY <2>2, StartProgramTypes, StopProgramTypes, StartStreamTypes, StopStreamTypes
  <2> QED
    BY <1>1, <2>1, <2>2, TunerReleaseTypes, StartDecoderTypes, StopDecoderTypes
    DEF ClientStep
<1>2. ASSUME MainLoopStep PROVE TypeInv'
  <2>1. ASSUME NEW t \in Tuner, FrontendLock(t) \/ FrontendTimedOut(t) PROVE TypeInv'
    <3>1. "LOCK" \in Status /\ "FAILED" \in Status
      BY DEF Status
    <3> QED BY <2>1, <3>1, FrontendEventTypes DEF FrontendLock, FrontendTimedOut
  <2> QED
    BY <1>2, <2>1, ReadFirstPatTypes, SecondTypes, PeriodicCheckTypes, CheckTunerTypes
    DEF MainLoopStep
<1>3. CASE UNCHANGED vars
  BY <1>3 DEF vars, TypeInv, TypeOK, TablesFinite, CallsAreStacked, ClientsHaveTuners
<1> QED BY <1>1, <1>2, <1>3, TunerChannelTuneTypes, EngineEndTypes DEF Next

-----------------------------------------------------------------------------
(* Type correctness: in every reachable state, whatever the numbers of     *)
(* tuners, clients and channels, the variables have their types.           *)
THEOREM TypeCorrect == Spec => []TypeOK
<1>1. TypeInv => TypeOK
  BY DEF TypeInv
<1> QED BY <1>1, InitTypeInv, NextTypes, PTL DEF Spec

-----------------------------------------------------------------------------
(* The users of the tuners.                                                *)

LEMMA UsersFinite == \A t : IsFiniteSet(Users(t))
BY TunersAssumption, FS_Subset DEF Users

(* A tuner that a client has, or is getting, has references. *)
LEMMA UsedTuner ==
  ASSUME TypeInv, ReferencesCountUsers,
         NEW cl \in Client, client[cl].tuner \in Tuner
  PROVE  tune[client[cl].tuner].references \in Nat \ {0}
<1> DEFINE t == client[cl].tuner
<1>1. cl \in Users(t)
  BY DEF Users
<1>2. Cardinality(Users(t)) \in Nat /\ Cardinality(Users(t)) # 0
  BY <1>1, UsersFinite, FS_CardinalityType, FS_EmptySet
<1> QED BY <1>2 DEF ReferencesCountUsers

(* A step that changes neither the users nor the counters, and touches no  *)
(* tuner that is not used.                                                 *)
LEMMA SameUsers ==
  ASSUME TypeInv, ReferencesCountUsers, IdleTunerOwnsNothing,
         \A cl \in Client : client'[cl].tuner = client[cl].tuner,
         \A t \in Tuner : tune'[t].references = tune[t].references,
         \A t \in Tuner : tune[t].references = 0 => IsIdle(tune'[t])
  PROVE  ReferencesCountUsers' /\ IdleTunerOwnsNothing'
<1>1. \A t \in Tuner : Users(t)' = Users(t)
  BY DEF Users
<1>2. ReferencesCountUsers'
  BY <1>1 DEF ReferencesCountUsers
<1>3. IdleTunerOwnsNothing'
  BY DEF IdleTunerOwnsNothing
<1> QED BY <1>2, <1>3

(* The same when one tuner, which is used, changes. *)
LEMMA OneUsedTuner ==
  ASSUME TypeInv, ReferencesCountUsers, IdleTunerOwnsNothing,
         NEW t \in Tuner, NEW r, tune' = [tune EXCEPT ![t] = r],
         r.references = tune[t].references, tune[t].references # 0,
         \A cl \in Client : client'[cl].tuner = client[cl].tuner
  PROVE  ReferencesCountUsers' /\ IdleTunerOwnsNothing'
<1>1. \A u \in Tuner : tune'[u] = IF u = t THEN r ELSE tune[u]
  BY DEF TypeInv, TypeOK
<1>2. \A u \in Tuner : tune'[u].references = tune[u].references
  BY <1>1
<1>3. \A u \in Tuner : tune[u].references = 0 => IsIdle(tune'[u])
  BY <1>1 DEF IdleTunerOwnsNothing
<1> QED BY <1>2, <1>3, SameUsers

(* A client joins a tuner, whose counter goes up by one. *)
LEMMA Joins ==
  ASSUME TypeInv, ReferencesCountUsers, IdleTunerOwnsNothing,
         NEW cl \in Client, client[cl].phase = "none", NEW t \in Tuner, NEW r,
         tune' = [tune EXCEPT ![t] = r], r.references = tune[t].references + 1,
         client'[cl].tuner = t,
         \A d \in Client \ {cl} : client'[d].tuner = client[d].tuner
  PROVE  ReferencesCountUsers' /\ IdleTunerOwnsNothing'
<1>1. \A u \in Tuner : tune'[u] = IF u = t THEN r ELSE tune[u]
  BY DEF TypeInv, TypeOK
<1>2. client[cl].tuner \notin Tuner
  BY DEF TypeInv, ClientsHaveTuners
<1>3. Users(t)' = Users(t) \cup {cl} /\ cl \notin Users(t)
  BY <1>2 DEF Users
<1>4. \A u \in Tuner \ {t} : Users(u)' = Users(u)
  BY <1>2 DEF Users
<1>5. Cardinality(Users(t)') = Cardinality(Users(t)) + 1
  BY <1>3, UsersFinite, FS_AddElement
<1>6. Cardinality(Users(t)) \in Nat
  BY UsersFinite, FS_CardinalityType
<1>7. ReferencesCountUsers'
  <2> SUFFICES ASSUME NEW u \in Tuner
               PROVE  tune'[u].references = Cardinality(Users(u)')
    BY DEF ReferencesCountUsers
  <2> QED BY <1>1, <1>4, <1>5 DEF ReferencesCountUsers
<1>8. r.references # 0
  BY <1>6 DEF ReferencesCountUsers
<1>9. IdleTunerOwnsNothing'
  BY <1>1, <1>8 DEF IdleTunerOwnsNothing
<1> QED BY <1>7, <1>9

(* A client leaves its tuner, whose counter goes down by one. *)
LEMMA Leaves ==
  ASSUME TypeInv, ReferencesCountUsers, IdleTunerOwnsNothing,
         NEW cl \in Client, NEW t \in Tuner, client[cl].tuner = t, NEW r,
         tune' = [tune EXCEPT ![t] = r], r.references = tune[t].references - 1,
         r.references = 0 => IsIdle(r),
         client' = [client EXCEPT ![cl] = NoClient]
  PROVE  ReferencesCountUsers' /\ IdleTunerOwnsNothing'
<1>1. \A u \in Tuner : tune'[u] = IF u = t THEN r ELSE tune[u]
  BY DEF TypeInv, TypeOK
<1>2. \A d \in Client : client'[d] = IF d = cl THEN NoClient ELSE client[d]
  BY DEF TypeInv, TypeOK
<1>3. NoClient.tuner \notin Tuner
  BY DEF NoClient, NoTuner, Tuner
<1>4. Users(t)' = Users(t) \ {cl} /\ cl \in Users(t)
  BY <1>2, <1>3 DEF Users
<1>5. \A u \in Tuner \ {t} : Users(u)' = Users(u)
  BY <1>2, <1>3 DEF Users
<1>6. Cardinality(Users(t)') = Cardinality(Users(t)) - 1
  BY <1>4, UsersFinite, FS_RemoveElement
<1>7. ReferencesCountUsers'
  <2> SUFFICES ASSUME NEW u \in Tuner
               PROVE  tune'[u].references = Cardinality(Users(u)')
    BY DEF ReferencesCountUsers
  <2> QED BY <1>1, <1>5, <1>6 DEF ReferencesCountUsers
<1>8. IdleTunerOwnsNothing'
  BY <1>1 DEF IdleTunerOwnsNothing
<1> QED BY <1>7, <1>8

LEMMA ClosedIsIdle ==
  ASSUME NEW r \in TuneState
  PROVE  IsIdle(ClosedTune(r)) /\ ClosedTune(r).references = r.references
<1>1. /\ ClosedTune(r).status = "NOOP" /\ ~ClosedTune(r).mydvb
      /\ ClosedTune(r).references = r.references
      /\ ClosedTune(r).fd = NoFd /\ ClosedTune(r).fd_dvr = NoFd
      /\ ClosedTune(r).sct = {} /\ ClosedTune(r).pes = {}
  BY DEF ClosedTune, TuneState
<1> HIDE DEF ClosedTune
<1> QED BY <1>1 DEF IsIdle, OwnedFdsOf, PolledFdsOf, RealFds, FdsOf

UsesInv == TypeInv /\ ReferencesCountUsers /\ IdleTunerOwnsNothing

LEMMA JoiningUses ==
  ASSUME UsesInv, NEW cl \in Client, NEW c \in Channel,
         TunerChannelShare(cl, c) \/ TunerChannelOpen(cl, c)
  PROVE  ReferencesCountUsers' /\ IdleTunerOwnsNothing'
<1>1. TypeInv /\ client \in [Client -> ClientState]
  BY DEF UsesInv, TypeInv, TypeOK
<1>2. CASE TunerChannelShare(cl, c)
  <2>1. PICK t \in Tuner :
          /\ tune' = [tune EXCEPT ![t] = AddUser(tune[t])]
          /\ client' = [client EXCEPT ![cl].phase = "holding", ![cl].tuner = t,
                                      ![cl].channel = c]
    BY <1>2 DEF TunerChannelShare
  <2>2. client[cl].phase = "none"
    BY <1>2 DEF TunerChannelShare
  <2>3. client'[cl].tuner = t /\ \A d \in Client \ {cl} : client'[d].tuner = client[d].tuner
    BY <1>1, <2>1 DEF ClientState
  <2>4. AddUser(tune[t]).references = tune[t].references + 1
    BY <1>1 DEF TypeInv, TypeOK, TuneState, AddUser
  <2> QED BY <1>1, <2>1, <2>2, <2>3, <2>4, Joins DEF UsesInv
<1>3. CASE TunerChannelOpen(cl, c)
  <2>1. PICK t \in Tuner, f \in OpenResult(open) :
          /\ tune' = [tune EXCEPT ![t] = OpenedTune(AddUser(tune[t]), f, c)]
          /\ client' = [client EXCEPT ![cl].phase = "calling", ![cl].tuner = t,
                                      ![cl].channel = c]
    BY <1>3 DEF TunerChannelOpen
  <2>2. client[cl].phase = "none"
    BY <1>3 DEF TunerChannelOpen
  <2>3. client'[cl].tuner = t /\ \A d \in Client \ {cl} : client'[d].tuner = client[d].tuner
    BY <1>1, <2>1 DEF ClientState
  <2> DEFINE r == OpenedTune(AddUser(tune[t]), f, c)
  <2>4. r.references = tune[t].references + 1
    BY <1>1 DEF TypeInv, TypeOK, TuneState, AddUser, OpenedTune, ClosedTune
  <2> HIDE DEF r
  <2>5. tune' = [tune EXCEPT ![t] = r]
    BY <2>1 DEF r
  <2> QED BY <1>1, <2>2, <2>3, <2>4, <2>5, Joins DEF UsesInv
<1> QED BY <1>2, <1>3

LEMMA TuningUses ==
  ASSUME UsesInv, TunerChannelTune
  PROVE  ReferencesCountUsers' /\ IdleTunerOwnsNothing'
<1> DEFINE cl == calls[Len(calls)]
           t  == client[cl].tuner
<1>1. PICK taken \in BOOLEAN : tune' = [tune EXCEPT ![t] = TriedTune(tune[t], taken)]
  BY DEF TunerChannelTune
<1>2. calls # <<>> /\ client' = [client EXCEPT ![cl].phase = "holding"]
  BY DEF TunerChannelTune
<1>3. TypeInv /\ client \in [Client -> ClientState] /\ cl \in Client
  BY <1>2 DEF UsesInv, TypeInv, TypeOK
<1>4. Len(calls) \in 1..Len(calls)
  BY <1>2 DEF UsesInv, TypeInv, TypeOK
<1>5. t \in Tuner
  BY <1>3, <1>4 DEF TypeInv, CallsAreStacked, ClientsHaveTuners
<1>6. tune[t].references # 0 /\ tune[t] \in TuneState
  BY <1>3, <1>5, UsedTuner DEF UsesInv, TypeInv, TypeOK
<1>7. TriedTune(tune[t], taken).references = tune[t].references
  BY <1>6 DEF TuneState, TriedTune
<1>8. \A d \in Client : client'[d].tuner = client[d].tuner
  BY <1>2, <1>3 DEF ClientState
<1> HIDE DEF t, cl
<1> QED BY <1>1, <1>3, <1>5, <1>6, <1>7, <1>8, OneUsedTuner DEF UsesInv

LEMMA ReleaseUses ==
  ASSUME UsesInv, NEW cl \in Client, TunerRelease(cl)
  PROVE  ReferencesCountUsers' /\ IdleTunerOwnsNothing'
<1> DEFINE t == client[cl].tuner
           r == IF tune[t].references = 1 THEN ClosedTune(RemoveUser(tune[t]))
                ELSE RemoveUser(tune[t])
<1>1. /\ client[cl].phase = "holding"
      /\ tune' = [tune EXCEPT ![t] = r]
      /\ client' = [client EXCEPT ![cl] = NoClient]
  BY DEF TunerRelease
<1>2. TypeInv /\ t \in Tuner
  BY <1>1 DEF UsesInv, TypeInv, ClientsHaveTuners
<1>3. tune[t] \in TuneState
  BY <1>2 DEF TypeInv, TypeOK
<1> HIDE DEF t
<1>4. RemoveUser(tune[t]) \in TuneState /\ RemoveUser(tune[t]).references = tune[t].references - 1
  BY <1>3 DEF RemoveUser, TuneState
<1>5. r.references = tune[t].references - 1 /\ (r.references = 0 => IsIdle(r))
  <2>1. CASE tune[t].references = 1
    BY <1>4, <2>1, ClosedIsIdle
  <2>2. CASE tune[t].references # 1
    BY <1>3, <1>4, <2>2 DEF TuneState
  <2> QED BY <2>1, <2>2
<1> HIDE DEF r
<1> QED BY <1>1, <1>2, <1>5, Leaves DEF UsesInv, t

(* What a client does with the tuner that it holds. *)
LEMMA HoldingUses ==
  ASSUME UsesInv, NEW cl \in Client, NEW p,
         \/ StartDecoder(cl) \/ StopDecoder(cl)
         \/ StartProgram(cl, p) \/ StopProgram(cl, p)
         \/ StartStream(cl, p) \/ StopStream(cl, p)
  PROVE  ReferencesCountUsers' /\ IdleTunerOwnsNothing'
<1> DEFINE t == client[cl].tuner
<1>1. client[cl].phase = "holding"
  BY DEF StartDecoder, StopDecoder, StartProgram, StopProgram, StartStream, StopStream
<1>2. TypeInv /\ t \in Tuner /\ tune[t] \in TuneState
  BY <1>1 DEF UsesInv, TypeInv, TypeOK, ClientsHaveTuners
<1>3. tune[t].references # 0
  BY <1>2, UsedTuner DEF UsesInv
<1>4. \A d \in Client : client'[d].tuner = client[d].tuner
  <2>1. client \in [Client -> ClientState]
    BY <1>2 DEF TypeInv, TypeOK
  <2>2. CASE client' = client
    BY <2>2
  <2>3. CASE client' # client
    <3>1. \E ps, ss :
            \/ client' = [client EXCEPT ![cl].programs = ps]
            \/ client' = [client EXCEPT ![cl].streams = ss]
            \/ client' = [client EXCEPT ![cl].programs = ps, ![cl].streams = ss]
      <4>1. CASE StartProgram(cl, p)
        BY <4>1 DEF StartProgram
      <4>2. CASE StopProgram(cl, p)
        BY <4>2 DEF StopProgram
      <4>3. CASE StartStream(cl, p)
        BY <4>3 DEF StartStream
      <4>4. CASE StopStream(cl, p)
        BY <4>4 DEF StopStream
      <4>5. CASE StartDecoder(cl) \/ StopDecoder(cl)
        <5>1. client' = client
          BY <4>5 DEF StartDecoder, StopDecoder
        <5> QED BY <2>3, <5>1
      <4> QED BY <4>1, <4>2, <4>3, <4>4, <4>5
    <3> QED BY <2>1, <3>1 DEF ClientState
  <2> QED BY <2>2, <2>3
<1>5. \E r : tune' = [tune EXCEPT ![t] = r] /\ r.references = tune[t].references
  <2>1. CASE StartDecoder(cl)
    <3>1. \E dvr, sct, pes : tune' = [tune EXCEPT ![t] =
            [tune[t] EXCEPT !.sct = sct, !.pes = pes, !.fd_dvr = dvr, !.mydvb = TRUE]]
      BY <2>1 DEF StartDecoder
    <3> HIDE DEF t
    <3>2. PICK dvr, sct, pes : tune' = [tune EXCEPT ![t] =
            [tune[t] EXCEPT !.sct = sct, !.pes = pes, !.fd_dvr = dvr, !.mydvb = TRUE]]
      BY <3>1
    <3>3. [tune[t] EXCEPT !.sct = sct, !.pes = pes, !.fd_dvr = dvr, !.mydvb = TRUE].references
            = tune[t].references
      BY <1>2 DEF TuneState
    <3> QED BY <3>2, <3>3
  <2>2. CASE StopDecoder(cl)
    <3>1. tune' = [tune EXCEPT ![t] =
            [tune[t] EXCEPT !.fd_dvr = NoFd, !.sct = {}, !.pes = {}, !.mydvb = FALSE]]
      BY <2>2 DEF StopDecoder
    <3> HIDE DEF t
    <3>2. [tune[t] EXCEPT !.fd_dvr = NoFd, !.sct = {}, !.pes = {}, !.mydvb = FALSE].references
            = tune[t].references
      BY <1>2 DEF TuneState
    <3> QED BY <3>1, <3>2
  <2>3. CASE StartProgram(cl, p)
    <3>1. \E sct, pes : tune' = [tune EXCEPT ![t] = [tune[t] EXCEPT !.sct = sct, !.pes = pes]]
      BY <2>3 DEF StartProgram
    <3> HIDE DEF t
    <3> QED BY <1>2, <3>1 DEF TuneState
  <2>4. CASE StopProgram(cl, p)
    <3>1. \E sct, pes : tune' = [tune EXCEPT ![t] = [tune[t] EXCEPT !.pes = pes, !.sct = sct]]
      BY <2>4 DEF StopProgram
    <3> HIDE DEF t
    <3> QED BY <1>2, <3>1 DEF TuneState
  <2>5. CASE StartStream(cl, p) \/ StopStream(cl, p)
    <3>1. \E pes : tune' = [tune EXCEPT ![t] = [tune[t] EXCEPT !.pes = pes]]
      BY <2>5 DEF StartStream, StopStream
    <3> HIDE DEF t
    <3> QED BY <1>2, <3>1 DEF TuneState
  <2> QED BY <2>1, <2>2, <2>3, <2>4, <2>5
<1> HIDE DEF t
<1>6. PICK r : tune' = [tune EXCEPT ![t] = r] /\ r.references = tune[t].references
  BY <1>5
<1> QED BY <1>2, <1>3, <1>4, <1>6, OneUsedTuner DEF UsesInv

(* What the main loop does with a tuner: a table is read of a decoder, an  *)
(* event comes of a tuning, and both are of tuners that are used.          *)
LEMMA MainLoopUses ==
  ASSUME UsesInv, MainLoopStep
  PROVE  ReferencesCountUsers' /\ IdleTunerOwnsNothing'
<1>1. TypeInv /\ tune \in [Tuner -> TuneState] /\ client' = client
  BY DEF UsesInv, TypeInv, TypeOK, MainLoopStep, ReadFirstPat, FrontendLock, FrontendTimedOut,
         FrontendEvent, Second, PeriodicCheck, CheckTuner
<1>2. ASSUME NEW t \in Tuner, tune[t].status = "TRYING" \/ tune[t].mydvb
      PROVE  tune[t].references # 0
  BY <1>2 DEF UsesInv, IdleTunerOwnsNothing, IsIdle
<1>3. ASSUME NEW t \in Tuner, NEW r, tune' = [tune EXCEPT ![t] = r],
             r.references = tune[t].references,
             tune[t].status = "TRYING" \/ tune[t].mydvb
      PROVE  ReferencesCountUsers' /\ IdleTunerOwnsNothing'
  BY <1>1, <1>2, <1>3, OneUsedTuner DEF UsesInv
<1>4. ASSUME NEW t \in Tuner, ReadFirstPat(t)
      PROVE  ReferencesCountUsers' /\ IdleTunerOwnsNothing'
  <2>1. PICK sct : tune' = [tune EXCEPT ![t] = [tune[t] EXCEPT !.sct = sct]]
    BY <1>4 DEF ReadFirstPat
  <2>2. [tune[t] EXCEPT !.sct = sct].references = tune[t].references
    BY <1>1 DEF TuneState
  <2>3. tune[t].mydvb
    BY <1>4 DEF ReadFirstPat
  <2> QED BY <1>3, <2>1, <2>2, <2>3
<1>5. ASSUME NEW t \in Tuner, NEW status, FrontendEvent(t, status)
      PROVE  ReferencesCountUsers' /\ IdleTunerOwnsNothing'
  <2>1. /\ tune' = [tune EXCEPT ![t] = [tune[t] EXCEPT !.status = status, !.age = 0]]
        /\ tune[t].status = "TRYING"
    BY <1>5 DEF FrontendEvent
  <2>2. [tune[t] EXCEPT !.status = status, !.age = 0].references = tune[t].references
    BY <1>1 DEF TuneState
  <2> QED BY <1>3, <2>1, <2>2
<1>6. CASE Second
  <2> DEFINE older(t) == IF tune[t].status = "TRYING" /\ tune[t].age < TuneSeconds
                         THEN [tune[t] EXCEPT !.age = tune[t].age + 1] ELSE tune[t]
  <2>1. tune' = [t \in Tuner |-> older(t)]
    BY <1>6 DEF Second
  <2>2. \A t \in Tuner : /\ older(t).references = tune[t].references
                         /\ tune[t].references = 0 => IsIdle(older(t))
    BY <1>1 DEF UsesInv, IdleTunerOwnsNothing, IsIdle, TuneState
  <2> HIDE DEF older
  <2> QED BY <1>1, <2>1, <2>2, SameUsers DEF UsesInv
<1>7. CASE PeriodicCheck
  <2>1. tune' = tune
    BY <1>7 DEF PeriodicCheck
  <2> QED BY <1>1, <2>1, SameUsers DEF UsesInv, IdleTunerOwnsNothing
<1>8. CASE CheckTuner
  <2> DEFINE t == checking
  <2>1. CASE tune[t].status = "TRYING" /\ tune[t].age >= TuneSeconds
    <3>1. tune' = [tune EXCEPT ![t] = [tune[t] EXCEPT !.status = "FAILED", !.age = 0]] /\ t \in Tuner
      BY <1>8, <2>1 DEF CheckTuner
    <3>2. [tune[t] EXCEPT !.status = "FAILED", !.age = 0].references = tune[t].references
      BY <1>1, <3>1 DEF TuneState
    <3> QED BY <1>3, <2>1, <3>1, <3>2
  <2>2. CASE ~(tune[t].status = "TRYING" /\ tune[t].age >= TuneSeconds)
    <3>1. tune' = tune
      BY <1>8, <2>2 DEF CheckTuner
    <3> QED BY <1>1, <3>1, SameUsers DEF UsesInv, IdleTunerOwnsNothing
  <2> QED BY <2>1, <2>2
<1> QED BY <1>4, <1>5, <1>6, <1>7, <1>8 DEF MainLoopStep, FrontendLock, FrontendTimedOut

LEMMA EngineEndUses ==
  ASSUME UsesInv, EngineEnd
  PROVE  ReferencesCountUsers' /\ IdleTunerOwnsNothing'
<1>1. TypeInv /\ tune \in [Tuner -> TuneState] /\ client' = client
      /\ tune' = [t \in Tuner |-> ClosedTune(tune[t])]
  BY DEF UsesInv, TypeInv, TypeOK, EngineEnd
<1>2. \A t \in Tuner : IsIdle(tune'[t]) /\ tune'[t].references = tune[t].references
  BY <1>1, ClosedIsIdle
<1> QED BY <1>1, <1>2, SameUsers DEF UsesInv

(* Every step keeps the invariant. *)
LEMMA NextUses == UsesInv /\ [Next]_vars => UsesInv'
<1> SUFFICES ASSUME UsesInv, [Next]_vars PROVE ReferencesCountUsers' /\ IdleTunerOwnsNothing'
  BY NextTypes DEF UsesInv
<1>1. ASSUME NEW cl \in Client, ClientStep(cl)
      PROVE  ReferencesCountUsers' /\ IdleTunerOwnsNothing'
  BY <1>1, JoiningUses, ReleaseUses, HoldingUses DEF ClientStep
<1>2. CASE UNCHANGED vars
  BY <1>2 DEF vars, UsesInv, ReferencesCountUsers, IdleTunerOwnsNothing, Users
<1> QED BY <1>1, <1>2, TuningUses, MainLoopUses, EngineEndUses DEF Next

LEMMA InitUses == Init => UsesInv
<1> SUFFICES ASSUME Init PROVE ReferencesCountUsers /\ IdleTunerOwnsNothing
  BY InitTypeInv DEF UsesInv
<1>1. \A t \in Tuner : Users(t) = {}
  BY DEF Init, Users, NoClient, NoTuner, Tuner
<1>2. \A t \in Tuner : tune[t].references = 0 /\ IsIdle(tune[t])
  BY DEF Init, FreshTune, IsIdle, OwnedFdsOf, PolledFdsOf, RealFds, FdsOf
<1> QED BY <1>1, <1>2, FS_EmptySet DEF ReferencesCountUsers, IdleTunerOwnsNothing

(* The counter of a tuner is the number of its users, with any number of   *)
(* clients, in whatever order they come and go and whatever fails.         *)
THEOREM ReferencesCorrect == Spec => []ReferencesCountUsers
<1>1. UsesInv => ReferencesCountUsers
  BY DEF UsesInv
<1> QED BY <1>1, InitUses, NextUses, PTL DEF Spec

(* A tuner that nobody uses is ready for the next user. *)
THEOREM IdleCorrect == Spec => []IdleTunerOwnsNothing
<1>1. UsesInv => IdleTunerOwnsNothing
  BY DEF UsesInv
<1> QED BY <1>1, InitUses, NextUses, PTL DEF Spec

-----------------------------------------------------------------------------
(* What the steps do to the tuning of the tuners and to their users.       *)

SameTuning(r, s) ==
  /\ r.status = s.status /\ r.references = s.references
  /\ r.channel = s.channel /\ r.p = s.p /\ r.front = s.front

SameUsersStep ==
  \A cl \in Client : /\ client'[cl].phase = client[cl].phase
                     /\ client'[cl].tuner = client[cl].tuner
                     /\ client'[cl].channel = client[cl].channel

LEMMA Typed ==
  ASSUME TypeInv
  PROVE  /\ tune \in [Tuner -> TuneState] /\ client \in [Client -> ClientState]
         /\ calls \in Seq(Client)
         /\ \A cl \in Client : client[cl].phase # "none" <=> client[cl].tuner \in Tuner
BY DEF TypeInv, TypeOK, ClientsHaveTuners

(* A client that holds a tuner changes its decoder and its filters.        *)
LEMMA HoldingEffect ==
  ASSUME TypeInv, NEW cl \in Client, NEW p,
         \/ StartDecoder(cl) \/ StopDecoder(cl)
         \/ StartProgram(cl, p) \/ StopProgram(cl, p)
         \/ StartStream(cl, p) \/ StopStream(cl, p)
  PROVE  /\ SameUsersStep /\ UNCHANGED <<calls, up>>
         /\ client[cl].phase = "holding" /\ client[cl].tuner \in Tuner
         /\ \E r : /\ tune' = [tune EXCEPT ![client[cl].tuner] = r]
                   /\ SameTuning(r, tune[client[cl].tuner])
                   /\ r.mydvb => \/ tune[client[cl].tuner].mydvb
                                 \/ tune[client[cl].tuner].status = "LOCK"
<1> DEFINE t == client[cl].tuner
<1>1. client[cl].phase = "holding" /\ UNCHANGED <<calls, up>>
  BY DEF StartDecoder, StopDecoder, StartProgram, StopProgram, StartStream, StopStream
<1>2. t \in Tuner /\ tune[t] \in TuneState /\ client \in [Client -> ClientState]
  BY <1>1, Typed
<1>3. SameUsersStep
  <2>1. CASE StartDecoder(cl) \/ StopDecoder(cl)
    BY <2>1 DEF StartDecoder, StopDecoder, SameUsersStep
  <2>2. CASE StartProgram(cl, p) \/ StopProgram(cl, p) \/ StartStream(cl, p) \/ StopStream(cl, p)
    <3>1. \E ps, ss :
            \/ client' = [client EXCEPT ![cl].programs = ps]
            \/ client' = [client EXCEPT ![cl].streams = ss]
            \/ client' = [client EXCEPT ![cl].programs = ps, ![cl].streams = ss]
      <4>1. CASE StartProgram(cl, p)
        BY <4>1 DEF StartProgram
      <4>2. CASE StopProgram(cl, p)
        BY <4>2 DEF StopProgram
      <4>3. CASE StartStream(cl, p)
        BY <4>3 DEF StartStream
      <4>4. CASE StopStream(cl, p)
        BY <4>4 DEF StopStream
      <4> QED BY <2>2, <4>1, <4>2, <4>3, <4>4
    <3> QED BY <1>2, <3>1 DEF ClientState, SameUsersStep
  <2> QED BY <2>1, <2>2
<1> HIDE DEF t
<1>4. \E r : /\ tune' = [tune EXCEPT ![t] = r] /\ SameTuning(r, tune[t])
             /\ r.mydvb => tune[t].mydvb \/ tune[t].status = "LOCK"
  <2>1. CASE StartDecoder(cl)
    <3>1. /\ tune[t].status = "LOCK"
          /\ \E dvr, sct, pes : tune' = [tune EXCEPT ![t] =
               [tune[t] EXCEPT !.sct = sct, !.pes = pes, !.fd_dvr = dvr, !.mydvb = TRUE]]
      BY <2>1 DEF StartDecoder, t
    <3>2. \A dvr, sct, pes :
            SameTuning([tune[t] EXCEPT !.sct = sct, !.pes = pes, !.fd_dvr = dvr,
                                       !.mydvb = TRUE], tune[t])
      BY <1>2 DEF TuneState, SameTuning
    <3> QED BY <3>1, <3>2
  <2>2. CASE StopDecoder(cl)
    <3>1. tune' = [tune EXCEPT ![t] =
            [tune[t] EXCEPT !.fd_dvr = NoFd, !.sct = {}, !.pes = {}, !.mydvb = FALSE]]
      BY <2>2 DEF StopDecoder, t
    <3>2. SameTuning([tune[t] EXCEPT !.fd_dvr = NoFd, !.sct = {}, !.pes = {},
                                     !.mydvb = FALSE], tune[t])
      BY <1>2 DEF TuneState, SameTuning
    <3>3. ~[tune[t] EXCEPT !.fd_dvr = NoFd, !.sct = {}, !.pes = {}, !.mydvb = FALSE].mydvb
      BY <1>2 DEF TuneState
    <3> QED BY <3>1, <3>2, <3>3
  <2>3. CASE StartProgram(cl, p) \/ StopProgram(cl, p) \/ StartStream(cl, p) \/ StopStream(cl, p)
    <3>1. \E sct, pes :
            \/ tune' = [tune EXCEPT ![t] = [tune[t] EXCEPT !.sct = sct, !.pes = pes]]
            \/ tune' = [tune EXCEPT ![t] = [tune[t] EXCEPT !.pes = pes, !.sct = sct]]
            \/ tune' = [tune EXCEPT ![t] = [tune[t] EXCEPT !.pes = pes]]
      <4>1. CASE StartProgram(cl, p)
        BY <4>1 DEF StartProgram, t
      <4>2. CASE StopProgram(cl, p)
        BY <4>2 DEF StopProgram, t
      <4>3. CASE StartStream(cl, p) \/ StopStream(cl, p)
        BY <4>3 DEF StartStream, StopStream, t
      <4> QED BY <2>3, <4>1, <4>2, <4>3
    <3>2. \A sct, pes :
            /\ SameTuning([tune[t] EXCEPT !.sct = sct, !.pes = pes], tune[t])
            /\ SameTuning([tune[t] EXCEPT !.pes = pes, !.sct = sct], tune[t])
            /\ SameTuning([tune[t] EXCEPT !.pes = pes], tune[t])
            /\ [tune[t] EXCEPT !.sct = sct, !.pes = pes].mydvb = tune[t].mydvb
            /\ [tune[t] EXCEPT !.pes = pes, !.sct = sct].mydvb = tune[t].mydvb
            /\ [tune[t] EXCEPT !.pes = pes].mydvb = tune[t].mydvb
      BY <1>2 DEF TuneState, SameTuning
    <3>3. ASSUME NEW r, tune' = [tune EXCEPT ![t] = r], SameTuning(r, tune[t]),
                 r.mydvb = tune[t].mydvb
          PROVE  \E s : /\ tune' = [tune EXCEPT ![t] = s] /\ SameTuning(s, tune[t])
                        /\ s.mydvb => tune[t].mydvb \/ tune[t].status = "LOCK"
      BY <3>3
    <3>4. PICK sct, pes :
            \/ tune' = [tune EXCEPT ![t] = [tune[t] EXCEPT !.sct = sct, !.pes = pes]]
            \/ tune' = [tune EXCEPT ![t] = [tune[t] EXCEPT !.pes = pes, !.sct = sct]]
            \/ tune' = [tune EXCEPT ![t] = [tune[t] EXCEPT !.pes = pes]]
      BY <3>1
    <3>5. CASE tune' = [tune EXCEPT ![t] = [tune[t] EXCEPT !.sct = sct, !.pes = pes]]
      BY <3>2, <3>3, <3>5
    <3>6. CASE tune' = [tune EXCEPT ![t] = [tune[t] EXCEPT !.pes = pes, !.sct = sct]]
      BY <3>2, <3>3, <3>6
    <3>7. CASE tune' = [tune EXCEPT ![t] = [tune[t] EXCEPT !.pes = pes]]
      BY <3>2, <3>3, <3>7
    <3> QED BY <3>4, <3>5, <3>6, <3>7
  <2> QED BY <2>1, <2>2, <2>3
<1> QED BY <1>1, <1>2, <1>3, <1>4 DEF t

(* The main loop, with no call of a client in progress, ends tunings.      *)
TuningEnded(r, s) ==
  /\ r.references = s.references /\ r.channel = s.channel
  /\ r.p = s.p /\ r.front = s.front /\ r.mydvb = s.mydvb
  /\ \/ r.status = s.status
     \/ /\ s.status = "TRYING" /\ r.status \in {"LOCK", "FAILED"}
        /\ r.status = "LOCK" => s.front # None

LEMMA MainLoopEffect ==
  ASSUME TypeInv, MainLoopStep
  PROVE  /\ calls = <<>> /\ UNCHANGED <<client, calls, up>>
         /\ \A t \in Tuner : TuningEnded(tune'[t], tune[t])
<1>1. calls = <<>> /\ UNCHANGED <<client, calls, up>>
  BY DEF MainLoopStep, ReadFirstPat, FrontendLock, FrontendTimedOut, FrontendEvent,
         Second, PeriodicCheck, CheckTuner, InMainLoop
<1> SUFFICES \A t \in Tuner : TuningEnded(tune'[t], tune[t])
  BY <1>1
<1>2. tune \in [Tuner -> TuneState]
  BY Typed
<1>3. ASSUME NEW t \in Tuner, NEW r, tune' = [tune EXCEPT ![t] = r],
             TuningEnded(r, tune[t])
      PROVE  \A u \in Tuner : TuningEnded(tune'[u], tune[u])
  BY <1>2, <1>3 DEF TuningEnded
<1>4. ASSUME NEW t \in Tuner, ReadFirstPat(t)
      PROVE  \A u \in Tuner : TuningEnded(tune'[u], tune[u])
  <2>1. PICK sct : tune' = [tune EXCEPT ![t] = [tune[t] EXCEPT !.sct = sct]]
    BY <1>4 DEF ReadFirstPat
  <2>2. TuningEnded([tune[t] EXCEPT !.sct = sct], tune[t])
    BY <1>2 DEF TuneState, TuningEnded
  <2> QED BY <1>3, <2>1, <2>2
<1>5. ASSUME NEW t \in Tuner, NEW status \in {"LOCK", "FAILED"}, FrontendEvent(t, status)
      PROVE  \A u \in Tuner : TuningEnded(tune'[u], tune[u])
  <2>1. /\ tune' = [tune EXCEPT ![t] = [tune[t] EXCEPT !.status = status, !.age = 0]]
        /\ tune[t].status = "TRYING" /\ tune[t].front # None
    BY <1>5 DEF FrontendEvent
  <2>2. TuningEnded([tune[t] EXCEPT !.status = status, !.age = 0], tune[t])
    BY <1>2, <2>1 DEF TuneState, TuningEnded
  <2> QED BY <1>3, <2>1, <2>2
<1>6. CASE Second
  <2> DEFINE older(t) == IF tune[t].status = "TRYING" /\ tune[t].age < TuneSeconds
                         THEN [tune[t] EXCEPT !.age = tune[t].age + 1] ELSE tune[t]
  <2>1. tune' = [t \in Tuner |-> older(t)]
    BY <1>6 DEF Second
  <2>2. \A t \in Tuner : TuningEnded(older(t), tune[t])
    BY <1>2 DEF TuneState, TuningEnded
  <2> HIDE DEF older
  <2> QED BY <2>1, <2>2
<1>7. CASE PeriodicCheck
  BY <1>7 DEF PeriodicCheck, TuningEnded
<1>8. CASE CheckTuner
  <2> DEFINE t == checking
  <2>1. CASE tune[t].status = "TRYING" /\ tune[t].age >= TuneSeconds
    <3>1. /\ tune' = [tune EXCEPT ![t] = [tune[t] EXCEPT !.status = "FAILED", !.age = 0]]
          /\ t \in Tuner
      BY <1>8, <2>1 DEF CheckTuner
    <3>2. TuningEnded([tune[t] EXCEPT !.status = "FAILED", !.age = 0], tune[t])
      BY <1>2, <2>1, <3>1 DEF TuneState, TuningEnded
    <3> QED BY <1>3, <3>1, <3>2
  <2>2. CASE ~(tune[t].status = "TRYING" /\ tune[t].age >= TuneSeconds)
    BY <1>8, <2>2 DEF CheckTuner, TuningEnded
  <2> QED BY <2>1, <2>2
<1> QED BY <1>4, <1>5, <1>6, <1>7, <1>8 DEF MainLoopStep, FrontendLock, FrontendTimedOut

(* One more user of a locked tuner.                                        *)
LEMMA ShareEffect ==
  ASSUME TypeInv, NEW cl \in Client, NEW c \in Channel, TunerChannelShare(cl, c)
  PROVE  /\ UNCHANGED <<calls, up>> /\ client[cl].phase = "none"
         /\ client'[cl].phase = "holding" /\ client'[cl].channel = c
         /\ \A d \in Client \ {cl} : client'[d] = client[d]
         /\ \E t \in Tuner : \E r :
              /\ client'[cl].tuner = t
              /\ tune[t].status = "LOCK" /\ tune[t].channel = Number[c]
              /\ TunerType[t] = ChannelType[c]
              /\ tune' = [tune EXCEPT ![t] = r]
              /\ r.references = tune[t].references + 1 /\ r.mydvb = tune[t].mydvb
              /\ r.status = "LOCK" /\ r.channel = tune[t].channel
              /\ r.p = tune[t].p /\ r.front = tune[t].front
<1>1. PICK t \in Tuner :
        /\ IsFirst(t, Sharable(c))
        /\ tune' = [tune EXCEPT ![t] = AddUser(tune[t])]
        /\ client' = [client EXCEPT ![cl].phase = "holding", ![cl].tuner = t,
                                    ![cl].channel = c]
  BY DEF TunerChannelShare
<1>2. UNCHANGED <<calls, up>> /\ client[cl].phase = "none"
  BY DEF TunerChannelShare
<1>3. tune[t] \in TuneState /\ client \in [Client -> ClientState]
  BY Typed
<1>4. /\ client'[cl].phase = "holding" /\ client'[cl].channel = c /\ client'[cl].tuner = t
      /\ \A d \in Client \ {cl} : client'[d] = client[d]
  BY <1>1, <1>3 DEF ClientState
<1>5. /\ tune[t].status = "LOCK" /\ tune[t].channel = Number[c]
      /\ TunerType[t] = ChannelType[c]
  BY <1>1 DEF IsFirst, Sharable
<1> DEFINE r == AddUser(tune[t])
<1>6. /\ r.references = tune[t].references + 1 /\ r.mydvb = tune[t].mydvb
      /\ r.status = "LOCK" /\ r.channel = tune[t].channel
      /\ r.p = tune[t].p /\ r.front = tune[t].front
  BY <1>3, <1>5 DEF TuneState, AddUser
<1>7. tune' = [tune EXCEPT ![t] = r]
  BY <1>1
<1> HIDE DEF r
<1> QED BY <1>2, <1>4, <1>5, <1>6, <1>7

(* A tuner without operation gets a channel.                               *)
LEMMA OpenEffect ==
  ASSUME TypeInv, NEW cl \in Client, NEW c \in Channel, TunerChannelOpen(cl, c)
  PROVE  /\ calls' = Append(calls, cl) /\ UNCHANGED up
         /\ calls # <<>> => NestedTuning
         /\ client[cl].phase = "none"
         /\ client'[cl].phase = "calling" /\ client'[cl].channel = c
         /\ \A d \in Client \ {cl} : client'[d] = client[d]
         /\ \E t \in Tuner : \E r :
              /\ client'[cl].tuner = t
              /\ tune[t].status = "NOOP" /\ TunerType[t] = ChannelType[c]
              /\ tune' = [tune EXCEPT ![t] = r]
              /\ r.references = tune[t].references + 1 /\ r.status = "NOOP" /\ r.p = c
              /\ r.mydvb => tune[t].mydvb
              /\ r.front # None => r.front = tune[t].front
<1>1. PICK t \in Tuner, f \in OpenResult(open) :
        /\ IsFirst(t, Usable(c))
        /\ tune' = [tune EXCEPT ![t] = OpenedTune(AddUser(tune[t]), f, c)]
        /\ client' = [client EXCEPT ![cl].phase = "calling", ![cl].tuner = t,
                                    ![cl].channel = c]
  BY DEF TunerChannelOpen
<1>2. /\ calls' = Append(calls, cl) /\ UNCHANGED up /\ client[cl].phase = "none"
      /\ calls # <<>> => NestedTuning
  BY DEF TunerChannelOpen
<1>3. tune[t] \in TuneState /\ client \in [Client -> ClientState]
  BY Typed
<1>4. /\ client'[cl].phase = "calling" /\ client'[cl].channel = c /\ client'[cl].tuner = t
      /\ \A d \in Client \ {cl} : client'[d] = client[d]
  BY <1>1, <1>3 DEF ClientState
<1>5. tune[t].status = "NOOP" /\ TunerType[t] = ChannelType[c]
  BY <1>1 DEF IsFirst, Usable
<1> DEFINE r == OpenedTune(AddUser(tune[t]), f, c)
<1>6. /\ r.references = tune[t].references + 1 /\ r.status = "NOOP" /\ r.p = c
      /\ r.mydvb => tune[t].mydvb
      /\ r.front # None => r.front = tune[t].front
  BY <1>3, <1>5 DEF TuneState, AddUser, OpenedTune, ClosedTune
<1>7. tune' = [tune EXCEPT ![t] = r]
  BY <1>1
<1> HIDE DEF r
<1> QED BY <1>2, <1>4, <1>5, <1>6, <1>7

(* The innermost call goes on: the tuner is trying.                        *)
LEMMA TuneEffect ==
  ASSUME TypeInv, TunerChannelTune
  PROVE  \E cl \in Client, t \in Tuner : \E r :
           /\ UNCHANGED up
           /\ calls # <<>> /\ cl = calls[Len(calls)]
           /\ Len(calls') = Len(calls) - 1
           /\ \A i \in 1..Len(calls) - 1 : calls'[i] = calls[i]
           /\ client[cl].phase = "calling" /\ client[cl].tuner = t
           /\ client' = [client EXCEPT ![cl].phase = "holding"]
           /\ tune[t].p \in Channel
           /\ tune' = [tune EXCEPT ![t] = r]
           /\ r.status = "TRYING" /\ r.references = tune[t].references /\ r.p = tune[t].p
           /\ r.mydvb = tune[t].mydvb
           /\ \/ r.front = tune[t].front /\ r.channel = tune[t].channel
              \/ r.front = tune[t].p /\ r.channel = Number[tune[t].p]
<1> DEFINE cl == calls[Len(calls)]
           t  == client[cl].tuner
<1>1. PICK taken \in BOOLEAN : tune' = [tune EXCEPT ![t] = TriedTune(tune[t], taken)]
  BY DEF TunerChannelTune
<1>2. /\ calls # <<>> /\ UNCHANGED up
      /\ client' = [client EXCEPT ![cl].phase = "holding"]
      /\ calls' = SubSeq(calls, 1, Len(calls) - 1)
  BY DEF TunerChannelTune
<1>3. calls \in Seq(Client) /\ client \in [Client -> ClientState]
  BY Typed
<1>4. Len(calls) \in Nat \ {0} /\ cl \in Client
  BY <1>2, <1>3
<1>5. client[cl].phase = "calling" /\ t \in Tuner /\ tune[t].p \in Channel
  BY <1>4 DEF TypeInv, CallsAreStacked, ClientsHaveTuners
<1>6. tune[t] \in TuneState
  BY <1>5, Typed
<1>7. /\ Len(calls') = Len(calls) - 1
      /\ \A i \in 1..Len(calls) - 1 : calls'[i] = calls[i]
  <2> DEFINE n == Len(calls) - 1
  <2>1. n \in Nat /\ \A i \in 1..n : calls[i] \in Client
    BY <1>3, <1>4
  <2>2. calls' = SubSeq(calls, 1, n)
    BY <1>2
  <2> HIDE DEF n
  <2>3. /\ Len(SubSeq(calls, 1, n)) = IF 1 <= n THEN n - 1 + 1 ELSE 0
        /\ \A i \in 1..n - 1 + 1 : SubSeq(calls, 1, n)[i] = calls[1 + i - 1]
    BY <2>1, SubSeqProperties
  <2>4. Len(calls') = n /\ \A i \in 1..n : calls'[i] = calls[i]
    BY <2>1, <2>2, <2>3
  <2> QED BY <2>4 DEF n
<1> DEFINE r == TriedTune(tune[t], taken)
<1>8. /\ r.status = "TRYING" /\ r.references = tune[t].references /\ r.p = tune[t].p
      /\ r.mydvb = tune[t].mydvb
      /\ \/ r.front = tune[t].front /\ r.channel = tune[t].channel
         \/ r.front = tune[t].p /\ r.channel = Number[tune[t].p]
  <2> HIDE DEF t
  <2> QED BY <1>6 DEF TuneState, TriedTune
<1>9. tune' = [tune EXCEPT ![t] = r]
  BY <1>1
<1> HIDE DEF r, t, cl
<1>10. /\ cl = calls[Len(calls)] /\ client[cl].tuner = t
  BY DEF cl, t
<1> USE <1>4, <1>5
<1> WITNESS cl \in Client, t \in Tuner
<1> WITNESS r
<1> QED BY <1>2, <1>4, <1>5, <1>7, <1>8, <1>9, <1>10

(* A user leaves; the last one closes the tuner.                           *)
LEMMA ReleaseEffect ==
  ASSUME TypeInv, NEW cl \in Client, TunerRelease(cl)
  PROVE  /\ UNCHANGED <<calls, up>>
         /\ client[cl].phase = "holding" /\ client[cl].tuner \in Tuner
         /\ client' = [client EXCEPT ![cl] = NoClient]
         /\ \E r : /\ tune' = [tune EXCEPT ![client[cl].tuner] = r]
                   /\ r.references = tune[client[cl].tuner].references - 1
                   /\ r.p = tune[client[cl].tuner].p
                   /\ r.channel = tune[client[cl].tuner].channel
                   /\ \/ /\ tune[client[cl].tuner].references > 1
                         /\ client[cl].programs = {}
                         /\ r.status = tune[client[cl].tuner].status
                         /\ r.front = tune[client[cl].tuner].front
                         /\ r.mydvb = tune[client[cl].tuner].mydvb
                         /\ r.sct = tune[client[cl].tuner].sct
                         /\ r.pes = tune[client[cl].tuner].pes
                      \/ /\ tune[client[cl].tuner].references = 1
                         /\ r.status = "NOOP" /\ r.front = None /\ ~r.mydvb
                         /\ r.sct = {} /\ r.pes = {}
<1> DEFINE t == client[cl].tuner
           r == IF tune[t].references = 1 THEN ClosedTune(RemoveUser(tune[t]))
                ELSE RemoveUser(tune[t])
<1>1. /\ client[cl].phase = "holding" /\ UNCHANGED <<calls, up>>
      /\ client[cl].programs = {} \/ tune[t].references = 1
      /\ tune[t].references > 0
      /\ tune' = [tune EXCEPT ![t] = r]
      /\ client' = [client EXCEPT ![cl] = NoClient]
  BY DEF TunerRelease
<1>2. t \in Tuner /\ tune[t] \in TuneState
  BY <1>1, Typed
<1> HIDE DEF t
<1> DEFINE s == RemoveUser(tune[t])
<1>3. /\ s \in TuneState /\ s.references = tune[t].references - 1
      /\ s.p = tune[t].p /\ s.channel = tune[t].channel
      /\ s.status = tune[t].status /\ s.front = tune[t].front
      /\ s.mydvb = tune[t].mydvb /\ s.sct = tune[t].sct /\ s.pes = tune[t].pes
  BY <1>2 DEF TuneState, RemoveUser
<1> HIDE DEF s
<1>4. CASE tune[t].references = 1
  <2>1. r = ClosedTune(s)
    BY <1>4 DEF s
  <2>2. /\ r.references = s.references /\ r.p = s.p /\ r.channel = s.channel
        /\ r.status = "NOOP" /\ r.front = None /\ ~r.mydvb /\ r.sct = {} /\ r.pes = {}
    BY <1>3, <2>1 DEF ClosedTune, TuneState
  <2> HIDE DEF r
  <2> QED BY <1>1, <1>2, <1>3, <1>4, <2>2 DEF t
<1>5. CASE tune[t].references # 1
  <2>1. r = s /\ tune[t].references > 1
    BY <1>1, <1>2, <1>5 DEF s, TuneState
  <2> HIDE DEF r
  <2> QED BY <1>1, <1>2, <1>3, <1>5, <2>1 DEF t
<1> QED BY <1>4, <1>5

(* The engine closes every tuner.                                          *)
LEMMA EngineEndEffect ==
  ASSUME TypeInv, EngineEnd
  PROVE  /\ calls = <<>> /\ UNCHANGED <<client, calls>> /\ ~up'
         /\ \A t \in Tuner :
              /\ tune'[t].status = "NOOP" /\ tune'[t].front = None /\ ~tune'[t].mydvb
              /\ tune'[t].references = tune[t].references /\ tune'[t].p = tune[t].p
              /\ tune'[t].channel = tune[t].channel
              /\ tune'[t].sct = {} /\ tune'[t].pes = {}
<1>1. /\ calls = <<>> /\ UNCHANGED <<client, calls>> /\ ~up'
      /\ tune' = [t \in Tuner |-> ClosedTune(tune[t])]
  BY DEF EngineEnd, InMainLoop
<1>2. tune \in [Tuner -> TuneState]
  BY Typed
<1>3. ASSUME NEW r \in TuneState
      PROVE  /\ ClosedTune(r).status = "NOOP" /\ ClosedTune(r).front = None
             /\ ~ClosedTune(r).mydvb /\ ClosedTune(r).references = r.references
             /\ ClosedTune(r).p = r.p /\ ClosedTune(r).channel = r.channel
             /\ ClosedTune(r).sct = {} /\ ClosedTune(r).pes = {}
  BY DEF ClosedTune, TuneState
<1> HIDE DEF ClosedTune
<1>4. \A t \in Tuner : tune'[t] = ClosedTune(tune[t]) /\ tune[t] \in TuneState
  BY <1>1, <1>2
<1> QED BY <1>1, <1>3, <1>4

-----------------------------------------------------------------------------
(* The stage a tuner is at, and who is tuning it.                          *)

CallersInCalls ==
  \A cl \in Client : client[cl].phase = "calling" =>
    \E i \in 1..Len(calls) : calls[i] = cl

CallingNotLocked ==
  \A cl \in Client : client[cl].phase = "calling" =>
    tune[client[cl].tuner].status \in {"NOOP", "TRYING"}

NoopIsUnused ==
  up => \A t \in Tuner : tune[t].status = "NOOP" =>
    \/ tune[t].references = 0
    \/ \E cl \in Client : client[cl].tuner = t /\ client[cl].phase = "calling"

Stages   == CallersInCalls /\ CallingNotLocked /\ NoopIsUnused /\ DecoderOnlyWhenLocked
StageInv == UsesInv /\ Stages

LEMMA InitStages == Init => Stages
<1> SUFFICES ASSUME Init PROVE Stages
  OBVIOUS
<1>1. \A cl \in Client : client[cl].phase = "none"
  BY DEF Init, NoClient
<1>2. \A t \in Tuner : tune[t].references = 0 /\ ~tune[t].mydvb
  BY DEF Init, FreshTune
<1> QED BY <1>1, <1>2 DEF Stages, CallersInCalls, CallingNotLocked, NoopIsUnused,
                         DecoderOnlyWhenLocked

LEMMA HoldingStages ==
  ASSUME StageInv, NEW cl \in Client, NEW p,
         \/ StartDecoder(cl) \/ StopDecoder(cl)
         \/ StartProgram(cl, p) \/ StopProgram(cl, p)
         \/ StartStream(cl, p) \/ StopStream(cl, p)
  PROVE  Stages'
<1>1. TypeInv /\ Stages
  BY DEF StageInv, UsesInv
<1> DEFINE t == client[cl].tuner
<1>2. /\ SameUsersStep /\ UNCHANGED <<calls, up>> /\ t \in Tuner
      /\ \E r : /\ tune' = [tune EXCEPT ![t] = r] /\ SameTuning(r, tune[t])
                /\ r.mydvb => tune[t].mydvb \/ tune[t].status = "LOCK"
  BY <1>1, HoldingEffect
<1> HIDE DEF t
<1>3. \A u \in Tuner : /\ tune'[u].status = tune[u].status
                       /\ tune'[u].references = tune[u].references
                       /\ tune'[u].mydvb => tune[u].mydvb \/ tune[u].status = "LOCK"
  BY <1>1, <1>2, Typed DEF SameTuning
<1>4. CallersInCalls'
  BY <1>1, <1>2 DEF Stages, CallersInCalls, SameUsersStep
<1>5. CallingNotLocked'
  BY <1>1, <1>2, <1>3, Typed DEF Stages, CallingNotLocked, SameUsersStep
<1>6. NoopIsUnused'
  BY <1>1, <1>2, <1>3 DEF Stages, NoopIsUnused, SameUsersStep
<1>7. DecoderOnlyWhenLocked'
  BY <1>1, <1>3 DEF Stages, DecoderOnlyWhenLocked
<1> QED BY <1>4, <1>5, <1>6, <1>7 DEF Stages

LEMMA MainLoopStages ==
  ASSUME StageInv, MainLoopStep
  PROVE  Stages'
<1>1. TypeInv /\ Stages
  BY DEF StageInv, UsesInv
<1>2. /\ calls = <<>> /\ UNCHANGED <<client, calls, up>>
      /\ \A t \in Tuner : TuningEnded(tune'[t], tune[t])
  BY <1>1, MainLoopEffect
<1>3. \A cl \in Client : client[cl].phase # "calling"
  BY <1>1, <1>2 DEF Stages, CallersInCalls
<1>4. CallersInCalls' /\ CallingNotLocked'
  BY <1>2, <1>3 DEF CallersInCalls, CallingNotLocked
<1>5. NoopIsUnused' /\ DecoderOnlyWhenLocked'
  BY <1>1, <1>2 DEF Stages, NoopIsUnused, DecoderOnlyWhenLocked, TuningEnded
<1> QED BY <1>4, <1>5 DEF Stages

LEMMA ShareStages ==
  ASSUME StageInv, NEW cl \in Client, NEW c \in Channel, TunerChannelShare(cl, c)
  PROVE  Stages'
<1>1. TypeInv /\ Stages
  BY DEF StageInv, UsesInv
<1>2. /\ UNCHANGED <<calls, up>> /\ client[cl].phase = "none"
      /\ client'[cl].phase = "holding"
      /\ \A d \in Client \ {cl} : client'[d] = client[d]
  BY <1>1, ShareEffect
<1>3. PICK t \in Tuner : \E r :
        /\ client'[cl].tuner = t
        /\ tune[t].status = "LOCK" /\ tune' = [tune EXCEPT ![t] = r]
        /\ r.mydvb = tune[t].mydvb /\ r.status = "LOCK"
  BY <1>1, ShareEffect
<1>4. /\ tune'[t].status = tune[t].status /\ tune'[t].mydvb = tune[t].mydvb
      /\ \A u \in Tuner \ {t} : tune'[u] = tune[u]
  BY <1>1, <1>3, Typed
<1>5. CallersInCalls'
  BY <1>1, <1>2 DEF Stages, CallersInCalls
<1>6. CallingNotLocked'
  BY <1>1, <1>2, <1>4, Typed DEF Stages, CallingNotLocked
<1>7. NoopIsUnused'
  BY <1>1, <1>2, <1>3, <1>4 DEF Stages, NoopIsUnused
<1>8. DecoderOnlyWhenLocked'
  BY <1>1, <1>4 DEF Stages, DecoderOnlyWhenLocked
<1> QED BY <1>5, <1>6, <1>7, <1>8 DEF Stages

LEMMA OpenStages ==
  ASSUME StageInv, NEW cl \in Client, NEW c \in Channel, TunerChannelOpen(cl, c)
  PROVE  Stages'
<1>1. TypeInv /\ Stages
  BY DEF StageInv, UsesInv
<1>2. /\ calls' = Append(calls, cl) /\ UNCHANGED up /\ client[cl].phase = "none"
      /\ client'[cl].phase = "calling"
      /\ \A d \in Client \ {cl} : client'[d] = client[d]
  BY <1>1, OpenEffect
<1>3. PICK t \in Tuner : \E r :
        /\ client'[cl].tuner = t
        /\ tune[t].status = "NOOP" /\ tune' = [tune EXCEPT ![t] = r]
        /\ r.status = "NOOP" /\ (r.mydvb => tune[t].mydvb)
  BY <1>1, OpenEffect
<1>4. /\ tune'[t].status = "NOOP" /\ (tune'[t].mydvb => tune[t].mydvb)
      /\ \A u \in Tuner \ {t} : tune'[u] = tune[u]
  BY <1>1, <1>3, Typed
<1>5. CallersInCalls'
  <2>1. calls \in Seq(Client)
    BY <1>1, Typed
  <2>2. /\ Len(calls) \in Nat /\ Len(calls') = Len(calls) + 1
        /\ calls'[Len(calls) + 1] = cl
        /\ \A i \in 1..Len(calls) : calls'[i] = calls[i]
    BY <1>2, <2>1
  <2>3. \A d \in Client \ {cl} : client'[d].phase = "calling" =>
          \E i \in 1..Len(calls) + 1 : calls'[i] = d
    BY <1>1, <1>2, <2>2 DEF Stages, CallersInCalls
  <2> QED BY <2>2, <2>3 DEF CallersInCalls
<1>6. CallingNotLocked'
  BY <1>1, <1>2, <1>3, <1>4, Typed DEF Stages, CallingNotLocked
<1>7. NoopIsUnused'
  BY <1>1, <1>2, <1>3, <1>4 DEF Stages, NoopIsUnused
<1>8. DecoderOnlyWhenLocked'
  BY <1>1, <1>3, <1>4 DEF Stages, DecoderOnlyWhenLocked
<1> QED BY <1>5, <1>6, <1>7, <1>8 DEF Stages

LEMMA TuneStages ==
  ASSUME StageInv, TunerChannelTune
  PROVE  Stages'
<1>1. TypeInv /\ Stages
  BY DEF StageInv, UsesInv
<1>2. PICK cl \in Client, t \in Tuner : \E r :
        /\ UNCHANGED up
        /\ calls # <<>> /\ cl = calls[Len(calls)]
        /\ Len(calls') = Len(calls) - 1
        /\ \A i \in 1..Len(calls) - 1 : calls'[i] = calls[i]
        /\ client[cl].phase = "calling" /\ client[cl].tuner = t
        /\ client' = [client EXCEPT ![cl].phase = "holding"]
        /\ tune' = [tune EXCEPT ![t] = r]
        /\ r.status = "TRYING" /\ r.mydvb = tune[t].mydvb
  BY <1>1, TuneEffect
<1>3. /\ tune'[t].status = "TRYING" /\ tune'[t].mydvb = tune[t].mydvb
      /\ \A u \in Tuner \ {t} : tune'[u] = tune[u]
  BY <1>1, <1>2, Typed
<1>4. /\ client'[cl].phase = "holding"
      /\ \A d \in Client \ {cl} : client'[d] = client[d]
  BY <1>1, <1>2, Typed DEF ClientState
<1>5. CallersInCalls'
  <2>1. calls \in Seq(Client) /\ Len(calls) \in Nat
    BY <1>1, Typed
  <2> SUFFICES ASSUME NEW d \in Client, client'[d].phase = "calling"
               PROVE  \E i \in 1..Len(calls') : calls'[i] = d
    BY DEF CallersInCalls
  <2>2. d # cl /\ client[d].phase = "calling"
    BY <1>4
  <2>3. PICK i \in 1..Len(calls) : calls[i] = d
    BY <1>1, <2>2 DEF Stages, CallersInCalls
  <2>4. i # Len(calls)
    BY <1>2, <2>2, <2>3
  <2> QED BY <1>2, <2>1, <2>3, <2>4
<1>6. CallingNotLocked'
  BY <1>1, <1>3, <1>4, Typed DEF Stages, CallingNotLocked
<1>7. NoopIsUnused'
  BY <1>1, <1>2, <1>3, <1>4 DEF Stages, NoopIsUnused
<1>8. DecoderOnlyWhenLocked'
  BY <1>1, <1>2, <1>3 DEF Stages, DecoderOnlyWhenLocked, CallingNotLocked
<1> QED BY <1>5, <1>6, <1>7, <1>8 DEF Stages

LEMMA ReleaseStages ==
  ASSUME StageInv, NEW cl \in Client, TunerRelease(cl)
  PROVE  Stages'
<1>1. TypeInv /\ Stages
  BY DEF StageInv, UsesInv
<1> DEFINE t == client[cl].tuner
<1>2. /\ UNCHANGED <<calls, up>> /\ client[cl].phase = "holding" /\ t \in Tuner
      /\ client' = [client EXCEPT ![cl] = NoClient]
      /\ \E r : /\ tune' = [tune EXCEPT ![t] = r]
                /\ r.references = tune[t].references - 1
                /\ \/ /\ tune[t].references > 1
                      /\ r.status = tune[t].status /\ r.mydvb = tune[t].mydvb
                   \/ /\ tune[t].references = 1
                      /\ r.status = "NOOP" /\ ~r.mydvb
  BY <1>1, ReleaseEffect
<1> HIDE DEF t
<1>3. /\ \A u \in Tuner \ {t} : tune'[u] = tune[u]
      /\ tune'[t].references = tune[t].references - 1
      /\ \/ /\ tune[t].references > 1
            /\ tune'[t].status = tune[t].status /\ tune'[t].mydvb = tune[t].mydvb
         \/ /\ tune'[t].references = 0
            /\ tune'[t].status = "NOOP" /\ ~tune'[t].mydvb
  BY <1>1, <1>2, Typed
<1>4. /\ client'[cl].phase = "none"
      /\ \A d \in Client \ {cl} : client'[d] = client[d]
  BY <1>1, <1>2, Typed DEF NoClient
<1>5. CallersInCalls'
  BY <1>1, <1>2, <1>4 DEF Stages, CallersInCalls
<1>6. CallingNotLocked'
  BY <1>1, <1>3, <1>4, Typed DEF Stages, CallingNotLocked
<1>7. NoopIsUnused'
  <2> SUFFICES ASSUME up, NEW u \in Tuner, tune'[u].status = "NOOP", tune'[u].references # 0
               PROVE  \E d \in Client : client'[d].tuner = u /\ client'[d].phase = "calling"
    BY <1>2 DEF NoopIsUnused
  <2>1. tune[u].status = "NOOP" /\ tune[u].references # 0
    BY <1>3
  <2> QED BY <1>1, <1>2, <1>4, <2>1 DEF Stages, NoopIsUnused
<1>8. DecoderOnlyWhenLocked'
  BY <1>1, <1>2, <1>3 DEF Stages, DecoderOnlyWhenLocked
<1> QED BY <1>5, <1>6, <1>7, <1>8 DEF Stages

LEMMA EngineEndStages ==
  ASSUME StageInv, EngineEnd
  PROVE  Stages'
<1>1. TypeInv /\ Stages
  BY DEF StageInv, UsesInv
<1>2. /\ calls = <<>> /\ UNCHANGED <<client, calls>> /\ ~up'
      /\ \A t \in Tuner : ~tune'[t].mydvb
  BY <1>1, EngineEndEffect
<1>3. \A cl \in Client : client[cl].phase # "calling"
  BY <1>1, <1>2 DEF Stages, CallersInCalls
<1> QED BY <1>2, <1>3 DEF Stages, CallersInCalls, CallingNotLocked, NoopIsUnused,
                          DecoderOnlyWhenLocked

LEMMA NextStages == StageInv /\ [Next]_vars => StageInv'
<1> SUFFICES ASSUME StageInv, [Next]_vars PROVE Stages'
  BY NextUses DEF StageInv
<1>1. ASSUME NEW cl \in Client, ClientStep(cl)
      PROVE  Stages'
  BY <1>1, ShareStages, OpenStages, ReleaseStages, HoldingStages DEF ClientStep
<1>2. CASE UNCHANGED vars
  BY <1>2 DEF vars, StageInv, Stages, CallersInCalls, CallingNotLocked, NoopIsUnused,
              DecoderOnlyWhenLocked
<1> QED BY <1>1, <1>2, TuneStages, MainLoopStages, EngineEndStages DEF Next

(* Outside of mydvb_tuner_channel, no operation means no users.            *)
LEMMA NobodyTuning ==
  ASSUME StageInv, up, calls = <<>>
  PROVE  \A t \in Tuner : tune[t].status = "NOOP" => tune[t].references = 0
<1>1. \A cl \in Client : client[cl].phase # "calling"
  BY DEF StageInv, Stages, CallersInCalls
<1> QED BY <1>1 DEF StageInv, Stages, NoopIsUnused

(* Decoding goes on only on a locked tuner, even when the callbacks of a   *)
(* tuning tune themselves.                                                 *)
THEOREM DecodingIsLocked == Spec => []DecoderOnlyWhenLocked
<1>1. Init => StageInv
  BY InitUses, InitStages DEF StageInv
<1>2. StageInv => DecoderOnlyWhenLocked
  BY DEF StageInv, Stages
<1> QED BY <1>1, <1>2, NextStages, PTL DEF Spec

(* When callbacks do not tune, a tuner that is taken has no users.         *)
THEOREM TakenIsAvailable ==
  ASSUME ~NestedTuning
  PROVE  Spec => TakesAvailableTuner
<1> DEFINE Taking == \A cl \in Client :
             client[cl].phase = "none" /\ client'[cl].phase = "calling"
               => client'[cl].tuner \in Available(ChannelType[client'[cl].channel])
<1>1. ASSUME StageInv, [Next]_vars
      PROVE  Taking
  <2> SUFFICES ASSUME NEW cl \in Client, client[cl].phase = "none",
                      client'[cl].phase = "calling"
               PROVE  client'[cl].tuner \in Available(ChannelType[client'[cl].channel])
    OBVIOUS
  <2>1. TypeInv /\ Stages
    BY <1>1 DEF StageInv, UsesInv
  <2>2. PICK d \in Client, c \in Channel : TunerChannelOpen(d, c) /\ up
    <3>1. ASSUME NEW d \in Client, NEW p,
                 \/ StartDecoder(d) \/ StopDecoder(d)
                 \/ StartProgram(d, p) \/ StopProgram(d, p)
                 \/ StartStream(d, p) \/ StopStream(d, p)
          PROVE  FALSE
      BY <2>1, <3>1, HoldingEffect DEF SameUsersStep
    <3>2. ASSUME NEW d \in Client, NEW c \in Channel, TunerChannelShare(d, c)
          PROVE  FALSE
      BY <2>1, <3>2, ShareEffect
    <3>3. ASSUME NEW d \in Client, TunerRelease(d)
          PROVE  FALSE
      BY <2>1, <3>3, ReleaseEffect, Typed DEF NoClient
    <3>4. CASE TunerChannelTune
      <4>1. PICK d \in Client : client' = [client EXCEPT ![d].phase = "holding"]
        BY <2>1, <3>4, TuneEffect
      <4> QED BY <2>1, <4>1, Typed DEF ClientState
    <3>5. CASE MainLoopStep \/ EngineEnd \/ UNCHANGED vars
      BY <2>1, <3>5, MainLoopEffect, EngineEndEffect DEF vars
    <3> QED BY <1>1, <3>1, <3>2, <3>3, <3>4, <3>5 DEF Next, ClientStep
  <2>3. /\ calls # <<>> => NestedTuning
        /\ \A e \in Client \ {d} : client'[e] = client[e]
        /\ client'[d].channel = c
        /\ client'[d].tuner \in Usable(c)
    <3>1. TunerChannelOpen(d, c)
      BY <2>2
    <3>2. /\ calls # <<>> => NestedTuning
          /\ \A e \in Client \ {d} : client'[e] = client[e]
          /\ client'[d].channel = c
      BY <2>1, <3>1, OpenEffect
    <3>3. \E t \in Tuner : /\ client'[d].tuner = t /\ tune[t].status = "NOOP"
                           /\ TunerType[t] = ChannelType[c]
      BY <2>1, <3>1, OpenEffect
    <3> QED BY <3>2, <3>3 DEF Usable
  <2>4. d = cl
    BY <2>3
  <2>5. \A e \in Client : client[e].phase # "calling"
    BY <2>1, <2>3 DEF Stages, CallersInCalls
  <2> QED BY <2>1, <2>2, <2>3, <2>4, <2>5 DEF Stages, NoopIsUnused, Available, Usable
<1>2. Init => StageInv
  BY InitUses, InitStages DEF StageInv
<1> HIDE DEF Taking
<1>3. Spec => [][Taking]_vars
  BY <1>1, <1>2, NextStages, PTL DEF Spec
<1> QED BY <1>3 DEF TakesAvailableTuner, Taking

-----------------------------------------------------------------------------
(* The channel a tuner is on.                                              *)

(* "n" tells the channels of a delivery system apart.                      *)
NumbersIdentify ==
  \A c, d \in Channel : ChannelType[c] = ChannelType[d] /\ Number[c] = Number[d] => c = d

(* The device is on the channel last asked of the tuner, if on any.        *)
FrontIsAsked ==
  \A t \in Tuner :
    /\ tune[t].references = 0 => tune[t].front = None
    /\ tune[t].front # None => /\ tune[t].p \in Channel /\ tune[t].front = tune[t].p
                               /\ tune[t].channel = Number[tune[t].p]
    /\ tune[t].status = "LOCK" => tune[t].front # None

(* All the users of a tuner asked for one channel.                         *)
UsersAgree ==
  \A cl \in Client : client[cl].tuner \in Tuner =>
    /\ client[cl].channel \in Channel
    /\ tune[client[cl].tuner].p = client[cl].channel
    /\ ChannelType[client[cl].channel] = TunerType[client[cl].tuner]

Channels   == FrontIsAsked /\ UsersAgree
ChannelInv == StageInv /\ Channels

LEMMA UserOf ==
  ASSUME UsesInv, NEW t \in Tuner, tune[t].references # 0
  PROVE  \E cl \in Client : client[cl].tuner = t
<1>1. Users(t) # {}
  BY FS_EmptySet DEF UsesInv, ReferencesCountUsers
<1> QED BY <1>1 DEF Users

LEMMA InitChannels == Init => Channels
<1> SUFFICES ASSUME Init PROVE Channels
  OBVIOUS
<1>1. \A cl \in Client : client[cl].tuner \notin Tuner
  BY DEF Init, NoClient, NoTuner, Tuner
<1>2. \A t \in Tuner : tune[t].front = None /\ tune[t].status = "NOOP"
  BY DEF Init, FreshTune
<1> QED BY <1>1, <1>2 DEF Channels, FrontIsAsked, UsersAgree

(* A step that leaves the users, and the channels asked of the tuners.     *)
LEMMA SameChannels ==
  ASSUME ChannelInv, SameUsersStep,
         \A t \in Tuner : /\ tune'[t].p = tune[t].p
                          /\ tune'[t].channel = tune[t].channel
                          /\ tune'[t].references = tune[t].references
                          /\ \/ tune'[t].front = tune[t].front
                             \/ tune'[t].front = None
                          /\ tune'[t].status = "LOCK" =>
                               /\ tune'[t].front = tune[t].front
                               /\ tune[t].status = "LOCK" \/ tune[t].front # None
  PROVE  Channels'
<1>1. FrontIsAsked'
  BY DEF ChannelInv, Channels, FrontIsAsked
<1>2. UsersAgree'
  BY DEF ChannelInv, Channels, UsersAgree, SameUsersStep
<1> QED BY <1>1, <1>2 DEF Channels

LEMMA HoldingChannels ==
  ASSUME ChannelInv, NEW cl \in Client, NEW p,
         \/ StartDecoder(cl) \/ StopDecoder(cl)
         \/ StartProgram(cl, p) \/ StopProgram(cl, p)
         \/ StartStream(cl, p) \/ StopStream(cl, p)
  PROVE  Channels'
<1>1. TypeInv
  BY DEF ChannelInv, StageInv, UsesInv
<1> DEFINE t == client[cl].tuner
<1>2. /\ SameUsersStep /\ t \in Tuner
      /\ \E r : tune' = [tune EXCEPT ![t] = r] /\ SameTuning(r, tune[t])
  BY <1>1, HoldingEffect
<1> HIDE DEF t
<1>3. \A u \in Tuner : SameTuning(tune'[u], tune[u])
  BY <1>1, <1>2, Typed DEF SameTuning
<1> QED BY <1>2, <1>3, SameChannels DEF SameTuning

LEMMA MainLoopChannels ==
  ASSUME ChannelInv, MainLoopStep \/ EngineEnd
  PROVE  Channels'
<1>1. TypeInv
  BY DEF ChannelInv, StageInv, UsesInv
<1>2. UNCHANGED client
  BY <1>1, MainLoopEffect, EngineEndEffect
<1>3. CASE MainLoopStep
  <2>1. \A t \in Tuner : TuningEnded(tune'[t], tune[t])
    BY <1>1, <1>3, MainLoopEffect
  <2> QED BY <1>2, <2>1, SameChannels DEF TuningEnded, SameUsersStep
<1>4. CASE EngineEnd
  <2>1. \A t \in Tuner :
          /\ tune'[t].status = "NOOP" /\ tune'[t].front = None
          /\ tune'[t].references = tune[t].references /\ tune'[t].p = tune[t].p
          /\ tune'[t].channel = tune[t].channel
    BY <1>1, <1>4, EngineEndEffect
  <2> QED BY <1>2, <2>1, SameChannels DEF SameUsersStep
<1> QED BY <1>3, <1>4

(* A client that is given a locked tuner asked for the channel it is on.   *)
LEMMA ShareChannels ==
  ASSUME NumbersIdentify, ChannelInv,
         NEW cl \in Client, NEW c \in Channel, TunerChannelShare(cl, c)
  PROVE  Channels'
<1>1. TypeInv /\ UsesInv /\ Channels
  BY DEF ChannelInv, StageInv, UsesInv
<1>2. /\ client'[cl].channel = c
      /\ \A d \in Client \ {cl} : client'[d] = client[d]
  BY <1>1, ShareEffect
<1>3. PICK t \in Tuner : \E r :
        /\ client'[cl].tuner = t
        /\ tune[t].status = "LOCK" /\ tune[t].channel = Number[c]
        /\ TunerType[t] = ChannelType[c]
        /\ tune' = [tune EXCEPT ![t] = r]
        /\ r.references = tune[t].references + 1
        /\ r.status = "LOCK" /\ r.channel = tune[t].channel
        /\ r.p = tune[t].p /\ r.front = tune[t].front
  BY <1>1, ShareEffect
<1>4. /\ tune'[t].references = tune[t].references + 1
      /\ tune'[t].status = "LOCK" /\ tune'[t].channel = tune[t].channel
      /\ tune'[t].p = tune[t].p /\ tune'[t].front = tune[t].front
      /\ \A u \in Tuner \ {t} : tune'[u] = tune[u]
  BY <1>1, <1>3, Typed
<1>5. tune[t].references # 0
  BY <1>1, <1>3 DEF UsesInv, IdleTunerOwnsNothing, IsIdle
<1>6. PICK d \in Client : client[d].tuner = t
  BY <1>1, <1>5, UserOf
<1>7. /\ tune[t].p \in Channel /\ tune[t].channel = Number[tune[t].p]
      /\ tune[t].front # None /\ tune[t].front = tune[t].p
  BY <1>1, <1>3 DEF Channels, FrontIsAsked
<1>8. ChannelType[tune[t].p] = TunerType[t]
  BY <1>1, <1>6 DEF Channels, UsersAgree
<1>9. tune[t].p = c
  BY <1>3, <1>7, <1>8 DEF NumbersIdentify
<1>10. \A u \in Tuner : tune'[u].p = tune[u].p
  BY <1>4
<1>11. FrontIsAsked'
  <2> SUFFICES ASSUME NEW u \in Tuner
               PROVE  /\ tune'[u].references = 0 => tune'[u].front = None
                      /\ tune'[u].front # None =>
                           /\ tune'[u].p \in Channel /\ tune'[u].front = tune'[u].p
                           /\ tune'[u].channel = Number[tune'[u].p]
                      /\ tune'[u].status = "LOCK" => tune'[u].front # None
    BY DEF FrontIsAsked
  <2>1. CASE u = t
    <3>1. tune[t].references \in Nat
      BY <1>1, UsersFinite, FS_CardinalityType DEF UsesInv, ReferencesCountUsers
    <3> QED BY <1>4, <1>7, <2>1, <3>1
  <2>2. CASE u # t
    BY <1>1, <1>4, <2>2 DEF Channels, FrontIsAsked
  <2> QED BY <2>1, <2>2
<1>12. UsersAgree'
  BY <1>1, <1>2, <1>3, <1>9, <1>10 DEF Channels, UsersAgree
<1> QED BY <1>11, <1>12 DEF Channels

(* A tuner that is taken has no users, and its device no channel.          *)
LEMMA OpenChannels ==
  ASSUME ChannelInv, \A t \in Tuner : tune[t].status = "NOOP" => tune[t].references = 0,
         NEW cl \in Client, NEW c \in Channel, TunerChannelOpen(cl, c)
  PROVE  Channels'
<1>1. TypeInv /\ UsesInv /\ Stages /\ Channels
  BY DEF ChannelInv, StageInv, UsesInv
<1>2. /\ client'[cl].channel = c
      /\ \A d \in Client \ {cl} : client'[d] = client[d]
  BY <1>1, OpenEffect
<1>3. PICK t \in Tuner : \E r :
        /\ client'[cl].tuner = t
        /\ tune[t].status = "NOOP" /\ TunerType[t] = ChannelType[c]
        /\ tune' = [tune EXCEPT ![t] = r]
        /\ r.references = tune[t].references + 1 /\ r.status = "NOOP" /\ r.p = c
        /\ r.mydvb => tune[t].mydvb
        /\ r.front # None => r.front = tune[t].front
  BY <1>1, OpenEffect
<1>4. /\ tune'[t].references = tune[t].references + 1
      /\ tune'[t].status = "NOOP" /\ tune'[t].p = c
      /\ tune'[t].front # None => tune'[t].front = tune[t].front
      /\ \A u \in Tuner \ {t} : tune'[u] = tune[u]
  BY <1>1, <1>3, Typed
<1>6. tune[t].references = 0
  BY <1>3
<1>7. \A d \in Client : client[d].tuner # t
  BY <1>1, <1>6, UsedTuner DEF UsesInv
<1>8. tune[t].front = None
  BY <1>1, <1>6 DEF Channels, FrontIsAsked
<1>9. FrontIsAsked'
  BY <1>1, <1>4, <1>8 DEF Channels, FrontIsAsked
<1>10. UsersAgree'
  BY <1>1, <1>2, <1>3, <1>4, <1>7 DEF Channels, UsersAgree
<1> QED BY <1>9, <1>10 DEF Channels

LEMMA TuneChannels ==
  ASSUME ChannelInv, TunerChannelTune
  PROVE  Channels'
<1>1. TypeInv /\ UsesInv /\ Channels
  BY DEF ChannelInv, StageInv, UsesInv
<1>2. PICK cl \in Client, t \in Tuner : \E r :
        /\ client[cl].tuner = t /\ client' = [client EXCEPT ![cl].phase = "holding"]
        /\ tune[t].p \in Channel
        /\ tune' = [tune EXCEPT ![t] = r]
        /\ r.status = "TRYING" /\ r.references = tune[t].references /\ r.p = tune[t].p
        /\ \/ r.front = tune[t].front /\ r.channel = tune[t].channel
           \/ r.front = tune[t].p /\ r.channel = Number[tune[t].p]
  BY <1>1, TuneEffect
<1>3. /\ tune'[t].status = "TRYING" /\ tune'[t].references = tune[t].references
      /\ tune'[t].p = tune[t].p
      /\ \/ tune'[t].front = tune[t].front /\ tune'[t].channel = tune[t].channel
         \/ tune'[t].front = tune[t].p /\ tune'[t].channel = Number[tune[t].p]
      /\ \A u \in Tuner \ {t} : tune'[u] = tune[u]
  BY <1>1, <1>2, Typed
<1>4. \A d \in Client : /\ client'[d].tuner = client[d].tuner
                        /\ client'[d].channel = client[d].channel
  BY <1>1, <1>2, Typed DEF ClientState
<1>5. tune[t].references # 0
  BY <1>1, <1>2, UsedTuner DEF UsesInv
<1>6. FrontIsAsked'
  BY <1>1, <1>2, <1>3, <1>5 DEF Channels, FrontIsAsked
<1>7. \A u \in Tuner : tune'[u].p = tune[u].p
  BY <1>3
<1>8. UsersAgree'
  BY <1>1, <1>4, <1>7 DEF Channels, UsersAgree
<1> QED BY <1>6, <1>8 DEF Channels

LEMMA ReleaseChannels ==
  ASSUME ChannelInv, NEW cl \in Client, TunerRelease(cl)
  PROVE  Channels'
<1>1. TypeInv /\ Channels
  BY DEF ChannelInv, StageInv, UsesInv
<1> DEFINE t == client[cl].tuner
<1>2. /\ t \in Tuner /\ client' = [client EXCEPT ![cl] = NoClient]
      /\ \E r : /\ tune' = [tune EXCEPT ![t] = r]
                /\ r.references = tune[t].references - 1
                /\ r.p = tune[t].p /\ r.channel = tune[t].channel
                /\ \/ /\ tune[t].references > 1
                      /\ r.status = tune[t].status /\ r.front = tune[t].front
                   \/ /\ tune[t].references = 1
                      /\ r.status = "NOOP" /\ r.front = None
  BY <1>1, ReleaseEffect
<1> HIDE DEF t
<1>3. /\ tune'[t].p = tune[t].p /\ tune'[t].channel = tune[t].channel
      /\ \/ /\ tune'[t].references # 0
            /\ tune'[t].status = tune[t].status /\ tune'[t].front = tune[t].front
         \/ tune'[t].status = "NOOP" /\ tune'[t].front = None
      /\ \A u \in Tuner \ {t} : tune'[u] = tune[u]
  <2>1. tune[t].references \in Int
    BY <1>1, <1>2, Typed DEF TuneState
  <2> QED BY <1>1, <1>2, <2>1, Typed
<1>4. \A d \in Client : client'[d] = IF d = cl THEN NoClient ELSE client[d]
  BY <1>1, <1>2, Typed
<1>5. FrontIsAsked'
  BY <1>1, <1>3 DEF Channels, FrontIsAsked
<1>6. \A u \in Tuner : tune'[u].p = tune[u].p
  BY <1>3
<1>7. NoClient.tuner \notin Tuner
  BY DEF NoClient, NoTuner, Tuner
<1>8. UsersAgree'
  BY <1>1, <1>4, <1>6, <1>7 DEF Channels, UsersAgree
<1> QED BY <1>5, <1>8 DEF Channels

LEMMA NextChannels ==
  ASSUME ~NestedTuning, NumbersIdentify
  PROVE  ChannelInv /\ [Next]_vars => ChannelInv'
<1> SUFFICES ASSUME ChannelInv, [Next]_vars PROVE Channels'
  BY NextStages DEF ChannelInv
<1>1. ASSUME NEW cl \in Client, ClientStep(cl), up
      PROVE  Channels'
  <2>1. ASSUME NEW c \in Channel, TunerChannelOpen(cl, c)
        PROVE  Channels'
    <3>1. calls = <<>>
      BY <2>1 DEF TunerChannelOpen
    <3>2. \A t \in Tuner : tune[t].status = "NOOP" => tune[t].references = 0
      BY <1>1, <3>1, NobodyTuning DEF ChannelInv
    <3> QED BY <2>1, <3>2, OpenChannels
  <2> QED BY <1>1, <2>1, ShareChannels, ReleaseChannels, HoldingChannels DEF ClientStep
<1>2. CASE UNCHANGED vars
  BY <1>2 DEF vars, ChannelInv, Channels, FrontIsAsked, UsersAgree
<1> QED BY <1>1, <1>2, TuneChannels, MainLoopChannels DEF Next

(* Clients that share a tuner share the channel that they asked for, when  *)
(* numbers identify channels and callbacks do not tune.                    *)
THEOREM SharedIsAskedFor ==
  ASSUME ~NestedTuning, NumbersIdentify
  PROVE  Spec => []LockedOnChannelAskedFor
<1>1. Init => ChannelInv
  BY InitUses, InitStages, InitChannels DEF ChannelInv, StageInv
<1>2. ChannelInv => LockedOnChannelAskedFor
  <2> SUFFICES ASSUME ChannelInv, NEW cl \in Client, client[cl].phase = "holding",
                      tune[client[cl].tuner].status = "LOCK"
               PROVE  tune[client[cl].tuner].front = client[cl].channel
    BY DEF LockedOnChannelAskedFor
  <2>1. client[cl].tuner \in Tuner
    BY Typed DEF ChannelInv, StageInv, UsesInv
  <2> QED BY <2>1 DEF ChannelInv, Channels, FrontIsAsked, UsersAgree
<1> QED BY <1>1, <1>2, NextChannels, PTL DEF Spec

-----------------------------------------------------------------------------
(* Lemmas about filter tables.                                             *)

Distinct(table) == \A d, e \in table : d.fd = e.fd => d = e

(* Descriptors of a table are real. *)
LEMMA FdsAreReal ==
  ASSUME NEW table \in SUBSET Entry
  PROVE  FdsOf(table) \subseteq Fd /\ NoFd \notin FdsOf(table) /\ NoFd \notin Fd
BY TunersAssumption DEF FdsOf, Entry, NoFd

(* A new filter adds its descriptor, if the open did not fail.             *)
LEMMA AddFilterFds ==
  ASSUME NEW table, NEW pid, NEW f, Distinct(table), f \notin FdsOf(table)
  PROVE  /\ FdsOf(AddFilter(table, pid, f)) = FdsOf(table) \cup RealFds({f})
         /\ Distinct(AddFilter(table, pid, f))
<1>1. CASE f = NoFd
  <2>1. AddFilter(table, pid, f) = table
    BY <1>1 DEF AddFilter
  <2>2. RealFds({f}) = {}
    BY <1>1 DEF RealFds
  <2> QED BY <2>1, <2>2
<1>2. CASE f # NoFd
  <2> DEFINE n == Cardinality(table) + 1
             e == [pid |-> pid, fd |-> f, slot |-> n]
  <2>1. AddFilter(table, pid, f) = table \cup {e}
    BY <1>2 DEF AddFilter
  <2> HIDE DEF n
  <2>2. e.fd = f
    OBVIOUS
  <2> HIDE DEF e
  <2>3. RealFds({f}) = {f}
    BY <1>2 DEF RealFds
  <2>4. FdsOf(table \cup {e}) = FdsOf(table) \cup {f}
    BY <2>2 DEF FdsOf
  <2>5. Distinct(table \cup {e})
    BY <2>2 DEF FdsOf, Distinct
  <2> QED BY <2>1, <2>3, <2>4, <2>5
<1> QED BY <1>1, <1>2

(* What is left of a table has the descriptors it had.                     *)
LEMMA RemoveFiltersDistinct ==
  ASSUME NEW table \in SUBSET Entry, IsFiniteSet(table), NEW pid, Distinct(table)
  PROVE  Distinct(RemoveFilters(table, pid))
<1> DEFINE gone     == Dropped(table, pid)
           Shift(e) == Cardinality({d \in gone : d.slot < e.slot})
           Moved(e) == [e EXCEPT !.slot = @ - Shift(e)]
<1>1. RemoveFilters(table, pid) = {Moved(e) : e \in table \ gone}
  BY DEF RemoveFilters
<1>2. \A e \in table : Moved(e).fd = e.fd
  <2> HIDE DEF Shift
  <2> QED BY DEF Entry
<1> HIDE DEF Moved, gone
<1> QED BY <1>1, <1>2 DEF Distinct

(* Nothing is removed from an empty table.                                 *)
LEMMA RemoveFromEmpty ==
  ASSUME NEW pid
  PROVE  RemoveFilters({}, pid) = {}
BY DEF RemoveFilters, Dropped

-----------------------------------------------------------------------------
(* The invariant.                                                          *)

Separate(r) ==
  /\ r.fd # NoFd => r.fd \notin DecoderFdsOf(r)
  /\ r.fd_dvr # NoFd => r.fd_dvr \notin FdsOf(r.sct) \cup FdsOf(r.pes)
  /\ FdsOf(r.sct) \cap FdsOf(r.pes) = {}
  /\ Distinct(r.sct) /\ Distinct(r.pes)

(* Only a decoder has a dvr device and filters.                            *)
Bare(r) == ~r.mydvb => r.fd_dvr = NoFd /\ r.sct = {} /\ r.pes = {}

TunersApart ==
  \A t, u \in Tuner : t # u => OwnedFdsOf(tune[t]) \cap OwnedFdsOf(tune[u]) = {}
TunersTidy  == \A t \in Tuner : Separate(tune[t]) /\ Bare(tune[t])
OwnedIsOpen == \A t \in Tuner : OwnedFdsOf(tune[t]) \subseteq open
Served      == \A t \in Tuner : PolledFdsOf(tune[t]) \subseteq polled
PesNotPolled == up => \A t \in Tuner : FdsOf(tune[t].pes) \cap polled = {}

Fds == /\ TunersApart /\ TunersTidy /\ OwnedIsOpen
       /\ Served /\ PesNotPolled /\ PolledIsOpen

FdInv == StageInv /\ Fds

LEMMA OwnedOnceParts == TunersApart /\ TunersTidy => OwnedOnce
BY DEF OwnedOnce, TunersApart, TunersTidy, Separate, Distinct

LEMMA OwnedParts ==
  ASSUME NEW r
  PROVE  /\ PolledFdsOf(r) = RealFds({r.fd}) \cup RealFds({r.fd_dvr}) \cup FdsOf(r.sct)
         /\ OwnedFdsOf(r) = PolledFdsOf(r) \cup FdsOf(r.pes)
         /\ DecoderFdsOf(r) = RealFds({r.fd_dvr}) \cup FdsOf(r.sct) \cup FdsOf(r.pes)
BY DEF OwnedFdsOf, PolledFdsOf, DecoderFdsOf, RealFds

LEMMA SeparateSets ==
  ASSUME NEW r, Separate(r)
  PROVE  /\ FdsOf(r.pes) \cap PolledFdsOf(r) = {}
         /\ RealFds({r.fd}) \cap DecoderFdsOf(r) = {}
<1>1. DecoderFdsOf(r) = RealFds({r.fd_dvr}) \cup FdsOf(r.sct) \cup FdsOf(r.pes)
  BY OwnedParts
<1>2. PolledFdsOf(r) = RealFds({r.fd}) \cup RealFds({r.fd_dvr}) \cup FdsOf(r.sct)
  BY OwnedParts
<1> QED BY <1>1, <1>2 DEF Separate, RealFds

(* A tuner becomes r: what it gives up is closed and no longer polled, and *)
(* what it gains was free.                                                 *)
Swap(t, r) ==
  /\ tune' = [tune EXCEPT ![t] = r]
  /\ open' = (open \ OwnedFdsOf(tune[t])) \cup OwnedFdsOf(r)
  /\ polled' = (polled \ PolledFdsOf(tune[t])) \cup PolledFdsOf(r)
  /\ up /\ UNCHANGED up
  /\ OwnedFdsOf(r) \subseteq OwnedFdsOf(tune[t]) \cup (Fd \ open)
  /\ FdsOf(r.pes) \subseteq FdsOf(tune[t].pes) \cup (Fd \ open)
  /\ Separate(r) /\ Bare(r)

(* A tuner becomes r, which has what is left of it and what was free, and  *)
(* nothing is closed.                                                      *)
Gain(t, r) ==
  /\ tune' = [tune EXCEPT ![t] = r]
  /\ open' = open \cup OwnedFdsOf(r)
  /\ polled' = polled \cup PolledFdsOf(r)
  /\ up /\ UNCHANGED up
  /\ OwnedFdsOf(r) \subseteq OwnedFdsOf(tune[t]) \cup (Fd \ open)
  /\ FdsOf(r.pes) \subseteq FdsOf(tune[t].pes) \cup (Fd \ open)
  /\ Separate(r) /\ Bare(r)

LEMMA SwapFds ==
  ASSUME FdInv, NEW t \in Tuner, NEW r, Swap(t, r) \/ Gain(t, r)
  PROVE  Fds'
<1> DEFINE s == tune[t]
<1>1. /\ \A u \in Tuner \ {t} : tune'[u] = tune[u]
      /\ tune'[t] = r
  BY Typed DEF FdInv, StageInv, UsesInv, Swap, Gain
<1>2. /\ TunersApart /\ TunersTidy /\ OwnedIsOpen /\ Served /\ up'
      /\ \A u \in Tuner : FdsOf(tune[u].pes) \cap polled = {}
      /\ polled \subseteq open
  BY DEF FdInv, Fds, PesNotPolled, PolledIsOpen, Swap, Gain
<1>3. /\ OwnedFdsOf(s) \subseteq open
      /\ OwnedFdsOf(s) = PolledFdsOf(s) \cup FdsOf(s.pes)
      /\ FdsOf(s.pes) \cap polled = {}
  BY <1>2, OwnedParts DEF OwnedIsOpen
<1>4. /\ OwnedFdsOf(r) \subseteq OwnedFdsOf(s) \cup (Fd \ open)
      /\ FdsOf(r.pes) \subseteq FdsOf(s.pes) \cup (Fd \ open)
      /\ OwnedFdsOf(r) = PolledFdsOf(r) \cup FdsOf(r.pes)
      /\ Separate(r) /\ Bare(r)
      /\ FdsOf(r.pes) \cap PolledFdsOf(r) = {}
  BY OwnedParts, SeparateSets DEF Swap, Gain
<1>5. /\ OwnedFdsOf(r) \subseteq open' /\ open' \subseteq open \cup OwnedFdsOf(r)
      /\ open \ OwnedFdsOf(s) \subseteq open'
      /\ PolledFdsOf(r) \subseteq polled'
      /\ polled' \subseteq polled \cup PolledFdsOf(r)
      /\ polled \ PolledFdsOf(s) \subseteq polled'
  BY DEF Swap, Gain
<1>6. \A u \in Tuner \ {t} : /\ OwnedFdsOf(tune[u]) \cap OwnedFdsOf(s) = {}
                             /\ OwnedFdsOf(tune[u]) \subseteq open
                             /\ PolledFdsOf(tune[u]) \subseteq OwnedFdsOf(tune[u])
                             /\ FdsOf(tune[u].pes) \subseteq OwnedFdsOf(tune[u])
  BY <1>2, OwnedParts DEF TunersApart, OwnedIsOpen
<1>7. polled' \subseteq open'
  BY <1>2, <1>3, <1>4 DEF Swap, Gain
<1> HIDE DEF s
<1>8. \A u \in Tuner \ {t} : OwnedFdsOf(tune[u]) \cap OwnedFdsOf(r) = {}
  BY <1>4, <1>6
<1>9. TunersApart'
  BY <1>1, <1>2, <1>8 DEF TunersApart
<1>10. TunersTidy'
  BY <1>1, <1>2, <1>4 DEF TunersTidy
<1>11. OwnedIsOpen'
  <2>1. \A u \in Tuner \ {t} : OwnedFdsOf(tune[u]) \subseteq open'
    BY <1>5, <1>6
  <2> QED BY <1>1, <1>5, <2>1 DEF OwnedIsOpen
<1>12. Served'
  <2>1. \A u \in Tuner \ {t} : PolledFdsOf(tune[u]) \subseteq polled'
    BY <1>2, <1>3, <1>5, <1>6 DEF Served
  <2> QED BY <1>1, <1>5, <2>1 DEF Served
<1>13. PesNotPolled'
  <2>1. \A u \in Tuner \ {t} : FdsOf(tune[u].pes) \cap polled' = {}
    BY <1>2, <1>4, <1>5, <1>6, <1>8
  <2>2. FdsOf(r.pes) \cap polled' = {}
    BY <1>2, <1>3, <1>4, <1>5
  <2> QED BY <1>1, <2>1, <2>2 DEF PesNotPolled
<1> QED BY <1>7, <1>9, <1>10, <1>11, <1>12, <1>13 DEF Fds, PolledIsOpen

(* A step that leaves all descriptors where they are.                      *)
SameParts(r, s) ==
  /\ r.fd = s.fd /\ r.fd_dvr = s.fd_dvr /\ r.sct = s.sct /\ r.pes = s.pes
  /\ r.mydvb = s.mydvb

SameFds ==
  /\ UNCHANGED <<polled, open, up>>
  /\ \A t \in Tuner : SameParts(tune'[t], tune[t])

LEMMA SamePartsFds ==
  ASSUME NEW r, NEW s, SameParts(r, s)
  PROVE  /\ OwnedFdsOf(r) = OwnedFdsOf(s) /\ PolledFdsOf(r) = PolledFdsOf(s)
         /\ FdsOf(r.pes) = FdsOf(s.pes)
         /\ Separate(s) => Separate(r)
         /\ Bare(s) => Bare(r)
BY DEF SameParts, OwnedFdsOf, PolledFdsOf, DecoderFdsOf, FdsOf, Separate, Bare

LEMMA SameStepFds ==
  ASSUME FdInv, SameFds
  PROVE  Fds'
<1>1. \A t \in Tuner :
        /\ OwnedFdsOf(tune'[t]) = OwnedFdsOf(tune[t])
        /\ PolledFdsOf(tune'[t]) = PolledFdsOf(tune[t])
        /\ FdsOf(tune'[t].pes) = FdsOf(tune[t].pes)
        /\ Separate(tune[t]) => Separate(tune'[t])
        /\ Bare(tune[t]) => Bare(tune'[t])
  BY SamePartsFds DEF SameFds
<1>2. UNCHANGED <<polled, open, up>>
  BY DEF SameFds
<1>3. TunersApart'
  BY <1>1 DEF FdInv, Fds, TunersApart
<1>4. TunersTidy'
  BY <1>1 DEF FdInv, Fds, TunersTidy
<1>5. OwnedIsOpen' /\ Served'
  BY <1>1, <1>2 DEF FdInv, Fds, OwnedIsOpen, Served
<1>6. PesNotPolled' /\ PolledIsOpen'
  BY <1>1, <1>2 DEF FdInv, Fds, PesNotPolled, PolledIsOpen
<1> QED BY <1>3, <1>4, <1>5, <1>6 DEF Fds

FdStep == SameFds \/ \E t \in Tuner : \E r : Swap(t, r)

-----------------------------------------------------------------------------
(* Every action but the open of a tuner in use, which only a callback can  *)
(* ask for, and the end of the engine is such a step.                      *)

(* One tuner changes in other fields.                                      *)
LEMMA OneSame ==
  ASSUME TypeInv, NEW t \in Tuner, NEW r,
         tune' = [tune EXCEPT ![t] = r], SameParts(r, tune[t]),
         UNCHANGED <<polled, open, up>>
  PROVE  SameFds
<1>1. \A u \in Tuner : SameParts(tune'[u], tune[u])
  BY Typed DEF SameParts
<1> QED BY <1>1 DEF SameFds

LEMMA ShareSameFds ==
  ASSUME TypeInv, NEW cl \in Client, NEW c \in Channel, TunerChannelShare(cl, c)
  PROVE  SameFds
<1>1. PICK t \in Tuner : tune' = [tune EXCEPT ![t] = AddUser(tune[t])]
  BY DEF TunerChannelShare
<1>2. UNCHANGED <<polled, open, up>>
  BY DEF TunerChannelShare
<1>3. SameParts(AddUser(tune[t]), tune[t])
  BY Typed DEF TuneState, AddUser, SameParts
<1> QED BY <1>1, <1>2, <1>3, OneSame

LEMMA TuneSameFds ==
  ASSUME TypeInv, TunerChannelTune
  PROVE  SameFds
<1> DEFINE cl == calls[Len(calls)]
           t  == client[cl].tuner
<1>1. PICK taken \in BOOLEAN : tune' = [tune EXCEPT ![t] = TriedTune(tune[t], taken)]
  BY DEF TunerChannelTune
<1>2. UNCHANGED <<polled, open, up>>
  BY DEF TunerChannelTune
<1>3. t \in Tuner
  BY TuneEffect
<1> HIDE DEF t
<1>4. SameParts(TriedTune(tune[t], taken), tune[t])
  BY <1>3, Typed DEF TuneState, TriedTune, SameParts
<1> QED BY <1>1, <1>2, <1>3, <1>4, OneSame

LEMMA MainLoopSameFds ==
  ASSUME TypeInv, MainLoopStep
  PROVE  SameFds \/ \E t \in Tuner : ReadFirstPat(t)
<1>1. tune \in [Tuner -> TuneState]
  BY Typed
<1>2. ASSUME NEW t \in Tuner, NEW status, FrontendEvent(t, status)
      PROVE  SameFds
  <2>1. /\ tune' = [tune EXCEPT ![t] = [tune[t] EXCEPT !.status = status, !.age = 0]]
        /\ UNCHANGED <<polled, open, up>>
    BY <1>2 DEF FrontendEvent
  <2>2. SameParts([tune[t] EXCEPT !.status = status, !.age = 0], tune[t])
    BY <1>1 DEF TuneState, SameParts
  <2> QED BY <1>1, <2>1, <2>2, OneSame
<1>3. CASE Second
  <2> DEFINE older(t) == IF tune[t].status = "TRYING" /\ tune[t].age < TuneSeconds
                         THEN [tune[t] EXCEPT !.age = tune[t].age + 1] ELSE tune[t]
  <2>1. tune' = [t \in Tuner |-> older(t)] /\ UNCHANGED <<polled, open, up>>
    BY <1>3 DEF Second
  <2>2. \A t \in Tuner : SameParts(older(t), tune[t])
    BY <1>1 DEF TuneState, SameParts
  <2> HIDE DEF older
  <2> QED BY <2>1, <2>2 DEF SameFds
<1>4. CASE PeriodicCheck
  BY <1>4 DEF PeriodicCheck, SameParts, SameFds
<1>5. CASE CheckTuner
  <2> DEFINE t == checking
  <2>1. CASE tune[t].status = "TRYING" /\ tune[t].age >= TuneSeconds
    <3>1. /\ tune' = [tune EXCEPT ![t] = [tune[t] EXCEPT !.status = "FAILED", !.age = 0]]
          /\ t \in Tuner /\ UNCHANGED <<polled, open, up>>
      BY <1>5, <2>1 DEF CheckTuner
    <3>2. SameParts([tune[t] EXCEPT !.status = "FAILED", !.age = 0], tune[t])
      BY <1>1, <2>1, <3>1 DEF TuneState, SameParts
    <3> QED BY <1>1, <3>1, <3>2, OneSame
  <2>2. CASE ~(tune[t].status = "TRYING" /\ tune[t].age >= TuneSeconds)
    BY <1>5, <2>2 DEF CheckTuner, SameParts, SameFds
  <2> QED BY <2>1, <2>2
<1> QED BY <1>2, <1>3, <1>4, <1>5 DEF MainLoopStep, FrontendLock, FrontendTimedOut

(* The filter of the NIT.                                                  *)
LEMMA ReadFirstPatFdStep ==
  ASSUME FdInv, up, NEW t \in Tuner, ReadFirstPat(t)
  PROVE  FdStep
<1>1. PICK f \in OpenResult(open) \cup {NoFd} :
        /\ tune' = [tune EXCEPT ![t] =
             [tune[t] EXCEPT !.sct = AddFilter(tune[t].sct, NIT_PID, f)]]
        /\ open' = Opened(open, f)
        /\ polled' = Opened(polled, f)
  BY DEF ReadFirstPat
<1>2. tune[t].mydvb /\ UNCHANGED up
  BY DEF ReadFirstPat
<1>3. TypeInv /\ NoFd \notin open
  BY FdsAreReal DEF FdInv, StageInv, UsesInv, TypeInv, TypeOK
<1>4. RealFds({f}) \subseteq Fd \ open /\ f \notin open
  BY <1>3, OpenResultType DEF RealFds
<1> DEFINE s   == tune[t]
           sct == AddFilter(s.sct, NIT_PID, f)
           r   == [s EXCEPT !.sct = sct]
<1>5. s \in TuneState
  BY <1>3, Typed
<1>6. /\ OwnedFdsOf(s) \subseteq open /\ PolledFdsOf(s) \subseteq polled
      /\ Separate(s) /\ Bare(s)
  BY DEF FdInv, Fds, OwnedIsOpen, Served, TunersTidy
<1> HIDE DEF s
<1>7. /\ FdsOf(s.sct) \subseteq open
      /\ Distinct(s.sct)
  BY <1>6, OwnedParts DEF Separate
<1>8. FdsOf(sct) = FdsOf(s.sct) \cup RealFds({f}) /\ Distinct(sct)
  BY <1>4, <1>7, AddFilterFds
<1> HIDE DEF sct
<1>9. /\ r.fd = s.fd /\ r.fd_dvr = s.fd_dvr /\ r.pes = s.pes /\ r.sct = sct
      /\ r.mydvb = s.mydvb
  BY <1>5 DEF TuneState
<1>10. tune' = [tune EXCEPT ![t] = r]
  BY <1>1 DEF r, s, sct
<1> HIDE DEF r
<1>11. /\ OwnedFdsOf(r) = OwnedFdsOf(s) \cup RealFds({f})
       /\ PolledFdsOf(r) = PolledFdsOf(s) \cup RealFds({f})
  BY <1>8, <1>9, OwnedParts
<1>12. Separate(r)
  BY <1>4, <1>6, <1>8, <1>9, OwnedParts DEF Separate, RealFds
<1>13. Bare(r)
  BY <1>2, <1>9 DEF Bare, s
<1>14. Swap(t, r)
  BY <1>1, <1>2, <1>4, <1>6, <1>9, <1>10, <1>11, <1>12, <1>13 DEF Swap, Opened, s
<1> QED BY <1>14 DEF FdStep

(* A tuner that is opened when it has no operation, and no decoder.        *)
LEMMA OpenGains ==
  ASSUME FdInv, up, NEW cl \in Client, NEW c \in Channel, TunerChannelOpen(cl, c)
  PROVE  \E t \in Tuner : \E r : tune[t].status = "NOOP" /\ Gain(t, r)
<1>1. PICK t \in Tuner, f \in OpenResult(open) :
        /\ IsFirst(t, Usable(c))
        /\ tune' = [tune EXCEPT ![t] = OpenedTune(AddUser(tune[t]), f, c)]
        /\ open' = Opened(open, f)
        /\ polled' = Opened(polled, f)
  BY DEF TunerChannelOpen
<1>2. UNCHANGED up
  BY DEF TunerChannelOpen
<1> DEFINE s == tune[t]
           r == OpenedTune(AddUser(s), f, c)
<1>3. s \in TuneState /\ s.status = "NOOP"
  BY <1>1, Typed DEF FdInv, StageInv, UsesInv, IsFirst, Usable
<1>4. ~s.mydvb
  BY <1>3 DEF FdInv, StageInv, Stages, DecoderOnlyWhenLocked
<1>5. s.fd_dvr = NoFd /\ s.sct = {} /\ s.pes = {}
  BY <1>4 DEF FdInv, Fds, TunersTidy, Bare
<1> HIDE DEF s
<1>6. /\ AddUser(s) \in TuneState /\ AddUser(s).fd_dvr = NoFd
      /\ AddUser(s).sct = {} /\ AddUser(s).pes = {}
  BY <1>3, <1>5 DEF AddUser, TuneState
<1>7. r.fd = f /\ r.fd_dvr = NoFd /\ r.sct = {} /\ r.pes = {}
  <2> DEFINE q == AddUser(s)
  <2> HIDE DEF q
  <2>1. OpenedTune(q, f, c).fd = f /\ OpenedTune(q, f, c).fd_dvr = NoFd
        /\ OpenedTune(q, f, c).sct = {} /\ OpenedTune(q, f, c).pes = {}
    BY <1>6 DEF OpenedTune, ClosedTune, TuneState, q
  <2> QED BY <2>1 DEF q
<1>8. tune' = [tune EXCEPT ![t] = r]
  BY <1>1 DEF s
<1> HIDE DEF r
<1>9. FdsOf({}) = {}
  BY DEF FdsOf
<1>10. /\ PolledFdsOf(r) = RealFds({f}) /\ OwnedFdsOf(r) = RealFds({f})
       /\ DecoderFdsOf(r) = {} /\ FdsOf(r.pes) = {}
  <2>1. RealFds({NoFd}) = {}
    BY DEF RealFds
  <2> QED BY <1>7, <1>9, <2>1, OwnedParts
<1>11. RealFds({f}) \subseteq Fd \ open
  BY OpenResultType DEF RealFds
<1>12. Separate(r) /\ Bare(r)
  BY <1>7, <1>9, <1>10 DEF Separate, Bare, Distinct
<1>13. Gain(t, r)
  BY <1>1, <1>2, <1>8, <1>10, <1>11, <1>12 DEF Gain, Opened
<1> QED BY <1>3, <1>13 DEF s

LEMMA ReleaseFdStep ==
  ASSUME FdInv, up, NEW cl \in Client, TunerRelease(cl)
  PROVE  FdStep
<1> DEFINE t == client[cl].tuner
           s == tune[t]
<1>1. /\ client[cl].phase = "holding" /\ UNCHANGED up
      /\ \/ /\ tune' = [tune EXCEPT ![t] = ClosedTune(RemoveUser(s))]
            /\ polled' = polled \ OwnedFdsOf(s)
            /\ open' = open \ OwnedFdsOf(s)
         \/ /\ tune' = [tune EXCEPT ![t] = RemoveUser(s)]
            /\ UNCHANGED <<polled, open>>
  BY DEF TunerRelease
<1>2. TypeInv /\ t \in Tuner /\ s \in TuneState
  BY <1>1, Typed DEF FdInv, StageInv, UsesInv
<1>3. FdsOf(s.pes) \cap polled = {}
  BY <1>2 DEF FdInv, Fds, PesNotPolled
<1> HIDE DEF s, t
<1>4. SameParts(RemoveUser(s), s) /\ RemoveUser(s) \in TuneState
  BY <1>2 DEF RemoveUser, TuneState, SameParts
<1>5. CASE /\ tune' = [tune EXCEPT ![t] = RemoveUser(s)]
           /\ UNCHANGED <<polled, open>>
  BY <1>1, <1>2, <1>4, <1>5, OneSame DEF s, FdStep
<1>6. CASE /\ tune' = [tune EXCEPT ![t] = ClosedTune(RemoveUser(s))]
           /\ polled' = polled \ OwnedFdsOf(s)
           /\ open' = open \ OwnedFdsOf(s)
  <2> DEFINE q == RemoveUser(s)
             r == ClosedTune(q)
  <2> HIDE DEF q
  <2>1. r.fd = NoFd /\ r.fd_dvr = NoFd /\ r.sct = {} /\ r.pes = {}
    BY <1>4 DEF ClosedTune, TuneState, q
  <2> HIDE DEF r
  <2>2. FdsOf({}) = {}
    BY DEF FdsOf
  <2>3. /\ PolledFdsOf(r) = {} /\ OwnedFdsOf(r) = {} /\ DecoderFdsOf(r) = {}
        /\ FdsOf(r.pes) = {}
    BY <2>1, <2>2, OwnedParts DEF RealFds
  <2>4. Separate(r) /\ Bare(r)
    BY <2>1, <2>2, <2>3 DEF Separate, Bare, Distinct
  <2>5. polled \ OwnedFdsOf(s) = polled \ PolledFdsOf(s)
    BY <1>3, OwnedParts
  <2>6. tune' = [tune EXCEPT ![t] = r]
    BY <1>6 DEF r, q
  <2>7. Swap(t, r)
    BY <1>1, <1>6, <2>3, <2>4, <2>5, <2>6 DEF Swap, s
  <2> QED BY <1>2, <2>7 DEF FdStep
<1> QED BY <1>1, <1>5, <1>6

LEMMA StopDecoderFdStep ==
  ASSUME FdInv, up, NEW cl \in Client, StopDecoder(cl)
  PROVE  FdStep
<1> DEFINE t == client[cl].tuner
           s == tune[t]
           r == [s EXCEPT !.fd_dvr = NoFd, !.sct = {}, !.pes = {}, !.mydvb = FALSE]
<1>1. /\ client[cl].phase = "holding" /\ UNCHANGED up
      /\ tune' = [tune EXCEPT ![t] = r]
      /\ polled' = polled \ DecoderFdsOf(s)
      /\ open' = open \ DecoderFdsOf(s)
  BY DEF StopDecoder
<1>2. t \in Tuner /\ s \in TuneState
  BY <1>1, Typed DEF FdInv, StageInv, UsesInv
<1>3. /\ FdsOf(s.pes) \cap polled = {} /\ Separate(s)
      /\ OwnedFdsOf(s) \subseteq open /\ PolledFdsOf(s) \subseteq polled
  BY <1>2 DEF FdInv, Fds, PesNotPolled, TunersTidy, OwnedIsOpen, Served
<1> HIDE DEF s
<1>4. r.fd = s.fd /\ r.fd_dvr = NoFd /\ r.sct = {} /\ r.pes = {}
  BY <1>2 DEF TuneState
<1> HIDE DEF r, t
<1>5. FdsOf({}) = {} /\ RealFds({NoFd}) = {}
  BY DEF FdsOf, RealFds
<1>6. /\ PolledFdsOf(r) = RealFds({s.fd}) /\ OwnedFdsOf(r) = RealFds({s.fd})
      /\ DecoderFdsOf(r) = {} /\ FdsOf(r.pes) = {}
  BY <1>4, <1>5, OwnedParts
<1>7. Separate(r) /\ Bare(r)
  BY <1>4, <1>5, <1>6 DEF Separate, Bare, Distinct
<1>8. /\ OwnedFdsOf(s) = RealFds({s.fd}) \cup DecoderFdsOf(s)
      /\ PolledFdsOf(s) \cup FdsOf(s.pes) = OwnedFdsOf(s)
      /\ RealFds({s.fd}) \cap DecoderFdsOf(s) = {}
      /\ RealFds({s.fd}) \subseteq PolledFdsOf(s)
  BY <1>3, OwnedParts, SeparateSets
<1>9. open \ DecoderFdsOf(s) = (open \ OwnedFdsOf(s)) \cup RealFds({s.fd})
  BY <1>3, <1>8
<1>10. polled \ DecoderFdsOf(s) = (polled \ PolledFdsOf(s)) \cup RealFds({s.fd})
  BY <1>3, <1>8
<1>11. Swap(t, r)
  BY <1>1, <1>6, <1>7, <1>8, <1>9, <1>10 DEF Swap, s
<1> QED BY <1>2, <1>11 DEF FdStep

(* The descriptors that mydvb_start_decoder opens are five different ones. *)
LEMMA StartDecoderFdStep ==
  ASSUME FdInv, up, NEW cl \in Client, StartDecoder(cl)
  PROVE  FdStep
<1> DEFINE t == client[cl].tuner
           s == tune[t]
           Opens(pat, pes, sdt, eit, dvr) ==
             /\ tune' = [tune EXCEPT ![t] =
                  [s EXCEPT
                    !.sct = AddFilter(AddFilter(AddFilter(s.sct, PAT_PID, pat),
                                                SDT_PID, sdt), EIT_PID, eit),
                    !.pes = AddFilter(s.pes, PAT_PID, pes),
                    !.fd_dvr = dvr, !.mydvb = TRUE]]
             /\ open' = open \cup RealFds({pat, pes, sdt, eit, dvr})
             /\ polled' = polled \cup RealFds({pat, sdt, eit, dvr})
<1>1. /\ client[cl].phase = "holding" /\ UNCHANGED up /\ ~s.mydvb
      /\ \E pat \in OpenResult(open) :
         \E pes \in OpenResult(Opened(open, pat)) :
         \E sdt \in OpenResult(open \cup RealFds({pat, pes})) :
         \E eit \in OpenResult(open \cup RealFds({pat, pes, sdt})) :
         \E dvr \in OpenResult(open \cup RealFds({pat, pes, sdt, eit})) :
           Opens(pat, pes, sdt, eit, dvr)
  BY DEF StartDecoder
<1>2. t \in Tuner /\ s \in TuneState
  BY <1>1, Typed DEF FdInv, StageInv, UsesInv
<1>3. /\ Separate(s) /\ Bare(s)
      /\ OwnedFdsOf(s) \subseteq open /\ PolledFdsOf(s) \subseteq polled
      /\ NoFd \notin open
  BY <1>2, FdsAreReal DEF FdInv, StageInv, UsesInv, TypeInv, TypeOK, Fds, TunersTidy, OwnedIsOpen, Served
<1>4. s.fd_dvr = NoFd /\ s.sct = {} /\ s.pes = {}
  BY <1>1, <1>3 DEF Bare
<1> HIDE DEF s, t
<1> HIDE DEF Opens
<1>5. PICK pat \in OpenResult(open) :
      \E pes \in OpenResult(Opened(open, pat)) :
      \E sdt \in OpenResult(open \cup RealFds({pat, pes})) :
      \E eit \in OpenResult(open \cup RealFds({pat, pes, sdt})) :
      \E dvr \in OpenResult(open \cup RealFds({pat, pes, sdt, eit})) :
           Opens(pat, pes, sdt, eit, dvr)
  BY <1>1
<1>6a. PICK pes \in OpenResult(Opened(open, pat)) :
      \E sdt \in OpenResult(open \cup RealFds({pat, pes})) :
      \E eit \in OpenResult(open \cup RealFds({pat, pes, sdt})) :
      \E dvr \in OpenResult(open \cup RealFds({pat, pes, sdt, eit})) :
           Opens(pat, pes, sdt, eit, dvr)
  BY <1>5
<1>6b. PICK sdt \in OpenResult(open \cup RealFds({pat, pes})) :
      \E eit \in OpenResult(open \cup RealFds({pat, pes, sdt})) :
      \E dvr \in OpenResult(open \cup RealFds({pat, pes, sdt, eit})) :
           Opens(pat, pes, sdt, eit, dvr)
  BY <1>6a
<1>6c. PICK eit \in OpenResult(open \cup RealFds({pat, pes, sdt})) :
      \E dvr \in OpenResult(open \cup RealFds({pat, pes, sdt, eit})) :
           Opens(pat, pes, sdt, eit, dvr)
  BY <1>6b
<1>6. PICK dvr \in OpenResult(open \cup RealFds({pat, pes, sdt, eit})) :
           Opens(pat, pes, sdt, eit, dvr)
  BY <1>6c
<1> DEFINE new == RealFds({pat, pes, sdt, eit, dvr})
<1>7. /\ new \subseteq Fd \ open
      /\ RealFds({pat}) \cap RealFds({pes}) = {}
      /\ RealFds({pat, pes}) \cap RealFds({sdt}) = {}
      /\ RealFds({pat, pes, sdt}) \cap RealFds({eit}) = {}
      /\ RealFds({pat, pes, sdt, eit}) \cap RealFds({dvr}) = {}
  <2>1. pat # NoFd => pat \in Fd \ open
    BY OpenResultType
  <2>2. pes # NoFd => pes \in Fd \ Opened(open, pat)
    BY OpenResultType
  <2>3. sdt # NoFd => sdt \in Fd \ (open \cup RealFds({pat, pes}))
    BY OpenResultType
  <2>4. eit # NoFd => eit \in Fd \ (open \cup RealFds({pat, pes, sdt}))
    BY OpenResultType
  <2>5. dvr # NoFd => dvr \in Fd \ (open \cup RealFds({pat, pes, sdt, eit}))
    BY OpenResultType
  <2> QED BY <2>1, <2>2, <2>3, <2>4, <2>5 DEF Opened, RealFds
<1>8. /\ Distinct(s.sct) /\ FdsOf(s.sct) = {}
      /\ Distinct(s.pes) /\ FdsOf(s.pes) = {}
  BY <1>4 DEF Distinct, FdsOf
<1> DEFINE sct1 == AddFilter(s.sct, PAT_PID, pat)
           sct2 == AddFilter(sct1, SDT_PID, sdt)
           sct3 == AddFilter(sct2, EIT_PID, eit)
           pes1 == AddFilter(s.pes, PAT_PID, pes)
           r    == [s EXCEPT !.sct = sct3, !.pes = pes1, !.fd_dvr = dvr, !.mydvb = TRUE]
<1>9. tune' = [tune EXCEPT ![t] = r]
  BY <1>6 DEF Opens
<1>10. FdsOf(sct1) = RealFds({pat}) /\ Distinct(sct1)
  <2>1. FdsOf(sct1) = FdsOf(s.sct) \cup RealFds({pat}) /\ Distinct(sct1)
    BY <1>8, AddFilterFds
  <2> QED BY <1>8, <2>1
<1>11. FdsOf(pes1) = RealFds({pes}) /\ Distinct(pes1)
  <2>1. FdsOf(pes1) = FdsOf(s.pes) \cup RealFds({pes}) /\ Distinct(pes1)
    BY <1>8, AddFilterFds
  <2> QED BY <1>8, <2>1
<1> HIDE DEF sct1, pes1, new
<1>12. FdsOf(sct2) = RealFds({pat}) \cup RealFds({sdt}) /\ Distinct(sct2)
  <2>1. sdt \notin FdsOf(sct1)
    BY <1>7, <1>10 DEF RealFds
  <2> QED BY <1>10, <2>1, AddFilterFds
<1> HIDE DEF sct2
<1>13. FdsOf(sct3) = RealFds({pat}) \cup RealFds({sdt}) \cup RealFds({eit}) /\ Distinct(sct3)
  <2>1. eit \notin FdsOf(sct2)
    BY <1>7, <1>12 DEF RealFds
  <2> QED BY <1>12, <2>1, AddFilterFds
<1> HIDE DEF sct3
<1>14. r.fd = s.fd /\ r.fd_dvr = dvr /\ r.sct = sct3 /\ r.pes = pes1 /\ r.mydvb
  BY <1>2 DEF TuneState
<1> HIDE DEF r
<1>15. /\ OwnedFdsOf(s) = RealFds({s.fd}) /\ PolledFdsOf(s) = RealFds({s.fd})
       /\ FdsOf(s.pes) = {}
  <2>1. RealFds({NoFd}) = {}
    BY DEF RealFds
  <2> QED BY <1>4, <1>8, <2>1, OwnedParts
<1>16. /\ new = RealFds({pat}) \cup RealFds({pes}) \cup RealFds({sdt})
                  \cup RealFds({eit}) \cup RealFds({dvr})
       /\ RealFds({pat, sdt, eit, dvr}) = RealFds({pat}) \cup RealFds({sdt})
                  \cup RealFds({eit}) \cup RealFds({dvr})
  BY DEF RealFds, new
<1>17. /\ FdsOf(r.pes) = RealFds({pes}) /\ FdsOf(r.pes) \subseteq new
       /\ DecoderFdsOf(r) = new
       /\ PolledFdsOf(r) = RealFds({s.fd}) \cup RealFds({pat, sdt, eit, dvr})
       /\ OwnedFdsOf(r) = RealFds({s.fd}) \cup new
  <2>1. FdsOf(r.pes) = RealFds({pes}) /\ FdsOf(r.pes) \subseteq new
    BY <1>11, <1>14, <1>16
  <2>2. DecoderFdsOf(r) = RealFds({dvr}) \cup FdsOf(sct3) \cup FdsOf(pes1)
    BY <1>14, OwnedParts
  <2>3. PolledFdsOf(r) = RealFds({s.fd}) \cup RealFds({dvr}) \cup FdsOf(sct3)
    BY <1>14, OwnedParts
  <2>4. OwnedFdsOf(r) = PolledFdsOf(r) \cup FdsOf(pes1)
    BY <1>14, OwnedParts
  <2> QED BY <1>11, <1>13, <1>16, <2>1, <2>2, <2>3, <2>4
<1>18. Separate(r) /\ Bare(r)
  <2>1. r.fd # NoFd => r.fd \notin DecoderFdsOf(r)
    BY <1>3, <1>7, <1>14, <1>15, <1>17 DEF RealFds
  <2>2. dvr # NoFd => dvr \notin FdsOf(sct3) \cup FdsOf(pes1)
    BY <1>7, <1>11, <1>13 DEF RealFds
  <2>3. FdsOf(sct3) \cap FdsOf(pes1) = {}
    BY <1>7, <1>11, <1>13 DEF RealFds
  <2> QED BY <1>11, <1>13, <1>14, <2>1, <2>2, <2>3 DEF Separate, Bare
<1>19. Swap(t, r)
  <2>1. /\ open' = (open \ OwnedFdsOf(s)) \cup OwnedFdsOf(r)
        /\ polled' = (polled \ PolledFdsOf(s)) \cup PolledFdsOf(r)
    BY <1>3, <1>6, <1>15, <1>17 DEF new, Opens
  <2>2. /\ OwnedFdsOf(r) \subseteq OwnedFdsOf(s) \cup (Fd \ open)
        /\ FdsOf(r.pes) \subseteq FdsOf(s.pes) \cup (Fd \ open)
    BY <1>7, <1>15, <1>17
  <2> QED BY <1>1, <1>9, <1>18, <2>1, <2>2 DEF Swap, s
<1> QED BY <1>2, <1>19 DEF FdStep

(* The filters of a tuner change.                                          *)
LEMMA FiltersFdStep ==
  ASSUME FdInv, up, UNCHANGED up, NEW t \in Tuner, NEW r, NEW sct, NEW pes, NEW news, NEW newp,
         tune' = [tune EXCEPT ![t] = r],
         r.fd = tune[t].fd, r.fd_dvr = tune[t].fd_dvr, r.mydvb = tune[t].mydvb,
         r.sct = sct, r.pes = pes,
         tune[t].mydvb \/ (sct = {} /\ pes = {}),
         news \subseteq Fd \ open, newp \subseteq Fd \ open, news \cap newp = {},
         FdsOf(sct) \subseteq FdsOf(tune[t].sct) \cup news,
         FdsOf(pes) \subseteq FdsOf(tune[t].pes) \cup newp,
         Distinct(sct), Distinct(pes),
         open' = (open \ (FdsOf(tune[t].sct) \cup FdsOf(tune[t].pes)))
                   \cup FdsOf(sct) \cup FdsOf(pes),
         polled' = (polled \ FdsOf(tune[t].sct)) \cup FdsOf(sct)
  PROVE  FdStep
<1> DEFINE s == tune[t]
           device == RealFds({s.fd}) \cup RealFds({s.fd_dvr})
<1>1. /\ Separate(s) /\ Bare(s) /\ FdsOf(s.pes) \cap polled = {}
      /\ OwnedFdsOf(s) \subseteq open /\ PolledFdsOf(s) \subseteq polled
  BY DEF FdInv, Fds, TunersTidy, OwnedIsOpen, Served, PesNotPolled
<1>2. NoFd \notin open
  BY FdsAreReal DEF FdInv, StageInv, UsesInv, TypeInv, TypeOK
<1> HIDE DEF s
<1>3. /\ PolledFdsOf(s) = device \cup FdsOf(s.sct)
      /\ OwnedFdsOf(s) = device \cup FdsOf(s.sct) \cup FdsOf(s.pes)
      /\ DecoderFdsOf(s) = RealFds({s.fd_dvr}) \cup FdsOf(s.sct) \cup FdsOf(s.pes)
  BY OwnedParts
<1>4. r.fd = s.fd /\ r.fd_dvr = s.fd_dvr /\ r.mydvb = s.mydvb
  BY DEF s
<1>5. /\ PolledFdsOf(r) = device \cup FdsOf(sct)
      /\ OwnedFdsOf(r) = device \cup FdsOf(sct) \cup FdsOf(pes)
      /\ DecoderFdsOf(r) = RealFds({s.fd_dvr}) \cup FdsOf(sct) \cup FdsOf(pes)
  BY <1>4, OwnedParts
<1>6. /\ device \cap (FdsOf(s.sct) \cup FdsOf(s.pes)) = {}
      /\ FdsOf(s.sct) \cap FdsOf(s.pes) = {}
      /\ s.fd # NoFd => s.fd # s.fd_dvr
      /\ device \subseteq open
  BY <1>1, <1>3 DEF Separate, RealFds
<1>7. /\ FdsOf(sct) \subseteq FdsOf(s.sct) \cup news
      /\ FdsOf(pes) \subseteq FdsOf(s.pes) \cup newp
      /\ open' = (open \ (FdsOf(s.sct) \cup FdsOf(s.pes))) \cup FdsOf(sct) \cup FdsOf(pes)
      /\ polled' = (polled \ FdsOf(s.sct)) \cup FdsOf(sct)
  BY DEF s
<1>8. Separate(r)
  <2>1. FdsOf(sct) \cap FdsOf(pes) = {}
    BY <1>1, <1>3, <1>6, <1>7
  <2>2. device \cap (FdsOf(sct) \cup FdsOf(pes)) = {}
    BY <1>6, <1>7
  <2>3. r.fd # NoFd => r.fd \notin DecoderFdsOf(r)
    BY <1>4, <1>5, <1>6, <2>2 DEF RealFds
  <2>4. r.fd_dvr # NoFd => r.fd_dvr \notin FdsOf(sct) \cup FdsOf(pes)
    BY <1>4, <2>2 DEF RealFds
  <2> QED BY <2>1, <2>3, <2>4 DEF Separate
<1>9. Bare(r)
  BY <1>1, <1>4 DEF Bare, s
<1>10. open' = (open \ OwnedFdsOf(s)) \cup OwnedFdsOf(r)
  BY <1>3, <1>5, <1>6, <1>7
<1>11. polled' = (polled \ PolledFdsOf(s)) \cup PolledFdsOf(r)
  <2>1. device \subseteq polled
    BY <1>1, <1>3
  <2> QED BY <1>3, <1>5, <1>6, <1>7, <2>1
<1>12. /\ OwnedFdsOf(r) \subseteq OwnedFdsOf(s) \cup (Fd \ open)
       /\ FdsOf(r.pes) \subseteq FdsOf(s.pes) \cup (Fd \ open)
  BY <1>3, <1>5, <1>7
<1>13. Swap(t, r)
  BY <1>8, <1>9, <1>10, <1>11, <1>12 DEF Swap, s
<1> QED BY <1>13 DEF FdStep

(* The tables of a tuner that a client holds.                              *)
LEMMA HeldFds ==
  ASSUME FdInv, up, NEW cl \in Client, client[cl].phase = "holding"
  PROVE  LET s == tune[client[cl].tuner] IN
         /\ client[cl].tuner \in Tuner /\ s \in TuneState
         /\ s.sct \in SUBSET Entry /\ IsFiniteSet(s.sct) /\ Distinct(s.sct)
         /\ s.pes \in SUBSET Entry /\ IsFiniteSet(s.pes) /\ Distinct(s.pes)
         /\ ~s.mydvb => s.sct = {} /\ s.pes = {}
         /\ FdsOf(s.sct) \subseteq open /\ FdsOf(s.pes) \subseteq open
         /\ FdsOf(s.sct) \cap FdsOf(s.pes) = {}
         /\ FdsOf(s.sct) \subseteq polled
<1> DEFINE t == client[cl].tuner
           s == tune[t]
<1>1. t \in Tuner /\ GoodTune(s)
  BY HeldTuner DEF FdInv, StageInv, UsesInv
<1>2. /\ Separate(s) /\ Bare(s)
      /\ OwnedFdsOf(s) \subseteq open /\ PolledFdsOf(s) \subseteq polled
  BY <1>1 DEF FdInv, Fds, TunersTidy, OwnedIsOpen, Served
<1> HIDE DEF s
<1>3. s.sct \in SUBSET Entry /\ s.pes \in SUBSET Entry
  BY <1>1 DEF GoodTune, TuneState
<1>4. /\ FdsOf(s.sct) \subseteq PolledFdsOf(s)
      /\ FdsOf(s.sct) \subseteq OwnedFdsOf(s) /\ FdsOf(s.pes) \subseteq OwnedFdsOf(s)
  BY OwnedParts
<1> QED BY <1>1, <1>2, <1>3, <1>4 DEF s, GoodTune, Separate, Bare

LEMMA StartProgramFdStep ==
  ASSUME FdInv, up, NEW cl \in Client, NEW p, StartProgram(cl, p)
  PROVE  FdStep
<1> DEFINE t == client[cl].tuner
           s == tune[t]
<1>1. client[cl].phase = "holding" /\ s.mydvb /\ UNCHANGED up
  BY DEF StartProgram
<1>2. \E f \in OpenResult(open) : \E g \in OpenResult(Opened(open, f)) :
        /\ tune' = [tune EXCEPT ![t] =
             [s EXCEPT !.sct = AddFilter(s.sct, PmtPid[p], f),
                       !.pes = AddFilter(s.pes, PmtPid[p], g)]]
        /\ open' = open \cup RealFds({f, g})
        /\ polled' = Opened(polled, f)
  BY DEF StartProgram
<1>3. PICK f \in OpenResult(open) : \E g \in OpenResult(Opened(open, f)) :
        /\ tune' = [tune EXCEPT ![t] =
             [s EXCEPT !.sct = AddFilter(s.sct, PmtPid[p], f),
                       !.pes = AddFilter(s.pes, PmtPid[p], g)]]
        /\ open' = open \cup RealFds({f, g})
        /\ polled' = Opened(polled, f)
  BY <1>2
<1>4. PICK g \in OpenResult(Opened(open, f)) :
        /\ tune' = [tune EXCEPT ![t] =
             [s EXCEPT !.sct = AddFilter(s.sct, PmtPid[p], f),
                       !.pes = AddFilter(s.pes, PmtPid[p], g)]]
        /\ open' = open \cup RealFds({f, g})
        /\ polled' = Opened(polled, f)
  BY <1>3
<1>5. /\ t \in Tuner /\ s \in TuneState /\ Distinct(s.sct) /\ Distinct(s.pes)
      /\ FdsOf(s.sct) \subseteq open /\ FdsOf(s.pes) \subseteq open
      /\ FdsOf(s.sct) \subseteq polled
      /\ NoFd \notin open
  BY <1>1, HeldFds, FdsAreReal DEF FdInv, StageInv, UsesInv, TypeInv, TypeOK
<1>6. /\ f # NoFd => f \in Fd \ open
      /\ g # NoFd => g \in Fd \ Opened(open, f)
  BY OpenResultType
<1>7. /\ RealFds({f}) \subseteq Fd \ open /\ RealFds({g}) \subseteq Fd \ open
      /\ RealFds({f}) \cap RealFds({g}) = {}
      /\ RealFds({f, g}) = RealFds({f}) \cup RealFds({g})
      /\ f \notin open /\ g \notin open
  BY <1>5, <1>6 DEF RealFds, Opened
<1> DEFINE sct == AddFilter(s.sct, PmtPid[p], f)
           pes == AddFilter(s.pes, PmtPid[p], g)
           r   == [s EXCEPT !.sct = sct, !.pes = pes]
<1>8. FdsOf(sct) = FdsOf(s.sct) \cup RealFds({f}) /\ Distinct(sct)
  BY <1>5, <1>7, AddFilterFds
<1>9. FdsOf(pes) = FdsOf(s.pes) \cup RealFds({g}) /\ Distinct(pes)
  BY <1>5, <1>7, AddFilterFds
<1>10. tune' = [tune EXCEPT ![t] = r]
  BY <1>4
<1> HIDE DEF sct, pes, s, t
<1>11. /\ r.fd = s.fd /\ r.fd_dvr = s.fd_dvr /\ r.mydvb = s.mydvb
       /\ r.sct = sct /\ r.pes = pes
  BY <1>5 DEF TuneState
<1> HIDE DEF r
<1>12. /\ open' = (open \ (FdsOf(s.sct) \cup FdsOf(s.pes))) \cup FdsOf(sct) \cup FdsOf(pes)
       /\ polled' = (polled \ FdsOf(s.sct)) \cup FdsOf(sct)
  BY <1>4, <1>5, <1>7, <1>8, <1>9 DEF Opened
<1> QED BY <1>1, <1>5, <1>7, <1>8, <1>9, <1>10, <1>11, <1>12, FiltersFdStep DEF s

LEMMA StartStreamFdStep ==
  ASSUME FdInv, up, NEW cl \in Client, NEW p, StartStream(cl, p)
  PROVE  FdStep
<1> DEFINE t == client[cl].tuner
           s == tune[t]
<1>1. client[cl].phase = "holding" /\ s.mydvb /\ UNCHANGED <<polled, up>>
  BY DEF StartStream
<1>2. PICK g \in OpenResult(open) :
        /\ tune' = [tune EXCEPT ![t] = [s EXCEPT !.pes = AddFilter(s.pes, StreamPid[p], g)]]
        /\ open' = Opened(open, g)
  BY DEF StartStream
<1>3. /\ t \in Tuner /\ s \in TuneState /\ Distinct(s.sct) /\ Distinct(s.pes)
      /\ FdsOf(s.sct) \subseteq open /\ FdsOf(s.pes) \subseteq open
      /\ FdsOf(s.sct) \subseteq polled
      /\ NoFd \notin open
  BY <1>1, HeldFds, FdsAreReal DEF FdInv, StageInv, UsesInv, TypeInv, TypeOK
<1>4. RealFds({g}) \subseteq Fd \ open /\ g \notin open
  BY <1>3, OpenResultType DEF RealFds
<1> DEFINE pes == AddFilter(s.pes, StreamPid[p], g)
           r   == [s EXCEPT !.pes = pes]
<1>5. FdsOf(pes) = FdsOf(s.pes) \cup RealFds({g}) /\ Distinct(pes)
  BY <1>3, <1>4, AddFilterFds
<1>6. tune' = [tune EXCEPT ![t] = r]
  BY <1>2
<1> HIDE DEF pes, s, t
<1>7. /\ r.fd = s.fd /\ r.fd_dvr = s.fd_dvr /\ r.mydvb = s.mydvb
      /\ r.sct = s.sct /\ r.pes = pes
  BY <1>3 DEF TuneState
<1> HIDE DEF r
<1>8. /\ open' = (open \ (FdsOf(s.sct) \cup FdsOf(s.pes))) \cup FdsOf(s.sct) \cup FdsOf(pes)
      /\ polled' = (polled \ FdsOf(s.sct)) \cup FdsOf(s.sct)
  BY <1>1, <1>2, <1>3, <1>5 DEF Opened
<1>9. /\ {} \subseteq Fd \ open /\ {} \cap RealFds({g}) = {}
      /\ FdsOf(s.sct) \subseteq FdsOf(s.sct) \cup {}
  OBVIOUS
<1> QED BY <1>1, <1>3, <1>4, <1>5, <1>6, <1>7, <1>8, <1>9, FiltersFdStep DEF s

LEMMA StopProgramFdStep ==
  ASSUME FdInv, up, NEW cl \in Client, NEW p, StopProgram(cl, p) \/ StopStream(cl, p)
  PROVE  FdStep
<1> DEFINE t == client[cl].tuner
           s == tune[t]
<1>1. client[cl].phase = "holding" /\ UNCHANGED up
  BY DEF StopProgram, StopStream
<1>2. /\ t \in Tuner /\ s \in TuneState
      /\ s.sct \in SUBSET Entry /\ IsFiniteSet(s.sct) /\ Distinct(s.sct)
      /\ s.pes \in SUBSET Entry /\ IsFiniteSet(s.pes) /\ Distinct(s.pes)
      /\ ~s.mydvb => s.sct = {} /\ s.pes = {}
      /\ FdsOf(s.sct) \subseteq open /\ FdsOf(s.pes) \subseteq open
      /\ FdsOf(s.sct) \cap FdsOf(s.pes) = {}
      /\ FdsOf(s.sct) \subseteq polled
  BY <1>1, HeldFds
<1>3. {} \subseteq Fd \ open /\ {} \cap {} = {}
  OBVIOUS
<1>4. ASSUME NEW r, NEW sct, NEW pes, tune' = [tune EXCEPT ![t] = r],
             r.fd = s.fd, r.fd_dvr = s.fd_dvr, r.mydvb = s.mydvb,
             r.sct = sct, r.pes = pes, s.mydvb \/ (sct = {} /\ pes = {}),
             FdsOf(sct) \subseteq FdsOf(s.sct), Distinct(sct),
             FdsOf(pes) \subseteq FdsOf(s.pes), Distinct(pes),
             open' = open \ ((FdsOf(s.pes) \ FdsOf(pes)) \cup (FdsOf(s.sct) \ FdsOf(sct))),
             polled' = polled \ (FdsOf(s.sct) \ FdsOf(sct))
      PROVE  FdStep
  <2> HIDE DEF s, t
  <2>1. open' = (open \ (FdsOf(s.sct) \cup FdsOf(s.pes))) \cup FdsOf(sct) \cup FdsOf(pes)
    BY <1>2, <1>4
  <2>2. polled' = (polled \ FdsOf(s.sct)) \cup FdsOf(sct)
    BY <1>2, <1>4
  <2>3. FdsOf(sct) \subseteq FdsOf(s.sct) \cup {} /\ FdsOf(pes) \subseteq FdsOf(s.pes) \cup {}
    BY <1>4
  <2> QED BY <1>1, <1>2, <1>3, <1>4, <2>1, <2>2, <2>3, FiltersFdStep DEF s
<1>5. CASE StopProgram(cl, p)
  <2> DEFINE pes0 == RemoveFilters(s.pes, StreamPid[p])
             pes  == RemoveFilters(pes0, PmtPid[p])
             sct  == RemoveFilters(s.sct, PmtPid[p])
             r    == [s EXCEPT !.pes = pes, !.sct = sct]
  <2>1. /\ tune' = [tune EXCEPT ![t] = r]
        /\ open' = open \ ((FdsOf(s.pes) \ FdsOf(pes)) \cup (FdsOf(s.sct) \ FdsOf(sct)))
        /\ polled' = polled \ (FdsOf(s.sct) \ FdsOf(sct))
    BY <1>5 DEF StopProgram
  <2> HIDE DEF s, t
  <2>2. /\ pes0 \in SUBSET Entry /\ IsFiniteSet(pes0)
        /\ FdsOf(pes0) \subseteq FdsOf(s.pes) /\ Distinct(pes0)
    BY <1>2, RemoveFiltersType, RemoveFiltersDistinct
  <2>3. FdsOf(sct) \subseteq FdsOf(s.sct) /\ Distinct(sct)
    BY <1>2, RemoveFiltersType, RemoveFiltersDistinct
  <2>4. s.mydvb \/ (pes0 = {} /\ sct = {})
    BY <1>2, RemoveFromEmpty
  <2> HIDE DEF pes0, sct
  <2>5. FdsOf(pes) \subseteq FdsOf(s.pes) /\ Distinct(pes)
    BY <2>2, RemoveFiltersType, RemoveFiltersDistinct
  <2>6. s.mydvb \/ (pes = {} /\ sct = {})
    BY <2>4, RemoveFromEmpty
  <2> HIDE DEF pes
  <2>7. /\ r.fd = s.fd /\ r.fd_dvr = s.fd_dvr /\ r.mydvb = s.mydvb
        /\ r.sct = sct /\ r.pes = pes
    BY <1>2 DEF TuneState
  <2> HIDE DEF r
  <2> QED BY <1>4, <2>1, <2>3, <2>5, <2>6, <2>7
<1>6. CASE StopStream(cl, p)
  <2> DEFINE pes == RemoveFilters(s.pes, StreamPid[p])
             r   == [s EXCEPT !.pes = pes]
  <2>1. /\ tune' = [tune EXCEPT ![t] = r]
        /\ open' = open \ (FdsOf(s.pes) \ FdsOf(pes))
        /\ polled' = polled
    BY <1>6 DEF StopStream
  <2> HIDE DEF s, t
  <2>2. FdsOf(pes) \subseteq FdsOf(s.pes) /\ Distinct(pes)
    BY <1>2, RemoveFiltersType, RemoveFiltersDistinct
  <2>3. s.mydvb \/ (pes = {} /\ s.sct = {})
    BY <1>2, RemoveFromEmpty
  <2> HIDE DEF pes
  <2>4. /\ r.fd = s.fd /\ r.fd_dvr = s.fd_dvr /\ r.mydvb = s.mydvb
        /\ r.sct = s.sct /\ r.pes = pes
    BY <1>2 DEF TuneState
  <2> HIDE DEF r
  <2>5. /\ open' = open \ ((FdsOf(s.pes) \ FdsOf(pes)) \cup (FdsOf(s.sct) \ FdsOf(s.sct)))
        /\ polled' = polled \ (FdsOf(s.sct) \ FdsOf(s.sct))
    BY <2>1
  <2> QED BY <1>2, <1>4, <2>1, <2>2, <2>3, <2>4, <2>5
<1> QED BY <1>5, <1>6

LEMMA ClientFdStep ==
  ASSUME FdInv, up, NEW cl \in Client, ClientStep(cl)
  PROVE  FdStep \/ \E c \in Channel : TunerChannelOpen(cl, c)
<1>1. TypeInv
  BY DEF FdInv, StageInv, UsesInv
<1>2. ASSUME NEW c \in Channel, TunerChannelShare(cl, c)
      PROVE  FdStep
  BY <1>1, <1>2, ShareSameFds DEF FdStep
<1>3. ASSUME NEW p \in Program, \/ StartProgram(cl, p) \/ StopProgram(cl, p)
                                \/ StartStream(cl, p) \/ StopStream(cl, p)
      PROVE  FdStep
  BY <1>3, StartProgramFdStep, StartStreamFdStep, StopProgramFdStep
<1> QED BY <1>2, <1>3, ReleaseFdStep, StartDecoderFdStep, StopDecoderFdStep DEF ClientStep

LEMMA MainLoopFdStep ==
  ASSUME FdInv, up, MainLoopStep
  PROVE  FdStep
<1>1. TypeInv
  BY DEF FdInv, StageInv, UsesInv
<1> QED BY <1>1, MainLoopSameFds, ReadFirstPatFdStep DEF FdStep

LEMMA EngineEndFds ==
  ASSUME FdInv, EngineEnd
  PROVE  Fds' /\ \A t \in Tuner : OwnedFdsOf(tune'[t]) = {}
<1>1. /\ tune' = [t \in Tuner |-> ClosedTune(tune[t])]
      /\ ~up'
  BY DEF EngineEnd
<1>2. ASSUME NEW r \in TuneState
      PROVE  LET q == ClosedTune(r)
             IN  q.fd = NoFd /\ q.fd_dvr = NoFd /\ q.sct = {} /\ q.pes = {}
  BY DEF ClosedTune, TuneState
<1>3. ASSUME NEW t \in Tuner
      PROVE  /\ OwnedFdsOf(tune'[t]) = {} /\ PolledFdsOf(tune'[t]) = {}
             /\ Separate(tune'[t]) /\ Bare(tune'[t])
  <2> DEFINE r == tune'[t]
  <2>1. tune[t] \in TuneState
    BY Typed DEF FdInv, StageInv, UsesInv
  <2>2. r.fd = NoFd /\ r.fd_dvr = NoFd /\ r.sct = {} /\ r.pes = {}
    BY <1>1, <1>2, <2>1
  <2> HIDE DEF r
  <2>3. FdsOf({}) = {} /\ RealFds({NoFd}) = {}
    BY DEF FdsOf, RealFds
  <2>4. /\ OwnedFdsOf(r) = {} /\ PolledFdsOf(r) = {}
        /\ Separate(r) /\ Bare(r)
    BY <2>2, <2>3, OwnedParts DEF Separate, Bare, Distinct
  <2> QED BY <2>4 DEF r
<1>4. TunersApart' /\ TunersTidy' /\ OwnedIsOpen' /\ Served'
  BY <1>3 DEF TunersApart, TunersTidy, OwnedIsOpen, Served
<1> QED BY <1>1, <1>3, <1>4 DEF Fds, PesNotPolled, PolledIsOpen

LEMMA NextFds == FdInv /\ [Next]_vars => FdInv'
<1> SUFFICES ASSUME FdInv, [Next]_vars PROVE Fds'
  BY NextStages DEF FdInv
<1>1. CASE FdStep
  BY <1>1, SwapFds, SameStepFds DEF FdStep
<1>2. ASSUME up, NEW cl \in Client, NEW c \in Channel, TunerChannelOpen(cl, c)
      PROVE  Fds'
  BY <1>2, OpenGains, SwapFds
<1>3. CASE UNCHANGED vars
  BY <1>3, SameStepFds DEF vars, SameFds, SameParts
<1>4. TypeInv
  BY DEF FdInv, StageInv, UsesInv
<1> QED BY <1>1, <1>2, <1>3, <1>4, ClientFdStep, TuneSameFds, MainLoopFdStep, EngineEndFds
    DEF Next, FdStep

LEMMA InitFds == Init => FdInv
<1> SUFFICES ASSUME Init PROVE Fds
  BY InitUses, InitStages DEF FdInv, StageInv
<1>1. \A t \in Tuner : /\ tune[t].fd = NoFd /\ tune[t].fd_dvr = NoFd
                       /\ tune[t].sct = {} /\ tune[t].pes = {}
  BY DEF Init, FreshTune
<1>2. FdsOf({}) = {} /\ RealFds({NoFd}) = {}
  BY DEF FdsOf, RealFds
<1>3. \A t \in Tuner : /\ OwnedFdsOf(tune[t]) = {} /\ PolledFdsOf(tune[t]) = {}
                       /\ Separate(tune[t]) /\ Bare(tune[t])
  BY <1>1, <1>2, OwnedParts DEF Separate, Bare, Distinct
<1>4. polled = {} /\ open = {}
  BY DEF Init
<1> QED BY <1>3, <1>4 DEF Fds, TunersApart, TunersTidy, OwnedIsOpen, Served, PesNotPolled, PolledIsOpen

(* The main loop polls no descriptor that is closed, whatever fails and    *)
(* even when the callbacks of a tuning tune themselves.                    *)
THEOREM PolledOpen == Spec => []PolledIsOpen
<1>1. FdInv => PolledIsOpen
  BY DEF FdInv, Fds
<1> QED BY <1>1, InitFds, NextFds, PTL DEF Spec

(* A descriptor is in one place.                                           *)
THEOREM OneOwner == Spec => []OwnedOnce
<1>1. FdInv => OwnedOnce
  BY OwnedOnceParts DEF FdInv, Fds
<1> QED BY <1>1, InitFds, NextFds, PTL DEF Spec

-----------------------------------------------------------------------------
(* When callbacks do not tune, nothing is forgotten either.                *)

Exact    == NothingLeaks /\ PollMatchesTuners
ExactInv == FdInv /\ Exact

LEMMA SwapExact ==
  ASSUME ExactInv, NEW t \in Tuner, NEW r, Swap(t, r)
  PROVE  Exact'
<1>1. TypeInv /\ FdInv /\ TunersApart /\ NothingLeaks /\ PollMatchesTuners
  BY DEF ExactInv, Exact, FdInv, Fds, StageInv, UsesInv
<1>2. /\ \A u \in Tuner \ {t} : tune'[u] = tune[u]
      /\ tune'[t] = r
  BY <1>1, Typed DEF Swap
<1>3. /\ open' = (open \ OwnedFdsOf(tune[t])) \cup OwnedFdsOf(r)
      /\ polled' = (polled \ PolledFdsOf(tune[t])) \cup PolledFdsOf(r)
      /\ up /\ up'
  BY DEF Swap
<1>4. \A u \in Tuner \ {t} :
        /\ OwnedFdsOf(tune[u]) \cap OwnedFdsOf(tune[t]) = {}
        /\ PolledFdsOf(tune[u]) \cap PolledFdsOf(tune[t]) = {}
  BY <1>1, OwnedParts DEF TunersApart
<1>5. /\ open = UNION {OwnedFdsOf(tune[u]) : u \in Tuner}
      /\ polled = UNION {PolledFdsOf(tune[u]) : u \in Tuner}
  BY <1>1, <1>3 DEF NothingLeaks, PollMatchesTuners
<1>6. open' = UNION {OwnedFdsOf(tune'[u]) : u \in Tuner}
  <2>1. ASSUME NEW f \in open' PROVE \E u \in Tuner : f \in OwnedFdsOf(tune'[u])
    <3>1. CASE f \in OwnedFdsOf(r)
      BY <1>2, <3>1
    <3>2. CASE f \in open \ OwnedFdsOf(tune[t])
      <4>1. PICK u \in Tuner : f \in OwnedFdsOf(tune[u])
        BY <1>5, <3>2
      <4> QED BY <1>2, <3>2, <4>1
    <3> QED BY <1>3, <2>1, <3>1, <3>2
  <2>2. ASSUME NEW u \in Tuner, NEW f \in OwnedFdsOf(tune'[u]) PROVE f \in open'
    <3>1. CASE u = t
      BY <1>2, <1>3, <3>1
    <3>2. CASE u # t
      BY <1>2, <1>3, <1>4, <1>5, <3>2
    <3> QED BY <3>1, <3>2
  <2> QED BY <2>1, <2>2
<1>7. polled' = UNION {PolledFdsOf(tune'[u]) : u \in Tuner}
  <2>1. ASSUME NEW f \in polled' PROVE \E u \in Tuner : f \in PolledFdsOf(tune'[u])
    <3>1. CASE f \in PolledFdsOf(r)
      BY <1>2, <3>1
    <3>2. CASE f \in polled \ PolledFdsOf(tune[t])
      <4>1. PICK u \in Tuner : f \in PolledFdsOf(tune[u])
        BY <1>5, <3>2
      <4> QED BY <1>2, <3>2, <4>1
    <3> QED BY <1>3, <2>1, <3>1, <3>2
  <2>2. ASSUME NEW u \in Tuner, NEW f \in PolledFdsOf(tune'[u]) PROVE f \in polled'
    <3>1. CASE u = t
      BY <1>2, <1>3, <3>1
    <3>2. CASE u # t
      BY <1>2, <1>3, <1>4, <1>5, <3>2
    <3> QED BY <3>1, <3>2
  <2> QED BY <2>1, <2>2
<1> QED BY <1>6, <1>7 DEF Exact, NothingLeaks, PollMatchesTuners

LEMMA SameExact ==
  ASSUME ExactInv, SameFds
  PROVE  Exact'
<1>1. \A t \in Tuner : /\ OwnedFdsOf(tune'[t]) = OwnedFdsOf(tune[t])
                       /\ PolledFdsOf(tune'[t]) = PolledFdsOf(tune[t])
  BY SamePartsFds DEF SameFds
<1>2. UNCHANGED <<polled, open, up>>
  BY DEF SameFds
<1>3. /\ UNION {OwnedFdsOf(tune'[t]) : t \in Tuner} = UNION {OwnedFdsOf(tune[t]) : t \in Tuner}
      /\ UNION {PolledFdsOf(tune'[t]) : t \in Tuner} = UNION {PolledFdsOf(tune[t]) : t \in Tuner}
  BY <1>1
<1> QED BY <1>2, <1>3 DEF ExactInv, Exact, NothingLeaks, PollMatchesTuners

(* A tuner that is opened owned nothing, so the open drops nothing.        *)
LEMMA OpenExact ==
  ASSUME ExactInv, up, calls = <<>>, NEW cl \in Client, NEW c \in Channel, TunerChannelOpen(cl, c)
  PROVE  Exact'
<1>1. StageInv /\ FdInv
  BY DEF ExactInv, FdInv
<1>2. PICK t \in Tuner : \E r : tune[t].status = "NOOP" /\ Gain(t, r)
  BY <1>1, OpenGains
<1>3. PICK r : Gain(t, r)
  BY <1>2
<1>4. tune[t].references = 0
  BY <1>1, <1>2, NobodyTuning
<1>5. OwnedFdsOf(tune[t]) = {}
  BY <1>1, <1>4 DEF StageInv, UsesInv, IdleTunerOwnsNothing, IsIdle
<1>6. PolledFdsOf(tune[t]) = {}
  BY <1>5, OwnedParts
<1>7. Swap(t, r)
  BY <1>3, <1>5, <1>6 DEF Gain, Swap
<1> QED BY <1>7, SwapExact

LEMMA EngineEndExact ==
  ASSUME ExactInv, EngineEnd
  PROVE  Exact'
<1>1. \A t \in Tuner : OwnedFdsOf(tune'[t]) = {}
  BY EngineEndFds DEF ExactInv
<1>2. open' = open \ UNION {OwnedFdsOf(tune[t]) : t \in Tuner} /\ ~up'
  BY DEF EngineEnd
<1>3. open' = {}
  BY <1>2 DEF ExactInv, Exact, NothingLeaks
<1>4. UNION {OwnedFdsOf(tune'[t]) : t \in Tuner} = {}
  BY <1>1
<1> QED BY <1>2, <1>3, <1>4 DEF Exact, NothingLeaks, PollMatchesTuners

LEMMA NextExact ==
  ASSUME ~NestedTuning
  PROVE  ExactInv /\ [Next]_vars => ExactInv'
<1> SUFFICES ASSUME ExactInv, [Next]_vars PROVE Exact'
  BY NextFds DEF ExactInv
<1>1. CASE FdStep
  BY <1>1, SwapExact, SameExact DEF FdStep
<1>2. ASSUME up, NEW cl \in Client, NEW c \in Channel, TunerChannelOpen(cl, c)
      PROVE  Exact'
  <2>1. calls = <<>>
    BY <1>2 DEF TunerChannelOpen
  <2> QED BY <1>2, <2>1, OpenExact
<1>3. CASE UNCHANGED vars
  BY <1>3, SameExact DEF vars, SameFds, SameParts
<1>4. TypeInv /\ FdInv
  BY DEF ExactInv, FdInv, StageInv, UsesInv
<1> QED BY <1>1, <1>2, <1>3, <1>4, ClientFdStep, TuneSameFds, MainLoopFdStep, EngineEndExact
    DEF Next, FdStep

LEMMA InitExact == Init => ExactInv
<1> SUFFICES ASSUME Init PROVE Exact
  BY InitFds DEF ExactInv
<1>1. FdInv
  BY InitFds
<1>2. open = {} /\ polled = {}
  BY DEF Init
<1>3. \A t \in Tuner : OwnedFdsOf(tune[t]) = {} /\ PolledFdsOf(tune[t]) = {}
  BY <1>1, <1>2 DEF FdInv, Fds, OwnedIsOpen, Served
<1> QED BY <1>2, <1>3 DEF Exact, NothingLeaks, PollMatchesTuners

(* What is open is what the tuners list, when callbacks do not tune.       *)
THEOREM NoLeak ==
  ASSUME ~NestedTuning
  PROVE  Spec => []NothingLeaks
<1>1. ExactInv => NothingLeaks
  BY DEF ExactInv, Exact
<1> QED BY <1>1, InitExact, NextExact, PTL DEF Spec

(* What is polled is what the tuners want polled, when callbacks do not    *)
(* tune.                                                                   *)
THEOREM PollIsComplete ==
  ASSUME ~NestedTuning
  PROVE  Spec => []PollMatchesTuners
<1>1. ExactInv => PollMatchesTuners
  BY DEF ExactInv, Exact
<1> QED BY <1>1, InitExact, NextExact, PTL DEF Spec

-----------------------------------------------------------------------------
(* The filters of a pid: how many an addition adds and a removal takes     *)
(* away, whatever the order of the table.                                  *)

With(table, pid) == {e \in table : e.pid = pid}

LEMMA WithFinite ==
  ASSUME NEW table, IsFiniteSet(table), NEW pid
  PROVE  IsFiniteSet(With(table, pid)) /\ Cardinality(With(table, pid)) \in Nat
<1>1. With(table, pid) \in SUBSET table
  BY DEF With
<1> QED BY <1>1, FS_Subset, FS_CardinalityType

(* An addition adds at most one filter of its pid, and none of another.    *)
LEMMA AddCount ==
  ASSUME NEW table, IsFiniteSet(table), NEW pid, NEW f, NEW q
  PROVE  LET n == Cardinality(With(table, q))
             m == Cardinality(With(AddFilter(table, pid, f), q))
         IN  m \in Nat /\ m <= n + 1 /\ (q # pid => m = n)
<1> DEFINE k == Cardinality(table) + 1
           e == [pid |-> pid, fd |-> f, slot |-> k]
<1>1. IsFiniteSet(With(table, q)) /\ Cardinality(With(table, q)) \in Nat
  BY WithFinite
<1>2. AddFilter(table, pid, f) = table \/ AddFilter(table, pid, f) = table \cup {e}
  BY DEF AddFilter
<1> HIDE DEF k
<1>3. e.pid = pid
  OBVIOUS
<1> HIDE DEF e
<1>4. CASE AddFilter(table, pid, f) = table
  BY <1>1, <1>4
<1>5. CASE AddFilter(table, pid, f) = table \cup {e}
  <2>1. CASE q = pid
    <3>1. With(table \cup {e}, q) = With(table, q) \cup {e}
      BY <1>3, <2>1 DEF With
    <3>2. /\ Cardinality(With(table, q) \cup {e}) \in Nat
          /\ Cardinality(With(table, q) \cup {e}) <= Cardinality(With(table, q)) + 1
      BY <1>1, FS_AddElement, FS_CardinalityType
    <3> QED BY <1>5, <2>1, <3>1, <3>2
  <2>2. CASE q # pid
    <3>1. With(table \cup {e}, q) = With(table, q)
      BY <1>3, <2>2 DEF With
    <3> QED BY <1>1, <1>5, <3>1
  <2> QED BY <2>1, <2>2
<1> QED BY <1>2, <1>4, <1>5

(* Of the filters of a pid, one is in the first place.                     *)
LEMMA FirstFilter ==
  ASSUME NEW table \in SUBSET Entry, IsFiniteSet(table), table # {}
  PROVE  \E e \in table : \A b \in table : ~(b.slot < e.slot)
<1> DEFINE Before(e) == {b \in table : b.slot < e.slot}
           Rank(e)   == Cardinality(Before(e))
           Ranks     == {Rank(e) : e \in table}
           Less      == OpToRel(<, Nat)
<1>1. \A e \in table : IsFiniteSet(Before(e)) /\ Rank(e) \in Nat
  <2> TAKE e \in table
  <2>1. Before(e) \in SUBSET table
    OBVIOUS
  <2> QED BY <2>1, FS_Subset, FS_CardinalityType
<1>2. Ranks \subseteq Nat /\ Ranks # {}
  BY <1>1
<1>3. IsWellFoundedOn(Less, Nat)
  BY NatLessThanWellFounded, Zenon
<1>4. \A x, y \in Nat : x < y => <<x, y>> \in Less
  BY DEF OpToRel
<1> HIDE DEF Less, Rank
<1>5. PICK n \in Ranks : \A m \in Ranks : ~(<<m, n>> \in Less)
  BY <1>2, <1>3, WFMin
<1>6. PICK e \in table : n = Rank(e)
  BY <1>5
<1>7. ASSUME NEW b \in table, b.slot < e.slot
      PROVE  FALSE
  <2>1. b \in Before(e) /\ b \notin Before(b)
    BY <1>7 DEF Entry
  <2>2. Before(b) \in SUBSET Before(e)
    <3> SUFFICES ASSUME NEW x \in table, x.slot < b.slot PROVE x.slot < e.slot
      OBVIOUS
    <3>1. x.slot \in Int /\ b.slot \in Int /\ e.slot \in Int
      BY DEF Entry
    <3> QED BY <1>7, <3>1
  <2> HIDE DEF Before
  <2>3. Rank(b) < Rank(e)
    <3>1. Before(b) # Before(e)
      BY <2>1
    <3>2. /\ Cardinality(Before(b)) <= Cardinality(Before(e))
          /\ Cardinality(Before(e)) # Cardinality(Before(b))
      BY <1>1, <2>2, <3>1, FS_Subset
    <3> QED BY <1>1, <3>2 DEF Rank
  <2> QED BY <1>1, <1>4, <1>5, <1>6, <2>3
<1> QED BY <1>7

(* A removal leaves no more filters of any pid, and fewer of its own,      *)
(* although it steps over entries.                                         *)
LEMMA RemoveCount ==
  ASSUME NEW table \in SUBSET Entry, IsFiniteSet(table), NEW pid, NEW q
  PROVE  LET n == Cardinality(With(table, q))
             m == Cardinality(With(RemoveFilters(table, pid), q))
         IN  m \in Nat /\ m <= n /\ (q = pid /\ n > 0 => m < n)
<1> DEFINE gone     == Dropped(table, pid)
           Shift(e) == Cardinality({d \in gone : d.slot < e.slot})
           Moved(e) == [e EXCEPT !.slot = @ - Shift(e)]
           kept     == With(table, q) \ gone
           left     == With(RemoveFilters(table, pid), q)
<1>1. RemoveFilters(table, pid) = {Moved(e) : e \in table \ gone}
  BY DEF RemoveFilters
<1>2. \A e \in table : Moved(e).pid = e.pid
  <2> HIDE DEF Shift
  <2> QED BY DEF Entry
<1>3. IsFiniteSet(With(table, q)) /\ Cardinality(With(table, q)) \in Nat
  BY WithFinite
<1>4. kept \in SUBSET With(table, q)
  OBVIOUS
<1>5. ASSUME q = pid, Cardinality(With(table, q)) > 0
      PROVE  kept # With(table, q)
  <2> DEFINE own == With(table, q)
  <2>1. own \in SUBSET Entry /\ own # {}
    BY <1>3, <1>5, FS_EmptySet DEF With
  <2>2. PICK e \in own : \A b \in own : ~(b.slot < e.slot)
    BY <1>3, <2>1, FirstFilter
  <2>3. e \in table /\ e.pid = pid
    BY <1>5 DEF With
  <2>4. RunBefore(table, e) = {}
    <3> SUFFICES ASSUME NEW b \in table, b.slot < e.slot,
                        \A x \in table : x.slot \in b.slot..e.slot => x.pid = e.pid
                 PROVE  FALSE
      BY DEF RunBefore
    <3>1. b.slot \in Int /\ e.slot \in Int
      BY <2>3 DEF Entry
    <3>2. b.pid = pid
      BY <2>3, <3>1
    <3> QED BY <1>5, <2>2, <3>2 DEF With
  <2>5. Cardinality(RunBefore(table, e)) % 2 = 0
    BY <2>4, FS_EmptySet
  <2>6. e \in gone
    BY <2>3, <2>5 DEF Dropped
  <2> QED BY <2>6
<1> HIDE DEF Moved, gone
<1>6. left = {Moved(e) : e \in kept}
  BY <1>1, <1>2 DEF With
<1>7. IsFiniteSet(kept) /\ Cardinality(kept) \in Nat
  BY <1>3, <1>4, FS_Subset, FS_CardinalityType
<1>8. IsFiniteSet(left) /\ Cardinality(left) <= Cardinality(kept)
  <2> DEFINE g == [e \in kept |-> Moved(e)]
  <2> HIDE DEF kept, left
  <2>1. g \in Surjection(kept, left)
    BY <1>6 DEF Surjection
  <2> QED BY <1>7, <2>1, FS_Surjection
<1>9. Cardinality(left) \in Nat
  BY <1>8, FS_CardinalityType
<1> HIDE DEF kept, left
<1>10. Cardinality(kept) <= Cardinality(With(table, q))
  BY <1>3, <1>4, FS_Subset
<1>11. Cardinality(With(table, q)) = Cardinality(kept) => kept = With(table, q)
  BY <1>3, <1>4, FS_Subset
<1> QED BY <1>3, <1>5, <1>7, <1>8, <1>9, <1>10, <1>11 DEF left

-----------------------------------------------------------------------------
(* The filters of programs and streams, against the clients that have      *)
(* started them.                                                           *)

(* Programs have pids of their own.                                        *)
PidsIdentify ==
  \A p, q \in Program :
    /\ PmtPid[p] = PmtPid[q] \/ StreamPid[p] = StreamPid[q] => p = q
    /\ PmtPid[p] # StreamPid[q]
    /\ PmtPid[p] \notin {PAT_PID, NIT_PID, SDT_PID, EIT_PID}
    /\ StreamPid[p] \notin {PAT_PID, NIT_PID, SDT_PID, EIT_PID}

Starters(t, p)    == {cl \in Users(t) : p \in client[cl].programs}
Viewers(t, p)     == {cl \in Users(t) : p \in client[cl].streams}
Count(table, pid) == Cardinality(With(table, pid))

(* Only a client that holds a tuner has programs, and streams of them.     *)
HoldersStart ==
  \A cl \in Client :
    /\ client[cl].streams \subseteq client[cl].programs
    /\ client[cl].phase # "holding" => client[cl].programs = {}

Filters   == HoldersStart /\ FiltersHaveStarters
FilterInv == TypeInv /\ Filters

StartedBound(t, p) ==
  /\ Count(tune[t].sct, PmtPid[p]) <= Cardinality(Starters(t, p))
  /\ Count(tune[t].pes, PmtPid[p]) <= Cardinality(Starters(t, p))
  /\ Count(tune[t].pes, StreamPid[p]) <= Cardinality(Viewers(t, p))

LEMMA BoundIsProperty ==
  FiltersHaveStarters <=> \A t \in Tuner, p \in Program : StartedBound(t, p)
BY DEF FiltersHaveStarters, StartedBound, Starters, Viewers, With, Count

LEMMA StartersFinite ==
  ASSUME NEW t, NEW p
  PROVE  /\ IsFiniteSet(Starters(t, p)) /\ Cardinality(Starters(t, p)) \in Nat
         /\ IsFiniteSet(Viewers(t, p)) /\ Cardinality(Viewers(t, p)) \in Nat
         /\ IsFiniteSet(Starters(t, p)') /\ Cardinality(Starters(t, p)') \in Nat
         /\ IsFiniteSet(Viewers(t, p)') /\ Cardinality(Viewers(t, p)') \in Nat
<1>1. /\ Starters(t, p) \in SUBSET Client /\ Viewers(t, p) \in SUBSET Client
      /\ Starters(t, p)' \in SUBSET Client /\ Viewers(t, p)' \in SUBSET Client
  BY DEF Starters, Viewers, Users
<1>2. IsFiniteSet(Client)
  BY TunersAssumption
<1> QED BY <1>1, <1>2, FS_Subset, FS_CardinalityType

LEMMA CountTypes ==
  ASSUME TypeInv, NEW t \in Tuner, NEW pid
  PROVE  Count(tune[t].sct, pid) \in Nat /\ Count(tune[t].pes, pid) \in Nat
BY WithFinite DEF TypeInv, TablesFinite, Count

LEMMA CountTypesNext ==
  ASSUME TypeInv', NEW t \in Tuner, NEW pid
  PROVE  Count(tune'[t].sct, pid) \in Nat /\ Count(tune'[t].pes, pid) \in Nat
BY WithFinite DEF TypeInv, TablesFinite, Count

LEMMA NoFilters ==
  ASSUME NEW pid
  PROVE  Count({}, pid) = 0
<1>1. With({}, pid) = {}
  BY DEF With
<1> QED BY <1>1, FS_EmptySet DEF Count

(* No more filters of a program than before.                               *)
Fewer(new, old, p) ==
  /\ Count(new, PmtPid[p]) <= Count(old, PmtPid[p])
  /\ Count(new, StreamPid[p]) <= Count(old, StreamPid[p])

LEMMA FewerSame ==
  ASSUME TypeInv, NEW t \in Tuner, NEW p
  PROVE  Fewer(tune[t].sct, tune[t].sct, p) /\ Fewer(tune[t].pes, tune[t].pes, p)
BY CountTypes DEF Fewer

(* The filters of other pids do not count.                                 *)
LEMMA FewerAdd ==
  ASSUME NEW table, IsFiniteSet(table), NEW p, NEW pid, NEW f,
         PmtPid[p] # pid, StreamPid[p] # pid
  PROVE  Fewer(AddFilter(table, pid, f), table, p)
<1>1. /\ Count(AddFilter(table, pid, f), PmtPid[p]) = Count(table, PmtPid[p])
      /\ Count(AddFilter(table, pid, f), StreamPid[p]) = Count(table, StreamPid[p])
  BY AddCount DEF Count
<1>2. Count(table, PmtPid[p]) \in Nat /\ Count(table, StreamPid[p]) \in Nat
  BY WithFinite DEF Count
<1> QED BY <1>1, <1>2 DEF Fewer

LEMMA FewerRemove ==
  ASSUME NEW table \in SUBSET Entry, IsFiniteSet(table), NEW p, NEW pid
  PROVE  Fewer(RemoveFilters(table, pid), table, p)
BY RemoveCount DEF Fewer, Count

LEMMA FewerFewer ==
  ASSUME NEW a, NEW b, NEW c, NEW d, NEW p,
         IsFiniteSet(a), IsFiniteSet(b), IsFiniteSet(c), IsFiniteSet(d),
         Fewer(d, c, p), Fewer(c, b, p), Fewer(b, a, p)
  PROVE  Fewer(d, a, p)
<1>1. \A S \in {a, b, c, d} : Count(S, PmtPid[p]) \in Nat /\ Count(S, StreamPid[p]) \in Nat
  BY WithFinite DEF Count
<1> QED BY <1>1 DEF Fewer

LEMMA AddFilterFinite ==
  ASSUME NEW table, IsFiniteSet(table), NEW pid, NEW f
  PROVE  IsFiniteSet(AddFilter(table, pid, f))
BY FS_AddElement DEF AddFilter

(* A client that has started a program stays on its tuner, with it.        *)
KeepsStarted(cl, p) ==
  /\ p \in client[cl].programs => /\ client'[cl].tuner = client[cl].tuner
                                  /\ p \in client'[cl].programs
  /\ p \in client[cl].streams => /\ client'[cl].tuner = client[cl].tuner
                                 /\ p \in client'[cl].streams

(* A step after which a tuner has no more filters, and its clients the     *)
(* programs they had, or after which it has no filters.                    *)
LEMMA FewerStep ==
  ASSUME TypeInv, TypeInv', FiltersHaveStarters, NEW t \in Tuner, NEW p \in Program,
         \/ tune'[t].sct = {} /\ tune'[t].pes = {}
         \/ /\ Fewer(tune'[t].sct, tune[t].sct, p) /\ Fewer(tune'[t].pes, tune[t].pes, p)
            /\ \A cl \in Users(t) : KeepsStarted(cl, p)
  PROVE  StartedBound(t, p)'
<1>1. CASE tune'[t].sct = {} /\ tune'[t].pes = {}
  BY <1>1, NoFilters, StartersFinite DEF StartedBound
<1>2. CASE /\ Fewer(tune'[t].sct, tune[t].sct, p) /\ Fewer(tune'[t].pes, tune[t].pes, p)
           /\ \A cl \in Users(t) : KeepsStarted(cl, p)
  <2>1. /\ Starters(t, p) \in SUBSET (Starters(t, p)')
        /\ Viewers(t, p) \in SUBSET (Viewers(t, p)')
    BY <1>2 DEF Starters, Viewers, Users, KeepsStarted
  <2>2. /\ Cardinality(Starters(t, p)) <= Cardinality(Starters(t, p)')
        /\ Cardinality(Viewers(t, p)) <= Cardinality(Viewers(t, p)')
    BY <2>1, StartersFinite, FS_Subset
  <2>3. StartedBound(t, p)
    BY BoundIsProperty
  <2> QED BY <1>2, <2>2, <2>3, StartersFinite, CountTypes, CountTypesNext DEF StartedBound, Fewer
<1> QED BY <1>1, <1>2

-----------------------------------------------------------------------------
(* Actions that do not start or stop a program.                            *)

LEMMA InitFilters == Init => Filters
<1> SUFFICES ASSUME Init PROVE Filters
  OBVIOUS
<1>1. HoldersStart
  BY DEF Init, NoClient, HoldersStart
<1>2. \A t \in Tuner : tune[t].sct = {} /\ tune[t].pes = {}
  BY DEF Init, FreshTune
<1>3. \A t \in Tuner, p \in Program : StartedBound(t, p)
  <2> TAKE t \in Tuner, p \in Program
  <2>1. /\ Count(tune[t].sct, PmtPid[p]) = 0 /\ Count(tune[t].pes, PmtPid[p]) = 0
        /\ Count(tune[t].pes, StreamPid[p]) = 0
    BY <1>2, NoFilters
  <2>2. Cardinality(Starters(t, p)) \in Nat /\ Cardinality(Viewers(t, p)) \in Nat
    BY StartersFinite
  <2> QED BY <2>1, <2>2 DEF StartedBound
<1> QED BY <1>1, <1>3, BoundIsProperty DEF Filters

(* A tuner loses its filters, or gets none of a program, whose starters    *)
(* stay.                                                                   *)
Held(t, p) ==
  \/ tune'[t].sct = {} /\ tune'[t].pes = {}
  \/ /\ Fewer(tune'[t].sct, tune[t].sct, p) /\ Fewer(tune'[t].pes, tune[t].pes, p)
     /\ \A cl \in Users(t) : KeepsStarted(cl, p)

LEMMA AllBound ==
  ASSUME \A t \in Tuner, p \in Program : StartedBound(t, p)'
  PROVE  FiltersHaveStarters'
<1>1. (\A t \in Tuner, p \in Program : StartedBound(t, p))'
  OBVIOUS
<1> QED BY <1>1, BoundIsProperty, PTL

LEMMA HeldStep ==
  ASSUME FilterInv, TypeInv', \A t \in Tuner, p \in Program : Held(t, p)
  PROVE  FiltersHaveStarters'
<1>1. TypeInv /\ FiltersHaveStarters
  BY DEF FilterInv, Filters
<1>2. \A t \in Tuner, p \in Program : StartedBound(t, p)'
  <2> TAKE t \in Tuner, p \in Program
  <2>1. Held(t, p)
    OBVIOUS
  <2> QED BY <1>1, <2>1, FewerStep DEF Held
<1> QED BY <1>2, AllBound

(* No table changes, and nobody leaves with a program.                     *)
LEMMA QuietStep ==
  ASSUME FilterInv, TypeInv', SameFds,
         \A cl \in Client, p \in Program : KeepsStarted(cl, p)
  PROVE  FiltersHaveStarters'
<1>1. TypeInv
  BY DEF FilterInv
<1>2. \A t \in Tuner : tune'[t].sct = tune[t].sct /\ tune'[t].pes = tune[t].pes
  BY DEF SameFds, SameParts
<1>3. \A t \in Tuner, p \in Program : Held(t, p)
  BY <1>1, <1>2, FewerSame DEF Held, Users
<1> QED BY <1>3, HeldStep

(* One tuner loses its filters, or gets none of a program, whose starters  *)
(* stay.                                                                   *)
LEMMA OneHeld ==
  ASSUME FilterInv, TypeInv', NEW t \in Tuner, NEW r, tune' = [tune EXCEPT ![t] = r],
         \A cl \in Client \ Users(t), p \in Program : KeepsStarted(cl, p),
         \/ r.sct = {} /\ r.pes = {}
         \/ /\ \A p \in Program : /\ Fewer(r.sct, tune[t].sct, p)
                                  /\ Fewer(r.pes, tune[t].pes, p)
            /\ \A cl \in Users(t), p \in Program : KeepsStarted(cl, p)
  PROVE  FiltersHaveStarters'
<1>1. TypeInv /\ tune \in [Tuner -> TuneState]
  BY Typed DEF FilterInv
<1>2. \A p \in Program : Held(t, p)
  BY <1>1 DEF Held
<1>3. \A u \in Tuner \ {t}, p \in Program : Held(u, p)
  <2> TAKE u \in Tuner \ {t}, p \in Program
  <2>1. tune'[u] = tune[u]
    BY <1>1
  <2>2. Fewer(tune'[u].sct, tune[u].sct, p) /\ Fewer(tune'[u].pes, tune[u].pes, p)
    BY <1>1, <2>1, FewerSame
  <2>3. \A cl \in Users(u) : KeepsStarted(cl, p)
    BY DEF Users
  <2> QED BY <2>2, <2>3 DEF Held
<1> QED BY <1>2, <1>3, HeldStep

(* What a step leaves of the clients' programs.                            *)
SameClients(S) == \A cl \in S : client'[cl] = client[cl]

LEMMA SameClientsKeep ==
  ASSUME NEW S, SameClients(S)
  PROVE  \A cl \in S, p \in Program : KeepsStarted(cl, p)
BY DEF SameClients, KeepsStarted

(* A client gets a tuner.                                                  *)
LEMMA JoiningFilters ==
  ASSUME FilterInv, TypeInv', NEW cl \in Client, NEW c \in Channel,
         TunerChannelShare(cl, c) \/ TunerChannelOpen(cl, c)
  PROVE  Filters'
<1>1. TypeInv /\ client \in [Client -> ClientState] /\ HoldersStart
  BY Typed DEF FilterInv, Filters
<1>2. PICK t \in Tuner, phase \in {"holding", "calling"} :
        client' = [client EXCEPT ![cl].phase = phase, ![cl].tuner = t, ![cl].channel = c]
  BY DEF TunerChannelShare, TunerChannelOpen
<1>3. client[cl].phase = "none"
  BY DEF TunerChannelShare, TunerChannelOpen
<1>4. client[cl].programs = {} /\ client[cl].streams = {}
  BY <1>1, <1>3 DEF HoldersStart
<1>5. /\ client'[cl].programs = {} /\ client'[cl].streams = {}
      /\ \A d \in Client \ {cl} : client'[d] = client[d]
  BY <1>1, <1>2, <1>4 DEF ClientState
<1>6. HoldersStart'
  BY <1>1, <1>5 DEF HoldersStart
<1>7. \A d \in Client, p \in Program : KeepsStarted(d, p)
  BY <1>4, <1>5 DEF KeepsStarted
<1>8. CASE TunerChannelShare(cl, c)
  BY <1>1, <1>6, <1>7, <1>8, ShareSameFds, QuietStep DEF Filters
<1>9. CASE TunerChannelOpen(cl, c)
  <2>1. PICK u \in Tuner, f \in OpenResult(open) :
          tune' = [tune EXCEPT ![u] = OpenedTune(AddUser(tune[u]), f, c)]
    BY <1>9 DEF TunerChannelOpen
  <2> DEFINE r == OpenedTune(AddUser(tune[u]), f, c)
  <2>2. \/ r.sct = {} /\ r.pes = {}
        \/ r.sct = tune[u].sct /\ r.pes = tune[u].pes
    <3>1. tune[u] \in TuneState
      BY <1>1, Typed
    <3> QED BY <3>1 DEF OpenedTune, ClosedTune, AddUser, TuneState
  <2>3. tune' = [tune EXCEPT ![u] = r]
    BY <2>1
  <2> HIDE DEF r
  <2>4. \/ r.sct = {} /\ r.pes = {}
        \/ /\ \A p \in Program : /\ Fewer(r.sct, tune[u].sct, p)
                                 /\ Fewer(r.pes, tune[u].pes, p)
           /\ \A d \in Users(u), p \in Program : KeepsStarted(d, p)
    BY <1>1, <1>7, <2>2, FewerSame DEF Users
  <2>5. FiltersHaveStarters'
    BY <1>7, <2>3, <2>4, OneHeld
  <2> QED BY <1>6, <2>5 DEF Filters
<1> QED BY <1>8, <1>9

LEMMA TuneFilters ==
  ASSUME FilterInv, TypeInv', TunerChannelTune
  PROVE  Filters'
<1>1. TypeInv /\ client \in [Client -> ClientState] /\ HoldersStart
  BY Typed DEF FilterInv, Filters
<1>2. PICK cl \in Client : client' = [client EXCEPT ![cl].phase = "holding"]
  BY <1>1, TuneEffect
<1>3. /\ \A d \in Client : /\ client'[d].programs = client[d].programs
                           /\ client'[d].streams = client[d].streams
                           /\ client'[d].tuner = client[d].tuner
      /\ client'[cl].phase = "holding"
      /\ \A d \in Client \ {cl} : client'[d] = client[d]
  BY <1>1, <1>2 DEF ClientState
<1>4. HoldersStart'
  BY <1>1, <1>3 DEF HoldersStart
<1>5. \A d \in Client, p \in Program : KeepsStarted(d, p)
  BY <1>3 DEF KeepsStarted
<1>6. FiltersHaveStarters'
  BY <1>1, <1>5, TuneSameFds, QuietStep
<1> QED BY <1>4, <1>6 DEF Filters

LEMMA ReleaseFilters ==
  ASSUME FilterInv, TypeInv', NEW cl \in Client, TunerRelease(cl)
  PROVE  Filters'
<1> DEFINE t == client[cl].tuner
<1>1. TypeInv /\ client \in [Client -> ClientState] /\ HoldersStart
  BY Typed DEF FilterInv, Filters
<1>2. /\ t \in Tuner /\ client' = [client EXCEPT ![cl] = NoClient]
      /\ \E r : /\ tune' = [tune EXCEPT ![t] = r]
                /\ \/ r.sct = {} /\ r.pes = {}
                   \/ /\ client[cl].programs = {}
                      /\ r.sct = tune[t].sct /\ r.pes = tune[t].pes
  BY <1>1, ReleaseEffect
<1>3. PICK r : /\ tune' = [tune EXCEPT ![t] = r]
               /\ \/ r.sct = {} /\ r.pes = {}
                  \/ /\ client[cl].programs = {}
                     /\ r.sct = tune[t].sct /\ r.pes = tune[t].pes
  BY <1>2
<1>4. client'[cl] = NoClient /\ \A d \in Client \ {cl} : client'[d] = client[d]
  BY <1>1, <1>2
<1>5. HoldersStart'
  BY <1>1, <1>4 DEF HoldersStart, NoClient
<1>6. \A d \in Client \ {cl}, p \in Program : KeepsStarted(d, p)
  BY <1>4, SameClientsKeep DEF SameClients
<1>7. cl \in Users(t)
  BY DEF Users
<1> HIDE DEF t
<1>8. CASE r.sct = {} /\ r.pes = {}
  BY <1>2, <1>3, <1>6, <1>7, <1>8, OneHeld, <1>5 DEF Filters
<1>9. CASE client[cl].programs = {} /\ r.sct = tune[t].sct /\ r.pes = tune[t].pes
  <2>1. client[cl].streams = {}
    BY <1>1, <1>9 DEF HoldersStart
  <2>2. \A d \in Client, p \in Program : KeepsStarted(d, p)
    BY <1>6, <1>9, <2>1 DEF KeepsStarted
  <2>3. \A p \in Program : Fewer(r.sct, tune[t].sct, p) /\ Fewer(r.pes, tune[t].pes, p)
    BY <1>1, <1>2, <1>9, FewerSame
  <2>4. FiltersHaveStarters'
    BY <1>2, <1>3, <2>2, <2>3, OneHeld DEF Users
  <2> QED BY <1>5, <2>4 DEF Filters
<1> QED BY <1>3, <1>8, <1>9

(* The filters of the tables that are not programs'.                       *)
LEMMA StartDecoderFilters ==
  ASSUME PidsIdentify, FilterInv, TypeInv', NEW cl \in Client, StartDecoder(cl)
  PROVE  Filters'
<1> DEFINE t == client[cl].tuner
<1>1. TypeInv /\ HoldersStart
  BY DEF FilterInv, Filters
<1>2. client[cl].phase = "holding" /\ UNCHANGED client
  BY DEF StartDecoder
<1>3. PICK pat \in OpenResult(open) :
      \E pes \in OpenResult(Opened(open, pat)) :
      \E sdt \in OpenResult(open \cup RealFds({pat, pes})) :
      \E eit \in OpenResult(open \cup RealFds({pat, pes, sdt})) :
      \E dvr \in OpenResult(open \cup RealFds({pat, pes, sdt, eit})) :
        /\ tune' = [tune EXCEPT ![t] =
             [tune[t] EXCEPT
               !.sct = AddFilter(AddFilter(AddFilter(tune[t].sct, PAT_PID, pat),
                                           SDT_PID, sdt), EIT_PID, eit),
               !.pes = AddFilter(tune[t].pes, PAT_PID, pes),
               !.fd_dvr = dvr, !.mydvb = TRUE]]
        /\ open' = open \cup RealFds({pat, pes, sdt, eit, dvr})
        /\ polled' = polled \cup RealFds({pat, sdt, eit, dvr})
  BY DEF StartDecoder
<1>4. PICK pes \in Fd \cup {NoFd}, sdt \in Fd \cup {NoFd},
           eit \in Fd \cup {NoFd}, dvr \in Fd \cup {NoFd} :
        /\ tune' = [tune EXCEPT ![t] =
             [tune[t] EXCEPT
               !.sct = AddFilter(AddFilter(AddFilter(tune[t].sct, PAT_PID, pat),
                                           SDT_PID, sdt), EIT_PID, eit),
               !.pes = AddFilter(tune[t].pes, PAT_PID, pes),
               !.fd_dvr = dvr, !.mydvb = TRUE]]
        /\ open' = open \cup RealFds({pat, pes, sdt, eit, dvr})
        /\ polled' = polled \cup RealFds({pat, sdt, eit, dvr})
  BY <1>3, OpenResultType
<1>5. t \in Tuner /\ GoodTune(tune[t])
  BY <1>1, <1>2, HeldTuner
<1> HIDE DEF t
<1> DEFINE s0 == tune[t].sct
           s1 == AddFilter(s0, PAT_PID, pat)
           s2 == AddFilter(s1, SDT_PID, sdt)
           s3 == AddFilter(s2, EIT_PID, eit)
           ps == AddFilter(tune[t].pes, PAT_PID, pes)
           r  == [tune[t] EXCEPT !.sct = s3, !.pes = ps, !.fd_dvr = dvr, !.mydvb = TRUE]
<1>6. r.sct = s3 /\ r.pes = ps /\ tune' = [tune EXCEPT ![t] = r]
  BY <1>4, <1>5 DEF GoodTune, TuneState
<1>7. IsFiniteSet(s0) /\ IsFiniteSet(tune[t].pes)
  BY <1>5 DEF GoodTune
<1> HIDE DEF r, s0
<1>8. IsFiniteSet(s1) /\ IsFiniteSet(s2)
  BY <1>7, AddFilterFinite
<1>9. \A p \in Program : Fewer(s3, s0, p) /\ Fewer(ps, tune[t].pes, p)
  <2> TAKE p \in Program
  <2>1. /\ PmtPid[p] \notin {PAT_PID, SDT_PID, EIT_PID}
        /\ StreamPid[p] \notin {PAT_PID, SDT_PID, EIT_PID}
    BY DEF PidsIdentify
  <2>2. Fewer(s1, s0, p) /\ Fewer(ps, tune[t].pes, p)
    BY <1>7, <2>1, FewerAdd
  <2> HIDE DEF s1, ps
  <2>3. Fewer(s2, s1, p)
    BY <1>8, <2>1, FewerAdd
  <2> HIDE DEF s2
  <2>4. Fewer(s3, s2, p)
    BY <1>8, <2>1, FewerAdd
  <2>5. IsFiniteSet(s3)
    BY <1>8, AddFilterFinite
  <2> HIDE DEF s3
  <2>6. Fewer(s3, s0, p)
    BY <1>7, <1>8, <2>2, <2>3, <2>4, <2>5, FewerFewer
  <2> QED BY <2>2, <2>6
<1>10. \A d \in Client, p \in Program : KeepsStarted(d, p)
  BY <1>2 DEF KeepsStarted
<1> HIDE DEF s3, ps
<1>11. FiltersHaveStarters'
  BY <1>5, <1>6, <1>9, <1>10, OneHeld DEF Users, s0
<1>12. HoldersStart'
  BY <1>1, <1>2 DEF HoldersStart
<1> QED BY <1>11, <1>12 DEF Filters

LEMMA StopDecoderFilters ==
  ASSUME FilterInv, TypeInv', NEW cl \in Client, StopDecoder(cl)
  PROVE  Filters'
<1> DEFINE t == client[cl].tuner
           r == [tune[t] EXCEPT !.fd_dvr = NoFd, !.sct = {}, !.pes = {}, !.mydvb = FALSE]
<1>1. TypeInv /\ HoldersStart
  BY DEF FilterInv, Filters
<1>2. /\ client[cl].phase = "holding" /\ UNCHANGED client
      /\ tune' = [tune EXCEPT ![t] = r]
  BY DEF StopDecoder
<1>3. t \in Tuner /\ tune[t] \in TuneState
  BY <1>1, <1>2, Typed
<1> HIDE DEF t
<1>4. r.sct = {} /\ r.pes = {}
  BY <1>3 DEF TuneState
<1>5. \A d \in Client, p \in Program : KeepsStarted(d, p)
  BY <1>2 DEF KeepsStarted
<1> HIDE DEF r
<1>6. FiltersHaveStarters'
  BY <1>2, <1>3, <1>4, <1>5, OneHeld
<1>7. HoldersStart'
  BY <1>1, <1>2 DEF HoldersStart
<1> QED BY <1>6, <1>7 DEF Filters

LEMMA MainLoopFilters ==
  ASSUME PidsIdentify, FilterInv, TypeInv', MainLoopStep
  PROVE  Filters'
<1>1. TypeInv /\ HoldersStart /\ tune \in [Tuner -> TuneState]
  BY Typed DEF FilterInv, Filters
<1>2. UNCHANGED client
  BY <1>1, MainLoopEffect
<1>3. HoldersStart'
  BY <1>1, <1>2 DEF HoldersStart
<1>4. \A d \in Client, p \in Program : KeepsStarted(d, p)
  BY <1>2 DEF KeepsStarted
<1>5. ASSUME NEW t \in Tuner, ReadFirstPat(t)
      PROVE  FiltersHaveStarters'
  <2>1. PICK f : tune' = [tune EXCEPT ![t] =
                   [tune[t] EXCEPT !.sct = AddFilter(tune[t].sct, NIT_PID, f)]]
    BY <1>5 DEF ReadFirstPat
  <2> DEFINE sct == AddFilter(tune[t].sct, NIT_PID, f)
             r   == [tune[t] EXCEPT !.sct = sct]
  <2>2. \A p \in Program : Fewer(sct, tune[t].sct, p)
    <3> TAKE p \in Program
    <3>1. PmtPid[p] # NIT_PID /\ StreamPid[p] # NIT_PID
      BY DEF PidsIdentify
    <3>2. IsFiniteSet(tune[t].sct)
      BY <1>1 DEF TypeInv, TablesFinite
    <3> QED BY <3>1, <3>2, FewerAdd
  <2> HIDE DEF sct
  <2>3. r.sct = sct /\ r.pes = tune[t].pes
    BY <1>1 DEF TuneState
  <2>4. tune' = [tune EXCEPT ![t] = r]
    BY <2>1 DEF sct
  <2> HIDE DEF r
  <2>5. \A p \in Program : Fewer(r.sct, tune[t].sct, p) /\ Fewer(r.pes, tune[t].pes, p)
    BY <1>1, <2>2, <2>3, FewerSame
  <2> QED BY <1>4, <2>4, <2>5, OneHeld DEF Users
<1>6. SameFds => FiltersHaveStarters'
  BY <1>4, QuietStep
<1> QED BY <1>1, <1>3, <1>5, <1>6, MainLoopSameFds DEF Filters

LEMMA EngineEndFilters ==
  ASSUME FilterInv, TypeInv', EngineEnd
  PROVE  Filters'
<1>1. TypeInv /\ HoldersStart
  BY DEF FilterInv, Filters
<1>2. UNCHANGED client /\ \A t \in Tuner : tune'[t].sct = {} /\ tune'[t].pes = {}
  BY <1>1, EngineEndEffect
<1>3. HoldersStart'
  BY <1>1, <1>2 DEF HoldersStart
<1>4. FiltersHaveStarters'
  BY <1>2, HeldStep DEF Held
<1> QED BY <1>3, <1>4 DEF Filters

-----------------------------------------------------------------------------
(* Clients start and stop programs and streams.                            *)

LEMMA AddUserCount ==
  ASSUME NEW S, NEW x, IsFiniteSet(S)
  PROVE  /\ x \notin S => Cardinality(S \cup {x}) = Cardinality(S) + 1
         /\ x \in S => Cardinality(S \ {x}) = Cardinality(S) - 1
         /\ x \notin S => S \ {x} = S
         /\ Cardinality(S) \in Nat
<1>1. x \notin S => Cardinality(S \cup {x}) = Cardinality(S) + 1
  BY FS_AddElement
<1>2. x \in S => Cardinality(S \ {x}) = Cardinality(S) - 1
  BY FS_RemoveElement
<1>3. Cardinality(S) \in Nat
  BY FS_CardinalityType
<1> QED BY <1>1, <1>2, <1>3

(* The client cl, on the tuner t, has programs and streams P and S, that   *)
(* differ from what it had in p only; tables of t become those of r.       *)
OneProgram(cl, t, p, P, S, r) ==
  /\ client[cl].phase = "holding" /\ client[cl].tuner = t
  /\ client'[cl].phase = "holding" /\ client'[cl].tuner = t
  /\ client'[cl].programs = P /\ client'[cl].streams = S
  /\ P \ {p} = client[cl].programs \ {p} /\ S \ {p} = client[cl].streams \ {p}
  /\ S \subseteq P
  /\ SameClients(Client \ {cl})
  /\ tune' = [tune EXCEPT ![t] = r]
  /\ \A q \in Program \ {p} :
       Fewer(r.sct, tune[t].sct, q) /\ Fewer(r.pes, tune[t].pes, q)

LEMMA OneProgramFilters ==
  ASSUME FilterInv, TypeInv', NEW cl \in Client, NEW t \in Tuner, NEW p \in Program,
         NEW P, NEW S, NEW r, OneProgram(cl, t, p, P, S, r), StartedBound(t, p)'
  PROVE  Filters'
<1>1. /\ TypeInv /\ HoldersStart /\ FiltersHaveStarters
      /\ tune \in [Tuner -> TuneState]
  BY Typed DEF FilterInv, Filters
<1>2. \A d \in Client \ {cl} : client'[d] = client[d]
  BY DEF OneProgram, SameClients
<1>3. HoldersStart'
  BY <1>1, <1>2 DEF HoldersStart, OneProgram
<1>4. \A d \in Client \ {cl}, q \in Program : KeepsStarted(d, q)
  BY <1>2 DEF KeepsStarted
<1>5. \A q \in Program \ {p} : KeepsStarted(cl, q)
  BY DEF KeepsStarted, OneProgram
<1>6. \A u \in Tuner, q \in Program : StartedBound(u, q)'
  <2> TAKE u \in Tuner, q \in Program
  <2>1. CASE u # t
    <3>1. tune'[u] = tune[u]
      BY <1>1, <2>1 DEF OneProgram
    <3>2. Fewer(tune'[u].sct, tune[u].sct, q) /\ Fewer(tune'[u].pes, tune[u].pes, q)
      BY <1>1, <3>1, FewerSame
    <3>3. \A d \in Users(u) : KeepsStarted(d, q)
      BY <1>4, <2>1 DEF Users, OneProgram
    <3> QED BY <1>1, <3>2, <3>3, FewerStep
  <2>2. CASE u = t /\ q # p
    <3>1. Fewer(tune'[u].sct, tune[u].sct, q) /\ Fewer(tune'[u].pes, tune[u].pes, q)
      BY <1>1, <2>2 DEF OneProgram
    <3>2. \A d \in Users(u) : KeepsStarted(d, q)
      BY <1>4, <1>5, <2>2 DEF Users
    <3> QED BY <1>1, <3>1, <3>2, FewerStep
  <2>3. CASE u = t /\ q = p
    BY <2>3
  <2> QED BY <2>1, <2>2, <2>3
<1>7. FiltersHaveStarters'
  BY <1>6, AllBound
<1> QED BY <1>3, <1>7 DEF Filters

(* The clients of a program after one of them has started or stopped it.   *)
LEMMA OneProgramStarters ==
  ASSUME NEW cl \in Client, NEW t \in Tuner, NEW p,
         NEW P, NEW S, NEW r, OneProgram(cl, t, p, P, S, r)
  PROVE  /\ p \in P => Starters(t, p)' = Starters(t, p) \cup {cl}
         /\ p \notin P => Starters(t, p)' = Starters(t, p) \ {cl}
         /\ p \in S => Viewers(t, p)' = Viewers(t, p) \cup {cl}
         /\ p \notin S => Viewers(t, p)' = Viewers(t, p) \ {cl}
         /\ cl \in Starters(t, p) <=> p \in client[cl].programs
         /\ cl \in Viewers(t, p) <=> p \in client[cl].streams
<1>1. \A d \in Client \ {cl} : client'[d] = client[d]
  BY DEF OneProgram, SameClients
<1>2. /\ client[cl].tuner = t /\ client'[cl].tuner = t
      /\ client'[cl].programs = P /\ client'[cl].streams = S
  BY DEF OneProgram
<1> QED BY <1>1, <1>2 DEF Starters, Viewers, Users

LEMMA StartProgramFilters ==
  ASSUME PidsIdentify, FilterInv, TypeInv', NEW cl \in Client, NEW p \in Program,
         StartProgram(cl, p)
  PROVE  Filters'
<1> PICK t : t = client[cl].tuner
  OBVIOUS
<1> DEFINE P  == client[cl].programs \cup {p}
           S  == client[cl].streams
<1>1. TypeInv /\ HoldersStart /\ FiltersHaveStarters /\ client \in [Client -> ClientState]
  BY Typed DEF FilterInv, Filters
<1>2. PICK f \in OpenResult(open) : \E g \in OpenResult(Opened(open, f)) :
        /\ tune' = [tune EXCEPT ![t] =
             [tune[t] EXCEPT !.sct = AddFilter(tune[t].sct, PmtPid[p], f),
                             !.pes = AddFilter(tune[t].pes, PmtPid[p], g)]]
        /\ open' = open \cup RealFds({f, g})
        /\ polled' = Opened(polled, f)
  BY DEF StartProgram
<1>3. PICK g : tune' = [tune EXCEPT ![t] =
                 [tune[t] EXCEPT !.sct = AddFilter(tune[t].sct, PmtPid[p], f),
                                 !.pes = AddFilter(tune[t].pes, PmtPid[p], g)]]
  BY <1>2
<1>4. /\ client[cl].phase = "holding" /\ p \notin client[cl].programs
      /\ client' = [client EXCEPT ![cl].programs = @ \cup {p}]
  BY DEF StartProgram
<1>5. t \in Tuner /\ GoodTune(tune[t])
  BY <1>1, <1>4, HeldTuner
<1>6. /\ client'[cl].phase = "holding" /\ client'[cl].tuner = t
      /\ client'[cl].programs = P /\ client'[cl].streams = S
      /\ SameClients(Client \ {cl})
  BY <1>1, <1>4 DEF ClientState, SameClients
<1>7. S \subseteq client[cl].programs
  BY <1>1 DEF HoldersStart
<1>8. client[cl].tuner = t
  OBVIOUS
<1> DEFINE sct == AddFilter(tune[t].sct, PmtPid[p], f)
           pes == AddFilter(tune[t].pes, PmtPid[p], g)
           r   == [tune[t] EXCEPT !.sct = sct, !.pes = pes]
<1>9. r.sct = sct /\ r.pes = pes /\ tune' = [tune EXCEPT ![t] = r]
  BY <1>3, <1>5 DEF GoodTune, TuneState
<1>10. IsFiniteSet(tune[t].sct) /\ IsFiniteSet(tune[t].pes)
  BY <1>5 DEF GoodTune
<1>11. \A q \in Program \ {p} : Fewer(sct, tune[t].sct, q) /\ Fewer(pes, tune[t].pes, q)
  <2> TAKE q \in Program \ {p}
  <2>1. PmtPid[q] # PmtPid[p] /\ StreamPid[q] # PmtPid[p]
    BY DEF PidsIdentify
  <2> QED BY <1>10, <2>1, FewerAdd
<1>12. StreamPid[p] # PmtPid[p]
  BY DEF PidsIdentify
<1>13. /\ Count(sct, PmtPid[p]) <= Count(tune[t].sct, PmtPid[p]) + 1
       /\ Count(pes, PmtPid[p]) <= Count(tune[t].pes, PmtPid[p]) + 1
       /\ Count(pes, StreamPid[p]) = Count(tune[t].pes, StreamPid[p])
       /\ Count(sct, PmtPid[p]) \in Nat /\ Count(pes, PmtPid[p]) \in Nat
  BY <1>10, <1>12, AddCount DEF Count
<1> HIDE DEF r, sct, pes
<1>14. OneProgram(cl, t, p, P, S, r)
  BY <1>4, <1>6, <1>7, <1>8, <1>9, <1>11 DEF OneProgram
<1>15. /\ Starters(t, p)' = Starters(t, p) \cup {cl}
       /\ cl \notin Starters(t, p)
       /\ Viewers(t, p)' = Viewers(t, p) \cup {cl} \/ Viewers(t, p)' = Viewers(t, p) \ {cl}
       /\ p \notin S
  BY <1>4, <1>5, <1>7, <1>14, OneProgramStarters
<1>16. Viewers(t, p)' = Viewers(t, p)
  BY <1>5, <1>14, <1>15, OneProgramStarters
<1>17. StartedBound(t, p)
  BY <1>1, <1>5, BoundIsProperty
<1>18. /\ Cardinality(Starters(t, p)') = Cardinality(Starters(t, p)) + 1
       /\ Cardinality(Viewers(t, p)') = Cardinality(Viewers(t, p))
       /\ Cardinality(Starters(t, p)) \in Nat
  BY <1>15, <1>16, StartersFinite, AddUserCount
<1>19. tune'[t].sct = sct /\ tune'[t].pes = pes
  BY <1>1, <1>5, <1>9, Typed
<1>20. /\ Count(tune[t].sct, PmtPid[p]) \in Nat /\ Count(tune[t].pes, PmtPid[p]) \in Nat
  BY <1>1, <1>5, CountTypes
<1>21. StartedBound(t, p)'
  BY <1>13, <1>17, <1>18, <1>19, <1>20 DEF StartedBound
<1> QED BY <1>5, <1>14, <1>21, OneProgramFilters

LEMMA StartStreamFilters ==
  ASSUME PidsIdentify, FilterInv, TypeInv', NEW cl \in Client, NEW p \in Program,
         StartStream(cl, p)
  PROVE  Filters'
<1> PICK t : t = client[cl].tuner
  OBVIOUS
<1> DEFINE P  == client[cl].programs
           S  == client[cl].streams \cup {p}
<1>1. TypeInv /\ HoldersStart /\ FiltersHaveStarters /\ client \in [Client -> ClientState]
  BY Typed DEF FilterInv, Filters
<1>2. PICK f \in OpenResult(open) :
        tune' = [tune EXCEPT ![t] =
          [tune[t] EXCEPT !.pes = AddFilter(tune[t].pes, StreamPid[p], f)]]
  BY DEF StartStream
<1>3. /\ client[cl].phase = "holding" /\ p \in P /\ p \notin client[cl].streams
      /\ client' = [client EXCEPT ![cl].streams = @ \cup {p}]
  BY DEF StartStream
<1>4. t \in Tuner /\ GoodTune(tune[t])
  BY <1>1, <1>3, HeldTuner
<1>5. /\ client'[cl].phase = "holding" /\ client'[cl].tuner = t
      /\ client'[cl].programs = P /\ client'[cl].streams = S
      /\ SameClients(Client \ {cl})
  BY <1>1, <1>3 DEF ClientState, SameClients
<1>6. S \subseteq P
  BY <1>1, <1>3 DEF HoldersStart
<1>7. client[cl].tuner = t
  OBVIOUS
<1> DEFINE pes == AddFilter(tune[t].pes, StreamPid[p], f)
           r   == [tune[t] EXCEPT !.pes = pes]
<1>8. r.sct = tune[t].sct /\ r.pes = pes /\ tune' = [tune EXCEPT ![t] = r]
  BY <1>2, <1>4 DEF GoodTune, TuneState
<1>9. IsFiniteSet(tune[t].sct) /\ IsFiniteSet(tune[t].pes)
  BY <1>4 DEF GoodTune
<1>10. \A q \in Program \ {p} : Fewer(tune[t].sct, tune[t].sct, q) /\ Fewer(pes, tune[t].pes, q)
  <2> TAKE q \in Program \ {p}
  <2>1. PmtPid[q] # StreamPid[p] /\ StreamPid[q] # StreamPid[p]
    BY DEF PidsIdentify
  <2> QED BY <1>1, <1>4, <1>9, <2>1, FewerAdd, FewerSame
<1>11. StreamPid[p] # PmtPid[p]
  BY DEF PidsIdentify
<1>12. /\ Count(pes, PmtPid[p]) = Count(tune[t].pes, PmtPid[p])
       /\ Count(pes, StreamPid[p]) <= Count(tune[t].pes, StreamPid[p]) + 1
       /\ Count(pes, StreamPid[p]) \in Nat
  BY <1>9, <1>11, AddCount DEF Count
<1> HIDE DEF r, pes
<1>13. OneProgram(cl, t, p, P, S, r)
  BY <1>3, <1>5, <1>6, <1>7, <1>8, <1>10 DEF OneProgram
<1>14. /\ Starters(t, p)' = Starters(t, p) \cup {cl}
       /\ cl \in Starters(t, p)
       /\ Viewers(t, p)' = Viewers(t, p) \cup {cl}
       /\ cl \notin Viewers(t, p)
  BY <1>3, <1>4, <1>13, OneProgramStarters
<1>15. Starters(t, p)' = Starters(t, p)
  BY <1>14
<1>16. StartedBound(t, p)
  BY <1>1, <1>4, BoundIsProperty
<1>17. /\ Cardinality(Starters(t, p)') = Cardinality(Starters(t, p))
       /\ Cardinality(Viewers(t, p)') = Cardinality(Viewers(t, p)) + 1
       /\ Cardinality(Viewers(t, p)) \in Nat
  <2>1. /\ IsFiniteSet(Starters(t, p)) /\ IsFiniteSet(Viewers(t, p))
        /\ Cardinality(Starters(t, p)') \in Nat /\ Cardinality(Viewers(t, p)') \in Nat
        /\ Cardinality(Starters(t, p)) \in Nat /\ Cardinality(Viewers(t, p)) \in Nat
    BY StartersFinite
  <2>2. Cardinality(Viewers(t, p) \cup {cl}) = Cardinality(Viewers(t, p)) + 1
    BY <1>14, <2>1, AddUserCount
  <2>3. /\ Cardinality(Viewers(t, p)') = Cardinality(Viewers(t, p)) + 1
        /\ Cardinality(Starters(t, p)') = Cardinality(Starters(t, p))
    BY <1>14, <1>15, <2>2
  <2> QED BY <2>1, <2>3
<1>18. tune'[t].sct = tune[t].sct /\ tune'[t].pes = pes
  BY <1>1, <1>4, <1>8, Typed
<1>19. Count(tune[t].pes, StreamPid[p]) \in Nat
  BY <1>1, <1>4, CountTypes
<1>20. StartedBound(t, p)'
  BY <1>12, <1>16, <1>17, <1>18, <1>19 DEF StartedBound
<1> QED BY <1>4, <1>13, <1>20, OneProgramFilters

LEMMA StopStreamFilters ==
  ASSUME FilterInv, TypeInv', NEW cl \in Client, NEW p \in Program, StopStream(cl, p)
  PROVE  Filters'
<1> PICK t : t = client[cl].tuner
  OBVIOUS
<1> DEFINE P  == client[cl].programs
           S  == client[cl].streams \ {p}
           pes == RemoveFilters(tune[t].pes, StreamPid[p])
           r   == [tune[t] EXCEPT !.pes = pes]
<1>1. TypeInv /\ HoldersStart /\ FiltersHaveStarters /\ client \in [Client -> ClientState]
  BY Typed DEF FilterInv, Filters
<1>2. /\ client[cl].phase = "holding" /\ p \in client[cl].streams
      /\ client' = [client EXCEPT ![cl].streams = @ \ {p}]
      /\ tune' = [tune EXCEPT ![t] = r]
  BY DEF StopStream
<1>3. t \in Tuner /\ GoodTune(tune[t])
  BY <1>1, <1>2, HeldTuner
<1>4. /\ client'[cl].phase = "holding" /\ client'[cl].tuner = t
      /\ client'[cl].programs = P /\ client'[cl].streams = S
      /\ SameClients(Client \ {cl})
  BY <1>1, <1>2 DEF ClientState, SameClients
<1>5. S \subseteq P /\ p \in P
  BY <1>1, <1>2 DEF HoldersStart
<1>6. client[cl].tuner = t
  OBVIOUS
<1>7. r.sct = tune[t].sct /\ r.pes = pes
  BY <1>3 DEF GoodTune, TuneState
<1>8. tune[t].pes \in SUBSET Entry /\ IsFiniteSet(tune[t].pes)
  BY <1>3 DEF GoodTune, TuneState
<1>9. \A q \in Program : Fewer(tune[t].sct, tune[t].sct, q) /\ Fewer(pes, tune[t].pes, q)
  BY <1>1, <1>3, <1>8, FewerRemove, FewerSame
<1>10. LET n == Count(tune[t].pes, StreamPid[p])
           m == Count(pes, StreamPid[p])
       IN  n \in Nat /\ m \in Nat /\ m <= n /\ (n > 0 => m < n)
  BY <1>8, RemoveCount, WithFinite DEF Count
<1>11. Count(pes, PmtPid[p]) <= Count(tune[t].pes, PmtPid[p])
  BY <1>8, RemoveCount DEF Count
<1>12. Count(pes, PmtPid[p]) \in Nat /\ Count(tune[t].pes, PmtPid[p]) \in Nat
  BY <1>8, RemoveCount, WithFinite DEF Count
<1> HIDE DEF r, pes
<1>13. OneProgram(cl, t, p, P, S, r)
  BY <1>2, <1>4, <1>5, <1>6, <1>7, <1>9 DEF OneProgram
<1>14. /\ Starters(t, p)' = Starters(t, p) \cup {cl}
       /\ cl \in Starters(t, p)
       /\ Viewers(t, p)' = Viewers(t, p) \ {cl}
       /\ cl \in Viewers(t, p)
  BY <1>2, <1>3, <1>5, <1>13, OneProgramStarters
<1>15. Starters(t, p)' = Starters(t, p)
  BY <1>14
<1>16. StartedBound(t, p)
  BY <1>1, <1>3, BoundIsProperty
<1>17. /\ Cardinality(Starters(t, p)') = Cardinality(Starters(t, p))
       /\ Cardinality(Viewers(t, p)') = Cardinality(Viewers(t, p)) - 1
       /\ Cardinality(Viewers(t, p)') \in Nat
       /\ Cardinality(Starters(t, p)) \in Nat /\ Cardinality(Viewers(t, p)) \in Nat
  <2>1. /\ IsFiniteSet(Starters(t, p)) /\ IsFiniteSet(Viewers(t, p))
        /\ Cardinality(Starters(t, p)') \in Nat /\ Cardinality(Viewers(t, p)') \in Nat
        /\ Cardinality(Starters(t, p)) \in Nat /\ Cardinality(Viewers(t, p)) \in Nat
    BY StartersFinite
  <2>2. Cardinality(Viewers(t, p) \ {cl}) = Cardinality(Viewers(t, p)) - 1
    BY <1>14, <2>1, AddUserCount
  <2>3. /\ Cardinality(Viewers(t, p)') = Cardinality(Viewers(t, p)) - 1
        /\ Cardinality(Starters(t, p)') = Cardinality(Starters(t, p))
    BY <1>14, <1>15, <2>2
  <2> QED BY <2>1, <2>3
<1>18. tune'[t].sct = tune[t].sct /\ tune'[t].pes = pes
  BY <1>1, <1>2, <1>3, <1>7, Typed
<1>19. StartedBound(t, p)'
  BY <1>10, <1>11, <1>12, <1>16, <1>17, <1>18 DEF StartedBound
<1> QED BY <1>3, <1>13, <1>19, OneProgramFilters

LEMMA StopProgramFilters ==
  ASSUME FilterInv, TypeInv', NEW cl \in Client, NEW p \in Program, StopProgram(cl, p)
  PROVE  Filters'
<1> PICK t : t = client[cl].tuner
  OBVIOUS
<1> DEFINE P   == client[cl].programs \ {p}
           S   == client[cl].streams \ {p}
           mid == RemoveFilters(tune[t].pes, StreamPid[p])
           pes == RemoveFilters(mid, PmtPid[p])
           sct == RemoveFilters(tune[t].sct, PmtPid[p])
           r   == [tune[t] EXCEPT !.pes = pes, !.sct = sct]
<1>1. TypeInv /\ HoldersStart /\ FiltersHaveStarters /\ client \in [Client -> ClientState]
  BY Typed DEF FilterInv, Filters
<1>2. /\ client[cl].phase = "holding" /\ p \in client[cl].programs
      /\ client' = [client EXCEPT ![cl].programs = @ \ {p}, ![cl].streams = @ \ {p}]
      /\ tune' = [tune EXCEPT ![t] = r]
  BY DEF StopProgram
<1>3. t \in Tuner /\ GoodTune(tune[t])
  BY <1>1, <1>2, HeldTuner
<1>4. /\ client'[cl].phase = "holding" /\ client'[cl].tuner = t
      /\ client'[cl].programs = P /\ client'[cl].streams = S
      /\ SameClients(Client \ {cl})
  BY <1>1, <1>2 DEF ClientState, SameClients
<1>5. S \subseteq P
  BY <1>1 DEF HoldersStart
<1>6. client[cl].tuner = t
  OBVIOUS
<1>7. r.sct = sct /\ r.pes = pes
  BY <1>3 DEF GoodTune, TuneState
<1>8. /\ tune[t].pes \in SUBSET Entry /\ IsFiniteSet(tune[t].pes)
      /\ tune[t].sct \in SUBSET Entry /\ IsFiniteSet(tune[t].sct)
  BY <1>3 DEF GoodTune, TuneState
<1>9. mid \in SUBSET Entry /\ IsFiniteSet(mid)
  BY <1>8, RemoveFiltersType
<1>10. ASSUME NEW q
       PROVE  /\ Count(mid, q) \in Nat /\ Count(tune[t].pes, q) \in Nat
              /\ Count(mid, q) <= Count(tune[t].pes, q)
  BY <1>8, RemoveCount, WithFinite DEF Count
<1>11. LET n == Count(tune[t].pes, StreamPid[p])
           m == Count(mid, StreamPid[p])
       IN  n > 0 => m < n
  BY <1>8, RemoveCount DEF Count
<1> HIDE DEF mid
<1>12. ASSUME NEW q
       PROVE  /\ Count(pes, q) \in Nat
              /\ Count(pes, q) <= Count(mid, q)
  BY <1>9, RemoveCount DEF Count
<1>13. LET n == Count(mid, PmtPid[p])
           m == Count(pes, PmtPid[p])
       IN  n > 0 => m < n
  BY <1>9, RemoveCount DEF Count
<1> HIDE DEF pes
<1>14. LET n == Count(tune[t].sct, PmtPid[p])
           m == Count(sct, PmtPid[p])
       IN  n \in Nat /\ m \in Nat /\ m <= n /\ (n > 0 => m < n)
  BY <1>8, RemoveCount, WithFinite DEF Count
<1>15. \A q \in Program : Fewer(sct, tune[t].sct, q) /\ Fewer(pes, tune[t].pes, q)
  <2> TAKE q \in Program
  <2>1. Fewer(sct, tune[t].sct, q)
    BY <1>8, FewerRemove
  <2>2. Fewer(pes, tune[t].pes, q)
    <3>1. \A pid : Count(pes, pid) <= Count(tune[t].pes, pid)
      BY <1>10, <1>12
    <3> QED BY <3>1 DEF Fewer
  <2> QED BY <2>1, <2>2
<1> HIDE DEF r, sct
<1>16. OneProgram(cl, t, p, P, S, r)
  BY <1>2, <1>4, <1>5, <1>6, <1>7, <1>15 DEF OneProgram
<1>17. /\ Starters(t, p)' = Starters(t, p) \ {cl}
       /\ cl \in Starters(t, p)
       /\ Viewers(t, p)' = Viewers(t, p) \ {cl}
  BY <1>2, <1>3, <1>16, OneProgramStarters
<1>18. StartedBound(t, p)
  BY <1>1, <1>3, BoundIsProperty
<1>19. /\ Cardinality(Starters(t, p)') = Cardinality(Starters(t, p)) - 1
       /\ Cardinality(Starters(t, p)') \in Nat
       /\ Cardinality(Starters(t, p)) \in Nat
  BY <1>17, StartersFinite, AddUserCount
<1>20. /\ \/ Cardinality(Viewers(t, p)') = Cardinality(Viewers(t, p)) - 1
          \/ Cardinality(Viewers(t, p)') = Cardinality(Viewers(t, p))
       /\ Cardinality(Viewers(t, p)') \in Nat
       /\ Cardinality(Viewers(t, p)) \in Nat
  <2>1. /\ IsFiniteSet(Starters(t, p)) /\ IsFiniteSet(Viewers(t, p))
        /\ Cardinality(Starters(t, p)') \in Nat /\ Cardinality(Viewers(t, p)') \in Nat
        /\ Cardinality(Starters(t, p)) \in Nat /\ Cardinality(Viewers(t, p)) \in Nat
    BY StartersFinite
  <2>2. /\ cl \in Viewers(t, p) =>
             Cardinality(Viewers(t, p) \ {cl}) = Cardinality(Viewers(t, p)) - 1
        /\ cl \notin Viewers(t, p) => Viewers(t, p) \ {cl} = Viewers(t, p)
    BY <2>1, AddUserCount
  <2>3. \/ Cardinality(Viewers(t, p)') = Cardinality(Viewers(t, p)) - 1
        \/ Cardinality(Viewers(t, p)') = Cardinality(Viewers(t, p))
    BY <1>17, <2>2
  <2> QED BY <2>1, <2>3
<1>21. tune'[t].sct = sct /\ tune'[t].pes = pes
  BY <1>1, <1>2, <1>3, <1>7, Typed
<1>22. Count(sct, PmtPid[p]) <= Cardinality(Starters(t, p)')
  BY <1>14, <1>18, <1>19 DEF StartedBound
<1>23. Count(pes, PmtPid[p]) <= Cardinality(Starters(t, p)')
  <2>1. /\ Count(mid, PmtPid[p]) \in Nat /\ Count(tune[t].pes, PmtPid[p]) \in Nat
        /\ Count(mid, PmtPid[p]) <= Count(tune[t].pes, PmtPid[p])
        /\ Count(pes, PmtPid[p]) \in Nat
        /\ Count(pes, PmtPid[p]) <= Count(mid, PmtPid[p])
    BY <1>10, <1>12
  <2> QED BY <1>13, <1>18, <1>19, <2>1 DEF StartedBound
<1>24. Count(pes, StreamPid[p]) <= Cardinality(Viewers(t, p)')
  <2>1. /\ Count(mid, StreamPid[p]) \in Nat /\ Count(tune[t].pes, StreamPid[p]) \in Nat
        /\ Count(mid, StreamPid[p]) <= Count(tune[t].pes, StreamPid[p])
        /\ Count(pes, StreamPid[p]) \in Nat
        /\ Count(pes, StreamPid[p]) <= Count(mid, StreamPid[p])
    BY <1>10, <1>12
  <2> QED BY <1>11, <1>18, <1>20, <2>1 DEF StartedBound
<1>25. StartedBound(t, p)'
  BY <1>21, <1>22, <1>23, <1>24 DEF StartedBound
<1> QED BY <1>3, <1>16, <1>25, OneProgramFilters

LEMMA ClientFilters ==
  ASSUME PidsIdentify, FilterInv, TypeInv', NEW cl \in Client, ClientStep(cl)
  PROVE  Filters'
<1>1. ASSUME NEW p \in Program,
             \/ StartProgram(cl, p) \/ StopProgram(cl, p)
             \/ StartStream(cl, p) \/ StopStream(cl, p)
      PROVE  Filters'
  BY <1>1, StartProgramFilters, StopProgramFilters, StartStreamFilters, StopStreamFilters
<1>2. ASSUME NEW c \in Channel, TunerChannelShare(cl, c) \/ TunerChannelOpen(cl, c)
      PROVE  Filters'
  BY <1>2, JoiningFilters
<1> QED BY <1>1, <1>2, ReleaseFilters, StartDecoderFilters, StopDecoderFilters DEF ClientStep

LEMMA NextFilters ==
  ASSUME PidsIdentify
  PROVE  FilterInv /\ [Next]_vars => FilterInv'
<1> SUFFICES ASSUME FilterInv, [Next]_vars PROVE FilterInv'
  OBVIOUS
<1>1. TypeInv'
  BY NextTypes DEF FilterInv
<1>2. CASE UNCHANGED vars
  <2>1. SameFds /\ UNCHANGED client
    BY <1>2 DEF vars, SameFds, SameParts
  <2>2. FiltersHaveStarters'
    BY <1>1, <2>1, QuietStep DEF KeepsStarted
  <2>3. HoldersStart'
    BY <2>1 DEF FilterInv, Filters, HoldersStart
  <2> QED BY <1>1, <2>2, <2>3 DEF FilterInv, Filters
<1>3. CASE Next
  <2>1. Filters'
    BY <1>1, <1>3, ClientFilters, TuneFilters, MainLoopFilters, EngineEndFilters DEF Next
  <2> QED BY <1>1, <2>1 DEF FilterInv
<1> QED BY <1>2, <1>3

(* No filter of a program or a stream outlives its last client, although   *)
(* the loops of __mydvb_remove_sct and __mydvb_remove_pes step over        *)
(* entries: each of them takes one filter at least.                        *)
THEOREM FiltersAreStarted ==
  ASSUME PidsIdentify
  PROVE  Spec => []FiltersHaveStarters
<1>1. FilterInv => FiltersHaveStarters
  BY DEF FilterInv, Filters
<1>2. Init => FilterInv
  BY InitTypeInv, InitFilters DEF FilterInv
<1> QED BY <1>1, <1>2, NextFilters, PTL DEF Spec

=============================================================================
