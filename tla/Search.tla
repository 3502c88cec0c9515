------------------------------- MODULE Search -------------------------------
(***************************************************************************)
(* The search of channels (src/mydvb_search.c): mydvb_tuner_search takes a *)
(* tuner, puts its own listeners in place of those of the engine, and from *)
(* then on the search lives in its callbacks, until it restores the        *)
(* listeners and reports with an event.                                    *)
(*                                                                         *)
(* "events" is the C stack as in module Dispatcher, with the callbacks of  *)
(* the library run as well: a frame is inside the callback of a client     *)
(* ("user"), about to run the callback of a search ("callback"), in the    *)
(* middle of __mydvb_search_finish ("finishing"), or back in the loop of   *)
(* mydvb_notify_event ("done").  Client code runs in callbacks and, with   *)
(* an empty stack, before the main loop and in listeners of descriptors.   *)
(***************************************************************************)
EXTENDS Scan, SequencesExt

CONSTANTS
  NTuners,       \* tuners, in list order
  TunerType,     \* their delivery systems
  Caps,          \* their capabilities
  AirPat,        \* at each frequency: the program numbers of the PAT,
  AirSdt,        \* and the services of the SDT
  MaxSearches,   \* bound on the searches ever started
  Wish,          \* what clients ask of a search: "CANCELLED", "STOPPED"
  ClientKinds,   \* the kinds of listeners clients register
  MaxListeners,  \* bound on the listeners clients ever register
  OtherTuners    \* other users of the library have tuners of their own

Tuner     == 1..NTuners
NoTuner   == 0
Other     == NTuners + 1   \* a tuner used by somebody else
SearchId  == 1..MaxSearches
User      == 0             \* owner of the listeners of clients
None      == "none"
NoDecoder == -2            \* -1 is the channel number of a tuner never tuned
Unread    == 0             \* tables of a decoder that has none

(* MYDVB_TUNER_EVENT, MYDVB_EVENT_READY, MYDVB_TIMEOUT_EVENT,              *)
(* MYDVB_EVENT_EXT_FD, MYDVB_SEARCH_EVENT                                  *)
Kind      == {"tuner", "ready", "timeout", "ext", "search"}
KeptKinds == {"ext", "search"}   \* not touched by a search

ASSUME SearchAssumption ==
  /\ NTuners \in Nat /\ MaxSearches \in Nat /\ MaxListeners \in Nat
  /\ TunerType \in [Tuner -> {"dvbs", "dvbt", "dvbc"}]
  /\ \A t \in Tuner : Caps[t] # {}
  /\ \A f \in Frequencies : AirPat[f] \in Seq(Nat)
  /\ Wish \subseteq {"CANCELLED", "STOPPED"}
  /\ ClientKinds \subseteq Kind /\ OtherTuners \in BOOLEAN

Valid == [t \in Tuner |-> FindNext(Caps[t])]

VARIABLES
  listeners,          \* engine->listeners
  listener_cnt,
  event_propagation,
  events,             \* the events being notified
  tune,               \* the MYDVB_TUNEs
  tables,             \* decoders: the frequency their tables were read from
  search,             \* the TUNER_SCAN_INFOs
  mine,               \* history: listeners clients may count on
  crashed             \* the program has followed a null pointer

vars == <<listeners, listener_cnt, event_propagation, events, tune, tables,
          search, mine, crashed>>

(* Listeners of a search are known by its number, those of clients by 0.   *)
Listener == [id : Nat, kind : Kind, owner : SearchId \cup {User}]

Frame ==
  [kind : Kind, tuner : Tuner \cup {NoTuner, Other},
   status : {"TRYING", "LOCK", "FAILED", None}, late : SUBSET Tuner, i : Nat,
   search : SearchId \cup {User}, at : {"user", "callback", "finishing", "done"}]

(* A decoder is known by type and channel number, and stays once created.  *)
Decoder == {<<TunerType[t], ChannelNumber(TunerType[t], f)>> :
              t \in Tuner, f \in Frequencies} \cup {<<TunerType[t], -1>> : t \in Tuner}

(* p is the frequency of the parameters, taken whether the device accepted *)
(* them; mydvb is the channel number of the decoder.                       *)
FreshTune == [status |-> "NOOP", references |-> 0, channel |-> -1, p |-> 0,
              taken |-> FALSE, mydvb |-> NoDecoder]

(* found is dvb_info; tried, locked and disturbed are history: the         *)
(* combinations tried, the frequencies the tuner of the search was at when *)
(* it locked, and whether an event of another tuner has reached the search *)
(* or its listeners were away.                                             *)
NoSearch == [phase |-> "none", status |-> "NOOP", tuner |-> NoTuner,
             scan |-> [d |-> <<>>, f |-> 0], saved |-> <<>>, found |-> <<>>,
             user_number |-> 1, tried |-> {}, locked |-> {}, disturbed |-> FALSE]

(* The elements of a list that are in S, in their order. *)
Only(ls, S) ==
  LET upTo[n \in 0..Len(ls)] ==
        IF n = 0 THEN <<>>
        ELSE IF ls[n] \in S THEN Append(upTo[n - 1], ls[n]) ELSE upTo[n - 1]
  IN  upTo[Len(ls)]

Top       == events[Len(events)]
Started   == {s \in SearchId : search[s].phase # "none"}
Searching == {s \in SearchId : search[s].phase = "searching"}

-----------------------------------------------------------------------------
(* mydvb_notify_event, see module Dispatcher.                              *)

FirstFrom(ls, kind, i) ==
  {k \in i..Len(ls) : /\ ls[k].kind = kind
                      /\ \A l \in i..k - 1 : ls[l].kind # kind}

Entered(ls, e, k) ==
  [e EXCEPT !.i = k, !.search = ls[k].owner,
            !.at = IF ls[k].owner = User THEN "user" ELSE "callback"]

Event(kind, t, status, late) ==
  [kind |-> kind, tuner |-> t, status |-> status, late |-> late, i |-> 0,
   search |-> User, at |-> "done"]

(* The stack once event e has got to its first listener, if it has one. *)
Notified(ls, stack, e) ==
  LET first == FirstFrom(ls, e.kind, 1) IN
    IF first = {} THEN stack
    ELSE Append(stack, Entered(ls, e, CHOOSE k \in first : TRUE))

(* A callback of the library returns, or waits for the event it notifies. *)
Returned(at) == [events EXCEPT ![Len(events)].at = at]

Calling(kind) == ~crashed /\ events # <<>> /\ Top.at = "callback" /\ Top.kind = kind

(* A callback has returned: the loop ends or calls the next listener.      *)
NextListener ==
  /\ ~crashed /\ events # <<>> /\ Top.at \in {"user", "done"}
  /\ LET next == FirstFrom(listeners, Top.kind, Top.i + 1) IN
       events' = IF ~event_propagation \/ next = {} THEN Front(events)
                 ELSE Append(Front(events),
                             Entered(listeners, Top, CHOOSE k \in next : TRUE))
  /\ UNCHANGED <<listeners, listener_cnt, event_propagation, tune, tables,
                 search, mine, crashed>>

-----------------------------------------------------------------------------
(* Tuners and decoders, see module Tuners.                                 *)

(* mydvb_tune_scan and mydvb_tune_frontend: the status is TRYING whether   *)
(* or not the device takes the parameters; a cable tuner is left alone.    *)
ScannedTune_mutant(t, r, f, taken) ==  \* TRYING only if the device takes them
  IF TunerType[t] = "dvbc" \/ ~taken THEN r
  ELSE [r EXCEPT !.status = "TRYING", !.p = f, !.taken = taken,
                 !.channel = ChannelNumber(TunerType[t], f)]
ScannedTune(t, r, f, taken) ==
  IF TunerType[t] = "dvbc" THEN r
  ELSE [r EXCEPT !.status = "TRYING", !.p = f, !.taken = taken,
                 !.channel = IF taken THEN ChannelNumber(TunerType[t], f) ELSE @]

StoppedDecoder_mutant(r) == r  \* the decoder stays
StoppedDecoder(r) == [r EXCEPT !.mydvb = NoDecoder]

(* mydvb_tuner_release, with mydvb_tune_close for the last user *)
ReleasedTune_mutant(r) == [r EXCEPT !.status = "NOOP", !.mydvb = NoDecoder]
ReleasedTune(r) ==
  IF r.references > 1 THEN [r EXCEPT !.references = @ - 1]
  ELSE [r EXCEPT !.references = 0, !.status = "NOOP", !.mydvb = NoDecoder,
                 !.taken = FALSE]

(* mydvb_get_available_tuner *)
Available(type) == {t \in Tuner : /\ TunerType[t] = type
                                  /\ tune[t].status = "NOOP"
                                  /\ tune[t].references = 0}

DecoderOf(t) == <<TunerType[t], tune[t].mydvb>>

-----------------------------------------------------------------------------
(* What is recorded of a channel: its programs in the order of the PAT,    *)
(* with what the SDT says of them.  The SDT is looked through up to the    *)
(* service of the program; "scrambled" is that of the last service looked  *)
(* at.  Streams are unknown: nobody asks for program maps in a search.     *)

Services(number, sdt) == {j \in DOMAIN sdt : sdt[j].number = number}

LookedAt(number, sdt) ==
  IF Services(number, sdt) = {} THEN DOMAIN sdt
  ELSE 1..(CHOOSE j \in Services(number, sdt) : \A k \in Services(number, sdt) : j <= k)

ProgramOf(number, sdt, user_number) ==
  LET last == Cardinality(LookedAt(number, sdt)) IN
    [number |-> number, user_number |-> user_number,
     service |-> IF Services(number, sdt) = {} THEN None ELSE sdt[last].name,
     scrambled |-> last > 0 /\ sdt[last].scram]

ChannelOf(t, sr) ==
  LET f == tables[DecoderOf(t)] IN
    [n |-> tune[t].channel, f |-> tune[t].p,
     programs |-> [i \in DOMAIN AirPat[f] |->
        ProgramOf(AirPat[f][i], AirSdt[f], sr.user_number + i - 1)]]

Recorded(t, sr) ==
  LET channel == ChannelOf(t, sr) IN
    [sr EXCEPT !.found = Append(@, channel),
               !.user_number = @ + Len(channel.programs)]

-----------------------------------------------------------------------------
(* mydvb_tuner_search.  Its TRYING event reaches its own listener only,    *)
(* which does nothing with it, but the event raises the propagation that   *)
(* has just been stopped.                                                  *)

Kept(ls)    == Only(ls, [id : Nat, kind : KeptKinds, owner : SearchId \cup {User}])
SavedOf(ls) == Only(ls, [id : Nat, kind : Kind \ KeptKinds, owner : SearchId \cup {User}])

OwnListeners(s) ==
  <<[id |-> listener_cnt,     kind |-> "tuner",   owner |-> s],
    [id |-> listener_cnt + 1, kind |-> "ready",   owner |-> s],
    [id |-> listener_cnt + 2, kind |-> "timeout", owner |-> s]>>

ClientTurn == ~crashed /\ (events # <<>> => Top.at = "user")

TunerSearch(s, type) ==
  /\ ClientTurn
  /\ s \notin Started
  /\ \A q \in 1..s - 1 : q \in Started
  /\ \E t \in Available(type), taken \in BOOLEAN :
       /\ \A u \in Available(type) : t <= u
       /\ LET scan == ScanInit(Valid[t], type) IN
            /\ tune' = [tune EXCEPT ![t] = ScannedTune(t,
                 [tune[t] EXCEPT !.references = @ + 1], scan.f, taken)]
            /\ search' = [q \in SearchId |->
                 IF q = s THEN [NoSearch EXCEPT !.phase = "searching",
                                  !.status = "SEARCHING", !.tuner = t, !.scan = scan,
                                  !.saved = SavedOf(listeners),
                                  !.tried = {<<scan.f, scan.d>>}]
                 ELSE [search[q] EXCEPT !.disturbed = @ \/ q \in Searching]]
  /\ listeners' = Kept(listeners) \o OwnListeners(s)
  /\ listener_cnt' = listener_cnt + 3
  /\ event_propagation' = TRUE
  /\ UNCHANGED <<events, tables, mine, crashed>>

(* The client changes scan_info->status while the search goes on. *)
AskEnd(s, wish) ==
  /\ ClientTurn
  /\ search[s].phase = "searching" /\ search[s].status = "SEARCHING"
  /\ search' = [search EXCEPT ![s].status = wish]
  /\ UNCHANGED <<listeners, listener_cnt, event_propagation, events, tune,
                 tables, mine, crashed>>

-----------------------------------------------------------------------------
(* __mydvb_search_finish, up to the callbacks of its event and after them. *)

Restored_mutant(ls, sr) == Only(ls, [id : Nat, kind : Kind, owner : {User}]) \o sr.saved
Restored_mutant_kept(ls, sr) ==  \* the listeners of the search stay
  ls \o sr.saved
Restored(ls, sr) == Kept(ls) \o sr.saved

Finish(s, sr, status) ==
  /\ \E ls \in {Restored(listeners, sr)} :
       /\ listeners' = ls
       /\ events' = Notified(ls, Returned("finishing"),
                             Event("search", NoTuner, None, {}))
  /\ search' = [search EXCEPT ![s] = [sr EXCEPT !.phase = "reporting",
                                                !.status = status]]
  /\ event_propagation' = TRUE

FinishSearch ==
  /\ ~crashed /\ events # <<>> /\ Top.at = "finishing"
  /\ LET s == Top.search
         t == search[s].tuner
     IN /\ tune' = [tune EXCEPT ![t] = ReleasedTune(tune[t])]
        /\ search' = [search EXCEPT ![s].phase = "closed"]
  /\ event_propagation' = FALSE
  /\ events' = Returned("done")
  /\ UNCHANGED <<listeners, listener_cnt, tables, mine, crashed>>

(* The end of a callback: the wish of the client, the next combination or  *)
(* the end of the scan.  r and sr are the tuner and the search so far.     *)
TryNext(s, r, sr) ==
  \E next \in {ScanNext(Valid[sr.tuner], TunerType[sr.tuner], r.status, sr.scan)} :
    \/ /\ ScanGoesOn(TunerType[sr.tuner], next)
       /\ \E taken \in BOOLEAN :
            tune' = [tune EXCEPT ![sr.tuner] = ScannedTune(sr.tuner, r, next.f, taken)]
       /\ search' = [search EXCEPT ![s] = [sr EXCEPT !.scan = next,
                                !.tried = @ \cup {<<next.f, next.d>>}]]
       /\ events' = Returned("done")
       /\ UNCHANGED <<listeners, event_propagation>>
    \/ /\ ~ScanGoesOn(TunerType[sr.tuner], next)
       /\ Finish(s, [sr EXCEPT !.scan = next], "COMPLETED")
       /\ tune' = [tune EXCEPT ![sr.tuner] = r]

ScanOn_mutant(s, r, sr) ==  \* the wish of the client is not looked at
  TryNext(s, r, sr)

ScanOn(s, r, sr) ==
  \/ /\ sr.status \in Wish
     /\ Finish(s, sr, sr.status)
     /\ tune' = [tune EXCEPT ![sr.tuner] = r]
  \/ /\ sr.status \notin Wish
     /\ TryNext(s, r, sr)

(* What an event does to the history of the search it reaches. *)
Reached(s) ==
  [search[s] EXCEPT !.disturbed = @ \/ Top.tuner # search[s].tuner]

(* mydvb_start_decoder: a decoder that has its tables is READY there and   *)
(* then.                                                                   *)
StartDecoder_mutant(t) ==  \* READY whether it has or not
  /\ tune' = [tune EXCEPT ![t].mydvb = tune[t].channel]
  /\ events' = Notified(listeners, Returned("done"), Event("ready", t, None, {}))
  /\ event_propagation' = TRUE
StartDecoder(t) ==
  /\ tune' = [tune EXCEPT ![t].mydvb = tune[t].channel]
  /\ IF tables[<<TunerType[t], tune[t].channel>>] # Unread
     THEN /\ events' = Notified(listeners, Returned("done"),
                                Event("ready", t, None, {}))
          /\ event_propagation' = TRUE
     ELSE /\ events' = Returned("done")
          /\ UNCHANGED event_propagation

(* __mydvb_search_tune_callback; which tuner the event is of is not looked *)
(* at.  Without a wish, ScanOn only tries the next combination.            *)
TuneCallback ==
  /\ Calling("tuner")
  /\ LET s  == Top.search
         t  == search[s].tuner
         asked == search[s].status \in Wish
     IN \/ /\ asked \/ Top.status = "FAILED"
           /\ ScanOn(s, tune[t], Reached(s))
        \/ /\ ~asked /\ Top.status = "LOCK"
           /\ StartDecoder(t)
           /\ search' = [search EXCEPT ![s] = Reached(s)]
           /\ UNCHANGED listeners
        \/ /\ ~asked /\ Top.status = "TRYING"
           /\ search' = [search EXCEPT ![s] = Reached(s)]
           /\ events' = Returned("done")
           /\ UNCHANGED <<listeners, event_propagation, tune>>
  /\ UNCHANGED <<listener_cnt, tables, mine, crashed>>

HasTables(t) == tune[t].mydvb # NoDecoder /\ tables[DecoderOf(t)] # Unread

(* __mydvb_search_ready_callback: tune->mydvb and its tables are used as   *)
(* they are.                                                               *)
ReadyCallback ==
  /\ Calling("ready")
  /\ LET s == Top.search
         t == search[s].tuner
     IN IF HasTables(t)
        THEN /\ \E sr \in {Recorded(t, Reached(s))} :
                  ScanOn(s, StoppedDecoder(tune[t]), sr)
             /\ UNCHANGED crashed
        ELSE /\ crashed' = TRUE
             /\ search' = [search EXCEPT ![s] = Reached(s)]
             /\ UNCHANGED <<listeners, event_propagation, events, tune>>
  /\ UNCHANGED <<listener_cnt, tables, mine>>

(* __mydvb_search_timeout_callback: no data for 5 seconds.                 *)
TimeoutCallback ==
  /\ Calling("timeout")
  /\ LET s == Top.search
         t == search[s].tuner
     IN IF tune[t].status = "LOCK" /\ t \in Top.late
        THEN ScanOn(s, StoppedDecoder(tune[t]), search[s])
        ELSE /\ events' = Returned("done")
             /\ UNCHANGED <<listeners, event_propagation, tune, search>>
  /\ UNCHANGED <<listener_cnt, tables, mine, crashed>>

-----------------------------------------------------------------------------
(* The main loop: events begin when no other is being notified.            *)

InMainLoop == ~crashed /\ events = <<>>

MainLoopEvent(e) ==
  /\ events' = Notified(listeners, events, e)
  /\ event_propagation' = TRUE
  /\ UNCHANGED <<listeners, listener_cnt, mine, crashed>>

(* What a lock of tuner t adds to the history of the searches. *)
WithLocked(t) ==
  [s \in SearchId |->
     IF s \in Searching /\ search[s].tuner = t
     THEN [search[s] EXCEPT !.locked = @ \cup {search[s].scan.f}] ELSE search[s]]

Lock(t) ==
  /\ InMainLoop
  /\ tune[t].status = "TRYING" /\ tune[t].taken
  /\ tune' = [tune EXCEPT ![t].status = "LOCK"]
  /\ MainLoopEvent(Event("tuner", t, "LOCK", {}))
  /\ search' = WithLocked(t)
  /\ UNCHANGED tables

(* The device gives up, or 3 seconds have passed. *)
Fail(t) ==
  /\ InMainLoop
  /\ tune[t].status = "TRYING"
  /\ tune' = [tune EXCEPT ![t].status = "FAILED"]
  /\ MainLoopEvent(Event("tuner", t, "FAILED", {}))
  /\ UNCHANGED <<tables, search>>

(* __read_table has got the last table the decoder of t needs. *)
ReadTables(t) ==
  /\ InMainLoop
  /\ tune[t].mydvb # NoDecoder /\ tune[t].taken
  /\ tables[DecoderOf(t)] = Unread
  /\ tables' = [tables EXCEPT ![DecoderOf(t)] = tune[t].p]
  /\ MainLoopEvent(Event("ready", t, None, {}))
  /\ UNCHANGED <<tune, search>>

(* The event of every second; late are the tuners set 5 seconds ago. *)
Locked == {t \in Tuner : tune[t].status = "LOCK"}

Second(late) ==
  /\ InMainLoop
  /\ MainLoopEvent(Event("timeout", NoTuner, None, late))
  /\ UNCHANGED <<tune, tables, search>>

(* An event of a tuner of another user (module Tuners). *)
OtherEvent ==
  /\ InMainLoop /\ OtherTuners
  /\ \/ \E status \in {"TRYING", "LOCK", "FAILED"} :
          MainLoopEvent(Event("tuner", Other, status, {}))
     \/ MainLoopEvent(Event("ready", Other, None, {}))
  /\ UNCHANGED <<tune, tables, search>>

-----------------------------------------------------------------------------
(* Listeners of clients.  mine are those a client may count on: registered *)
(* while no search goes on, or of a kind that searches leave alone.        *)

Register(kind) ==
  /\ ClientTurn
  /\ listener_cnt - 3 * Cardinality(Started) < MaxListeners
  /\ LET l == [id |-> listener_cnt, kind |-> kind, owner |-> User] IN
       /\ listeners' = Append(listeners, l)
       /\ mine' = IF Searching = {} \/ kind \in KeptKinds THEN Append(mine, l)
                  ELSE mine
  /\ listener_cnt' = listener_cnt + 1
  /\ UNCHANGED <<event_propagation, events, tune, tables, search, crashed>>

(* mydvb_remove_listener of a listener that is in the array; of one that   *)
(* is saved it does nothing.                                               *)
RemoveListener(l) ==
  /\ ClientTurn
  /\ l.owner = User
  /\ listeners' = Only(listeners, ToSet(listeners) \ {l})
  /\ mine' = Only(mine, ToSet(mine) \ {l})
  /\ event_propagation' = FALSE
  /\ UNCHANGED <<listener_cnt, events, tune, tables, search, crashed>>

-----------------------------------------------------------------------------
Init ==
  /\ listeners = <<>> /\ listener_cnt = 0 /\ event_propagation = FALSE
  /\ events = <<>>
  /\ tune = [t \in Tuner |-> FreshTune]
  /\ tables = [d \in Decoder |-> Unread]
  /\ search = [s \in SearchId |-> NoSearch]
  /\ mine = <<>>
  /\ crashed = FALSE

Client ==
  \/ \E s \in SearchId, type \in {"dvbs", "dvbt", "dvbc"} : TunerSearch(s, type)
  \/ \E s \in SearchId, wish \in Wish : AskEnd(s, wish)
  \/ \E kind \in ClientKinds : Register(kind)
  \/ \E l \in ToSet(listeners) : RemoveListener(l)

Library == TuneCallback \/ ReadyCallback \/ TimeoutCallback \/ FinishSearch

MainLoop ==
  \/ \E t \in Tuner : Lock(t) \/ Fail(t) \/ ReadTables(t)
  \/ \E late \in SUBSET Locked : Second(late)
  \/ OtherEvent

Next == Client \/ Library \/ NextListener \/ MainLoop

Spec == Init /\ [][Next]_vars

(* Code runs and callbacks return; the device or the 3 second check ends   *)
(* every trial; a second comes that is 5 seconds after any lock.  Strong   *)
(* fairness, for other events come between.                                *)
Fairness ==
  /\ WF_vars(Library) /\ WF_vars(NextListener)
  /\ \A t \in Tuner : SF_vars(Lock(t) \/ Fail(t))
  /\ SF_vars(Locked # {} /\ Second(Locked))

FairSpec == Spec /\ Fairness

-----------------------------------------------------------------------------
(* Correctness                                                             *)

(* What a search has found and tried is left out: its type is that of the  *)
(* stream and of the lists of parameters.                                  *)
TuneState ==
  [status : {"NOOP", "TRYING", "LOCK", "FAILED"}, references : Nat, channel : Int,
   p : Nat, taken : BOOLEAN, mydvb : Int]

SearchType(sr) ==
  /\ DOMAIN sr = DOMAIN NoSearch
  /\ sr.phase \in {"none", "searching", "reporting", "closed"}
  /\ sr.status \in {"NOOP", "SEARCHING", "COMPLETED"} \cup Wish
  /\ sr.tuner \in Tuner \cup {NoTuner}
  /\ sr.scan.f \in Nat
  /\ sr.saved \in Seq(Listener)

TypeOK ==
  /\ listeners \in Seq(Listener) /\ listener_cnt \in Nat
  /\ mine \in Seq(Listener)
  /\ event_propagation \in BOOLEAN /\ crashed \in BOOLEAN
  /\ events \in Seq(Frame)
  /\ tune \in [Tuner -> TuneState]
  /\ tables \in [Decoder -> Nat]
  /\ DOMAIN search = SearchId /\ \A s \in SearchId : SearchType(search[s])

(* __mydvb_search_finish frees the TUNER_SCAN_INFO the listeners of the    *)
(* search point at: none of them is left in the engine, in what a search   *)
(* has saved and will put back, or about to be called, whatever searches   *)
(* were started and ended inside one another.                              *)
NoStaleListener ==
  /\ \A ls \in {listeners} \cup {search[s].saved : s \in Searching} :
       \A k \in DOMAIN ls : ls[k].owner \in Searching \cup {User}
  /\ \A n \in DOMAIN events :
       events[n].at = "callback" => events[n].search \in Searching

OfClients(ls, kind) == Only(ls, [id : Nat, kind : {kind}, owner : {User}])

(* "restore everything !!!" (mydvb_search.c:65): when no search goes on,   *)
(* the listeners clients registered before the searches, and those no      *)
(* search touches, are in the engine once, in their order among the        *)
(* listeners of their kind, after any number of searches.                  *)
ListenersRestored ==
  Searching = {} =>
    \A kind \in Kind : OfClients(listeners, kind) = OfClients(mine, kind)

(* A search that has only been reached by events of its own tuner is told  *)
(* READY when its tuner has a decoder that has its tables: it does not     *)
(* follow a null pointer.                                                  *)
ReadyHasTables ==
  Calling("ready") /\ ~search[Top.search].disturbed
    => \/ HasTables(search[Top.search].tuner)
       \/ Top.tuner # search[Top.search].tuner

(* Everything a terrestrial search has recorded was read from the          *)
(* frequency it is recorded for, although decoders are found again by      *)
(* channel number with the tables of earlier searches; each frequency is   *)
(* recorded once and has a channel number of its own, and the programs are *)
(* numbered 1, 2, 3 ...                                                    *)
FoundIsRight ==
  (\A s \in SearchId : ~search[s].disturbed) =>
    \A s \in SearchId :
      LET found == search[s].found
          all   == FlattenSeq([i \in DOMAIN found |-> found[i].programs])
      IN  \A i \in DOMAIN found : TunerType[search[s].tuner] = "dvbt" =>
            /\ found[i].n = UhfChannel(found[i].f)
            /\ [k \in DOMAIN found[i].programs |-> found[i].programs[k].number]
                 = AirPat[found[i].f]
            /\ \A j \in DOMAIN found :
                 i < j => found[i].f < found[j].f /\ found[i].n < found[j].n
            /\ \A k \in DOMAIN all : all[k].user_number = k

(* A search that reports it is complete has, at every frequency, locked or *)
(* tried exactly the combinations the tuner can do, whatever events of     *)
(* other tuners have reached it.  A cable tuner has no scan.               *)
ToTry == [t \in Tuner |-> Combinations(Caps[t], TunerType[t])]

CompletedIsThorough ==
  \A s \in SearchId :
    search[s].phase = "reporting" /\ search[s].status = "COMPLETED"
        /\ TunerType[search[s].tuner] # "dvbc"
      => LET tried(f) == {c[2] : c \in {c \in search[s].tried : c[1] = f}} IN
           \A f \in Frequencies :
             /\ tried(f) \subseteq ToTry[search[s].tuner]
             /\ f \in search[s].locked \/ tried(f) = ToTry[search[s].tuner]

(* A tuner has as many references as searches that have not given it back, *)
(* which is one or none, and without any it is closed.                     *)
TunersGivenBack ==
  \A t \in Tuner :
    LET users == {s \in SearchId : /\ search[s].phase \in {"searching", "reporting"}
                                   /\ search[s].tuner = t}
    IN  /\ tune[t].references = Cardinality(users)
        /\ Cardinality(users) <= 1
        /\ users = {} => tune[t].status = "NOOP" /\ tune[t].mydvb = NoDecoder

(* A search implements the service of module SearchService: a tuner of its *)
(* own, one report with the status asked for, the tuner back after it.     *)
Service == INSTANCE SearchService WITH
  Searches <- SearchId, Tuners <- Tuner,
  phase  <- [s \in SearchId |-> search[s].phase],
  status <- [s \in SearchId |-> search[s].status],
  holds  <- [s \in SearchId |->
               {t \in Tuner : /\ search[s].phase \in {"searching", "reporting"}
                              /\ search[s].tuner = t}]

ImplementsService == Service!Spec

(* Every search ends and gives its tuner back, unless events of other      *)
(* tuners get in its way: the device may refuse every combination, lock on *)
(* nothing, or lock and send no tables.                                    *)
SearchEnds ==
  \A s \in SearchId :
    search[s].phase = "searching"
      ~> search[s].phase = "closed" \/ search[s].disturbed
=============================================================================
