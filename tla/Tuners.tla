------------------------------- MODULE Tuners -------------------------------
(***************************************************************************)
(* The tuners of a MYDVB_ENGINE, the descriptors they open and the clients *)
(* that share them (src/mydvb.c, src/tune.c, include/mydvb_tune.h).        *)
(*                                                                         *)
(* The library runs in one thread.  Control is in client code between two  *)
(* calls of the library and, inside a call, while an event is being        *)
(* notified; an action below is the code that runs from one such point to  *)
(* the next.  mydvb_tuner_channel notifies in the middle of its work, so   *)
(* it is two actions, and the calls that are between them are stacked in   *)
(* "calls".  Everywhere else the notification is the last thing a handler  *)
(* does, and what its callbacks do are ordinary client actions.            *)
(*                                                                         *)
(* A poll table is modelled by the set of its descriptors; module MainLoop *)
(* has it slot by slot.                                                    *)
(***************************************************************************)
EXTENDS Integers, FiniteSets, Sequences

CONSTANTS
  NTuners,      \* tuners found by mydvb_engine_init, numbered in list order
  TunerType,    \* delivery system of a tuner
  Client,       \* users of the library, each with at most one tuner
  Channel,      \* transponders, as the INFO_CHANNELs a client asks for
  ChannelType,  \* delivery system of a channel
  Number,       \* INFO_CHANNEL.n of a channel
  Program,      \* programs a client may start
  PmtPid,       \* MYDVB_PROGRAM.pmt_pid
  StreamPid,    \* pid of the one elementary stream a program has here
  Fd,           \* descriptors the kernel can hand out
  OpenMayFail,  \* open and the filter ioctls may fail
  NestedTuning  \* a callback of the TRYING event may tune as well

NoFd    == -1
NoTuner == 0
None    == "none"
Tuner   == 1..NTuners

PAT_PID == 0
NIT_PID == 16
SDT_PID == 17
EIT_PID == 18
Pid     == {PAT_PID, NIT_PID, SDT_PID, EIT_PID}
             \cup {PmtPid[p] : p \in Program} \cup {StreamPid[p] : p \in Program}

TuneSeconds == 3  \* "the tuner has 3 seconds for locking"

ASSUME TunersAssumption ==
  /\ NTuners \in Nat
  /\ IsFiniteSet(Client)
  /\ Fd \subseteq Nat
  /\ None \notin Channel
  /\ TunerType \in [Tuner -> {"dvbs", "dvbt", "dvbc"}]
  /\ ChannelType \in [Channel -> {"dvbs", "dvbt", "dvbc"}]
  /\ Number \in [Channel -> Nat]
  /\ PmtPid \in [Program -> Nat]
  /\ StreamPid \in [Program -> Nat]
  /\ OpenMayFail \in BOOLEAN
  /\ NestedTuning \in BOOLEAN

VARIABLES
  tune,      \* the MYDVB_TUNEs
  polled,    \* descriptors in engine->pfd
  open,      \* descriptors the library has open (kernel)
  client,    \* what each client believes it holds
  calls,     \* clients inside mydvb_tuner_channel, innermost last
  checking,  \* next tuner of the periodic check of the main loop
  due,       \* a second has passed since the last periodic check
  patRead,   \* decoders in engine->channels that have a PAT
  up         \* before mydvb_engine_end

vars == <<tune, polled, open, client, calls, checking, due, patRead, up>>

-----------------------------------------------------------------------------
(* Data.  A filter table is a set of entries; "slot" is the index of the   *)
(* entry in the C array.  front is the transponder the device is set to.   *)

Entry  == [pid : Pid, fd : Fd, slot : Int]
Status == {"NOOP", "TRYING", "LOCK", "FAILED"}

TuneState ==
  [status : Status, references : Int, channel : Int,
   p : Channel \cup {None}, front : Channel \cup {None},
   fd : Fd \cup {NoFd}, fd_dvr : Fd \cup {NoFd},
   sct : SUBSET Entry, pes : SUBSET Entry,
   mydvb : BOOLEAN, age : 0..TuneSeconds]

ClientState ==
  [phase : {"none", "calling", "holding"}, tuner : Tuner \cup {NoTuner},
   channel : Channel \cup {None},
   programs : SUBSET Program, streams : SUBSET Program]

NoClient == [phase |-> "none", tuner |-> NoTuner, channel |-> None,
             programs |-> {}, streams |-> {}]

(* Definitions whose name ends in _mutant are plausible mistakes in the     *)
(* definition that follows, each caught by a property (PROJECT.json).      *)

(* mydvb_tune_init *)
FreshTune ==
  [status |-> "NOOP", references |-> 0, channel |-> -1, p |-> None,
   front |-> None, fd |-> NoFd, fd_dvr |-> NoFd, sct |-> {}, pes |-> {},
   mydvb |-> FALSE, age |-> 0]

ClosedTune_mutant_tables(r) ==  \* sct_len and pes_len not reset
  [r EXCEPT !.status = "NOOP", !.front = None, !.fd = NoFd, !.fd_dvr = NoFd,
            !.mydvb = FALSE, !.age = 0]
ClosedTune_mutant_status(r) ==  \* status not reset
  [r EXCEPT !.front = None, !.fd = NoFd, !.fd_dvr = NoFd,
            !.sct = {}, !.pes = {}, !.mydvb = FALSE, !.age = 0]
ClosedTune_mutant_mydvb(r) ==  \* decoder not forgotten
  [r EXCEPT !.status = "NOOP", !.front = None, !.fd = NoFd, !.fd_dvr = NoFd,
            !.sct = {}, !.pes = {}, !.age = 0]

(* What mydvb_tune_close leaves of a tuner; p, channel and start_ms stay. *)
ClosedTune(r) ==
  [r EXCEPT !.status = "NOOP", !.front = None, !.fd = NoFd, !.fd_dvr = NoFd,
            !.sct = {}, !.pes = {}, !.mydvb = FALSE, !.age = 0]

(* mydvb_tune_open, which does not look at what was open before, followed  *)
(* by the copy of the parameters.  A failed open changes the fd only.      *)
OpenedTune(r, f, c) ==
  IF f = NoFd THEN [r EXCEPT !.fd = NoFd, !.p = c]
  ELSE [ClosedTune(r) EXCEPT !.fd = f, !.p = c]

(* mydvb_tune_frontend: the status is TRYING whether or not the device     *)
(* took the parameters.                                                    *)
TriedTune(r, taken) ==
  [r EXCEPT !.status = "TRYING", !.age = 0,
            !.front = IF taken THEN r.p ELSE r.front,
            !.channel = IF taken THEN Number[r.p] ELSE r.channel]

AddUser_mutant(r) == [r EXCEPT !.references = 1]
AddUser(r)    == [r EXCEPT !.references = r.references + 1]
RemoveUser(r) == [r EXCEPT !.references = r.references - 1]

FdsOf(table) == {e.fd : e \in table}
RealFds(S)   == S \ {NoFd}

PolledFdsOf(r) == RealFds({r.fd, r.fd_dvr}) \cup FdsOf(r.sct)
OwnedFdsOf(r)  == PolledFdsOf(r) \cup FdsOf(r.pes)
DecoderFdsOf_mutant_pes(r) == RealFds({r.fd_dvr}) \cup FdsOf(r.sct)
DecoderFdsOf_mutant_dvr(r) == FdsOf(r.sct) \cup FdsOf(r.pes)
DecoderFdsOf(r) == RealFds({r.fd_dvr}) \cup FdsOf(r.sct) \cup FdsOf(r.pes)

(* open: the lowest descriptor that is free, or a failure. *)
OpenResult(used) ==
  {f \in Fd \ used : \A g \in Fd \ used : f <= g}
    \cup (IF OpenMayFail \/ Fd \subseteq used THEN {NoFd} ELSE {})

Opened(used, f) == used \cup RealFds({f})

(* __mydvb_add_sct, __mydvb_add_scts, __mydvb_add_pes: a failed open or    *)
(* ioctl leaves the table as it is.                                        *)
AddFilter(table, pid, f) ==
  IF f = NoFd THEN table
  ELSE table \cup {[pid |-> pid, fd |-> f, slot |-> Cardinality(table) + 1]}

(* __mydvb_remove_pes, __mydvb_remove_sct.  The loop shifts the table over *)
(* a removed entry and then advances, stepping over the entry that took    *)
(* its place: of a run of entries with the pid it removes the first, the   *)
(* third, and so on.                                                       *)
RunBefore(table, e) ==
  {b \in table : /\ b.slot < e.slot
                 /\ \A x \in table : x.slot \in b.slot..e.slot => x.pid = e.pid}

Dropped_mutant(table, pid) ==  \* i < len - 1
  {e \in table : /\ e.pid = pid /\ e.slot < Cardinality(table)
                 /\ Cardinality(RunBefore(table, e)) % 2 = 0}

Dropped(table, pid) ==
  {e \in table : e.pid = pid /\ Cardinality(RunBefore(table, e)) % 2 = 0}

RemoveFilters(table, pid) ==
  LET gone == Dropped(table, pid)
      Shift(e) == Cardinality({d \in gone : d.slot < e.slot})
  IN  {[e EXCEPT !.slot = @ - Shift(e)] : e \in table \ gone}

-----------------------------------------------------------------------------
(* Choice of a tuner: the lists are searched from the first tuner on.      *)

IsFirst(t, S) == t \in S /\ \A u \in S : t <= u

Sharable_mutant(c) == {t \in Tuner : /\ tune[t].status = "LOCK"
                                     /\ TunerType[t] = ChannelType[c]}

Sharable(c) == {t \in Tuner : /\ tune[t].status = "LOCK"
                              /\ TunerType[t] = ChannelType[c]
                              /\ tune[t].channel = Number[c]}

Usable_mutant(c) == {t \in Tuner : /\ TunerType[t] = ChannelType[c]
                                   /\ tune[t].status \in {"NOOP", "FAILED"}}

Usable(c) == {t \in Tuner : /\ TunerType[t] = ChannelType[c]
                            /\ tune[t].status = "NOOP"}

(* mydvb_get_available_tuner *)
Available(type) == {t \in Tuner : /\ TunerType[t] = type
                                  /\ tune[t].status = "NOOP"
                                  /\ tune[t].references = 0}

-----------------------------------------------------------------------------
(* mydvb_tuner_channel                                                     *)

(* The channel is on a locked tuner already: one more user of it. *)
TunerChannelShare(cl, c) ==
  /\ client[cl].phase = "none"
  /\ \E t \in Tuner :
       /\ IsFirst(t, Sharable(c))
       /\ tune' = [tune EXCEPT ![t] = AddUser(tune[t])]
       /\ client' = [client EXCEPT ![cl].phase = "holding", ![cl].tuner = t,
                                   ![cl].channel = c]
  /\ UNCHANGED <<polled, open, calls, checking, due, patRead, up>>

(* A tuner with no operation is opened, polled and given the parameters;   *)
(* then TRYING is notified.  Its status is still NOOP.  A failed open is   *)
(* ignored.                                                                *)
TunerChannelOpen(cl, c) ==
  /\ client[cl].phase = "none"
  /\ calls # <<>> => NestedTuning
  /\ Sharable(c) = {}
  /\ \E t \in Tuner, f \in OpenResult(open) :
         /\ IsFirst(t, Usable(c))
         /\ tune' = [tune EXCEPT ![t] = OpenedTune(AddUser(tune[t]), f, c)]
         /\ open' = Opened(open, f)
         /\ polled' = Opened(polled, f)
         /\ client' = [client EXCEPT ![cl].phase = "calling", ![cl].tuner = t,
                                     ![cl].channel = c]
  /\ calls' = Append(calls, cl)
  /\ UNCHANGED <<checking, due, patRead, up>>

(* The callbacks of the innermost TRYING event have returned:              *)
(* mydvb_tune_frontend.  Cable tuners have no tuning code.                 *)
TunerChannelTune ==
  /\ calls # <<>>
  /\ LET cl == calls[Len(calls)]
         t  == client[cl].tuner
     IN \E taken \in BOOLEAN :
          /\ taken => tune[t].fd # NoFd /\ TunerType[t] # "dvbc"
          /\ tune' = [tune EXCEPT ![t] = TriedTune(tune[t], taken)]
          /\ client' = [client EXCEPT ![cl].phase = "holding"]
  /\ calls' = SubSeq(calls, 1, Len(calls) - 1)
  /\ UNCHANGED <<polled, open, checking, due, patRead, up>>

-----------------------------------------------------------------------------
(* mydvb_tuner_release, with mydvb_stop_decoder and mydvb_tune_close when  *)
(* the last user leaves.  A client that is not the last one stops the      *)
(* programs it started before it leaves.                                   *)
TunerRelease(cl) ==
  /\ client[cl].phase = "holding"
  /\ LET t == client[cl].tuner IN
       /\ client[cl].programs = {} \/ tune[t].references = 1
       /\ tune[t].references > 0
       /\ IF tune[t].references = 1
          THEN /\ tune' = [tune EXCEPT ![t] = ClosedTune(RemoveUser(tune[t]))]
               /\ polled' = polled \ OwnedFdsOf(tune[t])
               /\ open' = open \ OwnedFdsOf(tune[t])
          ELSE /\ tune' = [tune EXCEPT ![t] = RemoveUser(tune[t])]
               /\ UNCHANGED <<polled, open>>
  /\ client' = [client EXCEPT ![cl] = NoClient]
  /\ UNCHANGED <<calls, checking, due, patRead, up>>

-----------------------------------------------------------------------------
(* Decoding                                                                *)

(* The decoder of a tuner is shared by all tuners, now and later, with its *)
(* type and channel number.                                                *)
DecoderOf(t) == <<TunerType[t], tune[t].channel>>
Decoder      == {"dvbs", "dvbt", "dvbc"} \X Int

(* mydvb_start_decoder: filters for the PAT (section and stream), the SDT  *)
(* and the EIT, then the dvr device.  Clients start the decoder of a tuner *)
(* that is locked and has none.                                            *)
StartDecoder(cl) ==
  /\ client[cl].phase = "holding"
  /\ LET t == client[cl].tuner
         r == tune[t]
     IN /\ r.status = "LOCK" /\ ~r.mydvb
        /\ \E pat \in OpenResult(open) :
           \E pes \in OpenResult(Opened(open, pat)) :
           \E sdt \in OpenResult(open \cup RealFds({pat, pes})) :
           \E eit \in OpenResult(open \cup RealFds({pat, pes, sdt})) :
           \E dvr \in OpenResult(open \cup RealFds({pat, pes, sdt, eit})) :
             /\ tune' = [tune EXCEPT ![t] =
                  [r EXCEPT
                    !.sct = AddFilter(AddFilter(AddFilter(r.sct, PAT_PID, pat),
                                                SDT_PID, sdt), EIT_PID, eit),
                    !.pes = AddFilter(r.pes, PAT_PID, pes),
                    !.fd_dvr = dvr, !.mydvb = TRUE]]
             /\ open' = open \cup RealFds({pat, pes, sdt, eit, dvr})
             /\ polled' = polled \cup RealFds({pat, sdt, eit, dvr})
  /\ UNCHANGED <<client, calls, checking, due, patRead, up>>

StopDecoder_mutant(cl) ==  \* no mydvb_remove_poll
  /\ client[cl].phase = "holding"
  /\ LET t == client[cl].tuner IN
       /\ open' = open \ DecoderFdsOf(tune[t])
       /\ tune' = [tune EXCEPT ![t] =
            [tune[t] EXCEPT !.fd_dvr = NoFd, !.sct = {}, !.pes = {}, !.mydvb = FALSE]]
  /\ UNCHANGED <<polled, client, calls, checking, due, patRead, up>>

(* mydvb_stop_decoder: any user of the tuner may stop it for all of them. *)
StopDecoder(cl) ==
  /\ client[cl].phase = "holding"
  /\ LET t == client[cl].tuner IN
       /\ polled' = polled \ DecoderFdsOf(tune[t])
       /\ open' = open \ DecoderFdsOf(tune[t])
       /\ tune' = [tune EXCEPT ![t] =
            [tune[t] EXCEPT !.fd_dvr = NoFd, !.sct = {}, !.pes = {}, !.mydvb = FALSE]]
  /\ UNCHANGED <<client, calls, checking, due, patRead, up>>

(* mydvb_start_program: a section and a stream filter on the pid of the    *)
(* program map.  The programs are those of the PAT of the decoder.         *)
StartProgram(cl, p) ==
  /\ client[cl].phase = "holding"
  /\ p \notin client[cl].programs
  /\ LET t == client[cl].tuner IN
       /\ tune[t].mydvb
       /\ DecoderOf(t) \in patRead
       /\ \E sct \in OpenResult(open) : \E pes \in OpenResult(Opened(open, sct)) :
            /\ tune' = [tune EXCEPT ![t] =
                 [tune[t] EXCEPT !.sct = AddFilter(tune[t].sct, PmtPid[p], sct),
                                 !.pes = AddFilter(tune[t].pes, PmtPid[p], pes)]]
            /\ open' = open \cup RealFds({sct, pes})
            /\ polled' = Opened(polled, sct)
  /\ client' = [client EXCEPT ![cl].programs = @ \cup {p}]
  /\ UNCHANGED <<calls, checking, due, patRead, up>>

(* mydvb_stop_program: the streams of the program, then its map. *)
StopProgram(cl, p) ==
  /\ client[cl].phase = "holding"
  /\ p \in client[cl].programs
  /\ LET t   == client[cl].tuner
         pes == RemoveFilters(RemoveFilters(tune[t].pes, StreamPid[p]), PmtPid[p])
         sct == RemoveFilters(tune[t].sct, PmtPid[p])
     IN /\ tune' = [tune EXCEPT ![t] = [tune[t] EXCEPT !.pes = pes, !.sct = sct]]
        /\ open' = open \ ((FdsOf(tune[t].pes) \ FdsOf(pes))
                             \cup (FdsOf(tune[t].sct) \ FdsOf(sct)))
        /\ polled' = polled \ (FdsOf(tune[t].sct) \ FdsOf(sct))
  /\ client' = [client EXCEPT ![cl].programs = @ \ {p}, ![cl].streams = @ \ {p}]
  /\ UNCHANGED <<calls, checking, due, patRead, up>>

(* mydvb_start_stream, mydvb_stop_stream *)
StartStream(cl, p) ==
  /\ client[cl].phase = "holding"
  /\ p \in client[cl].programs \ client[cl].streams
  /\ LET t == client[cl].tuner IN
       \E f \in OpenResult(open) :
         /\ tune[t].mydvb
         /\ tune' = [tune EXCEPT ![t] =
              [tune[t] EXCEPT !.pes = AddFilter(tune[t].pes, StreamPid[p], f)]]
         /\ open' = Opened(open, f)
  /\ client' = [client EXCEPT ![cl].streams = @ \cup {p}]
  /\ UNCHANGED <<polled, calls, checking, due, patRead, up>>

StopStream(cl, p) ==
  /\ client[cl].phase = "holding"
  /\ p \in client[cl].streams
  /\ LET t   == client[cl].tuner
         pes == RemoveFilters(tune[t].pes, StreamPid[p])
     IN /\ tune' = [tune EXCEPT ![t] = [tune[t] EXCEPT !.pes = pes]]
        /\ open' = open \ (FdsOf(tune[t].pes) \ FdsOf(pes))
  /\ client' = [client EXCEPT ![cl].streams = @ \ {p}]
  /\ UNCHANGED <<polled, calls, checking, due, patRead, up>>

-----------------------------------------------------------------------------
(* The main loop.  It runs when no call of a client is in progress.        *)

InMainLoop == calls = <<>> /\ checking \notin Tuner

(* The first PAT of a decoder, which lists a NIT or not: __read_table adds *)
(* a filter for it.                                                        *)
ReadFirstPat(t) ==
  /\ InMainLoop
  /\ tune[t].mydvb
  /\ \E e \in tune[t].sct : e.pid = PAT_PID
  /\ DecoderOf(t) \notin patRead
  /\ patRead' = patRead \cup {DecoderOf(t)}
  /\ \E f \in OpenResult(open) \cup {NoFd} :
       /\ tune' = [tune EXCEPT ![t] =
            [tune[t] EXCEPT !.sct = AddFilter(tune[t].sct, NIT_PID, f)]]
       /\ open' = Opened(open, f)
       /\ polled' = Opened(polled, f)
  /\ UNCHANGED <<client, calls, checking, due, up>>

(* Events of the frontend device of a tuner. *)
FrontendEvent(t, status) ==
  /\ InMainLoop
  /\ tune[t].fd \in polled
  /\ tune[t].front # None
  /\ tune[t].status = "TRYING"
  /\ tune' = [tune EXCEPT ![t] = [tune[t] EXCEPT !.status = status, !.age = 0]]
  /\ UNCHANGED <<polled, open, client, calls, checking, due, patRead, up>>

FrontendLock(t)     == FrontendEvent(t, "LOCK")
FrontendTimedOut(t) == FrontendEvent(t, "FAILED")

(* Time, in whole seconds.  age is the time since start_ms; no clock is    *)
(* read between two polls, so time may as well pass in poll.               *)
Second ==
  /\ InMainLoop
  /\ tune' = [t \in Tuner |->
       IF tune[t].status = "TRYING" /\ tune[t].age < TuneSeconds
       THEN [tune[t] EXCEPT !.age = tune[t].age + 1] ELSE tune[t]]
  /\ due' = TRUE
  /\ UNCHANGED <<polled, open, client, calls, checking, patRead, up>>

PeriodicCheck_mutant ==  \* the list is entered at its second tuner
  /\ InMainLoop /\ due
  /\ checking' = 2 /\ due' = FALSE
  /\ UNCHANGED <<tune, polled, open, client, calls, patRead, up>>

(* The check that is made at most once a second starts at the first tuner. *)
PeriodicCheck ==
  /\ InMainLoop /\ due
  /\ checking' = 1 /\ due' = FALSE
  /\ UNCHANGED <<tune, polled, open, client, calls, patRead, up>>

(* One turn of the check.  The callbacks of a FAILED event run before the  *)
(* next tuner is looked at.                                                *)
CheckTuner ==
  /\ calls = <<>> /\ checking \in Tuner
  /\ tune' = IF tune[checking].status = "TRYING" /\ tune[checking].age >= TuneSeconds
             THEN [tune EXCEPT ![checking] =
                     [tune[checking] EXCEPT !.status = "FAILED", !.age = 0]]
             ELSE tune
  /\ checking' = checking + 1
  /\ UNCHANGED <<polled, open, client, calls, due, patRead, up>>

(* mydvb_engine_end, after the main loop: every tuner is closed. *)
EngineEnd ==
  /\ InMainLoop
  /\ tune' = [t \in Tuner |-> ClosedTune(tune[t])]
  /\ open' = open \ UNION {OwnedFdsOf(tune[t]) : t \in Tuner}
  /\ up' = FALSE
  /\ UNCHANGED <<polled, client, calls, checking, due, patRead>>

-----------------------------------------------------------------------------
Init ==
  /\ tune = [t \in Tuner |-> FreshTune]
  /\ polled = {} /\ open = {}
  /\ client = [cl \in Client |-> NoClient]
  /\ calls = <<>>
  /\ checking = NTuners + 1 /\ due = FALSE
  /\ patRead = {}
  /\ up = TRUE

ClientStep(cl) ==
  \/ \E c \in Channel : TunerChannelShare(cl, c) \/ TunerChannelOpen(cl, c)
  \/ TunerRelease(cl) \/ StartDecoder(cl) \/ StopDecoder(cl)
  \/ \E p \in Program : \/ StartProgram(cl, p) \/ StopProgram(cl, p)
                        \/ StartStream(cl, p) \/ StopStream(cl, p)

MainLoopStep ==
  \/ \E t \in Tuner : ReadFirstPat(t) \/ FrontendLock(t) \/ FrontendTimedOut(t)
  \/ Second \/ PeriodicCheck \/ CheckTuner

Next ==
  /\ up
  /\ (\E cl \in Client : ClientStep(cl)) \/ TunerChannelTune \/ MainLoopStep \/ EngineEnd

Spec == Init /\ [][Next]_vars

(* Clients run in callbacks, which return: whatever they do in between,    *)
(* the main loop gets on, hence strong fairness.  Clients and devices need *)
(* not do anything.                                                        *)
Fairness ==
  /\ WF_vars(up /\ TunerChannelTune)
  /\ SF_vars(up /\ Second)
  /\ SF_vars(up /\ PeriodicCheck)
  /\ SF_vars(up /\ CheckTuner)

FairSpec == Spec /\ Fairness

-----------------------------------------------------------------------------
(* Correctness                                                             *)

TypeOK ==
  /\ tune \in [Tuner -> TuneState]
  /\ polled \subseteq Fd
  /\ open \subseteq Fd
  /\ client \in [Client -> ClientState]
  /\ calls \in Seq(Client)
  /\ checking \in 1..NTuners + 1
  /\ due \in BOOLEAN
  /\ patRead \subseteq Decoder
  /\ up \in BOOLEAN

Users(t) == {cl \in Client : client[cl].tuner = t}

(* The reference counter of a tuner, "number of uses of this tuner", is    *)
(* the number of clients that hold it or are about to (mydvb_tuner_channel *)
(* against mydvb_tuner_release).                                           *)
ReferencesCountUsers ==
  \A t \in Tuner : tune[t].references = Cardinality(Users(t))

IsIdle(r) == r.status = "NOOP" /\ OwnedFdsOf(r) = {} /\ ~r.mydvb

(* A tuner that nobody uses is fit for the next user: it has no operation, *)
(* no descriptor, no filter and no decoder, whatever was going on when its *)
(* last user left.                                                         *)
IdleTunerOwnsNothing ==
  \A t \in Tuner : tune[t].references = 0 => IsIdle(tune[t])

(* The main loop never polls a descriptor that the library has closed; it  *)
(* could have become another file by then.                                 *)
PolledIsOpen == up => polled \subseteq open

(* No descriptor is in two places: of two tuners, or of two tables.        *)
OwnedOnce ==
  /\ \A t, u \in Tuner : t # u => OwnedFdsOf(tune[t]) \cap OwnedFdsOf(tune[u]) = {}
  /\ \A t \in Tuner :
       LET r == tune[t] IN
         /\ r.fd # NoFd => r.fd \notin DecoderFdsOf(r)
         /\ r.fd_dvr # NoFd => r.fd_dvr \notin FdsOf(r.sct) \cup FdsOf(r.pes)
         /\ FdsOf(r.sct) \cap FdsOf(r.pes) = {}
         /\ \A d, e \in r.sct : d.fd = e.fd => d = e
         /\ \A d, e \in r.pes : d.fd = e.fd => d = e

(* What the library has open is what its tuners list, so releasing the     *)
(* tuners, or ending the engine, closes everything.                        *)
NothingLeaks == open = UNION {OwnedFdsOf(tune[t]) : t \in Tuner}

(* The poll table has the frontends, the dvr devices and the section       *)
(* filters, no more and no less: every one is served and none forgotten.   *)
PollMatchesTuners == up => polled = UNION {PolledFdsOf(tune[t]) : t \in Tuner}

(* A client whose tuner is locked receives the channel it asked for, even  *)
(* when it was given a tuner that was locked already.                      *)
LockedOnChannelAskedFor ==
  \A cl \in Client :
    client[cl].phase = "holding" /\ tune[client[cl].tuner].status = "LOCK"
      => tune[client[cl].tuner].front = client[cl].channel

(* Decoding goes on only on a tuner that is locked ("the decoder object of *)
(* the tunning when it is locked").                                        *)
DecoderOnlyWhenLocked ==
  \A t \in Tuner : tune[t].mydvb => tune[t].status = "LOCK"

(* Programs and streams shared by clients: a filter of a program is there  *)
(* for a client that has started it, so none outlives its last client,     *)
(* although the removal loop steps over entries.                           *)
FiltersHaveStarters ==
  \A t \in Tuner, p \in Program :
    LET Starters == {cl \in Users(t) : p \in client[cl].programs}
        Viewers  == {cl \in Users(t) : p \in client[cl].streams}
        Filters(table, pid) == {e \in table : e.pid = pid}
    IN /\ Cardinality(Filters(tune[t].sct, PmtPid[p])) <= Cardinality(Starters)
       /\ Cardinality(Filters(tune[t].pes, PmtPid[p])) <= Cardinality(Starters)
       /\ Cardinality(Filters(tune[t].pes, StreamPid[p])) <= Cardinality(Viewers)

(* mydvb_tuner_channel only takes a tuner that is available in the words   *)
(* of mydvb_get_available_tuner, "(status = NOOP, references = 0)".        *)
TakesAvailableTuner ==
  [][\A cl \in Client : client[cl].phase = "none" /\ client'[cl].phase = "calling"
       => client'[cl].tuner \in Available(ChannelType[client'[cl].channel])]_vars

(* Parts of the inductive invariant of module Tuners_proofs. *)
CallsAreStacked ==
  /\ \A i \in 1..Len(calls) : client[calls[i]].phase = "calling"
  /\ \A i, j \in 1..Len(calls) : calls[i] = calls[j] => i = j

ClientsHaveTuners ==
  \A cl \in Client :
    /\ client[cl].phase # "none" <=> client[cl].tuner \in Tuner
    /\ client[cl].phase = "calling" => tune[client[cl].tuner].p \in Channel

TablesFinite ==
  \A t \in Tuner : IsFiniteSet(tune[t].sct) /\ IsFiniteSet(tune[t].pes)

(* A tuning never hangs: the tuner locks, fails or is given back.          *)
TryingEnds ==
  \A t \in Tuner : tune[t].status = "TRYING" /\ up ~> tune[t].status # "TRYING" \/ ~up
=============================================================================
