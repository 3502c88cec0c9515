------------------------------ MODULE Decoder ------------------------------
(***************************************************************************)
(* The decoders (MYDVB) and the tables of the streams they are fed with    *)
(* (src/mydvb.c, src/tables.c).                                            *)
(*                                                                         *)
(* A decoder belongs to a channel, not to a tuner: it is found again by    *)
(* type and channel number whenever a tuner starts to decode, it outlives  *)
(* the decoding, and two tuners on one channel feed the same one.  A       *)
(* section is on the air, then waits in the demux buffer of each filter    *)
(* that takes it, then is read by the main loop; one section per filter    *)
(* can wait.                                                               *)
(*                                                                         *)
(* The content of a table is what the library decides by: version, section *)
(* number, for the PAT the programs it lists and whether there is a NIT.   *)
(* An NIT, SDT or PMT is its version.  Of the 17 event tables (EIT) of a   *)
(* program, which are handled alike, there is one.                         *)
(***************************************************************************)
EXTENDS Integers, FiniteSets

CONSTANTS
  NTuners,      \* tuners, numbered
  Transponder,  \* transport streams on the air
  Channel,      \* pairs of type and channel number, as decoders have them
  ChannelOf,    \* the one a tuner locked on a transponder has
  Program,      \* service numbers
  Place,        \* pids a program's map can be on; 0 is none of them
  NPat,         \* sections of the PAT
  PatSectionOf, \* section of the PAT that lists a program
  NEit,         \* sections of an EIT (0: none is sent)
  MaxChanges,   \* bound: new versions of tables on the air
  MayRestart,   \* decoding may stop
  MayLose       \* a full demux buffer loses sections

Tuner    == 1..NTuners
None     == "none"
Versions == 32          \* version_number has 5 bits
Version  == 0..Versions - 1
Unread   == 255         \* 0xff, the version of a table not read yet
NoPlace  == 0
PatSection == 0..NPat - 1
EitSection == 0..NEit - 1

ASSUME DecoderAssumption ==
  /\ NTuners \in Nat
  /\ ChannelOf \in [Transponder -> Channel]
  /\ None \notin Transponder
  /\ NoPlace \notin Place
  /\ NPat \in Nat \ {0} /\ NEit \in Nat
  /\ PatSectionOf \in [Program -> PatSection]
  /\ MaxChanges \in Nat
  /\ MayRestart \in BOOLEAN /\ MayLose \in BOOLEAN

VARIABLES
  air,      \* the tables on the air, per transponder
  mydvb,    \* the decoders in engine->channels, one per channel
  tuner,    \* the tuners: decoder, filters
  waiting,  \* sections in the demux buffers of a tuner
  told,     \* history: READY events since decoding started, per tuner
  heard,    \* history: programs of which a tuner had a PROGRAM event
  changes   \* new versions so far

vars == <<air, mydvb, tuner, waiting, told, heard, changes>>

-----------------------------------------------------------------------------
(* Data                                                                    *)

Pat == [version : Version, place : [Program -> Place \cup {NoPlace}], nit : BOOLEAN]
Air == [pat : Pat, sdt : Version, nit : Version,
        pmt : [Program -> Version], eit : [Program -> Version],
        turn : [Program -> EitSection \cup {0}]]

(* MYDVB_EIT, "incomplete" counting the sightings of the first section     *)
(* that are still missing.  entries counts how often a section was added.  *)
Eit == [version : Version \cup {Unread}, initial : EitSection \cup {0},
        incomplete : 0..2, entries : [EitSection -> Nat]]
NoEit == [version |-> Unread, initial |-> 0, incomplete |-> 0,
          entries |-> [n \in EitSection |-> 0]]

(* MYDVB_PROGRAM, ready once its map was read *)
ProgramState == [place : Place \cup {NoPlace}, version : Version \cup {Unread}, eit : Eit]
NewProgram(place) == [place |-> place, version |-> Unread, eit |-> NoEit]

(* MYDVB; pat and sdt are NULL while Unread, pat->nit unless nitListed.    *)
(* ts_id tells where the PAT comes from.                                   *)
Mydvb == [pat : Version \cup {Unread}, ts_id : Transponder \cup {None},
          nit : Version \cup {Unread}, nitListed : BOOLEAN,
          programs : [Program -> ProgramState],
          sdt : Version \cup {Unread}, ready : BOOLEAN]
NewMydvb == [pat |-> Unread, ts_id |-> None, nit |-> Unread, nitListed |-> FALSE,
             programs |-> [p \in Program |-> NewProgram(NoPlace)],
             sdt |-> Unread, ready |-> FALSE]

(* What of a MYDVB_TUNE decoding needs: the transponder the device is on   *)
(* while there is a decoder, and the filters besides those for PAT, SDT    *)
(* and EIT.                                                                *)
TunerState == [front : Transponder \cup {None}, nit : BOOLEAN,
               maps : SUBSET (Program \X Place), started : SUBSET Program]
Idle == [front |-> None, nit |-> FALSE, maps |-> {}, started |-> {}]

Runs(t) == tuner[t].front # None

(* The decoder for a transponder, found by type and channel number *)
DecoderFor(x) == ChannelOf[x]

MydvbOf(t) == mydvb[DecoderFor(tuner[t].front)]

PatSections == [version : Version, ts_id : Transponder, n : PatSection,
                place : [Program -> Place \cup {NoPlace}], nit : BOOLEAN]
Buffers == [pat : SUBSET PatSections, sdt : SUBSET Version, nit : SUBSET Version,
            pmt : SUBSET (Program \X Place \X Version),
            eit : SUBSET (Program \X Version \X EitSection)]
NoSections == [pat |-> {}, sdt |-> {}, nit |-> {}, pmt |-> {}, eit |-> {}]

-----------------------------------------------------------------------------
(* Decoding a section (tables.c).  A table is replaced when its version is *)
(* another one, whatever the section number.                               *)

(* Definitions whose name ends in _mutant are plausible mistakes in the     *)
(* definition that follows, each caught by a property (PROJECT.json).      *)

PatRead_mutant(m, s) ==  \* the programs of the old PAT are not freed
  IF s.version = m.pat THEN m
  ELSE [m EXCEPT !.pat = s.version, !.ts_id = s.ts_id,
                 !.nit = Unread, !.nitListed = s.nit,
                 !.programs = [p \in Program |-> IF s.place[p] = NoPlace THEN @[p]
                                                 ELSE NewProgram(s.place[p])]]

(* mydvb_new_pat_if_changed: the programs and the NIT are new ones. *)
PatRead(m, s) ==
  IF s.version = m.pat THEN m
  ELSE [m EXCEPT !.pat = s.version, !.ts_id = s.ts_id,
                 !.nit = Unread, !.nitListed = s.nit,
                 !.programs = [p \in Program |-> NewProgram(s.place[p])]]

IsReady(program) == program.version # Unread

(* mydvb_new_sdt_if_changed, mydvb_edit_nit, mydvb_edit_program *)
SdtRead(m, v) == [m EXCEPT !.sdt = v]
NitRead(m, v) == IF m.nitListed THEN [m EXCEPT !.nit = v] ELSE m
Listed(m, p)  == m.pat # Unread /\ m.programs[p].place # NoPlace
PmtRead_mutant(m, p, v) ==  \* a map is read once
  IF Listed(m, p) /\ ~IsReady(m.programs[p])
  THEN [m EXCEPT !.programs[p].version = v] ELSE m
PmtRead(m, p, v) == IF Listed(m, p) THEN [m EXCEPT !.programs[p].version = v] ELSE m

(* mydvb_new_eit_if_changed: the first section of a version that is seen   *)
(* is the initial one; when it is seen again the table is complete.        *)
EitOfVersion_mutant(e, v, n) ==  \* the entries are not freed
  IF e.version = v THEN e
  ELSE [e EXCEPT !.version = v, !.initial = n, !.incomplete = 2]

EitOfVersion(e, v, n) ==
  IF e.version = v THEN e
  ELSE [version |-> v, initial |-> n, incomplete |-> 2, entries |-> NoEit.entries]

EitRead_mutant(e, v, n) ==  \* complete is complete, whatever the version
  LET f == EitOfVersion(e, v, n)
      left == IF n = f.initial THEN f.incomplete - 1 ELSE f.incomplete
  IN  IF e.version # Unread /\ e.incomplete = 0 THEN e
      ELSE IF left = 0 THEN [f EXCEPT !.incomplete = 0]
      ELSE [f EXCEPT !.incomplete = left, !.entries[n] = @ + 1]

EitRead(e, v, n) ==
  LET f == EitOfVersion(e, v, n)
      left == IF n = f.initial THEN f.incomplete - 1 ELSE f.incomplete
  IN  IF f.incomplete = 0 THEN e
      ELSE IF left = 0 THEN [f EXCEPT !.incomplete = 0]
      ELSE [f EXCEPT !.incomplete = left, !.entries[n] = @ + 1]

(* mydvb_ready *)
WithReady(m) == [m EXCEPT !.ready = m.ready \/ (m.pat # Unread /\ m.sdt # Unread)]

-----------------------------------------------------------------------------
(* Clients                                                                 *)

StartDecoder_mutant(t, x) ==  \* no READY of a decoder that is ready
  /\ ~Runs(t)
  /\ tuner' = [tuner EXCEPT ![t] = [Idle EXCEPT !.front = x]]
  /\ UNCHANGED <<air, mydvb, waiting, told, heard, changes>>

(* mydvb_start_decoder on a tuner that has locked on transponder x *)
StartDecoder(t, x) ==
  /\ ~Runs(t)
  /\ LET k == DecoderFor(x) IN
       /\ tuner' = [tuner EXCEPT ![t] = [Idle EXCEPT !.front = x]]
       /\ mydvb' = [mydvb EXCEPT ![k] = WithReady(mydvb[k])]
       /\ told' = [told EXCEPT ![t] = IF WithReady(mydvb[k]).ready THEN 1 ELSE 0]
  /\ UNCHANGED <<air, waiting, heard, changes>>

(* mydvb_stop_decoder; the sections that wait are lost with the filters *)
StopDecoder(t) ==
  /\ MayRestart
  /\ Runs(t)
  /\ tuner' = [tuner EXCEPT ![t] = Idle]
  /\ waiting' = [waiting EXCEPT ![t] = NoSections]
  /\ told' = [told EXCEPT ![t] = 0]
  /\ heard' = [heard EXCEPT ![t] = {}]
  /\ UNCHANGED <<air, mydvb, changes>>

StartProgram_mutant(t, p) ==  \* no PROGRAM of a program that is ready
  /\ Runs(t)
  /\ Listed(MydvbOf(t), p)
  /\ p \notin tuner[t].started
  /\ tuner' = [tuner EXCEPT ![t].started = @ \cup {p},
                            ![t].maps = @ \cup {<<p, MydvbOf(t).programs[p].place>>}]
  /\ UNCHANGED <<air, mydvb, waiting, told, heard, changes>>

(* mydvb_start_program, of a program of the PAT that was not started *)
StartProgram(t, p) ==
  /\ Runs(t)
  /\ Listed(MydvbOf(t), p)
  /\ p \notin tuner[t].started
  /\ tuner' = [tuner EXCEPT ![t].started = @ \cup {p},
                            ![t].maps = @ \cup {<<p, MydvbOf(t).programs[p].place>>}]
  /\ heard' = IF IsReady(MydvbOf(t).programs[p])
              THEN [heard EXCEPT ![t] = @ \cup {p}] ELSE heard
  /\ UNCHANGED <<air, mydvb, waiting, told, changes>>

(* mydvb_stop_program: the filters on the pid the program has now go,      *)
(* those of other programs too; one that moves up in the array is stepped  *)
(* over and stays (Dropped in module Tuners).                              *)
StopProgram(t, p) ==
  /\ Runs(t)
  /\ Listed(MydvbOf(t), p)
  /\ p \in tuner[t].started
  /\ LET place == MydvbOf(t).programs[p].place
         there == {w \in tuner[t].maps : w[2] = place}
     IN \E kept \in SUBSET there :
          /\ 2 * Cardinality(kept) <= Cardinality(there)
          /\ tuner' = [tuner EXCEPT ![t].started = @ \ {p},
                                    ![t].maps = (@ \ there) \cup kept]
          /\ waiting' = IF kept # {} THEN waiting
                        ELSE [waiting EXCEPT ![t].pmt = {w \in @ : w[2] # place}]
  /\ heard' = [heard EXCEPT ![t] = @ \ {p}]
  /\ UNCHANGED <<air, mydvb, told, changes>>

-----------------------------------------------------------------------------
(* The main loop reads a section: __read_table                             *)

NotifyReady_mutant(t, m) ==  \* not looking at ready first
  /\ mydvb' = [mydvb EXCEPT ![DecoderFor(tuner[t].front)] = WithReady(m)]
  /\ told' = IF WithReady(m).ready THEN [told EXCEPT ![t] = @ + 1] ELSE told

(* The part that the PAT and the SDT have in common: READY, unless it has  *)
(* been notified for the decoder.                                          *)
NotifyReady(t, m) ==
  LET k == DecoderFor(tuner[t].front) IN
  /\ mydvb' = [mydvb EXCEPT ![k] = WithReady(m)]
  /\ told' = IF ~m.ready /\ WithReady(m).ready
             THEN [told EXCEPT ![t] = @ + 1] ELSE told

(* The first PAT of a decoder adds the filter of the NIT and may make the  *)
(* decoder ready.  Later ones are replaced in place and do neither.        *)
ReadPat(t) == \E s \in waiting[t].pat :
  /\ waiting' = [waiting EXCEPT ![t].pat = {}]
  /\ LET k == DecoderFor(tuner[t].front)
         m == mydvb[k]
     IN /\ IF m.pat = Unread
           THEN /\ NotifyReady(t, PatRead(m, s))
                /\ tuner' = [tuner EXCEPT ![t].nit = @ \/ s.nit]
           ELSE /\ mydvb' = [mydvb EXCEPT ![k] = PatRead(m, s)]
                /\ UNCHANGED <<tuner, told>>
        /\ heard' = IF s.version = m.pat THEN heard
                    ELSE [u \in Tuner |-> IF Runs(u) /\ DecoderFor(tuner[u].front) = k
                                          THEN {} ELSE heard[u]]
  /\ UNCHANGED <<air, changes>>

ReadSdt(t) == \E v \in waiting[t].sdt :
  /\ waiting' = [waiting EXCEPT ![t].sdt = {}]
  /\ NotifyReady(t, SdtRead(MydvbOf(t), v))
  /\ UNCHANGED <<air, tuner, heard, changes>>

ReadNit(t) == \E v \in waiting[t].nit :
  /\ waiting' = [waiting EXCEPT ![t].nit = {}]
  /\ mydvb' = [mydvb EXCEPT ![DecoderFor(tuner[t].front)] = NitRead(MydvbOf(t), v)]
  /\ UNCHANGED <<air, tuner, told, heard, changes>>

(* PROGRAM is notified when the map is another one. *)
ReadPmt(t) == \E w \in waiting[t].pmt :
  LET p == w[1]  v == w[3]  m == MydvbOf(t) IN
  /\ waiting' = [waiting EXCEPT ![t].pmt = @ \ {w}]
  /\ mydvb' = [mydvb EXCEPT ![DecoderFor(tuner[t].front)] = PmtRead(m, p, v)]
  /\ heard' = IF Listed(m, p) /\ m.programs[p].version # v
              THEN [heard EXCEPT ![t] = @ \cup {p}] ELSE heard
  /\ UNCHANGED <<air, tuner, told, changes>>

ReadEit(t) == \E w \in waiting[t].eit :
  LET p == w[1]  v == w[2]  n == w[3]  m == MydvbOf(t) IN
  /\ waiting' = [waiting EXCEPT ![t].eit = {}]
  /\ mydvb' = IF Listed(m, p)
              THEN [mydvb EXCEPT ![DecoderFor(tuner[t].front)].programs[p].eit = EitRead(@, v, n)]
              ELSE mydvb
  /\ UNCHANGED <<air, tuner, told, heard, changes>>

-----------------------------------------------------------------------------
(* The air                                                                 *)

Receivers(x) == {t \in Tuner : tuner[t].front = x}

(* A section reaches the tuners that filter it and have room for it.       *)
(* Without loss nothing is sent to a full buffer: the loop is fast enough. *)
Send(takers, full, holding) ==
  /\ MayLose \/ takers \cap full = {}
  /\ waiting' = [t \in Tuner |-> IF t \in takers \ full THEN holding[t] ELSE waiting[t]]

PatOnAir(x, n) ==
  LET a == air[x].pat IN
  [version |-> a.version, ts_id |-> x, n |-> n, nit |-> a.nit /\ n = 0,
   place |-> [p \in Program |-> IF PatSectionOf[p] = n THEN a.place[p] ELSE NoPlace]]

SendPat(x, n) ==
  /\ Receivers(x) # {}
  /\ Send(Receivers(x), {t \in Tuner : waiting[t].pat # {}},
          [t \in Tuner |-> [waiting[t] EXCEPT !.pat = {PatOnAir(x, n)}]])
  /\ UNCHANGED <<air, mydvb, tuner, told, heard, changes>>

SendSdt(x) ==
  /\ Receivers(x) # {}
  /\ Send(Receivers(x), {t \in Tuner : waiting[t].sdt # {}},
          [t \in Tuner |-> [waiting[t] EXCEPT !.sdt = {air[x].sdt}]])
  /\ UNCHANGED <<air, mydvb, tuner, told, heard, changes>>

SendNit(x) ==
  LET takers == {t \in Receivers(x) : tuner[t].nit} IN
  /\ takers # {}
  /\ Send(takers, {t \in Tuner : waiting[t].nit # {}},
          [t \in Tuner |-> [waiting[t] EXCEPT !.nit = {air[x].nit}]])
  /\ UNCHANGED <<air, mydvb, tuner, told, heard, changes>>

SendPmt(x, p) ==
  LET place  == air[x].pat.place[p]
      takers == {t \in Receivers(x) : \E q \in Program : <<q, place>> \in tuner[t].maps}
  IN /\ takers # {}
     /\ Send(takers, {t \in Tuner : \E w \in waiting[t].pmt : w[1] = p /\ w[2] = place},
             [t \in Tuner |-> [waiting[t] EXCEPT !.pmt = @ \cup {<<p, place, air[x].pmt[p]>>}]])
     /\ UNCHANGED <<air, mydvb, tuner, told, heard, changes>>

(* The sections of an EIT are sent round and round, heard or not. *)
SendEit(x, p) ==
  LET n == air[x].turn[p] IN
  /\ NEit > 0
  /\ Send(Receivers(x), {t \in Tuner : waiting[t].eit # {}},
          [t \in Tuner |-> [waiting[t] EXCEPT !.eit = {<<p, air[x].eit[p], n>>}]])
  /\ air' = [air EXCEPT ![x].turn[p] = (n + 1) % NEit]
  /\ UNCHANGED <<mydvb, tuner, told, heard, changes>>

(* A table changes: its version is incremented. *)
Next32(v) == (v + 1) % Versions

Change(x) ==
  /\ changes < MaxChanges
  /\ changes' = changes + 1
  /\ \/ \E place \in [Program -> Place \cup {NoPlace}], nit \in BOOLEAN :
          air' = [air EXCEPT ![x].pat = [version |-> Next32(@.version),
                                         place |-> place, nit |-> nit]]
     \/ air' = [air EXCEPT ![x].sdt = Next32(@)]
     \/ air' = [air EXCEPT ![x].nit = Next32(@)]
     \/ \E p \in Program : air' = [air EXCEPT ![x].pmt[p] = Next32(@)]
     \/ \E p \in Program : NEit > 0 /\ air' = [air EXCEPT ![x].eit[p] = Next32(@)]
  /\ UNCHANGED <<mydvb, tuner, waiting, told, heard>>

-----------------------------------------------------------------------------
(* Versions are about to wrap; any programs may be on the air. *)
FirstVersion == Versions - 1

Init ==
  /\ air \in [Transponder ->
       [pat : {[version |-> FirstVersion, place |-> place, nit |-> nit] :
                 place \in [Program -> Place \cup {NoPlace}], nit \in BOOLEAN},
        sdt : {FirstVersion}, nit : {FirstVersion},
        pmt : {[p \in Program |-> FirstVersion]},
        eit : {[p \in Program |-> FirstVersion]},
        turn : {[p \in Program |-> 0]}]]
  /\ mydvb = [k \in Channel |-> NewMydvb]
  /\ tuner = [t \in Tuner |-> Idle]
  /\ waiting = [t \in Tuner |-> NoSections]
  /\ told = [t \in Tuner |-> 0]
  /\ heard = [t \in Tuner |-> {}]
  /\ changes = 0

ClientStep(t) ==
  \/ \E x \in Transponder : StartDecoder(t, x)
  \/ StopDecoder(t)
  \/ \E p \in Program : StartProgram(t, p) \/ StopProgram(t, p)

ReadTable(t) == ReadPat(t) \/ ReadSdt(t) \/ ReadNit(t) \/ ReadPmt(t) \/ ReadEit(t)

OnAir(x) ==
  \/ \E n \in PatSection : SendPat(x, n)
  \/ SendSdt(x) \/ SendNit(x)
  \/ \E p \in Program : SendPmt(x, p) \/ SendEit(x, p)
  \/ Change(x)

Next == \/ \E t \in Tuner : ClientStep(t) \/ ReadTable(t)
        \/ \E x \in Transponder : OnAir(x)

Spec == Init /\ [][Next]_vars

(* The main loop reads every descriptor that has data, and a stream        *)
(* repeats its tables.                                                     *)
Fairness ==
  /\ \A t \in Tuner : /\ WF_vars(ReadPat(t)) /\ WF_vars(ReadSdt(t)) /\ WF_vars(ReadNit(t))
                      /\ WF_vars(ReadPmt(t)) /\ WF_vars(ReadEit(t))
  /\ \A x \in Transponder :
       /\ WF_vars(\E n \in PatSection : SendPat(x, n))
       /\ WF_vars(SendSdt(x)) /\ WF_vars(SendNit(x))
       /\ \A p \in Program : WF_vars(SendPmt(x, p)) /\ WF_vars(SendEit(x, p))

FairSpec == Spec /\ Fairness

-----------------------------------------------------------------------------
(* Correctness                                                             *)

TypeOK ==
  /\ air \in [Transponder -> Air]
  /\ mydvb \in [Channel -> Mydvb]
  /\ tuner \in [Tuner -> TunerState]
  /\ waiting \in [Tuner -> Buffers]
  /\ told \in [Tuner -> Nat]
  /\ heard \in [Tuner -> SUBSET Program]
  /\ changes \in 0..MaxChanges

(* A tuner is told at most once that its decoder is ready, whichever of    *)
(* PAT, SDT and mydvb_start_decoder makes it so, and only when it is.      *)
ReadyOnce ==
  \A t \in Tuner :
    /\ told[t] <= 1
    /\ told[t] = 1 => Runs(t) /\ MydvbOf(t).pat # Unread /\ MydvbOf(t).sdt # Unread

(* A client that waits for READY hears it, also when the decoder was ready *)
(* before decoding started.  True of a decoder that one tuner feeds; of    *)
(* two, only the one that reads the last table is told.                    *)
ReadyHeard == \A t \in Tuner : Runs(t) /\ MydvbOf(t).ready => told[t] = 1

(* Likewise of the PROGRAM event of a program that was started, after a    *)
(* new PAT has replaced the program, too.                                  *)
ProgramHeard ==
  \A t \in Tuner : \A p \in tuner[t].started :
    Listed(MydvbOf(t), p) /\ IsReady(MydvbOf(t).programs[p]) => p \in heard[t]

(* "All basic elements (pat, sdt and programs) are ready": a ready decoder *)
(* whose PAT has the version on the air has the programs on the air.       *)
PatIsWhole ==
  \A x \in Transponder :
    LET m == mydvb[DecoderFor(x)] IN
    m.ready /\ m.ts_id = x /\ m.pat = air[x].pat.version
      => \A p \in Program : m.programs[p].place = air[x].pat.place[p]

(* An event table that is not incomplete has every section, and has it     *)
(* once.                                                                   *)
EitIsWhole ==
  \A k \in Channel, p \in Program :
    LET e == mydvb[k].programs[p].eit IN
    e.version # Unread /\ e.incomplete = 0
      => \A n \in EitSection : e.entries[n] = 1

UpToDate(t) ==
  LET m == MydvbOf(t)  a == air[tuner[t].front] IN
  /\ m.ready
  /\ m.pat = a.pat.version /\ m.sdt = a.sdt
  /\ tuner[t].nit /\ a.pat.nit => m.nit = a.nit
  /\ \A p \in tuner[t].started :
       <<p, a.pat.place[p]>> \in tuner[t].maps => m.programs[p].version = a.pmt[p]

(* A decoder becomes ready and follows the tables on the air: whatever     *)
(* changed, the tables and the maps of the started programs are those of   *)
(* the air again some time later.                                          *)
FollowsAir == \A t \in Tuner : []<>(Runs(t) => UpToDate(t))

(* The event table of a listed program is complete some time later, and is *)
(* of the version on the air.                                              *)
EitFollowsAir ==
  \A t \in Tuner, p \in Program :
    []<>(Runs(t) /\ Listed(MydvbOf(t), p)
           => LET e == MydvbOf(t).programs[p].eit IN
              e.incomplete = 0 /\ e.version = air[tuner[t].front].eit[p])

(* Parts of the inductive invariant of module Decoder_proofs. *)
ReadyHasTables ==
  \A k \in Channel : mydvb[k].ready => mydvb[k].pat # Unread /\ mydvb[k].sdt # Unread

ToldIsReady ==
  \A t \in Tuner : /\ told[t] \in {0, 1}
                   /\ told[t] = 1 => Runs(t) /\ MydvbOf(t).ready

OnlyRunningWait == \A t \in Tuner : ~Runs(t) => waiting[t] = NoSections
=============================================================================
