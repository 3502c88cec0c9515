--------------------------- MODULE Decoder_proofs ---------------------------
(* Theorems about Decoder, for any tuners, transponders, programs, numbers *)
(* of sections and changes on the air, with loss and restarts unless the   *)
(* theorem says otherwise.                                                 *)
EXTENDS Decoder, TLAPS

USE DecoderAssumption

-----------------------------------------------------------------------------
(* What decoding a section yields is again a decoder.                      *)

(* A program that a PAT lists is a program (tables.c, mydvb_new_pat_if_changed). *)
LEMMA NewProgramType ==
  ASSUME NEW place \in Place \cup {NoPlace}
  PROVE  NewProgram(place) \in ProgramState
<1>1. NoEit \in Eit
  BY DEF NoEit, Eit
<1>2. QED
  BY <1>1 DEF NewProgram, ProgramState

(* A decoder starts as one (mydvb_new). *)
LEMMA NewMydvbType == NewMydvb \in Mydvb
<1>1. NewProgram(NoPlace) \in ProgramState
  BY NewProgramType
<1>2. QED
  BY <1>1 DEF NewMydvb, Mydvb

(* mydvb_new_pat_if_changed; the decoder has a PAT afterwards and everything *)
(* that is not of the PAT is as before.                                    *)
LEMMA PatReadType ==
  ASSUME NEW m \in Mydvb, NEW s \in PatSections
  PROVE  /\ PatRead(m, s) \in Mydvb
         /\ PatRead(m, s).pat # Unread
         /\ PatRead(m, s).sdt = m.sdt
         /\ PatRead(m, s).ready = m.ready
<1>1. s.version \in Version /\ s.version # Unread /\ s.ts_id \in Transponder /\ s.nit \in BOOLEAN
  BY DEF PatSections, Version, Versions, Unread
<1>2. \A p \in Program : NewProgram(s.place[p]) \in ProgramState
  BY NewProgramType DEF PatSections
<1>3. CASE s.version = m.pat
  BY <1>1, <1>3 DEF PatRead
<1>4. CASE s.version # m.pat
  <2> DEFINE programs == [p \in Program |-> NewProgram(s.place[p])]
  <2>1. programs \in [Program -> ProgramState]
    BY <1>2
  <2>2. PatRead(m, s) = [m EXCEPT !.pat = s.version, !.ts_id = s.ts_id,
                           !.nit = Unread, !.nitListed = s.nit, !.programs = programs]
    BY <1>4 DEF PatRead
  <2> HIDE DEF programs
  <2>3. QED
    BY <1>1, <2>1, <2>2 DEF Mydvb
<1>5. QED
  BY <1>3, <1>4

(* mydvb_new_sdt_if_changed, likewise. *)
LEMMA SdtReadType ==
  ASSUME NEW m \in Mydvb, NEW v \in Version
  PROVE  /\ SdtRead(m, v) \in Mydvb
         /\ SdtRead(m, v).sdt # Unread
         /\ SdtRead(m, v).pat = m.pat
         /\ SdtRead(m, v).ready = m.ready
BY DEF SdtRead, Mydvb, Version, Versions, Unread

(* mydvb_edit_nit and mydvb_edit_program leave PAT, SDT and ready alone. *)
LEMMA NitReadType ==
  ASSUME NEW m \in Mydvb, NEW v \in Version
  PROVE  /\ NitRead(m, v) \in Mydvb
         /\ NitRead(m, v).pat = m.pat
         /\ NitRead(m, v).sdt = m.sdt
         /\ NitRead(m, v).ready = m.ready
BY DEF NitRead, Mydvb

(* mydvb_edit_program, likewise. *)
LEMMA PmtReadType ==
  ASSUME NEW m \in Mydvb, NEW p \in Program, NEW v \in Version
  PROVE  /\ PmtRead(m, p, v) \in Mydvb
         /\ PmtRead(m, p, v).pat = m.pat
         /\ PmtRead(m, p, v).sdt = m.sdt
         /\ PmtRead(m, p, v).ready = m.ready
<1>1. m.programs \in [Program -> ProgramState]
  BY DEF Mydvb
<1> DEFINE q == [m.programs[p] EXCEPT !.version = v]
           n == [m EXCEPT !.programs = [m.programs EXCEPT ![p] = q]]
<1>2. q \in ProgramState
  BY <1>1 DEF ProgramState
<1>3. [m.programs EXCEPT ![p] = q] \in [Program -> ProgramState]
  BY <1>1, <1>2
<1>4. n \in Mydvb /\ n.pat = m.pat /\ n.sdt = m.sdt /\ n.ready = m.ready
  BY <1>3 DEF Mydvb
<1>5. PmtRead(m, p, v) = n \/ PmtRead(m, p, v) = m
  BY DEF PmtRead
<1>6. QED
  BY <1>4, <1>5

(* mydvb_new_eit_if_changed keeps "incomplete" between 0 and 2. *)
LEMMA EitReadType ==
  ASSUME NEW e \in Eit, NEW v \in Version, NEW n \in EitSection
  PROVE  EitRead(e, v, n) \in Eit
<1> DEFINE f == EitOfVersion(e, v, n)
           left == IF n = f.initial THEN f.incomplete - 1 ELSE f.incomplete
<1>1. f \in Eit
  <2>1. NoEit.entries \in [EitSection -> Nat]
    BY DEF NoEit
  <2>2. [version |-> v, initial |-> n, incomplete |-> 2, entries |-> NoEit.entries] \in Eit
    BY <2>1 DEF Eit
  <2>3. QED
    BY <2>2 DEF EitOfVersion
<1>2. EitRead(e, v, n) = IF f.incomplete = 0 THEN e
                         ELSE IF left = 0 THEN [f EXCEPT !.incomplete = 0]
                         ELSE [f EXCEPT !.incomplete = left, !.entries[n] = @ + 1]
  BY DEF EitRead
<1> HIDE DEF f
<1>3. f.incomplete # 0 => left \in 0..2
  BY <1>1 DEF Eit
<1>4. f.entries \in [EitSection -> Nat] /\ [f.entries EXCEPT ![n] = @ + 1] \in [EitSection -> Nat]
  BY <1>1 DEF Eit
<1> HIDE DEF left
<1>5. QED
  BY <1>1, <1>2, <1>3, <1>4 DEF Eit

(* mydvb_ready: a decoder that is ready has both tables, if that was so. *)
LEMMA WithReadyType ==
  ASSUME NEW m \in Mydvb
  PROVE  /\ WithReady(m) \in Mydvb
         /\ WithReady(m).pat = m.pat
         /\ WithReady(m).sdt = m.sdt
         /\ WithReady(m).ready = (m.ready \/ (m.pat # Unread /\ m.sdt # Unread))
BY DEF WithReady, Mydvb

-----------------------------------------------------------------------------
(* The inductive invariant, and what most steps do to it.                  *)

ReadyInv == TypeOK /\ ReadyHasTables /\ ToldIsReady /\ OnlyRunningWait

(* A tuner that decodes has a decoder (mydvb_start_decoder). *)
LEMMA RunningHasDecoder ==
  ASSUME TypeOK, NEW t \in Tuner, Runs(t)
  PROVE  /\ tuner[t].front \in Transponder
         /\ DecoderFor(tuner[t].front) \in Channel
         /\ MydvbOf(t) \in Mydvb
<1>1. tuner[t].front \in Transponder
  BY DEF TypeOK, TunerState, Runs
<1>2. DecoderFor(tuner[t].front) \in Channel
  BY <1>1 DEF DecoderFor
<1>3. QED
  BY <1>1, <1>2 DEF TypeOK, MydvbOf

(* An idle tuner and an empty buffer are well typed. *)
LEMMA IdleType == Idle \in TunerState /\ NoSections \in Buffers
BY DEF Idle, TunerState, NoSections, Buffers

(* A decoder changes and stays ready if it was; nobody is told. *)
LEMMA DecoderChanged ==
  ASSUME ReadyInv,
         NEW k \in Channel, NEW m \in Mydvb,
         mydvb' = [mydvb EXCEPT ![k] = m],
         mydvb[k].ready => m.ready,
         m.ready => m.pat # Unread /\ m.sdt # Unread,
         told' = told,
         \A u \in Tuner : tuner'[u].front = tuner[u].front
  PROVE  mydvb' \in [Channel -> Mydvb] /\ ReadyHasTables' /\ ToldIsReady'
<1> USE DEF ReadyInv
<1>1. mydvb' \in [Channel -> Mydvb]
  BY DEF TypeOK
<1>2. ReadyHasTables'
  BY DEF ReadyHasTables, TypeOK
<1>3. ToldIsReady'
  <2> SUFFICES ASSUME NEW u \in Tuner
               PROVE  told'[u] \in {0, 1} /\ (told'[u] = 1 => Runs(u)' /\ MydvbOf(u)'.ready)
    BY DEF ToldIsReady
  <2>1. told'[u] \in {0, 1} /\ (told'[u] = 1 => Runs(u) /\ MydvbOf(u).ready)
    BY DEF ToldIsReady
  <2>2. Runs(u)' <=> Runs(u)
    BY DEF Runs
  <2>3. ASSUME Runs(u), MydvbOf(u).ready PROVE MydvbOf(u)'.ready
    <3>1. DecoderFor(tuner[u].front) \in Channel
      BY <2>3, RunningHasDecoder
    <3>2. MydvbOf(u)' = mydvb'[DecoderFor(tuner[u].front)]
      BY DEF MydvbOf, DecoderFor
    <3>3. mydvb'[DecoderFor(tuner[u].front)] \in {mydvb[DecoderFor(tuner[u].front)], m}
      BY <3>1 DEF TypeOK
    <3>4. QED
      BY <2>3, <3>1, <3>2, <3>3 DEF MydvbOf, TypeOK
  <2>4. QED
    BY <2>1, <2>2, <2>3
<1>4. QED
  BY <1>1, <1>2, <1>3

(* NotifyReady tells a tuner that was not told before, as it is told only  *)
(* if the decoder was not ready (mydvb.c, line 1102 and 1185).             *)
LEMMA NotifyReadyKeeps ==
  ASSUME ReadyInv,
         NEW t \in Tuner, Runs(t), NEW m \in Mydvb,
         m.ready = MydvbOf(t).ready,
         m.ready => m.pat # Unread /\ m.sdt # Unread,
         NotifyReady(t, m),
         \A u \in Tuner : tuner'[u].front = tuner[u].front
  PROVE  /\ mydvb' \in [Channel -> Mydvb] /\ told' \in [Tuner -> Nat]
         /\ ReadyHasTables' /\ ToldIsReady'
<1> DEFINE k == DecoderFor(tuner[t].front)
           n == WithReady(m)
<1>1. k \in Channel /\ MydvbOf(t) = mydvb[k]
  BY RunningHasDecoder DEF ReadyInv, MydvbOf
<1>2. n \in Mydvb /\ n.ready = (m.ready \/ (n.pat # Unread /\ n.sdt # Unread))
      /\ n.pat = m.pat /\ n.sdt = m.sdt
  BY WithReadyType
<1>3. mydvb' = [mydvb EXCEPT ![k] = n]
  BY DEF NotifyReady
<1>4. told' = IF ~m.ready /\ n.ready THEN [told EXCEPT ![t] = told[t] + 1] ELSE told
  BY DEF NotifyReady
<1> HIDE DEF n
<1>5. m.ready \in BOOLEAN /\ n.ready \in BOOLEAN
  BY <1>2 DEF Mydvb
<1>6. mydvb[k].ready => n.ready
  BY <1>1, <1>2, <1>5
<1>7. n.ready => n.pat # Unread /\ n.sdt # Unread
  BY <1>2, <1>5
<1>8. CASE told' = told
  <2>1. told' \in [Tuner -> Nat]
    BY <1>8 DEF ReadyInv, TypeOK
  <2> HIDE DEF k
  <2>2. QED
    BY <1>1, <1>2, <1>3, <1>6, <1>7, <1>8, <2>1, DecoderChanged
<1>9. CASE told' # told
  <2>1. ~m.ready /\ n.ready /\ told' = [told EXCEPT ![t] = told[t] + 1]
    BY <1>4, <1>9
  <2>2. told[t] = 0
    BY <1>1, <2>1 DEF ReadyInv, ToldIsReady
  <2>3. told' = [told EXCEPT ![t] = 1]
    BY <2>1, <2>2
  <2>4. told' \in [Tuner -> Nat] /\ mydvb' \in [Channel -> Mydvb]
    BY <1>2, <1>3, <2>3 DEF ReadyInv, TypeOK
  <2>5. ReadyHasTables'
    BY <1>1, <1>3, <1>7 DEF ReadyInv, ReadyHasTables, TypeOK
  <2>6. ToldIsReady'
    <3> SUFFICES ASSUME NEW u \in Tuner
                 PROVE  told'[u] \in {0, 1} /\ (told'[u] = 1 => Runs(u)' /\ MydvbOf(u)'.ready)
      BY DEF ToldIsReady
    <3>1. told'[u] = IF u = t THEN 1 ELSE told[u]
      BY <2>3 DEF ReadyInv, TypeOK
    <3>2. told[u] \in {0, 1} /\ (told[u] = 1 => Runs(u) /\ MydvbOf(u).ready)
      BY DEF ReadyInv, ToldIsReady
    <3>3. Runs(u)' <=> Runs(u)
      BY DEF Runs
    <3>4. MydvbOf(u)' = mydvb'[DecoderFor(tuner[u].front)]
      BY DEF MydvbOf, DecoderFor
    <3>5. MydvbOf(t)'.ready
      <4>1. mydvb'[k] = n
        BY <1>1, <1>3 DEF ReadyInv, TypeOK
      <4>2. MydvbOf(t)' = mydvb'[k]
        BY DEF MydvbOf, DecoderFor
      <4>3. QED
        BY <2>1, <4>1, <4>2
    <3>6. ASSUME u # t, Runs(u), MydvbOf(u).ready PROVE MydvbOf(u)'.ready
      <4>1. DecoderFor(tuner[u].front) \in Channel
        BY <3>6, RunningHasDecoder DEF ReadyInv
      <4>2. mydvb'[DecoderFor(tuner[u].front)]
              = IF DecoderFor(tuner[u].front) = k THEN n ELSE MydvbOf(u)
        BY <1>3, <4>1 DEF ReadyInv, TypeOK, MydvbOf
      <4>3. QED
        BY <2>1, <3>4, <3>6, <4>2
    <3>7. CASE u = t
      BY <3>1, <3>3, <3>5, <3>7
    <3>8. CASE u # t
      BY <3>1, <3>2, <3>3, <3>6, <3>8
    <3>9. QED
      BY <3>7, <3>8
  <2>7. QED
    BY <2>4, <2>5, <2>6
<1>10. QED
  BY <1>8, <1>9

(* What is sent reaches tuners that decode, and has the right type. *)
LEMMA SendKeeps ==
  ASSUME ReadyInv,
         NEW takers \in SUBSET Tuner, NEW full, NEW holding \in [Tuner -> Buffers],
         \A t \in takers : Runs(t),
         Send(takers, full, holding),
         tuner' = tuner
  PROVE  waiting' \in [Tuner -> Buffers] /\ OnlyRunningWait'
<1>1. waiting' = [t \in Tuner |-> IF t \in takers \ full THEN holding[t] ELSE waiting[t]]
  BY DEF Send
<1>2. waiting' \in [Tuner -> Buffers]
  BY <1>1 DEF ReadyInv, TypeOK
<1>3. OnlyRunningWait'
  BY <1>1 DEF ReadyInv, OnlyRunningWait, Runs
<1>4. QED
  BY <1>2, <1>3

(* Reading a section empties a buffer of the tuner that reads it. *)
LEMMA WaitingShrinks ==
  ASSUME ReadyInv, NEW t \in Tuner, Runs(t), NEW w \in Buffers,
         waiting' = [waiting EXCEPT ![t] = w],
         \A u \in Tuner : tuner'[u].front = tuner[u].front
  PROVE  waiting' \in [Tuner -> Buffers] /\ OnlyRunningWait'
BY DEF ReadyInv, TypeOK, OnlyRunningWait, Runs

-----------------------------------------------------------------------------
(* Nothing has been decoded at the start. *)
LEMMA ReadyInvInit == Init => ReadyInv
<1> SUFFICES ASSUME Init PROVE ReadyInv
  OBVIOUS
<1> USE DEF Init
<1>1. air \in [Transponder -> Air]
  BY DEF Air, Pat, Version, Versions, FirstVersion
<1>2. mydvb \in [Channel -> Mydvb] /\ tuner \in [Tuner -> TunerState]
      /\ waiting \in [Tuner -> Buffers]
  BY NewMydvbType, IdleType
<1>3. TypeOK
  BY <1>1, <1>2 DEF TypeOK
<1>4. ReadyHasTables
  BY DEF ReadyHasTables, NewMydvb
<1>5. ToldIsReady /\ OnlyRunningWait
  BY DEF ToldIsReady, OnlyRunningWait
<1>6. QED
  BY <1>3, <1>4, <1>5 DEF ReadyInv

(* mydvb_start_decoder: READY is told of a decoder that has both tables.   *)
LEMMA StartDecoderKeeps ==
  ASSUME ReadyInv, NEW t \in Tuner, NEW x \in Transponder, StartDecoder(t, x)
  PROVE  ReadyInv'
<1> DEFINE k == DecoderFor(x)
           n == WithReady(mydvb[k])
<1>1. k \in Channel /\ mydvb[k] \in Mydvb
  BY DEF DecoderFor, ReadyInv, TypeOK
<1>2. /\ n \in Mydvb /\ n.pat = mydvb[k].pat /\ n.sdt = mydvb[k].sdt
      /\ n.ready = (mydvb[k].ready \/ (mydvb[k].pat # Unread /\ mydvb[k].sdt # Unread))
  BY <1>1, WithReadyType
<1>3. mydvb' = [mydvb EXCEPT ![k] = n]
  BY DEF StartDecoder
<1>4. told' = [told EXCEPT ![t] = IF n.ready THEN 1 ELSE 0]
  BY DEF StartDecoder
<1>5. ~Runs(t) /\ tuner' = [tuner EXCEPT ![t] = [Idle EXCEPT !.front = x]]
      /\ UNCHANGED <<air, waiting, heard, changes>>
  BY DEF StartDecoder
<1> HIDE DEF n
<1>6. [Idle EXCEPT !.front = x] \in TunerState /\ [Idle EXCEPT !.front = x].front = x
  BY DEF Idle, TunerState
<1>7. /\ mydvb' \in [Channel -> Mydvb] /\ told' \in [Tuner -> Nat]
      /\ tuner' \in [Tuner -> TunerState]
  BY <1>2, <1>3, <1>4, <1>5, <1>6 DEF ReadyInv, TypeOK
<1>8. TypeOK'
  BY <1>5, <1>7 DEF ReadyInv, TypeOK
<1>9. mydvb[k].ready => n.ready
  BY <1>2
<1>10. n.ready => n.pat # Unread /\ n.sdt # Unread
  BY <1>1, <1>2 DEF ReadyInv, ReadyHasTables
<1>11. ReadyHasTables'
  BY <1>1, <1>3, <1>10 DEF ReadyInv, ReadyHasTables, TypeOK
<1>12. ToldIsReady'
  <2> SUFFICES ASSUME NEW u \in Tuner
               PROVE  told'[u] \in {0, 1} /\ (told'[u] = 1 => Runs(u)' /\ MydvbOf(u)'.ready)
    BY DEF ToldIsReady
  <2>1. CASE u = t
    <3>1. tuner'[t].front = x
      BY <1>5, <1>6 DEF ReadyInv, TypeOK
    <3>2. Runs(t)'
      BY <3>1 DEF Runs
    <3>3. MydvbOf(t)' = n
      BY <1>1, <1>3, <3>1 DEF ReadyInv, TypeOK, MydvbOf, DecoderFor
    <3>4. told'[t] = IF n.ready THEN 1 ELSE 0
      BY <1>4 DEF ReadyInv, TypeOK
    <3>5. QED
      BY <2>1, <3>2, <3>3, <3>4
  <2>2. CASE u # t
    <3>1. told'[u] = told[u] /\ tuner'[u] = tuner[u]
      BY <1>4, <1>5, <2>2 DEF ReadyInv, TypeOK
    <3>2. told[u] \in {0, 1} /\ (told[u] = 1 => Runs(u) /\ MydvbOf(u).ready)
      BY DEF ReadyInv, ToldIsReady
    <3>3. Runs(u)' <=> Runs(u)
      BY <3>1 DEF Runs
    <3>4. ASSUME Runs(u), MydvbOf(u).ready PROVE MydvbOf(u)'.ready
      <4>1. DecoderFor(tuner[u].front) \in Channel
        BY <3>4, RunningHasDecoder DEF ReadyInv
      <4>2. MydvbOf(u)' = IF DecoderFor(tuner[u].front) = k THEN n ELSE MydvbOf(u)
        BY <1>3, <3>1, <4>1 DEF ReadyInv, TypeOK, MydvbOf, DecoderFor
      <4>3. QED
        BY <1>9, <3>4, <4>2 DEF MydvbOf
    <3>5. QED
      BY <3>1, <3>2, <3>3, <3>4
  <2>3. QED
    BY <2>1, <2>2
<1>13. OnlyRunningWait'
  BY <1>5, <1>6 DEF ReadyInv, TypeOK, OnlyRunningWait, Runs
<1>14. QED
  BY <1>8, <1>11, <1>12, <1>13 DEF ReadyInv

(* mydvb_stop_decoder: the buffers go with the filters. *)
LEMMA StopDecoderKeeps ==
  ASSUME ReadyInv, NEW t \in Tuner, StopDecoder(t)
  PROVE  ReadyInv'
<1> USE DEF StopDecoder
<1>1. TypeOK'
  BY IdleType DEF ReadyInv, TypeOK
<1>2. ReadyHasTables'
  BY DEF ReadyInv, ReadyHasTables
<1>3. ToldIsReady'
  <2> SUFFICES ASSUME NEW u \in Tuner
               PROVE  told'[u] \in {0, 1} /\ (told'[u] = 1 => Runs(u)' /\ MydvbOf(u)'.ready)
    BY DEF ToldIsReady
  <2>1. CASE u = t
    BY <2>1 DEF ReadyInv, TypeOK
  <2>2. CASE u # t
    BY <2>2 DEF ReadyInv, TypeOK, ToldIsReady, Runs, MydvbOf, DecoderFor
  <2>3. QED
    BY <2>1, <2>2
<1>4. OnlyRunningWait'
  BY DEF ReadyInv, TypeOK, OnlyRunningWait, Runs
<1>5. QED
  BY <1>1, <1>2, <1>3, <1>4 DEF ReadyInv

(* Nothing of what ReadyInv is about changes. *)
LEMMA FrontsSame ==
  ASSUME ReadyInv, UNCHANGED <<mydvb, told>>,
         \A u \in Tuner : tuner'[u].front = tuner[u].front
  PROVE  ReadyHasTables' /\ ToldIsReady'
<1>1. ReadyHasTables'
  BY DEF ReadyInv, ReadyHasTables
<1>2. ToldIsReady'
  BY DEF ReadyInv, ToldIsReady, Runs, MydvbOf, DecoderFor
<1>3. QED
  BY <1>1, <1>2

(* mydvb_start_program adds a filter on the place of a listed program.     *)
LEMMA StartProgramKeeps ==
  ASSUME ReadyInv, NEW t \in Tuner, NEW p \in Program, StartProgram(t, p)
  PROVE  ReadyInv'
<1> DEFINE place == MydvbOf(t).programs[p].place
           new   == [tuner[t] EXCEPT !.started = tuner[t].started \cup {p},
                                     !.maps = tuner[t].maps \cup {<<p, place>>}]
<1>1. place \in Place
  BY RunningHasDecoder DEF ReadyInv, StartProgram, Listed, Mydvb, ProgramState
<1>2. tuner[t] \in TunerState
  BY DEF ReadyInv, TypeOK
<1>3. new \in TunerState /\ new.front = tuner[t].front
  <2> HIDE DEF place
  <2>1. /\ tuner[t].started \cup {p} \in SUBSET Program
        /\ tuner[t].maps \cup {<<p, place>>} \in SUBSET (Program \X Place)
    BY <1>1, <1>2 DEF TunerState
  <2>2. QED
    BY <1>2, <2>1 DEF TunerState
<1>4. tuner' = [tuner EXCEPT ![t] = new]
  BY DEF StartProgram
<1> HIDE DEF new
<1>5. tuner' \in [Tuner -> TunerState] /\ \A u \in Tuner : tuner'[u].front = tuner[u].front
  BY <1>3, <1>4 DEF ReadyInv, TypeOK
<1>6. heard' \in [Tuner -> SUBSET Program] /\ UNCHANGED <<air, mydvb, waiting, told, changes>>
  BY DEF ReadyInv, TypeOK, StartProgram
<1>7. TypeOK'
  BY <1>5, <1>6 DEF ReadyInv, TypeOK
<1>8. OnlyRunningWait'
  BY <1>5, <1>6 DEF ReadyInv, OnlyRunningWait, Runs
<1>9. QED
  BY <1>5, <1>6, <1>7, <1>8, FrontsSame DEF ReadyInv

(* mydvb_stop_program removes a filter and what waits at it. *)
LEMMA StopProgramKeeps ==
  ASSUME ReadyInv, NEW t \in Tuner, NEW p \in Program, StopProgram(t, p)
  PROVE  ReadyInv'
<1> DEFINE place == MydvbOf(t).programs[p].place
           there == {w \in tuner[t].maps : w[2] = place}
           rest  == {w \in waiting[t].pmt : w[2] # place}
           new(kept) == [tuner[t] EXCEPT !.started = tuner[t].started \ {p},
                                         !.maps = (tuner[t].maps \ there) \cup kept]
           buffer(kept) == IF kept # {} THEN waiting[t] ELSE [waiting[t] EXCEPT !.pmt = rest]
<1>1. tuner[t] \in TunerState /\ waiting[t] \in Buffers /\ Runs(t)
  BY DEF ReadyInv, TypeOK, StopProgram
<1>2. PICK kept \in SUBSET there : tuner' = [tuner EXCEPT ![t] = new(kept)]
                                   /\ waiting' = IF kept # {} THEN waiting
                                                 ELSE [waiting EXCEPT ![t] = [waiting[t] EXCEPT !.pmt = rest]]
  <2>1. PICK kept \in SUBSET there :
           /\ tuner' = [tuner EXCEPT ![t].started = @ \ {p},
                                     ![t].maps = (@ \ there) \cup kept]
           /\ waiting' = IF kept # {} THEN waiting
                         ELSE [waiting EXCEPT ![t].pmt = {w \in @ : w[2] # place}]
    BY DEF StopProgram
  <2>2. tuner' = [tuner EXCEPT ![t] = new(kept)]
    BY <1>1, <2>1 DEF ReadyInv, TypeOK, TunerState
  <2>3. QED
    BY <2>1, <2>2
<1>3. new(kept) \in TunerState /\ new(kept).front = tuner[t].front
  <2>1. /\ tuner[t].started \ {p} \in SUBSET Program
        /\ (tuner[t].maps \ there) \cup kept \in SUBSET (Program \X Place)
    BY <1>1 DEF TunerState
  <2> HIDE DEF there
  <2>2. QED
    BY <1>1, <2>1 DEF TunerState
<1>4. buffer(kept) \in Buffers
  <2>1. rest \in SUBSET (Program \X Place \X Version)
    BY <1>1 DEF Buffers
  <2> HIDE DEF rest
  <2>2. QED
    BY <1>1, <2>1 DEF Buffers
<1>5. waiting' = [waiting EXCEPT ![t] = buffer(kept)]
  BY <1>2 DEF ReadyInv, TypeOK
<1> HIDE DEF new, buffer, there, rest, place
<1>6. tuner' \in [Tuner -> TunerState] /\ \A u \in Tuner : tuner'[u].front = tuner[u].front
  BY <1>2, <1>3 DEF ReadyInv, TypeOK
<1>7. waiting' \in [Tuner -> Buffers] /\ OnlyRunningWait'
  BY <1>1, <1>4, <1>5, <1>6, WaitingShrinks
<1>8. heard' \in [Tuner -> SUBSET Program] /\ UNCHANGED <<air, mydvb, told, changes>>
  BY DEF ReadyInv, TypeOK, StopProgram
<1>9. TypeOK'
  BY <1>6, <1>7, <1>8 DEF ReadyInv, TypeOK
<1>10. QED
  BY <1>6, <1>7, <1>8, <1>9, FrontsSame DEF ReadyInv

-----------------------------------------------------------------------------
(* Reading a section (__read_table)                                        *)

(* The loop reads a PAT: only the first one may tell READY. *)
LEMMA ReadPatKeeps ==
  ASSUME ReadyInv, NEW t \in Tuner, ReadPat(t)
  PROVE  ReadyInv'
<1>1. PICK s \in waiting[t].pat :
        /\ waiting' = [waiting EXCEPT ![t].pat = {}]
        /\ LET k == DecoderFor(tuner[t].front)
               m == mydvb[k]
           IN /\ IF m.pat = Unread
                 THEN /\ NotifyReady(t, PatRead(m, s))
                      /\ tuner' = [tuner EXCEPT ![t].nit = @ \/ s.nit]
                 ELSE /\ mydvb' = [mydvb EXCEPT ![k] = PatRead(m, s)]
                      /\ UNCHANGED <<tuner, told>>
              /\ heard' = IF s.version = m.pat THEN heard
                          ELSE [u \in Tuner |-> IF Runs(u) /\ DecoderFor(tuner[u].front) = k
                                                THEN {} ELSE heard[u]]
        /\ UNCHANGED <<air, changes>>
  BY DEF ReadPat
<1> DEFINE k == DecoderFor(tuner[t].front)
           m == mydvb[k]
<1>2. waiting[t] \in Buffers /\ tuner[t] \in TunerState
  BY DEF ReadyInv, TypeOK
<1>3. s \in PatSections /\ s.nit \in BOOLEAN
  BY <1>2 DEF Buffers, PatSections
<1>4. Runs(t)
  BY <1>1 DEF ReadyInv, OnlyRunningWait, NoSections
<1>5. k \in Channel /\ m \in Mydvb /\ m = MydvbOf(t)
  BY <1>4, RunningHasDecoder DEF ReadyInv, MydvbOf
<1>6. /\ PatRead(m, s) \in Mydvb /\ PatRead(m, s).pat # Unread
      /\ PatRead(m, s).sdt = m.sdt /\ PatRead(m, s).ready = m.ready
  BY <1>3, <1>5, PatReadType
<1>7. m.ready => m.pat # Unread /\ m.sdt # Unread
  BY <1>5 DEF ReadyInv, ReadyHasTables
<1>8. /\ tuner' \in [Tuner -> TunerState]
      /\ \A u \in Tuner : tuner'[u].front = tuner[u].front
  <2>1. CASE tuner' = tuner
    BY <2>1 DEF ReadyInv, TypeOK
  <2>2. CASE tuner' = [tuner EXCEPT ![t].nit = @ \/ s.nit]
    <3> DEFINE new == [tuner[t] EXCEPT !.nit = tuner[t].nit \/ s.nit]
    <3>1. tuner[t].nit \/ s.nit \in BOOLEAN
      BY <1>2, <1>3 DEF TunerState
    <3>2. new \in TunerState /\ new.front = tuner[t].front
      BY <1>2, <3>1 DEF TunerState
    <3>3. tuner' = [tuner EXCEPT ![t] = new]
      BY <2>2
    <3> HIDE DEF new
    <3>4. QED
      BY <3>2, <3>3 DEF ReadyInv, TypeOK
  <2>3. QED
    BY <1>1, <2>1, <2>2
<1>9. /\ mydvb' \in [Channel -> Mydvb] /\ told' \in [Tuner -> Nat]
      /\ ReadyHasTables' /\ ToldIsReady'
  <2>1. CASE m.pat = Unread
    <3>1. NotifyReady(t, PatRead(m, s))
      BY <1>1, <2>1
    <3>2. PatRead(m, s).ready = MydvbOf(t).ready
      BY <1>5, <1>6
    <3>3. PatRead(m, s).ready => PatRead(m, s).pat # Unread /\ PatRead(m, s).sdt # Unread
      BY <1>6, <1>7
    <3> HIDE DEF m, k
    <3>4. QED
      BY <1>4, <1>6, <1>8, <3>1, <3>2, <3>3, NotifyReadyKeeps
  <2>2. CASE m.pat # Unread
    <3>1. mydvb' = [mydvb EXCEPT ![k] = PatRead(m, s)] /\ told' = told
      BY <1>1, <2>2
    <3>2. PatRead(m, s).ready => PatRead(m, s).pat # Unread /\ PatRead(m, s).sdt # Unread
      BY <1>6, <1>7
    <3>3. mydvb[k].ready => PatRead(m, s).ready
      BY <1>6
    <3>4. told' \in [Tuner -> Nat]
      BY <3>1 DEF ReadyInv, TypeOK
    <3> HIDE DEF m, k
    <3>5. QED
      BY <1>5, <1>6, <1>8, <3>1, <3>2, <3>3, <3>4, DecoderChanged
  <2>3. QED
    BY <2>1, <2>2
<1>10. waiting' \in [Tuner -> Buffers] /\ OnlyRunningWait'
  <2>1. [waiting[t] EXCEPT !.pat = {}] \in Buffers
    BY <1>2 DEF Buffers
  <2>2. waiting' = [waiting EXCEPT ![t] = [waiting[t] EXCEPT !.pat = {}]]
    BY <1>1
  <2>3. QED
    BY <1>4, <1>8, <2>1, <2>2, WaitingShrinks
<1>11. heard' \in [Tuner -> SUBSET Program]
  BY <1>1 DEF ReadyInv, TypeOK
<1>12. TypeOK'
  BY <1>1, <1>8, <1>9, <1>10, <1>11 DEF ReadyInv, TypeOK
<1>13. QED
  BY <1>9, <1>10, <1>12 DEF ReadyInv

(* The loop reads an SDT, which may tell READY. *)
LEMMA ReadSdtKeeps ==
  ASSUME ReadyInv, NEW t \in Tuner, ReadSdt(t)
  PROVE  ReadyInv'
<1>1. PICK v \in waiting[t].sdt :
        /\ waiting' = [waiting EXCEPT ![t].sdt = {}]
        /\ NotifyReady(t, SdtRead(MydvbOf(t), v))
        /\ UNCHANGED <<air, tuner, heard, changes>>
  BY DEF ReadSdt
<1> DEFINE m == MydvbOf(t)
<1>2. waiting[t] \in Buffers /\ v \in Version
  BY DEF ReadyInv, TypeOK, Buffers
<1>3. Runs(t)
  BY <1>1 DEF ReadyInv, OnlyRunningWait, NoSections
<1>4. DecoderFor(tuner[t].front) \in Channel /\ m \in Mydvb
  BY <1>3, RunningHasDecoder DEF ReadyInv
<1>5. m.ready => m.pat # Unread
  BY <1>4 DEF ReadyInv, ReadyHasTables, MydvbOf
<1> HIDE DEF m
<1>6. /\ SdtRead(m, v) \in Mydvb /\ SdtRead(m, v).sdt # Unread
      /\ SdtRead(m, v).pat = m.pat /\ SdtRead(m, v).ready = m.ready
  BY <1>2, <1>4, SdtReadType
<1>7. NotifyReady(t, SdtRead(m, v)) /\ m = MydvbOf(t)
  BY <1>1 DEF m
<1>8. /\ mydvb' \in [Channel -> Mydvb] /\ told' \in [Tuner -> Nat]
      /\ ReadyHasTables' /\ ToldIsReady'
  BY <1>1, <1>3, <1>5, <1>6, <1>7, NotifyReadyKeeps
<1>9. waiting' \in [Tuner -> Buffers] /\ OnlyRunningWait'
  <2>1. [waiting[t] EXCEPT !.sdt = {}] \in Buffers
    BY <1>2 DEF Buffers
  <2>2. QED
    BY <1>1, <1>3, <2>1, WaitingShrinks
<1>10. TypeOK'
  BY <1>1, <1>8, <1>9 DEF ReadyInv, TypeOK
<1>11. QED
  BY <1>8, <1>9, <1>10 DEF ReadyInv

(* The loop reads a NIT. *)
LEMMA ReadNitKeeps ==
  ASSUME ReadyInv, NEW t \in Tuner, ReadNit(t)
  PROVE  ReadyInv'
<1>1. PICK v \in waiting[t].nit :
        /\ waiting' = [waiting EXCEPT ![t].nit = {}]
        /\ mydvb' = [mydvb EXCEPT ![DecoderFor(tuner[t].front)] = NitRead(MydvbOf(t), v)]
        /\ UNCHANGED <<air, tuner, told, heard, changes>>
  BY DEF ReadNit
<1> DEFINE m == MydvbOf(t)
           k == DecoderFor(tuner[t].front)
<1>2. waiting[t] \in Buffers /\ v \in Version
  BY DEF ReadyInv, TypeOK, Buffers
<1>3. Runs(t)
  BY <1>1 DEF ReadyInv, OnlyRunningWait, NoSections
<1>4. k \in Channel /\ m \in Mydvb /\ m = mydvb[k]
  BY <1>3, RunningHasDecoder DEF ReadyInv, MydvbOf
<1>5. m.ready => m.pat # Unread /\ m.sdt # Unread
  BY <1>4 DEF ReadyInv, ReadyHasTables
<1>6. mydvb' = [mydvb EXCEPT ![k] = NitRead(m, v)]
  BY <1>1
<1> HIDE DEF m, k
<1>7. /\ NitRead(m, v) \in Mydvb /\ NitRead(m, v).pat = m.pat
      /\ NitRead(m, v).sdt = m.sdt /\ NitRead(m, v).ready = m.ready
  BY <1>2, <1>4, NitReadType
<1>8. mydvb' \in [Channel -> Mydvb] /\ ReadyHasTables' /\ ToldIsReady'
  <2>1. mydvb[k].ready => NitRead(m, v).ready
    BY <1>4, <1>7
  <2>2. NitRead(m, v).ready => NitRead(m, v).pat # Unread /\ NitRead(m, v).sdt # Unread
    BY <1>5, <1>7
  <2>3. told' = told /\ \A u \in Tuner : tuner'[u].front = tuner[u].front
    BY <1>1
  <2>4. QED
    BY <1>4, <1>6, <1>7, <2>1, <2>2, <2>3, DecoderChanged
<1>9. waiting' \in [Tuner -> Buffers] /\ OnlyRunningWait'
  <2>1. [waiting[t] EXCEPT !.nit = {}] \in Buffers
    BY <1>2 DEF Buffers
  <2>2. QED
    BY <1>1, <1>3, <2>1, WaitingShrinks
<1>10. TypeOK'
  BY <1>1, <1>8, <1>9 DEF ReadyInv, TypeOK
<1>11. QED
  BY <1>8, <1>9, <1>10 DEF ReadyInv

(* The loop reads a map. *)
LEMMA ReadPmtKeeps ==
  ASSUME ReadyInv, NEW t \in Tuner, ReadPmt(t)
  PROVE  ReadyInv'
<1>1. PICK w \in waiting[t].pmt :
        /\ waiting' = [waiting EXCEPT ![t].pmt = @ \ {w}]
        /\ mydvb' = [mydvb EXCEPT ![DecoderFor(tuner[t].front)]
                        = PmtRead(MydvbOf(t), w[1], w[3])]
        /\ heard' = IF Listed(MydvbOf(t), w[1]) /\ MydvbOf(t).programs[w[1]].version # w[3]
                    THEN [heard EXCEPT ![t] = @ \cup {w[1]}] ELSE heard
        /\ UNCHANGED <<air, tuner, told, changes>>
  BY DEF ReadPmt
<1> DEFINE m == MydvbOf(t)
           k == DecoderFor(tuner[t].front)
<1>2. waiting[t] \in Buffers /\ w[1] \in Program /\ w[3] \in Version
  BY DEF ReadyInv, TypeOK, Buffers
<1>3. Runs(t)
  BY <1>1 DEF ReadyInv, OnlyRunningWait, NoSections
<1>4. k \in Channel /\ m \in Mydvb /\ m = mydvb[k]
  BY <1>3, RunningHasDecoder DEF ReadyInv, MydvbOf
<1>5. m.ready => m.pat # Unread /\ m.sdt # Unread
  BY <1>4 DEF ReadyInv, ReadyHasTables
<1>6. mydvb' = [mydvb EXCEPT ![k] = PmtRead(m, w[1], w[3])]
  BY <1>1
<1> HIDE DEF m, k
<1>7. /\ PmtRead(m, w[1], w[3]) \in Mydvb /\ PmtRead(m, w[1], w[3]).pat = m.pat
      /\ PmtRead(m, w[1], w[3]).sdt = m.sdt /\ PmtRead(m, w[1], w[3]).ready = m.ready
  BY <1>2, <1>4, PmtReadType
<1>8. mydvb' \in [Channel -> Mydvb] /\ ReadyHasTables' /\ ToldIsReady'
  <2>1. mydvb[k].ready => PmtRead(m, w[1], w[3]).ready
    BY <1>4, <1>7
  <2>2. PmtRead(m, w[1], w[3]).ready => PmtRead(m, w[1], w[3]).pat # Unread /\ PmtRead(m, w[1], w[3]).sdt # Unread
    BY <1>5, <1>7
  <2>3. told' = told /\ \A u \in Tuner : tuner'[u].front = tuner[u].front
    BY <1>1
  <2>4. QED
    BY <1>4, <1>6, <1>7, <2>1, <2>2, <2>3, DecoderChanged
<1>9. waiting' \in [Tuner -> Buffers] /\ OnlyRunningWait'
  <2>1. [waiting[t] EXCEPT !.pmt = waiting[t].pmt \ {w}] \in Buffers
    BY <1>2 DEF Buffers
  <2>2. waiting' = [waiting EXCEPT ![t] = [waiting[t] EXCEPT !.pmt = waiting[t].pmt \ {w}]]
    BY <1>1
  <2>3. QED
    BY <1>1, <1>3, <2>1, <2>2, WaitingShrinks
<1>10. heard' \in [Tuner -> SUBSET Program]
  BY <1>1, <1>2 DEF ReadyInv, TypeOK
<1>11. TypeOK'
  BY <1>1, <1>8, <1>9, <1>10 DEF ReadyInv, TypeOK
<1>12. QED
  BY <1>8, <1>9, <1>11 DEF ReadyInv

(* The loop reads an event section. *)
LEMMA ReadEitKeeps ==
  ASSUME ReadyInv, NEW t \in Tuner, ReadEit(t)
  PROVE  ReadyInv'
<1>1. PICK w \in waiting[t].eit :
        /\ waiting' = [waiting EXCEPT ![t].eit = {}]
        /\ mydvb' = IF Listed(MydvbOf(t), w[1])
                    THEN [mydvb EXCEPT ![DecoderFor(tuner[t].front)].programs[w[1]].eit
                            = EitRead(@, w[2], w[3])]
                    ELSE mydvb
        /\ UNCHANGED <<air, tuner, told, heard, changes>>
  BY DEF ReadEit
<1> DEFINE m == MydvbOf(t)
           k == DecoderFor(tuner[t].front)
           e == EitRead(m.programs[w[1]].eit, w[2], w[3])
           q == [m.programs[w[1]] EXCEPT !.eit = e]
           n == [m EXCEPT !.programs = [m.programs EXCEPT ![w[1]] = q]]
<1>2. waiting[t] \in Buffers /\ w[1] \in Program /\ w[2] \in Version /\ w[3] \in EitSection
  BY DEF ReadyInv, TypeOK, Buffers
<1>3. Runs(t)
  BY <1>1 DEF ReadyInv, OnlyRunningWait, NoSections
<1>4. k \in Channel /\ m \in Mydvb /\ m = mydvb[k]
  BY <1>3, RunningHasDecoder DEF ReadyInv, MydvbOf
<1>5. mydvb' = [mydvb EXCEPT ![k] = n] \/ mydvb' = mydvb
  BY <1>1, <1>4
<1>6. m.ready => m.pat # Unread /\ m.sdt # Unread
  BY <1>4 DEF ReadyInv, ReadyHasTables
<1>7. n \in Mydvb /\ n.pat = m.pat /\ n.sdt = m.sdt /\ n.ready = m.ready
  <2> HIDE DEF m
  <2>1. m.programs \in [Program -> ProgramState]
    BY <1>4 DEF Mydvb
  <2>2. m.programs[w[1]] \in ProgramState /\ m.programs[w[1]].eit \in Eit
    BY <1>2, <2>1 DEF ProgramState
  <2>3. e \in Eit
    BY <1>2, <2>2, EitReadType
  <2> HIDE DEF e
  <2>4. q \in ProgramState
    BY <2>2, <2>3 DEF ProgramState
  <2> HIDE DEF q
  <2>5. [m.programs EXCEPT ![w[1]] = q] \in [Program -> ProgramState]
    BY <2>1, <2>4
  <2>6. QED
    BY <1>4, <2>5 DEF Mydvb
<1> HIDE DEF m, k, n
<1>8. mydvb' \in [Channel -> Mydvb] /\ ReadyHasTables' /\ ToldIsReady'
  <2>1. mydvb[k].ready => n.ready
    BY <1>4, <1>7
  <2>2. n.ready => n.pat # Unread /\ n.sdt # Unread
    BY <1>6, <1>7
  <2>3. told' = told /\ \A u \in Tuner : tuner'[u].front = tuner[u].front
    BY <1>1
  <2>4. CASE mydvb' = [mydvb EXCEPT ![k] = n]
    BY <1>4, <1>7, <2>1, <2>2, <2>3, <2>4, DecoderChanged
  <2>5. CASE mydvb' = mydvb
    BY <2>3, <2>5, FrontsSame DEF ReadyInv, TypeOK
  <2>6. QED
    BY <1>5, <2>4, <2>5
<1>9. waiting' \in [Tuner -> Buffers] /\ OnlyRunningWait'
  <2>1. [waiting[t] EXCEPT !.eit = {}] \in Buffers
    BY <1>2 DEF Buffers
  <2>2. QED
    BY <1>1, <1>3, <2>1, WaitingShrinks
<1>10. TypeOK'
  BY <1>1, <1>8, <1>9 DEF ReadyInv, TypeOK
<1>11. QED
  BY <1>8, <1>9, <1>10 DEF ReadyInv

-----------------------------------------------------------------------------
(* The air                                                                 *)

(* Tuners that receive a transponder decode. *)
LEMMA ReceiversRun ==
  ASSUME NEW x \in Transponder, NEW t \in Receivers(x)
  PROVE  t \in Tuner /\ Runs(t)
BY DEF Receivers, Runs

(* A step that only puts sections into buffers keeps the invariant. *)
LEMMA SentKeeps ==
  ASSUME ReadyInv, waiting' \in [Tuner -> Buffers], OnlyRunningWait',
         air' \in [Transponder -> Air], UNCHANGED <<mydvb, tuner, told, heard, changes>>
  PROVE  ReadyInv'
<1>1. TypeOK'
  BY DEF ReadyInv, TypeOK
<1>2. ReadyHasTables' /\ ToldIsReady'
  BY FrontsSame
<1>3. QED
  BY <1>1, <1>2 DEF ReadyInv

(* A section of the PAT reaches the buffers of the tuners that have room. *)
LEMMA SendPatKeeps ==
  ASSUME ReadyInv, NEW x \in Transponder, NEW n \in PatSection, SendPat(x, n)
  PROVE  ReadyInv'
<1> DEFINE holding == [t \in Tuner |-> [waiting[t] EXCEPT !.pat = {PatOnAir(x, n)}]]
           full == {t \in Tuner : waiting[t].pat # {}}
<1>1. air[x].pat \in Pat
  BY DEF ReadyInv, TypeOK, Air
<1>2. PatOnAir(x, n) \in PatSections
  <2>1. \A p \in Program : air[x].pat.place[p] \in Place \cup {NoPlace}
    BY <1>1 DEF Pat
  <2>2. [p \in Program |-> IF PatSectionOf[p] = n THEN air[x].pat.place[p] ELSE NoPlace]
          \in [Program -> Place \cup {NoPlace}]
    BY <2>1
  <2>3. (air[x].pat.nit /\ n = 0) \in BOOLEAN /\ air[x].pat.version \in Version
    BY <1>1 DEF Pat
  <2>4. QED
    BY <2>2, <2>3 DEF PatOnAir, PatSections
<1>3. holding \in [Tuner -> Buffers]
  <2> SUFFICES ASSUME NEW t \in Tuner
               PROVE  [waiting[t] EXCEPT !.pat = {PatOnAir(x, n)}] \in Buffers
    OBVIOUS
  <2>1. waiting[t] \in Buffers
    BY DEF ReadyInv, TypeOK
  <2>2. QED
    BY <1>2, <2>1 DEF Buffers
<1>4. Receivers(x) \in SUBSET Tuner /\ \A t \in Receivers(x) : Runs(t)
  BY ReceiversRun DEF Receivers
<1>5. Send(Receivers(x), full, holding) /\ UNCHANGED <<air, mydvb, tuner, told, heard, changes>>
  BY DEF SendPat
<1> HIDE DEF holding, full
<1>6. waiting' \in [Tuner -> Buffers] /\ OnlyRunningWait'
  BY <1>3, <1>4, <1>5, SendKeeps
<1>7. QED
  BY <1>5, <1>6, SentKeeps DEF ReadyInv, TypeOK

(* Likewise an SDT. *)
LEMMA SendSdtKeeps ==
  ASSUME ReadyInv, NEW x \in Transponder, SendSdt(x)
  PROVE  ReadyInv'
<1> DEFINE holding == [t \in Tuner |-> [waiting[t] EXCEPT !.sdt = {air[x].sdt}]]
           full == {t \in Tuner : waiting[t].sdt # {}}
<1>1. air[x].sdt \in Version
  BY DEF ReadyInv, TypeOK, Air
<1>2. holding \in [Tuner -> Buffers]
  <2> SUFFICES ASSUME NEW t \in Tuner
               PROVE  [waiting[t] EXCEPT !.sdt = {air[x].sdt}] \in Buffers
    OBVIOUS
  <2>1. waiting[t] \in Buffers
    BY DEF ReadyInv, TypeOK
  <2>2. QED
    BY <1>1, <2>1 DEF Buffers
<1>3. Receivers(x) \in SUBSET Tuner /\ \A t \in Receivers(x) : Runs(t)
  BY ReceiversRun DEF Receivers
<1>4. Send(Receivers(x), full, holding) /\ UNCHANGED <<air, mydvb, tuner, told, heard, changes>>
  BY DEF SendSdt
<1> HIDE DEF holding, full
<1>5. waiting' \in [Tuner -> Buffers] /\ OnlyRunningWait'
  BY <1>2, <1>3, <1>4, SendKeeps
<1>6. QED
  BY <1>4, <1>5, SentKeeps DEF ReadyInv, TypeOK

(* Likewise a NIT, at the tuners with its filter. *)
LEMMA SendNitKeeps ==
  ASSUME ReadyInv, NEW x \in Transponder, SendNit(x)
  PROVE  ReadyInv'
<1> DEFINE holding == [t \in Tuner |-> [waiting[t] EXCEPT !.nit = {air[x].nit}]]
           full == {t \in Tuner : waiting[t].nit # {}}
           takers == {t \in Receivers(x) : tuner[t].nit}
<1>1. air[x].nit \in Version
  BY DEF ReadyInv, TypeOK, Air
<1>2. holding \in [Tuner -> Buffers]
  <2> SUFFICES ASSUME NEW t \in Tuner
               PROVE  [waiting[t] EXCEPT !.nit = {air[x].nit}] \in Buffers
    OBVIOUS
  <2>1. waiting[t] \in Buffers
    BY DEF ReadyInv, TypeOK
  <2>2. QED
    BY <1>1, <2>1 DEF Buffers
<1>3. takers \in SUBSET Tuner /\ \A t \in takers : Runs(t)
  BY ReceiversRun DEF Receivers
<1>4. Send(takers, full, holding) /\ UNCHANGED <<air, mydvb, tuner, told, heard, changes>>
  BY DEF SendNit
<1> HIDE DEF holding, full, takers
<1>5. waiting' \in [Tuner -> Buffers] /\ OnlyRunningWait'
  BY <1>2, <1>3, <1>4, SendKeeps
<1>6. QED
  BY <1>4, <1>5, SentKeeps DEF ReadyInv, TypeOK

(* Likewise a map, at the tuners with a filter on its place. *)
LEMMA SendPmtKeeps ==
  ASSUME ReadyInv, NEW x \in Transponder, NEW p \in Program, SendPmt(x, p)
  PROVE  ReadyInv'
<1> DEFINE place  == air[x].pat.place[p]
           takers == {t \in Receivers(x) : \E q \in Program : <<q, place>> \in tuner[t].maps}
           full == {t \in Tuner : \E w \in waiting[t].pmt : w[1] = p /\ w[2] = place}
           section == <<p, place, air[x].pmt[p]>>
           holding == [t \in Tuner |-> [waiting[t] EXCEPT !.pmt = @ \cup {section}]]
<1>1. Send(takers, full, holding) /\ takers # {}
      /\ UNCHANGED <<air, mydvb, tuner, told, heard, changes>>
  BY DEF SendPmt
<1>2. takers \in SUBSET Tuner /\ \A t \in takers : Runs(t)
  BY ReceiversRun DEF Receivers
<1>3. place \in Place
  <2>1. PICK t \in takers : TRUE
    BY <1>1
  <2>2. PICK q \in Program : <<q, place>> \in tuner[t].maps
    BY <2>1
  <2>3. tuner[t].maps \in SUBSET (Program \X Place)
    BY <1>2, <2>1 DEF ReadyInv, TypeOK, TunerState
  <2>4. QED
    BY <2>2, <2>3
<1>4. section \in Program \X Place \X Version
  BY <1>3 DEF ReadyInv, TypeOK, Air
<1> HIDE DEF section, place
<1>5. holding \in [Tuner -> Buffers]
  <2> SUFFICES ASSUME NEW t \in Tuner
               PROVE  [waiting[t] EXCEPT !.pmt = waiting[t].pmt \cup {section}] \in Buffers
    OBVIOUS
  <2>1. waiting[t] \in Buffers
    BY DEF ReadyInv, TypeOK
  <2>2. waiting[t].pmt \cup {section} \in SUBSET (Program \X Place \X Version)
    BY <1>4, <2>1 DEF Buffers
  <2>3. QED
    BY <2>1, <2>2 DEF Buffers
<1> HIDE DEF holding, full, takers
<1>6. waiting' \in [Tuner -> Buffers] /\ OnlyRunningWait'
  BY <1>1, <1>2, <1>5, SendKeeps
<1>7. QED
  BY <1>1, <1>6, SentKeeps DEF ReadyInv, TypeOK

(* Likewise an event section; the next one has its turn. *)
LEMMA SendEitKeeps ==
  ASSUME ReadyInv, NEW x \in Transponder, NEW p \in Program, SendEit(x, p)
  PROVE  ReadyInv'
<1> DEFINE n == air[x].turn[p]
           section == <<p, air[x].eit[p], n>>
           full == {t \in Tuner : waiting[t].eit # {}}
           holding == [t \in Tuner |-> [waiting[t] EXCEPT !.eit = {section}]]
<1>1. /\ NEit > 0 /\ Send(Receivers(x), full, holding)
      /\ air' = [air EXCEPT ![x].turn[p] = (n + 1) % NEit]
      /\ UNCHANGED <<mydvb, tuner, told, heard, changes>>
  BY DEF SendEit
<1>2. air[x] \in Air
  BY DEF ReadyInv, TypeOK
<1>3. n \in 0..NEit - 1 /\ (n + 1) % NEit \in 0..NEit - 1
  <2>1. n \in 0..NEit - 1
    BY <1>1, <1>2 DEF Air, EitSection
  <2> HIDE DEF n
  <2>2. (n + 1) % NEit \in 0..NEit - 1
    BY <1>1, <2>1
  <2>3. QED
    BY <2>1, <2>2
<1>4. section \in Program \X Version \X EitSection
  BY <1>2, <1>3 DEF Air, EitSection
<1> HIDE DEF section
<1>5. holding \in [Tuner -> Buffers]
  <2> SUFFICES ASSUME NEW t \in Tuner
               PROVE  [waiting[t] EXCEPT !.eit = {section}] \in Buffers
    OBVIOUS
  <2>1. waiting[t] \in Buffers
    BY DEF ReadyInv, TypeOK
  <2>2. QED
    BY <1>4, <2>1 DEF Buffers
<1>6. Receivers(x) \in SUBSET Tuner /\ \A t \in Receivers(x) : Runs(t)
  BY ReceiversRun DEF Receivers
<1>7. air' \in [Transponder -> Air]
  <2> DEFINE next == (n + 1) % NEit
             turn == [air[x].turn EXCEPT ![p] = next]
             a == [air[x] EXCEPT !.turn = turn]
  <2>1. air' = [air EXCEPT ![x] = a]
    BY <1>1
  <2>2. next \in EitSection \cup {0}
    BY <1>3 DEF EitSection
  <2> HIDE DEF next
  <2>3. turn \in [Program -> EitSection \cup {0}]
    BY <1>2, <2>2 DEF Air
  <2> HIDE DEF turn
  <2>4. a \in Air
    BY <1>2, <2>3 DEF Air
  <2> HIDE DEF a
  <2>5. QED
    BY <2>1, <2>4 DEF ReadyInv, TypeOK
<1> HIDE DEF holding, full
<1>8. waiting' \in [Tuner -> Buffers] /\ OnlyRunningWait'
  BY <1>1, <1>5, <1>6, SendKeeps
<1>9. QED
  BY <1>1, <1>7, <1>8, SentKeeps

(* A new version of a table is one of 5 bits. *)
LEMMA Next32Type ==
  ASSUME NEW v \in Version
  PROVE  Next32(v) \in Version
<1>1. v \in 0..31
  BY DEF Version, Versions
<1>2. (v + 1) % 32 \in 0..31
  BY <1>1
<1>3. QED
  BY <1>2 DEF Next32, Version, Versions

(* A table on the air changes. *)
LEMMA ChangeKeeps ==
  ASSUME ReadyInv, NEW x \in Transponder, Change(x)
  PROVE  ReadyInv'
<1>1. air[x] \in Air
  BY DEF ReadyInv, TypeOK
<1>2. air' \in [Transponder -> Air]
  <2>1. SUFFICES ASSUME NEW a \in Air, air' = [air EXCEPT ![x] = a]
                 PROVE  air' \in [Transponder -> Air]
    <3>1. ASSUME NEW place \in [Program -> Place \cup {NoPlace}], NEW nit \in BOOLEAN,
                 air' = [air EXCEPT ![x].pat = [version |-> Next32(@.version),
                                                place |-> place, nit |-> nit]]
          PROVE  \E a \in Air : air' = [air EXCEPT ![x] = a]
      <4> DEFINE pat == [version |-> Next32(air[x].pat.version), place |-> place, nit |-> nit]
                 b   == [air[x] EXCEPT !.pat = pat]
      <4>1. Next32(air[x].pat.version) \in Version
        BY <1>1, Next32Type DEF Air, Pat
      <4>2. pat \in Pat
        BY <3>1, <4>1 DEF Pat
      <4>3. air' = [air EXCEPT ![x] = b]
        BY <3>1
      <4> HIDE DEF pat
      <4>4. b \in Air
        BY <1>1, <4>2 DEF Air
      <4> HIDE DEF b
      <4>5. QED
        BY <4>3, <4>4
    <3>2. ASSUME air' = [air EXCEPT ![x].sdt = Next32(@)]
          PROVE  \E a \in Air : air' = [air EXCEPT ![x] = a]
      <4> DEFINE b == [air[x] EXCEPT !.sdt = Next32(air[x].sdt)]
      <4>1. Next32(air[x].sdt) \in Version
        BY <1>1, Next32Type DEF Air
      <4>2. b \in Air /\ air' = [air EXCEPT ![x] = b]
        BY <1>1, <3>2, <4>1 DEF Air
      <4> HIDE DEF b
      <4>3. QED
        BY <4>2
    <3>3. ASSUME air' = [air EXCEPT ![x].nit = Next32(@)]
          PROVE  \E a \in Air : air' = [air EXCEPT ![x] = a]
      <4> DEFINE b == [air[x] EXCEPT !.nit = Next32(air[x].nit)]
      <4>1. Next32(air[x].nit) \in Version
        BY <1>1, Next32Type DEF Air
      <4>2. b \in Air /\ air' = [air EXCEPT ![x] = b]
        BY <1>1, <3>3, <4>1 DEF Air
      <4> HIDE DEF b
      <4>3. QED
        BY <4>2
    <3>4. ASSUME NEW p \in Program, air' = [air EXCEPT ![x].pmt[p] = Next32(@)]
          PROVE  \E a \in Air : air' = [air EXCEPT ![x] = a]
      <4> DEFINE pmt == [air[x].pmt EXCEPT ![p] = Next32(air[x].pmt[p])]
                 b   == [air[x] EXCEPT !.pmt = pmt]
      <4>1. Next32(air[x].pmt[p]) \in Version
        BY <1>1, Next32Type DEF Air
      <4>2. pmt \in [Program -> Version]
        BY <1>1, <4>1 DEF Air
      <4>3. air' = [air EXCEPT ![x] = b]
        BY <3>4
      <4> HIDE DEF pmt
      <4>4. b \in Air
        BY <1>1, <4>2 DEF Air
      <4> HIDE DEF b
      <4>5. QED
        BY <4>3, <4>4
    <3>5. ASSUME NEW p \in Program, air' = [air EXCEPT ![x].eit[p] = Next32(@)]
          PROVE  \E a \in Air : air' = [air EXCEPT ![x] = a]
      <4> DEFINE eit == [air[x].eit EXCEPT ![p] = Next32(air[x].eit[p])]
                 b   == [air[x] EXCEPT !.eit = eit]
      <4>1. Next32(air[x].eit[p]) \in Version
        BY <1>1, Next32Type DEF Air
      <4>2. eit \in [Program -> Version]
        BY <1>1, <4>1 DEF Air
      <4>3. air' = [air EXCEPT ![x] = b]
        BY <3>5
      <4> HIDE DEF eit
      <4>4. b \in Air
        BY <1>1, <4>2 DEF Air
      <4> HIDE DEF b
      <4>5. QED
        BY <4>3, <4>4
    <3>6. QED
      BY <3>1, <3>2, <3>3, <3>4, <3>5 DEF Change
  <2>2. QED
    BY <2>1 DEF ReadyInv, TypeOK
<1>3. changes' \in 0..MaxChanges
  BY DEF Change, ReadyInv, TypeOK
<1>4. UNCHANGED <<mydvb, tuner, waiting, told, heard>>
  BY DEF Change
<1>5. TypeOK'
  BY <1>2, <1>3, <1>4 DEF ReadyInv, TypeOK
<1>6. ReadyHasTables' /\ ToldIsReady'
  BY <1>4, FrontsSame
<1>7. OnlyRunningWait'
  BY <1>4 DEF ReadyInv, OnlyRunningWait, Runs
<1>8. QED
  BY <1>5, <1>6, <1>7 DEF ReadyInv

-----------------------------------------------------------------------------
(* Every step keeps the invariant. *)
LEMMA ReadyInvStep == ReadyInv /\ [Next]_vars => ReadyInv'
<1> SUFFICES ASSUME ReadyInv, [Next]_vars PROVE ReadyInv'
  OBVIOUS
<1>1. ASSUME NEW t \in Tuner, ClientStep(t) PROVE ReadyInv'
  BY <1>1, StartDecoderKeeps, StopDecoderKeeps, StartProgramKeeps, StopProgramKeeps
  DEF ClientStep
<1>2. ASSUME NEW t \in Tuner, ReadTable(t) PROVE ReadyInv'
  BY <1>2, ReadPatKeeps, ReadSdtKeeps, ReadNitKeeps, ReadPmtKeeps, ReadEitKeeps
  DEF ReadTable
<1>3. ASSUME NEW x \in Transponder, OnAir(x) PROVE ReadyInv'
  BY <1>3, SendPatKeeps, SendSdtKeeps, SendNitKeeps, SendPmtKeeps, SendEitKeeps, ChangeKeeps
  DEF OnAir
<1>4. CASE UNCHANGED vars
  BY <1>4 DEF vars, ReadyInv, TypeOK, ReadyHasTables, ToldIsReady, OnlyRunningWait,
              Runs, MydvbOf, DecoderFor
<1>5. QED
  BY <1>1, <1>2, <1>3, <1>4 DEF Next

(* Decoders, tuners, buffers and the history keep their types. *)
THEOREM TypeCorrect == Spec => []TypeOK
<1>1. ReadyInv => TypeOK
  BY DEF ReadyInv
<1>2. QED
  BY <1>1, ReadyInvInit, ReadyInvStep, PTL DEF Spec

(* However many tuners feed a decoder, whatever is lost and however often  *)
(* decoding is stopped and started again, a tuner is told READY at most    *)
(* once, and then the decoder has a PAT and an SDT (mydvb.c, __read_table  *)
(* and mydvb_start_decoder).                                               *)
THEOREM ReadyOnceCorrect == Spec => []ReadyOnce
<1>1. ReadyInv => ReadyOnce
  <2> SUFFICES ASSUME ReadyInv, NEW t \in Tuner
               PROVE  /\ told[t] <= 1
                      /\ told[t] = 1 => Runs(t) /\ MydvbOf(t).pat # Unread /\ MydvbOf(t).sdt # Unread
    BY DEF ReadyOnce
  <2>1. told[t] \in {0, 1} /\ (told[t] = 1 => Runs(t) /\ MydvbOf(t).ready)
    BY DEF ReadyInv, ToldIsReady
  <2>2. ASSUME Runs(t), MydvbOf(t).ready
        PROVE  MydvbOf(t).pat # Unread /\ MydvbOf(t).sdt # Unread
    <3>1. DecoderFor(tuner[t].front) \in Channel
      BY <2>2, RunningHasDecoder DEF ReadyInv
    <3>2. QED
      BY <2>2, <3>1 DEF ReadyInv, ReadyHasTables, MydvbOf
  <2>3. QED
    BY <2>1, <2>2
<1>2. QED
  BY <1>1, ReadyInvInit, ReadyInvStep, PTL DEF Spec

-----------------------------------------------------------------------------
(* What clients are told, of decoders that never have two feeders at once. *)
(* With two of them, only the tuner that reads a table is told.            *)

OneFeeder ==
  \A t, u \in Tuner :
    Runs(t) /\ Runs(u) /\ DecoderFor(tuner[t].front) = DecoderFor(tuner[u].front) => t = u

IdleStarts == \A t \in Tuner : ~Runs(t) => tuner[t].started = {}

HeardInv == ReadyInv /\ IdleStarts /\ ReadyHeard /\ ProgramHeard

(* A step of one tuner and of the decoder it feeds, which no other tuner   *)
(* feeds: only that tuner is to be looked at.                              *)
LEMMA OnlyFeeder ==
  ASSUME HeardInv, ReadyInv', OneFeeder', NEW t \in Tuner, Runs(t)',
         \A c \in Channel : c # DecoderFor(tuner'[t].front) => mydvb'[c] = mydvb[c],
         \A u \in Tuner \ {t} :
           tuner'[u] = tuner[u] /\ told'[u] = told[u] /\ heard'[u] = heard[u],
         MydvbOf(t)'.ready => told'[t] = 1,
         \A p \in tuner'[t].started :
           Listed(MydvbOf(t)', p) /\ IsReady(MydvbOf(t)'.programs[p]) => p \in heard'[t]
  PROVE  HeardInv'
<1>1. IdleStarts'
  BY DEF HeardInv, IdleStarts, Runs
<1>2. ASSUME NEW u \in Tuner \ {t}, Runs(u)'
      PROVE  Runs(u) /\ MydvbOf(u)' = MydvbOf(u)
  <2>1. Runs(u) /\ tuner'[u].front = tuner[u].front
    BY <1>2 DEF Runs
  <2>2. DecoderFor(tuner[u].front) \in Channel
    BY <2>1, RunningHasDecoder DEF HeardInv, ReadyInv
  <2>3. DecoderFor(tuner'[u].front) # DecoderFor(tuner'[t].front)
    BY <1>2 DEF OneFeeder, DecoderFor
  <2>4. QED
    BY <2>1, <2>2, <2>3 DEF MydvbOf, DecoderFor
<1>3. ReadyHeard'
  <2> SUFFICES ASSUME NEW u \in Tuner, Runs(u)', MydvbOf(u)'.ready PROVE told'[u] = 1
    BY DEF ReadyHeard
  <2>1. CASE u = t
    BY <2>1
  <2>2. CASE u # t
    BY <2>2, <1>2 DEF HeardInv, ReadyHeard
  <2>3. QED
    BY <2>1, <2>2
<1>4. ProgramHeard'
  <2> SUFFICES ASSUME NEW u \in Tuner, NEW p \in tuner'[u].started,
                      Listed(MydvbOf(u)', p), IsReady(MydvbOf(u)'.programs[p])
               PROVE  p \in heard'[u]
    BY DEF ProgramHeard, Listed
  <2>1. CASE u = t
    BY <2>1
  <2>2. CASE u # t
    <3>1. p \in tuner[u].started /\ Runs(u)'
      BY <2>2, <1>1 DEF IdleStarts
    <3>2. MydvbOf(u)' = MydvbOf(u)
      BY <2>2, <3>1, <1>2
    <3>3. QED
      BY <2>2, <3>1, <3>2 DEF HeardInv, ProgramHeard
  <2>3. QED
    BY <2>1, <2>2
<1>5. QED
  BY <1>1, <1>3, <1>4 DEF HeardInv

(* A running tuner and its decoder after a step that keeps it running.     *)
LEMMA StillFeeds ==
  ASSUME ReadyInv, NEW t \in Tuner, Runs(t), tuner'[t].front = tuner[t].front
  PROVE  /\ Runs(t)'
         /\ DecoderFor(tuner'[t].front) = DecoderFor(tuner[t].front)
         /\ MydvbOf(t)' = mydvb'[DecoderFor(tuner[t].front)]
BY DEF Runs, DecoderFor, MydvbOf

(* Nobody has been told anything, and nothing is known.                    *)
LEMMA HeardInvInit == Init => HeardInv
<1> SUFFICES ASSUME Init PROVE HeardInv
  OBVIOUS
<1>1. ReadyInv
  BY ReadyInvInit
<1>2. \A t \in Tuner : tuner[t] = Idle
  BY DEF Init
<1>3. \A t \in Tuner : ~Runs(t) /\ tuner[t].started = {}
  BY <1>2 DEF Idle, Runs
<1>4. QED
  BY <1>1, <1>3 DEF HeardInv, IdleStarts, ReadyHeard, ProgramHeard

(* mydvb_start_decoder tells READY of a decoder that is.                   *)
LEMMA StartDecoderHeard ==
  ASSUME HeardInv, ReadyInv', OneFeeder',
         NEW t \in Tuner, NEW x \in Transponder, StartDecoder(t, x)
  PROVE  HeardInv'
<1> DEFINE k == DecoderFor(x)
           n == WithReady(mydvb[k])
<1>1. k \in Channel
  BY DEF DecoderFor
<1>2. /\ mydvb' = [mydvb EXCEPT ![k] = n]
      /\ told' = [told EXCEPT ![t] = IF n.ready THEN 1 ELSE 0]
      /\ tuner' = [tuner EXCEPT ![t] = [Idle EXCEPT !.front = x]]
      /\ heard' = heard
  BY DEF StartDecoder
<1> HIDE DEF n
<1>3. mydvb'[k] = n /\ \A c \in Channel : c # k => mydvb'[c] = mydvb[c]
  BY <1>1, <1>2 DEF HeardInv, ReadyInv, TypeOK
<1>4. tuner'[t].front = x /\ tuner'[t].started = {}
  BY <1>2 DEF HeardInv, ReadyInv, TypeOK, Idle
<1>5. \A u \in Tuner \ {t} : tuner'[u] = tuner[u] /\ told'[u] = told[u] /\ heard'[u] = heard[u]
  BY <1>2 DEF HeardInv, ReadyInv, TypeOK
<1>6. Runs(t)'
  BY <1>4 DEF Runs
<1>7. MydvbOf(t)' = n /\ DecoderFor(tuner'[t].front) = k
  BY <1>3, <1>4 DEF MydvbOf, DecoderFor
<1>8. told'[t] = IF n.ready THEN 1 ELSE 0
  BY <1>2 DEF HeardInv, ReadyInv, TypeOK
<1> HIDE DEF k
<1>9. QED
  BY <1>3, <1>4, <1>5, <1>6, <1>7, <1>8, OnlyFeeder

(* mydvb_stop_decoder.                                                     *)
LEMMA StopDecoderHeard ==
  ASSUME HeardInv, ReadyInv', NEW t \in Tuner, StopDecoder(t)
  PROVE  HeardInv'
<1>1. /\ tuner' = [tuner EXCEPT ![t] = Idle] /\ mydvb' = mydvb
      /\ told' = [told EXCEPT ![t] = 0] /\ heard' = [heard EXCEPT ![t] = {}]
  BY DEF StopDecoder
<1>2. tuner'[t] = Idle
  BY <1>1 DEF HeardInv, ReadyInv, TypeOK
<1>3. ~Runs(t)' /\ tuner'[t].started = {}
  BY <1>2 DEF Idle, Runs
<1>4. \A u \in Tuner \ {t} : tuner'[u] = tuner[u] /\ told'[u] = told[u] /\ heard'[u] = heard[u]
  BY <1>1 DEF HeardInv, ReadyInv, TypeOK
<1>5. \A u \in Tuner \ {t} : (Runs(u)' <=> Runs(u)) /\ MydvbOf(u)' = MydvbOf(u)
  BY <1>1, <1>4 DEF Runs, MydvbOf, DecoderFor
<1>6. IdleStarts'
  BY <1>3, <1>4, <1>5 DEF HeardInv, IdleStarts
<1>7. ReadyHeard'
  BY <1>3, <1>4, <1>5 DEF HeardInv, ReadyHeard
<1>8. ProgramHeard'
  BY <1>3, <1>4, <1>5 DEF HeardInv, ProgramHeard, Listed
<1>9. QED
  BY <1>6, <1>7, <1>8 DEF HeardInv

(* mydvb_start_program tells PROGRAM of a program that is ready.           *)
LEMMA StartProgramHeard ==
  ASSUME HeardInv, ReadyInv', OneFeeder', NEW t \in Tuner, NEW p \in Program,
         StartProgram(t, p)
  PROVE  HeardInv'
<1> DEFINE place == MydvbOf(t).programs[p].place
<1>1. /\ tuner' = [tuner EXCEPT ![t].started = @ \cup {p}, ![t].maps = @ \cup {<<p, place>>}]
      /\ heard' = IF IsReady(MydvbOf(t).programs[p])
                  THEN [heard EXCEPT ![t] = @ \cup {p}] ELSE heard
      /\ Runs(t) /\ mydvb' = mydvb /\ told' = told
  BY DEF StartProgram
<1>2. tuner[t] \in TunerState
  BY DEF HeardInv, ReadyInv, TypeOK
<1> HIDE DEF place
<1>3. tuner'[t].front = tuner[t].front /\ tuner'[t].started = tuner[t].started \cup {p}
  BY <1>1, <1>2 DEF HeardInv, ReadyInv, TypeOK, TunerState
<1>4. \A u \in Tuner \ {t} : tuner'[u] = tuner[u] /\ told'[u] = told[u] /\ heard'[u] = heard[u]
  BY <1>1 DEF HeardInv, ReadyInv, TypeOK
<1>5. Runs(t)' /\ MydvbOf(t)' = MydvbOf(t)
  BY <1>1, <1>3 DEF Runs, MydvbOf, DecoderFor
<1>6. MydvbOf(t)'.ready => told'[t] = 1
  BY <1>1, <1>5 DEF HeardInv, ReadyHeard
<1>7. heard[t] \subseteq heard'[t] /\ (IsReady(MydvbOf(t).programs[p]) => p \in heard'[t])
  BY <1>1 DEF HeardInv, ReadyInv, TypeOK
<1>8. ASSUME NEW q \in tuner'[t].started,
             Listed(MydvbOf(t)', q), IsReady(MydvbOf(t)'.programs[q])
      PROVE  q \in heard'[t]
  <2>1. CASE q = p
    BY <2>1, <1>5, <1>7, <1>8
  <2>2. CASE q # p
    <3>1. q \in tuner[t].started
      BY <1>3, <2>2
    <3>2. Listed(MydvbOf(t), q) /\ IsReady(MydvbOf(t).programs[q])
      BY <1>5, <1>8
    <3>3. QED
      BY <1>7, <3>1, <3>2 DEF HeardInv, ProgramHeard
  <2>3. QED
    BY <2>1, <2>2
<1>9. \A c \in Channel : c # DecoderFor(tuner'[t].front) => mydvb'[c] = mydvb[c]
  BY <1>1
<1>10. QED
  BY <1>4, <1>5, <1>6, <1>8, <1>9, OnlyFeeder

(* mydvb_stop_program.                                                     *)
LEMMA StopProgramHeard ==
  ASSUME HeardInv, ReadyInv', OneFeeder', NEW t \in Tuner, NEW p \in Program,
         StopProgram(t, p)
  PROVE  HeardInv'
<1>1. /\ heard' = [heard EXCEPT ![t] = @ \ {p}]
      /\ Runs(t) /\ mydvb' = mydvb /\ told' = told
      /\ \E maps : tuner' = [tuner EXCEPT ![t].started = @ \ {p}, ![t].maps = maps]
  BY DEF StopProgram
<1>2. tuner[t] \in TunerState
  BY DEF HeardInv, ReadyInv, TypeOK
<1>3. tuner'[t].front = tuner[t].front /\ tuner'[t].started = tuner[t].started \ {p}
  BY <1>1, <1>2 DEF HeardInv, ReadyInv, TypeOK, TunerState
<1>4. \A u \in Tuner \ {t} : tuner'[u] = tuner[u] /\ told'[u] = told[u] /\ heard'[u] = heard[u]
  BY <1>1 DEF HeardInv, ReadyInv, TypeOK
<1>5. Runs(t)' /\ MydvbOf(t)' = MydvbOf(t)
  BY <1>1, <1>3 DEF Runs, MydvbOf, DecoderFor
<1>6. MydvbOf(t)'.ready => told'[t] = 1
  BY <1>1, <1>5 DEF HeardInv, ReadyHeard
<1>7. heard'[t] = heard[t] \ {p}
  BY <1>1 DEF HeardInv, ReadyInv, TypeOK
<1>8. ASSUME NEW q \in tuner'[t].started,
             Listed(MydvbOf(t)', q), IsReady(MydvbOf(t)'.programs[q])
      PROVE  q \in heard'[t]
  <2>1. q \in tuner[t].started /\ q # p
    BY <1>3
  <2>2. Listed(MydvbOf(t), q) /\ IsReady(MydvbOf(t).programs[q])
    BY <1>5, <1>8
  <2>3. QED
    BY <1>7, <2>1, <2>2 DEF HeardInv, ProgramHeard
<1>9. \A c \in Channel : c # DecoderFor(tuner'[t].front) => mydvb'[c] = mydvb[c]
  BY <1>1
<1>10. QED
  BY <1>4, <1>5, <1>6, <1>8, <1>9, OnlyFeeder

(* NotifyReady tells the tuner that has made its decoder ready.            *)
LEMMA NotifyReadyHeard ==
  ASSUME HeardInv, NEW t \in Tuner, Runs(t), NEW m \in Mydvb,
         m.ready = MydvbOf(t).ready, NotifyReady(t, m)
  PROVE  /\ mydvb' = [mydvb EXCEPT ![DecoderFor(tuner[t].front)] = WithReady(m)]
         /\ \A u \in Tuner \ {t} : told'[u] = told[u]
         /\ WithReady(m).ready => told'[t] = 1
<1> DEFINE n == WithReady(m)
<1>1. n \in Mydvb /\ (m.ready => n.ready)
  BY WithReadyType DEF Mydvb
<1>2. told' = IF ~m.ready /\ n.ready THEN [told EXCEPT ![t] = @ + 1] ELSE told
  BY DEF NotifyReady
<1> HIDE DEF n
<1>3. told \in [Tuner -> Nat]
  BY DEF HeardInv, ReadyInv, TypeOK
<1>4. \A u \in Tuner \ {t} : told'[u] = told[u]
  BY <1>2, <1>3
<1>5. ASSUME n.ready PROVE told'[t] = 1
  <2>1. CASE m.ready
    BY <1>2, <2>1 DEF HeardInv, ReadyHeard
  <2>2. CASE ~m.ready
    <3>1. told[t] = 0
      BY <2>2 DEF HeardInv, ReadyInv, ToldIsReady
    <3>2. told'[t] = told[t] + 1
      BY <1>2, <1>3, <1>5, <2>2
    <3>3. QED
      BY <3>1, <3>2
  <2>3. QED
    BY <2>1, <2>2
<1>6. mydvb' = [mydvb EXCEPT ![DecoderFor(tuner[t].front)] = n]
  BY DEF NotifyReady, n
<1>7. QED
  BY <1>4, <1>5, <1>6 DEF n

(* A tuner reads a section into its decoder.                               *)
LEMMA FedHeard ==
  ASSUME HeardInv, ReadyInv', OneFeeder', NEW t \in Tuner, Runs(t), NEW n,
         mydvb' = [mydvb EXCEPT ![DecoderFor(tuner[t].front)] = n],
         \A u \in Tuner \ {t} :
           tuner'[u] = tuner[u] /\ told'[u] = told[u] /\ heard'[u] = heard[u],
         tuner'[t].front = tuner[t].front, tuner'[t].started = tuner[t].started,
         n.ready => told'[t] = 1,
         \A p \in tuner[t].started :
           Listed(n, p) /\ IsReady(n.programs[p]) => p \in heard'[t]
  PROVE  HeardInv'
<1> DEFINE k == DecoderFor(tuner[t].front)
<1>1. k \in Channel
  BY RunningHasDecoder DEF HeardInv, ReadyInv
<1>2. Runs(t)' /\ DecoderFor(tuner'[t].front) = k /\ MydvbOf(t)' = mydvb'[k]
  BY StillFeeds DEF HeardInv
<1>3. mydvb'[k] = n /\ \A c \in Channel : c # k => mydvb'[c] = mydvb[c]
  BY <1>1 DEF HeardInv, ReadyInv, TypeOK
<1> HIDE DEF k
<1>4. QED
  BY <1>2, <1>3, OnlyFeeder

(* The first PAT may make a decoder ready; any new one has new programs,   *)
(* which are not.                                                          *)
LEMMA ReadPatHeard ==
  ASSUME HeardInv, ReadyInv', OneFeeder, OneFeeder', NEW t \in Tuner, ReadPat(t)
  PROVE  HeardInv'
<1> DEFINE k == DecoderFor(tuner[t].front)
           m == mydvb[k]
<1>1. PICK s \in waiting[t].pat :
        /\ IF m.pat = Unread
           THEN /\ NotifyReady(t, PatRead(m, s))
                /\ tuner' = [tuner EXCEPT ![t].nit = @ \/ s.nit]
           ELSE /\ mydvb' = [mydvb EXCEPT ![k] = PatRead(m, s)]
                /\ UNCHANGED <<tuner, told>>
        /\ heard' = IF s.version = m.pat THEN heard
                    ELSE [u \in Tuner |-> IF Runs(u) /\ DecoderFor(tuner[u].front) = k
                                          THEN {} ELSE heard[u]]
  BY DEF ReadPat
<1>2. s \in PatSections /\ tuner[t] \in TunerState
  BY DEF HeardInv, ReadyInv, TypeOK, Buffers
<1>3. Runs(t)
  BY <1>1 DEF HeardInv, ReadyInv, OnlyRunningWait, NoSections
<1>4. k \in Channel /\ m \in Mydvb /\ m = MydvbOf(t)
  BY <1>3, RunningHasDecoder DEF HeardInv, ReadyInv, MydvbOf
<1>5. PatRead(m, s) \in Mydvb /\ PatRead(m, s).ready = m.ready
  BY <1>2, <1>4, PatReadType
<1>6. PICK n \in Mydvb :
        /\ mydvb' = [mydvb EXCEPT ![k] = n]
        /\ n.programs = PatRead(m, s).programs /\ n.pat = PatRead(m, s).pat
        /\ n.ready => told'[t] = 1
        /\ \A u \in Tuner \ {t} : told'[u] = told[u]
  <2>1. CASE m.pat = Unread
    <3>1. NotifyReady(t, PatRead(m, s))
      BY <1>1, <2>1
    <3>2. WithReady(PatRead(m, s)) \in Mydvb
          /\ WithReady(PatRead(m, s)).programs = PatRead(m, s).programs
          /\ WithReady(PatRead(m, s)).pat = PatRead(m, s).pat
      BY <1>5, WithReadyType DEF WithReady, Mydvb
    <3>3. PatRead(m, s).ready = MydvbOf(t).ready
      BY <1>4, <1>5
    <3> HIDE DEF m
    <3>4. QED
      BY <1>3, <1>5, <3>1, <3>2, <3>3, NotifyReadyHeard
  <2>2. CASE m.pat # Unread
    <3>1. mydvb' = [mydvb EXCEPT ![k] = PatRead(m, s)] /\ told' = told
      BY <1>1, <2>2
    <3>2. PatRead(m, s).ready => told'[t] = 1
      BY <1>3, <1>4, <1>5, <3>1 DEF HeardInv, ReadyHeard
    <3> HIDE DEF m, k
    <3>3. QED
      BY <1>5, <3>1, <3>2
  <2>3. QED
    BY <2>1, <2>2
<1>7. /\ \A u \in Tuner \ {t} : tuner'[u] = tuner[u]
      /\ tuner'[t].front = tuner[t].front /\ tuner'[t].started = tuner[t].started
  BY <1>1, <1>2 DEF HeardInv, ReadyInv, TypeOK, TunerState
<1>8. \A u \in Tuner \ {t} : heard'[u] = heard[u]
  <2>1. \A u \in Tuner \ {t} : ~(Runs(u) /\ DecoderFor(tuner[u].front) = k)
    BY <1>3 DEF OneFeeder
  <2>2. QED
    BY <1>1, <2>1
<1>9. ASSUME NEW p \in tuner[t].started, Listed(n, p), IsReady(n.programs[p])
      PROVE  p \in heard'[t]
  <2>0. p \in Program
    BY <1>2 DEF TunerState
  <2>1. CASE s.version = m.pat
    <3>1. PatRead(m, s) = m /\ heard' = heard
      BY <1>1, <2>1 DEF PatRead
    <3>2. Listed(m, p) /\ IsReady(m.programs[p])
      BY <1>6, <1>9, <3>1 DEF Listed
    <3>3. QED
      BY <1>4, <3>1, <3>2 DEF HeardInv, ProgramHeard
  <2>2. CASE s.version # m.pat
    <3>1. PatRead(m, s).programs = [q \in Program |-> NewProgram(s.place[q])]
      BY <1>4, <2>2 DEF PatRead, Mydvb
    <3>2. n.programs[p] = NewProgram(s.place[p])
      BY <1>6, <2>0, <3>1
    <3>3. QED
      BY <1>9, <3>2 DEF NewProgram, IsReady
  <2>3. QED
    BY <2>1, <2>2
<1> HIDE DEF k, m
<1>10. mydvb' = [mydvb EXCEPT ![DecoderFor(tuner[t].front)] = n]
  BY <1>6 DEF k
<1>11. QED
  BY <1>3, <1>6, <1>7, <1>8, <1>9, <1>10, FedHeard

(* The SDT may make a decoder ready, and leaves its programs alone.        *)
LEMMA ReadSdtHeard ==
  ASSUME HeardInv, ReadyInv', OneFeeder', NEW t \in Tuner, ReadSdt(t)
  PROVE  HeardInv'
<1> DEFINE m == MydvbOf(t)
<1>1. PICK v \in waiting[t].sdt :
        NotifyReady(t, SdtRead(m, v)) /\ UNCHANGED <<tuner, heard>>
  BY DEF ReadSdt
<1>2. v \in Version
  BY DEF HeardInv, ReadyInv, TypeOK, Buffers
<1>3. Runs(t)
  BY <1>1 DEF HeardInv, ReadyInv, OnlyRunningWait, NoSections
<1>4. m \in Mydvb
  BY <1>3, RunningHasDecoder DEF HeardInv, ReadyInv
<1> DEFINE n == WithReady(SdtRead(m, v))
<1>5. SdtRead(m, v) \in Mydvb /\ SdtRead(m, v).ready = m.ready
  BY <1>2, <1>4, SdtReadType
<1>6. /\ mydvb' = [mydvb EXCEPT ![DecoderFor(tuner[t].front)] = n]
      /\ \A u \in Tuner \ {t} : told'[u] = told[u]
      /\ n.ready => told'[t] = 1
  <2> HIDE DEF m
  <2>1. SdtRead(m, v).ready = MydvbOf(t).ready
    BY <1>5 DEF m
  <2>2. QED
    BY <1>1, <1>3, <1>5, <2>1, NotifyReadyHeard
<1>7. n.programs = m.programs /\ n.pat = m.pat
  BY <1>4, <1>5, WithReadyType DEF WithReady, SdtRead, Mydvb
<1>8. \A p \in tuner[t].started : Listed(n, p) /\ IsReady(n.programs[p]) => p \in heard'[t]
  BY <1>1, <1>7 DEF HeardInv, ProgramHeard, Listed
<1> HIDE DEF n
<1>9. QED
  BY <1>1, <1>3, <1>6, <1>8, FedHeard

(* The NIT is not looked at.                                               *)
LEMMA ReadNitHeard ==
  ASSUME HeardInv, ReadyInv', OneFeeder', NEW t \in Tuner, ReadNit(t)
  PROVE  HeardInv'
<1> DEFINE m == MydvbOf(t)
<1>1. PICK v \in waiting[t].nit :
        /\ mydvb' = [mydvb EXCEPT ![DecoderFor(tuner[t].front)] = NitRead(m, v)]
        /\ UNCHANGED <<tuner, told, heard>>
  BY DEF ReadNit
<1>2. Runs(t)
  BY <1>1 DEF HeardInv, ReadyInv, OnlyRunningWait, NoSections
<1>3. m \in Mydvb
  BY <1>2, RunningHasDecoder DEF HeardInv, ReadyInv
<1> DEFINE n == NitRead(m, v)
<1>4. n.programs = m.programs /\ n.pat = m.pat /\ n.ready = m.ready
  BY <1>3 DEF NitRead, Mydvb
<1>5. n.ready => told'[t] = 1
  BY <1>1, <1>2, <1>4 DEF HeardInv, ReadyHeard
<1>6. \A p \in tuner[t].started : Listed(n, p) /\ IsReady(n.programs[p]) => p \in heard'[t]
  BY <1>1, <1>4 DEF HeardInv, ProgramHeard, Listed
<1> HIDE DEF n
<1>7. mydvb' = [mydvb EXCEPT ![DecoderFor(tuner[t].front)] = n]
  BY <1>1 DEF n
<1>8. QED
  BY <1>1, <1>2, <1>5, <1>6, <1>7, FedHeard

(* A map that is another one is told of.                                   *)
LEMMA ReadPmtHeard ==
  ASSUME HeardInv, ReadyInv', OneFeeder', NEW t \in Tuner, ReadPmt(t)
  PROVE  HeardInv'
<1> DEFINE m == MydvbOf(t)
<1>1. PICK w \in waiting[t].pmt :
        /\ mydvb' = [mydvb EXCEPT ![DecoderFor(tuner[t].front)] = PmtRead(m, w[1], w[3])]
        /\ heard' = IF Listed(m, w[1]) /\ m.programs[w[1]].version # w[3]
                    THEN [heard EXCEPT ![t] = @ \cup {w[1]}] ELSE heard
        /\ UNCHANGED <<tuner, told>>
  BY DEF ReadPmt
<1>2. Runs(t)
  BY <1>1 DEF HeardInv, ReadyInv, OnlyRunningWait, NoSections
<1>3. m \in Mydvb
  BY <1>2, RunningHasDecoder DEF HeardInv, ReadyInv
<1>4. w[1] \in Program /\ w[3] \in Version
  BY DEF HeardInv, ReadyInv, TypeOK, Buffers
<1> DEFINE n == PmtRead(m, w[1], w[3])
<1>5. n.pat = m.pat /\ n.ready = m.ready
  BY <1>3, <1>4, PmtReadType
<1>6. \A q \in Program : /\ n.programs[q].place = m.programs[q].place
                         /\ q # w[1] => n.programs[q] = m.programs[q]
                         /\ ~Listed(m, w[1]) => n.programs[q] = m.programs[q]
  <2>1. m.programs \in [Program -> ProgramState]
    BY <1>3 DEF Mydvb
  <2>2. CASE Listed(m, w[1])
    <3> DEFINE q == [m.programs[w[1]] EXCEPT !.version = w[3]]
    <3>1. n.programs = [m.programs EXCEPT ![w[1]] = q]
      BY <1>3, <2>2 DEF PmtRead, Mydvb
    <3>2. q.place = m.programs[w[1]].place
      BY <1>4, <2>1 DEF ProgramState
    <3> HIDE DEF q, n
    <3>3. QED
      BY <1>4, <2>1, <2>2, <3>1, <3>2
  <2>3. CASE ~Listed(m, w[1])
    BY <2>3 DEF PmtRead
  <2>4. QED
    BY <2>2, <2>3
<1>7. n.ready => told'[t] = 1
  BY <1>1, <1>2, <1>5 DEF HeardInv, ReadyHeard
<1>8. heard[t] \subseteq heard'[t] /\ \A u \in Tuner \ {t} : heard'[u] = heard[u]
  BY <1>1 DEF HeardInv, ReadyInv, TypeOK
<1>9. ASSUME NEW p \in tuner[t].started, Listed(n, p), IsReady(n.programs[p])
      PROVE  p \in heard'[t]
  <2>0. p \in Program
    BY DEF HeardInv, ReadyInv, TypeOK, TunerState
  <2>1. Listed(m, p)
    BY <1>5, <1>6, <1>9, <2>0 DEF Listed
  <2>2. CASE IsReady(m.programs[p])
    BY <1>8, <2>1, <2>2 DEF HeardInv, ProgramHeard
  <2>3. CASE ~IsReady(m.programs[p])
    <3>1. p = w[1]
      BY <1>6, <1>9, <2>0, <2>3
    <3>2. w[3] # Unread /\ m.programs[p].version = Unread
      BY <1>4, <2>3 DEF IsReady, Version, Versions, Unread
    <3>3. heard' = [heard EXCEPT ![t] = @ \cup {p}]
      BY <1>1, <2>1, <3>1, <3>2
    <3>4. QED
      BY <3>3 DEF HeardInv, ReadyInv, TypeOK
  <2>4. QED
    BY <2>2, <2>3
<1> HIDE DEF n
<1>10. mydvb' = [mydvb EXCEPT ![DecoderFor(tuner[t].front)] = n]
  BY <1>1 DEF n
<1>11. QED
  BY <1>1, <1>2, <1>7, <1>8, <1>9, <1>10, FedHeard

(* An event table leaves the programs as ready as they were.               *)
LEMMA ReadEitHeard ==
  ASSUME HeardInv, ReadyInv', OneFeeder', NEW t \in Tuner, ReadEit(t)
  PROVE  HeardInv'
<1> DEFINE m == MydvbOf(t)
           k == DecoderFor(tuner[t].front)
<1>1. PICK w \in waiting[t].eit :
        /\ mydvb' = IF Listed(m, w[1])
                    THEN [mydvb EXCEPT ![k].programs[w[1]].eit = EitRead(@, w[2], w[3])]
                    ELSE mydvb
        /\ UNCHANGED <<tuner, told, heard>>
  BY DEF ReadEit
<1>2. Runs(t)
  BY <1>1 DEF HeardInv, ReadyInv, OnlyRunningWait, NoSections
<1>3. k \in Channel /\ m \in Mydvb /\ m = mydvb[k]
  BY <1>2, RunningHasDecoder DEF HeardInv, ReadyInv, MydvbOf
<1>4. w[1] \in Program /\ m.programs \in [Program -> ProgramState]
  BY <1>3 DEF HeardInv, ReadyInv, TypeOK, Buffers, Mydvb
<1> DEFINE e == EitRead(m.programs[w[1]].eit, w[2], w[3])
           q == [m.programs[w[1]] EXCEPT !.eit = e]
           n == IF Listed(m, w[1])
                THEN [m EXCEPT !.programs = [m.programs EXCEPT ![w[1]] = q]] ELSE m
<1>5. mydvb' = [mydvb EXCEPT ![k] = n]
  BY <1>1, <1>3 DEF HeardInv, ReadyInv, TypeOK
<1>6. /\ n.pat = m.pat /\ n.ready = m.ready
      /\ \A p \in Program : /\ n.programs[p].place = m.programs[p].place
                            /\ n.programs[p].version = m.programs[p].version
  <2>1. q.place = m.programs[w[1]].place /\ q.version = m.programs[w[1]].version
    BY <1>4 DEF ProgramState
  <2> HIDE DEF q, m
  <2>2. QED
    BY <1>3, <1>4, <2>1 DEF Mydvb
<1>7. n.ready => told'[t] = 1
  BY <1>1, <1>2, <1>6 DEF HeardInv, ReadyHeard
<1>8. ASSUME NEW p \in tuner[t].started, Listed(n, p), IsReady(n.programs[p])
      PROVE  p \in heard'[t]
  <2>1. p \in Program
    BY DEF HeardInv, ReadyInv, TypeOK, TunerState
  <2>2. Listed(m, p) /\ IsReady(m.programs[p])
    BY <1>6, <1>8, <2>1 DEF Listed, IsReady
  <2>3. QED
    BY <1>1, <2>2 DEF HeardInv, ProgramHeard
<1> HIDE DEF n
<1>9. QED
  BY <1>1, <1>2, <1>5, <1>7, <1>8, FedHeard

(* Nothing changes for the clients of any tuner.                           *)
LEMMA HeardSame ==
  ASSUME HeardInv, ReadyInv', UNCHANGED <<mydvb, tuner, told, heard>>
  PROVE  HeardInv'
BY DEF HeardInv, IdleStarts, ReadyHeard, ProgramHeard, Runs, MydvbOf, DecoderFor, Listed

LEMMA HeardInvStep ==
  HeardInv /\ OneFeeder /\ OneFeeder' /\ [Next]_vars => HeardInv'
<1> SUFFICES ASSUME HeardInv, OneFeeder, OneFeeder', [Next]_vars PROVE HeardInv'
  OBVIOUS
<1>1. ReadyInv'
  BY ReadyInvStep DEF HeardInv
<1>2. ASSUME NEW t \in Tuner, ClientStep(t) PROVE HeardInv'
  BY <1>1, <1>2, StartDecoderHeard, StopDecoderHeard, StartProgramHeard, StopProgramHeard
  DEF ClientStep
<1>3. ASSUME NEW t \in Tuner, ReadTable(t) PROVE HeardInv'
  BY <1>1, <1>3, ReadPatHeard, ReadSdtHeard, ReadNitHeard, ReadPmtHeard, ReadEitHeard
  DEF ReadTable
<1>4. ASSUME NEW x \in Transponder, OnAir(x) PROVE HeardInv'
  <2>1. UNCHANGED <<mydvb, tuner, told, heard>>
    BY <1>4 DEF OnAir, SendPat, SendSdt, SendNit, SendPmt, SendEit, Change
  <2>2. QED
    BY <1>1, <2>1, HeardSame
<1>5. CASE UNCHANGED vars
  BY <1>1, <1>5, HeardSame DEF vars
<1>6. QED
  BY <1>2, <1>3, <1>4, <1>5 DEF Next

(* As long as no two tuners feed one decoder at once, a client that waits  *)
(* for READY has heard it when the decoder is ready, whichever of the PAT, *)
(* the SDT and mydvb_start_decoder made it so, through any loss, restarts, *)
(* changes and tuners that take turns at the decoder (__read_table).       *)
THEOREM ReadyIsHeard == Spec /\ []OneFeeder => []ReadyHeard
<1>1. HeardInv => ReadyHeard
  BY DEF HeardInv
<1>2. QED
  BY <1>1, HeardInvInit, HeardInvStep, PTL DEF Spec

(* Likewise a client that has started a program has heard PROGRAM when the *)
(* map of the program is there, though a PAT replaces the programs while   *)
(* their maps wait to be read, and a program may be ready when it is       *)
(* started (mydvb_start_program and __read_table).                         *)
THEOREM ProgramIsHeard == Spec /\ []OneFeeder => []ProgramHeard
<1>1. HeardInv => ProgramHeard
  BY DEF HeardInv
<1>2. QED
  BY <1>1, HeardInvInit, HeardInvStep, PTL DEF Spec

-----------------------------------------------------------------------------
(* The programs of a PAT, when a PAT is one section and a version is never *)
(* on the air twice.                                                       *)

VersionsLast == MaxChanges < Versions
OneSectionPat == NPat = 1

Age(current, v) == IF current >= v THEN current - v ELSE current - v + Versions

(* A PAT of version v is at most as old as there were changes, and has the *)
(* programs of the PAT a on the air if it is of its version.               *)
IsOf(v, place, a, n) ==
  /\ v \in Version
  /\ Age(a.version, v) <= n
  /\ v = a.version => \A p \in Program : place[p] = a.place[p]

PlacesOf(m) == [p \in Program |-> m.programs[p].place]

WaitingInv ==
  \A t \in Tuner : \A s \in waiting[t].pat : IsOf(s.version, s.place, air[s.ts_id].pat, changes)

KnownInv ==
  \A k \in Channel :
    mydvb[k].pat # Unread =>
      /\ mydvb[k].ts_id \in Transponder
      /\ IsOf(mydvb[k].pat, PlacesOf(mydvb[k]), air[mydvb[k].ts_id].pat, changes)

WholeInv == ReadyInv /\ WaitingInv /\ KnownInv

(* The PAT of a decoder is another decoder's, or that of a section.        *)
SamePat(n, m) == n.pat = m.pat /\ n.ts_id = m.ts_id /\ PlacesOf(n) = PlacesOf(m)
PatOf(n, s)   == n.pat = s.version /\ n.ts_id = s.ts_id /\ PlacesOf(n) = s.place

(* What is decoded of other tables, and mydvb_ready, leave the PAT alone.  *)
LEMMA OthersSamePat ==
  ASSUME NEW m \in Mydvb
  PROVE  /\ SamePat(m, m)
         /\ SamePat(WithReady(m), m)
         /\ \A v : SamePat(SdtRead(m, v), m) /\ SamePat(NitRead(m, v), m)
<1>1. SamePat(WithReady(m), m)
  <2>1. /\ WithReady(m).pat = m.pat /\ WithReady(m).ts_id = m.ts_id
        /\ WithReady(m).programs = m.programs
    BY DEF WithReady, Mydvb
  <2>2. QED
    BY <2>1 DEF SamePat, PlacesOf
<1>2. ASSUME NEW v PROVE SamePat(SdtRead(m, v), m)
  <2>1. /\ SdtRead(m, v).pat = m.pat /\ SdtRead(m, v).ts_id = m.ts_id
        /\ SdtRead(m, v).programs = m.programs
    BY DEF SdtRead, Mydvb
  <2>2. QED
    BY <2>1 DEF SamePat, PlacesOf
<1>3. ASSUME NEW v PROVE SamePat(NitRead(m, v), m)
  <2>1. /\ NitRead(m, v).pat = m.pat /\ NitRead(m, v).ts_id = m.ts_id
        /\ NitRead(m, v).programs = m.programs
    BY DEF NitRead, Mydvb
  <2>2. QED
    BY <2>1 DEF SamePat, PlacesOf
<1>4. SamePat(m, m)
  BY DEF SamePat
<1>5. QED
  BY <1>1, <1>2, <1>3, <1>4

(* Nor does what is decoded of one program, but for its place.             *)
LEMMA ProgramSamePat ==
  ASSUME NEW m \in Mydvb, NEW p \in Program, NEW q, q.place = m.programs[p].place
  PROVE  SamePat([m EXCEPT !.programs = [m.programs EXCEPT ![p] = q]], m)
<1> DEFINE n == [m EXCEPT !.programs = [m.programs EXCEPT ![p] = q]]
<1>1. n.pat = m.pat /\ n.ts_id = m.ts_id /\ n.programs = [m.programs EXCEPT ![p] = q]
  BY DEF Mydvb
<1>2. m.programs \in [Program -> ProgramState]
  BY DEF Mydvb
<1> HIDE DEF n
<1>3. \A r \in Program : n.programs[r].place = m.programs[r].place
  BY <1>1, <1>2
<1>4. PlacesOf(n) = PlacesOf(m)
  BY <1>3 DEF PlacesOf
<1>5. QED
  BY <1>1, <1>4 DEF SamePat, n

(* mydvb_new_pat_if_changed: the old PAT or the one that was read.         *)
LEMMA PatReadPat ==
  ASSUME NEW m \in Mydvb, NEW s \in PatSections
  PROVE  SamePat(PatRead(m, s), m) \/ PatOf(PatRead(m, s), s)
<1>1. CASE s.version = m.pat
  BY <1>1, OthersSamePat DEF PatRead
<1>2. CASE s.version # m.pat
  <2> DEFINE n == PatRead(m, s)
  <2>1. /\ n.pat = s.version /\ n.ts_id = s.ts_id
        /\ n.programs = [p \in Program |-> NewProgram(s.place[p])]
    BY <1>2 DEF PatRead, Mydvb
  <2>2. \A p \in Program : n.programs[p].place = s.place[p]
    BY <2>1 DEF NewProgram
  <2>3. s.place \in [Program -> Place \cup {NoPlace}]
    BY DEF PatSections
  <2> HIDE DEF n
  <2>4. PlacesOf(n) = s.place
    BY <2>2, <2>3 DEF PlacesOf
  <2>5. QED
    BY <2>1, <2>4 DEF PatOf, n
<1>3. QED
  BY <1>1, <1>2

(* A step that does not change the air: each buffer of PAT sections holds  *)
(* what it held or the PAT on the air, and each decoder has the PAT it had *)
(* or one that was in a buffer.                                            *)
LEMMA WholeKept ==
  ASSUME WholeInv, ReadyInv', OneSectionPat,
         changes' = changes, \A x \in Transponder : air'[x].pat = air[x].pat,
         \A t \in Tuner : \A s \in waiting'[t].pat :
           s \in waiting[t].pat \/ \E x \in Transponder : s = PatOnAir(x, 0),
         \A k \in Channel :
           \/ SamePat(mydvb'[k], mydvb[k])
           \/ \E t \in Tuner : \E s \in waiting[t].pat : PatOf(mydvb'[k], s)
  PROVE  WholeInv'
<1>1. ASSUME NEW x \in Transponder
      PROVE  IsOf(PatOnAir(x, 0).version, PatOnAir(x, 0).place, air[x].pat, changes)
             /\ PatOnAir(x, 0).ts_id = x
  <2>1. air[x].pat \in Pat /\ changes \in Nat
    BY DEF WholeInv, ReadyInv, TypeOK, Air
  <2>2. /\ PatOnAir(x, 0).version = air[x].pat.version /\ PatOnAir(x, 0).ts_id = x
        /\ PatOnAir(x, 0).place = [p \in Program |-> IF PatSectionOf[p] = 0
                                                     THEN air[x].pat.place[p] ELSE NoPlace]
    BY DEF PatOnAir
  <2>3. \A p \in Program : PatSectionOf[p] = 0
    BY DEF OneSectionPat, PatSection
  <2>4. air[x].pat.version \in Version
    BY <2>1 DEF Pat
  <2>5. Age(air[x].pat.version, air[x].pat.version) = 0
    BY <2>4 DEF Age, Version, Versions
  <2>6. \A p \in Program : PatOnAir(x, 0).place[p] = air[x].pat.place[p]
    BY <2>2, <2>3
  <2>7. QED
    BY <2>1, <2>2, <2>4, <2>5, <2>6 DEF IsOf
<1>2. WaitingInv'
  <2> SUFFICES ASSUME NEW t \in Tuner, NEW s \in waiting'[t].pat
               PROVE  IsOf(s.version, s.place, air[s.ts_id].pat, changes)
    <3>1. \A u \in Tuner : \A s \in waiting'[u].pat : s.ts_id \in Transponder
      <4>1. \A u \in Tuner : waiting'[u].pat \subseteq PatSections
        BY DEF ReadyInv, TypeOK, Buffers
      <4>2. QED
        BY <4>1 DEF PatSections
    <3>2. QED
      BY <3>1 DEF WaitingInv
  <2>1. CASE s \in waiting[t].pat
    BY <2>1 DEF WholeInv, WaitingInv
  <2>2. CASE \E x \in Transponder : s = PatOnAir(x, 0)
    BY <1>1, <2>2
  <2>3. QED
    BY <2>1, <2>2
<1>3. KnownInv'
  <2> SUFFICES ASSUME NEW k \in Channel, mydvb'[k].pat # Unread
               PROVE  /\ mydvb'[k].ts_id \in Transponder
                      /\ IsOf(mydvb'[k].pat, PlacesOf(mydvb'[k]), air[mydvb'[k].ts_id].pat, changes)
    BY DEF KnownInv, PlacesOf
  <2>1. CASE SamePat(mydvb'[k], mydvb[k])
    BY <2>1 DEF WholeInv, KnownInv, SamePat
  <2>2. CASE \E t \in Tuner : \E s \in waiting[t].pat : PatOf(mydvb'[k], s)
    <3>0. PICK t \in Tuner : \E s \in waiting[t].pat : PatOf(mydvb'[k], s)
      BY <2>2
    <3>1. PICK s \in waiting[t].pat : PatOf(mydvb'[k], s)
      BY <3>0
    <3>2. s \in PatSections
      BY DEF WholeInv, ReadyInv, TypeOK, Buffers
    <3>3. s.ts_id \in Transponder
      BY <3>2 DEF PatSections
    <3>4. QED
      BY <3>1, <3>3 DEF WholeInv, WaitingInv, PatOf
  <2>3. QED
    BY <2>1, <2>2
<1>4. QED
  BY <1>2, <1>3 DEF WholeInv

(* A new PAT makes every known one older; no other change matters.         *)
LEMMA ChangeWhole ==
  ASSUME WholeInv, ReadyInv', VersionsLast, NEW x \in Transponder, Change(x)
  PROVE  WholeInv'
<1>1. changes \in Nat /\ changes < MaxChanges /\ changes' = changes + 1
      /\ UNCHANGED <<mydvb, waiting>>
  BY DEF WholeInv, ReadyInv, TypeOK, Change
<1>2. \A y \in Transponder : air[y].pat \in Pat /\ air[y].pat.version \in Version
  BY DEF WholeInv, ReadyInv, TypeOK, Air, Pat
<1>3. \A y \in Transponder :
        \/ air'[y].pat = air[y].pat
        \/ air'[y].pat.version = Next32(air[y].pat.version)
  <2>1. air \in [Transponder -> Air]
    BY DEF WholeInv, ReadyInv, TypeOK
  <2>2. CASE \E place \in [Program -> Place \cup {NoPlace}], nit \in BOOLEAN :
               air' = [air EXCEPT ![x].pat = [version |-> Next32(@.version),
                                              place |-> place, nit |-> nit]]
    BY <2>1, <2>2 DEF Air
  <2>3. CASE air' = [air EXCEPT ![x].sdt = Next32(@)]
    BY <2>1, <2>3 DEF Air
  <2>4. CASE air' = [air EXCEPT ![x].nit = Next32(@)]
    BY <2>1, <2>4 DEF Air
  <2>5. CASE \E p \in Program : air' = [air EXCEPT ![x].pmt[p] = Next32(@)]
    BY <2>1, <2>5 DEF Air
  <2>6. CASE \E p \in Program : air' = [air EXCEPT ![x].eit[p] = Next32(@)]
    BY <2>1, <2>6 DEF Air
  <2>7. QED
    BY <2>2, <2>3, <2>4, <2>5, <2>6 DEF Change
<1>4. ASSUME NEW y \in Transponder, NEW v, NEW place, IsOf(v, place, air[y].pat, changes)
      PROVE  IsOf(v, place, air'[y].pat, changes')
  <2>1. v \in 0..31 /\ air[y].pat.version \in 0..31
    BY <1>2, <1>4 DEF IsOf, Version, Versions
  <2>2. Age(air[y].pat.version, v) <= changes
    BY <1>4 DEF IsOf
  <2>3. CASE air'[y].pat = air[y].pat
    <3>1. Age(air'[y].pat.version, v) <= changes'
      BY <1>1, <2>1, <2>2, <2>3 DEF Age, Versions
    <3>2. QED
      BY <1>4, <2>3, <3>1 DEF IsOf
  <2>4. CASE air'[y].pat.version = Next32(air[y].pat.version)
    <3> DEFINE c == air[y].pat.version
    <3>1. Next32(c) = IF c = 31 THEN 0 ELSE c + 1
      BY <2>1 DEF Next32, Versions
    <3>2. changes < 31 /\ changes' = changes + 1
      BY <1>1 DEF VersionsLast, Versions
    <3> HIDE DEF c
    <3>3. c \in 0..31 /\ Age(c, v) <= changes
      BY <2>1, <2>2 DEF c
    <3>4. Age(Next32(c), v) <= changes' /\ v # Next32(c)
      BY <1>1, <2>1, <3>1, <3>2, <3>3 DEF Age, Versions
    <3>5. QED
      BY <1>4, <2>4, <3>4 DEF IsOf, c
  <2>5. QED
    BY <1>3, <2>3, <2>4
<1>5. WaitingInv'
  <2> SUFFICES ASSUME NEW t \in Tuner, NEW s \in waiting[t].pat
               PROVE  IsOf(s.version, s.place, air'[s.ts_id].pat, changes')
    BY <1>1 DEF WaitingInv
  <2>1. s \in PatSections
    BY DEF WholeInv, ReadyInv, TypeOK, Buffers
  <2>2. s.ts_id \in Transponder
    BY <2>1 DEF PatSections
  <2>3. QED
    BY <1>4, <2>2 DEF WholeInv, WaitingInv
<1>6. KnownInv'
  <2> SUFFICES ASSUME NEW k \in Channel, mydvb[k].pat # Unread
               PROVE  /\ mydvb[k].ts_id \in Transponder
                      /\ IsOf(mydvb[k].pat, PlacesOf(mydvb[k]), air'[mydvb[k].ts_id].pat, changes')
    BY <1>1 DEF KnownInv, PlacesOf
  <2>1. QED
    BY <1>4 DEF WholeInv, KnownInv
<1>7. QED
  BY <1>5, <1>6 DEF WholeInv

(* What a step that leaves the air alone does to buffers and decoders.     *)
Sent == \A t \in Tuner : \A s \in waiting'[t].pat :
          s \in waiting[t].pat \/ \E x \in Transponder : s = PatOnAir(x, 0)
Read == \A k \in Channel :
          \/ SamePat(mydvb'[k], mydvb[k])
          \/ \E t \in Tuner : \E s \in waiting[t].pat : PatOf(mydvb'[k], s)

(* One decoder changes.                                                    *)
LEMMA OneRead ==
  ASSUME ReadyInv, NEW k \in Channel, NEW n, mydvb' = [mydvb EXCEPT ![k] = n],
         SamePat(n, mydvb[k]) \/ \E t \in Tuner : \E s \in waiting[t].pat : PatOf(n, s)
  PROVE  Read
<1>1. mydvb'[k] = n /\ \A c \in Channel \ {k} : mydvb'[c] = mydvb[c]
  BY DEF ReadyInv, TypeOK
<1>2. \A c \in Channel \ {k} : SamePat(mydvb'[c], mydvb[c])
  BY <1>1 DEF SamePat
<1>3. QED
  BY <1>1, <1>2 DEF Read

(* No decoder changes, or no buffer of PAT sections.                       *)
LEMMA NothingRead ==
  ASSUME mydvb' = mydvb PROVE Read
BY DEF Read, SamePat

LEMMA NothingSent ==
  ASSUME ReadyInv, NEW t \in Tuner, NEW b, b.pat \subseteq waiting[t].pat,
         waiting' = [waiting EXCEPT ![t] = b] \/ waiting' = waiting
  PROVE  Sent
BY DEF ReadyInv, TypeOK, Sent

LEMMA StartDecoderWhole ==
  ASSUME WholeInv, NEW t \in Tuner, NEW x \in Transponder, StartDecoder(t, x)
  PROVE  Sent /\ Read /\ UNCHANGED <<air, changes>>
<1> DEFINE k == DecoderFor(x)
<1>1. mydvb' = [mydvb EXCEPT ![k] = WithReady(mydvb[k])] /\ UNCHANGED <<air, changes, waiting>>
  BY DEF StartDecoder
<1>2. k \in Channel /\ mydvb[k] \in Mydvb
  BY DEF WholeInv, ReadyInv, TypeOK, DecoderFor
<1>3. SamePat(WithReady(mydvb[k]), mydvb[k])
  BY <1>2, OthersSamePat
<1> HIDE DEF k
<1>4. Read
  BY <1>1, <1>2, <1>3, OneRead DEF WholeInv
<1>5. QED
  BY <1>1, <1>4 DEF Sent

LEMMA ClientWhole ==
  ASSUME WholeInv, NEW t \in Tuner,
         StopDecoder(t) \/ \E p \in Program : StartProgram(t, p) \/ StopProgram(t, p)
  PROVE  Sent /\ Read /\ UNCHANGED <<air, changes>>
<1>1. UNCHANGED <<air, mydvb, changes>>
  BY DEF StopDecoder, StartProgram, StopProgram
<1>2. \E b : b.pat \subseteq waiting[t].pat
             /\ (waiting' = [waiting EXCEPT ![t] = b] \/ waiting' = waiting)
  <2>1. CASE StopDecoder(t)
    <3>1. waiting' = [waiting EXCEPT ![t] = NoSections]
      BY <2>1 DEF StopDecoder
    <3>2. QED
      BY <3>1 DEF NoSections
  <2>2. CASE \E p \in Program : StartProgram(t, p)
    BY <2>2 DEF StartProgram
  <2>3. ASSUME NEW p \in Program, StopProgram(t, p)
        PROVE  \E b : b.pat \subseteq waiting[t].pat
                      /\ (waiting' = [waiting EXCEPT ![t] = b] \/ waiting' = waiting)
    <3>1. \/ waiting' = waiting
          \/ \E rest : waiting' = [waiting EXCEPT ![t].pmt = rest]
      BY <2>3 DEF StopProgram
    <3>2. CASE waiting' = waiting
      BY <3>2
    <3>3. ASSUME NEW rest, waiting' = [waiting EXCEPT ![t].pmt = rest]
          PROVE  \E b : b.pat \subseteq waiting[t].pat /\ waiting' = [waiting EXCEPT ![t] = b]
      <4> DEFINE b == [waiting[t] EXCEPT !.pmt = rest]
      <4>1. b.pat = waiting[t].pat
        BY DEF WholeInv, ReadyInv, TypeOK, Buffers
      <4>2. waiting' = [waiting EXCEPT ![t] = b]
        BY <3>3
      <4> HIDE DEF b
      <4>3. QED
        BY <4>1, <4>2
    <3>4. QED
      BY <3>1, <3>2, <3>3
  <2>4. QED
    BY <2>1, <2>2, <2>3
<1>3. Sent
  BY <1>2, NothingSent DEF WholeInv
<1>4. QED
  BY <1>1, <1>3, NothingRead

LEMMA ReadPatWhole ==
  ASSUME WholeInv, NEW t \in Tuner, ReadPat(t)
  PROVE  Sent /\ Read /\ UNCHANGED <<air, changes>>
<1> DEFINE k == DecoderFor(tuner[t].front)
           m == mydvb[k]
<1>1. PICK s \in waiting[t].pat :
        /\ waiting' = [waiting EXCEPT ![t].pat = {}]
        /\ mydvb' \in {[mydvb EXCEPT ![k] = WithReady(PatRead(m, s))],
                       [mydvb EXCEPT ![k] = PatRead(m, s)]}
        /\ UNCHANGED <<air, changes>>
  BY DEF ReadPat, NotifyReady
<1>2. s \in PatSections /\ waiting[t] \in Buffers
  BY DEF WholeInv, ReadyInv, TypeOK, Buffers
<1>3. Runs(t)
  BY <1>1 DEF WholeInv, ReadyInv, OnlyRunningWait, NoSections
<1>4. k \in Channel /\ m \in Mydvb
  BY <1>3, RunningHasDecoder DEF WholeInv, ReadyInv, MydvbOf
<1> HIDE DEF k, m
<1>5. PatRead(m, s) \in Mydvb
  BY <1>2, <1>4, PatReadType
<1>6. SamePat(WithReady(PatRead(m, s)), PatRead(m, s))
  BY <1>5, OthersSamePat
<1>7. SamePat(PatRead(m, s), m) \/ PatOf(PatRead(m, s), s)
  BY <1>2, <1>4, PatReadPat
<1>8. SamePat(WithReady(PatRead(m, s)), m) \/ PatOf(WithReady(PatRead(m, s)), s)
  BY <1>6, <1>7 DEF SamePat, PatOf
<1>9. Read
  <2>1. CASE mydvb' = [mydvb EXCEPT ![k] = WithReady(PatRead(m, s))]
    BY <1>4, <1>8, <2>1, OneRead DEF WholeInv, m
  <2>2. CASE mydvb' = [mydvb EXCEPT ![k] = PatRead(m, s)]
    BY <1>4, <1>7, <2>2, OneRead DEF WholeInv, m
  <2>3. QED
    BY <1>1, <2>1, <2>2
<1>10. Sent
  <2>1. [waiting[t] EXCEPT !.pat = {}].pat \subseteq waiting[t].pat
    BY <1>2 DEF Buffers
  <2>2. waiting' = [waiting EXCEPT ![t] = [waiting[t] EXCEPT !.pat = {}]]
    BY <1>1
  <2>3. QED
    BY <2>1, <2>2, NothingSent DEF WholeInv
<1>11. QED
  BY <1>1, <1>9, <1>10

(* The tables that are no PAT, likewise.                                   *)
LEMMA ReadOtherWhole ==
  ASSUME WholeInv, NEW t \in Tuner, Runs(t), NEW n, SamePat(n, MydvbOf(t)),
         mydvb' = [mydvb EXCEPT ![DecoderFor(tuner[t].front)] = n],
         NEW b, b.pat = waiting[t].pat, waiting' = [waiting EXCEPT ![t] = b]
  PROVE  Sent /\ Read
<1>1. DecoderFor(tuner[t].front) \in Channel
  BY RunningHasDecoder DEF WholeInv, ReadyInv
<1>2. Read
  BY <1>1, OneRead DEF WholeInv, MydvbOf
<1>3. Sent
  BY NothingSent DEF WholeInv
<1>4. QED
  BY <1>2, <1>3

LEMMA ReadSdtWhole ==
  ASSUME WholeInv, NEW t \in Tuner, ReadSdt(t)
  PROVE  Sent /\ Read /\ UNCHANGED <<air, changes>>
<1> DEFINE b == [waiting[t] EXCEPT !.sdt = {}]
<1>1. PICK v \in waiting[t].sdt :
        /\ waiting' = [waiting EXCEPT ![t] = b]
        /\ mydvb' = [mydvb EXCEPT ![DecoderFor(tuner[t].front)]
                       = WithReady(SdtRead(MydvbOf(t), v))]
        /\ UNCHANGED <<air, changes>>
  BY DEF ReadSdt, NotifyReady
<1>2. Runs(t) /\ v \in Version
  BY <1>1 DEF WholeInv, ReadyInv, TypeOK, Buffers, OnlyRunningWait, NoSections
<1>3. MydvbOf(t) \in Mydvb
  BY <1>2, RunningHasDecoder DEF WholeInv, ReadyInv
<1>4. SdtRead(MydvbOf(t), v) \in Mydvb
  BY <1>2, <1>3, SdtReadType
<1>5. SamePat(WithReady(SdtRead(MydvbOf(t), v)), MydvbOf(t))
  <2>1. SamePat(WithReady(SdtRead(MydvbOf(t), v)), SdtRead(MydvbOf(t), v))
    BY <1>4, OthersSamePat
  <2>2. SamePat(SdtRead(MydvbOf(t), v), MydvbOf(t))
    BY <1>3, OthersSamePat
  <2>3. QED
    BY <2>1, <2>2 DEF SamePat
<1>6. b.pat = waiting[t].pat
  BY DEF WholeInv, ReadyInv, TypeOK, Buffers
<1> HIDE DEF b
<1>7. QED
  BY <1>1, <1>2, <1>5, <1>6, ReadOtherWhole

LEMMA ReadNitWhole ==
  ASSUME WholeInv, NEW t \in Tuner, ReadNit(t)
  PROVE  Sent /\ Read /\ UNCHANGED <<air, changes>>
<1> DEFINE b == [waiting[t] EXCEPT !.nit = {}]
<1>1. PICK v \in waiting[t].nit :
        /\ waiting' = [waiting EXCEPT ![t] = b]
        /\ mydvb' = [mydvb EXCEPT ![DecoderFor(tuner[t].front)] = NitRead(MydvbOf(t), v)]
        /\ UNCHANGED <<air, changes>>
  BY DEF ReadNit
<1>2. Runs(t)
  BY <1>1 DEF WholeInv, ReadyInv, TypeOK, Buffers, OnlyRunningWait, NoSections
<1>3. MydvbOf(t) \in Mydvb
  BY <1>2, RunningHasDecoder DEF WholeInv, ReadyInv
<1>4. SamePat(NitRead(MydvbOf(t), v), MydvbOf(t))
  BY <1>3, OthersSamePat
<1>5. b.pat = waiting[t].pat
  BY DEF WholeInv, ReadyInv, TypeOK, Buffers
<1> HIDE DEF b
<1>6. QED
  BY <1>1, <1>2, <1>4, <1>5, ReadOtherWhole

LEMMA ReadPmtWhole ==
  ASSUME WholeInv, NEW t \in Tuner, ReadPmt(t)
  PROVE  Sent /\ Read /\ UNCHANGED <<air, changes>>
<1> DEFINE m == MydvbOf(t)
<1>1. PICK w \in waiting[t].pmt :
        /\ waiting' = [waiting EXCEPT ![t].pmt = @ \ {w}]
        /\ mydvb' = [mydvb EXCEPT ![DecoderFor(tuner[t].front)] = PmtRead(m, w[1], w[3])]
        /\ UNCHANGED <<air, changes>>
  BY DEF ReadPmt
<1>2. Runs(t) /\ w[1] \in Program
  BY <1>1 DEF WholeInv, ReadyInv, TypeOK, Buffers, OnlyRunningWait, NoSections
<1>3. m \in Mydvb
  BY <1>2, RunningHasDecoder DEF WholeInv, ReadyInv
<1>4. SamePat(PmtRead(m, w[1], w[3]), m)
  <2> DEFINE q == [m.programs[w[1]] EXCEPT !.version = w[3]]
  <2>1. q.place = m.programs[w[1]].place
    BY <1>2, <1>3 DEF Mydvb, ProgramState
  <2>2. PmtRead(m, w[1], w[3]) \in {m, [m EXCEPT !.programs = [m.programs EXCEPT ![w[1]] = q]]}
    BY DEF PmtRead
  <2> HIDE DEF q, m
  <2>3. QED
    BY <1>2, <1>3, <2>1, <2>2, ProgramSamePat, OthersSamePat
<1> DEFINE b == [waiting[t] EXCEPT !.pmt = waiting[t].pmt \ {w}]
<1>5. b.pat = waiting[t].pat
  BY DEF WholeInv, ReadyInv, TypeOK, Buffers
<1>6. waiting' = [waiting EXCEPT ![t] = b]
  BY <1>1
<1> HIDE DEF b
<1>7. QED
  BY <1>1, <1>2, <1>4, <1>5, <1>6, ReadOtherWhole

LEMMA ReadEitWhole ==
  ASSUME WholeInv, NEW t \in Tuner, ReadEit(t)
  PROVE  Sent /\ Read /\ UNCHANGED <<air, changes>>
<1> DEFINE m == MydvbOf(t)
           k == DecoderFor(tuner[t].front)
<1>1. PICK w \in waiting[t].eit :
        /\ waiting' = [waiting EXCEPT ![t].eit = {}]
        /\ mydvb' = IF Listed(m, w[1])
                    THEN [mydvb EXCEPT ![k].programs[w[1]].eit = EitRead(@, w[2], w[3])]
                    ELSE mydvb
        /\ UNCHANGED <<air, changes>>
  BY DEF ReadEit
<1>2. Runs(t) /\ w[1] \in Program
  BY <1>1 DEF WholeInv, ReadyInv, TypeOK, Buffers, OnlyRunningWait, NoSections
<1>3. k \in Channel /\ m \in Mydvb /\ m = mydvb[k]
  BY <1>2, RunningHasDecoder DEF WholeInv, ReadyInv, MydvbOf
<1> DEFINE e == EitRead(m.programs[w[1]].eit, w[2], w[3])
           q == [m.programs[w[1]] EXCEPT !.eit = e]
           n == IF Listed(m, w[1])
                THEN [m EXCEPT !.programs = [m.programs EXCEPT ![w[1]] = q]] ELSE m
<1>4. mydvb' = [mydvb EXCEPT ![k] = n]
  BY <1>1, <1>3 DEF WholeInv, ReadyInv, TypeOK
<1>5. SamePat(n, m)
  <2>1. q.place = m.programs[w[1]].place
    BY <1>2, <1>3 DEF Mydvb, ProgramState
  <2> HIDE DEF q, m
  <2>2. QED
    BY <1>2, <1>3, <2>1, ProgramSamePat, OthersSamePat
<1> DEFINE b == [waiting[t] EXCEPT !.eit = {}]
<1>6. b.pat = waiting[t].pat
  BY DEF WholeInv, ReadyInv, TypeOK, Buffers
<1>7. waiting' = [waiting EXCEPT ![t] = b]
  BY <1>1
<1> HIDE DEF b, n
<1>8. QED
  BY <1>1, <1>2, <1>4, <1>5, <1>6, <1>7, ReadOtherWhole

(* Sections of a PAT that is one section are the PAT on the air.           *)
LEMMA SendWhole ==
  ASSUME WholeInv, OneSectionPat, NEW x \in Transponder, OnAir(x), ~Change(x)
  PROVE  Sent /\ mydvb' = mydvb /\ changes' = changes
         /\ \A y \in Transponder : air'[y].pat = air[y].pat
<1>1. ASSUME NEW takers, NEW full, NEW holding, Send(takers, full, holding),
             \A t \in Tuner : \A s \in holding[t].pat :
               s \in waiting[t].pat \/ \E y \in Transponder : s = PatOnAir(y, 0)
      PROVE  Sent
  BY <1>1 DEF Send, Sent
<1>2. \A t \in Tuner : waiting[t] \in Buffers
  BY DEF WholeInv, ReadyInv, TypeOK
<1>3. air \in [Transponder -> Air]
  BY DEF WholeInv, ReadyInv, TypeOK
<1>4. CASE \E n \in PatSection : SendPat(x, n)
  <2>1. PICK n \in PatSection : SendPat(x, n)
    BY <1>4
  <2>2. n = 0
    BY DEF OneSectionPat, PatSection
  <2> DEFINE holding == [t \in Tuner |-> [waiting[t] EXCEPT !.pat = {PatOnAir(x, 0)}]]
  <2>3. \A t \in Tuner : holding[t].pat = {PatOnAir(x, 0)}
    BY <1>2 DEF Buffers
  <2>4. \E takers, full : Send(takers, full, holding)
    BY <2>1, <2>2 DEF SendPat
  <2> HIDE DEF holding
  <2>5. Sent
    BY <1>1, <2>3, <2>4
  <2>6. UNCHANGED <<air, mydvb, changes>>
    BY <2>1 DEF SendPat
  <2>7. QED
    BY <2>5, <2>6
<1>5. CASE SendSdt(x)
  <2> DEFINE holding == [t \in Tuner |-> [waiting[t] EXCEPT !.sdt = {air[x].sdt}]]
  <2>1. \A t \in Tuner : holding[t].pat = waiting[t].pat
    BY <1>2 DEF Buffers
  <2>2. \E takers, full : Send(takers, full, holding)
    BY <1>5 DEF SendSdt
  <2> HIDE DEF holding
  <2>3. Sent
    BY <1>1, <2>1, <2>2
  <2>4. QED
    BY <1>5, <2>3 DEF SendSdt
<1>6. CASE SendNit(x)
  <2> DEFINE holding == [t \in Tuner |-> [waiting[t] EXCEPT !.nit = {air[x].nit}]]
  <2>1. \A t \in Tuner : holding[t].pat = waiting[t].pat
    BY <1>2 DEF Buffers
  <2>2. \E takers, full : Send(takers, full, holding)
    BY <1>6 DEF SendNit
  <2> HIDE DEF holding
  <2>3. Sent
    BY <1>1, <2>1, <2>2
  <2>4. QED
    BY <1>6, <2>3 DEF SendNit
<1>7. ASSUME NEW p \in Program, SendPmt(x, p)
      PROVE  Sent /\ UNCHANGED <<air, mydvb, changes>>
  <2> DEFINE w == <<p, air[x].pat.place[p], air[x].pmt[p]>>
             holding == [t \in Tuner |-> [waiting[t] EXCEPT !.pmt = @ \cup {w}]]
  <2>1. \A t \in Tuner : holding[t].pat = waiting[t].pat
    BY <1>2 DEF Buffers
  <2>2. \E takers, full : Send(takers, full, holding)
    BY <1>7 DEF SendPmt
  <2> HIDE DEF holding
  <2>3. Sent
    BY <1>1, <2>1, <2>2
  <2>4. QED
    BY <1>7, <2>3 DEF SendPmt
<1>8. ASSUME NEW p \in Program, SendEit(x, p)
      PROVE  Sent /\ UNCHANGED <<mydvb, changes>>
             /\ \A y \in Transponder : air'[y].pat = air[y].pat
  <2> DEFINE w == <<p, air[x].eit[p], air[x].turn[p]>>
             holding == [t \in Tuner |-> [waiting[t] EXCEPT !.eit = {w}]]
  <2>1. \A t \in Tuner : holding[t].pat = waiting[t].pat
    BY <1>2 DEF Buffers
  <2>2. \E takers, full : Send(takers, full, holding)
    BY <1>8 DEF SendEit
  <2> HIDE DEF holding
  <2>3. Sent
    BY <1>1, <2>1, <2>2
  <2>4. \E turn : air' = [air EXCEPT ![x].turn = turn]
    BY <1>8 DEF SendEit
  <2>5. \A y \in Transponder : air'[y].pat = air[y].pat
    BY <1>3, <2>4 DEF Air
  <2>6. QED
    BY <1>8, <2>3, <2>5 DEF SendEit
<1>9. QED
  BY <1>4, <1>5, <1>6, <1>7, <1>8 DEF OnAir

(* No version has been read, and none waits.                               *)
LEMMA WholeInvInit == Init => WholeInv
<1> SUFFICES ASSUME Init PROVE WholeInv
  OBVIOUS
<1>1. ReadyInv
  BY ReadyInvInit
<1>2. WaitingInv
  BY DEF Init, WaitingInv, NoSections
<1>3. KnownInv
  BY DEF Init, KnownInv, NewMydvb
<1>4. QED
  BY <1>1, <1>2, <1>3 DEF WholeInv

LEMMA WholeInvStep ==
  ASSUME OneSectionPat, VersionsLast, WholeInv, [Next]_vars
  PROVE  WholeInv'
<1>1. ReadyInv'
  BY ReadyInvStep DEF WholeInv
<1>2. ASSUME Sent, Read, changes' = changes, \A x \in Transponder : air'[x].pat = air[x].pat
      PROVE  WholeInv'
  BY <1>1, <1>2, WholeKept DEF Sent, Read
<1>3. ASSUME NEW t \in Tuner, ClientStep(t) PROVE WholeInv'
  <2>1. Sent /\ Read /\ UNCHANGED <<air, changes>>
    BY <1>3, StartDecoderWhole, ClientWhole DEF ClientStep
  <2>2. QED
    BY <1>2, <2>1
<1>4. ASSUME NEW t \in Tuner, ReadTable(t) PROVE WholeInv'
  <2>1. Sent /\ Read /\ UNCHANGED <<air, changes>>
    BY <1>4, ReadPatWhole, ReadSdtWhole, ReadNitWhole, ReadPmtWhole, ReadEitWhole
    DEF ReadTable
  <2>2. QED
    BY <1>2, <2>1
<1>5. ASSUME NEW x \in Transponder, OnAir(x) PROVE WholeInv'
  <2>1. CASE Change(x)
    BY <1>1, <2>1, ChangeWhole
  <2>2. CASE ~Change(x)
    <3>1. Sent /\ mydvb' = mydvb /\ changes' = changes
          /\ \A y \in Transponder : air'[y].pat = air[y].pat
      BY <1>5, <2>2, SendWhole
    <3>2. QED
      BY <1>2, <3>1, NothingRead
  <2>3. QED
    BY <2>1, <2>2
<1>6. CASE UNCHANGED vars
  <2>1. Sent /\ Read /\ UNCHANGED <<air, changes>>
    BY <1>6, NothingRead DEF vars, Sent
  <2>2. QED
    BY <1>2, <2>1
<1>7. QED
  BY <1>3, <1>4, <1>5, <1>6 DEF Next

(* A decoder that is ready and has the version of the PAT on the air has   *)
(* the programs on the air, whichever tuners on whichever transponders     *)
(* have fed it (mydvb_new_pat_if_changed): of a PAT in one section, until  *)
(* the 5 bits of a version are used up.                                    *)
THEOREM PatIsRight ==
  ASSUME OneSectionPat, VersionsLast
  PROVE  Spec => []PatIsWhole
<1>1. WholeInv => PatIsWhole
  <2> SUFFICES ASSUME WholeInv, NEW x \in Transponder, mydvb[DecoderFor(x)].ready,
                      mydvb[DecoderFor(x)].ts_id = x,
                      mydvb[DecoderFor(x)].pat = air[x].pat.version, NEW p \in Program
               PROVE  mydvb[DecoderFor(x)].programs[p].place = air[x].pat.place[p]
    BY DEF PatIsWhole
  <2>1. DecoderFor(x) \in Channel
    BY DEF DecoderFor
  <2>2. mydvb[DecoderFor(x)].pat # Unread
    BY <2>1 DEF WholeInv, ReadyInv, ReadyHasTables
  <2>3. PlacesOf(mydvb[DecoderFor(x)])[p] = air[x].pat.place[p]
    BY <2>1, <2>2 DEF WholeInv, KnownInv, IsOf
  <2>4. QED
    BY <2>3 DEF PlacesOf
<1>2. WholeInv /\ [Next]_vars => WholeInv'
  BY WholeInvStep
<1>3. QED
  BY <1>1, <1>2, WholeInvInit, PTL DEF Spec

-----------------------------------------------------------------------------
(* The sections of an event table, of a decoder that one tuner feeds, that *)
(* gets every section and is never stopped.                                *)

AllReceived == ~MayLose /\ ~MayRestart

NextSection(n) == IF n = NEit - 1 THEN 0 ELSE n + 1
Distance(i, n) == IF n >= i THEN n - i ELSE n - i + NEit

(* When section "next" is the next to be read, those from the initial one  *)
(* up to it have been added once, all if the round is complete.            *)
InRound(e, next) ==
  \/ e.version = Unread
  \/ e.incomplete = 0 /\ \A n \in EitSection : e.entries[n] = 1
  \/ /\ e.incomplete = 1 /\ e.initial \in EitSection
     /\ \A n \in EitSection :
          e.entries[n] = IF \/ n = e.initial \/ next = e.initial
                            \/ Distance(e.initial, n) < Distance(e.initial, next)
                         THEN 1 ELSE 0

Fed(k) == \E t \in Tuner : Runs(t) /\ DecoderFor(tuner[t].front) = k

OneWaits == \A t \in Tuner : \A v, w \in waiting[t].eit : v = w

TurnInv ==
  \A t \in Tuner : \A w \in waiting[t].eit :
    air[tuner[t].front].turn[w[1]] = NextSection(w[3])

RoundsInv ==
  \A t \in Tuner : Runs(t) =>
    \A p \in Program :
      /\ \A w \in waiting[t].eit : w[1] = p => InRound(MydvbOf(t).programs[p].eit, w[3])
      /\ (\A w \in waiting[t].eit : w[1] # p)
           => InRound(MydvbOf(t).programs[p].eit, air[tuner[t].front].turn[p])

UnreadInv ==
  \A k \in Channel, p \in Program :
    ~Fed(k) \/ ~Listed(mydvb[k], p) => mydvb[k].programs[p].eit.version = Unread

RoundInv == ReadyInv /\ OneWaits /\ TurnInv /\ RoundsInv /\ UnreadInv

(* mydvb_new_eit_if_changed adds the next section of the round.            *)
LEMMA EitReadRound ==
  ASSUME NEW e \in Eit, NEW v \in Version, NEW n \in EitSection, InRound(e, n)
  PROVE  InRound(EitRead(e, v, n), NextSection(n))
<1> DEFINE f == EitOfVersion(e, v, n)
           left == IF n = f.initial THEN f.incomplete - 1 ELSE f.incomplete
           r == EitRead(e, v, n)
<1>0. /\ NEit \in Nat /\ n \in 0..NEit - 1 /\ v # Unread
      /\ EitSection = 0..NEit - 1
  BY DEF EitSection, Version, Versions, Unread
<1>1. r = IF f.incomplete = 0 THEN e
          ELSE IF left = 0 THEN [f EXCEPT !.incomplete = 0]
          ELSE [f EXCEPT !.incomplete = left, !.entries[n] = @ + 1]
  BY DEF EitRead
<1>2. CASE e.version # v
  <2>1. f = [version |-> v, initial |-> n, incomplete |-> 2, entries |-> NoEit.entries]
    BY <1>2 DEF EitOfVersion
  <2>2. left = 1
    BY <2>1
  <2>3. r = [f EXCEPT !.incomplete = 1, !.entries[n] = @ + 1]
    BY <1>1, <2>1, <2>2
  <2>4. NoEit.entries = [m \in EitSection |-> 0]
    BY DEF NoEit
  <2> HIDE DEF r, left
  <2>5. /\ r.incomplete = 1 /\ r.initial = n
        /\ r.entries = [NoEit.entries EXCEPT ![n] = NoEit.entries[n] + 1]
    BY <2>1, <2>3
  <2>6. \A m \in EitSection : r.entries[m] = IF m = n THEN 1 ELSE 0
    BY <2>4, <2>5
  <2>7. \A m \in EitSection :
          m # n => ~(NextSection(n) = n \/ Distance(n, m) < Distance(n, NextSection(n)))
    BY <1>0 DEF NextSection, Distance
  <2>8. \A m \in EitSection :
          r.entries[m] = IF \/ m = r.initial \/ NextSection(n) = r.initial
                            \/ Distance(r.initial, m) < Distance(r.initial, NextSection(n))
                         THEN 1 ELSE 0
    BY <2>5, <2>6, <2>7
  <2>9. InRound(r, NextSection(n))
    BY <2>5, <2>8 DEF InRound
  <2>10. QED
    BY <2>9 DEF r
<1>3. CASE e.version = v
  <2>1. f = e
    BY <1>3 DEF EitOfVersion
  <2>2. e.version # Unread
    BY <1>0, <1>3
  <2>3. CASE e.incomplete = 0
    <3>1. r = e
      BY <1>1, <2>1, <2>3
    <3>2. \A m \in EitSection : e.entries[m] = 1
      BY <2>2, <2>3 DEF InRound
    <3>3. QED
      BY <2>3, <3>1, <3>2 DEF InRound
  <2>4. CASE e.incomplete # 0
    <3>1. /\ e.incomplete = 1 /\ e.initial \in EitSection
          /\ \A m \in EitSection :
               e.entries[m] = IF \/ m = e.initial \/ n = e.initial
                                 \/ Distance(e.initial, m) < Distance(e.initial, n)
                              THEN 1 ELSE 0
      BY <2>2, <2>4 DEF InRound
    <3>2. CASE n = e.initial
      <4>1. r = [e EXCEPT !.incomplete = 0]
        BY <1>1, <2>1, <3>1, <3>2
      <4>2. r.incomplete = 0 /\ r.entries = e.entries
        BY <4>1 DEF Eit
      <4>3. \A m \in EitSection : r.entries[m] = 1
        BY <3>1, <3>2, <4>2
      <4> HIDE DEF r
      <4>4. InRound(r, NextSection(n))
        BY <4>2, <4>3 DEF InRound
      <4>5. QED
        BY <4>4 DEF r
    <3>3. CASE n # e.initial
      <4>1. r = [e EXCEPT !.incomplete = 1, !.entries[n] = @ + 1]
        BY <1>1, <2>1, <3>1, <3>3
      <4>2. /\ r.incomplete = 1 /\ r.initial = e.initial
            /\ r.entries = [e.entries EXCEPT ![n] = e.entries[n] + 1]
        BY <4>1 DEF Eit
      <4>3. e.entries \in [EitSection -> Nat]
        BY DEF Eit
      <4> HIDE DEF r, f, left
      <4>4. e.entries[n] = 0
        BY <1>0, <3>1, <3>3 DEF Distance
      <4>5. \A m \in EitSection : r.entries[m] = IF m = n THEN 1 ELSE e.entries[m]
        BY <4>2, <4>3, <4>4
      <4> DEFINE i == e.initial
                 next == NextSection(n)
      <4>6. ASSUME NEW m \in EitSection
            PROVE  (m = i \/ next = i \/ Distance(i, m) < Distance(i, next))
                     <=> (m = n \/ m = i \/ Distance(i, m) < Distance(i, n))
        <5>1. i \in 0..NEit - 1 /\ m \in 0..NEit - 1 /\ n # i
          BY <1>0, <3>1, <3>3
        <5> HIDE DEF i
        <5>2. QED
          BY <1>0, <5>1 DEF NextSection, Distance
      <4>7. \A m \in EitSection :
              r.entries[m] = IF m = i \/ next = i \/ Distance(i, m) < Distance(i, next)
                             THEN 1 ELSE 0
        BY <3>1, <3>3, <4>5, <4>6
      <4>8. InRound(r, next)
        BY <3>1, <4>2, <4>7 DEF InRound
      <4>9. QED
        BY <4>8 DEF r
    <3>4. QED
      BY <3>2, <3>3
  <2>5. QED
    BY <2>3, <2>4
<1>4. QED
  BY <1>2, <1>3

(* The event tables of a decoder stay, or all of them are forgotten.       *)
EitsKept(n, m) ==
  \/ \A p \in Program : /\ n.programs[p].eit = m.programs[p].eit
                        /\ Listed(n, p) <=> Listed(m, p)
  \/ \A p \in Program : n.programs[p].eit.version = Unread

(* A step that is not about event tables.                                  *)
LEMMA RoundsKept ==
  ASSUME RoundInv, ReadyInv',
         \A t \in Tuner : waiting'[t].eit = waiting[t].eit /\ tuner'[t].front = tuner[t].front,
         \A x \in Transponder : air'[x].turn = air[x].turn,
         \A k \in Channel : EitsKept(mydvb'[k], mydvb[k])
  PROVE  RoundInv'
<1>1. OneWaits'
  BY DEF RoundInv, OneWaits
<1>2. \A t \in Tuner : Runs(t)' <=> Runs(t)
  BY DEF Runs
<1>3. \A k \in Channel : Fed(k)' <=> Fed(k)
  BY <1>2 DEF Fed, DecoderFor
<1>4. ASSUME NEW t \in Tuner, Runs(t)
      PROVE  /\ tuner[t].front \in Transponder
             /\ EitsKept(MydvbOf(t)', MydvbOf(t))
  <2>1. tuner[t].front \in Transponder /\ DecoderFor(tuner[t].front) \in Channel
    BY <1>4, RunningHasDecoder DEF RoundInv, ReadyInv
  <2>2. QED
    BY <2>1 DEF MydvbOf, DecoderFor
<1>5. TurnInv'
  <2> SUFFICES ASSUME NEW t \in Tuner, NEW w \in waiting[t].eit
               PROVE  air'[tuner[t].front].turn[w[1]] = NextSection(w[3])
    BY DEF TurnInv, NextSection
  <2>1. Runs(t)
    BY DEF RoundInv, ReadyInv, OnlyRunningWait, NoSections
  <2>2. QED
    BY <1>4, <2>1 DEF RoundInv, TurnInv
<1>6. RoundsInv'
  <2> SUFFICES ASSUME NEW t \in Tuner, Runs(t), NEW p \in Program
               PROVE  /\ \A w \in waiting[t].eit :
                           w[1] = p => InRound(MydvbOf(t)'.programs[p].eit, w[3])
                      /\ (\A w \in waiting[t].eit : w[1] # p)
                           => InRound(MydvbOf(t)'.programs[p].eit, air'[tuner[t].front].turn[p])
    BY <1>2 DEF RoundsInv, InRound, Distance
  <2>1. CASE MydvbOf(t)'.programs[p].eit.version = Unread
    BY <2>1 DEF InRound
  <2>2. CASE MydvbOf(t)'.programs[p].eit = MydvbOf(t).programs[p].eit
    BY <1>4, <2>2 DEF RoundInv, RoundsInv
  <2>3. QED
    BY <1>4, <2>1, <2>2 DEF EitsKept
<1>7. UnreadInv'
  BY <1>3 DEF RoundInv, UnreadInv, EitsKept
<1>8. QED
  BY <1>1, <1>5, <1>6, <1>7 DEF RoundInv

(* What decoding any other table does to the event tables.                 *)
LEMMA OthersEits ==
  ASSUME NEW m \in Mydvb
  PROVE  /\ EitsKept(m, m)
         /\ EitsKept(WithReady(m), m)
         /\ \A v \in Version : EitsKept(SdtRead(m, v), m) /\ EitsKept(NitRead(m, v), m)
         /\ \A s \in PatSections : EitsKept(PatRead(m, s), m)
         /\ \A p \in Program, v \in Version : EitsKept(PmtRead(m, p, v), m)
<1>1. ASSUME NEW n, n.programs = m.programs, n.pat = m.pat PROVE EitsKept(n, m)
  BY <1>1 DEF EitsKept, Listed
<1>2. WithReady(m).programs = m.programs /\ WithReady(m).pat = m.pat
  BY DEF WithReady, Mydvb
<1>3. ASSUME NEW v \in Version
      PROVE  /\ SdtRead(m, v).programs = m.programs /\ SdtRead(m, v).pat = m.pat
             /\ NitRead(m, v).programs = m.programs /\ NitRead(m, v).pat = m.pat
  BY DEF SdtRead, NitRead, Mydvb
<1>4. ASSUME NEW s \in PatSections PROVE EitsKept(PatRead(m, s), m)
  <2>1. CASE s.version = m.pat
    BY <1>1, <2>1 DEF PatRead
  <2>2. CASE s.version # m.pat
    <3>1. PatRead(m, s).programs = [p \in Program |-> NewProgram(s.place[p])]
      BY <2>2 DEF PatRead, Mydvb
    <3>2. \A p \in Program : PatRead(m, s).programs[p].eit.version = Unread
      BY <3>1 DEF NewProgram, NoEit
    <3>3. QED
      BY <3>2 DEF EitsKept
  <2>3. QED
    BY <2>1, <2>2
<1>5. ASSUME NEW p \in Program, NEW v \in Version PROVE EitsKept(PmtRead(m, p, v), m)
  <2>1. m.programs \in [Program -> ProgramState]
    BY DEF Mydvb
  <2>2. CASE Listed(m, p)
    <3> DEFINE q == [m.programs[p] EXCEPT !.version = v]
               n == PmtRead(m, p, v)
    <3>1. n.programs = [m.programs EXCEPT ![p] = q] /\ n.pat = m.pat
      BY <2>2 DEF PmtRead, Mydvb
    <3>2. q.place = m.programs[p].place /\ q.eit = m.programs[p].eit
      BY <2>1 DEF ProgramState
    <3> HIDE DEF q, n
    <3>3. \A r \in Program : /\ n.programs[r].eit = m.programs[r].eit
                             /\ n.programs[r].place = m.programs[r].place
      BY <2>1, <3>1, <3>2
    <3>4. EitsKept(n, m)
      BY <3>1, <3>3 DEF EitsKept, Listed
    <3>5. QED
      BY <3>4 DEF n
  <2>3. CASE ~Listed(m, p)
    BY <1>1, <2>3 DEF PmtRead
  <2>4. QED
    BY <2>2, <2>3
<1>6. EitsKept(m, m)
  BY <1>1
<1>7. EitsKept(WithReady(m), m)
  BY <1>1, <1>2
<1>8. \A v \in Version : EitsKept(SdtRead(m, v), m) /\ EitsKept(NitRead(m, v), m)
  BY <1>1, <1>3
<1>9. QED
  BY <1>4, <1>5, <1>6, <1>7, <1>8

(* One tuner reads into its decoder, and only a buffer changes.            *)
LEMMA FedRound ==
  ASSUME RoundInv, ReadyInv', NEW t \in Tuner, Runs(t), NEW n,
         EitsKept(n, MydvbOf(t)),
         mydvb' = [mydvb EXCEPT ![DecoderFor(tuner[t].front)] = n],
         NEW b, b.eit = waiting[t].eit, waiting' = [waiting EXCEPT ![t] = b],
         \A u \in Tuner : tuner'[u].front = tuner[u].front, air' = air
  PROVE  RoundInv'
<1> DEFINE k == DecoderFor(tuner[t].front)
<1>1. k \in Channel /\ MydvbOf(t) = mydvb[k]
  BY RunningHasDecoder DEF RoundInv, ReadyInv, MydvbOf
<1>2. \A c \in Channel : mydvb'[c] = IF c = k THEN n ELSE mydvb[c]
  BY <1>1 DEF RoundInv, ReadyInv, TypeOK
<1> HIDE DEF k
<1>3. \A c \in Channel : EitsKept(mydvb[c], mydvb[c])
  BY OthersEits DEF RoundInv, ReadyInv, TypeOK
<1>4. \A c \in Channel : EitsKept(mydvb'[c], mydvb[c])
  BY <1>1, <1>2, <1>3
<1>5. \A u \in Tuner : waiting'[u].eit = waiting[u].eit
  BY DEF RoundInv, ReadyInv, TypeOK
<1>6. QED
  BY <1>4, <1>5, RoundsKept

(* No decoder changes.                                                     *)
LEMMA DecodersRound ==
  ASSUME RoundInv, ReadyInv', mydvb' = mydvb,
         \A t \in Tuner : waiting'[t].eit = waiting[t].eit /\ tuner'[t].front = tuner[t].front,
         \A x \in Transponder : air'[x].turn = air[x].turn
  PROVE  RoundInv'
<1>1. \A k \in Channel : EitsKept(mydvb[k], mydvb[k])
  BY OthersEits DEF RoundInv, ReadyInv, TypeOK
<1>2. QED
  BY <1>1, RoundsKept

(* mydvb_start_decoder: nothing was ever read into the decoder, or another *)
(* tuner would feed it still.                                              *)
LEMMA StartDecoderRound ==
  ASSUME RoundInv, ReadyInv', OneFeeder',
         NEW t \in Tuner, NEW x \in Transponder, StartDecoder(t, x)
  PROVE  RoundInv'
<1> DEFINE k == DecoderFor(x)
           n == WithReady(mydvb[k])
<1>1. k \in Channel /\ mydvb[k] \in Mydvb
  BY DEF RoundInv, ReadyInv, TypeOK, DecoderFor
<1>2. /\ mydvb' = [mydvb EXCEPT ![k] = n] /\ ~Runs(t)
      /\ tuner' = [tuner EXCEPT ![t] = [Idle EXCEPT !.front = x]]
      /\ UNCHANGED <<air, waiting>>
  BY DEF StartDecoder
<1>3. n.programs = mydvb[k].programs /\ n.pat = mydvb[k].pat
  BY <1>1 DEF WithReady, Mydvb
<1> HIDE DEF n
<1>4. \A c \in Channel : mydvb'[c] = IF c = k THEN n ELSE mydvb[c]
  BY <1>1, <1>2 DEF RoundInv, ReadyInv, TypeOK
<1>5. \A u \in Tuner : tuner'[u].front = IF u = t THEN x ELSE tuner[u].front
  BY <1>2 DEF RoundInv, ReadyInv, TypeOK, Idle
<1>6. Runs(t)' /\ \A u \in Tuner \ {t} : Runs(u)' <=> Runs(u)
  BY <1>5 DEF Runs
<1>7. ~Fed(k)
  <2> SUFFICES ASSUME NEW u \in Tuner, Runs(u), DecoderFor(tuner[u].front) = k PROVE FALSE
    BY DEF Fed
  <2>1. u # t /\ Runs(u)'
    BY <1>2, <1>6
  <2>2. DecoderFor(tuner'[u].front) = DecoderFor(tuner'[t].front)
    BY <1>5, <2>1
  <2>3. QED
    BY <1>6, <2>1, <2>2 DEF OneFeeder, DecoderFor
<1>8. \A p \in Program : mydvb[k].programs[p].eit.version = Unread
  BY <1>1, <1>7 DEF RoundInv, UnreadInv
<1>9. OneWaits' /\ waiting[t].eit = {}
  BY <1>2 DEF RoundInv, OneWaits, ReadyInv, OnlyRunningWait, NoSections
<1>10. TurnInv'
  BY <1>2, <1>5, <1>9 DEF RoundInv, TurnInv, NextSection
<1>11. MydvbOf(t)' = n
  BY <1>1, <1>4, <1>5 DEF MydvbOf, DecoderFor
<1>12. ASSUME NEW u \in Tuner \ {t}, Runs(u) PROVE MydvbOf(u)' = MydvbOf(u)
  <2>1. DecoderFor(tuner[u].front) \in Channel
    BY <1>12, RunningHasDecoder DEF RoundInv, ReadyInv
  <2>2. DecoderFor(tuner[u].front) # k
    BY <1>7, <1>12 DEF Fed
  <2>3. QED
    BY <1>4, <1>5, <2>1, <2>2 DEF MydvbOf, DecoderFor
<1>13. RoundsInv'
  <2> SUFFICES ASSUME NEW u \in Tuner, Runs(u)', NEW p \in Program
               PROVE  /\ \A w \in waiting[u].eit :
                           w[1] = p => InRound(MydvbOf(u)'.programs[p].eit, w[3])
                      /\ (\A w \in waiting[u].eit : w[1] # p)
                           => InRound(MydvbOf(u)'.programs[p].eit, air[tuner'[u].front].turn[p])
    BY <1>2 DEF RoundsInv, InRound, Distance
  <2>1. CASE u = t
    BY <1>3, <1>8, <1>11, <2>1 DEF InRound
  <2>2. CASE u # t
    BY <1>5, <1>6, <1>12, <2>2 DEF RoundInv, RoundsInv
  <2>3. QED
    BY <2>1, <2>2
<1>14. UnreadInv'
  <2> SUFFICES ASSUME NEW c \in Channel, NEW p \in Program, ~Fed(c)' \/ ~Listed(mydvb'[c], p)
               PROVE  mydvb'[c].programs[p].eit.version = Unread
    BY DEF UnreadInv, Listed
  <2>1. CASE c = k
    BY <1>1, <1>3, <1>4, <1>8, <2>1
  <2>2. CASE c # k
    <3>1. Fed(c) => Fed(c)'
      <4> SUFFICES ASSUME NEW u \in Tuner, Runs(u), DecoderFor(tuner[u].front) = c
                   PROVE  Fed(c)'
        BY DEF Fed
      <4>1. u # t /\ Runs(u)' /\ tuner'[u].front = tuner[u].front
        BY <1>2, <1>5, <1>6
      <4>2. QED
        BY <4>1 DEF Fed, DecoderFor
    <3>2. mydvb'[c] = mydvb[c]
      BY <1>4, <2>2
    <3>3. QED
      BY <3>1, <3>2 DEF RoundInv, UnreadInv
  <2>3. QED
    BY <2>1, <2>2
<1>15. QED
  BY <1>9, <1>10, <1>13, <1>14 DEF RoundInv

(* mydvb_start_program and mydvb_stop_program.                             *)
LEMMA ProgramRound ==
  ASSUME RoundInv, ReadyInv', NEW t \in Tuner, NEW p \in Program,
         StartProgram(t, p) \/ StopProgram(t, p)
  PROVE  RoundInv'
<1>1. tuner[t] \in TunerState /\ waiting[t] \in Buffers
  BY DEF RoundInv, ReadyInv, TypeOK
<1>2. /\ UNCHANGED <<air, mydvb>>
      /\ \E started, maps : tuner' = [tuner EXCEPT ![t].started = started, ![t].maps = maps]
      /\ waiting' = waiting \/ \E rest : waiting' = [waiting EXCEPT ![t].pmt = rest]
  BY DEF StartProgram, StopProgram
<1>3. \A u \in Tuner : tuner'[u].front = tuner[u].front
  BY <1>1, <1>2 DEF RoundInv, ReadyInv, TypeOK, TunerState
<1>4. \A u \in Tuner : waiting'[u].eit = waiting[u].eit
  BY <1>1, <1>2 DEF RoundInv, ReadyInv, TypeOK, Buffers
<1>5. QED
  BY <1>2, <1>3, <1>4, DecodersRound

LEMMA ReadPatRound ==
  ASSUME RoundInv, ReadyInv', NEW t \in Tuner, ReadPat(t)
  PROVE  RoundInv'
<1> DEFINE k == DecoderFor(tuner[t].front)
           m == MydvbOf(t)
           b == [waiting[t] EXCEPT !.pat = {}]
<1>1. PICK s \in waiting[t].pat :
        /\ waiting' = [waiting EXCEPT ![t] = b]
        /\ mydvb' \in {[mydvb EXCEPT ![k] = WithReady(PatRead(m, s))],
                       [mydvb EXCEPT ![k] = PatRead(m, s)]}
        /\ tuner' = tuner \/ tuner' = [tuner EXCEPT ![t].nit = @ \/ s.nit]
        /\ air' = air
  BY DEF ReadPat, NotifyReady, MydvbOf
<1>2. s \in PatSections /\ b.eit = waiting[t].eit
  BY DEF RoundInv, ReadyInv, TypeOK, Buffers
<1>3. Runs(t)
  BY <1>1 DEF RoundInv, ReadyInv, OnlyRunningWait, NoSections
<1>4. m \in Mydvb
  BY <1>3, RunningHasDecoder DEF RoundInv, ReadyInv
<1>5. \A u \in Tuner : tuner'[u].front = tuner[u].front
  BY <1>1 DEF RoundInv, ReadyInv, TypeOK, TunerState
<1> HIDE DEF b, m
<1>6. PatRead(m, s) \in Mydvb
  BY <1>2, <1>4, PatReadType
<1>7. EitsKept(PatRead(m, s), m) /\ EitsKept(WithReady(PatRead(m, s)), PatRead(m, s))
  BY <1>2, <1>4, <1>6, OthersEits
<1>8. EitsKept(WithReady(PatRead(m, s)), m)
  BY <1>7 DEF EitsKept
<1>9. PICK n : EitsKept(n, m) /\ mydvb' = [mydvb EXCEPT ![k] = n]
  BY <1>1, <1>7, <1>8
<1>10. QED
  BY <1>1, <1>2, <1>3, <1>5, <1>9, FedRound DEF m

LEMMA ReadSdtRound ==
  ASSUME RoundInv, ReadyInv', NEW t \in Tuner, ReadSdt(t)
  PROVE  RoundInv'
<1> DEFINE m == MydvbOf(t)
           b == [waiting[t] EXCEPT !.sdt = {}]
<1>1. PICK v \in waiting[t].sdt :
        /\ waiting' = [waiting EXCEPT ![t] = b]
        /\ mydvb' = [mydvb EXCEPT ![DecoderFor(tuner[t].front)] = WithReady(SdtRead(m, v))]
        /\ UNCHANGED <<air, tuner>>
  BY DEF ReadSdt, NotifyReady
<1>2. v \in Version /\ b.eit = waiting[t].eit
  BY DEF RoundInv, ReadyInv, TypeOK, Buffers
<1>3. Runs(t)
  BY <1>1 DEF RoundInv, ReadyInv, OnlyRunningWait, NoSections
<1>4. m \in Mydvb
  BY <1>3, RunningHasDecoder DEF RoundInv, ReadyInv
<1> HIDE DEF b, m
<1>5. SdtRead(m, v) \in Mydvb
  BY <1>2, <1>4, SdtReadType
<1>6. EitsKept(SdtRead(m, v), m) /\ EitsKept(WithReady(SdtRead(m, v)), SdtRead(m, v))
  BY <1>2, <1>4, <1>5, OthersEits
<1>7. EitsKept(WithReady(SdtRead(m, v)), m)
  BY <1>6 DEF EitsKept
<1>8. QED
  BY <1>1, <1>2, <1>3, <1>7, FedRound DEF m

LEMMA ReadNitRound ==
  ASSUME RoundInv, ReadyInv', NEW t \in Tuner, ReadNit(t)
  PROVE  RoundInv'
<1> DEFINE m == MydvbOf(t)
           b == [waiting[t] EXCEPT !.nit = {}]
<1>1. PICK v \in waiting[t].nit :
        /\ waiting' = [waiting EXCEPT ![t] = b]
        /\ mydvb' = [mydvb EXCEPT ![DecoderFor(tuner[t].front)] = NitRead(m, v)]
        /\ UNCHANGED <<air, tuner>>
  BY DEF ReadNit
<1>2. v \in Version /\ b.eit = waiting[t].eit
  BY DEF RoundInv, ReadyInv, TypeOK, Buffers
<1>3. Runs(t)
  BY <1>1 DEF RoundInv, ReadyInv, OnlyRunningWait, NoSections
<1>4. m \in Mydvb
  BY <1>3, RunningHasDecoder DEF RoundInv, ReadyInv
<1> HIDE DEF b, m
<1>5. EitsKept(NitRead(m, v), m)
  BY <1>2, <1>4, OthersEits
<1>6. QED
  BY <1>1, <1>2, <1>3, <1>5, FedRound DEF m

LEMMA ReadPmtRound ==
  ASSUME RoundInv, ReadyInv', NEW t \in Tuner, ReadPmt(t)
  PROVE  RoundInv'
<1> DEFINE m == MydvbOf(t)
<1>1. PICK w \in waiting[t].pmt :
        /\ waiting' = [waiting EXCEPT ![t].pmt = @ \ {w}]
        /\ mydvb' = [mydvb EXCEPT ![DecoderFor(tuner[t].front)] = PmtRead(m, w[1], w[3])]
        /\ UNCHANGED <<air, tuner>>
  BY DEF ReadPmt
<1> DEFINE b == [waiting[t] EXCEPT !.pmt = waiting[t].pmt \ {w}]
<1>2. w[1] \in Program /\ w[3] \in Version /\ b.eit = waiting[t].eit
  BY DEF RoundInv, ReadyInv, TypeOK, Buffers
<1>3. Runs(t)
  BY <1>1 DEF RoundInv, ReadyInv, OnlyRunningWait, NoSections
<1>4. m \in Mydvb
  BY <1>3, RunningHasDecoder DEF RoundInv, ReadyInv
<1>5. waiting' = [waiting EXCEPT ![t] = b]
  BY <1>1
<1> HIDE DEF b, m
<1>6. EitsKept(PmtRead(m, w[1], w[3]), m)
  BY <1>2, <1>4, OthersEits
<1>7. QED
  BY <1>1, <1>2, <1>3, <1>5, <1>6, FedRound DEF m

(* The section that waits is the next one of its program; of a program     *)
(* that is not listed it is dropped.                                       *)
LEMMA ReadEitRound ==
  ASSUME RoundInv, ReadyInv', OneFeeder, NEW t \in Tuner, ReadEit(t)
  PROVE  RoundInv'
<1> DEFINE m == MydvbOf(t)
           k == DecoderFor(tuner[t].front)
           x == tuner[t].front
<1>1. PICK w \in waiting[t].eit :
        /\ waiting' = [waiting EXCEPT ![t].eit = {}]
        /\ mydvb' = IF Listed(m, w[1])
                    THEN [mydvb EXCEPT ![k].programs[w[1]].eit = EitRead(@, w[2], w[3])]
                    ELSE mydvb
        /\ UNCHANGED <<air, tuner>>
  BY DEF ReadEit
<1>2. Runs(t) /\ w[1] \in Program /\ w[2] \in Version /\ w[3] \in EitSection
  BY <1>1 DEF RoundInv, ReadyInv, TypeOK, Buffers, OnlyRunningWait, NoSections
<1>3. k \in Channel /\ m \in Mydvb /\ m = mydvb[k] /\ x \in Transponder
  BY <1>2, RunningHasDecoder DEF RoundInv, ReadyInv, MydvbOf
<1>4. m.programs \in [Program -> ProgramState]
  BY <1>3 DEF Mydvb
<1> DEFINE e == m.programs[w[1]].eit
           n == mydvb'[k]
<1>5. e \in Eit
  BY <1>2, <1>4 DEF ProgramState
<1>6. /\ \A c \in Channel : c # k => mydvb'[c] = mydvb[c]
      /\ \A q \in Program : Listed(n, q) <=> Listed(m, q)
      /\ \A q \in Program :
           n.programs[q].eit = IF q = w[1] /\ Listed(m, q) THEN EitRead(e, w[2], w[3])
                               ELSE m.programs[q].eit
  <2>1. CASE Listed(m, w[1])
    <3> DEFINE r == EitRead(e, w[2], w[3])
               z == [m.programs[w[1]] EXCEPT !.eit = r]
               y == [m EXCEPT !.programs = [m.programs EXCEPT ![w[1]] = z]]
    <3>1. mydvb' = [mydvb EXCEPT ![k] = y]
      BY <1>1, <1>3, <2>1 DEF RoundInv, ReadyInv, TypeOK
    <3>2. z.place = m.programs[w[1]].place /\ z.eit = r
      BY <1>2, <1>4 DEF ProgramState
    <3> HIDE DEF r, z
    <3>3. y.programs = [m.programs EXCEPT ![w[1]] = z] /\ y.pat = m.pat
      BY <1>3 DEF Mydvb
    <3> HIDE DEF y
    <3>4. n = y /\ \A c \in Channel : c # k => mydvb'[c] = mydvb[c]
      BY <1>3, <3>1 DEF RoundInv, ReadyInv, TypeOK
    <3> HIDE DEF n, m, e
    <3>5. \A q \in Program : y.programs[q].place = m.programs[q].place
      BY <1>2, <1>4, <3>2, <3>3
    <3>6. \A q \in Program : y.programs[q].eit = IF q = w[1] THEN r ELSE m.programs[q].eit
      BY <1>2, <1>4, <3>2, <3>3
    <3>7. QED
      BY <2>1, <3>3, <3>4, <3>5, <3>6 DEF Listed, r
  <2>2. CASE ~Listed(m, w[1])
    BY <1>1, <1>3, <2>2
  <2>3. QED
    BY <2>1, <2>2
<1>7. waiting'[t].eit = {} /\ \A u \in Tuner \ {t} : waiting'[u] = waiting[u]
  BY <1>1 DEF RoundInv, ReadyInv, TypeOK, Buffers
<1>8. OneWaits'
  BY <1>7 DEF RoundInv, OneWaits
<1>9. TurnInv'
  BY <1>1, <1>7 DEF RoundInv, TurnInv, NextSection
<1>10. MydvbOf(t)' = n
  BY <1>1 DEF MydvbOf, DecoderFor
<1>11. ASSUME NEW u \in Tuner \ {t}, Runs(u) PROVE MydvbOf(u)' = MydvbOf(u)
  <2>1. DecoderFor(tuner[u].front) \in Channel
    BY <1>11, RunningHasDecoder DEF RoundInv, ReadyInv
  <2>2. DecoderFor(tuner[u].front) # k
    BY <1>2, <1>11 DEF OneFeeder
  <2>3. QED
    BY <1>1, <1>6, <2>1, <2>2 DEF MydvbOf, DecoderFor
<1>12. air[x].turn[w[1]] = NextSection(w[3]) /\ \A v \in waiting[t].eit : v = w
  BY DEF RoundInv, TurnInv, OneWaits
<1>13. ASSUME NEW p \in Program PROVE InRound(n.programs[p].eit, air[x].turn[p])
  <2>1. CASE p = w[1]
    <3>1. InRound(e, w[3])
      BY <1>2 DEF RoundInv, RoundsInv
    <3>2. CASE Listed(m, p)
      <4>1. InRound(EitRead(e, w[2], w[3]), NextSection(w[3]))
        BY <1>2, <1>5, <3>1, EitReadRound
      <4>2. QED
        BY <1>6, <1>12, <2>1, <3>2, <4>1
    <3>3. CASE ~Listed(m, p)
      <4>1. m.programs[p].eit.version = Unread
        BY <1>3, <3>3 DEF RoundInv, UnreadInv
      <4>2. QED
        BY <1>6, <3>3, <4>1 DEF InRound
    <3>4. QED
      BY <3>2, <3>3
  <2>2. CASE p # w[1]
    <3>1. \A v \in waiting[t].eit : v[1] # p
      BY <1>12, <2>2
    <3>2. InRound(m.programs[p].eit, air[x].turn[p])
      BY <1>2, <3>1 DEF RoundInv, RoundsInv
    <3>3. QED
      BY <1>6, <2>2, <3>2
  <2>3. QED
    BY <2>1, <2>2
<1> HIDE DEF n
<1>14. RoundsInv'
  <2> SUFFICES ASSUME NEW u \in Tuner, Runs(u), NEW p \in Program
               PROVE  /\ \A v \in waiting'[u].eit :
                           v[1] = p => InRound(MydvbOf(u)'.programs[p].eit, v[3])
                      /\ (\A v \in waiting'[u].eit : v[1] # p)
                           => InRound(MydvbOf(u)'.programs[p].eit, air[tuner[u].front].turn[p])
    <3>2. tuner' = tuner /\ air' = air
      BY <1>1
    <3>3. \A s \in Tuner : Runs(s)' <=> Runs(s)
      BY <3>2 DEF Runs
    <3>4. QED
      BY <3>2, <3>3 DEF RoundsInv, InRound, Distance
  <2>1. CASE u = t
    BY <1>7, <1>10, <1>13, <2>1
  <2>2. CASE u # t
    BY <1>7, <1>11, <2>2 DEF RoundInv, RoundsInv
  <2>3. QED
    BY <2>1, <2>2
<1>15. UnreadInv'
  <2> SUFFICES ASSUME NEW c \in Channel, NEW p \in Program, ~Fed(c) \/ ~Listed(mydvb'[c], p)
               PROVE  mydvb'[c].programs[p].eit.version = Unread
    BY <1>1 DEF UnreadInv, Listed, Fed, Runs, DecoderFor
  <2>1. CASE c = k
    <3>1. ~Listed(m, p)
      BY <1>2, <1>6, <2>1 DEF Fed, n
    <3>2. m.programs[p].eit.version = Unread
      BY <1>3, <3>1 DEF RoundInv, UnreadInv
    <3>3. QED
      BY <1>6, <2>1, <3>1, <3>2 DEF n
  <2>2. CASE c # k
    BY <1>6, <2>2 DEF RoundInv, UnreadInv
  <2>3. QED
    BY <2>1, <2>2
<1>16. QED
  BY <1>8, <1>9, <1>14, <1>15 DEF RoundInv

(* Nobody who takes the section has another one waiting.                   *)
LEMMA SendEitRound ==
  ASSUME RoundInv, ReadyInv', ~MayLose,
         NEW x \in Transponder, NEW p \in Program, SendEit(x, p)
  PROVE  RoundInv'
<1> DEFINE n == air[x].turn[p]
           w == <<p, air[x].eit[p], n>>
<1>1. /\ NEit > 0
      /\ waiting' = [t \in Tuner |-> IF t \in Receivers(x) THEN [waiting[t] EXCEPT !.eit = {w}]
                                     ELSE waiting[t]]
      /\ \A t \in Receivers(x) : waiting[t].eit = {}
      /\ air' = [air EXCEPT ![x].turn[p] = (n + 1) % NEit]
      /\ UNCHANGED <<mydvb, tuner>>
  <2>1. /\ NEit > 0 /\ air' = [air EXCEPT ![x].turn[p] = (n + 1) % NEit]
        /\ UNCHANGED <<mydvb, tuner>>
        /\ Send(Receivers(x), {t \in Tuner : waiting[t].eit # {}},
                [t \in Tuner |-> [waiting[t] EXCEPT !.eit = {w}]])
    BY DEF SendEit
  <2>2. Receivers(x) \cap {t \in Tuner : waiting[t].eit # {}} = {}
    BY <2>1 DEF Send
  <2>3. \A t \in Receivers(x) : waiting[t].eit = {}
    BY <2>2 DEF Receivers
  <2>4. waiting' = [t \in Tuner |-> IF t \in Receivers(x) \ {u \in Tuner : waiting[u].eit # {}}
                                    THEN [waiting[t] EXCEPT !.eit = {w}] ELSE waiting[t]]
    BY <2>1 DEF Send
  <2>5. QED
    BY <2>1, <2>2, <2>3, <2>4
<1>2. n \in EitSection /\ (n + 1) % NEit = NextSection(n)
  <2>1. n \in EitSection \cup {0}
    BY DEF RoundInv, ReadyInv, TypeOK, Air
  <2> HIDE DEF n
  <2>2. NEit \in Nat /\ n \in 0..NEit - 1
    BY <1>1, <2>1 DEF EitSection
  <2>3. n + 1 < NEit => (n + 1) % NEit = n + 1
    BY <2>2
  <2>4. n + 1 = NEit => (n + 1) % NEit = 0
    BY <2>2
  <2>5. QED
    BY <2>2, <2>3, <2>4 DEF NextSection, EitSection
<1>3. /\ air'[x].turn[p] = NextSection(n)
      /\ \A q \in Program \ {p} : air'[x].turn[q] = air[x].turn[q]
      /\ \A y \in Transponder \ {x} : air'[y].turn = air[y].turn
  <2>1. air \in [Transponder -> Air] /\ air[x].turn \in [Program -> EitSection \cup {0}]
    BY DEF RoundInv, ReadyInv, TypeOK, Air
  <2>2. air'[x].turn = [air[x].turn EXCEPT ![p] = (n + 1) % NEit]
    BY <1>1, <2>1 DEF Air
  <2>3. \A y \in Transponder \ {x} : air'[y] = air[y]
    BY <1>1, <2>1
  <2>4. QED
    BY <1>2, <2>1, <2>2, <2>3
<1> HIDE DEF n
<1>4. \A t \in Tuner : IF t \in Receivers(x) THEN waiting'[t].eit = {w}
                       ELSE waiting'[t] = waiting[t]
  <2>1. \A t \in Tuner : waiting[t] \in Buffers
    BY DEF RoundInv, ReadyInv, TypeOK
  <2> HIDE DEF w
  <2>2. \A t \in Tuner : [waiting[t] EXCEPT !.eit = {w}].eit = {w}
    BY <2>1 DEF Buffers
  <2>3. QED
    BY <1>1, <2>2
<1>5. OneWaits'
  BY <1>4 DEF RoundInv, OneWaits
<1>6. ASSUME NEW t \in Tuner, Runs(t)
      PROVE  tuner[t].front \in Transponder /\ MydvbOf(t)' = MydvbOf(t)
             /\ (t \notin Receivers(x) => tuner[t].front # x)
  BY <1>1, <1>6, RunningHasDecoder DEF RoundInv, ReadyInv, MydvbOf, DecoderFor, Receivers
<1>7. TurnInv'
  <2> SUFFICES ASSUME NEW t \in Tuner, NEW v \in waiting'[t].eit
               PROVE  air'[tuner[t].front].turn[v[1]] = NextSection(v[3])
    BY <1>1 DEF TurnInv, NextSection
  <2>1. CASE t \in Receivers(x)
    <3>1. v = w /\ tuner[t].front = x
      BY <1>4, <2>1 DEF Receivers
    <3>2. QED
      BY <1>3, <3>1
  <2>2. CASE t \notin Receivers(x)
    <3>1. v \in waiting[t].eit
      BY <1>4, <2>2
    <3>2. Runs(t)
      BY <3>1 DEF RoundInv, ReadyInv, OnlyRunningWait, NoSections
    <3>3. air'[tuner[t].front].turn = air[tuner[t].front].turn
      BY <1>3, <1>6, <2>2, <3>2
    <3>4. QED
      BY <3>1, <3>3 DEF RoundInv, TurnInv
  <2>3. QED
    BY <2>1, <2>2
<1>8. RoundsInv'
  <2> SUFFICES ASSUME NEW t \in Tuner, Runs(t), NEW q \in Program
               PROVE  /\ \A v \in waiting'[t].eit :
                           v[1] = q => InRound(MydvbOf(t).programs[q].eit, v[3])
                      /\ (\A v \in waiting'[t].eit : v[1] # q)
                           => InRound(MydvbOf(t).programs[q].eit, air'[tuner[t].front].turn[q])
    BY <1>1, <1>6 DEF RoundsInv, InRound, Distance, Runs
  <2>1. CASE t \in Receivers(x)
    <3>1. tuner[t].front = x /\ waiting[t].eit = {} /\ waiting'[t].eit = {w}
      BY <1>1, <1>4, <2>1 DEF Receivers
    <3>2. InRound(MydvbOf(t).programs[q].eit, air[x].turn[q])
      BY <3>1 DEF RoundInv, RoundsInv
    <3>3. CASE q = p
      BY <3>1, <3>2, <3>3 DEF n
    <3>4. CASE q # p
      BY <1>3, <3>1, <3>2, <3>4
    <3>5. QED
      BY <3>3, <3>4
  <2>2. CASE t \notin Receivers(x)
    <3>1. air'[tuner[t].front].turn = air[tuner[t].front].turn /\ waiting'[t] = waiting[t]
      BY <1>3, <1>4, <1>6, <2>2
    <3>2. QED
      BY <3>1 DEF RoundInv, RoundsInv
  <2>3. QED
    BY <2>1, <2>2
<1>9. UnreadInv'
  BY <1>1 DEF RoundInv, UnreadInv, Fed, Runs, DecoderFor, Listed
<1>10. QED
  BY <1>5, <1>7, <1>8, <1>9 DEF RoundInv

(* Other sections, and changes of tables.                                  *)
LEMMA OnAirRound ==
  ASSUME RoundInv, ReadyInv', ~MayLose, NEW x \in Transponder, OnAir(x)
  PROVE  RoundInv'
<1>1. \A t \in Tuner : waiting[t] \in Buffers
  BY DEF RoundInv, ReadyInv, TypeOK
<1>2. ASSUME NEW takers, NEW full, NEW holding, Send(takers, full, holding),
             \A t \in Tuner : holding[t].eit = waiting[t].eit, UNCHANGED <<air, mydvb, tuner>>
      PROVE  RoundInv'
  <2>1. \A t \in Tuner : waiting'[t].eit = waiting[t].eit
    BY <1>2 DEF Send
  <2>2. QED
    BY <1>2, <2>1, DecodersRound
<1>3. ASSUME NEW n \in PatSection, SendPat(x, n) PROVE RoundInv'
  <2> DEFINE holding == [t \in Tuner |-> [waiting[t] EXCEPT !.pat = {PatOnAir(x, n)}]]
  <2>1. \A t \in Tuner : holding[t].eit = waiting[t].eit
    BY <1>1 DEF Buffers
  <2>2. \E takers, full : Send(takers, full, holding) /\ UNCHANGED <<air, mydvb, tuner>>
    BY <1>3 DEF SendPat
  <2> HIDE DEF holding
  <2>3. QED
    BY <1>2, <2>1, <2>2
<1>4. CASE SendSdt(x)
  <2> DEFINE holding == [t \in Tuner |-> [waiting[t] EXCEPT !.sdt = {air[x].sdt}]]
  <2>1. \A t \in Tuner : holding[t].eit = waiting[t].eit
    BY <1>1 DEF Buffers
  <2>2. \E takers, full : Send(takers, full, holding) /\ UNCHANGED <<air, mydvb, tuner>>
    BY <1>4 DEF SendSdt
  <2> HIDE DEF holding
  <2>3. QED
    BY <1>2, <2>1, <2>2
<1>5. CASE SendNit(x)
  <2> DEFINE holding == [t \in Tuner |-> [waiting[t] EXCEPT !.nit = {air[x].nit}]]
  <2>1. \A t \in Tuner : holding[t].eit = waiting[t].eit
    BY <1>1 DEF Buffers
  <2>2. \E takers, full : Send(takers, full, holding) /\ UNCHANGED <<air, mydvb, tuner>>
    BY <1>5 DEF SendNit
  <2> HIDE DEF holding
  <2>3. QED
    BY <1>2, <2>1, <2>2
<1>6. ASSUME NEW p \in Program, SendPmt(x, p) PROVE RoundInv'
  <2> DEFINE w == <<p, air[x].pat.place[p], air[x].pmt[p]>>
             holding == [t \in Tuner |-> [waiting[t] EXCEPT !.pmt = @ \cup {w}]]
  <2>1. \A t \in Tuner : holding[t].eit = waiting[t].eit
    BY <1>1 DEF Buffers
  <2>2. \E takers, full : Send(takers, full, holding) /\ UNCHANGED <<air, mydvb, tuner>>
    BY <1>6 DEF SendPmt
  <2> HIDE DEF holding
  <2>3. QED
    BY <1>2, <2>1, <2>2
<1>7. ASSUME NEW p \in Program, SendEit(x, p) PROVE RoundInv'
  BY <1>7, SendEitRound
<1>8. CASE Change(x)
  <2>1. \A y \in Transponder : air'[y].turn = air[y].turn
    <3>1. air \in [Transponder -> Air]
      BY DEF RoundInv, ReadyInv, TypeOK
    <3>2. \/ \E pat : air' = [air EXCEPT ![x].pat = pat]
          \/ \E v : air' = [air EXCEPT ![x].sdt = v]
          \/ \E v : air' = [air EXCEPT ![x].nit = v]
          \/ \E p, v : air' = [air EXCEPT ![x].pmt[p] = v]
          \/ \E p, v : air' = [air EXCEPT ![x].eit[p] = v]
      BY <1>8 DEF Change
    <3>3. ASSUME NEW a, a.turn = air[x].turn, air' = [air EXCEPT ![x] = a]
          PROVE  \A y \in Transponder : air'[y].turn = air[y].turn
      BY <3>1, <3>3
    <3>4. air[x] \in Air
      BY <3>1
    <3>5. CASE \E pat : air' = [air EXCEPT ![x].pat = pat]
      BY <3>3, <3>4, <3>5 DEF Air
    <3>6. CASE \E v : air' = [air EXCEPT ![x].sdt = v]
      BY <3>3, <3>4, <3>6 DEF Air
    <3>7. CASE \E v : air' = [air EXCEPT ![x].nit = v]
      BY <3>3, <3>4, <3>7 DEF Air
    <3>8. CASE \E p, v : air' = [air EXCEPT ![x].pmt[p] = v]
      BY <3>3, <3>4, <3>8 DEF Air
    <3>9. CASE \E p, v : air' = [air EXCEPT ![x].eit[p] = v]
      BY <3>3, <3>4, <3>9 DEF Air
    <3>10. QED
      BY <3>2, <3>5, <3>6, <3>7, <3>8, <3>9
  <2>2. UNCHANGED <<mydvb, tuner, waiting>>
    BY <1>8 DEF Change
  <2>3. QED
    BY <2>1, <2>2, DecodersRound
<1>9. QED
  BY <1>3, <1>4, <1>5, <1>6, <1>7, <1>8 DEF OnAir

LEMMA RoundInvInit == Init => RoundInv
<1> SUFFICES ASSUME Init PROVE RoundInv
  OBVIOUS
<1>1. ReadyInv
  BY ReadyInvInit
<1>2. OneWaits /\ TurnInv
  BY DEF Init, OneWaits, TurnInv, NoSections
<1>3. RoundsInv
  BY DEF Init, RoundsInv, Runs, Idle
<1>4. UnreadInv
  BY DEF Init, UnreadInv, NewMydvb, NewProgram, NoEit
<1>5. QED
  BY <1>1, <1>2, <1>3, <1>4 DEF RoundInv

LEMMA RoundInvStep ==
  ASSUME AllReceived, RoundInv, OneFeeder, OneFeeder', [Next]_vars
  PROVE  RoundInv'
<1>1. ReadyInv'
  BY ReadyInvStep DEF RoundInv
<1>2. ASSUME NEW t \in Tuner, ClientStep(t) PROVE RoundInv'
  <2>1. ~StopDecoder(t)
    BY DEF AllReceived, StopDecoder
  <2>2. QED
    BY <1>1, <1>2, <2>1, StartDecoderRound, ProgramRound DEF ClientStep
<1>3. ASSUME NEW t \in Tuner, ReadTable(t) PROVE RoundInv'
  BY <1>1, <1>3, ReadPatRound, ReadSdtRound, ReadNitRound, ReadPmtRound, ReadEitRound
  DEF ReadTable
<1>4. ASSUME NEW x \in Transponder, OnAir(x) PROVE RoundInv'
  BY <1>1, <1>4, OnAirRound DEF AllReceived
<1>5. CASE UNCHANGED vars
  BY <1>1, <1>5, DecodersRound DEF vars
<1>6. QED
  BY <1>2, <1>3, <1>4, <1>5 DEF Next

(* An event table that is not incomplete has each of its sections once,    *)
(* whatever section it was begun with, however often its version changes   *)
(* and a new PAT replaces its program (mydvb_new_eit_if_changed): of a     *)
(* decoder that one tuner feeds, gets every section and is never stopped.  *)
THEOREM EitIsRight ==
  ASSUME AllReceived
  PROVE  Spec /\ []OneFeeder => []EitIsWhole
<1>1. RoundInv => EitIsWhole
  <2> SUFFICES ASSUME RoundInv, NEW k \in Channel, NEW p \in Program,
                      mydvb[k].programs[p].eit.version # Unread,
                      mydvb[k].programs[p].eit.incomplete = 0
               PROVE  \A n \in EitSection : mydvb[k].programs[p].eit.entries[n] = 1
    BY DEF EitIsWhole
  <2>1. PICK t \in Tuner : Runs(t) /\ DecoderFor(tuner[t].front) = k
    BY DEF RoundInv, UnreadInv, Fed
  <2>2. MydvbOf(t) = mydvb[k]
    BY <2>1 DEF MydvbOf
  <2>3. \E next : InRound(mydvb[k].programs[p].eit, next)
    BY <2>1, <2>2 DEF RoundInv, RoundsInv
  <2>4. QED
    BY <2>3 DEF InRound
<1>2. RoundInv /\ OneFeeder /\ OneFeeder' /\ [Next]_vars => RoundInv'
  BY RoundInvStep
<1>3. QED
  BY <1>1, <1>2, RoundInvInit, PTL DEF Spec
=============================================================================
