-------------------------- MODULE MainLoop_proofs ---------------------------
(* Proofs about MainLoop, for every set of descriptors and size of the     *)
(* table: see README.md, "What is proved".                                 *)
EXTENDS MainLoop, SequenceTheorems, TLAPS

(* A descriptor is in one slot only. *)
PolledOnce == \A k, l \in DOMAIN pfd : pfd[k].fd = pfd[l].fd => k = l

LoopInv == TypeOK /\ PolledOnce /\ ReadyHasData

LEMMA Slots ==
  ASSUME TypeOK
  PROVE  /\ DOMAIN pfd = 1..Len(pfd) /\ Len(pfd) \in Nat
         /\ \A k \in DOMAIN pfd : /\ pfd[k] \in Slot /\ k \in Nat
                                  /\ pfd[k].fd \in Fd /\ pfd[k].revents \in BOOLEAN
<1>1. pfd \in Seq(Slot)
  BY DEF TypeOK
<1>2. DOMAIN pfd = 1..Len(pfd) /\ Len(pfd) \in Nat
  BY <1>1, LenProperties
<1>3. \A k \in DOMAIN pfd : pfd[k] \in Slot
  BY <1>1, <1>2, ElementOfSeq
<1> QED BY <1>2, <1>3 DEF Slot

LEMMA InitLoop == Init => LoopInv
<1> SUFFICES ASSUME Init PROVE LoopInv
  OBVIOUS
<1>1. /\ j = 1 /\ phase = "poll" /\ mainloop = TRUE /\ data = {} /\ shifted = FALSE
      /\ pfd = <<>> \/ \E fd \in Fd : pfd = <<[fd |-> fd, revents |-> FALSE]>>
  BY DEF Init
<1>2. pfd \in Seq(Slot) /\ PolledOnce
  <2>1. CASE pfd = <<>>
    BY <2>1, EmptySeq DEF PolledOnce
  <2>2. ASSUME NEW fd \in Fd, pfd = <<[fd |-> fd, revents |-> FALSE]>>
        PROVE  pfd \in Seq(Slot) /\ PolledOnce
    <3>1. [fd |-> fd, revents |-> FALSE] \in Slot
      BY DEF Slot
    <3> QED BY <2>2, <3>1 DEF PolledOnce
  <2> QED BY <1>1, <2>1, <2>2
<1>3. TypeOK
  <2>1. j \in Nat \ {0} /\ data \subseteq Fd
    BY <1>1
  <2>2. shifted \in BOOLEAN /\ mainloop \in BOOLEAN
    BY <1>1
  <2>3. phase \in Phase
    BY <1>1 DEF Phase
  <2> QED BY <1>2, <2>1, <2>2, <2>3 DEF TypeOK
<1>4. ReadyHasData
  BY <1>1 DEF ReadyHasData
<1> QED BY <1>2, <1>3, <1>4 DEF LoopInv

-----------------------------------------------------------------------------
(* One lemma per action.                                                   *)

(* A new slot is not said to be ready. *)
LEMMA AddPollLoop ==
  ASSUME LoopInv, NEW fd \in Fd, AddPoll(fd)
  PROVE  LoopInv'
<1> DEFINE new == [fd |-> fd, revents |-> FALSE]
<1>1. /\ pfd' = Append(pfd, new) /\ fd \notin Polled
      /\ UNCHANGED <<j, phase, mainloop, data, shifted>>
  BY DEF AddPoll
<1>2. pfd \in Seq(Slot) /\ new \in Slot
  BY DEF LoopInv, TypeOK, Slot
<1>3. new.fd = fd /\ new.revents = FALSE
  OBVIOUS
<1> HIDE DEF new
<1>4. /\ pfd' \in Seq(Slot) /\ Len(pfd') = Len(pfd) + 1
      /\ \A k \in 1..Len(pfd) : pfd'[k] = pfd[k]
      /\ pfd'[Len(pfd) + 1] = new
  BY <1>1, <1>2, AppendProperties
<1>5. /\ DOMAIN pfd = 1..Len(pfd) /\ Len(pfd) \in Nat
      /\ DOMAIN pfd' = 1..Len(pfd) + 1
  BY <1>2, <1>4, LenProperties
<1>6. \A k \in DOMAIN pfd' : \/ k \in DOMAIN pfd /\ pfd'[k] = pfd[k] /\ pfd[k].fd # fd
                             \/ k = Len(pfd) + 1 /\ pfd'[k] = new
  BY <1>1, <1>4, <1>5 DEF Polled
<1>7. TypeOK'
  BY <1>1, <1>4 DEF LoopInv, TypeOK
<1>8. PolledOnce'
  BY <1>3, <1>6 DEF LoopInv, PolledOnce
<1>9. ReadyHasData'
  BY <1>1, <1>3, <1>6 DEF LoopInv, ReadyHasData, Ahead
<1> QED BY <1>7, <1>8, <1>9 DEF LoopInv

LEMMA RemovePollLoop ==
  ASSUME LoopInv, NEW r \in DOMAIN pfd, RemovePoll(r)
  PROVE  LoopInv'
<1> DEFINE moved(l) == IF l < r THEN pfd[l]
                       ELSE [fd |-> pfd[l + 1].fd, revents |-> pfd[l].revents]
<1>1. /\ pfd' = [l \in 1..Len(pfd) - 1 |-> moved(l)]
      /\ data' = data \ {pfd[r].fd} /\ shifted' = TRUE
      /\ UNCHANGED <<j, phase, mainloop>>
  BY DEF RemovePoll
<1>2. /\ DOMAIN pfd = 1..Len(pfd) /\ Len(pfd) \in Nat
      /\ \A k \in DOMAIN pfd : pfd[k].fd \in Fd /\ pfd[k].revents \in BOOLEAN /\ pfd[k] \in Slot
  BY Slots DEF LoopInv
<1>3. \A l \in 1..Len(pfd) - 1 : l \in DOMAIN pfd /\ l + 1 \in DOMAIN pfd
  BY <1>2
<1>4. \A l \in 1..Len(pfd) - 1 :
        moved(l) \in Slot /\ moved(l).fd = IF l < r THEN pfd[l].fd ELSE pfd[l + 1].fd
  BY <1>2, <1>3 DEF Slot
<1> HIDE DEF moved
<1>5. Len(pfd) - 1 \in Nat
  BY <1>2
<1>6. pfd' \in [1..Len(pfd) - 1 -> Slot]
  BY <1>1, <1>4
<1>7. pfd' \in Seq(Slot)
  BY <1>5, <1>6, SeqDef
<1>8. TypeOK'
  BY <1>1, <1>7 DEF LoopInv, TypeOK
<1>9. PolledOnce'
  <2> SUFFICES ASSUME NEW k \in 1..Len(pfd) - 1, NEW l \in 1..Len(pfd) - 1,
                      moved(k).fd = moved(l).fd
               PROVE  k = l
    BY <1>1 DEF PolledOnce
  <2>1. (IF k < r THEN k ELSE k + 1) = (IF l < r THEN l ELSE l + 1)
    BY <1>3, <1>4 DEF LoopInv, PolledOnce
  <2> QED BY <1>2, <2>1
<1>10. ReadyHasData'
  BY <1>1 DEF ReadyHasData
<1> QED BY <1>8, <1>9, <1>10 DEF LoopInv

(* Poll says what is true. *)
LEMMA PollLoop ==
  ASSUME LoopInv, Poll
  PROVE  LoopInv'
<1> DEFINE polled(k) == [fd |-> pfd[k].fd, revents |-> pfd[k].fd \in data]
<1>1. /\ pfd' = [k \in DOMAIN pfd |-> polled(k)]
      /\ shifted' = FALSE /\ j' = 1 /\ phase' \in {"scan", "check"}
      /\ UNCHANGED <<mainloop, data>>
  BY DEF Poll
<1>2. /\ DOMAIN pfd = 1..Len(pfd) /\ Len(pfd) \in Nat
      /\ \A k \in DOMAIN pfd : pfd[k] \in Slot
  BY Slots DEF LoopInv
<1>3. \A k \in DOMAIN pfd : /\ polled(k) \in Slot /\ polled(k).fd = pfd[k].fd
                            /\ polled(k).revents = (pfd[k].fd \in data)
  <2> SUFFICES ASSUME NEW k \in DOMAIN pfd
               PROVE  polled(k) \in Slot
    OBVIOUS
  <2>1. (pfd[k].fd \in data) \in BOOLEAN
    OBVIOUS
  <2>2. pfd[k].fd \in Fd
    BY <1>2 DEF Slot
  <2> QED BY <2>1, <2>2 DEF Slot
<1> HIDE DEF polled
<1>4. pfd' \in Seq(Slot)
  <2>1. pfd' \in [1..Len(pfd) -> Slot]
    BY <1>1, <1>2, <1>3
  <2> QED BY <1>2, <2>1, SeqDef
<1>5. TypeOK'
  <2>1. j' \in Nat \ {0}
    BY <1>1
  <2>2. shifted' \in BOOLEAN
    BY <1>1
  <2>3. phase' \in Phase
    BY <1>1 DEF Phase
  <2> QED BY <1>1, <1>4, <2>1, <2>2, <2>3 DEF LoopInv, TypeOK
<1>6. PolledOnce'
  BY <1>1, <1>3 DEF LoopInv, PolledOnce
<1>7. ReadyHasData'
  BY <1>1, <1>3 DEF ReadyHasData, Ahead
<1> QED BY <1>5, <1>6, <1>7 DEF LoopInv

(* Serving a slot takes the data of no other. *)
LEMMA ServeLoop ==
  ASSUME LoopInv, Serve \/ Unblock
  PROVE  LoopInv'
<1>1. /\ phase \in {"scan", "read"} /\ phase' = "callback" /\ data' = data \ {pfd[j].fd}
      /\ phase = "scan" => j \in 1..Len(pfd)
      /\ UNCHANGED <<pfd, j, mainloop, shifted>>
  BY DEF Serve, Unblock, LoopInv, TypeOK
<1>2. j \in Nat /\ DOMAIN pfd = 1..Len(pfd) /\ Len(pfd) \in Nat
  BY Slots DEF LoopInv, TypeOK
<1>3. TypeOK'
  BY <1>1 DEF LoopInv, TypeOK, Phase
<1>4. PolledOnce'
  BY <1>1 DEF LoopInv, PolledOnce
<1>5. ReadyHasData'
  <2> SUFFICES ASSUME ~shifted, NEW k \in DOMAIN pfd, k > j, pfd[k].revents
               PROVE  pfd[k].fd \in data \ {pfd[j].fd}
    BY <1>1 DEF ReadyHasData, Ahead
  <2>1. phase = "scan"
    BY <1>1 DEF LoopInv, ReadyHasData
  <2>2. pfd[k].fd \in data
    BY <2>1 DEF LoopInv, ReadyHasData, Ahead
  <2>3. j \in DOMAIN pfd /\ k # j
    BY <1>1, <1>2, <2>1
  <2> QED BY <2>2, <2>3 DEF LoopInv, PolledOnce
<1> QED BY <1>3, <1>4, <1>5 DEF LoopInv

(* A device that was said to have data and has none was not ready of       *)
(* itself: the table was shifted.                                          *)
LEMMA BlockLoop ==
  ASSUME LoopInv, Block
  PROVE  LoopInv'
<1>1. /\ phase = "scan" /\ j <= Len(pfd) /\ pfd[j].revents /\ pfd[j].fd \notin data
      /\ phase' = "read" /\ UNCHANGED <<pfd, j, mainloop, data, shifted>>
  BY DEF Block
<1>2. j \in DOMAIN pfd
  BY <1>1, Slots DEF LoopInv, TypeOK
<1>3. shifted
  BY <1>1, <1>2 DEF LoopInv, ReadyHasData, Ahead, TypeOK
<1>4. TypeOK' /\ PolledOnce'
  BY <1>1 DEF LoopInv, TypeOK, Phase, PolledOnce
<1>5. ReadyHasData'
  BY <1>1, <1>3 DEF ReadyHasData
<1> QED BY <1>4, <1>5 DEF LoopInv

(* The rest of the loop only moves on. *)
LEMMA MovesOnLoop ==
  ASSUME LoopInv,
         Skip \/ Return \/ EndScan \/ EndRound \/ EndMainLoop \/ (\E fd \in Fd : Arrive(fd))
  PROVE  LoopInv'
<1>1. j \in Nat /\ \A k \in DOMAIN pfd : k \in Nat
  BY Slots DEF LoopInv, TypeOK
<1>2. pfd' = pfd /\ shifted' = shifted
  BY DEF Skip, Return, EndScan, EndRound, EndMainLoop, Arrive
<1>3. PolledOnce'
  BY <1>2 DEF LoopInv, PolledOnce
<1>4. CASE Skip \/ Return
  <2>1. /\ j' = j + 1 /\ phase \in {"scan", "callback"} /\ phase' = "scan"
        /\ UNCHANGED <<mainloop, data>>
    BY <1>4 DEF Skip, Return
  <2>2. TypeOK'
    BY <1>2, <2>1 DEF LoopInv, TypeOK, Phase
  <2>3. Ahead' \subseteq Ahead
    BY <1>1, <1>2, <2>1 DEF Ahead
  <2>4. ReadyHasData'
    BY <1>2, <2>1, <2>3 DEF LoopInv, ReadyHasData
  <2> QED BY <1>3, <2>2, <2>4 DEF LoopInv
<1>5. CASE EndScan \/ EndRound
  <2>1. phase' \in {"check", "poll", "ended"} /\ UNCHANGED <<j, mainloop, data>>
    BY <1>5 DEF EndScan, EndRound
  <2>2. TypeOK'
    BY <1>2, <2>1 DEF LoopInv, TypeOK, Phase
  <2>3. ReadyHasData'
    BY <2>1 DEF ReadyHasData
  <2> QED BY <1>3, <2>2, <2>3 DEF LoopInv
<1>6. CASE EndMainLoop
  <2>1. mainloop' = FALSE /\ UNCHANGED <<j, phase, data>>
    BY <1>6 DEF EndMainLoop
  <2>2. TypeOK' /\ ReadyHasData'
    BY <1>2, <2>1 DEF LoopInv, TypeOK, ReadyHasData, Ahead
  <2> QED BY <1>3, <2>2 DEF LoopInv
<1>7. ASSUME NEW fd \in Fd, Arrive(fd) PROVE LoopInv'
  <2>1. data' = data \cup {fd} /\ UNCHANGED <<j, phase, mainloop>>
    BY <1>7 DEF Arrive
  <2>2. TypeOK' /\ ReadyHasData'
    BY <1>2, <2>1 DEF LoopInv, TypeOK, ReadyHasData, Ahead
  <2> QED BY <1>3, <2>2 DEF LoopInv
<1> QED BY <1>4, <1>5, <1>6, <1>7

LEMMA NextLoop == LoopInv /\ [Next]_vars => LoopInv'
<1> SUFFICES ASSUME LoopInv, [Next]_vars PROVE LoopInv'
  OBVIOUS
<1>1. CASE UNCHANGED vars
  BY <1>1 DEF vars, LoopInv, TypeOK, PolledOnce, ReadyHasData, Ahead
<1> QED
  BY <1>1, AddPollLoop, RemovePollLoop, PollLoop, ServeLoop, BlockLoop, MovesOnLoop
  DEF Next, LoopStep, ClientStep

-----------------------------------------------------------------------------
(* As long as no callback of a round removes a slot, the loop reads only   *)
(* descriptors that have something to read, however many it polls and      *)
(* whatever callbacks add to the table meanwhile.                          *)
THEOREM ReadyHasDataCorrect == Spec => []ReadyHasData
<1>1. LoopInv => ReadyHasData
  BY DEF LoopInv
<1> QED BY <1>1, InitLoop, NextLoop, PTL DEF Spec
=============================================================================
