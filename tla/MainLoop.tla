------------------------------ MODULE MainLoop ------------------------------
(***************************************************************************)
(* The main loop of a MYDVB_ENGINE and its poll table, slot by slot        *)
(* (mydvb_main_loop, mydvb_add_poll and mydvb_remove_poll of src/mydvb.c). *)
(*                                                                         *)
(* A round of the loop polls the table, looks at every slot in turn and    *)
(* reads and notifies those that are ready; the callbacks change the table *)
(* under it.  What a callback is about is left to the other modules: here  *)
(* it is a time when client code runs.                                     *)
(***************************************************************************)
EXTENDS Integers, Sequences

CONSTANTS
  Fd,      \* descriptors
  Source,  \* what reads a descriptor: "device" (demux and frontend, opened
           \* without O_NONBLOCK), "dvr" (with O_NONBLOCK) or "external"
  MaxPoll  \* slots of the poll table (64 in the code, which does not check)

ASSUME MainLoopAssumption ==
  /\ Source \in [Fd -> {"device", "dvr", "external"}]
  /\ MaxPoll \in Nat

VARIABLES
  pfd,       \* engine->pfd[0 .. poll_len - 1]; revents is "POLLIN or POLLPRI"
  j,         \* the slot the round is at, from 1 on
  phase,     \* where the loop is
  mainloop,  \* engine->mainloop
  data,      \* descriptors with something to read (kernel)
  shifted    \* history: a slot has been removed since the last poll

vars == <<pfd, j, phase, mainloop, data, shifted>>

Slot  == [fd : Fd, revents : BOOLEAN]
Phase == {"poll",      \* about to poll
          "scan",      \* about to look at slot j
          "read",      \* blocked in the read of slot j
          "callback",  \* in a callback of an event of slot j
          "check",     \* at the end of a round, where timeouts are notified
          "ended"}

Polled == {pfd[k].fd : k \in DOMAIN pfd}

ClientRuns == phase \in {"callback", "check"}

-----------------------------------------------------------------------------
(* The table, as client code and the library change it in a callback.      *)

(* Definitions whose name ends in _mutant are plausible mistakes in the     *)
(* definition that follows, each caught by a property (PROJECT.json).      *)

AddPoll_mutant_revents(fd) ==  \* revents as an earlier round left it
  /\ ClientRuns
  /\ fd \notin Polled
  /\ Len(pfd) < MaxPoll
  /\ pfd' = Append(pfd, [fd |-> fd, revents |-> TRUE])
  /\ UNCHANGED <<j, phase, mainloop, data, shifted>>
AddPoll_mutant_front(fd) ==  \* the new descriptor goes first
  /\ ClientRuns
  /\ fd \notin Polled
  /\ Len(pfd) < MaxPoll
  /\ pfd' = <<[fd |-> fd, revents |-> FALSE]>> \o pfd
  /\ UNCHANGED <<j, phase, mainloop, data, shifted>>

AddPoll(fd) ==
  /\ ClientRuns
  /\ fd \notin Polled
  /\ Len(pfd) < MaxPoll
  /\ pfd' = Append(pfd, [fd |-> fd, revents |-> FALSE])
  /\ UNCHANGED <<j, phase, mainloop, data, shifted>>

(* The descriptors are moved down, what poll said of them is not.  The     *)
(* descriptor is closed next.                                              *)
RemovePoll(k) ==
  /\ ClientRuns
  /\ pfd' = [l \in 1..Len(pfd) - 1 |->
       IF l < k THEN pfd[l] ELSE [fd |-> pfd[l + 1].fd, revents |-> pfd[l].revents]]
  /\ data' = data \ {pfd[k].fd}
  /\ shifted' = TRUE
  /\ UNCHANGED <<j, phase, mainloop>>

(* mydvb_end_main_loop: the round is finished first. *)
EndMainLoop ==
  /\ ClientRuns
  /\ mainloop' = FALSE
  /\ UNCHANGED <<pfd, j, phase, data, shifted>>

-----------------------------------------------------------------------------
(* The loop                                                                *)

Poll ==
  /\ phase = "poll"
  /\ pfd' = [k \in DOMAIN pfd |-> [fd |-> pfd[k].fd, revents |-> pfd[k].fd \in data]]
  /\ shifted' = FALSE
  /\ j' = 1
  /\ phase' = IF \E k \in DOMAIN pfd : pfd[k].fd \in data THEN "scan" ELSE "check"
  /\ UNCHANGED <<mainloop, data>>

(* The slot is not ready, or is of a dvr that has nothing after all. *)
Skip ==
  /\ phase = "scan" /\ j <= Len(pfd)
  /\ pfd[j].revents => Source[pfd[j].fd] = "dvr" /\ pfd[j].fd \notin data
  /\ j' = j + 1
  /\ UNCHANGED <<pfd, phase, mainloop, data, shifted>>

(* The slot is ready: it is read, or its listeners read it. *)
Serve ==
  /\ phase = "scan" /\ j <= Len(pfd)
  /\ pfd[j].revents
  /\ pfd[j].fd \in data \/ Source[pfd[j].fd] = "external"
  /\ data' = data \ {pfd[j].fd}
  /\ phase' = "callback"
  /\ UNCHANGED <<pfd, j, mainloop, shifted>>

(* The slot is said to be ready but its device has nothing: the read, or   *)
(* the ioctl on a frontend, waits and everything waits with it.            *)
Block ==
  /\ phase = "scan" /\ j <= Len(pfd)
  /\ pfd[j].revents
  /\ pfd[j].fd \notin data /\ Source[pfd[j].fd] = "device"
  /\ phase' = "read"
  /\ UNCHANGED <<pfd, j, mainloop, data, shifted>>

Unblock ==
  /\ phase = "read" /\ pfd[j].fd \in data
  /\ data' = data \ {pfd[j].fd}
  /\ phase' = "callback"
  /\ UNCHANGED <<pfd, j, mainloop, shifted>>

Return ==
  /\ phase = "callback"
  /\ j' = j + 1
  /\ phase' = "scan"
  /\ UNCHANGED <<pfd, mainloop, data, shifted>>

EndScan ==
  /\ phase = "scan" /\ j > Len(pfd)
  /\ phase' = "check"
  /\ UNCHANGED <<pfd, j, mainloop, data, shifted>>

EndRound ==
  /\ phase = "check"
  /\ phase' = IF mainloop THEN "poll" ELSE "ended"
  /\ UNCHANGED <<pfd, j, mainloop, data, shifted>>

(* Data comes to a descriptor. *)
Arrive(fd) ==
  /\ fd \in Polled
  /\ data' = data \cup {fd}
  /\ UNCHANGED <<pfd, j, phase, mainloop, shifted>>

-----------------------------------------------------------------------------
(* The table the loop starts with holds what was added before it.          *)
Init ==
  /\ pfd \in {<<>>} \cup {<<[fd |-> fd, revents |-> FALSE]>> : fd \in Fd}
  /\ j = 1
  /\ phase = "poll"
  /\ mainloop = TRUE
  /\ data = {}
  /\ shifted = FALSE

LoopStep == Poll \/ Skip \/ Serve \/ Block \/ Unblock \/ Return \/ EndScan \/ EndRound

ClientStep ==
  \/ \E fd \in Fd : AddPoll(fd)
  \/ \E k \in DOMAIN pfd : RemovePoll(k)
  \/ EndMainLoop

Next == LoopStep \/ ClientStep \/ \E fd \in Fd : Arrive(fd)

Spec == Init /\ [][Next]_vars

(* The thread runs and callbacks return; devices need not deliver.         *)
FairSpec == Spec /\ WF_vars(LoopStep)

-----------------------------------------------------------------------------
(* Correctness                                                             *)

TypeOK ==
  /\ pfd \in Seq(Slot)
  /\ j \in Nat \ {0}
  /\ phase \in Phase
  /\ mainloop \in BOOLEAN
  /\ data \subseteq Fd
  /\ shifted \in BOOLEAN

(* The slots the round has yet to look at. *)
Ahead == {k \in DOMAIN pfd : k > j \/ (k = j /\ phase = "scan")}

(* Until a callback of the round removes a slot, what poll said of the     *)
(* slots ahead is still true, and so the loop does not wait in a read.     *)
ReadyHasData ==
  ~shifted =>
    /\ phase # "read"
    /\ phase \in {"scan", "callback"} =>
         \A k \in Ahead : pfd[k].revents => pfd[k].fd \in data

(* A descriptor that has something to read is served in the end, or leaves *)
(* the table, however often callbacks shift it out of the round's sight:   *)
(* each time it comes nearer to the front.  The loop may end before, or    *)
(* hang in a read.                                                         *)
ReadyIsServed ==
  \A fd \in Fd :
    fd \in Polled \cap data
      ~> fd \notin Polled \cap data \/ phase \in {"ended", "read"}
=============================================================================
