--------------------------- MODULE SearchService ---------------------------
(***************************************************************************)
(* What mydvb_tuner_search promises a client: a search has a tuner for     *)
(* itself, reports once, with the status the client asked for or, unasked, *)
(* that it is complete, and gives the tuner back only then.  Module Search *)
(* implements it.                                                          *)
(***************************************************************************)
CONSTANTS
  Searches,   \* the searches ever started
  Tuners      \* the tuners they may use

VARIABLES
  phase,    \* of each search: "none", "searching", "reporting", "closed"
  status,   \* mydvb_search_status_t of each search
  holds     \* the tuners each search holds

vars == <<phase, status, holds>>

Asked == {"CANCELLED", "STOPPED"}

Init ==
  /\ phase = [s \in Searches |-> "none"]
  /\ status = [s \in Searches |-> "NOOP"]
  /\ holds = [s \in Searches |-> {}]

Free(t) == \A s \in Searches : t \notin holds[s]

Start(s, t) ==
  /\ phase[s] = "none" /\ Free(t)
  /\ phase' = [phase EXCEPT ![s] = "searching"]
  /\ status' = [status EXCEPT ![s] = "SEARCHING"]
  /\ holds' = [holds EXCEPT ![s] = {t}]

Ask(s, wish) ==
  /\ phase[s] = "searching"
  /\ status' = [status EXCEPT ![s] = wish]
  /\ UNCHANGED <<phase, holds>>

Report(s) ==
  /\ phase[s] = "searching"
  /\ phase' = [phase EXCEPT ![s] = "reporting"]
  /\ status' = [status EXCEPT ![s] = IF @ \in Asked THEN @ ELSE "COMPLETED"]
  /\ UNCHANGED holds

Close(s) ==
  /\ phase[s] = "reporting"
  /\ phase' = [phase EXCEPT ![s] = "closed"]
  /\ holds' = [holds EXCEPT ![s] = {}]
  /\ UNCHANGED status

Next ==
  \E s \in Searches :
    \/ \E t \in Tuners : Start(s, t)
    \/ \E wish \in Asked : Ask(s, wish)
    \/ Report(s)
    \/ Close(s)

Spec == Init /\ [][Next]_vars
=============================================================================
