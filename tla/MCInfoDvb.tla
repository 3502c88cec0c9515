----------------------------- MODULE MCInfoDvb -----------------------------
(* Constants of the run of module InfoDvb.                                 *)
EXTENDS InfoDvb

(* Names as they come from the air: in ASCII, with an accent (first byte   *)
(* the page), with a character of three bytes, with a byte that has none.  *)
Name(bytes) == TextCreate(bytes)
Stream(n, pid) == [n |-> n, pid |-> pid]
ProgramOnAir(n, name, number, pids) ==
  [n |-> n, provider |-> <<>>, service |-> Name(name), number |-> number,
   user_number |-> 0, streams |-> [k \in DOMAIN pids |-> Stream(k - 1, pids[k])]]

(* A terrestrial channel of two programs, and a transponder, which has no  *)
(* number: a second one is one more of number 0.  One of the transponder's *)
(* values has no name.                                                     *)
MCAir ==
  {[type |-> "dvbt", n |-> 57, f |-> 762, p |-> [k \in Param |-> k],
    programs |-> <<ProgramOnAir(0, <<65>>, 101, <<1>>),
                   ProgramOnAir(1, <<5, \hd0, 66>>, 102, <<>>)>>],
   [type |-> "dvbs", n |-> 0, f |-> 11, p |-> [k \in Param |-> IF k = 4 THEN 99 ELSE k],
    programs |-> <<ProgramOnAir(0, <<\ha4, \hc0, 65>>, 103, <<2>>)>>],
   [type |-> "dvbs", n |-> 0, f |-> 12, p |-> [k \in Param |-> k],
    programs |-> <<ProgramOnAir(0, <<66>>, 104, <<>>)>>]}

MCListed == [k \in Param |-> {k}]
=============================================================================
