------------------------------ MODULE MCSearch ------------------------------
(* Constants of the runs of module Search.                                 *)
EXTENDS Search

(* Two tuners that choose everything themselves but the inversion. *)
Automatic == {<<"hierarchy", 0>>, <<"guard", 0>>, <<"transmissionmode", 0>>,
              <<"constellation", 1>>, <<"bw", 0>>, <<"fec", 0>>}
MCTypesT  == [t \in 1..NTuners |-> "dvbt"]
MCCapsT   == [t \in 1..NTuners |-> Automatic]

(* One that tries four hierarchies, each with QPSK and with QAM_AUTO. *)
MCCapsMany == [t \in 1..NTuners |->
                 (Automatic \cup {<<"constellation", 0>>, <<"inversion", 0>>})
                   \ {<<"hierarchy", 0>>}]

(* The service of the second program comes after another one. *)
MCPat == [f \in Frequencies |-> <<f, f + 1>>]
MCSdt == [f \in Frequencies |->
            <<[number |-> f, name |-> "first", scram |-> FALSE],
              [number |-> f + 2, name |-> "gone", scram |-> TRUE],
              [number |-> f + 1, name |-> "second", scram |-> FALSE]>>]
=============================================================================
