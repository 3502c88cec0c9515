------------------------------ MODULE MCTuners ------------------------------
(* Instances of Tuners for TLC. *)
EXTENDS Tuners, TLC

CONSTANTS c1, c2, p1, p2

(* Terrestrial channels have numbers of their own; every satellite channel *)
(* has number 0 (tune.c:131 "TODO: calculate channel number in sat").      *)
TerrestrialNumber == [c \in Channel |-> IF c = c1 THEN 22 ELSE 57]
SatelliteNumber   == [c \in Channel |-> 0]
Terrestrial == [c \in Channel |-> "dvbt"]
Satellite   == [c \in Channel |-> "dvbs"]

TwoTerrestrial == <<"dvbt", "dvbt">>
OneTerrestrial == <<"dvbt">>
OneSatellite   == <<"dvbs">>

PmtPids    == [p \in Program |-> IF p = p1 THEN 256 ELSE 512]
StreamPids == [p \in Program |-> IF p = p1 THEN 257 ELSE 513]

Symmetry == Permutations(Client)
=============================================================================
