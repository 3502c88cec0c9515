-------------------------------- MODULE Scan --------------------------------
(***************************************************************************)
(* The parameters a tuner is tried with during a search: the lists of      *)
(* include/mydvb_tune.h and the odometers of src/tune.c.  A parameter is   *)
(* the index of a value in its list, as in the scan structures; a          *)
(* frequency is a number of MHz.                                           *)
(***************************************************************************)
EXTENDS Integers, FiniteSets, Sequences, FiniteSetsExt

CONSTANTS
  FStart, FEnd, FStep,  \* mydvb_tuner_scan_param_t and _s
  FreqMod               \* the frequencies are unsigned: modulo this many MHz

(* The scan ends: the last step neither stands still nor wraps around.  A  *)
(* step of 8 MHz, that of test01.c, gives every frequency a channel number *)
(* of its own.                                                             *)
ASSUME ScanAssumption ==
  /\ FStart \in Nat /\ FEnd \in Nat /\ FStep \in Nat \ {0} /\ FreqMod \in Nat
  /\ FStart <= FEnd /\ FEnd + FStep < FreqMod
  /\ FStep % 8 = 0

-----------------------------------------------------------------------------
(* The lists.  Some values need a capability of the tuner, the others only *)
(* that it has one at all (0xFFFFFFFF).                                    *)

ListLen == [hierarchy |-> 5, guard |-> 11, transmissionmode |-> 9,
            constellation |-> 15, bw |-> 7, fec |-> 13, inversion |-> 3]

NeedCapability ==
  [hierarchy |-> {0}, guard |-> {0}, transmissionmode |-> {0},
   constellation |-> 0..6, bw |-> {0}, fec |-> 0..8, inversion |-> {0}]

(* The value after which nothing is tried: HIERARCHY_AUTO, QAM_AUTO, ... *)
AutoValue(list) == IF list = "constellation" THEN 1 ELSE 0

(* "caps & list[n].can"; a capability is a list and an index in it. *)
Can(caps, list, n) ==
  IF n \in NeedCapability[list] THEN <<list, n>> \in caps ELSE caps # {}

Offered(caps, list) == {n \in 0..ListLen[list] - 1 : Can(caps, list, n)}

(* __mydvb_find_next_valid_* and __next_tune_param: of each list, the next *)
(* index after each.  "Valid" is this table for a tuner.                   *)
FindNext(caps) ==
  [list \in DOMAIN ListLen |-> [current \in -1..ListLen[list] - 1 |->
     LET valid == {n \in Offered(caps, list) : n > current}
     IN  IF current = AutoValue(list) \/ valid = {} THEN -1 ELSE Min(valid)]]

-----------------------------------------------------------------------------
(* The odometers.  A digit is a parameter; digits are numbered from the    *)
(* one that turns fastest, the frequency turns last.                       *)

DigitList(type) ==
  IF type = "dvbt"
  THEN <<"hierarchy", "guard", "transmissionmode", "constellation", "bw",
         "fec", "fec", "inversion">>
  ELSE <<"fec", "inversion">>

Digit(type) == DOMAIN DigitList(type)

FirstDigits(valid, type) ==
  [k \in Digit(type) |-> valid[DigitList(type)[k]][-1]]

(* __mydvb_tune_t_scan_init, __mydvb_tune_s_scan_init *)
ScanInit(valid, type) == [d |-> FirstDigits(valid, type), f |-> FStart]

Turned(valid, type, d, k) == valid[DigitList(type)[k]][d[k]]

(* The first of the digits that can go on does, and those before it start  *)
(* again; without one, all do.                                             *)
Turning(valid, type, d) == {k \in Digit(type) : Turned(valid, type, d, k) # -1}

NextDigits_mutant(valid, type, d) ==  \* the digits before are left where they are
  LET turning == Turning(valid, type, d) IN
    IF turning = {} THEN FirstDigits(valid, type)
    ELSE [d EXCEPT ![Min(turning)] = Turned(valid, type, d, Min(turning))]

NextDigits(valid, type, d) ==
  LET turning == Turning(valid, type, d) IN
    IF turning = {} THEN FirstDigits(valid, type)
    ELSE [k \in Digit(type) |->
            CASE k < Min(turning) -> FirstDigits(valid, type)[k]
              [] k = Min(turning) -> Turned(valid, type, d, k)
              [] k > Min(turning) -> d[k]]

NextFrequency(f) == (f + FStep) % FreqMod

(* __mydvb_tune_t_scan_next, __mydvb_tune_s_scan_next: a tuner that has    *)
(* locked is done with the frequency.                                      *)
ScanNext(valid, type, status, scan) ==
  IF status = "LOCK"
  THEN [d |-> FirstDigits(valid, type), f |-> NextFrequency(scan.f)]
  ELSE [d |-> NextDigits(valid, type, scan.d),
        f |-> IF Turning(valid, type, scan.d) = {} THEN NextFrequency(scan.f)
              ELSE scan.f]

(* What they return; the frequency cannot be past the end unless it has    *)
(* just been stepped.  mydvb_tune_scan_next knows no cable scan.           *)
ScanGoesOn(type, scan) == type \in {"dvbt", "dvbs"} /\ scan.f <= FEnd

-----------------------------------------------------------------------------
(* mydvb_tune_get_uhf_channel, the channel number of a terrestrial         *)
(* frequency; a satellite has channel number 0.                            *)
UhfChannel(f) == (f - 306) \div 8

ChannelNumber(type, f) == IF type = "dvbt" THEN UhfChannel(f) ELSE 0

-----------------------------------------------------------------------------
(* What the scan has to try: the values of a list up to its automatic one, *)
(* in every combination of the digits.                                     *)

Wanted(caps, list) ==
  LET offered == Offered(caps, list) IN
    IF AutoValue(list) \in offered THEN {n \in offered : n <= AutoValue(list)} ELSE offered

Combinations(caps, type) ==
  LET upTo[k \in 0..Len(DigitList(type))] ==
        IF k = 0 THEN {<<>>}
        ELSE {Append(d, n) : d \in upTo[k - 1],
                             n \in Wanted(caps, DigitList(type)[k])}
  IN  upTo[Len(DigitList(type))]

Frequencies == {f \in FStart..FEnd : (f - FStart) % FStep = 0}
=============================================================================
