-------------------------- MODULE SearchScan_proofs --------------------------
(* Proofs about the scan of a search: it tries everything and records what *)
(* it finds where it has found it.  See README.md, "What is proved".       *)
EXTENDS Search_proofs

-----------------------------------------------------------------------------
(* The lists of parameters.                                                *)

LEMMA MinIs ==
  ASSUME NEW S, S \subseteq Nat, S # {}
  PROVE  Min(S) \in S /\ \A n \in S : Min(S) <= n
<1>1. \E m \in S : \A n \in S : m <= n
  BY SmallestIn
<1> QED BY <1>1 DEF Min

ListNames == {"hierarchy", "guard", "transmissionmode", "constellation", "bw",
              "fec", "inversion"}

(* Every list has a value that any capability allows.                      *)
LEMMA SomethingOffered ==
  ASSUME NEW caps, caps # {}, NEW list \in ListNames
  PROVE  /\ ListLen[list] \in Nat /\ DOMAIN ListLen = ListNames
         /\ Offered(caps, list) # {} /\ Offered(caps, list) \subseteq Nat
<1>1. DOMAIN ListLen = ListNames /\ DOMAIN NeedCapability = ListNames
  BY DEF ListLen, NeedCapability, ListNames
<1>2. ListLen[list] \in Nat
  BY DEF ListLen, ListNames
<1>3. \E n \in 0..ListLen[list] - 1 : n \notin NeedCapability[list]
  <2>1. CASE list = "constellation"
    <3>1. ListLen[list] = 15 /\ NeedCapability[list] = 0..6
      BY <2>1 DEF ListLen, NeedCapability
    <3> QED BY <3>1, 7 \in 0..14, 7 \notin 0..6
  <2>2. CASE list = "fec"
    <3>1. ListLen[list] = 13 /\ NeedCapability[list] = 0..8
      BY <2>2 DEF ListLen, NeedCapability
    <3> QED BY <3>1, 9 \in 0..12, 9 \notin 0..8
  <2>3. CASE list \notin {"constellation", "fec"}
    <3>1. ListLen[list] >= 3 /\ NeedCapability[list] = {0}
      BY <2>3 DEF ListLen, NeedCapability, ListNames
    <3> QED BY <1>2, <3>1, 1 \in 0..ListLen[list] - 1
  <2> QED BY <2>1, <2>2, <2>3
<1>4. PICK n \in 0..ListLen[list] - 1 : n \notin NeedCapability[list]
  BY <1>3
<1>5. n \in Offered(caps, list)
  BY <1>4 DEF Offered, Can
<1> QED BY <1>1, <1>2, <1>5 DEF Offered

(* Searching for the next value of a list finds those wanted, one after    *)
(* the other.                                                              *)
LEMMA NextWanted ==
  ASSUME NEW caps, caps # {}, NEW list \in ListNames
  PROVE  LET wanted == Wanted(caps, list)
             next == FindNext(caps)[list]
         IN /\ wanted \subseteq Nat
            /\ next[-1] \in wanted /\ \A n \in wanted : next[-1] <= n
            /\ \A c \in wanted :
                 IF next[c] = -1 THEN \A n \in wanted : n <= c
                 ELSE /\ next[c] \in wanted /\ c < next[c]
                      /\ \A n \in wanted : c < n => next[c] <= n
<1> DEFINE offered == Offered(caps, list)
           wanted == Wanted(caps, list)
           after(c) == {n \in offered : n > c}
           auto == AutoValue(list)
           next == FindNext(caps)[list]
<1>1. /\ ListLen[list] \in Nat /\ DOMAIN ListLen = ListNames
      /\ offered # {} /\ offered \subseteq Nat /\ offered \subseteq 0..ListLen[list] - 1
  BY SomethingOffered DEF Offered
<1>2. auto \in Nat
  BY DEF AutoValue
<1>3. wanted = IF auto \in offered THEN {n \in offered : n <= auto} ELSE offered
  BY DEF Wanted
<1>4. \A c \in -1..ListLen[list] - 1 :
        next[c] = IF c = auto \/ after(c) = {} THEN -1 ELSE Min(after(c))
  BY <1>1 DEF FindNext
<1> HIDE DEF next, wanted, auto, offered
<1>5. next[-1] \in wanted /\ \A n \in wanted : next[-1] <= n
  <2>0. -1 \in -1..ListLen[list] - 1 /\ \A n \in offered : n > -1
    BY <1>1
  <2>1. after(-1) = offered
    BY <2>0
  <2>2. next[-1] = Min(offered)
    BY <1>1, <1>2, <1>4, <2>0, <2>1
  <2>3. Min(offered) \in offered /\ \A n \in offered : Min(offered) <= n
    BY <1>1, MinIs
  <2> QED BY <1>1, <1>2, <1>3, <2>2, <2>3
<1>6. ASSUME NEW c \in wanted
      PROVE  IF next[c] = -1 THEN \A n \in wanted : n <= c
             ELSE /\ next[c] \in wanted /\ c < next[c]
                  /\ \A n \in wanted : c < n => next[c] <= n
  <2>1. c \in offered /\ c \in Nat /\ c \in -1..ListLen[list] - 1
    BY <1>1, <1>3
  <2>2. next[c] = IF c = auto \/ after(c) = {} THEN -1 ELSE Min(after(c))
    BY <1>4, <2>1
  <2>3. CASE c = auto
    BY <1>1, <1>3, <2>1, <2>2, <2>3
  <2>4. CASE c # auto /\ after(c) = {}
    BY <1>1, <1>3, <2>1, <2>2, <2>4
  <2>5. CASE c # auto /\ after(c) # {}
    <3>1. after(c) \subseteq Nat
      <4>1. after(c) \subseteq offered
        OBVIOUS
      <4> QED BY <1>1, <4>1
    <3> DEFINE m == Min(after(c))
    <3>2. m \in after(c) /\ \A n \in after(c) : m <= n
      BY <2>5, <3>1, MinIs
    <3>3. next[c] = m
      BY <2>2, <2>5
    <3> HIDE DEF m
    <3>4. m \in offered /\ m \in Nat /\ c < m /\ \A n \in offered : c < n => m <= n
      BY <1>1, <2>1, <3>2
    <3>5. m \in wanted
      BY <1>1, <1>2, <1>3, <2>1, <2>5, <3>4
    <3>6. \A n \in wanted : n \in offered
      BY <1>3
    <3> QED BY <3>3, <3>4, <3>5, <3>6
  <2> QED BY <2>3, <2>4, <2>5
<1>7. wanted \subseteq Nat
  BY <1>1, <1>3
<1> QED BY <1>5, <1>6, <1>7 DEF next, wanted

-----------------------------------------------------------------------------
(* The combinations.  A setting gives each digit a value that is wanted.   *)

Settings(caps, type) ==
  {d \in [Digit(type) -> Nat] : \A k \in Digit(type) : d[k] \in Wanted(caps, DigitList(type)[k])}

LEMMA DigitsAre ==
  ASSUME NEW type
  PROVE  /\ Len(DigitList(type)) \in Nat /\ Digit(type) = 1..Len(DigitList(type))
         /\ \A k \in Digit(type) : DigitList(type)[k] \in ListNames
<1>1. CASE type = "dvbt"
  BY <1>1 DEF Digit, DigitList, ListNames
<1>2. CASE type # "dvbt"
  BY <1>2 DEF Digit, DigitList, ListNames
<1> QED BY <1>1, <1>2

Extended(S, N) == {Append(d, n) : d \in S, n \in N}

CombineStep(caps, type, g, k) ==
  IF k = 0 THEN {<<>>} ELSE Extended(g[k - 1], Wanted(caps, DigitList(type)[k]))

IsCombineUpTo(caps, type, g, m) == g = [k \in 0..m |-> CombineStep(caps, type, g, k)]

(* A set of numbers that has 0, and m + 1 with m, up to n, has all up to n. *)
LEMMA UpTo ==
  ASSUME NEW n \in Nat, NEW G, 0 \in G, \A m \in 0..n - 1 : m \in G => m + 1 \in G
  PROVE  \A m \in 0..n : m \in G
<1> DEFINE Bad == (0..n) \ G
<1> SUFFICES ASSUME Bad # {} PROVE FALSE
  OBVIOUS
<1>1. Bad \subseteq Nat
  OBVIOUS
<1>2. PICK m \in Bad : \A k \in Bad : m <= k
  BY <1>1, SmallestIn, Zenon
<1>3. m # 0 /\ m \in 0..n /\ m \notin G
  BY <1>2
<1>4. m - 1 \in 0..n - 1 /\ m - 1 + 1 = m /\ m - 1 \in 0..n /\ ~(m <= m - 1)
  BY <1>3
<1>5. m - 1 \in G
  BY <1>2, <1>4
<1> QED BY <1>3, <1>4, <1>5

(* The recursive function Combinations is defined by exists,               *)
LEMMA CombineExists ==
  ASSUME NEW caps, NEW type
  PROVE  \E g : IsCombineUpTo(caps, type, g, Len(DigitList(type)))
<1> DEFINE Has(m) == \E g : IsCombineUpTo(caps, type, g, m)
           G == {m \in Nat : Has(m)}
           length == Len(DigitList(type))
<1> HIDE DEF Has
<1>0. length \in Nat
  BY DigitsAre
<1> HIDE DEF length
<1>1. Has(0)
  <2> DEFINE g == [k \in 0..0 |-> {<<>>}]
  <2>1. g = [k \in 0..0 |-> CombineStep(caps, type, g, k)]
    BY DEF CombineStep
  <2> HIDE DEF g
  <2> QED BY <2>1 DEF Has, IsCombineUpTo
<1>2. ASSUME NEW m \in Nat, Has(m) PROVE Has(m + 1)
  <2>1. PICK g : g = [k \in 0..m |-> CombineStep(caps, type, g, k)]
    BY <1>2 DEF Has, IsCombineUpTo
  <2> DEFINE h == [k \in 0..m + 1 |-> CombineStep(caps, type, g, k)]
  <2>2. ASSUME NEW k \in 0..m + 1 PROVE CombineStep(caps, type, g, k) = CombineStep(caps, type, h, k)
    <3>1. CASE k = 0
      BY <3>1 DEF CombineStep
    <3>2. CASE k # 0
      <4>1. k - 1 \in 0..m /\ k - 1 \in 0..m + 1
        BY <3>2
      <4>2. h[k - 1] = g[k - 1]
        BY <4>1, <2>1
      <4> QED BY <3>2, <4>2 DEF CombineStep
    <3> QED BY <3>1, <3>2
  <2>3. h = [k \in 0..m + 1 |-> CombineStep(caps, type, h, k)]
    BY <2>2
  <2> HIDE DEF h
  <2> QED BY <2>3 DEF Has, IsCombineUpTo
<1>3. Has(length)
  <2>1. 0 \in G /\ \A m \in 0..length - 1 : m \in G => m + 1 \in G
    BY <1>1, <1>2
  <2> HIDE DEF G
  <2>2. length \in G
    BY <1>0, <2>1, UpTo, length \in 0..length
  <2> QED BY <2>2 DEF G
<1> QED BY <1>3 DEF Has, length

(* so that Combinations is its last value,                                 *)
LEMMA CombineUpTo ==
  ASSUME NEW caps, NEW type
  PROVE  \E g : /\ IsCombineUpTo(caps, type, g, Len(DigitList(type)))
               /\ Combinations(caps, type) = g[Len(DigitList(type))]
<1> DEFINE g == CHOOSE g : IsCombineUpTo(caps, type, g, Len(DigitList(type)))
<1>1. IsCombineUpTo(caps, type, g, Len(DigitList(type)))
  BY CombineExists, Zenon
<1>2. Combinations(caps, type) = g[Len(DigitList(type))]
  BY DEF Combinations, IsCombineUpTo, CombineStep, Extended
<1> HIDE DEF g
<1> QED BY <1>1, <1>2

(* which is all settings.                                                  *)
LEMMA CombinationsAreSettings ==
  ASSUME NEW caps, caps # {}, NEW type
  PROVE  Combinations(caps, type) = Settings(caps, type)
<1> DEFINE length == Len(DigitList(type))
           W(k) == Wanted(caps, DigitList(type)[k])
           Some(m) == {d \in [1..m -> Nat] : \A k \in 1..m : d[k] \in W(k)}
<1>1. length \in Nat /\ Digit(type) = 1..length
  BY DigitsAre
<1>2. \A k \in 1..length : W(k) \subseteq Nat
  BY DigitsAre, NextWanted
<1>3. PICK g : /\ IsCombineUpTo(caps, type, g, length)
               /\ Combinations(caps, type) = g[length]
  BY CombineUpTo
<1> DEFINE G == {m \in 0..length : g[m] = Some(m)}
<1> HIDE DEF W
<1>4. /\ g[0] = {<<>>}
      /\ \A k \in 1..length : g[k] = Extended(g[k - 1], W(k))
  <2>1. \A k \in 0..length : g[k] = CombineStep(caps, type, g, k)
    BY <1>3 DEF IsCombineUpTo
  <2>2. 0 \in 0..length /\ \A k \in 1..length : k \in 0..length /\ k # 0
    BY <1>1
  <2> HIDE DEF length
  <2> QED BY <2>1, <2>2 DEF CombineStep, W
<1> HIDE DEF length
<1>5. 0 \in G
  <2>1. \A d \in [1..0 -> Nat] : d = <<>>
    <3> SUFFICES ASSUME NEW d \in [1..0 -> Nat] PROVE d = <<>>
      OBVIOUS
    <3>1. d \in Seq(Nat) /\ Len(d) = 0
      OBVIOUS
    <3> QED BY <3>1
  <2>2. <<>> \in [1..0 -> Nat] /\ \A k \in 1..0 : FALSE
    OBVIOUS
  <2>3. Some(0) = {<<>>}
    BY <2>1, <2>2
  <2>4. 0 \in 0..length /\ g[0] = {<<>>}
    BY <1>1, <1>4
  <2> HIDE DEF Some
  <2> QED BY <2>3, <2>4
<1>6. ASSUME NEW m \in 0..length - 1, g[m] = Some(m) PROVE g[m + 1] = Some(m + 1)
  <2>1. /\ m \in Nat /\ m + 1 \in 1..length /\ m + 1 - 1 = m
    BY <1>1
  <2>2. g[m + 1] = Extended(Some(m), W(m + 1))
    <3> HIDE DEF Some
    <3> QED BY <1>4, <1>6, <2>1
  <2>3. ASSUME NEW d \in Some(m), NEW n \in W(m + 1) PROVE Append(d, n) \in Some(m + 1)
    <3>1. n \in Nat /\ d \in [1..m -> Nat] /\ \A k \in 1..m : d[k] \in W(k)
      BY <1>2, <2>1
    <3>2. d \in Seq(Nat) /\ Len(d) = m /\ DOMAIN d = 1..m
      BY <2>1, <3>1
    <3> DEFINE c == Append(d, n)
    <3>6. c \in Seq(Nat) /\ Len(c) = m + 1 /\ c[m + 1] = n /\ \A k \in 1..m : c[k] = d[k]
      BY <2>1, <3>1, <3>2
    <3> HIDE DEF c
    <3>7. c \in [1..m + 1 -> Nat]
      BY <3>6
    <3>3. /\ Append(d, n) \in [1..m + 1 -> Nat] /\ Append(d, n)[m + 1] = n
          /\ \A k \in 1..m : Append(d, n)[k] = d[k]
      BY <3>6, <3>7 DEF c
    <3>4. \A k \in 1..m + 1 : k \in 1..m \/ k = m + 1
      BY <2>1
    <3>5. \A k \in 1..m + 1 : Append(d, n)[k] \in W(k)
      BY <3>1, <3>3, <3>4
    <3> QED BY <3>3, <3>5
  <2>4. ASSUME NEW c \in Some(m + 1)
        PROVE  \E d \in Some(m), n \in W(m + 1) : c = Append(d, n)
    <3> DEFINE d == [k \in 1..m |-> c[k]]
    <3>1. /\ c \in [1..m + 1 -> Nat] /\ \A k \in 1..m + 1 : c[k] \in W(k)
      OBVIOUS
    <3>2. d \in Some(m) /\ c[m + 1] \in W(m + 1) /\ c[m + 1] \in Nat
      BY <2>1, <3>1
    <3>3. /\ d \in Seq(Nat) /\ Len(d) = m /\ c \in Seq(Nat) /\ Len(c) = m + 1
      BY <2>1, <3>1
    <3>4. \A k \in 1..m : d[k] = c[k]
      OBVIOUS
    <3> HIDE DEF d
    <3>5. c = Append(d, c[m + 1])
      BY <2>1, <3>2, <3>3, <3>4
    <3> QED BY <3>2, <3>5
  <2> HIDE DEF Some
  <2>5. Extended(Some(m), W(m + 1)) = Some(m + 1)
    <3> HIDE DEF Some
    <3>1. ASSUME NEW c \in Extended(Some(m), W(m + 1)) PROVE c \in Some(m + 1)
      <4>1. PICK d \in Some(m), n \in W(m + 1) : c = Append(d, n)
        BY DEF Extended
      <4> QED BY <2>3, <4>1
    <3>2. ASSUME NEW c \in Some(m + 1) PROVE c \in Extended(Some(m), W(m + 1))
      BY <2>4 DEF Extended
    <3> QED BY <3>1, <3>2
  <2> QED BY <2>2, <2>5
<1>7. \A m \in 0..length - 1 : m \in G => m + 1 \in G
  <2> HIDE DEF Some
  <2> QED BY <1>1, <1>6
<1>8. length \in G
  <2> HIDE DEF G
  <2> QED BY <1>1, <1>5, <1>7, UpTo, length \in 0..length
<1> QED BY <1>1, <1>3, <1>8 DEF Settings, W

-----------------------------------------------------------------------------
(* The odometer.  The settings up to one: that one, and those that are     *)
(* smaller in the slowest digit in which they differ.                      *)

AtMost(caps, type, d) ==
  {c \in Settings(caps, type) :
     \/ c = d
     \/ \E k \in Digit(type) : c[k] < d[k] /\ \A j \in Digit(type) : k < j => c[j] = d[j]}

(* A digit goes through the values that are wanted.                        *)
LEMMA DigitTurns ==
  ASSUME NEW caps, caps # {}, NEW type, NEW d \in Settings(caps, type), NEW k \in Digit(type)
  PROVE  LET valid  == FindNext(caps)
             wanted == Wanted(caps, DigitList(type)[k])
             turned == Turned(valid, type, d, k)
             first  == FirstDigits(valid, type)[k]
         IN /\ wanted \subseteq Nat
            /\ first \in wanted /\ \A n \in wanted : first <= n
            /\ IF turned = -1 THEN \A n \in wanted : n <= d[k]
               ELSE /\ turned \in wanted /\ d[k] < turned
                    /\ \A n \in wanted : d[k] < n => turned <= n
<1> DEFINE list == DigitList(type)[k]
           wanted == Wanted(caps, list)
           next == FindNext(caps)[list]
<1>1. list \in ListNames
  BY DigitsAre
<1>2. d[k] \in wanted
  BY DEF Settings
<1>3. Turned(FindNext(caps), type, d, k) = next[d[k]]
  BY DEF Turned
<1>4. FirstDigits(FindNext(caps), type)[k] = next[-1]
  BY DEF FirstDigits
<1>5. /\ wanted \subseteq Nat
      /\ next[-1] \in wanted /\ \A n \in wanted : next[-1] <= n
      /\ \A c \in wanted :
           IF next[c] = -1 THEN \A n \in wanted : n <= c
           ELSE /\ next[c] \in wanted /\ c < next[c]
                /\ \A n \in wanted : c < n => next[c] <= n
  BY <1>1, NextWanted
<1> HIDE DEF next, wanted
<1>6. IF next[d[k]] = -1 THEN \A n \in wanted : n <= d[k]
      ELSE /\ next[d[k]] \in wanted /\ d[k] < next[d[k]]
           /\ \A n \in wanted : d[k] < n => next[d[k]] <= n
  BY <1>2, <1>5
<1> QED BY <1>3, <1>4, <1>5, <1>6 DEF wanted

(* Of the digits in which settings differ, one is the slowest.             *)
LEMMA SlowestDigit ==
  ASSUME NEW type, NEW D, D \subseteq Digit(type), D # {}
  PROVE  \E k \in D : \A j \in D : j <= k
<1> DEFINE m == Len(DigitList(type))
           S == {n \in 0..m : m - n \in D}
<1>1. m \in Nat /\ D \subseteq 1..m
  BY DigitsAre
<1> HIDE DEF m
<1>2. S \subseteq Nat /\ S # {}
  <2>1. PICK k \in D : TRUE
    OBVIOUS
  <2>2. k \in 1..m /\ m - k \in 0..m /\ m - (m - k) = k
    BY <1>1
  <2>3. m - k \in S
    BY <2>1, <2>2
  <2>4. S \subseteq Nat
    BY <1>1
  <2> HIDE DEF S
  <2> QED BY <2>3, <2>4
<1>3. PICK n \in S : \A i \in S : n <= i
  BY <1>2, SmallestIn
<1>4. ASSUME NEW j \in D PROVE j <= m - n
  <2>1. j \in 1..m /\ m - j \in 0..m /\ m - (m - j) = j
    BY <1>1
  <2>2. m - j \in S
    BY <2>1
  <2>3. n <= m - j /\ n \in 0..m
    BY <1>3, <2>2
  <2> QED BY <1>1, <2>1, <2>3
<1> QED BY <1>3, <1>4

(* Settings whose digits are not larger are up to a setting.               *)
LEMMA SmallerIsAtMost ==
  ASSUME NEW caps, caps # {}, NEW type,
         NEW c \in Settings(caps, type), NEW d \in Settings(caps, type),
         \A k \in Digit(type) : c[k] <= d[k]
  PROVE  c \in AtMost(caps, type, d)
<1> DEFINE D == {k \in Digit(type) : c[k] # d[k]}
<1>1. c \in [Digit(type) -> Nat] /\ d \in [Digit(type) -> Nat]
  BY DEF Settings
<1>2. CASE D = {}
  BY <1>1, <1>2 DEF AtMost
<1>3. CASE D # {}
  <2>1. PICK k \in D : \A j \in D : j <= k
    BY <1>3, SlowestDigit
  <2>2. c[k] < d[k]
    BY <1>1, <2>1
  <2>3. \A j \in Digit(type) : k < j => c[j] = d[j]
    <3>1. \A j \in Digit(type) : j \in Nat
      BY DigitsAre
    <3> QED BY <2>1, <3>1
  <2> QED BY <2>1, <2>2, <2>3 DEF AtMost
<1> QED BY <1>2, <1>3

(* The scan starts with the smallest setting.                              *)
LEMMA FirstSetting ==
  ASSUME NEW caps, caps # {}, NEW type
  PROVE  LET first == FirstDigits(FindNext(caps), type) IN
           first \in Settings(caps, type) /\ AtMost(caps, type, first) = {first}
<1> DEFINE first == FirstDigits(FindNext(caps), type)
<1>1. \A k \in Digit(type) : /\ Wanted(caps, DigitList(type)[k]) \subseteq Nat
                             /\ first[k] = FindNext(caps)[DigitList(type)[k]][-1]
                             /\ first[k] \in Wanted(caps, DigitList(type)[k])
                             /\ \A n \in Wanted(caps, DigitList(type)[k]) : first[k] <= n
  <2> SUFFICES ASSUME NEW k \in Digit(type)
               PROVE  /\ Wanted(caps, DigitList(type)[k]) \subseteq Nat
                      /\ first[k] = FindNext(caps)[DigitList(type)[k]][-1]
                      /\ first[k] \in Wanted(caps, DigitList(type)[k])
                      /\ \A n \in Wanted(caps, DigitList(type)[k]) : first[k] <= n
    OBVIOUS
  <2>1. first[k] = FindNext(caps)[DigitList(type)[k]][-1]
    BY DEF FirstDigits
  <2> QED BY <2>1, DigitsAre, NextWanted
<1>2. first \in Settings(caps, type)
  <2>1. DOMAIN first = Digit(type) /\ first = [k \in Digit(type) |-> first[k]]
    BY DEF FirstDigits
  <2> HIDE DEF first
  <2>2. first \in [Digit(type) -> Nat]
    BY <1>1, <2>1
  <2> QED BY <1>1, <2>2 DEF Settings
<1> HIDE DEF first
<1>3. ASSUME NEW c \in AtMost(caps, type, first) PROVE c = first
  <2>1. c \in [Digit(type) -> Nat] /\ \A k \in Digit(type) : first[k] <= c[k]
    BY <1>1 DEF AtMost, Settings
  <2>2. \A k \in Digit(type) : first[k] \in Nat /\ ~(c[k] < first[k])
    BY <1>1, <2>1
  <2> QED BY <2>2 DEF AtMost
<1>4. first \in AtMost(caps, type, first)
  BY <1>2 DEF AtMost
<1> QED BY <1>2, <1>3, <1>4 DEF first

(* A turn goes to the next setting ...                                     *)
LEMMA NextSetting ==
  ASSUME NEW caps, caps # {}, NEW type, NEW d \in Settings(caps, type),
         Turning(FindNext(caps), type, d) # {}
  PROVE  LET next == NextDigits(FindNext(caps), type, d) IN
           /\ next \in Settings(caps, type)
           /\ AtMost(caps, type, next) = AtMost(caps, type, d) \cup {next}
<1> DEFINE valid == FindNext(caps)
           turning == Turning(valid, type, d)
           first == FirstDigits(valid, type)
           next == NextDigits(valid, type, d)
           wanted(k) == Wanted(caps, DigitList(type)[k])
           turned(k) == Turned(valid, type, d, k)
           m == Min(turning)
<1>1. /\ Digit(type) \subseteq Nat /\ turning \subseteq Digit(type) /\ turning # {}
      /\ \A k \in Digit(type) : k \in turning <=> turned(k) # -1
  BY DigitsAre DEF Turning
<1>3. m \in turning /\ m \in Digit(type) /\ m \in Nat /\ \A k \in turning : m <= k
  <2> HIDE DEF turning
  <2> QED BY <1>1, MinIs
<1>4. \A k \in Digit(type) :
        /\ wanted(k) \subseteq Nat
        /\ first[k] \in wanted(k) /\ \A n \in wanted(k) : first[k] <= n
        /\ IF turned(k) = -1 THEN \A n \in wanted(k) : n <= d[k]
           ELSE /\ turned(k) \in wanted(k) /\ d[k] < turned(k)
                /\ \A n \in wanted(k) : d[k] < n => turned(k) <= n
  BY DigitTurns
<1>5. next = [k \in Digit(type) |-> CASE k < m -> first[k]
                                     [] k = m -> turned(k)
                                     [] k > m -> d[k]]
  <2>1. turning # {}
    BY <1>1
  <2> HIDE DEF first, turned, valid
  <2> QED BY <2>1, Zenon DEF NextDigits, first, turned
<1> HIDE DEF m
<1>6. /\ DOMAIN next = Digit(type) /\ next = [k \in Digit(type) |-> next[k]]
      /\ \A k \in Digit(type) : /\ k < m => next[k] = first[k]
                                /\ k = m => next[k] = turned(k)
                                /\ m < k => next[k] = d[k]
  BY <1>1, <1>3, <1>5
<1>7. /\ d \in [Digit(type) -> Nat] /\ \A k \in Digit(type) : d[k] \in wanted(k)
  BY DEF Settings
<1> HIDE DEF next, first, turned, turning, valid
<1>8. next \in Settings(caps, type)
  <2>1. \A k \in Digit(type) : next[k] \in wanted(k) /\ next[k] \in Nat
    <3> SUFFICES ASSUME NEW k \in Digit(type) PROVE next[k] \in wanted(k) /\ next[k] \in Nat
      OBVIOUS
    <3>1. k < m \/ k = m \/ m < k
      BY <1>1, <1>3
    <3>2. turned(m) # -1
      BY <1>1, <1>3
    <3>3. next[k] \in wanted(k)
      BY <1>4, <1>6, <1>7, <3>1, <3>2
    <3> QED BY <1>4, <3>3
  <2>2. next \in [Digit(type) -> Nat]
    BY <1>6, <2>1
  <2> QED BY <2>1, <2>2 DEF Settings
<1>9. /\ \A k \in Digit(type) : k < m => \A n \in wanted(k) : first[k] <= n /\ n <= d[k]
      /\ \A n \in wanted(m) : d[m] < n => next[m] <= n
      /\ d[m] < next[m]
  <2>1. \A k \in Digit(type) : k < m => turned(k) = -1
    BY <1>1, <1>3
  <2>2. turned(m) # -1 /\ next[m] = turned(m)
    BY <1>1, <1>3, <1>6
  <2> QED BY <1>3, <1>4, <2>1, <2>2
<1>10. \A c \in Settings(caps, type) :
         c \in [Digit(type) -> Nat] /\ \A k \in Digit(type) : c[k] \in wanted(k)
  BY DEF Settings
<1> HIDE DEF wanted
<1>11. ASSUME NEW c \in AtMost(caps, type, d) PROVE c \in AtMost(caps, type, next)
  <2>1. c \in Settings(caps, type)
    BY DEF AtMost
  <2>2. CASE c = d
    BY <1>3, <1>6, <1>9, <2>1, <2>2 DEF AtMost
  <2>3. CASE \E k \in Digit(type) : c[k] < d[k] /\ \A j \in Digit(type) : k < j => c[j] = d[j]
    <3>1. PICK k \in Digit(type) : c[k] < d[k] /\ \A j \in Digit(type) : k < j => c[j] = d[j]
      BY <2>3
    <3>2. CASE m < k
      <4>1. \A j \in Digit(type) : k < j => m < j
        BY <1>1, <1>3, <3>2
      <4> QED BY <1>6, <2>1, <3>1, <3>2, <4>1 DEF AtMost
    <3>3. CASE ~(m < k)
      <4>1. c[m] <= d[m]
        <5>1. k = m \/ k < m
          BY <1>1, <1>3, <3>3
        <5> QED BY <1>3, <1>7, <1>10, <2>1, <3>1, <5>1
      <4>2. c[m] \in Nat /\ d[m] \in Nat /\ next[m] \in Nat
        BY <1>3, <1>7, <1>8, <1>10, <2>1
      <4>3. c[m] < next[m]
        BY <1>9, <4>1, <4>2
      <4>4. \A j \in Digit(type) : m < j => c[j] = next[j]
        <5>1. \A j \in Digit(type) : m < j => k < j
          BY <1>1, <1>3, <3>3
        <5> QED BY <1>6, <3>1, <5>1
      <4> QED BY <1>3, <2>1, <4>3, <4>4 DEF AtMost
    <3> QED BY <3>2, <3>3
  <2> QED BY <2>2, <2>3 DEF AtMost
<1>12. ASSUME NEW c \in AtMost(caps, type, next), c # next PROVE c \in AtMost(caps, type, d)
  <2>1. c \in Settings(caps, type) /\ c \in [Digit(type) -> Nat]
    BY <1>10 DEF AtMost
  <2>2. PICK k \in Digit(type) : c[k] < next[k] /\ \A j \in Digit(type) : k < j => c[j] = next[j]
    BY <1>12 DEF AtMost
  <2>3. CASE m < k
    <3>1. \A j \in Digit(type) : k < j => m < j
      BY <1>1, <1>3, <2>3
    <3> QED BY <1>6, <2>1, <2>2, <2>3, <3>1 DEF AtMost
  <2>4. CASE k = m
    <3>1. \A j \in Digit(type) : m < j => c[j] = d[j]
      BY <1>6, <2>2, <2>4
    <3>2. c[m] \in wanted(m) /\ c[m] \in Nat /\ d[m] \in Nat /\ next[m] \in Nat
      BY <1>3, <1>7, <1>8, <1>10, <2>1
    <3>3. c[m] <= d[m]
      BY <1>9, <2>2, <2>4, <3>2
    <3>4. \A j \in Digit(type) : j < m => c[j] <= d[j]
      BY <1>9, <1>10, <2>1
    <3>5. \A j \in Digit(type) : j < m \/ j = m \/ m < j
      BY <1>1, <1>3
    <3>6. \A j \in Digit(type) : d[j] \in Nat
      BY <1>7
    <3>7. \A j \in Digit(type) : c[j] <= d[j]
      BY <3>1, <3>3, <3>4, <3>5, <3>6
    <3> QED BY <2>1, <3>7, SmallerIsAtMost
  <2>5. CASE k < m
    <3>1. next[k] <= c[k] /\ next[k] \in Nat /\ c[k] \in Nat
      BY <1>6, <1>8, <1>9, <1>10, <2>1, <2>5
    <3> QED BY <2>2, <3>1
  <2>6. k < m \/ k = m \/ m < k
    BY <1>1, <1>3
  <2> QED BY <2>3, <2>4, <2>5, <2>6
<1>13. next \in AtMost(caps, type, next)
  BY <1>8 DEF AtMost
<1>14. AtMost(caps, type, next) = AtMost(caps, type, d) \cup {next}
  BY <1>11, <1>12, <1>13
<1> QED BY <1>8, <1>14 DEF next, valid

(* ... and from the largest setting to the next frequency.                 *)
LEMMA LastSetting ==
  ASSUME NEW caps, caps # {}, NEW type, NEW d \in Settings(caps, type),
         Turning(FindNext(caps), type, d) = {}
  PROVE  AtMost(caps, type, d) = Settings(caps, type)
<1>1. \A k \in Digit(type) : Turned(FindNext(caps), type, d, k) = -1
  BY DEF Turning
<1>2. \A k \in Digit(type) : \A n \in Wanted(caps, DigitList(type)[k]) : n <= d[k]
  BY <1>1, DigitTurns
<1>3. \A c \in Settings(caps, type) : \A k \in Digit(type) : c[k] <= d[k]
  BY <1>2 DEF Settings
<1>4. \A c \in Settings(caps, type) : c \in AtMost(caps, type, d)
  BY <1>3, SmallerIsAtMost
<1> QED BY <1>4 DEF AtMost

-----------------------------------------------------------------------------
(* The frequencies.                                                        *)

LEMMA StepsAreSteps ==
  ASSUME NEW a \in Int, NEW b \in Int, NEW c \in Nat \ {0}, c * b < c * a
  PROVE  c * b + c <= c * a
<1>1. b < a
  <2> SUFFICES ASSUME a <= b PROVE FALSE
    OBVIOUS
  <2>1. b - a \in Nat /\ c \in Nat
    OBVIOUS
  <2>2. c * (b - a) \in Nat
    BY <2>1
  <2>3. c * b = c * a + c * (b - a)
    OBVIOUS
  <2>4. c * a \in Int /\ c * b \in Int
    OBVIOUS
  <2> QED BY <2>2, <2>3, <2>4
<1>2. a - b - 1 \in Nat
  BY <1>1
<1>3. c * (a - b - 1) \in Nat
  BY <1>2
<1>4. c * a = c * b + c + c * (a - b - 1)
  OBVIOUS
<1>5. c * a \in Int /\ c * b \in Int
  OBVIOUS
<1> QED BY <1>3, <1>4, <1>5

(* A step goes from one frequency to the next.                             *)
LEMMA NextFrequencyIs ==
  ASSUME NEW f \in Frequencies
  PROVE  /\ NextFrequency(f) = f + FStep
         /\ \A g \in Frequencies : f < g => f + FStep <= g
<1>1. /\ FStep \in Nat \ {0} /\ FStart \in Nat /\ FreqMod \in Nat
      /\ FEnd \in Nat /\ FEnd + FStep < FreqMod
  BY ScanAssumption
<1>2. f \in Nat /\ FStart <= f /\ f <= FEnd /\ (f - FStart) % FStep = 0
  BY <1>1 DEF Frequencies
<1>3. NextFrequency(f) = f + FStep
  <2>1. f + FStep \in Nat /\ f + FStep < FreqMod
    BY <1>1, <1>2
  <2>2. (f + FStep) % FreqMod = f + FStep
    BY <1>1, <2>1
  <2> QED BY <2>2 DEF NextFrequency
<1>4. ASSUME NEW g \in Frequencies, f < g PROVE f + FStep <= g
  <2>1. g \in Nat /\ FStart <= g /\ (g - FStart) % FStep = 0
    BY <1>1 DEF Frequencies
  <2>2. /\ f - FStart \in Nat /\ g - FStart \in Nat
        /\ f - FStart = FStep * ((f - FStart) \div FStep) /\ (f - FStart) \div FStep \in Int
        /\ g - FStart = FStep * ((g - FStart) \div FStep) /\ (g - FStart) \div FStep \in Int
    BY <1>1, <1>2, <2>1
  <2>3. PICK b \in Int : f - FStart = FStep * b
    BY <2>2
  <2>4. PICK a \in Int : g - FStart = FStep * a
    BY <2>2
  <2>5. FStep * b < FStep * a
    BY <1>1, <1>2, <1>4, <2>1, <2>3, <2>4
  <2>6. FStep * b + FStep <= FStep * a
    BY <1>1, <2>5, StepsAreSteps
  <2> QED BY <1>1, <1>2, <2>1, <2>3, <2>4, <2>6
<1> QED BY <1>3, <1>4

-----------------------------------------------------------------------------
(* What a search has tried: everything or until the tuner locked at the    *)
(* frequencies it is done with, and the settings up to that it tries now.  *)

At(tried, f)   == {c[2] : c \in {c \in tried : c[1] = f}}
TriedAt(sr, f) == At(sr.tried, f)
AllOf(t)       == Settings(Caps[t], TunerType[t])

Done(sr, f) ==
  /\ TriedAt(sr, f) \subseteq AllOf(sr.tuner)
  /\ f \in sr.locked \/ TriedAt(sr, f) = AllOf(sr.tuner)

OnScan(sr, status) ==
  /\ sr.scan.f \in Frequencies /\ sr.scan.d \in AllOf(sr.tuner)
  /\ TriedAt(sr, sr.scan.f) = AtMost(Caps[sr.tuner], TunerType[sr.tuner], sr.scan.d)
  /\ \A f \in Frequencies : f < sr.scan.f => Done(sr, f)
  /\ \A f \in Frequencies : sr.scan.f < f => TriedAt(sr, f) = {}
  /\ status = "LOCK" => sr.scan.f \in sr.locked

Thorough(sr) == \A f \in Frequencies : Done(sr, f)

OneMore(tried, f, d) == tried \cup {<<f, d>>}

LEMMA OneMoreAt ==
  ASSUME NEW tried, NEW f, NEW d
  PROVE  /\ At(OneMore(tried, f, d), f) = At(tried, f) \cup {d}
         /\ \A g : g # f => At(OneMore(tried, f, d), g) = At(tried, g)
<1>1. <<f, d>>[1] = f /\ <<f, d>>[2] = d
  OBVIOUS
<1>2. ASSUME NEW g
      PROVE  {c \in OneMore(tried, f, d) : c[1] = g}
               = {c \in tried : c[1] = g} \cup (IF g = f THEN {<<f, d>>} ELSE {})
  BY <1>1 DEF OneMore
<1>3. ASSUME NEW g, NEW x
      PROVE  x \in At(OneMore(tried, f, d), g) <=> x \in At(tried, g) \/ (g = f /\ x = d)
  BY <1>1, <1>2 DEF At
<1>4. ASSUME NEW g PROVE At(OneMore(tried, f, d), g) = At(tried, g) \cup {x \in {d} : g = f}
  BY <1>3
<1>5. {x \in {d} : f = f} = {d} /\ \A g : g # f => {x \in {d} : g = f} = {}
  OBVIOUS
<1> QED BY <1>4, <1>5

(* A turn of the odometer leaves the scan right, its end everything tried. *)
LEMMA ScanStep ==
  ASSUME NEW t \in Tuner, TunerType[t] # "dvbc",
         NEW old, old.tuner = t, NEW status, OnScan(old, status),
         NEW next, next = ScanNext(Valid[t], TunerType[t], status, old.scan),
         NEW new, new.tuner = t, new.locked = old.locked
  PROVE  /\ /\ ScanGoesOn(TunerType[t], next)
            /\ new.scan = next /\ new.tried = old.tried \cup {<<next.f, next.d>>}
            => \A tried : tried # "LOCK" => OnScan(new, tried)
         /\ ~ScanGoesOn(TunerType[t], next) /\ new.tried = old.tried => Thorough(new)
<1> DEFINE f == old.scan.f
           d == old.scan.d
           type == TunerType[t]
           caps == Caps[t]
           turning == Turning(FindNext(caps), type, d)
           first == FirstDigits(FindNext(caps), type)
<1>1. /\ type \in {"dvbt", "dvbs"} /\ caps # {} /\ Valid[t] = FindNext(caps)
      /\ FStep \in Nat \ {0} /\ FEnd \in Nat
  BY SearchAssumption, ScanAssumption DEF Valid
<1>2. /\ f \in Frequencies /\ d \in Settings(caps, type)
      /\ TriedAt(old, f) = AtMost(caps, type, d)
      /\ \A g \in Frequencies : g < f => Done(old, g)
      /\ \A g \in Frequencies : f < g => TriedAt(old, g) = {}
      /\ status = "LOCK" => f \in old.locked
  BY DEF OnScan, AllOf
<1>3. /\ \A g \in Frequencies : g \in Nat /\ g <= FEnd
      /\ f \in Nat /\ f <= FEnd
      /\ NextFrequency(f) = f + FStep
      /\ \A g \in Frequencies : f < g => f + FStep <= g
  BY <1>2, FrequenciesAreNumbers, NextFrequencyIs
<1>4. ASSUME NEW g, Done(old, g), TriedAt(new, g) = TriedAt(old, g) PROVE Done(new, g)
  BY <1>4 DEF Done
<1>5. CASE status = "LOCK" \/ turning = {}
  <2>1. next.f = f + FStep /\ next.d = first
    <3>1. next = [d |-> first, f |-> NextFrequency(f)]
      BY <1>1, <1>5 DEF ScanNext, NextDigits
    <3> QED BY <1>3, <3>1
  <2>2. Done(old, f)
    <3>1. AtMost(caps, type, d) \subseteq Settings(caps, type)
      BY DEF AtMost
    <3>2. turning = {} => AtMost(caps, type, d) = Settings(caps, type)
      BY <1>1, <1>2, LastSetting
    <3> HIDE DEF f, d, type, caps, turning
    <3> QED BY <1>2, <1>5, <3>1, <3>2 DEF Done, AllOf, type, caps
  <2>3. \A g \in Frequencies : g < f + FStep => Done(old, g)
    <3>1. \A g \in Frequencies : g < f + FStep => g < f \/ g = f
      BY <1>1, <1>3
    <3> QED BY <1>2, <2>2, <3>1
  <2>4. ASSUME ScanGoesOn(type, next), new.scan = next,
               new.tried = old.tried \cup {<<next.f, next.d>>}, NEW tried, tried # "LOCK"
        PROVE  OnScan(new, tried)
    <3>1. next.f \in Frequencies
      BY <1>2, <2>4, ScanInFrequencies
    <3>2. first \in Settings(caps, type) /\ AtMost(caps, type, first) = {first}
      BY <1>1, FirstSetting
    <3> HIDE DEF f, d, type, caps, turning, first
    <3>8. new.tried = OneMore(old.tried, next.f, next.d)
      BY <2>4 DEF OneMore
    <3>3. /\ TriedAt(new, next.f) = TriedAt(old, next.f) \cup {next.d}
          /\ \A g : g # next.f => TriedAt(new, g) = TriedAt(old, g)
      BY <3>8, OneMoreAt DEF TriedAt
    <3>4. TriedAt(old, next.f) = {}
      BY <1>1, <1>2, <1>3, <2>1, <3>1
    <3>5. TriedAt(new, next.f) = AtMost(caps, type, next.d)
      BY <2>1, <3>2, <3>3, <3>4
    <3>6. ASSUME NEW g \in Frequencies, g < next.f PROVE Done(new, g)
      BY <1>4, <2>1, <2>3, <3>3, <3>6, <1>3
    <3>7. ASSUME NEW g \in Frequencies, next.f < g PROVE TriedAt(new, g) = {}
      <4>1. f < g /\ g # next.f
        BY <1>1, <1>3, <2>1, <3>7
      <4> QED BY <1>2, <3>3, <4>1
    <3> QED BY <2>1, <2>4, <3>1, <3>2, <3>5, <3>6, <3>7 DEF OnScan, AllOf, type, caps
  <2>5. ASSUME ~ScanGoesOn(type, next), new.tried = old.tried PROVE Thorough(new)
    <3>1. ~(f + FStep <= FEnd)
      BY <1>1, <2>1, <2>5 DEF ScanGoesOn
    <3>2. \A g \in Frequencies : g < f + FStep
      BY <1>1, <1>3, <3>1
    <3>3. \A g : TriedAt(new, g) = TriedAt(old, g)
      BY <2>5 DEF TriedAt
    <3> QED BY <1>4, <2>3, <3>2, <3>3 DEF Thorough
  <2> QED BY <2>4, <2>5
<1>6. CASE status # "LOCK" /\ turning # {}
  <2> DEFINE n == NextDigits(FindNext(caps), type, d)
  <2>1. next.f = f /\ next.d = n
    <3>1. next = [d |-> n, f |-> f]
      BY <1>1, <1>6 DEF ScanNext
    <3> QED BY <3>1
  <2>2. n \in Settings(caps, type) /\ AtMost(caps, type, n) = AtMost(caps, type, d) \cup {n}
    BY <1>1, <1>2, <1>6, NextSetting
  <2> HIDE DEF n
  <2>3. ScanGoesOn(type, next)
    BY <1>1, <1>3, <2>1 DEF ScanGoesOn
  <2>4. ASSUME new.scan = next, new.tried = old.tried \cup {<<next.f, next.d>>},
               NEW tried, tried # "LOCK"
        PROVE  OnScan(new, tried)
    <3> HIDE DEF f, d, type, caps, turning, first
    <3>8. new.tried = OneMore(old.tried, f, n)
      BY <2>1, <2>4 DEF OneMore
    <3>3. /\ TriedAt(new, f) = TriedAt(old, f) \cup {n}
          /\ \A g : g # f => TriedAt(new, g) = TriedAt(old, g)
      BY <3>8, OneMoreAt DEF TriedAt
    <3>5. TriedAt(new, f) = AtMost(caps, type, n)
      BY <1>2, <2>2, <3>3
    <3>6. ASSUME NEW g \in Frequencies, g < f PROVE Done(new, g)
      BY <1>2, <1>3, <1>4, <3>3, <3>6
    <3>7. ASSUME NEW g \in Frequencies, f < g PROVE TriedAt(new, g) = {}
      BY <1>2, <1>3, <3>3, <3>7
    <3> QED BY <1>2, <2>1, <2>2, <2>4, <3>5, <3>6, <3>7 DEF OnScan, AllOf, type, caps
  <2> QED BY <2>3, <2>4
<1> QED BY <1>5, <1>6

-----------------------------------------------------------------------------
(* The invariant: what a search that goes on has tried, and what one that  *)
(* reports it is complete.                                                 *)
ScanRight(sr, status) ==
  TunerType[sr.tuner] # "dvbc" =>
    /\ sr.phase = "searching" => OnScan(sr, status)
    /\ sr.phase = "reporting" /\ sr.status = "COMPLETED" => Thorough(sr)

ScansInv == \A s \in SearchId : ScanRight(search[s], tune[search[s].tuner].status)

ScansNext == \A s \in SearchId : ScanRight(search'[s], tune'[search'[s].tuner].status)

LEMMA PrimedScans == ScansInv' <=> ScansNext
BY DEF ScansInv, ScansNext, ScanRight, OnScan, Thorough, Done, TriedAt, At, AllOf, AtMost,
       Settings, Digit, DigitList, Wanted, Offered, Can, ListLen, NeedCapability,
       AutoValue, Frequencies

(* The scan depends on what is tried, and on nothing else of the search;   *)
(* a tuner only ever locks.                                                *)
LEMMA SameScan ==
  ASSUME NEW old, NEW new, new.tuner = old.tuner, new.scan = old.scan,
         new.phase = old.phase, new.tried = old.tried, old.locked \subseteq new.locked,
         new.status = "COMPLETED" => old.status = "COMPLETED",
         NEW before, NEW after, ScanRight(old, before),
         after = "LOCK" => before = "LOCK" \/ new.scan.f \in new.locked
  PROVE  ScanRight(new, after)
<1>1. \A f : TriedAt(new, f) = TriedAt(old, f)
  BY DEF TriedAt
<1>2. \A f : Done(old, f) => Done(new, f)
  BY <1>1 DEF Done
<1>3. Thorough(old) => Thorough(new)
  BY <1>2 DEF Thorough
<1>4. OnScan(old, before) => OnScan(new, after)
  BY <1>1, <1>2 DEF OnScan
<1> QED BY <1>3, <1>4 DEF ScanRight

(* A search nothing happens to.                                            *)
LEMMA ScanLeft ==
  ASSUME ScansInv, SearchInv, NEW q \in SearchId,
         search'[q].phase = search[q].phase, search'[q].tuner = search[q].tuner,
         search'[q].scan = search[q].scan, search'[q].tried = search[q].tried,
         search'[q].locked = search[q].locked, search'[q].status = search[q].status,
         q \in Searching => tune'[search[q].tuner].status = tune[search[q].tuner].status
  PROVE  ScanRight(search'[q], tune'[search'[q].tuner].status)
<1>1. ScanRight(search[q], tune[search[q].tuner].status)
  BY DEF ScansInv
<1>2. CASE q \in Searching
  BY <1>1, <1>2, SameScan
<1>3. CASE q \notin Searching
  <2>1. ScanRight(search'[q], tune[search[q].tuner].status)
    BY <1>1, SameScan
  <2> QED BY <1>3, <2>1 DEF ScanRight, Searching
<1> QED BY <1>2, <1>3

(* A step of one search and its tuner.                                     *)
LEMMA OneScan ==
  ASSUME SearchInv, ScansInv, NEW s \in Active, NEW t \in Tuner, t = search[s].tuner,
         \A q \in SearchId \ {s} : search'[q] = search[q],
         \A u \in Tuner \ {t} : tune'[u] = tune[u],
         search'[s].tuner = t, ScanRight(search'[s], tune'[t].status)
  PROVE  ScansInv'
<1>1. ASSUME NEW q \in SearchId, q # s
      PROVE  ScanRight(search'[q], tune'[search'[q].tuner].status)
  <2>1. search'[q] = search[q]
    BY <1>1
  <2>2. q \in Searching => search[q].tuner \in Tuner \ {t}
    BY <1>1 DEF SearchInv, TunersInv, Active, Searching
  <2> QED BY <2>1, <2>2, ScanLeft
<1> QED BY <1>1, PrimedScans DEF ScansNext

(* The end of a callback.                                                  *)
ScanMoves(s, t) ==
  /\ \A q \in SearchId \ {s} : search'[q] = search[q]
  /\ \A u \in Tuner \ {t} : tune'[u] = tune[u]
  /\ search'[s].tuner = t /\ ScanRight(search'[s], tune'[t].status)

LEMMA FinishMoves ==
  ASSUME TypeOK, NEW s \in SearchId, NEW t \in Tuner,
         NEW sr, DOMAIN sr = DOMAIN NoSearch, sr.tuner = t, NEW r, NEW status,
         Finish(s, sr, status), tune' = [tune EXCEPT ![t] = r],
         TunerType[t] # "dvbc" /\ status = "COMPLETED" => Thorough(sr)
  PROVE  ScanMoves(s, t)
<1> DEFINE new == [sr EXCEPT !.phase = "reporting", !.status = status]
<1>1. search' = [search EXCEPT ![s] = new]
  BY DEF Finish
<1>2. /\ new.tuner = t /\ new.phase = "reporting" /\ new.status = status
      /\ new.tried = sr.tried /\ new.locked = sr.locked
  BY DEF NoSearch
<1> HIDE DEF new
<1>3. /\ search'[s] = new /\ \A q \in SearchId \ {s} : search'[q] = search[q]
      /\ \A u \in Tuner \ {t} : tune'[u] = tune[u]
  BY <1>1 DEF TypeOK
<1>4. Thorough(sr) => Thorough(new)
  BY <1>2 DEF Thorough, Done, TriedAt
<1>5. ScanRight(new, tune'[t].status)
  BY <1>2, <1>4 DEF ScanRight
<1> QED BY <1>2, <1>3, <1>5 DEF ScanMoves

LEMMA ScanOnMoves ==
  ASSUME TypeOK, NEW s \in SearchId, NEW sr, SearchType(sr), NEW t \in Tuner, sr.tuner = t,
         sr.phase = "searching", NEW r \in TuneState,
         TunerType[t] # "dvbc" => OnScan(sr, r.status),
         ScanOn(s, r, sr)
  PROVE  ScanMoves(s, t)
<1>1. DOMAIN sr = DOMAIN NoSearch /\ DOMAIN tune = Tuner /\ DOMAIN search = SearchId
  BY DEF SearchType, TypeOK
<1>2. CASE sr.status \in Wish
  <2>1. Finish(s, sr, sr.status) /\ tune' = [tune EXCEPT ![t] = r]
    BY <1>2 DEF ScanOn
  <2>2. sr.status # "COMPLETED"
    BY <1>2, SearchAssumption
  <2> QED BY <1>1, <2>1, <2>2, FinishMoves
<1>3. CASE sr.status \notin Wish
  <2> DEFINE next == ScanNext(Valid[t], TunerType[t], r.status, sr.scan)
  <2>1. TryNext(s, r, sr)
    BY <1>3 DEF ScanOn
  <2>2. CASE ScanGoesOn(TunerType[t], next)
    <3>1. PICK taken \in BOOLEAN :
            tune' = [tune EXCEPT ![t] = ScannedTune(t, r, next.f, taken)]
      BY <2>1, <2>2 DEF TryNext
    <3>2. search' = [search EXCEPT ![s] = [sr EXCEPT !.scan = next,
                                 !.tried = @ \cup {<<next.f, next.d>>}]]
      BY <2>1, <2>2 DEF TryNext
    <3>3. next = ScanNext(Valid[t], TunerType[t], r.status, sr.scan)
      OBVIOUS
    <3> HIDE DEF next
    <3> DEFINE new == [sr EXCEPT !.scan = next, !.tried = @ \cup {<<next.f, next.d>>}]
    <3>4. /\ new.scan = next /\ new.tried = sr.tried \cup {<<next.f, next.d>>}
          /\ new.tuner = t /\ new.locked = sr.locked /\ new.phase = sr.phase
          /\ new.status = sr.status
      BY <1>1 DEF NoSearch
    <3> HIDE DEF new
    <3>5. /\ search'[s] = new /\ \A q \in SearchId \ {s} : search'[q] = search[q]
          /\ \A u \in Tuner \ {t} : tune'[u] = tune[u]
          /\ tune'[t] = ScannedTune(t, r, next.f, taken)
      BY <1>1, <3>1, <3>2 DEF new
    <3>6. TunerType[t] # "dvbc" => tune'[t].status = "TRYING"
      <4>1. ASSUME TunerType[t] # "dvbc"
            PROVE  ScannedTune(t, r, next.f, taken).status = "TRYING"
        BY <4>1 DEF ScannedTune, TuneState
      <4> QED BY <3>5, <4>1
    <3>7. TunerType[t] # "dvbc" => OnScan(new, "TRYING")
      BY <2>2, <3>3, <3>4, ScanStep
    <3>8. ScanRight(new, tune'[t].status)
      <4>1. TunerType[t] # "dvbc" /\ new.phase = "searching" => OnScan(new, tune'[t].status)
        BY <3>6, <3>7
      <4>2. ~(new.status = "COMPLETED" /\ new.phase = "reporting")
        BY <3>4
      <4> QED BY <3>4, <4>1, <4>2 DEF ScanRight
    <3> QED BY <3>4, <3>5, <3>8 DEF ScanMoves
  <2>3. CASE ~ScanGoesOn(TunerType[t], next)
    <3>1. /\ Finish(s, [sr EXCEPT !.scan = next], "COMPLETED")
          /\ tune' = [tune EXCEPT ![t] = r]
      BY <2>1, <2>3 DEF TryNext
    <3>2. next = ScanNext(Valid[t], TunerType[t], r.status, sr.scan)
      OBVIOUS
    <3> HIDE DEF next
    <3> DEFINE one == [sr EXCEPT !.scan = next]
    <3>3. /\ DOMAIN one = DOMAIN NoSearch /\ one.tuner = t
          /\ one.tried = sr.tried /\ one.locked = sr.locked
      BY <1>1 DEF NoSearch
    <3>4. Finish(s, one, "COMPLETED")
      BY <3>1
    <3> HIDE DEF one
    <3>5. TunerType[t] # "dvbc" => Thorough(one)
      BY <2>3, <3>2, <3>3, ScanStep
    <3> QED BY <3>1, <3>3, <3>4, <3>5, FinishMoves
  <2> QED BY <2>2, <2>3
<1> QED BY <1>2, <1>3

-----------------------------------------------------------------------------
(* Every step.                                                             *)

(* What an event and the recording of a channel leave of a search.         *)
LEMMA ReachedScan ==
  ASSUME TypeOK, NEW s \in SearchId
  PROVE  LET new == Reached(s) IN
           /\ SearchType(new) /\ Same(new, search[s]) /\ new.scan = search[s].scan
           /\ new.tried = search[s].tried /\ new.locked = search[s].locked
<1> DEFINE sr == search[s]
<1>1. SearchType(sr)
  BY DEF TypeOK
<1> HIDE DEF sr
<1>2. LET new == Reached(s) IN
        /\ new.scan = sr.scan /\ new.tried = sr.tried /\ new.locked = sr.locked
  BY <1>1, SearchFields DEF Reached, sr
<1> QED BY <1>2, ReachedSame DEF sr

LEMMA RecordedScan ==
  ASSUME NEW t, NEW sr, SearchType(sr)
  PROVE  LET new == Recorded(t, sr) IN
           /\ SearchType(new) /\ Same(new, sr) /\ new.scan = sr.scan
           /\ new.tried = sr.tried /\ new.locked = sr.locked
<1>1. LET new == Recorded(t, sr) IN
        /\ new.scan = sr.scan /\ new.tried = sr.tried /\ new.locked = sr.locked
  BY SearchFields DEF Recorded
<1> QED BY <1>1, RecordedSame

(* A search that scans on in its callback, after what sr has of it.        *)
LEMMA CallbackScans ==
  ASSUME SearchInv, ScansInv, NEW kind, Calling(kind),
         NEW sr, SearchType(sr), Same(sr, search[Top.search]),
         sr.scan = search[Top.search].scan, sr.tried = search[Top.search].tried,
         sr.locked = search[Top.search].locked,
         NEW r \in TuneState, r.status = tune[search[Top.search].tuner].status,
         ScanOn(Top.search, r, sr)
  PROVE  ScansInv'
<1> DEFINE s == Top.search
           t == search[s].tuner
<1>1. /\ TypeOK /\ s \in Searching /\ s \in SearchId /\ s \in Active /\ t \in Tuner
      /\ search[s].phase = "searching"
  BY CallingSearch DEF SearchInv, Searching, Active
<1>2. sr.tuner = t /\ sr.phase = "searching"
  BY <1>1 DEF Same
<1>3. ScanRight(sr, r.status)
  <2>1. ScanRight(search[s], tune[t].status)
    BY <1>1 DEF ScansInv
  <2>2. sr.status = search[s].status /\ sr.phase = search[s].phase /\ sr.tuner = t
    BY DEF Same
  <2> HIDE DEF s, t
  <2>3. /\ sr.scan = search[s].scan /\ sr.tried = search[s].tried
        /\ sr.locked = search[s].locked /\ r.status = tune[t].status
        /\ t = search[s].tuner
    BY DEF s, t
  <2> QED BY <2>1, <2>2, <2>3, SameScan
<1>4. TunerType[t] # "dvbc" => OnScan(sr, r.status)
  BY <1>2, <1>3 DEF ScanRight
<1> HIDE DEF s, t
<1>5. ScanOn(s, r, sr) /\ t = search[s].tuner
  BY DEF s, t
<1>6. ScanMoves(s, t)
  BY <1>1, <1>2, <1>4, <1>5, ScanOnMoves
<1> QED BY <1>1, <1>5, <1>6, OneScan DEF ScanMoves

(* A callback that leaves the scan and the status of the tuner.            *)
LEMMA CallbackWaits ==
  ASSUME SearchInv, ScansInv, NEW kind, Calling(kind), NEW new,
         Same(new, search[Top.search]),
         new.scan = search[Top.search].scan, new.tried = search[Top.search].tried,
         new.locked = search[Top.search].locked,
         search' = [search EXCEPT ![Top.search] = new],
         \A u \in Tuner : tune'[u].status = tune[u].status
  PROVE  ScansInv'
<1> DEFINE s == Top.search
<1>1. TypeOK /\ s \in SearchId
  BY CallingSearch DEF SearchInv
<1>2. /\ search'[s] = new /\ \A q \in SearchId \ {s} : search'[q] = search[q]
  BY <1>1 DEF TypeOK
<1>3. \A q \in Searching : search[q].tuner \in Tuner
  BY DEF SearchInv, TunersInv, Active, Searching
<1>4. ASSUME NEW q \in SearchId PROVE ScanRight(search'[q], tune'[search'[q].tuner].status)
  <2>1. /\ search'[q].phase = search[q].phase /\ search'[q].tuner = search[q].tuner
        /\ search'[q].scan = search[q].scan /\ search'[q].tried = search[q].tried
        /\ search'[q].locked = search[q].locked /\ search'[q].status = search[q].status
    BY <1>2 DEF Same
  <2> QED BY <1>3, <2>1, ScanLeft
<1> QED BY <1>4, PrimedScans DEF ScansNext

LEMMA LibraryScans == SearchInv /\ ScansInv /\ Library => ScansInv'
<1> SUFFICES ASSUME SearchInv, ScansInv, Library PROVE ScansInv'
  OBVIOUS
<1> DEFINE s == Top.search
           t == search[s].tuner
<1>1. ASSUME NEW kind, Calling(kind)
      PROVE  TypeOK /\ s \in SearchId /\ t \in Tuner /\ tune[t] \in TuneState
  BY <1>1, CallingSearch DEF SearchInv, TypeOK
<1>2. CASE TuneCallback
  <2>1. Calling("tuner")
    BY <1>2 DEF TuneCallback
  <2>2. LET new == Reached(s) IN
           /\ SearchType(new) /\ Same(new, search[s]) /\ new.scan = search[s].scan
           /\ new.tried = search[s].tried /\ new.locked = search[s].locked
    BY <1>1, <2>1, ReachedScan
  <2>3. CASE ScanOn(s, tune[t], Reached(s))
    BY <1>1, <2>1, <2>2, <2>3, CallbackScans
  <2>4. CASE StartDecoder(t) /\ search' = [search EXCEPT ![s] = Reached(s)]
    <3>1. \A u \in Tuner : tune'[u].status = tune[u].status
      <4>1. tune' = [tune EXCEPT ![t] = [tune[t] EXCEPT !.mydvb = tune[t].channel]]
        BY <2>4 DEF StartDecoder
      <4> DEFINE r == [tune[t] EXCEPT !.mydvb = tune[t].channel]
      <4>2. r.status = tune[t].status
        BY <1>1, <2>1 DEF TuneState
      <4> HIDE DEF r
      <4>3. tune' = [tune EXCEPT ![t] = r] /\ DOMAIN tune = Tuner
        BY <1>1, <2>1, <4>1 DEF TypeOK, r
      <4> QED BY <4>2, <4>3
    <3> QED BY <2>1, <2>2, <2>4, <3>1, CallbackWaits
  <2>5. CASE search' = [search EXCEPT ![s] = Reached(s)] /\ UNCHANGED tune
    BY <2>1, <2>2, <2>5, CallbackWaits
  <2> QED BY <1>2, <2>3, <2>4, <2>5 DEF TuneCallback
<1>3. CASE ReadyCallback
  <2>1. Calling("ready")
    BY <1>3 DEF ReadyCallback
  <2>2. LET new == Reached(s) IN
           /\ SearchType(new) /\ Same(new, search[s]) /\ new.scan = search[s].scan
           /\ new.tried = search[s].tried /\ new.locked = search[s].locked
    BY <1>1, <2>1, ReachedScan
  <2>3. CASE HasTables(t)
    <3> DEFINE sr == Recorded(t, Reached(s))
               r == StoppedDecoder(tune[t])
    <3>1. ScanOn(s, r, sr)
      BY <1>3, <2>3 DEF ReadyCallback
    <3>2. /\ SearchType(sr) /\ Same(sr, Reached(s)) /\ sr.scan = Reached(s).scan
          /\ sr.tried = Reached(s).tried /\ sr.locked = Reached(s).locked
      BY <2>2, RecordedScan
    <3>3. r \in TuneState /\ r.status = tune[t].status
      BY <1>1, <2>1, StoppedDecoderType DEF StoppedDecoder, TuneState
    <3> HIDE DEF sr, r
    <3>4. Same(sr, search[s])
      BY <2>2, <3>2 DEF Same
    <3> QED BY <2>1, <2>2, <3>1, <3>2, <3>3, <3>4, CallbackScans
  <2>4. CASE ~HasTables(t)
    <3>1. search' = [search EXCEPT ![s] = Reached(s)] /\ UNCHANGED tune
      BY <1>3, <2>4 DEF ReadyCallback
    <3> QED BY <2>1, <2>2, <3>1, CallbackWaits
  <2> QED BY <2>3, <2>4
<1>4. CASE TimeoutCallback
  <2>1. Calling("timeout")
    BY <1>4 DEF TimeoutCallback
  <2>2. CASE ScanOn(s, StoppedDecoder(tune[t]), search[s])
    <3> DEFINE r == StoppedDecoder(tune[t])
    <3>1. r \in TuneState /\ r.status = tune[t].status
      BY <1>1, <2>1, StoppedDecoderType DEF StoppedDecoder, TuneState
    <3>2. SearchType(search[s]) /\ Same(search[s], search[s])
      BY <1>1, <2>1 DEF TypeOK, Same
    <3>3. ScanOn(s, r, search[s])
      BY <2>2
    <3> HIDE DEF r
    <3> QED BY <2>1, <3>1, <3>2, <3>3, CallbackScans
  <2>3. CASE UNCHANGED <<tune, search>>
    BY <2>3, PrimedScans DEF ScansInv, ScansNext
  <2> QED BY <1>4, <2>2, <2>3 DEF TimeoutCallback
<1>5. CASE FinishSearch
  <2>1. /\ TypeOK /\ s \in Reporting /\ s \in SearchId /\ s \in Active
    <3>1. events # <<>> /\ Top.at = "finishing" /\ TypeOK
      BY <1>5 DEF FinishSearch, SearchInv
    <3>2. Len(events) \in DOMAIN events
      BY <3>1 DEF TypeOK
    <3> QED BY <3>1, <3>2 DEF SearchInv, EventsInv, StackInv, Top, Reporting, Active
  <2>2. t \in Tuner /\ SearchType(search[s])
    BY <2>1 DEF SearchInv, TunersInv, TypeOK
  <2> DEFINE new == [search[s] EXCEPT !.phase = "closed"]
  <2>3. new.phase = "closed" /\ new.tuner = t
    BY <2>2, SearchFields
  <2>4. search' = [search EXCEPT ![s] = new] /\ tune' = [tune EXCEPT ![t] = ReleasedTune(tune[t])]
    BY <1>5 DEF FinishSearch
  <2> HIDE DEF new
  <2>5. /\ search'[s] = new /\ \A q \in SearchId \ {s} : search'[q] = search[q]
        /\ \A u \in Tuner \ {t} : tune'[u] = tune[u]
    BY <2>1, <2>4 DEF TypeOK
  <2>6. ScanRight(search'[s], tune'[t].status)
    BY <2>3, <2>5 DEF ScanRight
  <2> QED BY <2>1, <2>2, <2>3, <2>5, <2>6, OneScan
<1> QED BY <1>2, <1>3, <1>4, <1>5 DEF Library

(* mydvb_tuner_search: the first setting at the first frequency.           *)
LEMMA FirstIsTried ==
  ASSUME NEW t \in Tuner, NEW sr, NEW scan, scan = ScanInit(Valid[t], TunerType[t]),
         sr.tuner = t, sr.scan = scan, sr.tried = {<<scan.f, scan.d>>}
  PROVE  OnScan(sr, "TRYING")
<1> DEFINE first == FirstDigits(FindNext(Caps[t]), TunerType[t])
<1>1. scan.f = FStart /\ scan.d = first /\ Caps[t] # {}
  <2>1. scan = [d |-> first, f |-> FStart]
    BY DEF ScanInit, Valid
  <2> HIDE DEF first
  <2> QED BY <2>1, SearchAssumption
<1>2. FStart \in Frequencies /\ \A f \in Frequencies : f \in Nat /\ ~(f < FStart)
  <2>1. FStart \in FStart..FEnd /\ FStart - FStart = 0 /\ FStep \in Nat \ {0} /\ FStart \in Nat
    BY ScanAssumption
  <2>2. (FStart - FStart) % FStep = 0
    BY <2>1
  <2> QED BY <2>1, <2>2 DEF Frequencies
<1>3. first \in AllOf(t) /\ AtMost(Caps[t], TunerType[t], first) = {first}
  BY <1>1, FirstSetting DEF AllOf
<1> HIDE DEF first
<1>4. /\ TriedAt(sr, FStart) = {first}
      /\ \A f : f # FStart => TriedAt(sr, f) = {}
  <2>1. \A f : At({}, f) = {}
    BY DEF At
  <2>2. sr.tried = OneMore({}, FStart, first)
    <3>1. {<<FStart, first>>} = {} \cup {<<FStart, first>>}
      OBVIOUS
    <3>2. sr.tried = {<<FStart, first>>}
      BY <1>1
    <3> QED BY <3>1, <3>2 DEF OneMore
  <2>3. /\ At(OneMore({}, FStart, first), FStart) = At({}, FStart) \cup {first}
        /\ \A f : f # FStart => At(OneMore({}, FStart, first), f) = At({}, f)
    BY OneMoreAt
  <2>4. {} \cup {first} = {first}
    OBVIOUS
  <2> QED BY <2>1, <2>2, <2>3, <2>4, Zenon DEF TriedAt
<1>5. \A f \in Frequencies : FStart < f => f # FStart
  BY <1>2, ScanAssumption
<1> QED BY <1>1, <1>2, <1>3, <1>4, <1>5 DEF OnScan

LEMMA TunerSearchScans ==
  ASSUME SearchInv, ScansInv, NEW s \in SearchId, NEW type, TunerSearch(s, type)
  PROVE  ScansInv'
<1>1. PICK t \in Available(type), taken \in BOOLEAN :
        LET scan == ScanInit(Valid[t], type) IN
          /\ tune' = [tune EXCEPT ![t] = ScannedTune(t,
               [tune[t] EXCEPT !.references = @ + 1], scan.f, taken)]
          /\ search' = [q \in SearchId |->
               IF q = s THEN [NoSearch EXCEPT !.phase = "searching",
                                !.status = "SEARCHING", !.tuner = t, !.scan = scan,
                                !.saved = SavedOf(listeners),
                                !.tried = {<<scan.f, scan.d>>}]
               ELSE [search[q] EXCEPT !.disturbed = @ \/ q \in Searching]]
  BY DEF TunerSearch
<1>2. /\ t \in Tuner /\ TunerType[t] = type /\ tune[t].references = 0
      /\ tune \in [Tuner -> TuneState] /\ \A q \in SearchId : SearchType(search[q])
  BY DEF Available, SearchInv, TypeOK
<1> DEFINE scan == ScanInit(Valid[t], type)
           mine1 == [NoSearch EXCEPT !.phase = "searching", !.status = "SEARCHING",
                       !.tuner = t, !.scan = scan, !.saved = SavedOf(listeners),
                       !.tried = {<<scan.f, scan.d>>}]
           other(q) == [search[q] EXCEPT !.disturbed = @ \/ q \in Searching]
           r == [tune[t] EXCEPT !.references = @ + 1]
           r1 == ScannedTune(t, r, scan.f, taken)
<1>3. /\ tune' = [tune EXCEPT ![t] = r1]
      /\ search' = [q \in SearchId |-> IF q = s THEN mine1 ELSE other(q)]
  BY <1>1
<1>4. scan = ScanInit(Valid[t], TunerType[t])
  BY <1>2
<1>5. r \in TuneState
  <2>1. tune[t] \in TuneState
    BY <1>2
  <2> QED BY <2>1 DEF TuneState
<1> HIDE DEF r, scan
<1>6. type # "dvbc" => r1.status = "TRYING"
  BY <1>2, <1>5 DEF ScannedTune, TuneState
<1> HIDE DEF r1
<1>7. /\ mine1.scan = scan /\ mine1.tuner = t /\ mine1.phase = "searching"
      /\ mine1.status = "SEARCHING" /\ mine1.tried = {<<scan.f, scan.d>>}
  BY DEF NoSearch
<1>8. ASSUME NEW q \in SearchId
      PROVE  /\ other(q).phase = search[q].phase /\ other(q).tuner = search[q].tuner
             /\ other(q).scan = search[q].scan /\ other(q).tried = search[q].tried
             /\ other(q).locked = search[q].locked /\ other(q).status = search[q].status
  <2>1. SearchType(search[q])
    BY <1>2
  <2> QED BY <2>1, SearchFields
<1> HIDE DEF mine1, other
<1>9. /\ search'[s] = mine1 /\ \A q \in SearchId \ {s} : search'[q] = other(q)
      /\ tune'[t] = r1 /\ \A u \in Tuner \ {t} : tune'[u] = tune[u]
  BY <1>2, <1>3
<1>10. ScanRight(search'[s], tune'[search'[s].tuner].status)
  <2>1. OnScan(mine1, "TRYING")
    BY <1>2, <1>4, <1>7, FirstIsTried
  <2>2. ScanRight(mine1, r1.status)
    BY <1>2, <1>6, <1>7, <2>1 DEF ScanRight
  <2> QED BY <1>7, <1>9, <2>2
<1>11. ASSUME NEW q \in SearchId, q # s
       PROVE  ScanRight(search'[q], tune'[search'[q].tuner].status)
  <2>1. q \in Searching => search[q].tuner \in Tuner \ {t}
    BY <1>2 DEF SearchInv, TunersInv, Held, Active, Searching
  <2> QED BY <1>8, <1>9, <1>11, <2>1, ScanLeft
<1> QED BY <1>10, <1>11, PrimedScans DEF ScansNext

LEMMA ClientScans == SearchInv /\ ScansInv /\ Client => ScansInv'
<1> SUFFICES ASSUME SearchInv, ScansInv, Client PROVE ScansInv'
  OBVIOUS
<1>1. CASE UNCHANGED <<tune, search>>
  BY <1>1, PrimedScans DEF ScansInv, ScansNext
<1>2. ASSUME NEW s \in SearchId, NEW wish \in Wish, AskEnd(s, wish) PROVE ScansInv'
  <2>1. DOMAIN search = SearchId /\ SearchType(search[s])
    BY DEF SearchInv, TypeOK
  <2> DEFINE old == search[s]
             new == [old EXCEPT !.status = wish]
  <2>2. search' = [search EXCEPT ![s] = new] /\ UNCHANGED tune
    BY <1>2 DEF AskEnd
  <2>3. /\ new.tuner = old.tuner /\ new.scan = old.scan /\ new.phase = old.phase
        /\ new.tried = old.tried /\ new.locked = old.locked /\ new.status = wish
    BY <2>1, SearchFields
  <2>4. wish # "COMPLETED"
    BY SearchAssumption
  <2> HIDE DEF new
  <2>5. ScanRight(new, tune[old.tuner].status)
    BY <2>3, <2>4, SameScan DEF ScansInv
  <2>6. search'[s] = new /\ \A q \in SearchId \ {s} : search'[q] = search[q]
    BY <2>1, <2>2
  <2>7. ASSUME NEW q \in SearchId PROVE ScanRight(search'[q], tune'[search'[q].tuner].status)
    BY <2>2, <2>3, <2>5, <2>6 DEF ScansInv
  <2> QED BY <2>7, PrimedScans DEF ScansNext
<1> QED BY <1>1, <1>2, TunerSearchScans DEF Client, Register, RemoveListener

(* A tuner that locks does so at the frequency its search is at.           *)
LEMMA MainLoopScans == SearchInv /\ ScansInv /\ MainLoop => ScansInv'
<1> SUFFICES ASSUME SearchInv, ScansInv, MainLoop PROVE ScansInv'
  OBVIOUS
<1>1. CASE UNCHANGED <<tune, search>>
  BY <1>1, PrimedScans DEF ScansInv, ScansNext
<1>2. /\ DOMAIN search = SearchId /\ \A q \in SearchId : SearchType(search[q])
      /\ tune \in [Tuner -> TuneState]
      /\ \A q \in Searching : search[q].tuner \in Tuner
  BY DEF SearchInv, TypeOK, TunersInv, Searching, Active
<1>3. ASSUME NEW t \in Tuner, NEW status, status # "LOCK",
             tune' = [tune EXCEPT ![t].status = status], search' = search
      PROVE  ScansInv'
  <2>1. \A u \in Tuner : tune'[u].status = "LOCK" => tune[u].status = "LOCK"
    <3>1. tune'[t].status = status /\ \A u \in Tuner \ {t} : tune'[u] = tune[u]
      BY <1>2, <1>3 DEF TuneState
    <3> QED BY <1>3, <3>1
  <2>2. ASSUME NEW q \in SearchId PROVE ScanRight(search'[q], tune'[search'[q].tuner].status)
    <3>1. ScanRight(search[q], tune[search[q].tuner].status)
      BY DEF ScansInv
    <3>2. CASE q \in Searching
      BY <1>2, <1>3, <2>1, <3>1, <3>2, SameScan
    <3>3. CASE q \notin Searching
      BY <1>3, <3>1, <3>3 DEF ScanRight, Searching
    <3> QED BY <3>2, <3>3
  <2> QED BY <2>2, PrimedScans DEF ScansNext
<1>4. ASSUME NEW t \in Tuner, Lock(t) PROVE ScansInv'
  <2>1. ASSUME NEW q \in SearchId PROVE ScanRight(search'[q], tune'[search'[q].tuner].status)
    <3> DEFINE old == search[q]
               more == [old EXCEPT !.locked = @ \cup {old.scan.f}]
    <3>1. ScanRight(old, tune[old.tuner].status)
      BY DEF ScansInv
    <3>2. search'[q] = IF q \in Searching /\ old.tuner = t THEN more ELSE old
      BY <1>4 DEF Lock, WithLocked
    <3>3. SearchType(old)
      BY <1>2
    <3> HIDE DEF old
    <3>4. /\ more.tuner = old.tuner /\ more.scan = old.scan /\ more.phase = old.phase
          /\ more.tried = old.tried /\ more.locked = old.locked \cup {old.scan.f}
          /\ more.status = old.status
      BY <3>3, SearchFields
    <3>5. \A u \in Tuner \ {t} : tune'[u] = tune[u]
      BY <1>2, <1>4 DEF Lock
    <3> HIDE DEF more
    <3>6. CASE q \in Searching /\ old.tuner = t
      <4>1. more.scan.f \in more.locked /\ old.locked \subseteq more.locked
        BY <3>4
      <4>2. ScanRight(more, tune'[t].status)
        BY <3>1, <3>4, <3>6, <4>1, SameScan
      <4> QED BY <3>2, <3>4, <3>6, <4>2
    <3>7. CASE q \in Searching /\ old.tuner # t
      <4>1. old.tuner \in Tuner
        BY <1>2, <3>7 DEF old
      <4> QED BY <3>1, <3>2, <3>5, <3>7, <4>1
    <3>8. CASE q \notin Searching
      BY <3>1, <3>2, <3>8 DEF ScanRight, Searching, old
    <3> QED BY <3>6, <3>7, <3>8
  <2> QED BY <2>1, PrimedScans DEF ScansNext
<1>5. ASSUME NEW t \in Tuner, Fail(t) PROVE ScansInv'
  BY <1>3, <1>5 DEF Fail
<1> QED BY <1>1, <1>4, <1>5 DEF MainLoop, ReadTables, Second, OtherEvent

LEMMA ScansInvInit == Init => ScansInv
BY DEF Init, ScansInv, ScanRight, NoSearch

LEMMA ScansInvStep == SearchInv /\ ScansInv /\ [Next]_vars => ScansInv'
<1> SUFFICES ASSUME SearchInv, ScansInv, [Next]_vars PROVE ScansInv'
  OBVIOUS
<1>1. CASE UNCHANGED vars \/ NextListener
  <2>1. UNCHANGED <<tune, search>>
    BY <1>1 DEF vars, NextListener
  <2> QED BY <2>1, PrimedScans DEF ScansInv, ScansNext
<1> QED BY <1>1, ClientScans, LibraryScans, MainLoopScans DEF Next

(* A search that reports it is complete has done what mydvb_tune_scan_next *)
(* is for: at every frequency its tuner has locked, or every combination   *)
(* of parameters the tuner can do was tried and no other, whatever events  *)
(* of other tuners and searches have called its callbacks.                 *)
THEOREM CompletedIsThoroughCorrect == Spec => []CompletedIsThorough
<1>1. SearchInv /\ ScansInv => CompletedIsThorough
  <2> SUFFICES ASSUME SearchInv, ScansInv, NEW s \in SearchId,
                      search[s].phase = "reporting", search[s].status = "COMPLETED",
                      TunerType[search[s].tuner] # "dvbc", NEW f \in Frequencies
               PROVE  LET tried == {c[2] : c \in {c \in search[s].tried : c[1] = f}} IN
                        /\ tried \subseteq ToTry[search[s].tuner]
                        /\ f \in search[s].locked \/ tried = ToTry[search[s].tuner]
    BY DEF CompletedIsThorough
  <2>1. search[s].tuner \in Tuner
    BY DEF SearchInv, TunersInv, Active
  <2>2. ToTry[search[s].tuner] = AllOf(search[s].tuner)
    BY <2>1, SearchAssumption, CombinationsAreSettings DEF ToTry, AllOf
  <2>3. Done(search[s], f)
    BY DEF ScansInv, ScanRight, Thorough
  <2> QED BY <2>2, <2>3 DEF Done, TriedAt, At
<1>2. SearchInv /\ ScansInv /\ [Next]_vars => (SearchInv /\ ScansInv)'
  BY NextInv, ScansInvStep
<1> QED BY <1>1, <1>2, InitInv, ScansInvInit, PTL DEF Spec

-----------------------------------------------------------------------------
(* Lists of lists.  The recursive function FlattenSeq is defined by exists *)
(* and its value follows, as for Combinations above.                       *)

JoinStep(ss, g, i) == IF i = 1 THEN ss[i] ELSE g[i - 1] \o ss[i]

IsJoinUpTo(ss, g, n) == g = [i \in 1..n |-> JoinStep(ss, g, i)]

LEMMA JoinExists ==
  ASSUME NEW ss, Len(ss) \in Nat, Len(ss) # 0
  PROVE  \E g : IsJoinUpTo(ss, g, Len(ss))
<1> DEFINE Has(m) == \E g : IsJoinUpTo(ss, g, m + 1)
           G == {m \in Nat : Has(m)}
<1> HIDE DEF Has
<1>1. Has(0)
  <2> DEFINE g == [n \in 1..0 + 1 |-> ss[1]]
  <2>1. g = [n \in 1..0 + 1 |-> JoinStep(ss, g, n)]
    BY DEF JoinStep
  <2> HIDE DEF g
  <2> QED BY <2>1 DEF Has, IsJoinUpTo
<1>2. ASSUME NEW m \in Nat, Has(m) PROVE Has(m + 1)
  <2>1. PICK g : g = [n \in 1..m + 1 |-> JoinStep(ss, g, n)]
    BY <1>2 DEF Has, IsJoinUpTo
  <2> DEFINE h == [n \in 1..(m + 1) + 1 |-> JoinStep(ss, g, n)]
  <2>2. ASSUME NEW n \in 1..(m + 1) + 1 PROVE JoinStep(ss, g, n) = JoinStep(ss, h, n)
    <3>1. CASE n = 1
      BY <3>1 DEF JoinStep
    <3>2. CASE n # 1
      <4>1. n - 1 \in 1..m + 1 /\ n - 1 \in 1..(m + 1) + 1
        BY <3>2
      <4>2. h[n - 1] = g[n - 1]
        BY <4>1, <2>1
      <4> QED BY <3>2, <4>2 DEF JoinStep
    <3> QED BY <3>1, <3>2
  <2>3. h = [n \in 1..(m + 1) + 1 |-> JoinStep(ss, h, n)]
    BY <2>2
  <2> HIDE DEF h
  <2> QED BY <2>3 DEF Has, IsJoinUpTo
<1>3. Has(Len(ss) - 1)
  <2>1. 0 \in G /\ \A m \in 0..(Len(ss) - 1) - 1 : m \in G => m + 1 \in G
    BY <1>1, <1>2
  <2>2. Len(ss) - 1 \in Nat /\ Len(ss) - 1 \in 0..Len(ss) - 1
    OBVIOUS
  <2> HIDE DEF G
  <2>3. Len(ss) - 1 \in G
    BY <2>1, <2>2, UpTo
  <2> QED BY <2>3 DEF G
<1>4. Len(ss) - 1 + 1 = Len(ss)
  OBVIOUS
<1> QED BY <1>3, <1>4 DEF Has

LEMMA JoinUpTo ==
  ASSUME NEW ss, Len(ss) \in Nat, Len(ss) # 0
  PROVE  \E g : IsJoinUpTo(ss, g, Len(ss)) /\ FlattenSeq(ss) = g[Len(ss)]
<1> DEFINE g == CHOOSE g : IsJoinUpTo(ss, g, Len(ss))
<1>1. IsJoinUpTo(ss, g, Len(ss))
  BY JoinExists, Zenon
<1>2. FlattenSeq(ss) = g[Len(ss)]
  BY DEF FlattenSeq, IsJoinUpTo, JoinStep
<1> HIDE DEF g
<1> QED BY <1>1, <1>2

(* One list more is put behind the others.                                 *)
LEMMA FlattenAppend ==
  ASSUME NEW S, NEW ss \in Seq(Seq(S)), NEW x \in Seq(S)
  PROVE  /\ FlattenSeq(ss) \in Seq(S)
         /\ FlattenSeq(Append(ss, x)) = FlattenSeq(ss) \o x
<1> DEFINE n == Len(ss)
           tt == Append(ss, x)
<1>1. /\ n \in Nat /\ Len(tt) = n + 1 /\ tt[n + 1] = x
      /\ \A i \in 1..n : tt[i] = ss[i] /\ ss[i] \in Seq(S)
  OBVIOUS
<1> HIDE DEF tt
<1>2. PICK h : IsJoinUpTo(tt, h, n + 1) /\ FlattenSeq(tt) = h[n + 1]
  <2>1. Len(tt) \in Nat /\ Len(tt) # 0
    BY <1>1
  <2> QED BY <1>1, <2>1, JoinUpTo
<1>3. \A i \in 1..n + 1 : h[i] = JoinStep(tt, h, i)
  BY <1>2 DEF IsJoinUpTo
<1>4. CASE n = 0
  <2>1. ss = <<>>
    BY <1>4
  <2>2. FlattenSeq(ss) = <<>>
    BY <1>4, <2>1 DEF FlattenSeq
  <2>3. h[1] = x /\ n + 1 = 1
    BY <1>1, <1>3, <1>4 DEF JoinStep
  <2>4. <<>> \o x = x
    OBVIOUS
  <2> QED BY <1>2, <2>2, <2>3, <2>4 DEF tt
<1>5. CASE n # 0
  <2>1. PICK g : IsJoinUpTo(ss, g, n) /\ FlattenSeq(ss) = g[n]
    BY <1>1, <1>5, JoinUpTo
  <2>2. \A i \in 1..n : g[i] = JoinStep(ss, g, i)
    BY <2>1 DEF IsJoinUpTo
  <2> DEFINE G == {m \in 0..n - 1 : g[m + 1] = h[m + 1] /\ g[m + 1] \in Seq(S)}
  <2>3. 0 \in G
    <3>1. 1 \in 1..n /\ 1 \in 1..n + 1 /\ 0 \in 0..n - 1 /\ 0 + 1 = 1
      BY <1>1, <1>5
    <3>2. g[1] = ss[1] /\ h[1] = tt[1]
      BY <1>3, <2>2, <3>1 DEF JoinStep
    <3> QED BY <1>1, <3>1, <3>2
  <2>4. ASSUME NEW m \in 0..n - 1 - 1, m \in G PROVE m + 1 \in G
    <3> DEFINE i == m + 1 + 1
    <3>1. /\ i \in 1..n /\ i \in 1..n + 1 /\ i # 1 /\ i - 1 = m + 1 /\ m + 1 \in 0..n - 1
      BY <1>1
    <3>2. g[i] = g[m + 1] \o ss[i] /\ h[i] = h[m + 1] \o tt[i]
      BY <1>3, <2>2, <3>1 DEF JoinStep
    <3>3. g[m + 1] = h[m + 1] /\ g[m + 1] \in Seq(S)
      BY <2>4
    <3>4. g[i] = h[i] /\ g[i] \in Seq(S)
      <4>1. tt[i] = ss[i] /\ ss[i] \in Seq(S)
        BY <1>1, <3>1
      <4> QED BY <3>2, <3>3, <4>1
    <3> QED BY <3>1, <3>4
  <2>5. n - 1 \in G
    <3>1. n - 1 \in Nat /\ n - 1 \in 0..n - 1
      BY <1>1, <1>5
    <3> HIDE DEF G
    <3> QED BY <2>3, <2>4, <3>1, UpTo
  <2>6. n - 1 + 1 = n
    BY <1>1
  <2>7. g[n] = h[n] /\ g[n] \in Seq(S)
    BY <2>5, <2>6
  <2>8. h[n + 1] = h[n] \o x
    <3> DEFINE i == n + 1
    <3>1. i \in 1..n + 1 /\ i # 1 /\ i - 1 = n /\ tt[i] = x
      BY <1>1, <1>5
    <3> HIDE DEF i
    <3>2. h[i] = h[i - 1] \o tt[i]
      BY <1>3, <3>1 DEF JoinStep
    <3>3. h[i] = h[n] \o x
      BY <3>1, <3>2
    <3> QED BY <3>3 DEF i
  <2> QED BY <1>2, <2>1, <2>7, <2>8 DEF tt
<1> QED BY <1>4, <1>5

(* A step of 8 MHz or more: every frequency has a channel of its own.      *)
LEMMA UhfChannelGrows ==
  ASSUME NEW f \in Frequencies, NEW g \in Frequencies, f < g
  PROVE  UhfChannel(f) < UhfChannel(g)
<1>1. f \in Nat /\ g \in Nat
  BY FrequenciesAreNumbers
<1>2. FStep \in Nat \ {0} /\ FStep % 8 = 0
  BY ScanAssumption
<1>3. FStep >= 8
  BY <1>2
<1>4. f + FStep <= g
  BY NextFrequencyIs
<1>5. f - 306 + 8 <= g - 306
  BY <1>1, <1>2, <1>3, <1>4
<1>6. (f - 306) \div 8 < (g - 306) \div 8
  BY <1>1, <1>5
<1> QED BY <1>6 DEF UhfChannel

LEMMA UhfChannelIsOne ==
  ASSUME NEW f \in Frequencies, NEW g \in Frequencies, UhfChannel(f) = UhfChannel(g)
  PROVE  f = g
<1>1. f \in Nat /\ g \in Nat
  BY FrequenciesAreNumbers
<1>2. UhfChannel(f) \in Int
  BY <1>1 DEF UhfChannel
<1>3. f < g \/ g < f \/ f = g
  BY <1>1
<1> QED BY <1>2, <1>3, UhfChannelGrows

-----------------------------------------------------------------------------
(* What a search has found: channels in the order of their frequencies,    *)
(* each with the programs of its PAT, numbered through.                    *)

AnyProgram ==
  {ProgramOf(number, AirSdt[f], n) : number \in Nat, f \in Frequencies, n \in Nat}

AnyChannel == [n : Int, f : Frequencies, programs : Seq(AnyProgram)]

ListsOf(found)    == [i \in DOMAIN found |-> found[i].programs]
ProgramsOf(found) == FlattenSeq(ListsOf(found))

ChannelRight(c) ==
  /\ c.n = UhfChannel(c.f)
  /\ [k \in DOMAIN c.programs |-> c.programs[k].number] = AirPat[c.f]

NumberedFrom(programs, first) ==
  \A k \in DOMAIN programs : programs[k].user_number = first + k - 1

(* n is the number of the next program. *)
Rightly(found, n) ==
  /\ found \in Seq(AnyChannel) /\ n \in Nat \ {0}
  /\ \A i \in DOMAIN found : ChannelRight(found[i])
  /\ \A i, j \in DOMAIN found : i < j => found[i].f < found[j].f
  /\ Len(ProgramsOf(found)) = n - 1
  /\ NumberedFrom(ProgramsOf(found), 1)

AllBelow(found, f) == \A i \in DOMAIN found : found[i].f < f

LEMMA ListsOfAppend ==
  ASSUME NEW found \in Seq(AnyChannel), NEW c \in AnyChannel
  PROVE  /\ ListsOf(found) \in Seq(Seq(AnyProgram)) /\ c.programs \in Seq(AnyProgram)
         /\ ListsOf(Append(found, c)) = Append(ListsOf(found), c.programs)
<1>1. ASSUME NEW any \in Seq(AnyChannel)
      PROVE  /\ ListsOf(any) \in Seq(Seq(AnyProgram)) /\ Len(ListsOf(any)) = Len(any)
             /\ \A i \in 1..Len(any) : ListsOf(any)[i] = any[i].programs
  <2>1. /\ Len(any) \in Nat /\ DOMAIN any = 1..Len(any)
        /\ \A i \in 1..Len(any) : any[i] \in AnyChannel
    OBVIOUS
  <2>2. \A i \in 1..Len(any) : any[i].programs \in Seq(AnyProgram)
    BY <2>1 DEF AnyChannel
  <2>3. ListsOf(any) = [i \in 1..Len(any) |-> any[i].programs]
    BY <2>1 DEF ListsOf
  <2> QED BY <2>1, <2>2, <2>3
<1>2. c.programs \in Seq(AnyProgram)
  BY DEF AnyChannel
<1> DEFINE more == Append(found, c)
           lists == ListsOf(found)
           longer == Append(lists, c.programs)
<1>3. /\ more \in Seq(AnyChannel) /\ Len(more) = Len(found) + 1 /\ Len(found) \in Nat
      /\ more[Len(found) + 1] = c
      /\ \A i \in 1..Len(found) : more[i] = found[i]
  OBVIOUS
<1>4. /\ lists \in Seq(Seq(AnyProgram)) /\ Len(lists) = Len(found)
      /\ \A i \in 1..Len(found) : lists[i] = found[i].programs
  BY <1>1
<1> HIDE DEF lists
<1>5. /\ longer \in Seq(Seq(AnyProgram)) /\ Len(longer) = Len(found) + 1
      /\ longer[Len(found) + 1] = c.programs
      /\ \A i \in 1..Len(found) : longer[i] = lists[i]
  BY <1>2, <1>4
<1> HIDE DEF more, longer
<1>6. /\ ListsOf(more) \in Seq(Seq(AnyProgram)) /\ Len(ListsOf(more)) = Len(found) + 1
      /\ \A i \in 1..Len(found) + 1 : ListsOf(more)[i] = more[i].programs
  BY <1>1, <1>3
<1> DEFINE all == ListsOf(more)
<1> HIDE DEF all
<1>7. all \in Seq(Seq(AnyProgram)) /\ Len(all) = Len(longer)
  BY <1>5, <1>6 DEF all
<1>8. ASSUME NEW i \in 1..Len(found) + 1 PROVE all[i] = longer[i]
  <2>1. i \in 1..Len(found) \/ i = Len(found) + 1
    BY <1>3
  <2> QED BY <1>3, <1>4, <1>5, <1>6, <2>1 DEF all
<1>9. all = longer
  <2>1. Len(all) = Len(found) + 1
    BY <1>5, <1>7
  <2> QED BY <1>5, <1>7, <1>8, <2>1, SeqEqual
<1> QED BY <1>2, <1>4, <1>9 DEF all, more, longer, lists

LEMMA NothingIsRight == Rightly(<<>>, 1)
<1>1. ListsOf(<<>>) = <<>>
  BY DEF ListsOf
<1>2. ProgramsOf(<<>>) = <<>>
  BY <1>1 DEF ProgramsOf, FlattenSeq
<1>3. <<>> \in Seq(AnyChannel) /\ DOMAIN <<>> = {} /\ Len(<<>>) = 0
  OBVIOUS
<1> QED BY <1>2, <1>3 DEF Rightly, NumberedFrom

LEMMA OneMoreFound ==
  ASSUME NEW found, NEW n, Rightly(found, n),
         NEW c \in AnyChannel, ChannelRight(c), NumberedFrom(c.programs, n),
         AllBelow(found, c.f)
  PROVE  /\ Rightly(Append(found, c), n + Len(c.programs))
         /\ \A f \in Nat : c.f < f => AllBelow(Append(found, c), f)
<1> DEFINE more == Append(found, c)
           programs == ProgramsOf(found)
           all == ProgramsOf(more)
<1>1. found \in Seq(AnyChannel) /\ n \in Nat /\ n # 0
  BY DEF Rightly
<1>2. /\ more \in Seq(AnyChannel) /\ DOMAIN more = 1..Len(found) + 1 /\ Len(found) \in Nat
      /\ DOMAIN found = 1..Len(found) /\ more[Len(found) + 1] = c
      /\ \A i \in 1..Len(found) : more[i] = found[i]
  BY <1>1
<1>3. /\ programs \in Seq(AnyProgram) /\ c.programs \in Seq(AnyProgram)
      /\ all = programs \o c.programs
  BY <1>1, ListsOfAppend, FlattenAppend DEF ProgramsOf
<1>4. Len(programs) = n - 1 /\ \A k \in DOMAIN programs : programs[k].user_number = 1 + k - 1
  BY DEF Rightly, NumberedFrom
<1>5. \A i \in 1..Len(found) : found[i] \in AnyChannel
  BY <1>1
<1> DEFINE last == c.programs
<1> HIDE DEF more, all, programs, last
<1>f. /\ last \in Seq(AnyProgram) /\ Len(last) \in Nat /\ DOMAIN last = 1..Len(last)
      /\ all \in Seq(AnyProgram) /\ Len(all) = (n - 1) + Len(last)
      /\ \A i \in 1..(n - 1) + Len(last) :
           all[i] = IF i <= n - 1 THEN programs[i] ELSE last[i - (n - 1)]
  <2>1. programs \in Seq(AnyProgram) /\ last \in Seq(AnyProgram) /\ all = programs \o last
    BY <1>3 DEF last
  <2>2. /\ Len(last) \in Nat /\ DOMAIN last = 1..Len(last)
        /\ all \in Seq(AnyProgram) /\ Len(all) = Len(programs) + Len(last)
    BY <2>1, ConcatProperties, LenProperties
  <2>3. \A i \in 1..Len(programs) + Len(last) :
           all[i] = IF i <= Len(programs) THEN programs[i] ELSE last[i - Len(programs)]
    BY <2>1, ConcatProperties
  <2> QED BY <1>4, <2>1, <2>2, <2>3
<1>6. /\ Len(all) = (n + Len(c.programs)) - 1 /\ n + Len(c.programs) \in Nat \ {0}
  <2>1. n \in Nat /\ n # 0 /\ Len(last) \in Nat /\ Len(all) = (n - 1) + Len(last)
    BY <1>1, <1>f
  <2>2. Len(all) = (n + Len(last)) - 1 /\ n + Len(last) \in Nat \ {0}
    BY <2>1
  <2> QED BY <2>2 DEF last
<1>7. NumberedFrom(all, 1)
  <2>0. \A k \in DOMAIN last : last[k].user_number = n + k - 1
    BY DEF NumberedFrom, last
  <2>2. ASSUME NEW k \in DOMAIN all PROVE all[k].user_number = 1 + k - 1
    <3>1. /\ DOMAIN all = 1..(n - 1) + Len(last) /\ DOMAIN programs = 1..n - 1
      <4>1. DOMAIN all = 1..Len(all) /\ DOMAIN programs = 1..Len(programs)
        BY <1>3, <1>f
      <4> QED BY <1>4, <1>f, <4>1
    <3>2. CASE k <= n - 1
      <4>1. k \in DOMAIN programs /\ all[k] = programs[k]
        BY <1>1, <1>f, <3>1, <3>2
      <4> QED BY <1>4, <4>1
    <3>3. CASE ~(k <= n - 1)
      <4>1. /\ k - (n - 1) \in DOMAIN last /\ all[k] = last[k - (n - 1)]
            /\ n + (k - (n - 1)) - 1 = 1 + k - 1
        <5>1. k \in 1..(n - 1) + Len(last) /\ ~(k <= n - 1) /\ n \in Nat /\ k \in Int
          BY <1>1, <3>1, <3>3
        <5>2. all[k] = last[k - (n - 1)]
          BY <1>f, <5>1
        <5>3. k - (n - 1) \in 1..Len(last)
          BY <1>f, <5>1
        <5>4. n + (k - (n - 1)) - 1 = 1 + k - 1
          BY <5>1
        <5> QED BY <1>f, <5>2, <5>3, <5>4
      <4> QED BY <2>0, <4>1
    <3> QED BY <3>2, <3>3
  <2> QED BY <2>2 DEF NumberedFrom
<1>8. \A i \in DOMAIN more : i \in 1..Len(found) \/ i = Len(found) + 1
  BY <1>2
<1>9. \A i \in DOMAIN more : ChannelRight(more[i])
  BY <1>2, <1>8 DEF Rightly
<1>10. ASSUME NEW i \in DOMAIN more, NEW j \in DOMAIN more, i < j
       PROVE  more[i].f < more[j].f
  <2>1. i \in 1..Len(found)
    BY <1>2, <1>10
  <2> QED BY <1>2, <1>8, <1>10, <2>1 DEF Rightly, AllBelow
<1>11. ASSUME NEW f \in Nat, c.f < f PROVE AllBelow(more, f)
  <2>1. \A i \in 1..Len(found) : found[i].f \in Nat
    BY <1>5, FrequenciesAreNumbers DEF AnyChannel
  <2>2. c.f \in Nat
    BY FrequenciesAreNumbers DEF AnyChannel
  <2> QED BY <1>2, <1>8, <1>11, <2>1, <2>2 DEF AllBelow
<1> QED BY <1>2, <1>6, <1>7, <1>9, <1>10, <1>11 DEF Rightly, more, all

(* The channel that is recorded, of a tuner whose tables are right.        *)
LEMMA ChannelOfIsRight ==
  ASSUME NEW t, NEW sr, sr.user_number \in Nat \ {0},
         tables[DecoderOf(t)] \in Frequencies, tune[t].p = tables[DecoderOf(t)],
         tune[t].channel = UhfChannel(tune[t].p)
  PROVE  LET c == ChannelOf(t, sr) IN
           /\ c \in AnyChannel /\ ChannelRight(c) /\ c.f = tune[t].p
           /\ NumberedFrom(c.programs, sr.user_number)
<1> DEFINE f == tables[DecoderOf(t)]
           n == sr.user_number
           pat == AirPat[f]
           program(i) == ProgramOf(pat[i], AirSdt[f], n + i - 1)
           programs == [i \in DOMAIN pat |-> program(i)]
           c == ChannelOf(t, sr)
<1>1. /\ c.n = UhfChannel(f) /\ c.f = f /\ c.programs = programs
      /\ c = [n |-> UhfChannel(f), f |-> f, programs |-> programs]
  BY DEF ChannelOf
<1>2. f \in Frequencies /\ f \in Nat /\ n \in Nat \ {0}
  BY FrequenciesAreNumbers
<1>3. pat \in Seq(Nat)
  BY <1>2, SearchAssumption
<1>4. UhfChannel(f) \in Int
  BY <1>2 DEF UhfChannel
<1> HIDE DEF f, n, pat, c
<1>5. /\ DOMAIN pat = 1..Len(pat) /\ Len(pat) \in Nat /\ \A i \in 1..Len(pat) : pat[i] \in Nat
      /\ pat = [i \in DOMAIN pat |-> pat[i]]
  BY <1>3
<1>6. ASSUME NEW i \in 1..Len(pat) PROVE program(i) \in AnyProgram
  <2>1. n + i - 1 \in Nat
    BY <1>2, <1>5
  <2> QED BY <1>2, <1>5, <2>1 DEF AnyProgram, f
<1>7. \A i : program(i).number = pat[i] /\ program(i).user_number = n + i - 1
  BY DEF ProgramOf
<1> HIDE DEF program
<1>8. programs \in Seq(AnyProgram)
  BY <1>5, <1>6
<1>9. c \in AnyChannel
  BY <1>1, <1>2, <1>4, <1>8 DEF AnyChannel
<1>10. [k \in DOMAIN programs |-> programs[k].number] = pat
  BY <1>5, <1>7
<1>11. NumberedFrom(programs, n)
  BY <1>5, <1>7 DEF NumberedFrom
<1> QED BY <1>1, <1>9, <1>10, <1>11 DEF ChannelRight, pat, c, f, n

-----------------------------------------------------------------------------
(* The tuners: the channel number is that of the frequency the device has  *)
(* taken, and a tuner with a decoder is locked and still at the channel of *)
(* it.                                                                     *)

Steady(t, r) ==
  /\ r.taken => r.channel = ChannelNumber(TunerType[t], r.p)
  /\ r.status = "LOCK" => r.taken
  /\ r.mydvb # NoDecoder => r.mydvb = r.channel /\ r.status = "LOCK"

LEMMA TuneFields ==
  ASSUME NEW r \in TuneState
  PROVE  /\ DOMAIN r = {"status", "references", "channel", "p", "taken", "mydvb"}
         /\ r.taken \in BOOLEAN
BY DEF TuneState

LEMMA ScannedSteady ==
  ASSUME NEW t, NEW r \in TuneState, Steady(t, r), r.mydvb = NoDecoder,
         NEW f, NEW taken \in BOOLEAN
  PROVE  /\ Steady(t, ScannedTune(t, r, f, taken))
         /\ TunerType[t] # "dvbc" => ScannedTune(t, r, f, taken).p = f
<1> DEFINE new == ScannedTune(t, r, f, taken)
<1>1. CASE TunerType[t] = "dvbc"
  BY <1>1 DEF ScannedTune
<1>2. CASE TunerType[t] # "dvbc"
  <2>1. /\ new.p = f /\ new.mydvb = NoDecoder /\ new.taken = taken /\ new.status = "TRYING"
        /\ new.channel = IF taken THEN ChannelNumber(TunerType[t], f) ELSE r.channel
    BY <1>2, TuneFields DEF ScannedTune
  <2> QED BY <2>1 DEF Steady
<1> QED BY <1>1, <1>2

LEMMA StoppedSteady ==
  ASSUME NEW t, NEW r \in TuneState, Steady(t, r)
  PROVE  LET new == StoppedDecoder(r) IN
           /\ new \in TuneState /\ Steady(t, new) /\ new.mydvb = NoDecoder
           /\ new.p = r.p /\ new.status = r.status
<1> DEFINE new == StoppedDecoder(r)
<1>1. /\ new.channel = r.channel /\ new.mydvb = NoDecoder /\ new.p = r.p
      /\ new.taken = r.taken /\ new.status = r.status
  BY TuneFields DEF StoppedDecoder
<1> QED BY <1>1, StoppedDecoderType DEF Steady

LEMMA ReleasedSteady ==
  ASSUME NEW t, NEW r \in TuneState, Steady(t, r), r.references = 1
  PROVE  Steady(t, ReleasedTune(r))
<1>1. ReleasedTune(r) = [r EXCEPT !.references = 0, !.status = "NOOP",
                                  !.mydvb = NoDecoder, !.taken = FALSE]
  BY DEF ReleasedTune
<1>2. /\ ReleasedTune(r).mydvb = NoDecoder /\ ~ReleasedTune(r).taken
      /\ ReleasedTune(r).status = "NOOP"
  BY <1>1, TuneFields
<1> QED BY <1>2 DEF Steady

(* mydvb_start_decoder, of a tuner that has locked.                        *)
LEMMA StartedSteady ==
  ASSUME NEW t, NEW r \in TuneState, Steady(t, r), r.status = "LOCK"
  PROVE  LET new == [r EXCEPT !.mydvb = r.channel] IN
           Steady(t, new) /\ new.p = r.p /\ new.status = r.status
<1> DEFINE new == [r EXCEPT !.mydvb = r.channel]
<1>1. /\ new.channel = r.channel /\ new.mydvb = r.channel /\ new.p = r.p
      /\ new.taken = r.taken /\ new.status = r.status
  BY TuneFields
<1> HIDE DEF new
<1>2. Steady(t, new)
  BY <1>1 DEF Steady
<1> QED BY <1>1, <1>2 DEF new

(* The device answers a tuner that is being tuned.                         *)
LEMMA AnsweredSteady ==
  ASSUME NEW t, NEW r \in TuneState, Steady(t, r), r.status = "TRYING",
         NEW status, status = "LOCK" => r.taken
  PROVE  LET new == [r EXCEPT !.status = status] IN
           Steady(t, new) /\ new.p = r.p /\ new.status = status
<1> DEFINE new == [r EXCEPT !.status = status]
<1>1. /\ new.channel = r.channel /\ new.mydvb = r.mydvb /\ new.p = r.p
      /\ new.taken = r.taken /\ new.status = status
  BY TuneFields
<1> HIDE DEF new
<1>2. Steady(t, new)
  BY <1>1 DEF Steady
<1> QED BY <1>1, <1>2 DEF new

-----------------------------------------------------------------------------
(* The searches: what a terrestrial one has found is right, and below the  *)
(* frequency it is at, which is that of its tuner.                         *)

FoundRight(sr, p) ==
  IF sr.phase = "none" THEN sr.found = <<>>
  ELSE TunerType[sr.tuner] = "dvbt" =>
         /\ Rightly(sr.found, sr.user_number)
         /\ sr.phase = "searching" => AllBelow(sr.found, sr.scan.f) /\ p = sr.scan.f

(* A turn of the odometer does not go back, from a lock it goes up.        *)
LEMMA ScanGoesUp ==
  ASSUME NEW valid, NEW type, NEW status, NEW scan, scan.f \in Frequencies
  PROVE  LET next == ScanNext(valid, type, status, scan) IN
           next.f \in Nat /\ scan.f <= next.f /\ (status = "LOCK" => scan.f < next.f)
<1> DEFINE next == ScanNext(valid, type, status, scan)
<1>1. /\ next.f = scan.f \/ next.f = NextFrequency(scan.f)
      /\ status = "LOCK" => next.f = NextFrequency(scan.f)
  BY DEF ScanNext
<1>2. NextFrequency(scan.f) = scan.f + FStep /\ FStep \in Nat \ {0} /\ scan.f \in Nat
  BY NextFrequencyIs, FrequenciesAreNumbers, ScanAssumption
<1> HIDE DEF next
<1>3. next.f \in Nat /\ scan.f <= next.f /\ (status = "LOCK" => scan.f < next.f)
  BY <1>1, <1>2
<1> QED BY <1>3 DEF next

LEMMA HigherIsAbove ==
  ASSUME NEW found \in Seq(AnyChannel), NEW f \in Nat, NEW g \in Nat, AllBelow(found, f), f <= g
  PROVE  AllBelow(found, g)
<1>1. \A i \in DOMAIN found : found[i] \in AnyChannel
  OBVIOUS
<1>2. \A i \in DOMAIN found : found[i].f \in Nat
  BY <1>1, FrequenciesAreNumbers DEF AnyChannel
<1> QED BY <1>2 DEF AllBelow

(* The end of a callback, in which sr is the search so far and r its       *)
(* tuner: stopped, unless the search ends.                                 *)
FoundMoves(s, t) ==
  /\ \A q \in SearchId \ {s} : search'[q] = search[q]
  /\ \A u \in Tuner \ {t} : tune'[u] = tune[u]
  /\ search'[s].tuner = t /\ Steady(t, tune'[t]) /\ FoundRight(search'[s], tune'[t].p)

ToFind(sr, r) ==
  /\ Rightly(sr.found, sr.user_number)
  /\ \/ AllBelow(sr.found, sr.scan.f)
     \/ r.status = "LOCK" /\ \A f \in Nat : sr.scan.f < f => AllBelow(sr.found, f)

LEMMA FinishFinds ==
  ASSUME TypeOK, NEW s \in SearchId, NEW t \in Tuner,
         NEW sr, DOMAIN sr = DOMAIN NoSearch, sr.tuner = t, NEW r, Steady(t, r), NEW status,
         Finish(s, sr, status), tune' = [tune EXCEPT ![t] = r],
         TunerType[t] = "dvbt" => Rightly(sr.found, sr.user_number)
  PROVE  FoundMoves(s, t)
<1> DEFINE new == [sr EXCEPT !.phase = "reporting", !.status = status]
<1>1. search' = [search EXCEPT ![s] = new]
  BY DEF Finish
<1>2. /\ new.tuner = t /\ new.phase = "reporting"
      /\ new.found = sr.found /\ new.user_number = sr.user_number
  BY DEF NoSearch
<1> HIDE DEF new
<1>3. /\ search'[s] = new /\ \A q \in SearchId \ {s} : search'[q] = search[q]
      /\ tune'[t] = r /\ \A u \in Tuner \ {t} : tune'[u] = tune[u]
  BY <1>1 DEF TypeOK
<1>4. FoundRight(new, tune'[t].p)
  BY <1>2 DEF FoundRight
<1> QED BY <1>2, <1>3, <1>4 DEF FoundMoves

LEMMA ScanOnFinds ==
  ASSUME TypeOK, NEW s \in SearchId, NEW sr, SearchType(sr), NEW t \in Tuner, sr.tuner = t,
         sr.phase = "searching", sr.scan.f \in Frequencies,
         NEW r \in TuneState, Steady(t, r), r.mydvb = NoDecoder \/ sr.status \in Wish,
         TunerType[t] = "dvbt" => ToFind(sr, r),
         ScanOn(s, r, sr)
  PROVE  FoundMoves(s, t)
<1>1. DOMAIN sr = DOMAIN NoSearch /\ DOMAIN tune = Tuner /\ DOMAIN search = SearchId
  BY DEF SearchType, TypeOK
<1>2. CASE sr.status \in Wish
  <2>1. Finish(s, sr, sr.status) /\ tune' = [tune EXCEPT ![t] = r]
    BY <1>2 DEF ScanOn
  <2> QED BY <1>1, <2>1, FinishFinds DEF ToFind
<1>3. CASE sr.status \notin Wish
  <2> DEFINE next == ScanNext(Valid[t], TunerType[t], r.status, sr.scan)
  <2>1. TryNext(s, r, sr)
    BY <1>3 DEF ScanOn
  <2>2. CASE ScanGoesOn(TunerType[t], next)
    <3>1. PICK taken \in BOOLEAN :
            tune' = [tune EXCEPT ![t] = ScannedTune(t, r, next.f, taken)]
      BY <2>1, <2>2 DEF TryNext
    <3>2. search' = [search EXCEPT ![s] = [sr EXCEPT !.scan = next,
                                 !.tried = @ \cup {<<next.f, next.d>>}]]
      BY <2>1, <2>2 DEF TryNext
    <3>3. next.f \in Nat /\ sr.scan.f <= next.f /\ (r.status = "LOCK" => sr.scan.f < next.f)
      BY ScanGoesUp
    <3> HIDE DEF next
    <3> DEFINE new == [sr EXCEPT !.scan = next, !.tried = @ \cup {<<next.f, next.d>>}]
    <3>4. /\ new.scan = next /\ new.tuner = t /\ new.phase = "searching"
          /\ new.found = sr.found /\ new.user_number = sr.user_number
      BY <1>1 DEF NoSearch
    <3> HIDE DEF new
    <3>5. /\ search'[s] = new /\ \A q \in SearchId \ {s} : search'[q] = search[q]
          /\ \A u \in Tuner \ {t} : tune'[u] = tune[u]
          /\ tune'[t] = ScannedTune(t, r, next.f, taken)
      BY <1>1, <3>1, <3>2 DEF new
    <3>6. Steady(t, tune'[t]) /\ (TunerType[t] # "dvbc" => tune'[t].p = next.f)
      BY <1>3, <3>5, ScannedSteady
    <3>7. ASSUME TunerType[t] = "dvbt" PROVE AllBelow(sr.found, next.f)
      <4>1. sr.found \in Seq(AnyChannel) /\ sr.scan.f \in Nat
        BY <3>7, FrequenciesAreNumbers DEF ToFind, Rightly
      <4> QED BY <3>3, <3>7, <4>1, HigherIsAbove DEF ToFind
    <3>8. FoundRight(new, tune'[t].p)
      BY <3>4, <3>6, <3>7 DEF FoundRight, ToFind
    <3> QED BY <3>4, <3>5, <3>6, <3>8 DEF FoundMoves
  <2>3. CASE ~ScanGoesOn(TunerType[t], next)
    <3>1. /\ Finish(s, [sr EXCEPT !.scan = next], "COMPLETED")
          /\ tune' = [tune EXCEPT ![t] = r]
      BY <2>1, <2>3 DEF TryNext
    <3> HIDE DEF next
    <3> DEFINE one == [sr EXCEPT !.scan = next]
    <3>2. /\ DOMAIN one = DOMAIN NoSearch /\ one.tuner = t
          /\ one.found = sr.found /\ one.user_number = sr.user_number
      BY <1>1 DEF NoSearch
    <3>3. Finish(s, one, "COMPLETED")
      BY <3>1
    <3> HIDE DEF one
    <3> QED BY <3>1, <3>2, <3>3, FinishFinds DEF ToFind
  <2> QED BY <2>2, <2>3
<1> QED BY <1>2, <1>3

-----------------------------------------------------------------------------
(* The invariant.  Without disturbance the tables of a terrestrial decoder *)
(* were read at the frequency of its channel, and the event of a tuner     *)
(* tells the search of it how the tuner is, until it has been told.        *)

Undisturbed == \A s \in Started : ~search[s].disturbed

SteadyInv == \A t \in Tuner : Steady(t, tune[t])

TablesRight ==
  \A d \in Decoder : d[1] = "dvbt" =>
    tables[d] = Unread \/ (tables[d] \in Frequencies /\ UhfChannel(tables[d]) = d[2])

TunerIn(stack) == {n \in DOMAIN stack : stack[n].kind = "tuner" /\ stack[n].tuner \in Tuner}

Heard(ls, s, i) == \A k \in DOMAIN ls : ls[k].owner = s /\ ls[k].kind = "tuner" => k <= i

EventRight ==
  \A n \in TunerIn(events) :
    \/ Doomed
    \/ /\ Held(events[n].tuner)
       /\ \A s \in Searching :
            search[s].tuner = events[n].tuner
              => \/ n = Len(events) /\ tune[events[n].tuner].status = events[n].status
                 \/ events[n].at # "callback" /\ Heard(listeners, s, events[n].i)

FoundsInv == \A s \in SearchId : FoundRight(search[s], tune[search[s].tuner].p)

FoundInv == Undisturbed => SteadyInv /\ TablesRight /\ EventRight /\ FoundsInv

LEMMA PrimedFound ==
  /\ SteadyInv' <=> \A t \in Tuner : Steady(t, tune'[t])
  /\ FoundsInv' <=> \A s \in SearchId : FoundRight(search'[s], tune'[search'[s].tuner].p)
  /\ TunerIn(events)' = TunerIn(events')
  /\ \A s, i : Heard(listeners, s, i)' <=> Heard(listeners', s, i)
<1>1. SteadyInv' <=> \A t \in Tuner : Steady(t, tune'[t])
  BY DEF SteadyInv, Steady, ChannelNumber, UhfChannel
<1>2. FoundsInv' <=> \A s \in SearchId : FoundRight(search'[s], tune'[search'[s].tuner].p)
  BY DEF FoundsInv, FoundRight, Rightly, AnyChannel, AnyProgram, ProgramOf, Services, LookedAt,
         Frequencies, ChannelRight, UhfChannel, ProgramsOf, ListsOf, FlattenSeq,
         NumberedFrom, AllBelow
<1>3. TunerIn(events)' = TunerIn(events')
  BY DEF TunerIn
<1>4. \A s, i : Heard(listeners, s, i)' <=> Heard(listeners', s, i)
  BY DEF Heard
<1> QED BY <1>1, <1>2, <1>3, <1>4

(* What changes but one search that goes on and its tuner does not matter. *)
LEMMA FoundLeft ==
  ASSUME SearchInv, FoundsInv, NEW q \in SearchId, NEW new,
         new.phase = search[q].phase, new.tuner = search[q].tuner,
         new.found = search[q].found, new.user_number = search[q].user_number,
         new.scan = search[q].scan, NEW p, q \in Searching => p = tune[search[q].tuner].p
  PROVE  FoundRight(new, p)
<1>1. FoundRight(search[q], tune[search[q].tuner].p)
  BY DEF FoundsInv
<1>2. new.phase = "searching" => p = tune[search[q].tuner].p
  BY DEF Searching
<1> QED BY <1>1, <1>2 DEF FoundRight

LEMMA OneFound ==
  ASSUME SearchInv, SteadyInv, FoundsInv, NEW s \in Active, NEW t \in Tuner, t = search[s].tuner,
         FoundMoves(s, t)
  PROVE  SteadyInv' /\ FoundsInv'
<1>1. /\ \A q \in SearchId \ {s} : search'[q] = search[q]
      /\ \A u \in Tuner \ {t} : tune'[u] = tune[u]
      /\ search'[s].tuner = t /\ Steady(t, tune'[t]) /\ FoundRight(search'[s], tune'[t].p)
  BY DEF FoundMoves
<1>2. ASSUME NEW u \in Tuner PROVE Steady(u, tune'[u])
  BY <1>1 DEF SteadyInv
<1>3. ASSUME NEW q \in SearchId, q # s
      PROVE  FoundRight(search'[q], tune'[search'[q].tuner].p)
  <2>1. search'[q] = search[q]
    BY <1>1, <1>3
  <2>2. q \in Searching => search[q].tuner \in Tuner \ {t}
    BY <1>3 DEF SearchInv, TunersInv, Active, Searching
  <2>3. q \in Searching => tune'[search[q].tuner].p = tune[search[q].tuner].p
    BY <1>1, <2>2
  <2> QED BY <2>1, <2>3, FoundLeft
<1> QED BY <1>1, <1>2, <1>3, PrimedFound

(* Undisturbed searches stay so only backwards.                            *)
LEMMA WasUndisturbed ==
  ASSUME Undisturbed',
         \A q \in Started : /\ search'[q].phase # "none"
                            /\ search[q].disturbed => search'[q].disturbed
  PROVE  Undisturbed
<1>1. \A q \in Started : q \in Started'
  BY DEF Started
<1> QED BY <1>1 DEF Undisturbed

-----------------------------------------------------------------------------
(* Callbacks.                                                              *)

LEMMA ReachedFound ==
  ASSUME TypeOK, NEW s \in SearchId
  PROVE  LET new == Reached(s) IN
           /\ new.found = search[s].found /\ new.user_number = search[s].user_number
           /\ new.phase = search[s].phase /\ new.tuner = search[s].tuner
           /\ new.scan = search[s].scan /\ new.status = search[s].status
           /\ new.disturbed = (search[s].disturbed \/ Top.tuner # search[s].tuner)
<1> DEFINE sr == search[s]
<1>1. SearchType(sr)
  BY DEF TypeOK
<1> HIDE DEF sr
<1> QED BY <1>1, SearchFields DEF Reached, sr

LEMMA RecordedFound ==
  ASSUME NEW t, NEW sr, SearchType(sr)
  PROVE  LET new == Recorded(t, sr)
             c == ChannelOf(t, sr)
         IN /\ new.found = Append(sr.found, c)
            /\ new.user_number = sr.user_number + Len(c.programs)
            /\ new.disturbed = sr.disturbed
<1> DEFINE c == ChannelOf(t, sr)
<1>1. Recorded(t, sr) = [sr EXCEPT !.found = Append(@, c), !.user_number = @ + Len(c.programs)]
  BY DEF Recorded
<1> HIDE DEF c
<1> QED BY <1>1, SearchFields DEF c

(* The history of the search after a callback that scans on.               *)
LEMMA ScanOnHistory ==
  ASSUME TypeOK, NEW s \in SearchId, NEW sr, SearchType(sr), sr.phase = "searching",
         NEW r, ScanOn(s, r, sr)
  PROVE  /\ \A q \in SearchId \ {s} : search'[q] = search[q]
         /\ search'[s].phase # "none" /\ search'[s].disturbed = sr.disturbed
<1>0. DOMAIN sr = DOMAIN NoSearch /\ DOMAIN search = SearchId
  BY DEF SearchType, TypeOK
<1>1. ASSUME NEW new, search' = [search EXCEPT ![s] = new]
      PROVE  search'[s] = new /\ \A q \in SearchId \ {s} : search'[q] = search[q]
  BY <1>0, <1>1
<1>2. ASSUME NEW one, NEW status, Finish(s, one, status),
             DOMAIN one = DOMAIN NoSearch, one.disturbed = sr.disturbed
      PROVE  /\ \A q \in SearchId \ {s} : search'[q] = search[q]
             /\ search'[s].phase # "none" /\ search'[s].disturbed = sr.disturbed
  <2> DEFINE new == [one EXCEPT !.phase = "reporting", !.status = status]
  <2>1. search' = [search EXCEPT ![s] = new]
    BY <1>2 DEF Finish
  <2>2. new.phase = "reporting" /\ new.disturbed = sr.disturbed
    BY <1>2 DEF NoSearch
  <2> HIDE DEF new
  <2> QED BY <1>1, <2>1, <2>2
<1>3. CASE sr.status \in Wish
  <2>1. Finish(s, sr, sr.status)
    BY <1>3 DEF ScanOn
  <2> QED BY <1>0, <1>2, <2>1
<1>4. CASE sr.status \notin Wish
  <2>1. PICK next : \/ search' = [search EXCEPT ![s] = [sr EXCEPT !.scan = next,
                                         !.tried = @ \cup {<<next.f, next.d>>}]]
                    \/ Finish(s, [sr EXCEPT !.scan = next], "COMPLETED")
    BY <1>4 DEF ScanOn, TryNext
  <2> DEFINE new == [sr EXCEPT !.scan = next, !.tried = @ \cup {<<next.f, next.d>>}]
             one == [sr EXCEPT !.scan = next]
  <2>2. /\ new.phase = "searching" /\ new.disturbed = sr.disturbed
        /\ DOMAIN one = DOMAIN NoSearch /\ one.disturbed = sr.disturbed
    BY <1>0 DEF NoSearch
  <2>3. search' = [search EXCEPT ![s] = new] \/ Finish(s, one, "COMPLETED")
    BY <2>1
  <2> HIDE DEF new, one
  <2> QED BY <1>1, <1>2, <2>2, <2>3
<1> QED BY <1>3, <1>4

(* The search of a callback has been told of the events of its tuner; of   *)
(* the one that calls it, how the tuner is.                                *)
LEMMA CallbackHeard ==
  ASSUME RestoreInv, TablesInv, Undisturbed, EventRight, NEW kind, Calling(kind),
         NEW s, s = Top.search
  PROVE  /\ Searching = {s}
         /\ \A n \in TunerIn(events) :
              /\ Held(events[n].tuner)
              /\ search[s].tuner = events[n].tuner => Heard(listeners, s, events[n].i)
         /\ kind = "tuner" /\ Top.tuner = search[s].tuner
              => tune[search[s].tuner].status = Top.status
<1>1. /\ s \in Searching /\ s \in SearchId /\ events # <<>> /\ TypeOK
      /\ Top.kind = kind /\ Top.at = "callback" /\ search[s].tuner \in Tuner
      /\ \A q \in Searching : ~search[q].disturbed => q = s
  BY CallbackAlone DEF Calling
<1>2. /\ Len(events) \in DOMAIN events /\ Top = events[Len(events)]
      /\ listeners \in Seq(Listener)
  BY <1>1 DEF TypeOK, Top
<1>3. Searching = {s}
  BY <1>1 DEF Undisturbed, Started, Searching
<1>4. ~Doomed
  BY <1>1, <1>2 DEF Doomed
<1>5. kind = "tuner" => Heard(listeners, s, Top.i)
  <2> SUFFICES ASSUME kind = "tuner", NEW k \in DOMAIN listeners,
                      listeners[k].owner = s, listeners[k].kind = "tuner"
               PROVE  k <= Top.i
    BY DEF Heard
  <2>1. /\ Top.i \in DOMAIN listeners /\ listeners[Top.i].owner = s
        /\ listeners[Top.i].kind = "tuner"
    BY <1>1, <1>2 DEF TablesInv, ShapeInv, Called
  <2>2. s # User /\ OneEach(listeners)
    BY <1>1, SearchAssumption DEF SearchId, User, TablesInv, OnceInv
  <2>3. k = Top.i
    BY <2>1, <2>2 DEF OneEach
  <2>4. k \in Nat
    BY <1>2
  <2> QED BY <2>3, <2>4
<1>6. ASSUME NEW n \in TunerIn(events)
      PROVE  /\ Held(events[n].tuner)
             /\ search[s].tuner = events[n].tuner => Heard(listeners, s, events[n].i)
  <2>1. n = Len(events) => kind = "tuner" /\ events[n].i = Top.i
    BY <1>1, <1>2 DEF TunerIn
  <2> QED BY <1>1, <1>4, <1>5, <2>1 DEF EventRight
<1>7. kind = "tuner" /\ Top.tuner = search[s].tuner
        => tune[search[s].tuner].status = Top.status
  <2> SUFFICES ASSUME kind = "tuner", Top.tuner = search[s].tuner
               PROVE  tune[search[s].tuner].status = Top.status
    OBVIOUS
  <2>1. Len(events) \in TunerIn(events)
    BY <1>1, <1>2 DEF TunerIn
  <2> QED BY <1>1, <1>2, <1>4, <2>1 DEF EventRight
<1> QED BY <1>3, <1>6, <1>7

(* What a callback does to the events: the search has been told of those   *)
(* of its tuner, or has ended.                                             *)
LEMMA CallbackEvent ==
  ASSUME RestoreInv, TablesInv, Undisturbed, EventRight, NEW kind, Calling(kind),
         NEW s, s = Top.search,
         \A q \in Active : q \in Active' /\ search'[q].tuner = search[q].tuner,
         Searching' \subseteq Searching, Searching' = {} \/ UNCHANGED listeners,
         \A n \in TunerIn(events') :
           /\ n \in TunerIn(events) /\ events'[n].tuner = events[n].tuner
           /\ events'[n].i = events[n].i /\ events'[n].at # "callback"
  PROVE  EventRight'
<1>1. /\ Searching = {s}
      /\ \A n \in TunerIn(events) :
           /\ Held(events[n].tuner)
           /\ search[s].tuner = events[n].tuner => Heard(listeners, s, events[n].i)
  BY CallbackHeard
<1> SUFFICES ASSUME NEW n \in TunerIn(events')
             PROVE  (/\ Held(events[n].tuner)
                     /\ \A q \in Searching :
                          search[q].tuner = events[n].tuner
                            => events[n].at # "callback" /\ Heard(listeners, q, events[n].i))'
  BY PrimedFound DEF EventRight
<1>2. /\ n \in TunerIn(events) /\ events'[n].tuner = events[n].tuner
      /\ events'[n].i = events[n].i /\ events'[n].at # "callback"
  OBVIOUS
<1>3. Held(events[n].tuner)'
  BY <1>1, <1>2 DEF Held
<1>4. ASSUME NEW q \in Searching', search'[q].tuner = events'[n].tuner
      PROVE  Heard(listeners', q, events'[n].i)
  <2>1. q = s /\ q \in Active /\ UNCHANGED listeners
    BY <1>1, <1>4 DEF Searching, Active
  <2> QED BY <1>1, <1>2, <1>4, <2>1
<1> QED BY <1>2, <1>3, <1>4, PrimedFound

(* The events a callback leaves on the stack are those there were.         *)
TunersStay(stack) ==
  \A n \in TunerIn(stack) :
    /\ n \in TunerIn(events) /\ stack[n].tuner = events[n].tuner
    /\ stack[n].i = events[n].i /\ stack[n].at # "callback"

LEMMA ReturnedTuners ==
  ASSUME RestoreInv, TablesInv, NEW kind, Calling(kind), NEW at \in {"done", "finishing"}
  PROVE  TunersStay(Returned(at))
<1> DEFINE new == Returned(at)
<1>1. /\ TypeOK /\ Nested(events) /\ events # <<>> /\ Top.kind # "search"
      /\ \A n \in DOMAIN events : events[n].at = "callback" => n = Len(events)
  BY CallbackAlone
<1>2. /\ DOMAIN new = DOMAIN events
      /\ \A n \in DOMAIN new : new[n].at # "callback"
      /\ \A n \in DOMAIN new :
           /\ new[n].kind = events[n].kind /\ new[n].tuner = events[n].tuner
           /\ new[n].i = events[n].i
  BY <1>1, NestedReturned
<1> HIDE DEF new
<1> QED BY <1>2 DEF TunersStay, TunerIn, new

(* An event of another kind is no event of a tuner.                        *)
LEMMA NotifiedTuners ==
  ASSUME RestoreInv, TablesInv, NEW kind, Calling(kind), NEW at \in {"done", "finishing"},
         NEW ls \in Seq(Listener), OnlyClientsKept(ls), NEW e \in Frame,
         e.kind # "tuner", Joined([kind |-> kind, at |-> at], e)
  PROVE  TunersStay(Notified(ls, Returned(at), e))
<1> DEFINE stack == Returned(at)
           new == Notified(ls, stack, e)
<1>1. /\ TypeOK /\ Nested(events) /\ events # <<>> /\ Top.kind # "search" /\ Top.kind = kind
      /\ \A n \in DOMAIN events : events[n].at = "callback" => n = Len(events)
  BY CallbackAlone
<1>2. /\ stack \in Seq(Frame) /\ stack # <<>> /\ Len(stack) = Len(events) /\ Nested(stack)
      /\ DOMAIN stack = DOMAIN events /\ Len(events) \in DOMAIN events
      /\ \A n \in DOMAIN stack : stack[n].at # "callback"
      /\ \A n \in DOMAIN stack : stack[n].kind = events[n].kind
      /\ stack[Len(events)].at = at
  BY <1>1, NestedReturned
<1>3. TunersStay(stack)
  BY ReturnedTuners
<1> HIDE DEF stack
<1>4. Joined(stack[Len(stack)], e)
  BY <1>1, <1>2 DEF Joined, Top
<1>5. \A n \in DOMAIN new :
        \/ n \in DOMAIN stack /\ new[n] = stack[n]
        \/ new[n].kind = e.kind /\ new[n].tuner = e.tuner
  BY <1>2, <1>4, NestedNotified
<1> HIDE DEF new
<1>6. \A n \in TunerIn(new) : n \in TunerIn(stack) /\ new[n] = stack[n]
  BY <1>5 DEF TunerIn
<1> QED BY <1>3, <1>6 DEF TunersStay, new, stack

(* The end of a callback that scans on.                                    *)
LEMMA ScanOnFound ==
  ASSUME RestoreInv, TablesInv, FoundInv, NEW kind, Calling(kind), NEW s, s = Top.search,
         NEW t, t = search[s].tuner, NEW r \in TuneState, NEW sr, SearchType(sr),
         Same(sr, search[s]), sr.scan = search[s].scan, r.references = tune[t].references,
         ScanOn(s, r, sr), UNCHANGED tables, search[s].disturbed => sr.disturbed,
         Undisturbed /\ ~sr.disturbed
           => /\ Steady(t, r) /\ (r.mydvb = NoDecoder \/ sr.status \in Wish)
              /\ TunerType[t] = "dvbt" => ToFind(sr, r)
  PROVE  FoundInv'
<1> SUFFICES ASSUME Undisturbed' PROVE (SteadyInv /\ TablesRight /\ EventRight /\ FoundsInv)'
  BY DEF FoundInv
<1>1. /\ s \in Searching /\ s \in SearchId /\ TypeOK /\ t \in Tuner /\ s \in Active
      /\ sr.phase = "searching" /\ sr.tuner = t /\ SearchInv
      /\ search[s].phase = "searching"
  BY CallbackAlone DEF Same, Searching, Active, RestoreInv
<1>2. /\ \A q \in SearchId \ {s} : search'[q] = search[q]
      /\ search'[s].phase # "none" /\ search'[s].disturbed = sr.disturbed
  BY <1>1, ScanOnHistory
<1>3. Undisturbed
  <2>1. \A q \in Started : q \in SearchId /\ search[q].phase # "none"
    BY DEF Started
  <2>2. \A q \in Started : /\ search'[q].phase # "none"
                           /\ search[q].disturbed => search'[q].disturbed
    BY <1>2, <2>1
  <2> QED BY <2>2, WasUndisturbed
<1>4. ~sr.disturbed
  <2>1. s \in Started'
    BY <1>1, <1>2 DEF Started
  <2> QED BY <1>2, <2>1 DEF Undisturbed
<1>5. SteadyInv /\ TablesRight /\ EventRight /\ FoundsInv
  BY <1>3 DEF FoundInv
<1>6. sr.scan.f \in Frequencies
  BY <1>1 DEF TablesInv, ParametersInv
<1>7. FoundMoves(s, t)
  BY <1>1, <1>3, <1>4, <1>6, ScanOnFinds
<1>8. SteadyInv' /\ FoundsInv'
  BY <1>1, <1>5, <1>7, OneFound
<1>9. TablesRight'
  BY <1>5 DEF TablesRight, Frequencies, UhfChannel
<1>10. GoesOn(s) \/ Finished(s)
  BY <1>1, ScanOnEffect
<1>11. Searching = {s}
  BY <1>3, <1>5, CallbackHeard
<1>12. CASE GoesOn(s)
  <2>1. SearchesSame /\ UNCHANGED listeners /\ events' = Returned("done")
    BY <1>12 DEF GoesOn
  <2>2. /\ Searching' = Searching /\ Active' = Active
        /\ \A q \in SearchId : search'[q].tuner = search[q].tuner
    BY <1>1, <2>1, SameSearches DEF SearchesSame, Unchanged, Same
  <2>3. TunersStay(events')
    BY <2>1, ReturnedTuners
  <2>4. EventRight'
    BY <1>3, <1>5, <2>1, <2>2, <2>3, CallbackEvent DEF TunersStay, Active
  <2> QED BY <1>8, <1>9, <2>4
<1>13. CASE Finished(s)
  <2>1. /\ listeners' = Restored(listeners, search[s])
        /\ events' = Notified(listeners', Returned("finishing"), Event("search", NoTuner, None, {}))
        /\ Reported(s, IF search[s].status \in Wish THEN search[s].status ELSE "COMPLETED")
    BY <1>13 DEF Finished
  <2>2. /\ Searching' = Searching \ {s} /\ Active' = Active
        /\ \A q \in SearchId : search'[q].tuner = search[q].tuner
    BY <1>1, <2>1, ReportedSearches DEF Reported, Unchanged, Same
  <2>3. listeners' \in Seq(Listener) /\ OnlyClientsKept(listeners')
    <3>1. s \in Owners(listeners)
      BY CallbackAlone
    <3>2. ListenersInv' /\ listeners' \in Seq(Listener)
      BY <1>1, <1>13, <3>1, FinishedListeners
    <3>3. (OnlyClientsKept(listeners))'
      BY <3>2 DEF ListenersInv
    <3> QED BY <3>2, <3>3 DEF OnlyClientsKept
  <2> DEFINE e == Event("search", NoTuner, None, {})
  <2>4. e \in Frame /\ e.kind = "search"
    BY DEF Event, Frame, Kind
  <2> HIDE DEF e
  <2>5. kind # "search"
    BY CallbackAlone
  <2>6. TunersStay(Notified(listeners', Returned("finishing"), e))
    <3>1. PICK ls \in Seq(Listener) : ls = listeners' /\ OnlyClientsKept(ls)
      BY <2>3
    <3>2. Joined([kind |-> kind, at |-> "finishing"], e)
      BY <2>4, <2>5 DEF Joined
    <3>3. TunersStay(Notified(ls, Returned("finishing"), e))
      BY <2>4, <3>1, <3>2, NotifiedTuners
    <3> QED BY <3>1, <3>3
  <2>7. TunersStay(events')
    BY <2>1, <2>6 DEF e
  <2>8. EventRight'
    BY <1>3, <1>5, <1>11, <2>2, <2>7, CallbackEvent DEF TunersStay, Active
  <2> QED BY <1>8, <1>9, <2>8
<1> QED BY <1>10, <1>12, <1>13

(* A callback that only waits: for tables, or for nothing.                 *)
LEMMA WaitsFound ==
  ASSUME RestoreInv, TablesInv, FoundInv, NEW kind, Calling(kind), NEW s, s = Top.search,
         NEW t, t = search[s].tuner, search'[s] \in {search[s], Reached(s)},
         \A q \in SearchId \ {s} : search'[q] = search[q],
         UNCHANGED <<listeners, tables>>, TunersStay(events'),
         \/ UNCHANGED tune
         \/ /\ tune' = [tune EXCEPT ![t].mydvb = tune[t].channel]
            /\ Undisturbed /\ ~search'[s].disturbed /\ EventRight => tune[t].status = "LOCK"
  PROVE  FoundInv'
<1> SUFFICES ASSUME Undisturbed' PROVE (SteadyInv /\ TablesRight /\ EventRight /\ FoundsInv)'
  BY DEF FoundInv
<1>1. /\ s \in Searching /\ s \in SearchId /\ TypeOK /\ t \in Tuner /\ s \in Active
      /\ SearchInv /\ search[s].phase = "searching" /\ tune[t] \in TuneState
  BY CallbackAlone DEF Searching, Active, RestoreInv
<1>2. /\ search'[s].found = search[s].found /\ search'[s].user_number = search[s].user_number
      /\ search'[s].phase = search[s].phase /\ search'[s].tuner = t
      /\ search'[s].scan = search[s].scan
      /\ search[s].disturbed => search'[s].disturbed
  <2>1. search[s].disturbed \in BOOLEAN
    BY <1>1 DEF TablesInv, DisturbedInv
  <2>2. StillDisturbed(Reached(s), search[s])
    BY <1>1, <2>1, ReachedOnward
  <2> DEFINE new == Reached(s)
  <2>3. /\ new.found = search[s].found /\ new.user_number = search[s].user_number
        /\ new.phase = search[s].phase /\ new.tuner = search[s].tuner
        /\ new.scan = search[s].scan
        /\ search[s].disturbed => new.disturbed
    BY <1>1, <2>2, ReachedFound DEF StillDisturbed
  <2>4. search'[s] = search[s] \/ search'[s] = new
    OBVIOUS
  <2> HIDE DEF new
  <2> QED BY <2>3, <2>4
<1>3. Undisturbed
  <2>1. \A q \in Started : q \in SearchId /\ search[q].phase # "none"
    BY DEF Started
  <2>2. \A q \in Started : /\ search'[q].phase # "none"
                           /\ search[q].disturbed => search'[q].disturbed
    BY <1>2, <2>1
  <2> QED BY <2>2, WasUndisturbed
<1>4. ~search'[s].disturbed
  <2>1. s \in Started'
    BY <1>1, <1>2 DEF Started
  <2> QED BY <2>1 DEF Undisturbed
<1>5. SteadyInv /\ TablesRight /\ EventRight /\ FoundsInv
  BY <1>3 DEF FoundInv
<1>6. /\ \A u \in Tuner \ {t} : tune'[u] = tune[u]
      /\ Steady(t, tune'[t]) /\ tune'[t].p = tune[t].p
  <2>1. Steady(t, tune[t])
    BY <1>1, <1>5 DEF SteadyInv
  <2>2. CASE UNCHANGED tune
    BY <2>1, <2>2
  <2>3. CASE tune' = [tune EXCEPT ![t].mydvb = tune[t].channel] /\ tune[t].status = "LOCK"
    <3> DEFINE r == tune[t]
               new == [r EXCEPT !.mydvb = r.channel]
    <3>1. Steady(t, new) /\ new.p = r.p
      BY <1>1, <2>1, <2>3, StartedSteady
    <3>2. tune' = [tune EXCEPT ![t] = new] /\ DOMAIN tune = Tuner
      BY <1>1, <2>3 DEF TypeOK
    <3> HIDE DEF new
    <3> QED BY <1>1, <3>1, <3>2
  <2> QED BY <1>3, <1>4, <1>5, <2>2, <2>3
<1>7. FoundMoves(s, t)
  <2>1. FoundRight(search[s], tune[t].p)
    BY <1>1, <1>5 DEF FoundsInv
  <2>2. FoundRight(search'[s], tune'[t].p)
    BY <1>2, <1>6, <2>1 DEF FoundRight
  <2> QED BY <1>2, <1>6, <2>2 DEF FoundMoves
<1>8. SteadyInv' /\ FoundsInv'
  BY <1>1, <1>5, <1>7, OneFound
<1>9. TablesRight'
  BY <1>5 DEF TablesRight, Frequencies, UhfChannel
<1>10. EventRight'
  <2>1. /\ Searching' = Searching /\ Active' = Active
        /\ \A q \in SearchId : search'[q].tuner = search[q].tuner
    BY <1>1, <1>2 DEF Searching, Active
  <2> QED BY <1>3, <1>5, <2>1, CallbackEvent DEF TunersStay, Active
<1> QED BY <1>8, <1>9, <1>10

(* What the READY callback records is right.                               *)
LEMMA RecordedToFind ==
  ASSUME FromUhf, ParametersInv, TypeOK, SteadyInv, TablesRight, FoundsInv,
         NEW s \in Searching, NEW t \in Tuner, t = search[s].tuner,
         TunerType[t] = "dvbt", HasTables(t), NEW sr, SearchType(sr),
         sr.found = search[s].found, sr.user_number = search[s].user_number,
         sr.scan = search[s].scan
  PROVE  ToFind(Recorded(t, sr), StoppedDecoder(tune[t]))
<1>1. /\ s \in SearchId /\ search[s].phase = "searching" /\ tune[t] \in TuneState
      /\ sr.scan.f \in Frequencies
  BY DEF Searching, TypeOK, ParametersInv
<1>2. /\ Rightly(sr.found, sr.user_number) /\ AllBelow(sr.found, sr.scan.f)
      /\ tune[t].p = sr.scan.f
  BY <1>1 DEF FoundsInv, FoundRight
<1>3. /\ tune[t].mydvb = tune[t].channel /\ tune[t].status = "LOCK" /\ tune[t].taken
      /\ tune[t].channel = ChannelNumber("dvbt", tune[t].p)
      /\ tune[t].channel \in Numbers(t) /\ tune[t].p \in Frequencies
  BY DEF HasTables, SteadyInv, Steady, ParametersInv, TunedRight
<1>4. tune[t].channel = UhfChannel(tune[t].p)
  BY <1>3 DEF ChannelNumber
<1>5. tables[DecoderOf(t)] \in Frequencies /\ tune[t].p = tables[DecoderOf(t)]
  <2>1. DecoderOf(t) = <<"dvbt", tune[t].channel>> /\ DecoderOf(t) \in Decoder
    BY <1>3, NumbersAreDecoders DEF DecoderOf
  <2>2. /\ tables[DecoderOf(t)] \in Frequencies
        /\ UhfChannel(tables[DecoderOf(t)]) = tune[t].channel
    BY <2>1 DEF TablesRight, HasTables
  <2> QED BY <1>3, <1>4, <2>2, UhfChannelIsOne
<1> DEFINE c == ChannelOf(t, sr)
           new == Recorded(t, sr)
<1>6. sr.user_number \in Nat \ {0}
  BY <1>2 DEF Rightly
<1>7. c \in AnyChannel /\ ChannelRight(c) /\ c.f = tune[t].p /\ NumberedFrom(c.programs, sr.user_number)
  BY <1>4, <1>5, <1>6, ChannelOfIsRight
<1>8. /\ new.found = Append(sr.found, c) /\ new.user_number = sr.user_number + Len(c.programs)
      /\ new.scan = sr.scan
  BY RecordedFound, RecordedOnward
<1>9. StoppedDecoder(tune[t]).status = "LOCK"
  BY <1>1, <1>3, TuneFields DEF StoppedDecoder
<1> HIDE DEF c, new
<1>10. /\ Rightly(Append(sr.found, c), sr.user_number + Len(c.programs))
       /\ \A f \in Nat : c.f < f => AllBelow(Append(sr.found, c), f)
  BY <1>2, <1>7, OneMoreFound
<1>11. ToFind(new, StoppedDecoder(tune[t]))
  BY <1>2, <1>7, <1>8, <1>9, <1>10 DEF ToFind
<1> QED BY <1>11 DEF new

LEMMA CallbackFound ==
  ASSUME FromUhf, RestoreInv, TablesInv, FoundInv, TuneCallback \/ ReadyCallback \/ TimeoutCallback
  PROVE  FoundInv'
<1>0. PICK s : s = Top.search
  OBVIOUS
<1>1. PICK t : t = search[s].tuner
  OBVIOUS
<1>2. PICK kind : Calling(kind)
  BY DEF TuneCallback, ReadyCallback, TimeoutCallback
<1>3. /\ TypeOK /\ s \in SearchId /\ s \in Searching /\ t \in Tuner /\ tune[t] \in TuneState
      /\ SearchType(search[s]) /\ Same(search[s], search[s]) /\ s \in Started
      /\ DOMAIN search = SearchId /\ search[s].disturbed \in BOOLEAN
      /\ search[s].phase = "searching"
  BY <1>0, <1>1, <1>2, CallbackAlone
     DEF TypeOK, Same, TablesInv, DisturbedInv, Started, Searching
<1>4. /\ Same(Reached(s), search[s]) /\ SearchType(Reached(s))
      /\ StillDisturbed(Reached(s), search[s])
      /\ Reached(s).scan = search[s].scan
  BY <1>3, ReachedSame, ReachedOnward
<1>5. /\ Reached(s).found = search[s].found
      /\ Reached(s).user_number = search[s].user_number
      /\ ~Reached(s).disturbed => Top.tuner = t
  BY <1>1, <1>3, ReachedFound
<1>6. Undisturbed => SteadyInv /\ TablesRight /\ EventRight /\ FoundsInv
  BY DEF FoundInv
<1>7. StoppedDecoder(tune[t]) \in TuneState
      /\ StoppedDecoder(tune[t]).references = tune[t].references
  BY <1>3, StoppedDecoderType
<1>8. ASSUME Undisturbed
      PROVE  /\ Steady(t, tune[t]) /\ Steady(t, StoppedDecoder(tune[t]))
             /\ StoppedDecoder(tune[t]).mydvb = NoDecoder
             /\ TunerType[t] = "dvbt" => \A r : ToFind(search[s], r) /\ ToFind(Reached(s), r)
  <2>1. Steady(t, tune[t])
    BY <1>3, <1>6, <1>8 DEF SteadyInv
  <2>2. Steady(t, StoppedDecoder(tune[t])) /\ StoppedDecoder(tune[t]).mydvb = NoDecoder
    BY <1>3, <2>1, StoppedSteady
  <2>3. TunerType[t] = "dvbt" => /\ Rightly(search[s].found, search[s].user_number)
                                 /\ AllBelow(search[s].found, search[s].scan.f)
    BY <1>1, <1>3, <1>6, <1>8 DEF FoundsInv, FoundRight
  <2> QED BY <1>4, <1>5, <2>1, <2>2, <2>3 DEF ToFind
<1>9. CASE TuneCallback
  <2>0. Calling("tuner") /\ UNCHANGED tables
    BY <1>9 DEF TuneCallback
  <2>1. ASSUME Undisturbed, ~Reached(s).disturbed
        PROVE  tune[t].status = Top.status
    BY <1>0, <1>1, <1>5, <1>6, <2>0, <2>1, CallbackHeard
  <2>2. CASE ScanOn(s, tune[t], Reached(s)) /\ (search[s].status \in Wish \/ Top.status = "FAILED")
    <3>1. Undisturbed /\ ~Reached(s).disturbed
            => /\ Steady(t, tune[t]) /\ (tune[t].mydvb = NoDecoder \/ Reached(s).status \in Wish)
               /\ TunerType[t] = "dvbt" => ToFind(Reached(s), tune[t])
      BY <1>4, <1>8, <2>1, <2>2 DEF Same, Steady
    <3>2. search[s].disturbed => Reached(s).disturbed
      BY <1>4 DEF StillDisturbed
    <3> QED BY <1>0, <1>1, <1>3, <1>4, <2>0, <2>2, <3>1, <3>2, ScanOnFound
  <2>3. CASE /\ StartDecoder(t) /\ Top.status = "LOCK"
             /\ search' = [search EXCEPT ![s] = Reached(s)] /\ UNCHANGED listeners
    <3>1. search'[s] = Reached(s) /\ \A q \in SearchId \ {s} : search'[q] = search[q]
      BY <1>3, <2>3
    <3> DEFINE e == Event("ready", t, None, {})
    <3>2. e \in Frame /\ e.kind = "ready"
      BY <1>3 DEF Event, Frame, Kind
    <3> HIDE DEF e
    <3>3. listeners \in Seq(Listener) /\ OnlyClientsKept(listeners)
      BY <1>3 DEF TypeOK, RestoreInv, SearchInv, ListenersInv
    <3>4. Joined([kind |-> "tuner", at |-> "done"], e)
      BY <3>2 DEF Joined
    <3>5. /\ TunersStay(Returned("done"))
          /\ TunersStay(Notified(listeners, Returned("done"), e))
      BY <2>0, <3>2, <3>3, <3>4, ReturnedTuners, NotifiedTuners
    <3>6. TunersStay(events') /\ tune' = [tune EXCEPT ![t].mydvb = tune[t].channel]
      BY <2>3, <3>5 DEF StartDecoder, e
    <3>7. Undisturbed /\ ~search'[s].disturbed => tune[t].status = "LOCK"
      BY <2>1, <2>3, <3>1
    <3> QED BY <1>0, <1>1, <2>0, <2>3, <3>1, <3>6, <3>7, WaitsFound
  <2>4. CASE /\ search' = [search EXCEPT ![s] = Reached(s)] /\ events' = Returned("done")
             /\ UNCHANGED <<listeners, event_propagation, tune>>
    <3>1. search'[s] = Reached(s) /\ \A q \in SearchId \ {s} : search'[q] = search[q]
      BY <1>3, <2>4
    <3>2. TunersStay(events')
      BY <2>0, <2>4, ReturnedTuners
    <3> QED BY <1>0, <1>1, <2>0, <2>4, <3>1, <3>2, WaitsFound
  <2> QED BY <1>0, <1>1, <1>9, <2>2, <2>3, <2>4 DEF TuneCallback
<1>10. CASE ReadyCallback
  <2>0. Calling("ready") /\ UNCHANGED tables
    BY <1>10 DEF ReadyCallback
  <2>1. CASE HasTables(t)
    <3>1. PICK sr : sr = Recorded(t, Reached(s)) /\ ScanOn(s, StoppedDecoder(tune[t]), sr)
      BY <1>0, <1>1, <1>10, <2>1 DEF ReadyCallback
    <3>2. /\ SearchType(sr) /\ Same(sr, Reached(s))
          /\ sr.scan = Reached(s).scan /\ sr.disturbed = Reached(s).disturbed
      BY <1>4, <3>1, RecordedSame, RecordedOnward
    <3>3. /\ Same(sr, search[s]) /\ sr.scan = search[s].scan
          /\ search[s].disturbed => sr.disturbed
      BY <1>4, <3>2 DEF Same, StillDisturbed
    <3>4. ASSUME Undisturbed, TunerType[t] = "dvbt"
          PROVE  ToFind(sr, StoppedDecoder(tune[t]))
      BY <1>1, <1>3, <1>4, <1>5, <1>6, <2>1, <3>1, <3>4, RecordedToFind DEF TablesInv
    <3> QED BY <1>0, <1>1, <1>7, <1>8, <2>0, <3>1, <3>2, <3>3, <3>4, ScanOnFound
  <2>2. CASE ~HasTables(t)
    <3>1. /\ search' = [search EXCEPT ![s] = Reached(s)]
          /\ UNCHANGED <<listeners, event_propagation, events, tune, tables>>
      BY <1>0, <1>1, <1>10, <2>2 DEF ReadyCallback
    <3>2. search'[s] = Reached(s) /\ \A q \in SearchId \ {s} : search'[q] = search[q]
      BY <1>3, <3>1
    <3>3. TunersStay(events)
      <4>1. \A n \in DOMAIN events : events[n].at = "callback" => n = Len(events)
        BY <1>0, <2>0, CallbackAlone
      <4>2. Top.kind = "ready"
        BY <2>0 DEF Calling
      <4> QED BY <4>1, <4>2 DEF TunersStay, TunerIn, Top
    <3> QED BY <1>0, <1>1, <2>0, <3>1, <3>2, <3>3, WaitsFound
  <2> QED BY <2>1, <2>2
<1>11. CASE TimeoutCallback
  <2>0. Calling("timeout") /\ UNCHANGED tables
    BY <1>11 DEF TimeoutCallback
  <2>1. CASE ScanOn(s, StoppedDecoder(tune[t]), search[s])
    BY <1>0, <1>1, <1>3, <1>7, <1>8, <2>0, <2>1, ScanOnFound
  <2>2. CASE events' = Returned("done") /\ UNCHANGED <<listeners, event_propagation, tune, search>>
    <3>1. TunersStay(events')
      BY <2>0, <2>2, ReturnedTuners
    <3> QED BY <1>0, <1>1, <2>0, <2>2, <3>1, WaitsFound
  <2> QED BY <1>0, <1>1, <1>11, <2>1, <2>2 DEF TimeoutCallback
<1> QED BY <1>9, <1>10, <1>11

(* The tuner of a search that has reported is given back.                  *)
LEMMA FinishSearchFound ==
  ASSUME RestoreInv, TablesInv, FoundInv, FinishSearch
  PROVE  FoundInv'
<1> SUFFICES ASSUME Undisturbed' PROVE (SteadyInv /\ TablesRight /\ EventRight /\ FoundsInv)'
  BY DEF FoundInv
<1>0. PICK s : s = Top.search
  OBVIOUS
<1>1. PICK t : t = search[s].tuner
  OBVIOUS
<1>2. /\ TypeOK /\ events # <<>> /\ Top.at = "finishing" /\ SearchInv
      /\ Len(events) \in DOMAIN events
  BY DEF RestoreInv, SearchInv, FinishSearch, TypeOK
<1>3. s \in Reporting /\ s \in SearchId /\ s \in Active /\ t \in Tuner
  BY <1>0, <1>1, <1>2 DEF SearchInv, EventsInv, StackInv, Top, Reporting, Active, TunersInv
<1>4. /\ tune' = [tune EXCEPT ![t] = ReleasedTune(tune[t])]
      /\ search' = [search EXCEPT ![s].phase = "closed"]
      /\ UNCHANGED tables
  BY <1>0, <1>1 DEF FinishSearch
<1>5. /\ SearchType(search[s]) /\ DOMAIN search = SearchId /\ tune \in [Tuner -> TuneState]
      /\ search[s].phase = "reporting"
  BY <1>2, <1>3 DEF TypeOK, Reporting
<1> DEFINE new == [search[s] EXCEPT !.phase = "closed"]
<1>6. /\ new.phase = "closed" /\ new.tuner = t /\ new.found = search[s].found
      /\ new.user_number = search[s].user_number /\ new.disturbed = search[s].disturbed
  BY <1>1, <1>5, SearchFields
<1>7. search' = [search EXCEPT ![s] = new]
  BY <1>4
<1> HIDE DEF new
<1>8. search'[s] = new /\ \A q \in SearchId \ {s} : search'[q] = search[q]
  BY <1>3, <1>5, <1>7
<1>9. Undisturbed
  <2>1. \A q \in Started : q \in SearchId /\ search[q].phase # "none"
    BY DEF Started
  <2>2. \A q \in Started : /\ search'[q].phase # "none"
                           /\ search[q].disturbed => search'[q].disturbed
    BY <1>6, <1>8, <2>1
  <2> QED BY <2>2, WasUndisturbed
<1>10. SteadyInv /\ TablesRight /\ FoundsInv
  BY <1>9 DEF FoundInv
<1>11. FoundMoves(s, t)
  <2>1. tune[t].references = 1 /\ tune[t] \in TuneState /\ Steady(t, tune[t])
    BY <1>1, <1>2, <1>3, <1>5, <1>10 DEF SearchInv, TunersInv, Held, SteadyInv
  <2>2. /\ tune'[t] = ReleasedTune(tune[t])
        /\ \A u \in Tuner \ {t} : tune'[u] = tune[u]
    BY <1>3, <1>4, <1>5
  <2>3. Steady(t, tune'[t])
    BY <2>1, <2>2, ReleasedSteady
  <2>4. FoundRight(search[s], tune[t].p)
    BY <1>1, <1>3, <1>10 DEF FoundsInv
  <2>5. FoundRight(new, tune'[t].p)
    BY <1>1, <1>5, <1>6, <2>4 DEF FoundRight
  <2> QED BY <1>6, <1>8, <2>2, <2>3, <2>5 DEF FoundMoves
<1>12. SteadyInv' /\ FoundsInv'
  BY <1>1, <1>2, <1>3, <1>10, <1>11, OneFound
<1>13. TablesRight'
  BY <1>4, <1>10 DEF TablesRight, Frequencies, UhfChannel
<1>14. EventRight'
  BY FinishSearchTables DEF EventRight
<1> QED BY <1>12, <1>13, <1>14

(* The loop of the dispatcher: an event goes on with the status of its     *)
(* tuner until the search has been told.                                   *)
LEMMA NextListenerFound ==
  ASSUME RestoreInv, TablesInv, FoundInv, NextListener
  PROVE  FoundInv'
<1> DEFINE front == Front(events)
           next == FirstFrom(listeners, Top.kind, Top.i + 1)
           k == CHOOSE k \in next : TRUE
           f == Entered(listeners, Top, k)
<1>1. /\ events # <<>> /\ Top.at \in {"user", "done"}
      /\ events \in Seq(Frame) /\ listeners \in Seq(Listener) /\ OnlyClientsKept(listeners)
      /\ Len(events) \in DOMAIN events /\ Top = events[Len(events)] /\ Top \in Frame
      /\ UNCHANGED <<listeners, event_propagation, tune, tables, search>>
  BY DEF RestoreInv, SearchInv, NextListener, TypeOK, ListenersInv, Top
<1>2. Top.kind \in Kind /\ Top.i \in Nat
  BY <1>1 DEF Frame
<1>3. /\ front \in Seq(Frame) /\ Len(front) = Len(events) - 1 /\ Len(events) \in Nat
      /\ \A n \in DOMAIN front : n \in DOMAIN events /\ n # Len(events) /\ front[n] = events[n]
  BY <1>1, FrontFrames
<1>4. Searching' = Searching /\ Started' = Started /\ \A t : (Held(t))' <=> Held(t)
  BY <1>1 DEF Searching, Started, Held, Active
<1>5. Undisturbed' <=> Undisturbed
  BY <1>1, <1>4 DEF Undisturbed
<1> SUFFICES ASSUME Undisturbed PROVE (SteadyInv /\ TablesRight /\ EventRight /\ FoundsInv)'
  BY <1>5 DEF FoundInv
<1>6. SteadyInv /\ TablesRight /\ EventRight /\ FoundsInv
  BY DEF FoundInv
<1>7. SteadyInv' /\ FoundsInv'
  BY <1>1, <1>6, PrimedFound DEF SteadyInv, FoundsInv
<1>8. TablesRight'
  BY <1>1, <1>6 DEF TablesRight, Frequencies, UhfChannel
<1>9. \A n \in DOMAIN events : events[n].at # "callback"
  BY <1>1 DEF RestoreInv, SearchInv, EventsInv, StackInv
<1> DEFINE Right(n) ==
             \/ Doomed
             \/ /\ Held(events[n].tuner)
                /\ \A s \in Searching :
                     search[s].tuner = events[n].tuner
                       => \/ n = Len(events) /\ tune[events[n].tuner].status = events[n].status
                          \/ events[n].at # "callback" /\ Heard(listeners, s, events[n].i)
(* A frame that was there. *)
<1>10. ASSUME NEW n \in TunerIn(events), n # Len(events),
              n \in DOMAIN events', events'[n] = events[n],
              ~event_propagation => \A m \in DOMAIN events' : m \in DOMAIN events /\ events'[m] = events[m]
       PROVE  Right(n)'
  <2>1. CASE Doomed
    BY <1>1, <1>10, <2>1 DEF Doomed
  <2>2. CASE ~Doomed
    <3>1. /\ Held(events[n].tuner)
          /\ \A s \in Searching : search[s].tuner = events[n].tuner
               => events[n].at # "callback" /\ Heard(listeners, s, events[n].i)
      BY <1>6, <1>10, <2>2 DEF EventRight
    <3> QED BY <1>1, <1>4, <1>10, <3>1, PrimedFound
  <2> QED BY <2>1, <2>2
<1>11. CASE ~event_propagation \/ next = {}
  <2>1. events' = front
    BY <1>11 DEF NextListener
  <2>2. \A n \in TunerIn(events') : n \in TunerIn(events) /\ n \in DOMAIN events'
    BY <1>3, <2>1 DEF TunerIn
  <2>3. \A n \in TunerIn(events') : Right(n)'
    BY <1>3, <1>10, <2>1, <2>2
  <2>4. EventRight'
    BY <2>3, PrimedFound DEF EventRight
  <2> QED BY <1>7, <1>8, <2>4
<1>12. CASE event_propagation /\ next # {}
  <2>1. k \in next /\ events' = Append(front, f)
    BY <1>12 DEF NextListener
  <2>2. /\ k \in DOMAIN listeners /\ Top.i + 1 <= k /\ listeners[k].kind = Top.kind
        /\ f.i = k /\ f.kind = Top.kind /\ f.tuner = Top.tuner
        /\ f.at = IF listeners[k].owner = User THEN "user" ELSE "callback"
    BY <1>1, <1>2, <2>1, EnteredFields
  <2>3. f.status = Top.status
    BY <1>1 DEF Entered, Frame
  <2> HIDE DEF f, k, front, next, Right
  <2>4. /\ Len(events') = Len(events) /\ events'[Len(events)] = f
        /\ \A n \in DOMAIN events' : (n \in DOMAIN front /\ events'[n] = front[n]) \/ n = Len(events)
    BY <1>3, <2>1
  <2>5. ~Doomed
    BY <1>12 DEF Doomed
  <2>6. ASSUME NEW n \in TunerIn(events'), n = Len(events)
        PROVE  Right(n)'
    <3>1. n \in TunerIn(events) /\ events[n] = Top
      BY <1>1, <2>2, <2>4, <2>6 DEF TunerIn
    <3>2. ASSUME NEW s \in Searching, search[s].tuner = f.tuner
          PROVE  \/ tune[f.tuner].status = f.status
                 \/ f.at # "callback" /\ Heard(listeners, s, k)
      <4>1. \/ tune[f.tuner].status = f.status
            \/ Heard(listeners, s, Top.i)
        BY <1>6, <2>2, <2>3, <2>5, <3>1, <3>2 DEF EventRight
      <4>2. CASE Heard(listeners, s, Top.i)
        <5>1. Heard(listeners, s, k)
          BY <1>1, <1>2, <2>2, <4>2 DEF Heard
        <5>2. listeners[k].owner # s
          <6>1. Top.kind = "tuner"
            BY <3>1 DEF TunerIn
          <6> QED BY <1>1, <1>2, <2>2, <4>2, <6>1 DEF Heard
        <5>3. ~search[s].disturbed
          <6>1. s \in Started
            BY DEF Searching, Started
          <6> QED BY <6>1 DEF Undisturbed
        <5>4. listeners[k].owner # User => listeners[k].owner \in Owners(listeners)
          BY <2>2 DEF Owners
        <5>5. listeners[k].owner = User
          BY <5>2, <5>3, <5>4, UndisturbedInEngine DEF TablesInv
        <5> QED BY <2>2, <5>1, <5>5
      <4> QED BY <4>1, <4>2
    <3>3. Held(f.tuner)
      BY <1>6, <2>2, <2>5, <3>1 DEF EventRight
    <3>4. /\ events'[n] = f /\ n = Len(events')
          /\ \A s \in Searching' : s \in Searching /\ search'[s].tuner = search[s].tuner
      BY <1>1, <1>4, <2>4, <2>6
    <3> QED BY <1>1, <1>4, <2>2, <3>2, <3>3, <3>4, PrimedFound DEF Right
  <2>7. ASSUME NEW n \in TunerIn(events'), n # Len(events)
        PROVE  Right(n)'
    <3>1. n \in DOMAIN front /\ events'[n] = front[n] /\ n \in DOMAIN events'
      BY <2>4, <2>7 DEF TunerIn
    <3>2. n \in TunerIn(events) /\ events'[n] = events[n]
      BY <1>3, <3>1 DEF TunerIn, front
    <3> QED BY <1>10, <1>12, <2>7, <3>1, <3>2
  <2>8. EventRight'
    BY <2>6, <2>7, PrimedFound DEF EventRight, Right
  <2> QED BY <1>7, <1>8, <2>8
<1> QED BY <1>11, <1>12

-----------------------------------------------------------------------------
(* The main loop.                                                          *)

LEMMA LockedFinds ==
  ASSUME TypeOK, MainLoop
  PROVE  \A q \in SearchId : /\ search'[q].found = search[q].found
                             /\ search'[q].user_number = search[q].user_number
                             /\ search'[q].phase = search[q].phase
                             /\ search'[q].tuner = search[q].tuner
                             /\ search'[q].scan = search[q].scan
                             /\ search'[q].disturbed = search[q].disturbed
<1>1. search' = search \/ \E t \in Tuner : search' = WithLocked(t)
  BY DEF MainLoop, Lock, Fail, ReadTables, Second, OtherEvent
<1>2. ASSUME NEW t \in Tuner, search' = WithLocked(t), NEW q \in SearchId
      PROVE  /\ search'[q].found = search[q].found
             /\ search'[q].user_number = search[q].user_number
             /\ search'[q].phase = search[q].phase
             /\ search'[q].tuner = search[q].tuner
             /\ search'[q].scan = search[q].scan
             /\ search'[q].disturbed = search[q].disturbed
  <2> DEFINE sr == search[q]
             new == [sr EXCEPT !.locked = @ \cup {sr.scan.f}]
  <2>1. SearchType(sr)
    BY DEF TypeOK
  <2> HIDE DEF sr
  <2>2. /\ new.found = sr.found /\ new.user_number = sr.user_number /\ new.phase = sr.phase
        /\ new.tuner = sr.tuner /\ new.scan = sr.scan /\ new.disturbed = sr.disturbed
    BY <2>1, SearchFields
  <2>3. search'[q] = new \/ search'[q] = sr
    BY <1>2 DEF WithLocked, sr
  <2> HIDE DEF new
  <2> QED BY <2>2, <2>3 DEF sr
<1> QED BY <1>1, <1>2

(* With an empty stack an event is the only one.                           *)
LEMMA OneEvent ==
  ASSUME NEW ls \in Seq(Listener), NEW e \in Frame, NEW stack, stack = Notified(ls, <<>>, e),
         NEW n \in DOMAIN stack
  PROVE  /\ n = Len(stack) /\ stack[n].kind = e.kind /\ stack[n].tuner = e.tuner
         /\ stack[n].status = e.status
<1> DEFINE first == FirstFrom(ls, e.kind, 1)
           k == CHOOSE k \in first : TRUE
           f == Entered(ls, e, k)
<1>1. f.kind = e.kind /\ f.tuner = e.tuner /\ f.status = e.status
  BY DEF Entered, Frame
<1>2. first # {} /\ stack = Append(<<>>, f)
  BY DEF Notified
<1> HIDE DEF f, k, first
<1>3. Len(stack) = 1 /\ DOMAIN stack = {1} /\ stack[1] = f
  BY <1>2
<1> QED BY <1>1, <1>3

LEMMA MainLoopEventFound ==
  ASSUME RestoreInv, MainLoop, InMainLoop, NEW e \in Frame, MainLoopEvent(e),
         e.kind = "tuner" /\ e.tuner \in Tuner
           => Held(e.tuner) /\ tune'[e.tuner].status = e.status,
         FoundInv, Undisturbed => TablesRight',
         Undisturbed /\ SteadyInv
           => \A u \in Tuner : Steady(u, tune'[u]) /\ tune'[u].p = tune[u].p
  PROVE  FoundInv'
<1>1. /\ events' = Notified(listeners, <<>>, e) /\ TypeOK /\ SearchInv
      /\ listeners \in Seq(Listener)
  BY DEF InMainLoop, MainLoopEvent, RestoreInv, SearchInv, TypeOK
<1>2. \A q \in SearchId : /\ search'[q].found = search[q].found
                          /\ search'[q].user_number = search[q].user_number
                          /\ search'[q].phase = search[q].phase
                          /\ search'[q].tuner = search[q].tuner
                          /\ search'[q].scan = search[q].scan
                          /\ search'[q].disturbed = search[q].disturbed
  BY <1>1, LockedFinds
<1>3. /\ Searching' = Searching /\ Started' = Started /\ Active' = Active
      /\ \A t : (Held(t))' <=> Held(t)
  BY <1>2 DEF Searching, Started, Active, Held
<1>4. Undisturbed' <=> Undisturbed
  BY <1>2, <1>3 DEF Undisturbed, Started
<1> SUFFICES ASSUME Undisturbed PROVE (SteadyInv /\ TablesRight /\ EventRight /\ FoundsInv)'
  BY <1>4 DEF FoundInv
<1>5. SteadyInv /\ FoundsInv
  BY DEF FoundInv
<1>6. SteadyInv'
  BY <1>5, PrimedFound
<1>7. FoundsInv'
  <2>1. ASSUME NEW q \in SearchId PROVE FoundRight(search'[q], tune'[search'[q].tuner].p)
    <3>1. q \in Searching => search[q].tuner \in Tuner
      BY <1>1 DEF SearchInv, TunersInv, Searching, Active
    <3> QED BY <1>1, <1>2, <1>5, <3>1, FoundLeft
  <2> QED BY <2>1, PrimedFound
<1>8. EventRight'
  <2> SUFFICES ASSUME NEW n \in TunerIn(events')
               PROVE  (/\ Held(events[n].tuner)
                       /\ n = Len(events) /\ tune[events[n].tuner].status = events[n].status)'
    BY PrimedFound DEF EventRight
  <2>1. /\ n = Len(events') /\ events'[n].kind = e.kind /\ events'[n].tuner = e.tuner
        /\ events'[n].status = e.status
    BY <1>1, OneEvent DEF TunerIn
  <2>2. e.kind = "tuner" /\ e.tuner \in Tuner
    BY <2>1 DEF TunerIn
  <2> QED BY <1>3, <2>1, <2>2
<1> QED BY <1>6, <1>7, <1>8

LEMMA MainLoopFound ==
  ASSUME FromUhf, RestoreInv, TablesInv, FoundInv, MainLoop
  PROVE  FoundInv'
<1>1. /\ {"tuner", "ready", "timeout"} \subseteq Kind /\ tables \in [Decoder -> Nat]
      /\ tune \in [Tuner -> TuneState] /\ SearchInv
  BY DEF Kind, RestoreInv, SearchInv, TypeOK
<1>2. Undisturbed => SteadyInv /\ TablesRight
  BY DEF FoundInv
<1>3. ASSUME UNCHANGED tables PROVE Undisturbed => TablesRight'
  BY <1>2, <1>3 DEF TablesRight, Frequencies, UhfChannel
<1>4. ASSUME NEW t \in Tuner, NEW status \in {"LOCK", "FAILED"}, tune[t].status = "TRYING",
             status = "LOCK" => tune[t].taken, tune' = [tune EXCEPT ![t].status = status]
      PROVE  /\ Held(t) /\ tune'[t].status = status
             /\ SteadyInv => \A u \in Tuner : Steady(u, tune'[u]) /\ tune'[u].p = tune[u].p
  <2> DEFINE r == tune[t]
             new == [r EXCEPT !.status = status]
  <2>1. Held(t)
    BY <1>1, <1>4, TryingIsHeld
  <2>2. r \in TuneState /\ new.status = status
    BY <1>1 DEF TuneState
  <2>3. SteadyInv => Steady(t, new) /\ new.p = r.p
    <3> SUFFICES ASSUME SteadyInv PROVE Steady(t, new) /\ new.p = r.p
      OBVIOUS
    <3>1. Steady(t, r)
      BY DEF SteadyInv
    <3> QED BY <1>4, <2>2, <3>1, AnsweredSteady
  <2>4. tune' = [tune EXCEPT ![t] = new]
    BY <1>4
  <2> HIDE DEF new
  <2>5. tune'[t] = new /\ \A u \in Tuner \ {t} : tune'[u] = tune[u]
    BY <1>1, <2>4
  <2> QED BY <2>1, <2>2, <2>3, <2>5 DEF SteadyInv
<1>5. ASSUME NEW t \in Tuner, Lock(t) PROVE FoundInv'
  <2> DEFINE e == Event("tuner", t, "LOCK", {})
  <2>1. e \in Frame /\ e.kind = "tuner" /\ e.tuner = t /\ e.status = "LOCK"
    BY <1>1, EventFrame DEF Event
  <2>2. InMainLoop /\ MainLoopEvent(e) /\ UNCHANGED tables
    BY <1>5 DEF Lock
  <2>3. /\ tune[t].status = "TRYING" /\ tune[t].taken
        /\ tune' = [tune EXCEPT ![t].status = "LOCK"]
    BY <1>5 DEF Lock
  <2> HIDE DEF e
  <2>4. /\ Held(t) /\ tune'[t].status = "LOCK"
        /\ SteadyInv => \A u \in Tuner : Steady(u, tune'[u]) /\ tune'[u].p = tune[u].p
    BY <1>4, <2>3
  <2> QED BY <1>3, <2>1, <2>2, <2>4, MainLoopEventFound
<1>6. ASSUME NEW t \in Tuner, Fail(t) PROVE FoundInv'
  <2> DEFINE e == Event("tuner", t, "FAILED", {})
  <2>1. e \in Frame /\ e.kind = "tuner" /\ e.tuner = t /\ e.status = "FAILED"
    BY <1>1, EventFrame DEF Event
  <2>2. InMainLoop /\ MainLoopEvent(e) /\ UNCHANGED tables
    BY <1>6 DEF Fail
  <2>3. tune[t].status = "TRYING" /\ tune' = [tune EXCEPT ![t].status = "FAILED"]
    BY <1>6 DEF Fail
  <2> HIDE DEF e
  <2>4. /\ Held(t) /\ tune'[t].status = "FAILED"
        /\ SteadyInv => \A u \in Tuner : Steady(u, tune'[u]) /\ tune'[u].p = tune[u].p
    BY <1>4, <2>3
  <2> QED BY <1>3, <2>1, <2>2, <2>4, MainLoopEventFound
<1>7. ASSUME UNCHANGED tune
      PROVE  SteadyInv => \A u \in Tuner : Steady(u, tune'[u]) /\ tune'[u].p = tune[u].p
  BY <1>7 DEF SteadyInv
<1>8. ASSUME NEW t \in Tuner, ReadTables(t) PROVE FoundInv'
  <2> DEFINE e == Event("ready", t, None, {})
  <2>1. e \in Frame /\ e.kind = "ready"
    BY <1>1, EventFrame DEF Event
  <2>2. /\ tune[t].mydvb # NoDecoder /\ tune[t].taken /\ UNCHANGED tune
        /\ tables' = [tables EXCEPT ![DecoderOf(t)] = tune[t].p]
        /\ InMainLoop /\ MainLoopEvent(e)
    BY <1>8 DEF ReadTables
  <2> HIDE DEF e
  <2>3. ASSUME Undisturbed PROVE TablesRight'
    <3>1. /\ tune[t].mydvb = ChannelNumber(TunerType[t], tune[t].p) /\ tune[t].p \in Frequencies
      BY <1>2, <2>2, <2>3 DEF SteadyInv, Steady, TablesInv, ParametersInv, TunedRight
    <3> DEFINE p == tune[t].p
               one == DecoderOf(t)
    <3>2. one = <<TunerType[t], tune[t].mydvb>>
      BY DEF DecoderOf
    <3>3. one[1] = "dvbt" => UhfChannel(p) = one[2]
      BY <3>1, <3>2 DEF ChannelNumber
    <3> HIDE DEF p, one
    <3>4. \A d \in Decoder : tables'[d] = tables[d] \/ (d = one /\ tables'[d] = p)
      BY <1>1, <2>2 DEF p, one
    <3>5. p \in Frequencies
      BY <3>1 DEF p
    <3>6. \A d \in Decoder : d[1] = "dvbt" =>
            tables'[d] = Unread \/ (tables'[d] \in Frequencies /\ UhfChannel(tables'[d]) = d[2])
      BY <1>2, <2>3, <3>3, <3>4, <3>5 DEF TablesRight
    <3> QED BY <3>6 DEF TablesRight, Frequencies, UhfChannel
  <2> QED BY <1>7, <2>1, <2>2, <2>3, MainLoopEventFound
<1>9. ASSUME NEW late \in SUBSET Locked, Second(late) PROVE FoundInv'
  <2> DEFINE e == Event("timeout", NoTuner, None, late)
  <2>1. e \in Frame /\ e.kind = "timeout"
    BY <1>1, EventFrame DEF Locked, Event
  <2>2. InMainLoop /\ MainLoopEvent(e) /\ UNCHANGED <<tables, tune>>
    BY <1>9 DEF Second
  <2> HIDE DEF e
  <2> QED BY <1>3, <1>7, <2>1, <2>2, MainLoopEventFound
<1>10. CASE OtherEvent
  <2>1. PICK e \in Frame : InMainLoop /\ MainLoopEvent(e) /\ e.tuner = Other
    <3>1. /\ \A status \in {"TRYING", "LOCK", "FAILED"} :
               /\ Event("tuner", Other, status, {}) \in Frame
               /\ Event("tuner", Other, status, {}).tuner = Other
          /\ Event("ready", Other, None, {}) \in Frame
          /\ Event("ready", Other, None, {}).tuner = Other
      BY <1>1, EventFrame DEF Event
    <3> QED BY <1>10, <3>1 DEF OtherEvent
  <2>2. UNCHANGED <<tables, tune>>
    BY <1>10 DEF OtherEvent
  <2>3. Other \notin Tuner
    BY SearchAssumption DEF Other, Tuner
  <2> QED BY <1>3, <1>7, <2>1, <2>2, <2>3, MainLoopEventFound
<1> QED BY <1>5, <1>6, <1>8, <1>9, <1>10 DEF MainLoop

-----------------------------------------------------------------------------
(* Clients.  Client code runs, so an event that is being notified is not   *)
(* doomed.                                                                 *)

LEMMA ClientTurnEvents ==
  ASSUME RestoreInv, ClientTurn, EventRight, NEW n \in TunerIn(events)
  PROVE  /\ events[n].tuner \in Tuner /\ events[n].i \in Nat /\ Held(events[n].tuner)
         /\ \A s \in Searching :
              search[s].tuner = events[n].tuner
                => \/ n = Len(events) /\ tune[events[n].tuner].status = events[n].status
                   \/ events[n].at # "callback" /\ Heard(listeners, s, events[n].i)
<1>1. /\ n \in DOMAIN events /\ events[n] \in Frame /\ events # <<>>
      /\ Len(events) \in DOMAIN events /\ events[n].tuner \in Tuner
  BY DEF TunerIn, RestoreInv, SearchInv, TypeOK
<1>2. events[n].i \in Nat
  BY <1>1 DEF Frame
<1>3. ~Doomed
  <2>1. events[Len(events)].at = "user"
    BY <1>1 DEF ClientTurn, Top
  <2> QED BY <1>1, <2>1 DEF Doomed
<1> QED BY <1>1, <1>2, <1>3 DEF EventRight

LEMMA ClientFound ==
  ASSUME RestoreInv, FoundInv, ClientTurn, UNCHANGED <<events, tune, tables, search>>,
         \A k \in DOMAIN listeners' : listeners'[k].owner # User
           => \E i \in DOMAIN listeners : k <= i /\ listeners'[k] = listeners[i],
         DOMAIN listeners' \subseteq Nat /\ DOMAIN listeners \subseteq Nat
  PROVE  FoundInv'
<1>1. Searching' = Searching /\ Started' = Started /\ \A t : (Held(t))' <=> Held(t)
  BY DEF Searching, Started, Held, Active
<1>2. Undisturbed' <=> Undisturbed
  BY <1>1 DEF Undisturbed
<1> SUFFICES ASSUME Undisturbed PROVE (SteadyInv /\ TablesRight /\ EventRight /\ FoundsInv)'
  BY <1>2 DEF FoundInv
<1>3. SteadyInv /\ TablesRight /\ EventRight /\ FoundsInv
  BY DEF FoundInv
<1>4. SteadyInv' /\ FoundsInv'
  BY <1>3, PrimedFound DEF SteadyInv, FoundsInv
<1>5. TablesRight'
  BY <1>3 DEF TablesRight, Frequencies, UhfChannel
<1>6. ASSUME NEW s \in Searching, NEW i \in Nat, Heard(listeners, s, i)
      PROVE  Heard(listeners', s, i)
  <2> SUFFICES ASSUME NEW k \in DOMAIN listeners', listeners'[k].owner = s,
                      listeners'[k].kind = "tuner"
               PROVE  k <= i
    BY DEF Heard
  <2>1. s # User
    BY SearchAssumption DEF Searching, SearchId, User
  <2>2. PICK j \in DOMAIN listeners : k <= j /\ listeners'[k] = listeners[j]
    BY <2>1
  <2>3. j <= i
    BY <1>6, <2>2 DEF Heard
  <2> QED BY <2>2, <2>3
<1>7. EventRight'
  <2> SUFFICES ASSUME NEW n \in TunerIn(events)
               PROVE  (/\ Held(events[n].tuner)
                       /\ \A s \in Searching :
                            search[s].tuner = events[n].tuner
                              => \/ n = Len(events) /\ tune[events[n].tuner].status = events[n].status
                                 \/ events[n].at # "callback" /\ Heard(listeners, s, events[n].i))'
    BY PrimedFound DEF EventRight
  <2>1. /\ events[n].i \in Nat /\ Held(events[n].tuner)
        /\ \A s \in Searching :
             search[s].tuner = events[n].tuner
               => \/ n = Len(events) /\ tune[events[n].tuner].status = events[n].status
                  \/ events[n].at # "callback" /\ Heard(listeners, s, events[n].i)
    BY <1>3, ClientTurnEvents
  <2> QED BY <1>1, <1>6, <2>1, PrimedFound
<1> QED BY <1>4, <1>5, <1>7

LEMMA RegisterFound ==
  ASSUME RestoreInv, FoundInv, NEW kind \in ClientKinds, Register(kind)
  PROVE  FoundInv'
<1> DEFINE l == [id |-> listener_cnt, kind |-> kind, owner |-> User]
           new == Append(listeners, l)
<1>1. /\ listeners \in Seq(Listener) /\ l \in Listener /\ l.owner = User
  BY SearchAssumption DEF RestoreInv, SearchInv, TypeOK, Listener
<1>2. /\ listeners' = new /\ ClientTurn /\ UNCHANGED <<events, tune, tables, search>>
  BY DEF Register
<1> HIDE DEF l
<1>3. /\ DOMAIN new = 1..Len(listeners) + 1 /\ DOMAIN listeners = 1..Len(listeners)
      /\ Len(listeners) \in Nat /\ new[Len(listeners) + 1] = l
      /\ \A k \in DOMAIN listeners : new[k] = listeners[k]
  BY <1>1
<1> HIDE DEF new
<1>4. \A k \in DOMAIN new : new[k].owner # User
        => \E i \in DOMAIN listeners : k <= i /\ new[k] = listeners[i]
  BY <1>1, <1>3
<1>5. DOMAIN new \subseteq Nat /\ DOMAIN listeners \subseteq Nat
  BY <1>3
<1> QED BY <1>2, <1>4, <1>5, ClientFound

LEMMA RemoveListenerFound ==
  ASSUME RestoreInv, FoundInv, NEW l, RemoveListener(l)
  PROVE  FoundInv'
<1> DEFINE new == Only(listeners, ToSet(listeners) \ {l})
<1>1. listeners \in Seq(Listener)
  BY DEF RestoreInv, SearchInv, TypeOK
<1>2. /\ listeners' = new /\ ClientTurn /\ UNCHANGED <<events, tune, tables, search>>
  BY DEF RemoveListener
<1>3. \A k \in DOMAIN new : \E i \in DOMAIN listeners : k <= i /\ new[k] = listeners[i]
  BY <1>1, OnlyMovesDown
<1>4. new \in Seq(Listener)
  BY <1>1, OnlyListeners
<1> HIDE DEF new
<1>5. DOMAIN new \subseteq Nat /\ DOMAIN listeners \subseteq Nat
  BY <1>1, <1>4
<1> QED BY <1>2, <1>3, <1>5, ClientFound

LEMMA AskEndFound ==
  ASSUME RestoreInv, FoundInv, NEW s \in SearchId, NEW wish \in Wish, AskEnd(s, wish)
  PROVE  FoundInv'
<1>1. /\ DOMAIN search = SearchId /\ SearchType(search[s]) /\ SearchInv
      /\ UNCHANGED <<listeners, event_propagation, events, tune, tables>>
  BY DEF RestoreInv, SearchInv, TypeOK, AskEnd
<1> DEFINE new == [search[s] EXCEPT !.status = wish]
<1>2. /\ new.phase = search[s].phase /\ new.found = search[s].found
      /\ new.tuner = search[s].tuner /\ new.scan = search[s].scan
      /\ new.user_number = search[s].user_number
      /\ new.disturbed = search[s].disturbed
  BY <1>1, SearchFields
<1>3. search' = [search EXCEPT ![s] = new]
  BY DEF AskEnd
<1> HIDE DEF new
<1>4. \A q \in SearchId :
        /\ search'[q].phase = search[q].phase /\ search'[q].found = search[q].found
        /\ search'[q].tuner = search[q].tuner /\ search'[q].scan = search[q].scan
        /\ search'[q].user_number = search[q].user_number
        /\ search'[q].disturbed = search[q].disturbed
  BY <1>1, <1>2, <1>3
<1>5. /\ Searching' = Searching /\ Started' = Started /\ \A t : (Held(t))' <=> Held(t)
      /\ \A q \in Searching : search'[q].tuner = search[q].tuner
  BY <1>4 DEF Searching, Started, Held, Active
<1>6. Undisturbed' <=> Undisturbed
  BY <1>4, <1>5 DEF Undisturbed, Started
<1> SUFFICES ASSUME Undisturbed PROVE (SteadyInv /\ TablesRight /\ EventRight /\ FoundsInv)'
  BY <1>6 DEF FoundInv
<1>7. SteadyInv /\ TablesRight /\ EventRight /\ FoundsInv
  BY DEF FoundInv
<1>8. SteadyInv'
  BY <1>1, <1>7, PrimedFound DEF SteadyInv
<1>9. FoundsInv'
  <2>1. ASSUME NEW q \in SearchId PROVE FoundRight(search'[q], tune'[search'[q].tuner].p)
    BY <1>1, <1>4, <1>7, FoundLeft
  <2> QED BY <2>1, PrimedFound
<1>10. TablesRight'
  BY <1>1, <1>7 DEF TablesRight, Frequencies, UhfChannel
<1>11. EventRight'
  <2>1. Doomed' <=> Doomed
    BY <1>1 DEF Doomed
  <2> QED BY <1>1, <1>5, <1>7, <2>1, PrimedFound DEF EventRight
<1> QED BY <1>8, <1>9, <1>10, <1>11

(* A search that begins disturbs the others; its tuner was nobody's, so    *)
(* that no event is of it.                                                 *)
LEMMA TunerSearchFound ==
  ASSUME RestoreInv, TablesInv, FoundInv, NEW s \in SearchId, NEW type, TunerSearch(s, type)
  PROVE  FoundInv'
<1> SUFFICES ASSUME Undisturbed' PROVE (SteadyInv /\ TablesRight /\ EventRight /\ FoundsInv)'
  BY DEF FoundInv
<1>1. PICK t \in Available(type), taken \in BOOLEAN :
        LET scan == ScanInit(Valid[t], type) IN
          /\ tune' = [tune EXCEPT ![t] = ScannedTune(t,
               [tune[t] EXCEPT !.references = @ + 1], scan.f, taken)]
          /\ search' = [q \in SearchId |->
               IF q = s THEN [NoSearch EXCEPT !.phase = "searching",
                                !.status = "SEARCHING", !.tuner = t, !.scan = scan,
                                !.saved = SavedOf(listeners),
                                !.tried = {<<scan.f, scan.d>>}]
               ELSE [search[q] EXCEPT !.disturbed = @ \/ q \in Searching]]
  BY DEF TunerSearch
<1>2. /\ t \in Tuner /\ s \notin Started /\ tune \in [Tuner -> TuneState] /\ SearchInv
      /\ \A q \in SearchId : SearchType(search[q])
      /\ tune[t].references = 0 /\ ClientTurn /\ UNCHANGED <<events, tables>>
  BY DEF Available, TunerSearch, RestoreInv, SearchInv, TypeOK
<1> DEFINE scan == ScanInit(Valid[t], type)
           mine1 == [NoSearch EXCEPT !.phase = "searching", !.status = "SEARCHING",
                       !.tuner = t, !.scan = scan, !.saved = SavedOf(listeners),
                       !.tried = {<<scan.f, scan.d>>}]
           other(q) == [search[q] EXCEPT !.disturbed = @ \/ q \in Searching]
           r == [tune[t] EXCEPT !.references = @ + 1]
<1>3. /\ tune' = [tune EXCEPT ![t] = ScannedTune(t, r, scan.f, taken)]
      /\ search' = [q \in SearchId |-> IF q = s THEN mine1 ELSE other(q)]
  BY <1>1
<1>4. /\ r \in TuneState /\ r.channel = tune[t].channel /\ r.mydvb = tune[t].mydvb
      /\ r.taken = tune[t].taken /\ r.p = tune[t].p /\ r.status = tune[t].status
  <2>1. tune[t] \in TuneState
    BY <1>2
  <2> QED BY <2>1 DEF TuneState
<1> HIDE DEF r, scan
<1>5. /\ mine1.scan = scan /\ mine1.tuner = t /\ mine1.phase = "searching"
      /\ mine1.found = <<>> /\ mine1.user_number = 1
  BY DEF NoSearch
<1>6. \A q \in SearchId : /\ other(q).disturbed = (search[q].disturbed \/ q \in Searching)
                          /\ other(q).phase = search[q].phase
                          /\ other(q).tuner = search[q].tuner
                          /\ other(q).scan = search[q].scan
                          /\ other(q).found = search[q].found
                          /\ other(q).user_number = search[q].user_number
  BY <1>2, SearchFields
<1> HIDE DEF mine1, other
<1>7. search'[s] = mine1 /\ \A q \in SearchId \ {s} : search'[q] = other(q)
  BY <1>3
<1>8. /\ tune'[t] = ScannedTune(t, r, scan.f, taken)
      /\ \A u \in Tuner \ {t} : tune'[u] = tune[u]
  BY <1>2, <1>3
<1>9. \A q \in Started : q \in SearchId \ {s} /\ search[q].phase # "none"
  BY <1>2 DEF Started
<1>10. Undisturbed
  <2>1. \A q \in Started : /\ search'[q].phase # "none"
                           /\ search[q].disturbed => search'[q].disturbed
    BY <1>6, <1>7, <1>9
  <2> QED BY <2>1, WasUndisturbed
<1>11. Searching = {}
  <2> SUFFICES ASSUME NEW q \in Searching PROVE FALSE
    OBVIOUS
  <2>1. q \in Started /\ q \in SearchId
    BY DEF Searching, Started
  <2>2. search'[q].disturbed /\ search'[q].phase # "none"
    BY <1>6, <1>7, <1>9, <2>1
  <2>3. q \in Started'
    BY <2>1, <2>2 DEF Started
  <2> QED BY <2>2, <2>3 DEF Undisturbed
<1>12. SteadyInv /\ TablesRight /\ EventRight /\ FoundsInv
  BY <1>10 DEF FoundInv
<1>13. ~Held(t)
  BY <1>2 DEF SearchInv, TunersInv
<1>14. Steady(t, tune'[t]) /\ (TunerType[t] # "dvbc" => tune'[t].p = scan.f)
  <2>1. tune[t].mydvb = NoDecoder
    BY <1>2, <1>13 DEF SearchInv, TunersInv
  <2>2. Steady(t, r)
    BY <1>2, <1>4, <1>12 DEF SteadyInv, Steady
  <2> QED BY <1>4, <1>8, <2>1, <2>2, ScannedSteady
<1>15. SteadyInv'
  BY <1>8, <1>12, <1>14, PrimedFound DEF SteadyInv
<1>16. FoundsInv'
  <2>1. FoundRight(search'[s], tune'[search'[s].tuner].p)
    <3>1. AllBelow(<<>>, scan.f)
      BY DEF AllBelow
    <3> QED BY <1>5, <1>7, <1>14, <3>1, NothingIsRight DEF FoundRight
  <2>2. ASSUME NEW q \in SearchId \ {s}
        PROVE  FoundRight(search'[q], tune'[search'[q].tuner].p)
    BY <1>2, <1>6, <1>7, <1>11, <1>12, FoundLeft
  <2> QED BY <2>1, <2>2, PrimedFound
<1>17. TablesRight'
  BY <1>2, <1>12 DEF TablesRight, Frequencies, UhfChannel
<1>18. EventRight'
  <2> SUFFICES ASSUME NEW n \in TunerIn(events)
               PROVE  (/\ Held(events[n].tuner)
                       /\ \A q \in Searching : search[q].tuner # events[n].tuner)'
    BY <1>2, PrimedFound DEF EventRight
  <2>1. Held(events[n].tuner)
    BY <1>2, <1>12, ClientTurnEvents
  <2>2. events[n].tuner # t
    BY <1>13, <2>1
  <2>3. Held(events[n].tuner)'
    <3>1. PICK q \in Active : search[q].tuner = events[n].tuner
      BY <2>1 DEF Held
    <3>2. q \in SearchId \ {s}
      BY <1>2, <1>9 DEF Active, Started
    <3>3. q \in Active' /\ search'[q].tuner = events'[n].tuner
      BY <1>2, <1>6, <1>7, <3>1, <3>2 DEF Active
    <3> QED BY <3>3 DEF Held
  <2>4. \A q \in Searching' : q = s
    <3>1. \A q \in Searching' : q \in SearchId /\ search'[q].phase = "searching"
      BY DEF Searching
    <3>2. \A q \in SearchId \ {s} : search'[q].phase = search[q].phase
      BY <1>6, <1>7
    <3> QED BY <1>11, <3>1, <3>2 DEF Searching
  <2>5. search'[s].tuner = t
    BY <1>5, <1>7
  <2> QED BY <1>2, <2>2, <2>3, <2>4, <2>5
<1> QED BY <1>15, <1>16, <1>17, <1>18

-----------------------------------------------------------------------------
LEMMA FoundInvInit == Init => FoundInv
<1> SUFFICES ASSUME Init PROVE FoundInv
  OBVIOUS
<1>1. /\ events = <<>> /\ tune = [t \in Tuner |-> FreshTune]
      /\ tables = [d \in Decoder |-> Unread] /\ search = [s \in SearchId |-> NoSearch]
  BY DEF Init
<1>2. SteadyInv
  BY <1>1 DEF SteadyInv, Steady, FreshTune
<1>3. TablesRight
  BY <1>1 DEF TablesRight
<1>4. EventRight
  BY <1>1 DEF EventRight, TunerIn
<1>5. FoundsInv
  <2>1. NoSearch.phase = "none" /\ NoSearch.found = <<>>
    BY DEF NoSearch
  <2> QED BY <1>1, <2>1 DEF FoundsInv, FoundRight
<1> QED BY <1>2, <1>3, <1>4, <1>5 DEF FoundInv

LEMMA FoundInvStep ==
  FromUhf /\ RestoreInv /\ TablesInv /\ FoundInv /\ [Next]_vars => FoundInv'
<1> SUFFICES ASSUME FromUhf, RestoreInv, TablesInv, FoundInv, [Next]_vars PROVE FoundInv'
  OBVIOUS
<1>1. CASE UNCHANGED vars
  <2>1. UNCHANGED <<listeners, event_propagation, events, tune, tables, search>>
    BY <1>1 DEF vars
  <2>2. /\ Searching' = Searching /\ Started' = Started /\ \A t : (Held(t))' <=> Held(t)
        /\ Doomed' <=> Doomed
    BY <2>1 DEF Searching, Started, Held, Active, Doomed
  <2>3. Undisturbed' <=> Undisturbed
    BY <2>1, <2>2 DEF Undisturbed
  <2>4. (SteadyInv' <=> SteadyInv) /\ (FoundsInv' <=> FoundsInv)
    BY <2>1, PrimedFound DEF SteadyInv, FoundsInv
  <2>5. TablesRight => TablesRight'
    BY <2>1 DEF TablesRight, Frequencies, UhfChannel
  <2>6. EventRight => EventRight'
    BY <2>1, <2>2, PrimedFound DEF EventRight
  <2> QED BY <2>3, <2>4, <2>5, <2>6 DEF FoundInv
<1>2. CASE Client
  BY <1>2, TunerSearchFound, AskEndFound, RegisterFound, RemoveListenerFound DEF Client
<1>3. CASE Library
  BY <1>3, CallbackFound, FinishSearchFound DEF Library
<1>4. CASE NextListener \/ MainLoop
  BY <1>4, NextListenerFound, MainLoopFound
<1> QED BY <1>1, <1>2, <1>3, <1>4 DEF Next

LEMMA RightlyIsRight ==
  ASSUME NEW found, NEW n, Rightly(found, n), NEW i \in DOMAIN found
  PROVE  /\ found[i].n = UhfChannel(found[i].f)
         /\ [k \in DOMAIN found[i].programs |-> found[i].programs[k].number]
              = AirPat[found[i].f]
         /\ \A j \in DOMAIN found :
              i < j => found[i].f < found[j].f /\ found[i].n < found[j].n
         /\ \A k \in DOMAIN ProgramsOf(found) : ProgramsOf(found)[k].user_number = k
<1>1. /\ found \in Seq(AnyChannel) /\ \A j \in DOMAIN found : ChannelRight(found[j])
      /\ \A j \in DOMAIN found : i < j => found[i].f < found[j].f
      /\ NumberedFrom(ProgramsOf(found), 1)
  BY DEF Rightly
<1>2. \A j \in DOMAIN found : found[j] \in AnyChannel
  BY <1>1
<1>3. \A j \in DOMAIN found : /\ found[j].f \in Frequencies
                              /\ found[j].n = UhfChannel(found[j].f)
  BY <1>1, <1>2 DEF AnyChannel, ChannelRight
<1>4. \A j \in DOMAIN found : i < j => found[i].n < found[j].n
  BY <1>1, <1>3, UhfChannelGrows
<1>5. \A k \in DOMAIN ProgramsOf(found) : ProgramsOf(found)[k].user_number = k
  <2>1. ListsOf(found) \in Seq(Seq(AnyProgram))
    BY <1>1, <1>2, ListsOfAppend
  <2>2. <<>> \in Seq(AnyProgram)
    OBVIOUS
  <2>3. ProgramsOf(found) \in Seq(AnyProgram)
    BY <2>1, <2>2, FlattenAppend DEF ProgramsOf
  <2>4. \A k \in DOMAIN ProgramsOf(found) : k \in Nat
    BY <2>3
  <2> QED BY <1>1, <2>4 DEF NumberedFrom
<1> QED BY <1>1, <1>3, <1>4, <1>5 DEF ChannelRight

(* What a terrestrial search records of a frequency was read there         *)
(* (__mydvb_search_ready_callback), although its decoder may be one of an  *)
(* earlier search with the tables of that: no channel twice, in the order  *)
(* of the frequencies, and its programs numbered through, if only events   *)
(* of its own tuner have reached the search, whatever clients do in the    *)
(* callbacks between a lock and its tables.                                *)
THEOREM FoundIsRightCorrect == FromUhf => (Spec => []FoundIsRight)
<1> SUFFICES ASSUME FromUhf PROVE Spec => []FoundIsRight
  OBVIOUS
<1>1. FoundInv => FoundIsRight
  <2> SUFFICES ASSUME FoundInv, \A s \in SearchId : ~search[s].disturbed,
                      NEW s \in SearchId, NEW i \in DOMAIN search[s].found,
                      TunerType[search[s].tuner] = "dvbt"
               PROVE  LET found == search[s].found IN
                        /\ found[i].n = UhfChannel(found[i].f)
                        /\ [k \in DOMAIN found[i].programs |-> found[i].programs[k].number]
                             = AirPat[found[i].f]
                        /\ \A j \in DOMAIN found :
                             i < j => found[i].f < found[j].f /\ found[i].n < found[j].n
                        /\ \A k \in DOMAIN ProgramsOf(found) :
                             ProgramsOf(found)[k].user_number = k
    BY DEF FoundIsRight, ProgramsOf, ListsOf
  <2>1. FoundRight(search[s], tune[search[s].tuner].p)
    BY DEF FoundInv, Undisturbed, Started, FoundsInv
  <2>2. search[s].phase # "none"
    BY <2>1 DEF FoundRight
  <2>3. Rightly(search[s].found, search[s].user_number)
    BY <2>1, <2>2 DEF FoundRight
  <2> DEFINE found == search[s].found
  <2> HIDE DEF found
  <2>4. Rightly(found, search[s].user_number) /\ i \in DOMAIN found
    BY <2>3 DEF found
  <2>5. /\ found[i].n = UhfChannel(found[i].f)
        /\ [k \in DOMAIN found[i].programs |-> found[i].programs[k].number]
             = AirPat[found[i].f]
        /\ \A j \in DOMAIN found :
             i < j => found[i].f < found[j].f /\ found[i].n < found[j].n
        /\ \A k \in DOMAIN ProgramsOf(found) : ProgramsOf(found)[k].user_number = k
    BY <2>4, RightlyIsRight
  <2> QED BY <2>5 DEF found
<1>2. FromUhf /\ RestoreInv /\ TablesInv /\ FoundInv /\ [Next]_vars
        => (RestoreInv /\ TablesInv /\ FoundInv)'
  BY RestoreInvStep, TablesInvStep, FoundInvStep
<1> QED BY <1>1, <1>2, RestoreInvInit, TablesInvInit, FoundInvInit, PTL DEF Spec
=============================================================================
