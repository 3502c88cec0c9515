--------------------------- MODULE InfoDvb_proofs ---------------------------
(***************************************************************************)
(* Proofs about the stored channels: every channel allocated is in one     *)
(* list, once; a name is written into as many bytes as were allocated for  *)
(* it; what is loaded is the first part of what was saved; the number of a *)
(* user and the name of a service lead to one program each; and a move     *)
(* changes the order of no other two.                                      *)
(*                                                                         *)
(* That the channels of the two lists are counted by their ids needs that  *)
(* no id is twice in a list (IsChannels) nor in both, and that the next id *)
(* is in none, which OwnedOnceInv adds; so a merge, which moves a channel  *)
(* from one list to the other and frees the one it replaces, keeps the     *)
(* count.                                                                  *)
(*                                                                         *)
(* FileInv is about the file: it has the first lines of what was saved     *)
(* last (Begins), while it is written the lines that are left follow them  *)
(* (Follows), and while it is loaded the lines that are left begin with    *)
(* those that come after the last stream of the last program of the last   *)
(* channel so far (IsRead).  That one line more keeps this (LineRead)      *)
(* takes what the lines of a list are from any place on (LinesFrom) and    *)
(* that a name in ASCII comes back from its bytes (AsciiKept).             *)
(*                                                                         *)
(* TrustInv is about the numbers: they differ, in the list of the client   *)
(* and in what the file was written from, no two channels there have the   *)
(* same type and number, and the next number is above all until a file is  *)
(* loaded.  What is loaded keeps the numbers of what was saved             *)
(* (LoadedNumbers), which is why TrustInv needs FileInv.                   *)
(*                                                                         *)
(* What a recursive function is, the channels a search hands over, the     *)
(* bytes of a name, the value of a parameter and the lists joined to one,  *)
(* is shown by following its steps from 0 (UpTo).                          *)
(***************************************************************************)
EXTENDS InfoDvb, FiniteSetTheorems, SequenceTheorems, WellFoundedInduction, TLAPS

-----------------------------------------------------------------------------
(* Lists of channels                                                       *)

IsSeq(s) == s \in Seq(ToSet(s))

IdSet(s) == {s[i].id : i \in DOMAIN s}

IsChannels(s) ==
  /\ IsSeq(s)
  /\ \A i \in DOMAIN s : "id" \in DOMAIN s[i]
  /\ \A i, j \in DOMAIN s : s[i].id = s[j].id => i = j

LEMMA SeqOfFunction ==
  ASSUME NEW n \in Nat, NEW f, f = [i \in 1..n |-> f[i]]
  PROVE  IsSeq(f) /\ Len(f) = n /\ DOMAIN f = 1..n
<1>1. f \in [1..n -> ToSet(f)]
  BY DEF ToSet
<1>2. f \in Seq(ToSet(f))
  BY <1>1
<1>3. DOMAIN f = 1..n
  OBVIOUS
<1> QED BY <1>2, <1>3 DEF IsSeq

LEMMA SeqIsFunction ==
  ASSUME NEW S, NEW s \in Seq(S)
  PROVE  /\ Len(s) \in Nat /\ DOMAIN s = 1..Len(s)
         /\ s = [i \in 1..Len(s) |-> s[i]]
OBVIOUS

LEMMA SameFunction ==
  ASSUME NEW n \in Nat, NEW f, NEW g, f = [i \in 1..n |-> f[i]], g = [i \in 1..n |-> g[i]],
         \A i \in 1..n : f[i] = g[i]
  PROVE  f = g
OBVIOUS

LEMMA SeqFacts ==
  ASSUME NEW s, IsSeq(s)
  PROVE  /\ Len(s) \in Nat /\ DOMAIN s = 1..Len(s)
         /\ s = [i \in 1..Len(s) |-> s[i]]
BY DEF IsSeq

LEMMA AppendedChannel ==
  ASSUME NEW s, IsChannels(s), NEW c, "id" \in DOMAIN c, c.id \notin IdSet(s)
  PROVE  /\ IsChannels(Append(s, c)) /\ Len(Append(s, c)) = Len(s) + 1
         /\ IdSet(Append(s, c)) = IdSet(s) \cup {c.id}
         /\ \A i \in DOMAIN Append(s, c) :
              (i \in DOMAIN s /\ Append(s, c)[i] = s[i]) \/ Append(s, c)[i] = c
<1> DEFINE t == Append(s, c)
<1>1. Len(s) \in Nat /\ DOMAIN s = 1..Len(s) /\ s \in Seq(ToSet(s) \cup {c})
  <2>1. s \in Seq(ToSet(s))
    BY DEF IsChannels, IsSeq
  <2> HIDE DEF t
  <2> QED BY <2>1
<1>2. /\ t \in Seq(ToSet(s) \cup {c}) /\ Len(t) = Len(s) + 1 /\ t[Len(s) + 1] = c
      /\ \A i \in 1..Len(s) : t[i] = s[i]
  BY <1>1
<1> HIDE DEF t
<1>3. t = [i \in 1..Len(s) + 1 |-> t[i]]
  BY <1>2, SeqIsFunction
<1>0. DOMAIN t = 1..Len(s) + 1
  BY <1>2, SeqIsFunction
<1>4. IsSeq(t)
  BY <1>1, <1>3, SeqOfFunction, Len(s) + 1 \in Nat
<1>5. \A i \in DOMAIN t : (i \in DOMAIN s /\ t[i] = s[i]) \/ (i = Len(s) + 1 /\ t[i] = c)
  BY <1>0, <1>1, <1>2
<1>6. \A i \in DOMAIN s : i \in DOMAIN t /\ t[i] = s[i]
  BY <1>0, <1>1, <1>2
<1>7. Len(s) + 1 \in DOMAIN t /\ t[Len(s) + 1] = c
  BY <1>0, <1>1, <1>2
<1>8. IdSet(t) = IdSet(s) \cup {c.id}
  BY <1>5, <1>6, <1>7 DEF IdSet
<1>9. \A i, j \in DOMAIN t : t[i].id = t[j].id => i = j
  <2> SUFFICES ASSUME NEW i \in DOMAIN t, NEW j \in DOMAIN t, t[i].id = t[j].id
               PROVE  i = j
    OBVIOUS
  <2>1. \A k \in DOMAIN s : s[k].id # c.id
    BY DEF IdSet
  <2> QED BY <1>5, <2>1 DEF IsChannels
<1>10. \A i \in DOMAIN t : "id" \in DOMAIN t[i]
  BY <1>5 DEF IsChannels
<1>11. IsChannels(t)
  BY <1>4, <1>9, <1>10 DEF IsChannels
<1> QED BY <1>2, <1>5, <1>8, <1>11 DEF t

(* What is left when place k goes. *)
LEMMA ChannelGone ==
  ASSUME NEW s, IsChannels(s), NEW k \in DOMAIN s, NEW t,
         t = [i \in 1..Len(s) - 1 |-> IF i < k THEN s[i] ELSE s[i + 1]]
  PROVE  /\ IsChannels(t) /\ Len(t) = Len(s) - 1
         /\ IdSet(t) = IdSet(s) \ {s[k].id}
         /\ \A i \in DOMAIN t : \E j \in DOMAIN s : t[i] = s[j]
<1>1. Len(s) \in Nat /\ DOMAIN s = 1..Len(s)
  BY SeqFacts DEF IsChannels
<1>2. Len(s) - 1 \in Nat
  BY <1>1
<1>3. DOMAIN t = 1..Len(s) - 1 /\ IsSeq(t) /\ Len(t) = Len(s) - 1
  <2>1. t = [i \in 1..Len(s) - 1 |-> t[i]]
    OBVIOUS
  <2> QED BY <1>2, <2>1, SeqOfFunction
<1> DEFINE from(i) == IF i < k THEN i ELSE i + 1
<1>4. \A i \in DOMAIN t : from(i) \in DOMAIN s /\ from(i) # k /\ t[i] = s[from(i)]
  BY <1>1, <1>3
<1>5. \A i, j \in DOMAIN t : from(i) = from(j) => i = j
  BY <1>1, <1>3
<1>6. \A m \in DOMAIN s \ {k} : \E i \in DOMAIN t : from(i) = m
  <2> SUFFICES ASSUME NEW m \in DOMAIN s \ {k} PROVE \E i \in DOMAIN t : from(i) = m
    OBVIOUS
  <2>1. CASE m < k
    <3>1. m \in DOMAIN t
      BY <1>1, <1>3, <2>1
    <3> QED BY <2>1, <3>1
  <2>2. CASE m > k
    <3>1. m - 1 \in DOMAIN t /\ from(m - 1) = m
      BY <1>1, <1>3, <2>2
    <3> QED BY <3>1
  <2> QED BY <1>1, <2>1, <2>2
<1> HIDE DEF from
<1>7. IdSet(t) = IdSet(s) \ {s[k].id}
  <2>1. ASSUME NEW x \in IdSet(t) PROVE x \in IdSet(s) \ {s[k].id}
    <3>1. PICK i \in DOMAIN t : x = t[i].id
      BY DEF IdSet
    <3> QED BY <1>4, <3>1 DEF IdSet, IsChannels
  <2>2. ASSUME NEW x \in IdSet(s) \ {s[k].id} PROVE x \in IdSet(t)
    <3>1. PICK m \in DOMAIN s : x = s[m].id
      BY DEF IdSet
    <3>2. m # k
      BY <3>1
    <3>3. PICK i \in DOMAIN t : from(i) = m
      BY <1>6, <3>2
    <3>4. t[i] = s[m]
      BY <1>4, <3>3
    <3> QED BY <3>1, <3>4 DEF IdSet
  <2> QED BY <2>1, <2>2
<1>8. \A i \in DOMAIN t : "id" \in DOMAIN t[i]
  BY <1>4 DEF IsChannels
<1>9. \A i, j \in DOMAIN t : t[i].id = t[j].id => i = j
  BY <1>4, <1>5 DEF IsChannels
<1>10. IsChannels(t)
  BY <1>3, <1>8, <1>9 DEF IsChannels
<1> QED BY <1>3, <1>4, <1>7, <1>10

LEMMA TailChannels ==
  ASSUME NEW s, IsChannels(s), s # <<>>
  PROVE  /\ IsChannels(Tail(s)) /\ IdSet(Tail(s)) = IdSet(s) \ {Head(s).id}
         /\ Head(s).id \in IdSet(s)
         /\ \A i \in DOMAIN Tail(s) : \E j \in DOMAIN s : Tail(s)[i] = s[j]
<1>1. s \in Seq(ToSet(s)) /\ Len(s) \in Nat /\ DOMAIN s = 1..Len(s)
  BY DEF IsChannels, IsSeq
<1>2. 1 \in DOMAIN s /\ Head(s) = s[1]
  BY <1>1
<1>3. Tail(s) \in Seq(ToSet(s)) /\ Len(Tail(s)) = Len(s) - 1 /\ \A i \in 1..Len(s) - 1 : Tail(s)[i] = s[i + 1]
  BY <1>1, <1>2
<1> DEFINE g == [i \in 1..Len(s) - 1 |-> IF i < 1 THEN s[i] ELSE s[i + 1]]
<1>4. Tail(s) = [i \in 1..Len(s) - 1 |-> Tail(s)[i]]
  BY <1>3, SeqIsFunction
<1>5. Tail(s) = g
  <2>1. Len(s) - 1 \in Nat /\ \A i \in 1..Len(s) - 1 : Tail(s)[i] = g[i]
    <3>1. ~(\E i \in 1..Len(s) - 1 : i < 1)
      BY <1>1
    <3> QED BY <1>1, <1>2, <1>3, <3>1
  <2>2. g = [i \in 1..Len(s) - 1 |-> g[i]]
    OBVIOUS
  <2> QED BY <1>4, <2>1, <2>2, SameFunction
<1>6. s[1].id \in IdSet(s)
  BY <1>2 DEF IdSet
<1>7. /\ IsChannels(Tail(s)) /\ IdSet(Tail(s)) = IdSet(s) \ {s[1].id}
      /\ \A i \in DOMAIN Tail(s) : \E j \in DOMAIN s : Tail(s)[i] = s[j]
  <2> DEFINE r == Tail(s)
             first == 1
  <2>1. first \in DOMAIN s /\ r = [i \in 1..Len(s) - 1 |-> IF i < first THEN s[i] ELSE s[i + 1]]
    BY <1>2, <1>5
  <2> HIDE DEF g, r, first
  <2>2. /\ IsChannels(r) /\ IdSet(r) = IdSet(s) \ {s[first].id}
        /\ \A i \in DOMAIN r : \E j \in DOMAIN s : r[i] = s[j]
    BY <2>1, ChannelGone
  <2> QED BY <2>2 DEF r, first
<1> QED BY <1>2, <1>6, <1>7

LEMMA RemovedChannel ==
  ASSUME NEW s, IsChannels(s), NEW k \in DOMAIN s
  PROVE  /\ IsChannels(RemoveAt(s, k)) /\ Len(RemoveAt(s, k)) = Len(s) - 1
         /\ IdSet(RemoveAt(s, k)) = IdSet(s) \ {s[k].id}
         /\ \A i \in DOMAIN RemoveAt(s, k) : \E j \in DOMAIN s : RemoveAt(s, k)[i] = s[j]
<1>1. s \in Seq(ToSet(s)) /\ Len(s) \in Nat /\ DOMAIN s = 1..Len(s)
  BY DEF IsChannels, IsSeq
<1> DEFINE a == SubSeq(s, 1, k - 1)
           b == SubSeq(s, k + 1, Len(s))
<1>2. a \in Seq(ToSet(s)) /\ Len(a) = k - 1 /\ \A i \in 1..k - 1 : a[i] = s[i]
  BY <1>1
<1>3. b \in Seq(ToSet(s)) /\ Len(b) = Len(s) - k /\ \A i \in 1..Len(s) - k : b[i] = s[k + i]
  BY <1>1
<1> HIDE DEF a, b
<1>4. /\ a \o b \in Seq(ToSet(s)) /\ Len(a \o b) = Len(s) - 1
      /\ \A i \in 1..Len(s) - 1 : (a \o b)[i] = IF i < k THEN s[i] ELSE s[i + 1]
  <2>1. a \o b \in Seq(ToSet(s)) /\ Len(a \o b) = Len(s) - 1
    <3>1. a \in Seq(ToSet(s)) /\ b \in Seq(ToSet(s))
      BY <1>2, <1>3
    <3>2. a \o b \in Seq(ToSet(s)) /\ Len(a \o b) = Len(a) + Len(b)
      BY <3>1
    <3>3. Len(a) + Len(b) = Len(s) - 1
      BY <1>1, <1>2, <1>3
    <3> QED BY <3>2, <3>3
  <2>2. ASSUME NEW i \in 1..Len(s) - 1 PROVE (a \o b)[i] = IF i < k THEN s[i] ELSE s[i + 1]
    <3>1. CASE i < k
      BY <1>1, <1>2, <1>3, <3>1
    <3>2. CASE ~(i < k)
      <4>1. (a \o b)[i] = b[i - (k - 1)]
        BY <1>1, <1>2, <1>3, <3>2
      <4>2. i - (k - 1) \in 1..Len(s) - k /\ k + (i - (k - 1)) = i + 1
        BY <1>1, <3>2
      <4> QED BY <1>3, <3>2, <4>1, <4>2
    <3> QED BY <3>1, <3>2
  <2> QED BY <2>1, <2>2
<1> DEFINE g == [i \in 1..Len(s) - 1 |-> IF i < k THEN s[i] ELSE s[i + 1]]
<1>5. a \o b = g
  <2>1. a \o b = [i \in 1..Len(s) - 1 |-> (a \o b)[i]]
    BY <1>4, SeqIsFunction
  <2>2. g = [i \in 1..Len(s) - 1 |-> g[i]]
    OBVIOUS
  <2>3. Len(s) - 1 \in Nat /\ \A i \in 1..Len(s) - 1 : (a \o b)[i] = g[i]
    BY <1>1, <1>4
  <2> QED BY <2>1, <2>2, <2>3, SameFunction
<1>6. RemoveAt(s, k) = a \o b
  BY DEF RemoveAt, a, b
<1> QED BY <1>5, <1>6, ChannelGone

(* Channels that change, but not their ids. *)
LEMMA RemadeChannels ==
  ASSUME NEW s, IsChannels(s), NEW t, t = [i \in DOMAIN s |-> t[i]],
         \A i \in DOMAIN s : "id" \in DOMAIN t[i] /\ t[i].id = s[i].id
  PROVE  IsChannels(t) /\ IdSet(t) = IdSet(s)
<1>1. Len(s) \in Nat /\ DOMAIN s = 1..Len(s)
  BY SeqFacts DEF IsChannels
<1>2. IsSeq(t) /\ DOMAIN t = DOMAIN s
  BY <1>1, SeqOfFunction
<1>3. IdSet(t) = IdSet(s)
  BY <1>2 DEF IdSet
<1>4. \A i, j \in DOMAIN t : t[i].id = t[j].id => i = j
  BY <1>2 DEF IsChannels
<1> QED BY <1>2, <1>3, <1>4 DEF IsChannels

LEMMA CountedChannels ==
  ASSUME NEW s, IsChannels(s)
  PROVE  IsFiniteSet(IdSet(s)) /\ Cardinality(IdSet(s)) = Len(s)
<1>1. Len(s) \in Nat /\ DOMAIN s = 1..Len(s)
  BY SeqFacts DEF IsChannels
<1> DEFINE f == [i \in 1..Len(s) |-> s[i].id]
<1>3. f \in Bijection(1..Len(s), IdSet(s))
  BY <1>1 DEF Bijection, Injection, Surjection, IsInjective, IdSet, IsChannels
<1>4. ExistsBijection(1..Len(s), IdSet(s))
  BY <1>3 DEF ExistsBijection
<1>5. IsFiniteSet(IdSet(s))
  BY <1>1, <1>4, FS_NatBijection
<1>6. Cardinality(IdSet(s)) = Len(s)
  BY <1>1, <1>4, FS_CountingElements
<1> QED BY <1>5, <1>6

-----------------------------------------------------------------------------
(* What a search hands over                                                *)

(* A set of numbers that is not empty has a smallest one.                  *)
LEMMA SmallestIn ==
  ASSUME NEW S, S \subseteq Nat, S # {}
  PROVE  \E m \in S : \A k \in S : m <= k
<1>1. IsWellFoundedOn(OpToRel(<, Nat), Nat)
  BY NatLessThanWellFounded
<1>2. PICK m \in S : \A k \in S : ~(<<k, m>> \in OpToRel(<, Nat))
  BY <1>1, WFMin, Zenon
<1>3. \A k \in S : ~(k < m)
  BY <1>2 DEF OpToRel
<1>4. m \in Nat /\ \A k \in S : k \in Nat
  BY <1>2
<1>5. \A k \in S : m <= k
  BY <1>3, <1>4
<1> QED BY <1>2, <1>5

(* A set of numbers that has 0, and m + 1 with m, up to n, has all up to n. *)
LEMMA UpTo ==
  ASSUME NEW n \in Nat, NEW G, 0 \in G, \A m \in 0..n - 1 : m \in G => m + 1 \in G
  PROVE  \A m \in 0..n : m \in G
<1> DEFINE Bad == (0..n) \ G
<1> SUFFICES ASSUME Bad # {} PROVE FALSE
  OBVIOUS
<1>1. Bad \subseteq Nat
  OBVIOUS
<1>2. PICK m \in Bad : \A k \in Bad : m <= k
  BY <1>1, SmallestIn, Zenon
<1>3. m # 0 /\ m \in 0..n /\ m \notin G
  BY <1>2
<1>4. m - 1 \in 0..n - 1 /\ m - 1 + 1 = m /\ m - 1 \in 0..n /\ ~(m <= m - 1)
  BY <1>3
<1>5. m - 1 \in G
  BY <1>2, <1>4
<1> QED BY <1>3, <1>4, <1>5

Allotted(cs, id, i) == [NewChannel(id + i - 1, cs[i]) EXCEPT !.programs = cs[i].programs]

RecordStep(cs, id, g, i) ==
  IF i = 0 THEN NewDvb ELSE WithFound(g[i - 1], Allotted(cs, id, i))

IsRecordUpTo(cs, id, g, n) == g = [i \in 0..n |-> RecordStep(cs, id, g, i)]

(* The recursive function Recorded is defined by exists,                   *)
LEMMA RecordExists ==
  ASSUME NEW cs, Len(cs) \in Nat, NEW id
  PROVE  \E g : IsRecordUpTo(cs, id, g, Len(cs))
<1> DEFINE Has(m) == \E g : IsRecordUpTo(cs, id, g, m)
           G == {m \in Nat : Has(m)}
<1> HIDE DEF Has
<1>1. Has(0)
  <2> DEFINE g == [n \in 0..0 |-> NewDvb]
  <2>1. g = [n \in 0..0 |-> RecordStep(cs, id, g, n)]
    BY DEF RecordStep
  <2> HIDE DEF g
  <2> QED BY <2>1 DEF Has, IsRecordUpTo
<1>2. ASSUME NEW m \in Nat, Has(m) PROVE Has(m + 1)
  <2>1. PICK g : g = [n \in 0..m |-> RecordStep(cs, id, g, n)]
    BY <1>2 DEF Has, IsRecordUpTo
  <2> DEFINE h == [n \in 0..m + 1 |-> RecordStep(cs, id, g, n)]
  <2>2. ASSUME NEW n \in 0..m + 1 PROVE RecordStep(cs, id, g, n) = RecordStep(cs, id, h, n)
    <3>1. CASE n = 0
      BY <3>1 DEF RecordStep
    <3>2. CASE n # 0
      <4>1. n - 1 \in 0..m /\ n - 1 \in 0..m + 1
        BY <3>2
      <4>2. h[n - 1] = g[n - 1]
        BY <4>1, <2>1
      <4> QED BY <3>2, <4>2 DEF RecordStep
    <3> QED BY <3>1, <3>2
  <2>3. h = [n \in 0..m + 1 |-> RecordStep(cs, id, h, n)]
    BY <2>2
  <2> HIDE DEF h
  <2> QED BY <2>3 DEF Has, IsRecordUpTo
<1>3. Has(Len(cs))
  <2>1. 0 \in G /\ \A m \in 0..Len(cs) - 1 : m \in G => m + 1 \in G
    BY <1>1, <1>2
  <2> HIDE DEF G
  <2>2. Len(cs) \in G
    BY <2>1, UpTo, Len(cs) \in 0..Len(cs)
  <2> QED BY <2>2 DEF G
<1> QED BY <1>3 DEF Has

(* so that Recorded is its last value.                                     *)
LEMMA RecordUpTo ==
  ASSUME NEW cs, Len(cs) \in Nat, NEW id
  PROVE  \E g : IsRecordUpTo(cs, id, g, Len(cs)) /\ Recorded(cs, id) = g[Len(cs)]
<1> DEFINE g == CHOOSE g : IsRecordUpTo(cs, id, g, Len(cs))
<1>1. IsRecordUpTo(cs, id, g, Len(cs))
  BY RecordExists, Zenon
<1>2. Recorded(cs, id) = g[Len(cs)]
  BY DEF Recorded, IsRecordUpTo, RecordStep, Allotted
<1> HIDE DEF g
<1> QED BY <1>1, <1>2

IsDvb(list) == DOMAIN list = {"channels", "user_number"} /\ IsChannels(list.channels)

(* The names of the programs of a list are in unicode.                     *)
IsNamed(c) ==
  /\ "programs" \in DOMAIN c
  /\ \A j \in DOMAIN c.programs :
       /\ {"provider", "service"} \subseteq DOMAIN c.programs[j]
       /\ c.programs[j].provider \in Seq(Nat) /\ c.programs[j].service \in Seq(Nat)
AllNamed(list) == \A i \in DOMAIN list.channels : IsNamed(list.channels[i])

LEMMA NumberedChannel ==
  ASSUME NEW c, NEW n, "id" \in DOMAIN c
  PROVE  /\ "id" \in DOMAIN Numbered(c, n) /\ Numbered(c, n).id = c.id
         /\ IsNamed(c) => IsNamed(Numbered(c, n))
<1>1. "id" \in DOMAIN Numbered(c, n) /\ Numbered(c, n).id = c.id
  BY DEF Numbered
<1>2. ASSUME IsNamed(c) PROVE IsNamed(Numbered(c, n))
  <2> DEFINE d == Numbered(c, n)
             p == c.programs
             q == [j \in DOMAIN p |-> [p[j] EXCEPT !.user_number = n + j - 1]]
  <2>1. "programs" \in DOMAIN d /\ d.programs = q
    BY <1>2 DEF Numbered, IsNamed
  <2>2. DOMAIN q = DOMAIN p
    OBVIOUS
  <2>3. ASSUME NEW j \in DOMAIN p
        PROVE  /\ {"provider", "service"} \subseteq DOMAIN q[j]
               /\ q[j].provider \in Seq(Nat) /\ q[j].service \in Seq(Nat)
    <3>1. /\ {"provider", "service"} \subseteq DOMAIN p[j]
          /\ p[j].provider \in Seq(Nat) /\ p[j].service \in Seq(Nat)
      BY <1>2 DEF IsNamed
    <3>2. /\ DOMAIN q[j] = DOMAIN p[j]
          /\ q[j].provider = p[j].provider /\ q[j].service = p[j].service
      BY <3>1
    <3> QED BY <3>1, <3>2
  <2> HIDE DEF q
  <2> QED BY <2>1, <2>2, <2>3 DEF IsNamed
<1> QED BY <1>1, <1>2

(* Every channel of a search is new, and no name is lost.                  *)
LEMMA RecordedChannels ==
  ASSUME NEW n \in Nat, NEW cs \in [1..n -> Air], NEW id \in Nat
  PROVE  /\ IsDvb(Recorded(cs, id)) /\ AllNamed(Recorded(cs, id))
         /\ Len(cs) = n
         /\ Ids(Recorded(cs, id)) \subseteq id..id + n - 1
<1>1. Len(cs) = n
  BY SeqDef
<1>2. PICK g : IsRecordUpTo(cs, id, g, n) /\ Recorded(cs, id) = g[n]
  BY <1>1, RecordUpTo
<1> DEFINE Good(m) == /\ IsDvb(g[m]) /\ AllNamed(g[m])
                      /\ Ids(g[m]) \subseteq id..id + m - 1
           G == {m \in Nat : Good(m)}
<1>3. Good(0)
  <2>1. g[0] = NewDvb
    BY <1>2 DEF IsRecordUpTo, RecordStep
  <2>2. IsChannels(<<>>)
    BY DEF IsChannels, IsSeq
  <2> QED BY <2>1, <2>2 DEF NewDvb, IsDvb, AllNamed, Ids
<1>4. ASSUME NEW m \in 0..n - 1, Good(m) PROVE Good(m + 1)
  <2> DEFINE c == Allotted(cs, id, m + 1)
             d == Numbered(c, g[m].user_number)
  <2>1. g[m + 1] = WithFound(g[m], c)
    <3>1. m + 1 \in 0..n /\ m + 1 # 0 /\ m + 1 - 1 = m
      OBVIOUS
    <3> QED BY <1>2, <3>1 DEF IsRecordUpTo, RecordStep
  <2>2. "id" \in DOMAIN c /\ c.id = id + m /\ "programs" \in DOMAIN c /\ c.programs = cs[m + 1].programs
    <3>1. id + (m + 1) - 1 = id + m
      OBVIOUS
    <3> QED BY <3>1 DEF Allotted, NewChannel
  <2>3. IsNamed(c)
    <3>1. m + 1 \in 1..n /\ cs[m + 1] \in Air
      OBVIOUS
    <3> HIDE DEF c
    <3>2. cs[m + 1].programs \in Seq(FoundProgram)
      BY <3>1, InfoDvbAssumption
    <3>3. \A j \in DOMAIN c.programs : c.programs[j] \in FoundProgram
      BY <2>2, <3>2
    <3> QED BY <2>2, <3>3 DEF IsNamed, FoundProgram
  <2> HIDE DEF c
  <2>4. "id" \in DOMAIN d /\ d.id = id + m /\ IsNamed(d)
    BY <2>2, <2>3, NumberedChannel
  <2> HIDE DEF d
  <2>5. /\ DOMAIN g[m + 1] = {"channels", "user_number"}
        /\ g[m + 1].channels = Append(g[m].channels, d)
    BY <1>4, <2>1 DEF WithFound, Counted, WithChannel, IsDvb, d
  <2>6. d.id \notin IdSet(g[m].channels)
    <3>1. id + m \notin id..id + m - 1
      OBVIOUS
    <3>2. IdSet(g[m].channels) = Ids(g[m])
      BY DEF Ids, IdSet
    <3> QED BY <1>4, <2>4, <3>1, <3>2
  <2>7. /\ IsChannels(g[m + 1].channels)
        /\ IdSet(g[m + 1].channels) = IdSet(g[m].channels) \cup {d.id}
        /\ \A i \in DOMAIN g[m + 1].channels :
             \/ i \in DOMAIN g[m].channels /\ g[m + 1].channels[i] = g[m].channels[i]
             \/ g[m + 1].channels[i] = d
    BY <1>4, <2>4, <2>5, <2>6, AppendedChannel DEF IsDvb
  <2>8. AllNamed(g[m + 1])
    BY <1>4, <2>4, <2>7 DEF AllNamed
  <2>9. Ids(g[m + 1]) \subseteq id..id + (m + 1) - 1
    BY <1>4, <2>4, <2>7 DEF Ids, IdSet
  <2> QED BY <2>5, <2>7, <2>8, <2>9 DEF IsDvb
<1>5. Good(n)
  <2> HIDE DEF Good
  <2>1. 0 \in G /\ \A m \in 0..n - 1 : m \in G => m + 1 \in G
    BY <1>3, <1>4
  <2> HIDE DEF G
  <2>2. n \in G
    BY <2>1, UpTo, n \in 0..n
  <2> QED BY <2>2 DEF G
<1> QED BY <1>1, <1>2, <1>5

-----------------------------------------------------------------------------
(* The invariant                                                           *)

OwnedOnceInv ==
  /\ next_id \in Nat
  /\ IsDvb(dvb) /\ IsDvb(found)
  /\ AllNamed(found)
  /\ Ids(dvb) \cap Ids(found) = {}
  /\ \A id \in Ids(dvb) \cup Ids(found) : id \in Nat /\ id < next_id
  /\ live = Ids(dvb) \cup Ids(found)

LEMMA NewDvbIs ==
  IsDvb(NewDvb) /\ AllNamed(NewDvb) /\ Ids(NewDvb) = {}
<1>1. IsChannels(<<>>)
  BY DEF IsChannels, IsSeq
<1> QED BY <1>1 DEF NewDvb, IsDvb, AllNamed, Ids

LEMMA IdsAre ==
  ASSUME NEW list
  PROVE  Ids(list) = IdSet(list.channels)
BY DEF Ids, IdSet

LEMMA InitOwned == Init => OwnedOnceInv
BY NewDvbIs DEF Init, OwnedOnceInv

LEMMA SearchedOwned ==
  ASSUME OwnedOnceInv, NEW k \in 1..MaxFound, NEW cs \in [1..k -> Air], Searched(cs)
  PROVE  OwnedOnceInv'
<1>1. k \in Nat
  BY InfoDvbAssumption
<1>2. /\ IsDvb(found') /\ AllNamed(found') /\ Len(cs) = k
      /\ Ids(found') \subseteq next_id..next_id + k - 1
  BY <1>1, RecordedChannels DEF Searched, OwnedOnceInv
<1>3. next_id' = next_id + k /\ live' = live \cup Ids(found') /\ dvb' = dvb /\ Ids(found) = {}
  BY <1>2, NewDvbIs DEF Searched
<1>4. \A id \in Ids(dvb) : id \in Nat /\ id < next_id
  BY DEF OwnedOnceInv
<1>5. \A id \in Ids(found') : id \in Nat /\ next_id <= id /\ id < next_id + k
  BY <1>1, <1>2 DEF OwnedOnceInv
<1>6. Ids(dvb) \cap Ids(found') = {}
  BY <1>4, <1>5 DEF OwnedOnceInv
<1>7. live = Ids(dvb)
  BY <1>3 DEF OwnedOnceInv
<1>8. \A id \in Ids(dvb) \cup Ids(found') : id \in Nat /\ id < next_id + k
  BY <1>1, <1>4, <1>5 DEF OwnedOnceInv
<1>9. Ids(found)' = Ids(found') /\ Ids(dvb)' = Ids(dvb)
  BY <1>3 DEF Ids
<1> QED BY <1>1, <1>2, <1>3, <1>6, <1>7, <1>8, <1>9 DEF OwnedOnceInv, IsDvb, AllNamed

LEMMA MergeOwned ==
  ASSUME OwnedOnceInv, Merge
  PROVE  OwnedOnceInv'
<1> DEFINE c    == Head(found.channels)
           gone == Replaced(dvb, c)
           left == Without(dvb.channels, gone)
           d    == Renumbered(c, dvb.user_number)
<1>1. IsDvb(dvb) /\ IsDvb(found) /\ IsChannels(dvb.channels) /\ IsChannels(found.channels)
  BY DEF OwnedOnceInv, IsDvb
<1>2. /\ live' = live \ Freed(dvb, gone)
      /\ DOMAIN dvb' = {"channels", "user_number"} /\ dvb'.channels = Append(left, d)
      /\ DOMAIN found' = {"channels", "user_number"} /\ found'.channels = Tail(found.channels)
      /\ next_id' = next_id
  BY <1>1 DEF Merge, IsDvb, Counted, WithChannel
<1>3. /\ IsChannels(found'.channels) /\ Ids(found') = Ids(found) \ {c.id} /\ c.id \in Ids(found)
      /\ \A i \in DOMAIN found'.channels : \E j \in DOMAIN found.channels :
           found'.channels[i] = found.channels[j]
  BY <1>1, <1>2, TailChannels, IdsAre DEF Merge
<1>4. AllNamed(found')
  BY <1>3 DEF AllNamed, OwnedOnceInv
<1>5. "id" \in DOMAIN c
  <2>1. \A i \in DOMAIN found.channels : "id" \in DOMAIN found.channels[i]
    BY <1>1 DEF IsChannels
  <2>2. 1 \in DOMAIN found.channels /\ c = found.channels[1]
    <3>1. found.channels # <<>> /\ found.channels \in Seq(ToSet(found.channels))
      BY <1>1 DEF Merge, IsChannels, IsSeq
    <3> QED BY <3>1
  <2> QED BY <2>1, <2>2
<1>6. "id" \in DOMAIN d /\ d.id = c.id
  BY <1>5, NumberedChannel DEF Renumbered
<1>7. IsChannels(left) /\ IdSet(left) = Ids(dvb) \ Freed(dvb, gone) /\ Freed(dvb, gone) \subseteq Ids(dvb)
  <2>1. CASE gone = {}
    BY <1>1, <2>1, IdsAre DEF Without, Freed
  <2>2. CASE gone # {}
    <3> DEFINE i == CHOOSE i \in gone : TRUE
    <3>1. i \in gone /\ \A k \in gone : k = i
      <4>1. i \in gone
        BY <2>2
      <4>2. gone \subseteq DOMAIN dvb.channels /\ \A a, b \in gone : a <= b
        BY DEF Replaced, OfNumber
      <4>3. DOMAIN dvb.channels = 1..Len(dvb.channels) /\ Len(dvb.channels) \in Nat
        BY <1>1, SeqFacts DEF IsChannels
      <4> HIDE DEF i, gone
      <4>4. \A a, b \in gone : a = b
        BY <4>2, <4>3
      <4> QED BY <4>1, <4>4
    <3>2. i \in DOMAIN dvb.channels
      BY <3>1 DEF Replaced, OfNumber
    <3>3. left = RemoveAt(dvb.channels, i)
      BY <2>2 DEF Without
    <3>4. Freed(dvb, gone) = {dvb.channels[i].id}
      <4> HIDE DEF i, gone
      <4> QED BY <3>1 DEF Freed
    <3>5. dvb.channels[i].id \in Ids(dvb)
      BY <3>2 DEF Ids
    <3> HIDE DEF i, gone, left
    <3> QED BY <1>1, <3>2, <3>3, <3>4, <3>5, RemovedChannel, IdsAre
  <2> QED BY <2>1, <2>2
<1> HIDE DEF c, gone, left, d
<1>8. d.id \notin IdSet(left)
  BY <1>3, <1>6, <1>7 DEF OwnedOnceInv
<1>9. IsChannels(dvb'.channels) /\ Ids(dvb') = (Ids(dvb) \ Freed(dvb, gone)) \cup {c.id}
  <2>1. IsChannels(Append(left, d)) /\ IdSet(Append(left, d)) = IdSet(left) \cup {d.id}
    BY <1>6, <1>7, <1>8, AppendedChannel
  <2>2. Ids(dvb') = IdSet(dvb'.channels)
    BY IdsAre
  <2> QED BY <1>2, <1>6, <1>7, <2>1, <2>2
<1>10. IsDvb(dvb') /\ IsDvb(found')
  BY <1>2, <1>3, <1>9 DEF IsDvb
<1>11. Ids(dvb') \cap Ids(found') = {}
  BY <1>3, <1>9 DEF OwnedOnceInv
<1>12. live' = Ids(dvb') \cup Ids(found')
  BY <1>2, <1>3, <1>7, <1>9 DEF OwnedOnceInv
<1>13. \A id \in Ids(dvb') \cup Ids(found') : id \in Nat /\ id < next_id'
  BY <1>2, <1>3, <1>9 DEF OwnedOnceInv
<1>14. next_id' \in Nat
  BY <1>2 DEF OwnedOnceInv
<1> QED BY <1>4, <1>10, <1>11, <1>12, <1>13, <1>14 DEF OwnedOnceInv, IsDvb, AllNamed, Ids

LEMMA MoveChannelOwned ==
  ASSUME OwnedOnceInv, NEW from, NEW to, MoveChannel(from, to)
  PROVE  OwnedOnceInv'
<1> DEFINE s == dvb.channels
<1>1. PICK at : dvb' = [dvb EXCEPT !.channels = Moved(s, at, from, to)]
  BY DEF MoveChannel
<1>2. IsDvb(dvb) /\ IsChannels(s)
  BY DEF OwnedOnceInv, IsDvb
<1>3. DOMAIN dvb' = {"channels", "user_number"}
  BY <1>1, <1>2 DEF IsDvb
<1>4. dvb'.channels = Moved(s, at, from, to)
  BY <1>1, <1>2 DEF IsDvb
<1>5. dvb'.channels = [i \in DOMAIN s |-> dvb'.channels[i]]
  BY <1>4 DEF Moved
<1>6. \A i \in DOMAIN s : "id" \in DOMAIN dvb'.channels[i] /\ dvb'.channels[i].id = s[i].id
  <2> SUFFICES ASSUME NEW i \in DOMAIN s
               PROVE  "id" \in DOMAIN dvb'.channels[i] /\ dvb'.channels[i].id = s[i].id
    OBVIOUS
  <2>1. "id" \in DOMAIN s[i]
    BY <1>2 DEF IsChannels
  <2>2. \E q : dvb'.channels[i] = [s[i] EXCEPT !.programs = q]
    BY <1>4 DEF Moved
  <2> QED BY <2>1, <2>2
<1>7. IsChannels(dvb'.channels) /\ IdSet(dvb'.channels) = IdSet(s)
  BY <1>2, <1>5, <1>6, RemadeChannels
<1>8. IsDvb(dvb') /\ Ids(dvb') = Ids(dvb)
  BY <1>3, <1>7, IdsAre DEF IsDvb
<1>9. found' = found /\ next_id' = next_id /\ live' = live
  BY DEF MoveChannel
<1> QED BY <1>8, <1>9 DEF OwnedOnceInv, IsDvb, AllNamed, Ids

LEMMA LoadLineOwned ==
  ASSUME OwnedOnceInv, LoadLine
  PROVE  OwnedOnceInv'
<1> DEFINE line == Head(todo)
           s == dvb.channels
           n == Len(s)
<1>1. IsDvb(dvb) /\ IsChannels(s)
  BY DEF OwnedOnceInv, IsDvb
<1>2. /\ DOMAIN dvb' = {"channels", "user_number"}
      /\ dvb'.channels = WithLine(s, line, next_id)
      /\ found' = found
  BY DEF LoadLine
<1>3. CASE line.kind = "channel"
  <2> DEFINE c == NewChannel(next_id, [line EXCEPT !.p = Parsed(line)])
  <2>1. dvb'.channels = Append(s, c)
    BY <1>2, <1>3 DEF WithLine
  <2>2. "id" \in DOMAIN c /\ c.id = next_id
    BY DEF NewChannel
  <2> HIDE DEF c
  <2>3. c.id \notin IdSet(s)
    BY <2>2, IdsAre DEF OwnedOnceInv
  <2>4. IsChannels(dvb'.channels) /\ Ids(dvb') = Ids(dvb) \cup {next_id}
    <3>1. IsChannels(Append(s, c)) /\ IdSet(Append(s, c)) = IdSet(s) \cup {c.id}
      BY <1>1, <2>2, <2>3, AppendedChannel
    <3>2. Ids(dvb') = IdSet(dvb'.channels) /\ Ids(dvb) = IdSet(s)
      BY IdsAre
    <3> QED BY <2>1, <2>2, <3>1, <3>2
  <2>5. live' = live \cup {next_id} /\ next_id' = next_id + 1
    BY <1>3 DEF LoadLine
  <2>6. IsDvb(dvb')
    BY <1>2, <2>4 DEF IsDvb
  <2>7. next_id \in Nat /\ next_id \notin Ids(found)
    BY DEF OwnedOnceInv
  <2>8. \A id \in Ids(dvb') \cup Ids(found) : id \in Nat /\ id < next_id + 1
    BY <2>4 DEF OwnedOnceInv
  <2>9. Ids(dvb)' = Ids(dvb') /\ Ids(found)' = Ids(found) /\ AllNamed(found)' /\ IsDvb(found)' /\ IsDvb(dvb)'
    BY <1>2, <2>6 DEF OwnedOnceInv, IsDvb, AllNamed, Ids
  <2>10. next_id' \in Nat
    BY <2>5, <2>7
  <2>11. live' = Ids(dvb') \cup Ids(found)
    BY <2>4, <2>5 DEF OwnedOnceInv
  <2>12. Ids(dvb') \cap Ids(found) = {}
    BY <2>4, <2>7 DEF OwnedOnceInv
  <2> QED BY <2>5, <2>8, <2>9, <2>10, <2>11, <2>12 DEF OwnedOnceInv
<1>4. CASE line.kind # "channel"
  <2>1. \E f : dvb'.channels = [s EXCEPT ![n] = [s[n] EXCEPT !.programs = f]]
    <3>1. CASE line.kind = "program"
      BY <1>2, <3>1 DEF WithLine, InLast, WithProgram
    <3>2. CASE line.kind # "program"
      BY <1>2, <1>4, <3>2 DEF WithLine, InLast
    <3> QED BY <3>1, <3>2
  <2>2. PICK f : dvb'.channels = [s EXCEPT ![n] = [s[n] EXCEPT !.programs = f]]
    BY <2>1
  <2>3. dvb'.channels = [i \in DOMAIN s |-> dvb'.channels[i]]
    BY <2>2
  <2>4. \A i \in DOMAIN s : "id" \in DOMAIN dvb'.channels[i] /\ dvb'.channels[i].id = s[i].id
    BY <1>1, <2>2 DEF IsChannels
  <2>5. IsChannels(dvb'.channels) /\ IdSet(dvb'.channels) = IdSet(s)
    BY <1>1, <2>3, <2>4, RemadeChannels
  <2>6. IsDvb(dvb') /\ Ids(dvb') = Ids(dvb)
    BY <1>2, <2>5, IdsAre DEF IsDvb
  <2>7. live' = live /\ next_id' = next_id
    BY <1>4 DEF LoadLine
  <2> QED BY <1>2, <2>6, <2>7 DEF OwnedOnceInv, IsDvb, AllNamed, Ids
<1> QED BY <1>3, <1>4

LEMMA NextOwned == OwnedOnceInv /\ [Next]_vars => OwnedOnceInv'
<1> SUFFICES ASSUME OwnedOnceInv, [Next]_vars PROVE OwnedOnceInv'
  OBVIOUS
<1>1. CASE \E k \in 1..MaxFound : \E cs \in [1..k -> Air] : IsInjective(cs) /\ Searched(cs)
  BY <1>1, SearchedOwned
<1>2. CASE FreeFound
  <2>1. found' = NewDvb /\ dvb' = dvb /\ next_id' = next_id /\ live' = live \ Ids(found)
    BY <1>2 DEF FreeFound
  <2>2. IsDvb(found') /\ AllNamed(found') /\ Ids(found') = {}
    BY <2>1, NewDvbIs
  <2>3. live' = Ids(dvb)
    BY <2>1 DEF OwnedOnceInv
  <2> QED BY <2>1, <2>2, <2>3 DEF OwnedOnceInv, IsDvb, AllNamed, Ids
<1>3. CASE MergeStart
  BY <1>3 DEF MergeStart, OwnedOnceInv, IsDvb, AllNamed, Ids
<1>4. CASE Merge
  BY <1>4, MergeOwned
<1>5. CASE MergeEnd
  <2>1. found' = NewDvb /\ dvb' = dvb /\ next_id' = next_id /\ live' = live
    BY <1>5 DEF MergeEnd
  <2>2. IsDvb(found') /\ AllNamed(found') /\ Ids(found') = {}
    BY <2>1, NewDvbIs
  <2>3. Ids(found) = {}
    BY <1>5 DEF MergeEnd, Ids
  <2> QED BY <2>1, <2>2, <2>3 DEF OwnedOnceInv, IsDvb, AllNamed, Ids
<1>6. CASE \E from, to \in 1..MaxNumber : MoveChannel(from, to)
  BY <1>6, MoveChannelOwned
<1>7. CASE \E list \in {dvb, found} : SaveStart(list)
  BY <1>7 DEF SaveStart, OwnedOnceInv, IsDvb, AllNamed, Ids
<1>8. CASE SaveLine
  BY <1>8 DEF SaveLine, OwnedOnceInv, IsDvb, AllNamed, Ids
<1>9. CASE LoadStart
  BY <1>9 DEF LoadStart, OwnedOnceInv, IsDvb, AllNamed, Ids
<1>10. CASE LoadLine
  BY <1>10, LoadLineOwned
<1>11. CASE FileEnd
  BY <1>11 DEF FileEnd, OwnedOnceInv, IsDvb, AllNamed, Ids
<1>12. CASE Restart
  <2>1. found' = NewDvb /\ dvb' = NewDvb /\ next_id' = next_id /\ live' = {}
    BY <1>12 DEF Restart
  <2>2. /\ IsDvb(found') /\ AllNamed(found') /\ Ids(found') = {}
        /\ IsDvb(dvb') /\ Ids(dvb') = {}
    BY <2>1, NewDvbIs
  <2> QED BY <2>1, <2>2 DEF OwnedOnceInv, IsDvb, AllNamed, Ids
<1>13. CASE UNCHANGED vars
  BY <1>13 DEF vars, OwnedOnceInv, IsDvb, AllNamed, Ids
<1> QED
  BY <1>1, <1>2, <1>3, <1>4, <1>5, <1>6, <1>7, <1>8, <1>9, <1>10, <1>11, <1>12, <1>13 DEF Next

(* The invariant that the theorems follow from.                             *)
LEMMA InfoDvbInvariant == Spec => []OwnedOnceInv
<1>1. Init => OwnedOnceInv
  BY InitOwned
<1>2. OwnedOnceInv /\ [Next]_vars => OwnedOnceInv'
  BY NextOwned
<1> QED BY <1>1, <1>2, PTL DEF Spec

(* Every channel allocated is in the list of the client or in that of the  *)
(* last search, once, and no channel of a list was freed, whatever is      *)
(* merged, loaded or freed, and wherever the program ends.                 *)
THEOREM OwnedOnceCorrect == Spec => []OwnedOnce
<1>1. OwnedOnceInv => OwnedOnce
  <2> SUFFICES ASSUME OwnedOnceInv PROVE OwnedOnce
    OBVIOUS
  <2>1. /\ IsFiniteSet(Ids(dvb)) /\ Cardinality(Ids(dvb)) = Len(dvb.channels)
        /\ IsFiniteSet(Ids(found)) /\ Cardinality(Ids(found)) = Len(found.channels)
    BY CountedChannels, IdsAre DEF OwnedOnceInv, IsDvb
  <2>2. Ids(dvb) \cap Ids(found) = {} /\ live = Ids(dvb) \cup Ids(found)
    BY DEF OwnedOnceInv
  <2>3. Cardinality(Ids(dvb) \cup Ids(found))
          = Cardinality(Ids(dvb)) + Cardinality(Ids(found)) - Cardinality(Ids(dvb) \cap Ids(found))
    BY <2>1, FS_Union
  <2>4. Cardinality(Ids(dvb) \cap Ids(found)) = 0
    BY <2>2, FS_EmptySet
  <2>5. Cardinality(Ids(dvb)) \in Nat /\ Cardinality(Ids(found)) \in Nat
    BY <2>1, FS_CardinalityType
  <2>6. Cardinality(live) = Len(dvb.channels) + Len(found.channels)
    BY <2>1, <2>2, <2>3, <2>4, <2>5
  <2> QED BY <2>2, <2>6 DEF OwnedOnce
<1> QED BY <1>1, InfoDvbInvariant, PTL

-----------------------------------------------------------------------------
(* The bytes of a name                                                     *)

LEMMA Utf8Fits ==
  ASSUME NEW u \in Nat
  PROVE  /\ Utf8(u) \in Seq(Int) /\ Len(Utf8(u)) = Utf8Size(u) /\ Utf8Size(u) \in Nat
<1>1. CASE u <= \h7f
  BY <1>1 DEF Utf8, Utf8Size
<1>2. CASE u > \h7f /\ u <= \h7ff
  BY <1>2 DEF Utf8, Utf8Size
<1>3. CASE u > \h7ff /\ u <= \hffff
  BY <1>3 DEF Utf8, Utf8Size
<1>4. CASE u > \hffff /\ u <= \h10ffff
  BY <1>4 DEF Utf8, Utf8Size
<1>5. CASE u > \h10ffff
  BY <1>5 DEF Utf8, Utf8Size
<1> QED BY <1>1, <1>2, <1>3, <1>4, <1>5

SizeStep(text, g, i) == IF i = 0 THEN 1 ELSE g[i - 1] + Utf8Size(text[i])

IsSizeUpTo(text, g, n) == g = [i \in 0..n |-> SizeStep(text, g, i)]

LEMMA SizeExists ==
  ASSUME NEW text, Len(text) \in Nat
  PROVE  \E g : IsSizeUpTo(text, g, Len(text))
<1> DEFINE Has(m) == \E g : IsSizeUpTo(text, g, m)
           G == {m \in Nat : Has(m)}
<1> HIDE DEF Has
<1>1. Has(0)
  <2> DEFINE g == [n \in 0..0 |-> 1]
  <2>1. g = [n \in 0..0 |-> SizeStep(text, g, n)]
    BY DEF SizeStep
  <2> HIDE DEF g
  <2> QED BY <2>1 DEF Has, IsSizeUpTo
<1>2. ASSUME NEW m \in Nat, Has(m) PROVE Has(m + 1)
  <2>1. PICK g : g = [n \in 0..m |-> SizeStep(text, g, n)]
    BY <1>2 DEF Has, IsSizeUpTo
  <2> DEFINE h == [n \in 0..m + 1 |-> SizeStep(text, g, n)]
  <2>2. ASSUME NEW n \in 0..m + 1 PROVE SizeStep(text, g, n) = SizeStep(text, h, n)
    <3>1. CASE n = 0
      BY <3>1 DEF SizeStep
    <3>2. CASE n # 0
      <4>1. n - 1 \in 0..m /\ n - 1 \in 0..m + 1
        BY <3>2
      <4>2. h[n - 1] = g[n - 1]
        BY <4>1, <2>1
      <4> QED BY <3>2, <4>2 DEF SizeStep
    <3> QED BY <3>1, <3>2
  <2>3. h = [n \in 0..m + 1 |-> SizeStep(text, h, n)]
    BY <2>2
  <2> HIDE DEF h
  <2> QED BY <2>3 DEF Has, IsSizeUpTo
<1>3. Has(Len(text))
  <2>1. 0 \in G /\ \A m \in 0..Len(text) - 1 : m \in G => m + 1 \in G
    BY <1>1, <1>2
  <2> HIDE DEF G
  <2>2. Len(text) \in G
    BY <2>1, UpTo, Len(text) \in 0..Len(text)
  <2> QED BY <2>2 DEF G
<1> QED BY <1>3 DEF Has

LEMMA SizeUpTo ==
  ASSUME NEW text, Len(text) \in Nat
  PROVE  \E g : IsSizeUpTo(text, g, Len(text)) /\ Allocated(text) = g[Len(text)]
<1> DEFINE g == CHOOSE g : IsSizeUpTo(text, g, Len(text))
<1>1. IsSizeUpTo(text, g, Len(text))
  BY SizeExists, Zenon
<1>2. Allocated(text) = g[Len(text)]
  BY DEF Allocated, IsSizeUpTo, SizeStep
<1> HIDE DEF g
<1> QED BY <1>1, <1>2

JoinStep(ss, g, i) == IF i = 1 THEN ss[i] ELSE g[i - 1] \o ss[i]

IsJoinUpTo(ss, g, n) == g = [i \in 1..n |-> JoinStep(ss, g, i)]

LEMMA JoinExists ==
  ASSUME NEW ss, Len(ss) \in Nat, Len(ss) # 0
  PROVE  \E g : IsJoinUpTo(ss, g, Len(ss))
<1> DEFINE Has(m) == \E g : IsJoinUpTo(ss, g, m + 1)
           G == {m \in Nat : Has(m)}
<1> HIDE DEF Has
<1>1. Has(0)
  <2> DEFINE g == [n \in 1..0 + 1 |-> ss[1]]
  <2>1. g = [n \in 1..0 + 1 |-> JoinStep(ss, g, n)]
    BY DEF JoinStep
  <2> HIDE DEF g
  <2> QED BY <2>1 DEF Has, IsJoinUpTo
<1>2. ASSUME NEW m \in Nat, Has(m) PROVE Has(m + 1)
  <2>1. PICK g : g = [n \in 1..m + 1 |-> JoinStep(ss, g, n)]
    BY <1>2 DEF Has, IsJoinUpTo
  <2> DEFINE h == [n \in 1..(m + 1) + 1 |-> JoinStep(ss, g, n)]
  <2>2. ASSUME NEW n \in 1..(m + 1) + 1 PROVE JoinStep(ss, g, n) = JoinStep(ss, h, n)
    <3>1. CASE n = 1
      BY <3>1 DEF JoinStep
    <3>2. CASE n # 1
      <4>1. n - 1 \in 1..m + 1 /\ n - 1 \in 1..(m + 1) + 1
        BY <3>2
      <4>2. h[n - 1] = g[n - 1]
        BY <4>1, <2>1
      <4> QED BY <3>2, <4>2 DEF JoinStep
    <3> QED BY <3>1, <3>2
  <2>3. h = [n \in 1..(m + 1) + 1 |-> JoinStep(ss, h, n)]
    BY <2>2
  <2> HIDE DEF h
  <2> QED BY <2>3 DEF Has, IsJoinUpTo
<1>3. Has(Len(ss) - 1)
  <2>1. 0 \in G /\ \A m \in 0..(Len(ss) - 1) - 1 : m \in G => m + 1 \in G
    BY <1>1, <1>2
  <2>2. Len(ss) - 1 \in Nat /\ Len(ss) - 1 \in 0..Len(ss) - 1
    OBVIOUS
  <2> HIDE DEF G
  <2>3. Len(ss) - 1 \in G
    BY <2>1, <2>2, UpTo
  <2> QED BY <2>3 DEF G
<1>4. Len(ss) - 1 + 1 = Len(ss)
  OBVIOUS
<1> QED BY <1>3, <1>4 DEF Has

LEMMA JoinUpTo ==
  ASSUME NEW ss, Len(ss) \in Nat, Len(ss) # 0
  PROVE  \E g : IsJoinUpTo(ss, g, Len(ss)) /\ FlattenSeq(ss) = g[Len(ss)]
<1> DEFINE g == CHOOSE g : IsJoinUpTo(ss, g, Len(ss))
<1>1. IsJoinUpTo(ss, g, Len(ss))
  BY JoinExists, Zenon
<1>2. FlattenSeq(ss) = g[Len(ss)]
  BY DEF FlattenSeq, IsJoinUpTo, JoinStep
<1> HIDE DEF g
<1> QED BY <1>1, <1>2

(* What is written is as long as what was allocated.                       *)
LEMMA WrittenFits ==
  ASSUME NEW text \in Seq(Nat)
  PROVE  Len(Written(text)) = Allocated(text)
<1> DEFINE n == Len(text)
           ss == [i \in DOMAIN text |-> Utf8(text[i])]
<1>1. n \in Nat /\ DOMAIN text = 1..n /\ \A i \in 1..n : text[i] \in Nat
  OBVIOUS
<1>2. Len(ss) = n /\ \A i \in 1..n : ss[i] = Utf8(text[i])
  <2>1. ss = [i \in 1..n |-> ss[i]]
    BY <1>1
  <2>2. Len(ss) = n
    BY <1>1, <2>1, SeqOfFunction
  <2> QED BY <1>1, <2>2
<1>3. Written(text) = FlattenSeq(ss) \o <<0>>
  BY DEF Written
<1>4. PICK a : IsSizeUpTo(text, a, n) /\ Allocated(text) = a[n]
  BY <1>1, SizeUpTo
<1>5. a[0] = 1 /\ \A i \in 1..n : a[i] = a[i - 1] + Utf8Size(text[i])
  <2>1. \A i \in 0..n : a[i] = SizeStep(text, a, i)
    BY <1>4 DEF IsSizeUpTo
  <2>2. 0 \in 0..n /\ \A i \in 1..n : i \in 0..n /\ i # 0
    BY <1>1
  <2> QED BY <2>1, <2>2 DEF SizeStep
<1>6. CASE n = 0
  <2>1. ss = <<>>
    BY <1>1, <1>6
  <2>2. FlattenSeq(ss) = <<>>
    BY <1>2, <1>6, <2>1 DEF FlattenSeq
  <2> QED BY <1>3, <1>4, <1>5, <1>6, <2>2
<1>7. CASE n # 0
  <2> HIDE DEF ss
  <2>1. PICK g : IsJoinUpTo(ss, g, n) /\ FlattenSeq(ss) = g[n]
    BY <1>1, <1>2, <1>7, JoinUpTo
  <2>2. \A i \in 1..n : g[i] = IF i = 1 THEN ss[i] ELSE g[i - 1] \o ss[i]
    BY <2>1 DEF IsJoinUpTo, JoinStep
  <2>3. \A i \in 1..n : ss[i] \in Seq(Int) /\ Len(ss[i]) = Utf8Size(text[i]) /\ Utf8Size(text[i]) \in Nat
    BY <1>1, <1>2, Utf8Fits
  <2> DEFINE Good(m) == m > 0 => g[m] \in Seq(Int) /\ Len(g[m]) + 1 = a[m]
             G == {m \in Nat : Good(m)}
  <2>4. ASSUME NEW m \in 0..n - 1, Good(m) PROVE Good(m + 1)
    <3>1. m + 1 \in 1..n /\ m + 1 - 1 = m
      BY <1>1
    <3>2. CASE m = 0
      <4>1. g[1] = ss[1] /\ a[1] = 1 + Utf8Size(text[1])
        BY <1>5, <2>2, <3>1, <3>2
      <4>2. ss[1] \in Seq(Int) /\ Len(ss[1]) = Utf8Size(text[1]) /\ Utf8Size(text[1]) \in Nat
        BY <2>3, <3>1, <3>2
      <4>3. g[1] \in Seq(Int) /\ Len(g[1]) + 1 = a[1]
        BY <4>1, <4>2
      <4> QED BY <3>2, <4>3
    <3>3. CASE m > 0
      <4>1. g[m + 1] = g[m] \o ss[m + 1] /\ a[m + 1] = a[m] + Utf8Size(text[m + 1])
        <5>1. m + 1 # 1
          BY <3>3
        <5>2. g[m + 1] = g[(m + 1) - 1] \o ss[m + 1]
          BY <2>2, <3>1, <5>1
        <5>3. a[m + 1] = a[(m + 1) - 1] + Utf8Size(text[m + 1])
          BY <1>5, <3>1
        <5> QED BY <3>1, <5>2, <5>3
      <4>2. /\ ss[m + 1] \in Seq(Int) /\ Len(ss[m + 1]) = Utf8Size(text[m + 1])
            /\ Utf8Size(text[m + 1]) \in Nat
        BY <2>3, <3>1
      <4>3. g[m] \in Seq(Int) /\ Len(g[m]) + 1 = a[m]
        BY <2>4, <3>3
      <4>4. g[m + 1] \in Seq(Int) /\ Len(g[m + 1]) = Len(g[m]) + Len(ss[m + 1])
        <5>1. ASSUME NEW x \in Seq(Int), NEW y \in Seq(Int)
              PROVE  x \o y \in Seq(Int) /\ Len(x \o y) = Len(x) + Len(y)
          OBVIOUS
        <5>2. g[m] \o ss[m + 1] \in Seq(Int) /\ Len(g[m] \o ss[m + 1]) = Len(g[m]) + Len(ss[m + 1])
          BY <4>2, <4>3, <5>1
        <5> QED BY <4>1, <5>2
      <4>5. Len(g[m]) \in Nat
        BY <4>3
      <4> QED BY <4>1, <4>2, <4>3, <4>4, <4>5
    <3> QED BY <3>2, <3>3
  <2>5. Good(n)
    <3> HIDE DEF Good
    <3>1. 0 \in G /\ \A m \in 0..n - 1 : m \in G => m + 1 \in G
      BY <1>1, <2>4 DEF Good
    <3> HIDE DEF G
    <3>2. n \in G
      BY <1>1, <3>1, UpTo, n \in 0..n
    <3> QED BY <3>2 DEF G
  <2>6. g[n] \in Seq(Int) /\ Len(g[n]) + 1 = a[n]
    BY <1>1, <1>7, <2>5
  <2>7. Len(g[n] \o <<0>>) = Len(g[n]) + 1
    BY <2>6
  <2> QED BY <1>3, <1>4, <2>1, <2>6, <2>7
<1> QED BY <1>6, <1>7

(* The buffer that _unicode_to_utf8 allocates for a name of a channel just *)
(* found is as long as the bytes it then writes there, for every text.     *)
THEOREM NamesFitCorrect == Spec => []NamesFit
<1>1. OwnedOnceInv => NamesFit
  <2> SUFFICES ASSUME OwnedOnceInv, NEW at \in Places(found),
                      NEW name \in {Program(found, at).provider, Program(found, at).service}
               PROVE  Len(Written(name)) = Allocated(name)
    BY DEF NamesFit
  <2>0. PICK i \in DOMAIN found.channels : at \in {<<i, j>> : j \in DOMAIN found.channels[i].programs}
    BY DEF Places
  <2>1. PICK j \in DOMAIN found.channels[i].programs : at = <<i, j>>
    BY <2>0
  <2>2. Program(found, at) = found.channels[i].programs[j]
    BY <2>1 DEF Program
  <2>3. IsNamed(found.channels[i])
    BY DEF OwnedOnceInv, AllNamed
  <2>4. name \in Seq(Nat)
    BY <2>2, <2>3 DEF IsNamed
  <2> QED BY <2>4, WrittenFits
<1> QED BY <1>1, InfoDvbInvariant, PTL

-----------------------------------------------------------------------------
(* Lists of lists                                                          *)

(* Sequences are joined from the left or from the right.                   *)
LEMMA JoinedTwice ==
  ASSUME NEW S, NEW x \in Seq(S), NEW y \in Seq(S), NEW z \in Seq(S)
  PROVE  (x \o y) \o z = x \o (y \o z) /\ y \o z \in Seq(S)
<1> DEFINE a == (x \o y) \o z
           b == x \o (y \o z)
<1>1. /\ x \o y \in Seq(S) /\ Len(x \o y) = Len(x) + Len(y)
      /\ y \o z \in Seq(S) /\ Len(y \o z) = Len(y) + Len(z)
  BY ConcatProperties
<1>2. a \in Seq(S) /\ b \in Seq(S) /\ Len(a) = Len(b) /\ Len(a) = Len(x) + Len(y) + Len(z)
  BY <1>1, ConcatProperties
<1>3. \A i \in 1..Len(a) : a[i] = b[i]
  BY <1>1, <1>2
<1> HIDE DEF a, b
<1>4. a = b
  BY <1>2, <1>3, SeqEqual
<1> QED BY <1>1, <1>4 DEF a, b

LEMMA FlattenIsSeq ==
  ASSUME NEW S, NEW ss \in Seq(Seq(S))
  PROVE  FlattenSeq(ss) \in Seq(S)
<1> DEFINE n == Len(ss)
<1>1. n \in Nat /\ \A i \in 1..n : ss[i] \in Seq(S)
  OBVIOUS
<1>2. CASE n = 0
  <2>1. ss = <<>>
    BY <1>2
  <2> QED BY <1>2, <2>1 DEF FlattenSeq
<1>3. CASE n # 0
  <2>1. PICK g : IsJoinUpTo(ss, g, n) /\ FlattenSeq(ss) = g[n]
    BY <1>1, <1>3, JoinUpTo
  <2>2. \A i \in 1..n : g[i] = JoinStep(ss, g, i)
    BY <2>1 DEF IsJoinUpTo
  <2> HIDE DEF n
  <2> DEFINE G == {m \in 0..n - 1 : g[m + 1] \in Seq(S)}
  <2>3. 0 \in G
    <3>1. 1 \in 1..n /\ 0 \in 0..n - 1 /\ 0 + 1 = 1
      BY <1>1, <1>3
    <3> QED BY <1>1, <2>2, <3>1 DEF JoinStep
  <2>4. ASSUME NEW m \in 0..n - 1 - 1, m \in G PROVE m + 1 \in G
    <3> DEFINE i == m + 1 + 1
    <3>1. i \in 1..n /\ i # 1 /\ i - 1 = m + 1 /\ m + 1 \in 0..n - 1
      BY <1>1
    <3>2. g[i] = g[m + 1] \o ss[i] /\ ss[i] \in Seq(S)
      BY <1>1, <2>2, <3>1 DEF JoinStep
    <3>3. g[m + 1] \in Seq(S)
      BY <2>4
    <3>4. g[i] \in Seq(S)
      BY <3>2, <3>3
    <3> QED BY <3>1, <3>4
  <2>5. n - 1 \in Nat /\ n - 1 \in 0..n - 1 /\ n - 1 + 1 = n
    BY <1>1, <1>3
  <2>6. n - 1 \in G
    <3> HIDE DEF G
    <3> QED BY <2>3, <2>4, <2>5, UpTo
  <2> QED BY <2>1, <2>5, <2>6
<1> QED BY <1>2, <1>3

(* The first list comes before what the others make.                       *)
LEMMA FlattenCons ==
  ASSUME NEW S, NEW n \in Nat, NEW f \in Seq(Seq(S)), NEW r \in Seq(Seq(S)),
         Len(f) = n + 1, Len(r) = n, \A k \in 1..n : r[k] = f[k + 1]
  PROVE  FlattenSeq(f) = f[1] \o FlattenSeq(r)
<1>1. \A k \in 1..n + 1 : f[k] \in Seq(S)
  OBVIOUS
<1>2. PICK h : IsJoinUpTo(f, h, n + 1) /\ FlattenSeq(f) = h[n + 1]
  <2>1. Len(f) \in Nat /\ Len(f) # 0
    OBVIOUS
  <2> QED BY <2>1, JoinUpTo
<1>3. \A k \in 1..n + 1 : h[k] = JoinStep(f, h, k)
  BY <1>2 DEF IsJoinUpTo
<1>4. h[1] = f[1]
  BY <1>3, 1 \in 1..n + 1 DEF JoinStep
<1>5. CASE n = 0
  <2>1. r = <<>>
    BY <1>5
  <2>2. FlattenSeq(r) = <<>>
    BY <1>5, <2>1 DEF FlattenSeq
  <2>3. f[1] \o <<>> = f[1]
    BY <1>1, 1 \in 1..n + 1
  <2> QED BY <1>2, <1>4, <1>5, <2>2, <2>3
<1>6. CASE n # 0
  <2>1. PICK g : IsJoinUpTo(r, g, n) /\ FlattenSeq(r) = g[n]
    BY <1>6, JoinUpTo
  <2>2. \A k \in 1..n : g[k] = JoinStep(r, g, k)
    BY <2>1 DEF IsJoinUpTo
  <2> DEFINE G == {m \in 0..n - 1 : g[m + 1] \in Seq(S) /\ h[m + 1 + 1] = f[1] \o g[m + 1]}
  <2>3. 0 \in G
    <3>1. 1 \in 1..n /\ 2 \in 1..n + 1 /\ 0 \in 0..n - 1 /\ 0 + 1 = 1 /\ 0 + 1 + 1 = 2 /\ 2 - 1 = 1 /\ 1 + 1 = 2
      BY <1>6
    <3>2. g[1] = r[1] /\ r[1] = f[2]
      BY <2>2, <3>1 DEF JoinStep
    <3>3. h[2] = h[1] \o f[2]
      <4>1. h[2] = IF 2 = 1 THEN f[2] ELSE h[2 - 1] \o f[2]
        BY <1>3, <3>1 DEF JoinStep
      <4> QED BY <3>1, <4>1
    <3>4. g[1] \in Seq(S) /\ h[2] = f[1] \o g[1]
      BY <1>1, <1>4, <3>1, <3>2, <3>3
    <3> QED BY <3>1, <3>4
  <2>4. ASSUME NEW m \in 0..n - 1 - 1, m \in G PROVE m + 1 \in G
    <3> DEFINE i == m + 1 + 1
               k == i + 1
    <3>1. /\ i \in 1..n /\ i # 1 /\ i - 1 = m + 1 /\ m + 1 \in 0..n - 1
          /\ k \in 1..n + 1 /\ k # 1 /\ k - 1 = i
      OBVIOUS
    <3>2. g[m + 1] \in Seq(S) /\ h[i] = f[1] \o g[m + 1]
      BY <2>4
    <3> HIDE DEF i, k
    <3>3. g[i] = g[m + 1] \o r[i] /\ r[i] = f[k] /\ f[k] \in Seq(S)
      BY <1>1, <2>2, <3>1 DEF JoinStep, k
    <3>4. h[k] = h[i] \o f[k]
      BY <1>3, <3>1 DEF JoinStep
    <3>5. f[1] \in Seq(S)
      BY <1>1, 1 \in 1..n + 1
    <3>7. g[i] \in Seq(S) /\ h[k] = f[1] \o g[i]
      <4>1. h[k] = (f[1] \o g[m + 1]) \o f[k] /\ g[i] = g[m + 1] \o f[k]
        BY <3>2, <3>3, <3>4
      <4>2. g[m + 1] \in Seq(S) /\ f[k] \in Seq(S)
        BY <3>2, <3>3
      <4>3. (f[1] \o g[m + 1]) \o f[k] = f[1] \o (g[m + 1] \o f[k]) /\ g[m + 1] \o f[k] \in Seq(S)
        BY <3>5, <4>2, JoinedTwice
      <4> QED BY <4>1, <4>3, Zenon
    <3> QED BY <3>1, <3>7 DEF i, k
  <2>5. n - 1 \in Nat /\ n - 1 \in 0..n - 1 /\ n - 1 + 1 = n
    BY <1>6
  <2>6. n - 1 \in G
    <3> HIDE DEF G
    <3> QED BY <2>3, <2>4, <2>5, UpTo
  <2>7. h[n - 1 + 1 + 1] = f[1] \o g[n - 1 + 1]
    BY <2>6
  <2> QED BY <1>2, <2>1, <2>5, <2>7
<1> QED BY <1>5, <1>6

-----------------------------------------------------------------------------
(* Names, from unicode to UTF-8 and back                                   *)

Byte == 0..255

(* What a character is written into are bytes;                             *)
LEMMA Utf8Bytes ==
  ASSUME NEW u \in Nat
  PROVE  Utf8(u) \in Seq(Byte)
<1>1. CASE u <= \h7f
  <2>1. u \in Byte
    BY <1>1 DEF Byte
  <2> QED BY <1>1, <2>1 DEF Utf8
<1>2. CASE u > \h7f /\ u <= \h7ff
  <2>1. \hc0 + u \div 64 \in Byte /\ \h80 + (u % 64) \in Byte
    BY <1>2 DEF Byte
  <2>2. Utf8(u) = <<\hc0 + u \div 64, \h80 + (u % 64)>>
    BY <1>2 DEF Utf8
  <2> QED BY <2>1, <2>2
<1>3. CASE u > \h7ff /\ u <= \hffff
  <2>1. /\ \he0 + u \div 4096 \in Byte /\ \h80 + ((u \div 64) % 64) \in Byte
        /\ \h80 + (u % 64) \in Byte
    BY <1>3 DEF Byte
  <2>2. Utf8(u) = <<\he0 + u \div 4096, \h80 + ((u \div 64) % 64), \h80 + (u % 64)>>
    BY <1>3 DEF Utf8
  <2> QED BY <2>1, <2>2
<1>4. CASE u > \hffff /\ u <= \h10ffff
  <2>1. /\ \hf0 + u \div 262144 \in Byte /\ \h80 + ((u \div 4096) % 64) \in Byte
        /\ \h80 + ((u \div 64) % 64) \in Byte /\ \h80 + (u % 64) \in Byte
    BY <1>4 DEF Byte
  <2>2. Utf8(u) = <<\hf0 + u \div 262144, \h80 + ((u \div 4096) % 64),
                    \h80 + ((u \div 64) % 64), \h80 + (u % 64)>>
    BY <1>4 DEF Utf8
  <2> QED BY <2>1, <2>2
<1>5. CASE u > \h10ffff
  <2>1. Utf8(u) = <<\hef, \hbf, \hbd>>
    BY <1>5 DEF Utf8
  <2> QED BY <2>1 DEF Byte
<1> QED BY <1>1, <1>2, <1>3, <1>4, <1>5

(* The bytes of a name end with a 0.                                       *)
(* those of a name end with a 0.                                           *)
LEMMA WrittenBytes ==
  ASSUME NEW text \in Seq(Nat)
  PROVE  /\ Written(text) \in Seq(Byte) /\ Len(Written(text)) \in Nat
         /\ Len(Written(text)) \in DOMAIN Written(text)
         /\ Written(text)[Len(Written(text))] = 0
<1> DEFINE ss == [i \in DOMAIN text |-> Utf8(text[i])]
           x == FlattenSeq(ss)
<1>1. ss \in Seq(Seq(Byte))
  <2>1. DOMAIN text = 1..Len(text) /\ Len(text) \in Nat /\ \A i \in DOMAIN text : text[i] \in Nat
    OBVIOUS
  <2>2. \A i \in DOMAIN text : Utf8(text[i]) \in Seq(Byte)
    BY <2>1, Utf8Bytes
  <2> QED BY <2>1, <2>2
<1> HIDE DEF ss
<1>2. x \in Seq(Byte)
  BY <1>1, FlattenIsSeq
<1>3. Written(text) = x \o <<0>>
  BY DEF Written, ss
<1> HIDE DEF x
<1>4. <<0>> \in Seq(Byte)
  BY DEF Byte
<1>5. Len(x) \in Nat /\ Len(<<0>>) = 1
  BY <1>2
<1>6. x \o <<0>> \in Seq(Byte) /\ Len(x \o <<0>>) = Len(x) + 1
  BY <1>2, <1>4, <1>5, ConcatProperties
<1>7. (x \o <<0>>)[Len(x) + 1] = 0
  BY <1>2, <1>5
<1> QED BY <1>3, <1>5, <1>6, <1>7

IsEnd(bytes, n) == n \in DOMAIN bytes /\ bytes[n] = 0 /\ \A m \in 1..n - 1 : bytes[m] # 0

(* What is read back are the bytes before the first 0.                     *)
LEMMA ToUtf8Is ==
  ASSUME NEW text \in Seq(Nat)
  PROVE  \E n : IsEnd(Written(text), n) /\ ToUtf8(text) = SubSeq(Written(text), 1, n - 1)
<1> DEFINE bytes == Written(text)
           Zeros == {n \in DOMAIN bytes : bytes[n] = 0}
<1>1. bytes \in Seq(Byte) /\ Len(bytes) \in Nat /\ Len(bytes) \in Zeros
  BY WrittenBytes
<1>2. DOMAIN bytes = 1..Len(bytes)
  BY <1>1
<1>3. PICK n \in Zeros : \A k \in Zeros : n <= k
  <2>1. Zeros \subseteq Nat /\ Zeros # {}
    BY <1>1, <1>2
  <2> HIDE DEF Zeros
  <2> QED BY <2>1, SmallestIn
<1>4. IsEnd(bytes, n)
  BY <1>2, <1>3 DEF IsEnd
<1> DEFINE end == CHOOSE k \in DOMAIN bytes : bytes[k] = 0 /\ \A m \in 1..k - 1 : bytes[m] # 0
<1>5. IsEnd(bytes, end)
  BY <1>4 DEF IsEnd
<1>6. ToUtf8(text) = SubSeq(bytes, 1, end - 1)
  BY DEF ToUtf8
<1> HIDE DEF bytes, end
<1> QED BY <1>5, <1>6 DEF bytes

LEMMA ToUtf8Bytes ==
  ASSUME NEW text \in Seq(Nat)
  PROVE  ToUtf8(text) \in Seq(Byte)
<1>1. PICK n : IsEnd(Written(text), n) /\ ToUtf8(text) = SubSeq(Written(text), 1, n - 1)
  BY ToUtf8Is
<1>2. Written(text) \in Seq(Byte) /\ Len(Written(text)) \in Nat
  BY WrittenBytes
<1>3. n \in Nat /\ \A i \in 1..n - 1 : Written(text)[i] \in Byte
  BY <1>1, <1>2 DEF IsEnd
<1> QED BY <1>1, <1>3, SubSeqProperties

TextStep(buf, page, g, i) ==
  IF i = 0 THEN <<>>
  ELSE IF Printable(buf[i]) THEN Append(g[i - 1], Page(page, buf[i]))
  ELSE g[i - 1]

IsTextUpTo(buf, page, g, n) == g = [i \in 0..n |-> TextStep(buf, page, g, i)]

(* The recursive function TextCreate is defined by exists,                 *)
LEMMA TextExists ==
  ASSUME NEW buf, Len(buf) \in Nat, NEW page
  PROVE  \E g : IsTextUpTo(buf, page, g, Len(buf))
<1> DEFINE Has(m) == \E g : IsTextUpTo(buf, page, g, m)
           G == {m \in Nat : Has(m)}
<1> HIDE DEF Has
<1>1. Has(0)
  <2> DEFINE g == [n \in 0..0 |-> <<>>]
  <2>1. g = [n \in 0..0 |-> TextStep(buf, page, g, n)]
    BY DEF TextStep
  <2> HIDE DEF g
  <2> QED BY <2>1 DEF Has, IsTextUpTo
<1>2. ASSUME NEW m \in Nat, Has(m) PROVE Has(m + 1)
  <2>1. PICK g : g = [n \in 0..m |-> TextStep(buf, page, g, n)]
    BY <1>2 DEF Has, IsTextUpTo
  <2> DEFINE h == [n \in 0..m + 1 |-> TextStep(buf, page, g, n)]
  <2>2. ASSUME NEW n \in 0..m + 1 PROVE TextStep(buf, page, g, n) = TextStep(buf, page, h, n)
    <3>1. CASE n = 0
      BY <3>1 DEF TextStep
    <3>2. CASE n # 0
      <4>1. n - 1 \in 0..m /\ n - 1 \in 0..m + 1
        BY <3>2
      <4>2. h[n - 1] = g[n - 1]
        BY <4>1, <2>1
      <4> QED BY <3>2, <4>2 DEF TextStep
    <3> QED BY <3>1, <3>2
  <2>3. h = [n \in 0..m + 1 |-> TextStep(buf, page, h, n)]
    BY <2>2
  <2> HIDE DEF h
  <2> QED BY <2>3 DEF Has, IsTextUpTo
<1>3. Has(Len(buf))
  <2>1. 0 \in G /\ \A m \in 0..Len(buf) - 1 : m \in G => m + 1 \in G
    BY <1>1, <1>2
  <2> HIDE DEF G
  <2>2. Len(buf) \in G
    BY <2>1, UpTo, Len(buf) \in 0..Len(buf)
  <2> QED BY <2>2 DEF G
<1> QED BY <1>3 DEF Has

PageOf(buf) == IF buf # <<>> /\ buf[1] < 32 THEN buf[1] ELSE 0

(* and TextCreate is its last value.                                       *)
LEMMA TextUpTo ==
  ASSUME NEW buf, Len(buf) \in Nat
  PROVE  \E g : /\ IsTextUpTo(buf, PageOf(buf), g, Len(buf))
                /\ TextCreate(buf) = IF PageOf(buf) > 5 THEN <<>> ELSE g[Len(buf)]
<1> DEFINE g == CHOOSE g : IsTextUpTo(buf, PageOf(buf), g, Len(buf))
<1>1. IsTextUpTo(buf, PageOf(buf), g, Len(buf))
  BY TextExists, Zenon
<1>2. TextCreate(buf) = IF PageOf(buf) > 5 THEN <<>> ELSE g[Len(buf)]
  BY DEF TextCreate, IsTextUpTo, TextStep, PageOf
<1> HIDE DEF g
<1> QED BY <1>1, <1>2

LEMMA LatinIs ==
  ASSUME NEW i \in 1..96
  PROVE  Latin[i] \in Nat
BY DEF Latin

LEMMA PageIs ==
  ASSUME NEW page \in 0..5, NEW b \in Byte, Printable(b)
  PROVE  Page(page, b) \in Nat /\ (b \in 32..126 => Page(page, b) = b)
<1>1. b \in Nat /\ b <= 255
  BY DEF Byte
<1>2. CASE b < 127
  BY <1>1, <1>2 DEF Page
<1>3. CASE b = 127
  BY <1>3 DEF Page
<1>4. CASE b >= 160 /\ page < 5
  <2>1. b - 159 \in 1..96
    BY <1>1, <1>4
  <2>2. Page(page, b) = Latin[b - 159]
    BY <1>1, <1>4 DEF Page
  <2> QED BY <1>4, <2>1, <2>2, LatinIs
<1>5. CASE b >= 160 /\ page = 5
  <2>1. Page(page, b) = IF b \in DOMAIN Turkish THEN Turkish[b] ELSE b
    BY <1>1, <1>5 DEF Page
  <2>2. b \in DOMAIN Turkish => Turkish[b] \in Nat
    BY DEF Turkish
  <2> QED BY <1>1, <1>5, <2>1, <2>2
<1> QED BY <1>1, <1>2, <1>3, <1>4, <1>5 DEF Printable

(* A name that was read is a text, whatever its bytes.                     *)
LEMMA TextCreateIs ==
  ASSUME NEW buf \in Seq(Byte)
  PROVE  TextCreate(buf) \in Seq(Nat)
<1> DEFINE page == PageOf(buf)
<1>1. Len(buf) \in Nat /\ \A i \in 1..Len(buf) : buf[i] \in Byte
  OBVIOUS
<1>2. PICK g : /\ IsTextUpTo(buf, page, g, Len(buf))
               /\ TextCreate(buf) = IF page > 5 THEN <<>> ELSE g[Len(buf)]
  BY <1>1, TextUpTo
<1>3. CASE page > 5
  BY <1>2, <1>3
<1>4. CASE ~(page > 5)
  <2>1. page \in 0..5
    <3>1. buf # <<>> => buf[1] \in Nat
      <4>1. buf # <<>> => 1 \in 1..Len(buf)
        BY EmptySeq
      <4>2. \A b \in Byte : b \in Nat
        BY DEF Byte
      <4> QED BY <1>1, <4>1, <4>2
    <3>2. page = 0 \/ (buf # <<>> /\ page = buf[1])
      BY DEF PageOf
    <3> HIDE DEF page
    <3> QED BY <1>4, <3>1, <3>2
  <2> HIDE DEF page
  <2>2. \A i \in 0..Len(buf) : g[i] = TextStep(buf, page, g, i)
    BY <1>2 DEF IsTextUpTo
  <2> DEFINE G == {m \in Nat : g[m] \in Seq(Nat)}
  <2>3. 0 \in G
    <3>1. g[0] = TextStep(buf, page, g, 0)
      BY <1>1, <2>2
    <3>2. g[0] = <<>>
      BY <3>1 DEF TextStep
    <3>3. <<>> \in Seq(Nat) /\ 0 \in Nat
      BY EmptySeq
    <3> QED BY <3>2, <3>3
  <2>4. ASSUME NEW m \in 0..Len(buf) - 1, m \in G PROVE m + 1 \in G
    <3> DEFINE i == m + 1
    <3>1. i \in 0..Len(buf) /\ i # 0 /\ i - 1 = m /\ i \in Nat /\ i \in 1..Len(buf)
      BY <1>1
    <3> HIDE DEF i
    <3>2. g[m] \in Seq(Nat)
      BY <2>4
    <3>3. g[i] = IF Printable(buf[i]) THEN Append(g[m], Page(page, buf[i])) ELSE g[m]
      BY <2>2, <3>1 DEF TextStep
    <3>4. Printable(buf[i]) => Page(page, buf[i]) \in Nat
      BY <1>1, <2>1, <3>1, PageIs
    <3>5. g[i] \in Seq(Nat)
      BY <3>2, <3>3, <3>4
    <3> QED BY <3>1, <3>5 DEF i
  <2>5. Len(buf) \in G
    <3> HIDE DEF G
    <3> QED BY <1>1, <2>3, <2>4, UpTo, Len(buf) \in 0..Len(buf)
  <2> QED BY <1>2, <1>4, <2>5
<1> QED BY <1>3, <1>4

(* A name of ASCII characters comes back as it was.                        *)
LEMMA AsciiIs ==
  ASSUME NEW x \in 32..126
  PROVE  /\ x \in Nat /\ x \in Byte /\ Printable(x) /\ x # 0 /\ ~(x < 32)
         /\ Utf8(x) = <<x>> /\ Page(0, x) = x
<1>1. x \in Nat /\ x <= 126 /\ x >= 32
  OBVIOUS
<1>2. x \in Byte /\ Printable(x)
  BY <1>1 DEF Byte, Printable
<1>3. Utf8(x) = <<x>>
  BY <1>1 DEF Utf8
<1> QED BY <1>1, <1>2, <1>3, PageIs, 0 \in 0..5

(* A name in ASCII is written as it is,                                    *)
LEMMA AsciiWritten ==
  ASSUME NEW text \in Seq(Nat), Ascii(text)
  PROVE  ToUtf8(text) = text
<1> DEFINE n == Len(text)
           ss == [i \in DOMAIN text |-> Utf8(text[i])]
<1>1. n \in Nat /\ DOMAIN text = 1..n /\ \A i \in 1..n : text[i] \in 32..126
  <2>1. n \in Nat /\ DOMAIN text = 1..n
    BY LenProperties
  <2>2. \A i \in DOMAIN text : text[i] \in 32..126
    BY DEF Ascii
  <2> QED BY <2>1, <2>2
<1>2. ss \in Seq(Seq(Nat)) /\ Len(ss) = n /\ \A i \in 1..n : ss[i] = <<text[i]>>
  <2>1. \A i \in 1..n : Utf8(text[i]) = <<text[i]>>
    BY <1>1, AsciiIs
  <2>2. \A i \in 1..n : <<text[i]>> \in Seq(Nat)
    OBVIOUS
  <2>3. ss = [i \in 1..n |-> Utf8(text[i])]
    BY <1>1
  <2> HIDE DEF ss
  <2>4. ss \in [1..n -> Seq(Nat)]
    BY <2>1, <2>2, <2>3
  <2>5. ss \in Seq(Seq(Nat)) /\ Len(ss) = n
    BY <1>1, <2>4
  <2>6. \A i \in 1..n : ss[i] = <<text[i]>>
    BY <2>1, <2>3
  <2> QED BY <2>5, <2>6
<1> HIDE DEF ss
<1>3. FlattenSeq(ss) = text
  <2>1. CASE n = 0
    <3>1. ss = <<>> /\ text = <<>>
      BY <1>2, <2>1
    <3> QED BY <3>1, <1>2, <2>1 DEF FlattenSeq
  <2>2. CASE n # 0
    <3>1. PICK g : IsJoinUpTo(ss, g, n) /\ FlattenSeq(ss) = g[n]
      BY <1>1, <1>2, <2>2, JoinUpTo
    <3>2. \A i \in 1..n : g[i] = JoinStep(ss, g, i)
      BY <3>1 DEF IsJoinUpTo
    <3> DEFINE Good(m) == g[m + 1] \in Seq(Nat) /\ Len(g[m + 1]) = m + 1 /\ \A i \in 1..m + 1 : g[m + 1][i] = text[i]
               G == {m \in 0..n - 1 : Good(m)}
    <3>3. 0 \in G
      <4>1. 1 \in 1..n /\ 0 \in 0..n - 1 /\ 0 + 1 = 1
        BY <1>1, <2>2
      <4>2. g[1] = <<text[1]>>
        BY <1>2, <3>2, <4>1 DEF JoinStep
      <4>3. text[1] \in Nat
        BY <1>1, <4>1
      <4>4. g[1] \in Seq(Nat) /\ Len(g[1]) = 1 /\ \A i \in 1..1 : g[1][i] = text[i]
        BY <4>2, <4>3
      <4> QED BY <4>1, <4>4
    <3>4. ASSUME NEW m \in 0..n - 1 - 1, m \in G PROVE m + 1 \in G
      <4> DEFINE i == m + 1 + 1
      <4>1. i \in 1..n /\ i # 1 /\ i - 1 = m + 1 /\ m + 1 \in 0..n - 1 /\ m + 1 \in Nat
        BY <1>1
      <4>2. g[i] = g[m + 1] \o <<text[i]>>
        BY <1>2, <3>2, <4>1 DEF JoinStep
      <4>3. g[m + 1] \in Seq(Nat) /\ Len(g[m + 1]) = m + 1 /\ \A k \in 1..m + 1 : g[m + 1][k] = text[k]
        BY <3>4
      <4>4. text[i] \in Nat /\ <<text[i]>> \in Seq(Nat) /\ Len(<<text[i]>>) = 1 /\ <<text[i]>>[1] = text[i]
        BY <1>1, <4>1
      <4>5. g[i] \in Seq(Nat) /\ Len(g[i]) = i
        BY <4>1, <4>2, <4>3, <4>4, ConcatProperties
      <4>6. ASSUME NEW k \in 1..i PROVE g[i][k] = text[k]
        <5>1. g[i][k] = IF k <= m + 1 THEN g[m + 1][k] ELSE <<text[i]>>[k - (m + 1)]
          BY <4>1, <4>2, <4>3, <4>4, ConcatProperties
        <5>2. CASE k <= m + 1
          <6>1. k \in 1..m + 1
            BY <4>1, <5>2
          <6> HIDE DEF i, G
          <6> QED BY <4>3, <5>1, <5>2, <6>1
        <5>3. CASE ~(k <= m + 1)
          <6>1. k = i /\ k - (m + 1) = 1
            BY <4>1, <5>3
          <6> QED BY <4>4, <5>1, <5>3, <6>1
        <5> QED BY <5>2, <5>3
      <4> QED BY <4>1, <4>5, <4>6
    <3>5. n - 1 \in Nat /\ n - 1 \in 0..n - 1 /\ n - 1 + 1 = n
      BY <1>1, <2>2
    <3>6. n - 1 \in G
      <4> HIDE DEF G
      <4> QED BY <3>3, <3>4, <3>5, UpTo
    <3>7. g[n] \in Seq(Nat) /\ Len(g[n]) = n /\ \A i \in 1..n : g[n][i] = text[i]
      BY <3>5, <3>6
    <3>8. g[n] = text
      BY <3>7, SeqEqual
    <3> QED BY <3>1, <3>8
  <2> QED BY <2>1, <2>2
<1> DEFINE bytes == Written(text)
<1>4. bytes = text \o <<0>>
  BY <1>3 DEF Written, ss
<1>5. /\ bytes \in Seq(Nat) /\ Len(bytes) = n + 1 /\ bytes[n + 1] = 0
      /\ \A i \in 1..n : bytes[i] = text[i]
  <2>1. <<0>> \in Seq(Nat) /\ Len(<<0>>) = 1 /\ <<0>>[1] = 0
    OBVIOUS
  <2>2. /\ bytes \in Seq(Nat) /\ Len(bytes) = n + 1
        /\ \A i \in 1..n + 1 : bytes[i] = IF i <= n THEN text[i] ELSE <<0>>[i - n]
    BY <1>4, <2>1, ConcatProperties
  <2> HIDE DEF bytes
  <2>3. n + 1 \in 1..n + 1 /\ ~(n + 1 <= n) /\ n + 1 - n = 1
    BY <1>1
  <2>4. bytes[n + 1] = 0
    BY <2>1, <2>2, <2>3
  <2>5. ASSUME NEW i \in 1..n PROVE bytes[i] = text[i]
    BY <1>1, <2>2
  <2> QED BY <2>2, <2>4, <2>5
<1>6. PICK end : IsEnd(bytes, end) /\ ToUtf8(text) = SubSeq(bytes, 1, end - 1)
  BY ToUtf8Is
<1> HIDE DEF bytes
<1>7. end = n + 1
  <2>1. end \in 1..n + 1 /\ bytes[end] = 0
    BY <1>1, <1>5, <1>6 DEF IsEnd
  <2>2. ASSUME NEW i \in 1..n PROVE bytes[i] # 0
    BY <1>1, <1>5, AsciiIs
  <2> QED BY <1>1, <2>1, <2>2
<1>8. ToUtf8(text) = SubSeq(bytes, 1, n)
  BY <1>1, <1>6, <1>7
<1>9. /\ SubSeq(bytes, 1, n) \in Seq(Nat) /\ Len(SubSeq(bytes, 1, n)) = n
      /\ \A i \in 1..n : SubSeq(bytes, 1, n)[i] = bytes[i]
  BY <1>1, <1>5
<1>10. SubSeq(bytes, 1, n) = text
  BY <1>1, <1>5, <1>9, SeqEqual
<1> QED BY <1>8, <1>10

(* and read as it was written.                                             *)
LEMMA AsciiKept ==
  ASSUME NEW text \in Seq(Nat), Ascii(text)
  PROVE  TextCreate(ToUtf8(text)) = text
<1> DEFINE n == Len(text)
<1>1. n \in Nat /\ DOMAIN text = 1..n /\ \A i \in 1..n : text[i] \in 32..126
  <2>1. n \in Nat /\ DOMAIN text = 1..n
    BY LenProperties
  <2>2. \A i \in DOMAIN text : text[i] \in 32..126
    BY DEF Ascii
  <2> QED BY <2>1, <2>2
<1>2. PageOf(text) = 0
  <2>1. text # <<>> => 1 \in 1..n
    BY <1>1, EmptySeq
  <2>2. ~(text # <<>> /\ text[1] < 32)
    BY <1>1, <2>1, AsciiIs
  <2> QED BY <2>2 DEF PageOf
<1>3. PICK g : IsTextUpTo(text, 0, g, n) /\ TextCreate(text) = g[n]
  <2>1. PICK g : /\ IsTextUpTo(text, PageOf(text), g, n)
                 /\ TextCreate(text) = IF PageOf(text) > 5 THEN <<>> ELSE g[n]
    BY <1>1, TextUpTo
  <2> QED BY <1>2, <2>1
<1>4. \A i \in 0..n : g[i] = TextStep(text, 0, g, i)
  BY <1>3 DEF IsTextUpTo
<1> DEFINE Good(m) == g[m] \in Seq(Nat) /\ Len(g[m]) = m /\ \A i \in 1..m : g[m][i] = text[i]
           G == {m \in Nat : Good(m)}
<1>5. 0 \in G
  <2>1. g[0] = TextStep(text, 0, g, 0)
    BY <1>1, <1>4
  <2>2. g[0] = <<>>
    BY <2>1 DEF TextStep
  <2>3. <<>> \in Seq(Nat) /\ Len(<<>>) = 0 /\ 0 \in Nat
    BY EmptySeq
  <2>4. Good(0)
    BY <2>2, <2>3
  <2> HIDE DEF Good
  <2> QED BY <2>3, <2>4
<1>6. ASSUME NEW m \in 0..n - 1, m \in G PROVE m + 1 \in G
  <2> DEFINE i == m + 1
  <2>1. i \in 0..n /\ i # 0 /\ i - 1 = m /\ i \in Nat /\ i \in 1..n
    BY <1>1
  <2>2. g[m] \in Seq(Nat) /\ Len(g[m]) = m /\ \A k \in 1..m : g[m][k] = text[k]
    BY <1>6
  <2> HIDE DEF i
  <2>3. text[i] \in Byte /\ text[i] \in 32..126 /\ Printable(text[i]) /\ Page(0, text[i]) = text[i]
    BY <1>1, <2>1, AsciiIs
  <2>4. g[i] = Append(g[m], text[i])
    BY <1>4, <2>1, <2>3 DEF TextStep
  <2>5. g[i] \in Seq(Nat) /\ Len(g[i]) = m + 1 /\ \A k \in 1..m + 1 : g[i][k] = text[k]
    <3>1. text[i] \in Nat
      BY <2>1
    <3>2. /\ g[i] \in Seq(Nat) /\ Len(g[i]) = m + 1 /\ g[i][m + 1] = text[i]
          /\ \A k \in 1..m : g[i][k] = g[m][k]
      BY <2>2, <2>4, <3>1, AppendProperties
    <3>3. text[m + 1] = text[i]
      BY DEF i
    <3>4. ASSUME NEW k \in 1..m + 1 PROVE g[i][k] = text[k]
      <4>1. k \in 1..m \/ k = m + 1
        OBVIOUS
      <4> QED BY <2>2, <3>2, <3>3, <4>1
    <3> QED BY <3>2, <3>4
  <2> QED BY <2>1, <2>5 DEF i
<1>7. n \in G
  <2> HIDE DEF G
  <2> QED BY <1>1, <1>5, <1>6, UpTo, n \in 0..n
<1>8. g[n] = text
  BY <1>7, SeqEqual
<1> QED BY <1>3, <1>8, AsciiWritten

-----------------------------------------------------------------------------
(* The parameters of a channel                                             *)

ParsedStep(line, g, k) ==
  IF k = 0 THEN line.f
  ELSE IF k < 8 /\ line.p[k] \in Listed[k] THEN line.p[k] ELSE g[k - 1]

IsParsedUpTo(line, g, n) == g = [k \in 0..n |-> ParsedStep(line, g, k)]

(* The recursive function Parsed is defined by exists.                     *)
LEMMA ParsedExists ==
  ASSUME NEW line
  PROVE  \E g : IsParsedUpTo(line, g, 8)
<1> DEFINE Has(m) == \E g : IsParsedUpTo(line, g, m)
           G == {m \in Nat : Has(m)}
<1> HIDE DEF Has
<1>1. Has(0)
  <2> DEFINE g == [n \in 0..0 |-> line.f]
  <2>1. g = [n \in 0..0 |-> ParsedStep(line, g, n)]
    BY DEF ParsedStep
  <2> HIDE DEF g
  <2> QED BY <2>1 DEF Has, IsParsedUpTo
<1>2. ASSUME NEW m \in Nat, Has(m) PROVE Has(m + 1)
  <2>1. PICK g : g = [n \in 0..m |-> ParsedStep(line, g, n)]
    BY <1>2 DEF Has, IsParsedUpTo
  <2> DEFINE h == [n \in 0..m + 1 |-> ParsedStep(line, g, n)]
  <2>2. ASSUME NEW n \in 0..m + 1 PROVE ParsedStep(line, g, n) = ParsedStep(line, h, n)
    <3>1. CASE n = 0
      BY <3>1 DEF ParsedStep
    <3>2. CASE n # 0
      <4>1. n - 1 \in 0..m /\ n - 1 \in 0..m + 1
        BY <3>2
      <4>2. h[n - 1] = g[n - 1]
        BY <4>1, <2>1
      <4> QED BY <3>2, <4>2 DEF ParsedStep
    <3> QED BY <3>1, <3>2
  <2>3. h = [n \in 0..m + 1 |-> ParsedStep(line, h, n)]
    BY <2>2
  <2> HIDE DEF h
  <2> QED BY <2>3 DEF Has, IsParsedUpTo
<1>3. 0 \in G /\ \A m \in 0..8 - 1 : m \in G => m + 1 \in G
  BY <1>1, <1>2
<1>4. 8 \in G
  <2> HIDE DEF G
  <2> QED BY <1>3, UpTo, 8 \in 0..8
<1> QED BY <1>4 DEF Has

(* A parameter that has a name is read as it was, but for the last.        *)
LEMMA ParsedIs ==
  ASSUME NEW line, NEW k \in 1..7, line.p[k] \in Listed[k]
  PROVE  Parsed(line)[k] = line.p[k]
<1> DEFINE g == CHOOSE g : IsParsedUpTo(line, g, 8)
<1>1. IsParsedUpTo(line, g, 8)
  BY ParsedExists, Zenon
<1>2. Parsed(line) = [j \in Param |-> g[j]]
  BY DEF Parsed, IsParsedUpTo, ParsedStep
<1> HIDE DEF g
<1>3. k \in 0..8 /\ k \in Param /\ k # 0 /\ k < 8
  BY DEF Param
<1>4. g[k] = ParsedStep(line, g, k)
  BY <1>1, <1>3 DEF IsParsedUpTo
<1>5. g[k] = line.p[k]
  BY <1>3, <1>4 DEF ParsedStep
<1> QED BY <1>2, <1>3, <1>5

-----------------------------------------------------------------------------
(* Sequences of lines                                                      *)

LEMMA FunctionIsSeq ==
  ASSUME NEW T, NEW n \in Nat, NEW f \in [1..n -> T]
  PROVE  f \in Seq(T) /\ Len(f) = n
OBVIOUS

LEMMA IsSeqOf ==
  ASSUME NEW S, NEW s \in Seq(S)
  PROVE  IsSeq(s)
<1>1. Len(s) \in Nat /\ s = [i \in 1..Len(s) |-> s[i]]
  BY SeqIsFunction
<1> QED BY <1>1, SeqOfFunction

(* Sequences of anything, joined.                                          *)
LEMMA SeqsJoined ==
  ASSUME NEW x, IsSeq(x), NEW y, IsSeq(y)
  PROVE  /\ IsSeq(x \o y) /\ Len(x \o y) = Len(x) + Len(y)
         /\ \A i \in 1..Len(x) + Len(y) :
              (x \o y)[i] = IF i <= Len(x) THEN x[i] ELSE y[i - Len(x)]
<1> DEFINE S == ToSet(x) \cup ToSet(y)
<1>1. x \in Seq(ToSet(x)) /\ y \in Seq(ToSet(y))
  BY DEF IsSeq
<1> HIDE DEF S
<1>2. ToSet(x) \subseteq S /\ ToSet(y) \subseteq S
  BY DEF S
<1>3. x \in Seq(S) /\ y \in Seq(S)
  BY <1>1, <1>2, SeqMonotonic
<1>4. x \o y \in Seq(S)
  BY <1>3, ConcatProperties
<1> QED BY <1>3, <1>4, ConcatProperties, IsSeqOf

Associate(x, y, z) == (x \o y) \o z = x \o (y \o z)

LEMMA SeqsJoinedTwice ==
  ASSUME NEW x, IsSeq(x), NEW y, IsSeq(y), NEW z, IsSeq(z)
  PROVE  Associate(x, y, z)
<1> DEFINE S == ToSet(x) \cup (ToSet(y) \cup ToSet(z))
<1>1. x \in Seq(ToSet(x)) /\ y \in Seq(ToSet(y)) /\ z \in Seq(ToSet(z))
  BY DEF IsSeq
<1> HIDE DEF S
<1>2. ToSet(x) \subseteq S /\ ToSet(y) \subseteq S /\ ToSet(z) \subseteq S
  BY DEF S
<1>3. x \in Seq(S) /\ y \in Seq(S) /\ z \in Seq(S)
  BY <1>1, <1>2, SeqMonotonic
<1> QED BY <1>3, JoinedTwice DEF Associate

AssociateAll(a, b, c, d) == ((a \o b) \o c) \o d = a \o (b \o (c \o d))

LEMMA SeqsJoinedThrice ==
  ASSUME NEW a, IsSeq(a), NEW b, IsSeq(b), NEW c, IsSeq(c), NEW d, IsSeq(d)
  PROVE  AssociateAll(a, b, c, d)
<1> DEFINE x == a \o b
           y == c \o d
<1>1. IsSeq(x) /\ IsSeq(y)
  BY SeqsJoined
<1> HIDE DEF x, y
<1>2. Associate(x, c, d)
  BY <1>1, SeqsJoinedTwice
<1>3. Associate(a, b, y)
  BY <1>1, SeqsJoinedTwice
<1>4. (x \o c) \o d = x \o y /\ x \o y = a \o (b \o y)
  BY <1>2, <1>3 DEF Associate, x, y
<1> QED BY <1>4 DEF x, y, AssociateAll

LEMMA JoinedToNone ==
  ASSUME NEW x, IsSeq(x)
  PROVE  <<>> \o x = x /\ x \o <<>> = x
BY ConcatEmptySeq DEF IsSeq

LEMMA SameSeq ==
  ASSUME NEW x, IsSeq(x), NEW y, IsSeq(y), Len(x) = Len(y), \A i \in 1..Len(x) : x[i] = y[i]
  PROVE  x = y
BY SeqFacts, SameFunction

(* A list of lists, as functions of their places.                          *)
LEMMA ListsAreSeq ==
  ASSUME NEW n \in Nat, NEW f, f = [k \in 1..n |-> f[k]], \A k \in 1..n : IsSeq(f[k])
  PROVE  IsSeq(FlattenSeq(f)) /\ (n = 0 => FlattenSeq(f) = <<>>)
<1> DEFINE S == UNION {ToSet(f[k]) : k \in 1..n}
<1>1. \A k \in 1..n : ToSet(f[k]) \subseteq S
  OBVIOUS
<1> HIDE DEF S
<1>2. \A k \in 1..n : f[k] \in Seq(S)
  BY <1>1, SeqMonotonic DEF IsSeq
<1>3. f \in [1..n -> Seq(S)]
  BY <1>2
<1>4. f \in Seq(Seq(S)) /\ Len(f) = n
  BY <1>3
<1>5. IsSeq(FlattenSeq(f))
  BY <1>4, FlattenIsSeq, IsSeqOf
<1>6. n = 0 => FlattenSeq(f) = <<>>
  <2>1. n = 0 => f = <<>>
    BY <1>4, EmptySeq
  <2> QED BY <1>4, <2>1 DEF FlattenSeq
<1> QED BY <1>5, <1>6

(* The first of a list of lists comes before the others.                   *)
LEMMA FirstOfLists ==
  ASSUME NEW n \in Nat, NEW f, IsSeq(f), Len(f) = n + 1, \A k \in 1..n + 1 : IsSeq(f[k]),
         NEW r, IsSeq(r), Len(r) = n, \A k \in 1..n : r[k] = f[k + 1]
  PROVE  FlattenSeq(f) = f[1] \o FlattenSeq(r)
<1> DEFINE S == UNION {ToSet(f[k]) : k \in 1..n + 1}
<1>1. \A k \in 1..n + 1 : ToSet(f[k]) \subseteq S
  OBVIOUS
<1> HIDE DEF S
<1>2. \A k \in 1..n + 1 : f[k] \in Seq(S)
  BY <1>1, SeqMonotonic DEF IsSeq
<1>3. f \in Seq(Seq(S))
  <2>1. f = [k \in 1..n + 1 |-> f[k]] /\ n + 1 \in Nat
    BY SeqFacts
  <2>2. f \in [1..n + 1 -> Seq(S)]
    BY <1>2, <2>1
  <2> QED BY <2>1, <2>2, FunctionIsSeq
<1>4. r \in Seq(Seq(S))
  <2>1. r = [k \in 1..n |-> r[k]]
    BY SeqFacts
  <2>2. \A k \in 1..n : r[k] \in Seq(S)
    <3>1. \A k \in 1..n : k + 1 \in 1..n + 1
      OBVIOUS
    <3> QED BY <1>2, <3>1
  <2>3. r \in [1..n -> Seq(S)]
    BY <2>1, <2>2
  <2> QED BY <2>3, FunctionIsSeq
<1> QED BY <1>3, <1>4, FlattenCons

-----------------------------------------------------------------------------
(* The lists                                                               *)

(* The program j of a channel has the index j - 1.                         *)
IsProgram(p) ==
  /\ DOMAIN p = {"n", "provider", "service", "number", "user_number", "streams"}
  /\ p.provider \in Seq(Nat) /\ p.service \in Seq(Nat)
  /\ p.user_number \in Nat
  /\ IsSeq(p.streams)

IsChannel(c) ==
  /\ DOMAIN c = {"id", "type", "n", "f", "p", "programs"}
  /\ IsSeq(c.programs)
  /\ \A j \in DOMAIN c.programs : IsProgram(c.programs[j]) /\ c.programs[j].n = j - 1

AreChannels(s) == IsSeq(s) /\ \A i \in DOMAIN s : IsChannel(s[i])

(* The lines of what comes after stream l of a program, after program j of *)
(* a channel and after channel i of a list.                                *)
StreamsFrom(p, l) == [k \in 1..Len(p.streams) - l |-> StreamLine(p.streams[l + k])]

ProgramsFrom(c, j) ==
  FlattenSeq([k \in 1..Len(c.programs) - j |-> ProgramLines(c.programs[j + k])])

ChannelsFrom(s, i) == FlattenSeq([k \in 1..Len(s) - i |-> ChannelLines(s[i + k])])

(* The lines of the streams from one on, of a program,                     *)
LEMMA StreamLines ==
  ASSUME NEW p, IsProgram(p), NEW l \in 0..Len(p.streams)
  PROVE  /\ IsSeq(StreamsFrom(p, l))
         /\ l = Len(p.streams) => StreamsFrom(p, l) = <<>>
         /\ l < Len(p.streams) =>
              StreamsFrom(p, l) = <<StreamLine(p.streams[l + 1])>> \o StreamsFrom(p, l + 1)
<1> DEFINE m == Len(p.streams)
           x == StreamsFrom(p, l)
<1>1. m \in Nat
  BY SeqFacts DEF IsProgram
<1>2. x = [k \in 1..m - l |-> StreamLine(p.streams[l + k])]
  BY DEF StreamsFrom
<1>3. \A i \in 0..m : LET y == StreamsFrom(p, i) IN
        IsSeq(y) /\ Len(y) = m - i /\ \A k \in 1..m - i : y[k] = StreamLine(p.streams[i + k])
  <2> SUFFICES ASSUME NEW i \in 0..m
               PROVE  LET y == StreamsFrom(p, i) IN
                        /\ IsSeq(y) /\ Len(y) = m - i
                        /\ \A k \in 1..m - i : y[k] = StreamLine(p.streams[i + k])
    OBVIOUS
  <2> DEFINE y == StreamsFrom(p, i)
  <2>1. y = [k \in 1..m - i |-> StreamLine(p.streams[i + k])]
    BY DEF StreamsFrom
  <2> HIDE DEF y, m
  <2>2. y = [k \in 1..m - i |-> y[k]] /\ \A k \in 1..m - i : y[k] = StreamLine(p.streams[i + k])
    BY <2>1
  <2>3. m - i \in Nat
    BY <1>1
  <2> QED BY <2>2, <2>3, SeqOfFunction DEF y
<1> HIDE DEF m, x
<1>4. l \in 0..m
  BY DEF m
<1>5. IsSeq(x) /\ Len(x) = m - l /\ \A k \in 1..m - l : x[k] = StreamLine(p.streams[l + k])
  BY <1>3, <1>4 DEF x
<1>6. CASE l = m
  <2>1. x = <<>>
    BY <1>1, <1>5, <1>6, EmptySeq DEF IsSeq
  <2> QED BY <1>5, <1>6, <2>1 DEF x, m
<1>7. CASE l < m
  <2> DEFINE y == StreamsFrom(p, l + 1)
             a == <<StreamLine(p.streams[l + 1])>>
  <2>1. l + 1 \in 0..m
    BY <1>1, <1>4, <1>7
  <2>2. IsSeq(y) /\ Len(y) = m - (l + 1) /\ \A k \in 1..m - (l + 1) : y[k] = StreamLine(p.streams[l + 1 + k])
    BY <1>3, <2>1
  <2>3. IsSeq(a) /\ Len(a) = 1 /\ a[1] = StreamLine(p.streams[l + 1])
    <3>1. a \in Seq({a[1]})
      OBVIOUS
    <3> QED BY <3>1, IsSeqOf
  <2> HIDE DEF y, a
  <2>4. /\ IsSeq(a \o y) /\ Len(a \o y) = m - l
        /\ \A k \in 1..m - l : (a \o y)[k] = IF k <= 1 THEN a[k] ELSE y[k - 1]
    <3>1. Len(a) + Len(y) = m - l
      BY <1>1, <1>4, <2>2, <2>3
    <3>2. /\ IsSeq(a \o y) /\ Len(a \o y) = Len(a) + Len(y)
          /\ \A k \in 1..Len(a) + Len(y) : (a \o y)[k] = IF k <= Len(a) THEN a[k] ELSE y[k - Len(a)]
      BY <2>2, <2>3, SeqsJoined
    <3> QED BY <2>3, <3>1, <3>2
  <2>5. ASSUME NEW k \in 1..m - l PROVE x[k] = (a \o y)[k]
    <3>1. CASE k = 1
      BY <1>5, <2>3, <2>4, <3>1
    <3>2. CASE k # 1
      <4>1. k - 1 \in 1..m - (l + 1) /\ l + 1 + (k - 1) = l + k /\ ~(k <= 1)
        BY <1>1, <1>4, <3>2
      <4>2. (a \o y)[k] = y[k - 1]
        BY <2>4, <4>1
      <4>3. y[k - 1] = StreamLine(p.streams[l + k])
        BY <2>2, <4>1
      <4> QED BY <1>5, <4>2, <4>3
    <3> QED BY <3>1, <3>2
  <2>6. x = a \o y
    BY <1>5, <2>4, <2>5, SameSeq
  <2> QED BY <1>5, <1>7, <2>6 DEF x, y, a, m
<1> QED BY <1>1, <1>4, <1>6, <1>7

(* all the lines of a program,                                             *)
LEMMA LinesOfProgram ==
  ASSUME NEW p, IsProgram(p)
  PROVE  /\ IsSeq(ProgramLines(p))
         /\ ProgramLines(p) = <<ProgramLine(p)>> \o StreamsFrom(p, 0)
<1> DEFINE m == Len(p.streams)
           a == <<ProgramLine(p)>>
<1>1. m \in Nat /\ DOMAIN p.streams = 1..m
  BY SeqFacts DEF IsProgram
<1>2. [k \in DOMAIN p.streams |-> StreamLine(p.streams[k])] = StreamsFrom(p, 0)
  <2>1. m - 0 = m /\ \A k \in 1..m : 0 + k = k
    BY <1>1
  <2>2. StreamsFrom(p, 0) = [k \in 1..m |-> StreamLine(p.streams[0 + k])]
    BY <2>1 DEF StreamsFrom
  <2> HIDE DEF m
  <2> QED BY <1>1, <2>1, <2>2
<1>3. ProgramLines(p) = a \o StreamsFrom(p, 0)
  BY <1>2 DEF ProgramLines
<1>4. IsSeq(StreamsFrom(p, 0))
  BY <1>1, StreamLines, 0 \in 0..m
<1>5. a \in Seq({ProgramLine(p)})
  OBVIOUS
<1> HIDE DEF a
<1>6. IsSeq(a \o StreamsFrom(p, 0))
  BY <1>4, <1>5, IsSeqOf, SeqsJoined
<1> QED BY <1>3, <1>6 DEF a

(* those of the programs from one on,                                      *)
LEMMA LinesOfPrograms ==
  ASSUME NEW c, IsChannel(c), NEW j \in 0..Len(c.programs)
  PROVE  /\ IsSeq(ProgramsFrom(c, j))
         /\ j = Len(c.programs) => ProgramsFrom(c, j) = <<>>
         /\ j < Len(c.programs) =>
              ProgramsFrom(c, j) = ProgramLines(c.programs[j + 1]) \o ProgramsFrom(c, j + 1)
<1> DEFINE m == Len(c.programs)
           f == [k \in 1..m - j |-> ProgramLines(c.programs[j + k])]
<1>1. m \in Nat /\ DOMAIN c.programs = 1..m
  BY SeqFacts DEF IsChannel
<1>2. ProgramsFrom(c, j) = FlattenSeq(f)
  BY DEF ProgramsFrom
<1> HIDE DEF m
<1>3. m - j \in Nat /\ j \in 0..m
  BY <1>1 DEF m
<1>4. ASSUME NEW k \in 1..m - j PROVE IsSeq(f[k]) /\ f[k] = ProgramLines(c.programs[j + k])
  <2>1. j + k \in 1..m
    BY <1>1, <1>3
  <2>2. IsProgram(c.programs[j + k])
    BY <1>1, <2>1 DEF IsChannel
  <2> QED BY <2>2, LinesOfProgram
<1>5. f = [k \in 1..m - j |-> f[k]]
  OBVIOUS
<1> HIDE DEF f
<1>6. IsSeq(FlattenSeq(f)) /\ (m - j = 0 => FlattenSeq(f) = <<>>)
  BY <1>3, <1>4, <1>5, ListsAreSeq
<1>7. ASSUME j < m
      PROVE  FlattenSeq(f) = ProgramLines(c.programs[j + 1]) \o ProgramsFrom(c, j + 1)
  <2> DEFINE n == m - (j + 1)
             r == [k \in 1..n |-> f[k + 1]]
  <2>1. n \in Nat /\ n + 1 = m - j
    BY <1>1, <1>3, <1>7
  <2>2. ASSUME NEW k \in 1..n PROVE r[k] = ProgramLines(c.programs[j + 1 + k])
    <3>1. k + 1 \in 1..m - j /\ j + (k + 1) = j + 1 + k
      BY <2>1, <1>3
    <3> QED BY <1>4, <3>1
  <2>3. r = [k \in 1..n |-> r[k]]
    OBVIOUS
  <2> DEFINE q == [k \in 1..n |-> ProgramLines(c.programs[j + 1 + k])]
  <2>4. q = r
    BY <2>2
  <2>5. ProgramsFrom(c, j + 1) = FlattenSeq(q)
    BY DEF ProgramsFrom, m
  <2>6. FlattenSeq(f) = f[1] \o FlattenSeq(r)
    <3> HIDE DEF n
    <3>1. IsSeq(f) /\ Len(f) = n + 1 /\ \A k \in 1..n + 1 : IsSeq(f[k])
      BY <1>4, <1>5, <2>1, SeqOfFunction
    <3>2. \A k \in 1..n : r[k] = f[k + 1]
      OBVIOUS
    <3> HIDE DEF r
    <3>3. IsSeq(r) /\ Len(r) = n
      BY <2>1, <2>3, SeqOfFunction
    <3> QED BY <2>1, <3>1, <3>2, <3>3, FirstOfLists
  <2>7. f[1] = ProgramLines(c.programs[j + 1])
    <3>1. 1 \in 1..m - j
      BY <2>1
    <3> QED BY <1>4, <3>1
  <2> HIDE DEF q, r, n
  <2> QED BY <2>4, <2>5, <2>6, <2>7
<1>8. (j = m => m - j = 0)
  BY <1>1
<1> QED BY <1>2, <1>6, <1>7, <1>8 DEF m

(* of a channel,                                                           *)
LEMMA LinesOfChannel ==
  ASSUME NEW c, IsChannel(c)
  PROVE  /\ IsSeq(ChannelLines(c))
         /\ ChannelLines(c) = <<ChannelLine(c)>> \o ProgramsFrom(c, 0)
<1> DEFINE m == Len(c.programs)
           a == <<ChannelLine(c)>>
<1>1. m \in Nat /\ DOMAIN c.programs = 1..m
  BY SeqFacts DEF IsChannel
<1>2. [j \in DOMAIN c.programs |-> ProgramLines(c.programs[j])]
        = [k \in 1..Len(c.programs) - 0 |-> ProgramLines(c.programs[0 + k])]
  <2>1. m - 0 = m /\ \A k \in 1..m : 0 + k = k
    BY <1>1
  <2> QED BY <1>1, <2>1
<1>3. ChannelLines(c) = a \o ProgramsFrom(c, 0)
  BY <1>2 DEF ChannelLines, ProgramsFrom
<1>4. IsSeq(ProgramsFrom(c, 0))
  BY <1>1, LinesOfPrograms, 0 \in 0..m
<1>5. a \in Seq({ChannelLine(c)})
  OBVIOUS
<1> HIDE DEF a
<1>6. IsSeq(a \o ProgramsFrom(c, 0))
  BY <1>4, <1>5, IsSeqOf, SeqsJoined
<1> QED BY <1>3, <1>6 DEF a

(* and of the channels from one on.                                        *)
LEMMA LinesOfChannels ==
  ASSUME NEW s, AreChannels(s), NEW i \in 0..Len(s)
  PROVE  /\ IsSeq(ChannelsFrom(s, i))
         /\ i = Len(s) => ChannelsFrom(s, i) = <<>>
         /\ i < Len(s) => ChannelsFrom(s, i) = ChannelLines(s[i + 1]) \o ChannelsFrom(s, i + 1)
<1> DEFINE m == Len(s)
           f == [k \in 1..m - i |-> ChannelLines(s[i + k])]
<1>1. m \in Nat /\ DOMAIN s = 1..m
  BY SeqFacts DEF AreChannels
<1>2. ChannelsFrom(s, i) = FlattenSeq(f)
  BY DEF ChannelsFrom
<1> HIDE DEF m
<1>3. m - i \in Nat /\ i \in 0..m
  BY <1>1 DEF m
<1>4. ASSUME NEW k \in 1..m - i PROVE IsSeq(f[k]) /\ f[k] = ChannelLines(s[i + k])
  <2>1. i + k \in 1..m
    BY <1>1, <1>3
  <2>2. IsChannel(s[i + k])
    BY <1>1, <2>1 DEF AreChannels
  <2> QED BY <2>2, LinesOfChannel
<1>5. f = [k \in 1..m - i |-> f[k]]
  OBVIOUS
<1> HIDE DEF f
<1>6. IsSeq(FlattenSeq(f)) /\ (m - i = 0 => FlattenSeq(f) = <<>>)
  BY <1>3, <1>4, <1>5, ListsAreSeq
<1>7. ASSUME i < m
      PROVE  FlattenSeq(f) = ChannelLines(s[i + 1]) \o ChannelsFrom(s, i + 1)
  <2> DEFINE n == m - (i + 1)
             r == [k \in 1..n |-> f[k + 1]]
  <2>1. n \in Nat /\ n + 1 = m - i
    BY <1>1, <1>3, <1>7
  <2>2. ASSUME NEW k \in 1..n PROVE r[k] = ChannelLines(s[i + 1 + k])
    <3>1. k + 1 \in 1..m - i /\ i + (k + 1) = i + 1 + k
      BY <2>1, <1>3
    <3> QED BY <1>4, <3>1
  <2>3. r = [k \in 1..n |-> r[k]]
    OBVIOUS
  <2> DEFINE q == [k \in 1..n |-> ChannelLines(s[i + 1 + k])]
  <2>4. q = r
    BY <2>2
  <2>5. ChannelsFrom(s, i + 1) = FlattenSeq(q)
    BY DEF ChannelsFrom, m
  <2>6. FlattenSeq(f) = f[1] \o FlattenSeq(r)
    <3> HIDE DEF n
    <3>1. IsSeq(f) /\ Len(f) = n + 1 /\ \A k \in 1..n + 1 : IsSeq(f[k])
      BY <1>4, <1>5, <2>1, SeqOfFunction
    <3>2. \A k \in 1..n : r[k] = f[k + 1]
      OBVIOUS
    <3> HIDE DEF r
    <3>3. IsSeq(r) /\ Len(r) = n
      BY <2>1, <2>3, SeqOfFunction
    <3> QED BY <2>1, <3>1, <3>2, <3>3, FirstOfLists
  <2>7. f[1] = ChannelLines(s[i + 1])
    <3>1. 1 \in 1..m - i
      BY <2>1
    <3> QED BY <1>4, <3>1
  <2> HIDE DEF q, r, n
  <2> QED BY <2>4, <2>5, <2>6, <2>7
<1>8. (i = m => m - i = 0)
  BY <1>1
<1> QED BY <1>2, <1>6, <1>7, <1>8 DEF m

(* The lines still to be read, with l streams of program j of channel i.   *)
FromProgram(s, i, j, l) == IF i = 0 \/ j = 0 THEN <<>> ELSE StreamsFrom(s[i].programs[j], l)

FromChannel(s, i, j) == IF i = 0 THEN <<>> ELSE ProgramsFrom(s[i], j)

LinesFrom(s, i, j, l) ==
  FromProgram(s, i, j, l) \o (FromChannel(s, i, j) \o ChannelsFrom(s, i))

IsPlace(s, i, j, l) ==
  /\ i \in 0..Len(s)
  /\ i # 0 => j \in 0..Len(s[i].programs)
  /\ i # 0 /\ j # 0 => l \in 0..Len(s[i].programs[j].streams)

LEMMA LinesAtPlace ==
  ASSUME NEW s, AreChannels(s), NEW i, NEW j, NEW l, IsPlace(s, i, j, l)
  PROVE  /\ IsSeq(FromProgram(s, i, j, l)) /\ IsSeq(FromChannel(s, i, j)) /\ IsSeq(ChannelsFrom(s, i))
         /\ IsSeq(FromChannel(s, i, j) \o ChannelsFrom(s, i))
         /\ IsSeq(LinesFrom(s, i, j, l))
<1>1. Len(s) \in Nat /\ DOMAIN s = 1..Len(s)
  BY SeqFacts DEF AreChannels
<1>2. IsSeq(<<>>)
  BY DEF IsSeq
<1>3. i # 0 => i \in DOMAIN s /\ IsChannel(s[i])
  BY <1>1 DEF IsPlace, AreChannels
<1>4. IsSeq(ChannelsFrom(s, i))
  BY LinesOfChannels DEF IsPlace
<1>5. IsSeq(FromChannel(s, i, j))
  BY <1>2, <1>3, LinesOfPrograms DEF FromChannel, IsPlace
<1>6. IsSeq(FromProgram(s, i, j, l))
  <2>1. CASE i = 0 \/ j = 0
    BY <1>2, <2>1 DEF FromProgram
  <2>2. CASE ~(i = 0 \/ j = 0)
    <3>1. j \in DOMAIN s[i].programs
      BY <1>3, <2>2, SeqFacts DEF IsPlace, IsChannel
    <3>2. IsProgram(s[i].programs[j]) /\ l \in 0..Len(s[i].programs[j].streams)
      BY <1>3, <2>2, <3>1 DEF IsPlace, IsChannel
    <3> QED BY <2>2, <3>2, StreamLines DEF FromProgram
  <2> QED BY <2>1, <2>2
<1>7. IsSeq(FromChannel(s, i, j) \o ChannelsFrom(s, i))
  BY <1>4, <1>5, SeqsJoined
<1> QED BY <1>4, <1>5, <1>6, <1>7, SeqsJoined DEF LinesFrom

LEMMA ChannelAtPlace ==
  ASSUME NEW s, AreChannels(s), NEW i, NEW j, NEW l, IsPlace(s, i, j, l), i # 0
  PROVE  /\ IsChannel(s[i]) /\ Len(s[i].programs) \in Nat
         /\ DOMAIN s[i].programs = 1..Len(s[i].programs)
         /\ j # 0 => /\ IsProgram(s[i].programs[j])
                     /\ Len(s[i].programs[j].streams) \in Nat
<1>1. i \in DOMAIN s
  BY SeqFacts DEF AreChannels, IsPlace
<1>2. IsChannel(s[i])
  BY <1>1 DEF AreChannels
<1>3. Len(s[i].programs) \in Nat /\ DOMAIN s[i].programs = 1..Len(s[i].programs)
  BY <1>2, SeqFacts DEF IsChannel
<1>4. ASSUME j # 0 PROVE IsProgram(s[i].programs[j]) /\ Len(s[i].programs[j].streams) \in Nat
  <2>1. j \in DOMAIN s[i].programs
    BY <1>3, <1>4 DEF IsPlace
  <2>2. IsProgram(s[i].programs[j])
    BY <1>2, <2>1 DEF IsChannel
  <2> QED BY <2>2, SeqFacts DEF IsProgram
<1> QED BY <1>2, <1>3, <1>4

LEMMA AllStreamsRead ==
  ASSUME NEW s, AreChannels(s), NEW i, NEW j, NEW l, IsPlace(s, i, j, l),
         i # 0 /\ j # 0 => l = Len(s[i].programs[j].streams)
  PROVE  FromProgram(s, i, j, l) = <<>>
<1>1. CASE i = 0 \/ j = 0
  BY <1>1 DEF FromProgram
<1>2. CASE ~(i = 0 \/ j = 0)
  <2> DEFINE p == s[i].programs[j]
  <2>1. IsProgram(p) /\ Len(p.streams) \in Nat /\ l = Len(p.streams)
    BY <1>2, ChannelAtPlace
  <2>2. FromProgram(s, i, j, l) = StreamsFrom(p, l)
    BY <1>2 DEF FromProgram
  <2> HIDE DEF p
  <2>3. l \in 0..Len(p.streams)
    BY <2>1
  <2> QED BY <2>1, <2>2, <2>3, StreamLines
<1> QED BY <1>1, <1>2

LEMMA AllProgramsRead ==
  ASSUME NEW s, AreChannels(s), NEW i, NEW j, NEW l, IsPlace(s, i, j, l),
         i # 0 => j = Len(s[i].programs)
  PROVE  FromChannel(s, i, j) = <<>>
<1>1. CASE i = 0
  BY <1>1 DEF FromChannel
<1>2. CASE i # 0
  <2> DEFINE c == s[i]
  <2>1. IsChannel(c) /\ Len(c.programs) \in Nat /\ j = Len(c.programs)
    BY <1>2, ChannelAtPlace
  <2>2. FromChannel(s, i, j) = ProgramsFrom(c, j)
    BY <1>2 DEF FromChannel
  <2> HIDE DEF c
  <2>3. j \in 0..Len(c.programs)
    BY <2>1
  <2> QED BY <2>1, <2>2, <2>3, LinesOfPrograms
<1> QED BY <1>1, <1>2

(* The line of a stream comes next,                                        *)
LEMMA StreamNext ==
  ASSUME NEW s, AreChannels(s), NEW i, NEW j, NEW l, IsPlace(s, i, j, l),
         i # 0, j # 0, l < Len(s[i].programs[j].streams)
  PROVE  /\ IsPlace(s, i, j, l + 1)
         /\ LinesFrom(s, i, j, l)
              = <<StreamLine(s[i].programs[j].streams[l + 1])>> \o LinesFrom(s, i, j, l + 1)
<1> DEFINE p == s[i].programs[j]
           a == <<StreamLine(p.streams[l + 1])>>
           x == FromChannel(s, i, j) \o ChannelsFrom(s, i)
           y == FromProgram(s, i, j, l + 1)
<1>1. IsProgram(p)
  <2>1. i \in DOMAIN s
    BY SeqFacts DEF AreChannels, IsPlace
  <2>2. IsChannel(s[i])
    BY <2>1 DEF AreChannels
  <2>3. j \in DOMAIN s[i].programs
    BY <2>2, SeqFacts DEF IsPlace, IsChannel
  <2> QED BY <2>2, <2>3 DEF IsChannel
<1>2. Len(p.streams) \in Nat /\ l \in 0..Len(p.streams)
  BY <1>1, SeqFacts DEF IsPlace, IsProgram
<1>3. IsPlace(s, i, j, l + 1)
  BY <1>2 DEF IsPlace
<1>4. FromProgram(s, i, j, l) = a \o y
  BY <1>1, <1>2, StreamLines DEF FromProgram
<1>5. IsSeq(y) /\ IsSeq(x)
  BY <1>3, LinesAtPlace
<1>6. IsSeq(a)
  <2>1. a \in Seq({StreamLine(p.streams[l + 1])})
    OBVIOUS
  <2> HIDE DEF a
  <2> QED BY <2>1, IsSeqOf
<1> HIDE DEF a, x, y, p
<1>7. (a \o y) \o x = a \o (y \o x)
  <2>1. Associate(a, y, x)
    BY <1>5, <1>6, SeqsJoinedTwice
  <2> QED BY <2>1 DEF Associate
<1> QED BY <1>3, <1>4, <1>7 DEF LinesFrom, a, x, y, p

(* or, with all the streams of a program read, that of a program,          *)
LEMMA ProgramNext ==
  ASSUME NEW s, AreChannels(s), NEW i, NEW j, NEW l, IsPlace(s, i, j, l),
         i # 0, j < Len(s[i].programs),
         j # 0 => l = Len(s[i].programs[j].streams)
  PROVE  /\ IsPlace(s, i, j + 1, 0)
         /\ LinesFrom(s, i, j, l)
              = <<ProgramLine(s[i].programs[j + 1])>> \o LinesFrom(s, i, j + 1, 0)
<1> DEFINE c == s[i]
           p == c.programs[j + 1]
           a == <<ProgramLine(p)>>
           w == ChannelsFrom(s, i)
           u == FromChannel(s, i, j + 1)
           y == FromProgram(s, i, j + 1, 0)
<1>1. IsChannel(c)
  BY SeqFacts DEF AreChannels, IsPlace
<1>2. Len(c.programs) \in Nat /\ DOMAIN c.programs = 1..Len(c.programs) /\ j \in 0..Len(c.programs)
  BY <1>1, SeqFacts DEF IsPlace, IsChannel
<1>3. j + 1 \in DOMAIN c.programs /\ j + 1 # 0 /\ j + 1 \in 0..Len(c.programs)
  BY <1>2
<1>4. IsProgram(p)
  BY <1>1, <1>3 DEF IsChannel
<1>5. IsPlace(s, i, j + 1, 0)
  <2>1. Len(p.streams) \in Nat
    BY <1>4, SeqFacts DEF IsProgram
  <2> QED BY <1>3, <2>1 DEF IsPlace
<1>6. FromProgram(s, i, j, l) = <<>>
  BY AllStreamsRead
<1>7. FromChannel(s, i, j) = (a \o y) \o u
  <2>1. ProgramsFrom(c, j) = ProgramLines(p) \o ProgramsFrom(c, j + 1)
    BY <1>1, <1>2, LinesOfPrograms
  <2>2. ProgramLines(p) = a \o StreamsFrom(p, 0)
    BY <1>4, LinesOfProgram
  <2>3. y = StreamsFrom(p, 0) /\ u = ProgramsFrom(c, j + 1) /\ FromChannel(s, i, j) = ProgramsFrom(c, j)
    BY <1>3 DEF FromProgram, FromChannel
  <2> HIDE DEF a, u, y, p, c
  <2> QED BY <2>1, <2>2, <2>3
<1>8. IsSeq(y) /\ IsSeq(u) /\ IsSeq(w) /\ IsSeq(u \o w)
  BY <1>5, LinesAtPlace
<1>9. IsSeq(a)
  <2>1. a \in Seq({ProgramLine(p)})
    OBVIOUS
  <2> HIDE DEF a
  <2> QED BY <2>1, IsSeqOf
<1>10. LinesFrom(s, i, j, l) = <<>> \o (FromChannel(s, i, j) \o w)
  BY <1>6 DEF LinesFrom
<1>11. LinesFrom(s, i, j + 1, 0) = y \o (u \o w)
  BY DEF LinesFrom
<1> HIDE DEF a, w, u, y, p, c
<1>12. IsSeq(a \o y) /\ IsSeq((a \o y) \o u) /\ IsSeq(((a \o y) \o u) \o w)
  BY <1>8, <1>9, SeqsJoined
<1>13. ((a \o y) \o u) \o w = a \o (y \o (u \o w))
  <2>1. AssociateAll(a, y, u, w)
    BY <1>8, <1>9, SeqsJoinedThrice
  <2> QED BY <2>1 DEF AssociateAll
<1>15. <<>> \o (((a \o y) \o u) \o w) = ((a \o y) \o u) \o w
  BY <1>12, JoinedToNone
<1>16. LinesFrom(s, i, j, l) = a \o LinesFrom(s, i, j + 1, 0)
  BY <1>7, <1>10, <1>11, <1>13, <1>15
<1> QED BY <1>5, <1>16 DEF a, p, c

(* or, with all its programs read, that of a channel,                      *)
LEMMA ChannelNext ==
  ASSUME NEW s, AreChannels(s), NEW i, NEW j, NEW l, IsPlace(s, i, j, l),
         i < Len(s), i # 0 => j = Len(s[i].programs),
         i # 0 /\ j # 0 => l = Len(s[i].programs[j].streams)
  PROVE  /\ IsPlace(s, i + 1, 0, 0)
         /\ LinesFrom(s, i, j, l) = <<ChannelLine(s[i + 1])>> \o LinesFrom(s, i + 1, 0, 0)
<1> DEFINE c == s[i + 1]
           a == <<ChannelLine(c)>>
           w == ChannelsFrom(s, i + 1)
           x == FromChannel(s, i + 1, 0)
<1>1. Len(s) \in Nat /\ DOMAIN s = 1..Len(s) /\ i \in 0..Len(s)
  BY SeqFacts DEF AreChannels, IsPlace
<1>2. i + 1 \in DOMAIN s /\ i + 1 # 0 /\ i + 1 \in 0..Len(s)
  BY <1>1
<1>3. IsChannel(c)
  BY <1>2 DEF AreChannels
<1>4. IsPlace(s, i + 1, 0, 0)
  <2>1. Len(c.programs) \in Nat
    BY <1>3, SeqFacts DEF IsChannel
  <2> QED BY <1>2, <2>1 DEF IsPlace
<1>5. FromProgram(s, i, j, l) = <<>>
  BY AllStreamsRead
<1>6. FromChannel(s, i, j) = <<>>
  BY AllProgramsRead
<1>7. ChannelsFrom(s, i) = (a \o x) \o w
  <2>1. ChannelsFrom(s, i) = ChannelLines(c) \o w
    BY <1>1, LinesOfChannels
  <2>2. ChannelLines(c) = a \o ProgramsFrom(c, 0)
    BY <1>3, LinesOfChannel
  <2>3. x = ProgramsFrom(c, 0)
    BY <1>2 DEF FromChannel
  <2> HIDE DEF a, x, w, c
  <2> QED BY <2>1, <2>2, <2>3
<1>8. IsSeq(x) /\ IsSeq(w) /\ IsSeq(x \o w)
  BY <1>4, LinesAtPlace
<1>9. IsSeq(a)
  <2>1. a \in Seq({ChannelLine(c)})
    OBVIOUS
  <2> HIDE DEF a
  <2> QED BY <2>1, IsSeqOf
<1>10. LinesFrom(s, i, j, l) = <<>> \o (<<>> \o ChannelsFrom(s, i))
  BY <1>5, <1>6 DEF LinesFrom
<1>11. LinesFrom(s, i + 1, 0, 0) = <<>> \o (x \o w)
  BY DEF LinesFrom, FromProgram
<1> HIDE DEF a, w, x, c
<1>12. IsSeq(a \o x) /\ IsSeq((a \o x) \o w)
  BY <1>8, <1>9, SeqsJoined
<1>13. (a \o x) \o w = a \o (x \o w)
  <2>1. Associate(a, x, w)
    BY <1>8, <1>9, SeqsJoinedTwice
  <2> QED BY <2>1 DEF Associate
<1>14. LinesFrom(s, i, j, l) = (a \o x) \o w
  BY <1>7, <1>10, <1>12, JoinedToNone
<1>15. LinesFrom(s, i + 1, 0, 0) = x \o w
  BY <1>8, <1>11, JoinedToNone
<1> QED BY <1>4, <1>13, <1>14, <1>15 DEF a, c

(* or, with all read, none.                                                *)
LEMMA NoneNext ==
  ASSUME NEW s, AreChannels(s), NEW i, NEW j, NEW l, IsPlace(s, i, j, l),
         i = Len(s), i # 0 => j = Len(s[i].programs),
         i # 0 /\ j # 0 => l = Len(s[i].programs[j].streams)
  PROVE  LinesFrom(s, i, j, l) = <<>>
<1>1. Len(s) \in Nat /\ DOMAIN s = 1..Len(s) /\ i \in 0..Len(s)
  BY SeqFacts DEF AreChannels, IsPlace
<1>2. FromProgram(s, i, j, l) = <<>>
  BY AllStreamsRead
<1>3. FromChannel(s, i, j) = <<>>
  BY AllProgramsRead
<1>4. ChannelsFrom(s, i) = <<>>
  BY <1>1, LinesOfChannels
<1>5. IsSeq(<<>>)
  BY DEF IsSeq
<1> QED BY <1>2, <1>3, <1>4, <1>5, JoinedToNone DEF LinesFrom

-----------------------------------------------------------------------------
(* Reading the lines                                                       *)

Begins(t, s) == Len(t) <= Len(s) /\ \A k \in 1..Len(t) : t[k] = s[k]

(* What is left begins with the next line.                                 *)
LEMMA BeginsNext ==
  ASSUME NEW t, IsSeq(t), t # <<>>, NEW x, NEW r, IsSeq(r), Begins(t, <<x>> \o r)
  PROVE  Head(t) = x /\ IsSeq(Tail(t)) /\ Begins(Tail(t), r)
<1> DEFINE a == <<x>>
           s == a \o r
<1>1. IsSeq(a) /\ Len(a) = 1 /\ a[1] = x
  <2>1. a \in Seq({x})
    OBVIOUS
  <2> QED BY <2>1, IsSeqOf
<1> HIDE DEF a
<1>2. Len(r) \in Nat /\ Len(s) = 1 + Len(r)
  BY <1>1, SeqFacts, SeqsJoined
<1>3. s[1] = x
  <2>1. 1 \in 1..Len(a) + Len(r) /\ 1 <= Len(a)
    BY <1>1, <1>2
  <2> QED BY <1>1, <2>1, SeqsJoined
<1>4. ASSUME NEW k \in 1..Len(r) PROVE s[k + 1] = r[k]
  <2>1. k + 1 \in 1..Len(a) + Len(r) /\ ~(k + 1 <= Len(a)) /\ k + 1 - Len(a) = k
    BY <1>1, <1>2
  <2>2. \A i \in 1..Len(a) + Len(r) : s[i] = IF i <= Len(a) THEN a[i] ELSE r[i - Len(a)]
    BY <1>1, SeqsJoined
  <2> HIDE DEF s
  <2> QED BY <2>1, <2>2
<1> HIDE DEF s
<1>5. Len(t) <= Len(s) /\ \A k \in 1..Len(t) : t[k] = s[k]
  BY DEF Begins, s, a
<1>6. /\ Len(t) \in Nat /\ Len(t) # 0 /\ Head(t) = t[1]
      /\ IsSeq(Tail(t)) /\ Len(Tail(t)) = Len(t) - 1
      /\ \A k \in 1..Len(Tail(t)) : Tail(t)[k] = t[k + 1]
  <2>1. t \in Seq(ToSet(t))
    BY DEF IsSeq
  <2>2. Len(t) \in Nat /\ Len(t) # 0
    BY <2>1, EmptySeq
  <2>3. /\ Tail(t) \in Seq(ToSet(t)) /\ Len(Tail(t)) = Len(t) - 1
        /\ \A k \in 1..Len(Tail(t)) : Tail(t)[k] = t[k + 1]
    BY <2>1, HeadTailProperties
  <2>4. IsSeq(Tail(t))
    BY <2>3, IsSeqOf
  <2>5. Head(t) = t[1]
    OBVIOUS
  <2> QED BY <2>2, <2>3, <2>4, <2>5
<1>7. Head(t) = x
  BY <1>3, <1>5, <1>6
<1>8. ASSUME NEW k \in 1..Len(Tail(t)) PROVE Tail(t)[k] = r[k]
  <2>1. k + 1 \in 1..Len(t) /\ k \in 1..Len(r)
    BY <1>2, <1>5, <1>6
  <2> QED BY <1>4, <1>5, <1>6, <2>1
<1>9. Len(Tail(t)) <= Len(r)
  BY <1>2, <1>5, <1>6
<1> QED BY <1>6, <1>7, <1>8, <1>9 DEF Begins

LEMMA BeginsNone ==
  ASSUME NEW t, IsSeq(t), Begins(t, <<>>)
  PROVE  t = <<>>
<1>1. Len(t) \in Nat /\ Len(t) <= 0 /\ t \in Seq(ToSet(t))
  BY SeqFacts DEF Begins, IsSeq
<1> QED BY <1>1, EmptySeq

LEMMA LastChanged ==
  ASSUME NEW t, IsSeq(t), t # <<>>, NEW c
  PROVE  LET u == [t EXCEPT ![Len(t)] = c] IN
           /\ IsSeq(u) /\ Len(u) = Len(t) /\ DOMAIN u = DOMAIN t
           /\ Len(t) \in DOMAIN t /\ u[Len(t)] = c
           /\ \A k \in DOMAIN t : k # Len(t) => u[k] = t[k]
<1> DEFINE n == Len(t)
           u == [t EXCEPT ![n] = c]
<1>1. n \in Nat /\ DOMAIN t = 1..n /\ n # 0
  BY SeqFacts, EmptySeq DEF IsSeq
<1> HIDE DEF n
<1>2. n \in DOMAIN t
  BY <1>1
<1>3. DOMAIN u = 1..n /\ u[n] = c /\ \A k \in DOMAIN t : k # n => u[k] = t[k]
  BY <1>1, <1>2
<1>4. u = [k \in 1..n |-> u[k]]
  BY <1>1
<1>5. IsSeq(u) /\ Len(u) = n
  <2> HIDE DEF u
  <2> QED BY <1>1, <1>4, SeqOfFunction
<1> HIDE DEF u
<1>6. /\ IsSeq(u) /\ Len(u) = n /\ DOMAIN u = DOMAIN t
      /\ n \in DOMAIN t /\ u[n] = c
      /\ \A k \in DOMAIN t : k # n => u[k] = t[k]
  BY <1>1, <1>2, <1>3, <1>5
<1> QED BY <1>6 DEF n, u

LEMMA AppendedTo ==
  ASSUME NEW t, IsSeq(t), NEW c
  PROVE  /\ IsSeq(Append(t, c)) /\ Len(Append(t, c)) = Len(t) + 1
         /\ DOMAIN Append(t, c) = 1..Len(t) + 1
         /\ Append(t, c)[Len(t) + 1] = c
         /\ \A k \in DOMAIN t : Append(t, c)[k] = t[k]
<1> DEFINE S == ToSet(t) \cup {c}
<1>1. t \in Seq(ToSet(t)) /\ ToSet(t) \subseteq S /\ c \in S
  BY DEF IsSeq
<1> HIDE DEF S
<1>2. t \in Seq(S) /\ DOMAIN t = 1..Len(t) /\ Len(t) \in Nat
  BY <1>1, SeqMonotonic, SeqFacts
<1>3. /\ Append(t, c) \in Seq(S) /\ Len(Append(t, c)) = Len(t) + 1
      /\ Append(t, c)[Len(t) + 1] = c
      /\ \A k \in 1..Len(t) : Append(t, c)[k] = t[k]
  BY <1>1, <1>2, AppendProperties
<1>4. DOMAIN Append(t, c) = 1..Len(t) + 1
  BY <1>3, LenProperties
<1> QED BY <1>2, <1>3, <1>4, IsSeqOf

(* What was read of the channels s, up to l streams of program j of        *)
(* channel i.                                                              *)
SameSoFar(t, s) ==
  /\ Len(t) <= Len(s)
  /\ \A i \in DOMAIN t :
       /\ SameChannel(t[i], s[i])
       /\ i < Len(t) => Len(t[i].programs) = Len(s[i].programs)

IsReadUpTo(t, s, i, j, l) ==
  /\ IsPlace(s, i, j, l) /\ SameSoFar(t, s)
  /\ i = Len(t)
  /\ i # 0 => j = Len(t[i].programs)
  /\ i # 0 /\ j # 0 => l = Len(t[i].programs[j].streams)

IsRead(t, s, rest) ==
  \E i, j, l : IsReadUpTo(t, s, i, j, l) /\ Begins(rest, LinesFrom(s, i, j, l))

(* The last channel, changed to one that is still as it was saved.         *)
LEMMA LastChannelRead ==
  ASSUME NEW t, AreChannels(t), t # <<>>, NEW s, SameSoFar(t, s),
         NEW c, IsChannel(c), SameChannel(c, s[Len(t)])
  PROVE  LET u == [t EXCEPT ![Len(t)] = c] IN
           AreChannels(u) /\ SameSoFar(u, s) /\ Len(u) = Len(t) /\ u[Len(t)] = c
<1> DEFINE n == Len(t)
           u == [t EXCEPT ![n] = c]
<1>1. /\ IsSeq(u) /\ Len(u) = n /\ DOMAIN u = DOMAIN t
      /\ n \in DOMAIN t /\ u[n] = c
      /\ \A k \in DOMAIN t : k # n => u[k] = t[k]
  BY LastChanged DEF AreChannels
<1> HIDE DEF u
<1>2. AreChannels(u)
  BY <1>1 DEF AreChannels
<1>3. SameSoFar(u, s)
  <2>1. Len(u) <= Len(s)
    BY <1>1 DEF SameSoFar
  <2>2. ASSUME NEW k \in DOMAIN u
        PROVE  SameChannel(u[k], s[k]) /\ (k < Len(u) => Len(u[k].programs) = Len(s[k].programs))
    <3>0. n \in Nat
      BY SeqFacts DEF AreChannels
    <3>1. CASE k = n
      BY <1>1, <3>0, <3>1
    <3>2. CASE k # n
      BY <1>1, <2>2, <3>2 DEF SameSoFar
    <3> QED BY <3>1, <3>2
  <2> QED BY <2>1, <2>2 DEF SameSoFar
<1> QED BY <1>1, <1>2, <1>3 DEF u, n

(* A channel of which only the programs change.                            *)
LEMMA ProgramsChanged ==
  ASSUME NEW c, IsChannel(c), NEW ps, IsSeq(ps),
         \A j \in DOMAIN ps : IsProgram(ps[j]) /\ ps[j].n = j - 1
  PROVE  LET d == [c EXCEPT !.programs = ps] IN
           /\ IsChannel(d) /\ d.programs = ps
           /\ d.type = c.type /\ d.n = c.n /\ d.f = c.f /\ d.p = c.p
<1> DEFINE d == [c EXCEPT !.programs = ps]
<1>1. /\ DOMAIN d = DOMAIN c /\ d.programs = ps
      /\ d.type = c.type /\ d.n = c.n /\ d.f = c.f /\ d.p = c.p
  BY DEF IsChannel
<1> HIDE DEF d
<1>2. IsChannel(d)
  BY <1>1 DEF IsChannel
<1> QED BY <1>1, <1>2 DEF d

(* What is loaded of the line of a program, of a stream and of a channel.  *)
LEMMA LoadedProgramIs ==
  ASSUME NEW p, IsProgram(p)
  PROVE  LET q == LoadedProgram(ProgramLine(p)) IN
           /\ IsProgram(q) /\ SameProgram(q, p) /\ q.streams = <<>>
           /\ q.n = p.n /\ ProgramLine(p).user_number = p.user_number
<1> DEFINE q == LoadedProgram(ProgramLine(p))
<1>1. /\ DOMAIN q = {"n", "provider", "service", "number", "user_number", "streams"}
      /\ q.n = p.n /\ q.number = p.number /\ q.user_number = p.user_number /\ q.streams = <<>>
      /\ q.provider = TextCreate(ToUtf8(p.provider)) /\ q.service = TextCreate(ToUtf8(p.service))
      /\ ProgramLine(p).user_number = p.user_number
  BY DEF LoadedProgram, ProgramLine
<1> HIDE DEF q
<1>2. p.provider \in Seq(Nat) /\ p.service \in Seq(Nat) /\ p.user_number \in Nat /\ Len(p.streams) \in Nat
  BY SeqFacts DEF IsProgram
<1>3. q.provider \in Seq(Nat) /\ q.service \in Seq(Nat)
  BY <1>1, <1>2, ToUtf8Bytes, TextCreateIs
<1>4. SameName(q.provider, p.provider) /\ SameName(q.service, p.service)
  BY <1>1, <1>2, AsciiKept DEF SameName
<1>5. IsSeq(<<>>) /\ Len(<<>>) = 0 /\ DOMAIN <<>> = {}
  BY DEF IsSeq
<1>6. IsProgram(q)
  BY <1>1, <1>2, <1>3, <1>5 DEF IsProgram
<1>7. SameProgram(q, p)
  <2>1. Len(q.streams) <= Len(p.streams) /\ DOMAIN q.streams = {}
    BY <1>1, <1>2, <1>5
  <2> QED BY <1>1, <1>4, <2>1 DEF SameProgram
<1> QED BY <1>1, <1>6, <1>7 DEF q

LEMMA LoadedStreamIs ==
  ASSUME NEW q, IsProgram(q), NEW p, IsProgram(p), SameProgram(q, p),
         Len(q.streams) < Len(p.streams)
  PROVE  LET k == Len(q.streams) + 1
             r == WithStream(q, LoadedStream(StreamLine(p.streams[k])))
         IN  IsProgram(r) /\ SameProgram(r, p) /\ Len(r.streams) = k /\ r.n = q.n
<1> DEFINE k == Len(q.streams) + 1
           x == LoadedStream(StreamLine(p.streams[k]))
           r == WithStream(q, x)
<1>1. /\ DOMAIN r = DOMAIN q /\ r.streams = Append(q.streams, x)
      /\ r.n = q.n /\ r.number = q.number /\ r.user_number = q.user_number
      /\ r.provider = q.provider /\ r.service = q.service
  BY DEF WithStream, IsProgram
<1>2. x.pid = p.streams[k].pid
  BY DEF LoadedStream, StreamLine
<1> HIDE DEF r, x
<1>3. IsSeq(q.streams) /\ Len(q.streams) \in Nat /\ Len(p.streams) \in Nat /\ DOMAIN q.streams = 1..Len(q.streams)
  BY SeqFacts DEF IsProgram
<1>4. /\ IsSeq(r.streams) /\ Len(r.streams) = k /\ DOMAIN r.streams = 1..k
      /\ r.streams[k] = x /\ \A m \in DOMAIN q.streams : r.streams[m] = q.streams[m]
  BY <1>1, <1>3, AppendedTo
<1>5. IsProgram(r)
  BY <1>1, <1>4 DEF IsProgram
<1>6. \A m \in DOMAIN r.streams : r.streams[m].pid = p.streams[m].pid
  <2> SUFFICES ASSUME NEW m \in DOMAIN r.streams PROVE r.streams[m].pid = p.streams[m].pid
    OBVIOUS
  <2>1. CASE m = k
    BY <1>2, <1>4, <2>1
  <2>2. CASE m # k
    <3>1. m \in DOMAIN q.streams
      BY <1>3, <1>4, <2>2
    <3> QED BY <1>4, <3>1 DEF SameProgram
  <2> QED BY <2>1, <2>2
<1>7. Len(r.streams) <= Len(p.streams)
  BY <1>3, <1>4
<1>8. SameProgram(r, p)
  BY <1>1, <1>6, <1>7 DEF SameProgram
<1> QED BY <1>1, <1>4, <1>5, <1>8 DEF r, x, k

LEMMA LoadedChannelIs ==
  ASSUME NEW c, IsChannel(c), NEW id
  PROVE  LET line == ChannelLine(c)
             d    == NewChannel(id, [line EXCEPT !.p = Parsed(line)])
         IN  IsChannel(d) /\ SameChannel(d, c) /\ d.programs = <<>>
<1> DEFINE line == ChannelLine(c)
           d    == NewChannel(id, [line EXCEPT !.p = Parsed(line)])
<1>1. line.p = c.p
  BY DEF ChannelLine
<1>2. /\ DOMAIN d = {"id", "type", "n", "f", "p", "programs"}
      /\ d.type = c.type /\ d.n = c.n /\ d.f = c.f /\ d.p = Parsed(line) /\ d.programs = <<>>
  BY DEF ChannelLine, NewChannel
<1> HIDE DEF d, line
<1>3. IsSeq(<<>>) /\ Len(<<>>) = 0 /\ DOMAIN <<>> = {}
  BY DEF IsSeq
<1>4. IsChannel(d)
  BY <1>2, <1>3 DEF IsChannel
<1>5. \A k \in 1..7 : c.p[k] \in Listed[k] => d.p[k] = c.p[k]
  BY <1>1, <1>2, ParsedIs
<1>6. Len(c.programs) \in Nat
  BY SeqFacts DEF IsChannel
<1>7. SameChannel(d, c)
  BY <1>2, <1>3, <1>5, <1>6 DEF SameChannel
<1> QED BY <1>2, <1>4, <1>7 DEF d, line

(* A line of a stream adds it to the last program of the last channel,     *)
LEMMA StreamRead ==
  ASSUME NEW t, AreChannels(t), NEW s, AreChannels(s), NEW rest, IsSeq(rest), rest # <<>>, NEW id,
         NEW i, NEW j, NEW l, IsReadUpTo(t, s, i, j, l), Begins(rest, LinesFrom(s, i, j, l)),
         i # 0, j # 0, l < Len(s[i].programs[j].streams)
  PROVE  /\ Head(rest).kind = "stream"
         /\ AreChannels(WithLine(t, Head(rest), id)) /\ IsRead(WithLine(t, Head(rest), id), s, Tail(rest))
<1> DEFINE c == t[i]
           ps == c.programs
           q == ps[j]
           p == s[i].programs[j]
           line == StreamLine(p.streams[l + 1])
           r == WithStream(q, LoadedStream(line))
           qs == [ps EXCEPT ![j] = r]
           d == [c EXCEPT !.programs = qs]
           u == [t EXCEPT ![i] = d]
<1>1. IsPlace(s, i, j, l) /\ SameSoFar(t, s) /\ i = Len(t) /\ j = Len(ps) /\ l = Len(q.streams)
  BY DEF IsReadUpTo
<1>2. IsPlace(s, i, j, l + 1) /\ LinesFrom(s, i, j, l) = <<line>> \o LinesFrom(s, i, j, l + 1)
  <2>1. IsPlace(s, i, j, l)
    BY <1>1
  <2> QED BY <2>1, StreamNext
<1>3. Head(rest) = line /\ Begins(Tail(rest), LinesFrom(s, i, j, l + 1))
  <2>1. IsSeq(LinesFrom(s, i, j, l + 1))
    BY <1>2, LinesAtPlace
  <2> HIDE DEF line
  <2> QED BY <1>2, <2>1, BeginsNext
<1>4. t # <<>> /\ i \in DOMAIN t
  BY <1>1, SeqFacts, EmptySeq DEF AreChannels
<1>5. IsChannel(c) /\ SameChannel(c, s[i])
  BY <1>1, <1>4 DEF AreChannels, SameSoFar
<1>6. IsSeq(ps) /\ ps # <<>> /\ j \in DOMAIN ps
  BY <1>1, <1>5, SeqFacts, EmptySeq DEF IsChannel
<1>7. IsProgram(q) /\ q.n = j - 1 /\ SameProgram(q, p) /\ IsProgram(p)
  <2>1. IsProgram(p)
    BY <1>1, ChannelAtPlace
  <2> QED BY <1>5, <1>6, <2>1 DEF IsChannel, SameChannel
<1>8. IsProgram(r) /\ SameProgram(r, p) /\ Len(r.streams) = l + 1 /\ r.n = q.n
  BY <1>1, <1>7, LoadedStreamIs
<1> HIDE DEF r, p
<1>9. /\ IsSeq(qs) /\ Len(qs) = j /\ DOMAIN qs = DOMAIN ps /\ qs[j] = r
      /\ \A k \in DOMAIN ps : k # j => qs[k] = ps[k]
  BY <1>1, <1>6, LastChanged
<1> HIDE DEF qs
<1>10. \A k \in DOMAIN qs : IsProgram(qs[k]) /\ qs[k].n = k - 1 /\ SameProgram(qs[k], s[i].programs[k])
  BY <1>5, <1>7, <1>8, <1>9 DEF IsChannel, SameChannel, p
<1>11. /\ IsChannel(d) /\ d.programs = qs
       /\ d.type = c.type /\ d.n = c.n /\ d.f = c.f /\ d.p = c.p
  BY <1>5, <1>9, <1>10, ProgramsChanged
<1> HIDE DEF d
<1>12. SameChannel(d, s[i])
  <2>1. Len(d.programs) <= Len(s[i].programs)
    BY <1>1, <1>5, <1>9, <1>11 DEF SameChannel
  <2> QED BY <1>5, <1>10, <1>11, <2>1 DEF SameChannel
<1>13. AreChannels(u) /\ SameSoFar(u, s) /\ Len(u) = i /\ u[i] = d
  <2>1. SameChannel(d, s[Len(t)]) /\ SameSoFar(t, s) /\ t # <<>> /\ IsChannel(d)
    BY <1>1, <1>4, <1>11, <1>12
  <2> DEFINE v == [t EXCEPT ![Len(t)] = d]
  <2>2. AreChannels(v) /\ SameSoFar(v, s) /\ Len(v) = Len(t) /\ v[Len(t)] = d
    BY <2>1, LastChannelRead
  <2>3. u = v
    BY <1>1
  <2> HIDE DEF v, u
  <2> QED BY <1>1, <2>2, <2>3
<1>14. WithLine(t, line, id) = u
  <2>1. line.kind = "stream"
    BY DEF StreamLine
  <2>2. WithLine(t, line, id) =
          [t EXCEPT ![Len(t)] =
             [t[Len(t)] EXCEPT !.programs =
               [t[Len(t)].programs EXCEPT ![Len(t[Len(t)].programs)] =
                  WithStream(t[Len(t)].programs[Len(t[Len(t)].programs)], LoadedStream(line))]]]
    BY <2>1 DEF WithLine, InLast
  <2>3. i = Len(t) /\ j = Len(t[i].programs)
    BY <1>1
  <2> QED BY <2>2, <2>3 DEF d, qs, r
<1>15. IsReadUpTo(u, s, i, j, l + 1)
  BY <1>1, <1>2, <1>8, <1>9, <1>11, <1>13 DEF IsReadUpTo
<1>16. Head(rest).kind = "stream"
  BY <1>3 DEF StreamLine
<1> HIDE DEF u, line
<1> QED BY <1>3, <1>13, <1>14, <1>15, <1>16 DEF IsRead

(* that of a program adds it to the last channel,                          *)
LEMMA ProgramRead ==
  ASSUME NEW t, AreChannels(t), NEW s, AreChannels(s), NEW rest, IsSeq(rest), rest # <<>>, NEW id,
         NEW i, NEW j, NEW l, IsReadUpTo(t, s, i, j, l), Begins(rest, LinesFrom(s, i, j, l)),
         i # 0, j < Len(s[i].programs), j # 0 => l = Len(s[i].programs[j].streams)
  PROVE  /\ Head(rest).kind = "program" /\ Head(rest).user_number \in Nat
         /\ AreChannels(WithLine(t, Head(rest), id)) /\ IsRead(WithLine(t, Head(rest), id), s, Tail(rest))
<1> DEFINE c == t[i]
           ps == c.programs
           p == s[i].programs[j + 1]
           line == ProgramLine(p)
           r == LoadedProgram(line)
           qs == Append(ps, r)
           d == [c EXCEPT !.programs = qs]
           u == [t EXCEPT ![i] = d]
<1>1. IsPlace(s, i, j, l) /\ SameSoFar(t, s) /\ i = Len(t) /\ j = Len(ps)
  BY DEF IsReadUpTo
<1>2. IsPlace(s, i, j + 1, 0) /\ LinesFrom(s, i, j, l) = <<line>> \o LinesFrom(s, i, j + 1, 0)
  <2>1. IsPlace(s, i, j, l)
    BY <1>1
  <2> QED BY <2>1, ProgramNext
<1>3. Head(rest) = line /\ Begins(Tail(rest), LinesFrom(s, i, j + 1, 0))
  <2>1. IsSeq(LinesFrom(s, i, j + 1, 0))
    BY <1>2, LinesAtPlace
  <2> HIDE DEF line
  <2> QED BY <1>2, <2>1, BeginsNext
<1>4. t # <<>> /\ i \in DOMAIN t
  BY <1>1, SeqFacts, EmptySeq DEF AreChannels
<1>5. IsChannel(c) /\ SameChannel(c, s[i])
  BY <1>1, <1>4 DEF AreChannels, SameSoFar
<1>6. IsSeq(ps) /\ Len(ps) \in Nat /\ DOMAIN ps = 1..j /\ j \in Nat
  BY <1>1, <1>5, SeqFacts DEF IsChannel
<1>7. IsProgram(p) /\ p.n = j
  <2>1. IsChannel(s[i]) /\ DOMAIN s[i].programs = 1..Len(s[i].programs) /\ Len(s[i].programs) \in Nat
    BY <1>1, ChannelAtPlace
  <2>2. j + 1 \in DOMAIN s[i].programs /\ j + 1 - 1 = j
    BY <1>6, <2>1
  <2>3. ASSUME NEW all, \A k \in DOMAIN all : IsProgram(all[k]) /\ all[k].n = k - 1,
               NEW m \in DOMAIN all, m \in Int, m - 1 = j
        PROVE  IsProgram(all[m]) /\ all[m].n = j
    <3>1. IsProgram(all[m])
      BY <2>3
    <3>2. all[m].n = m - 1
      BY <2>3
    <3> QED BY <2>3, <3>1, <3>2
  <2>4. \A k \in DOMAIN s[i].programs :
          IsProgram(s[i].programs[k]) /\ s[i].programs[k].n = k - 1
    BY <2>1 DEF IsChannel
  <2>5. j + 1 \in Int
    BY <1>6
  <2>6. IsProgram(s[i].programs[j + 1]) /\ s[i].programs[j + 1].n = j
    <3> DEFINE g == s[i].programs
               e == j + 1
    <3>1. \A k \in DOMAIN g : IsProgram(g[k]) /\ g[k].n = k - 1
      BY <2>4
    <3>3. e \in DOMAIN g
      BY <2>2
    <3>4. e \in Int /\ e - 1 = j
      BY <1>6
    <3> HIDE DEF g, e
    <3>2. IsProgram(g[e]) /\ g[e].n = j
      BY <2>3, <3>1, <3>3, <3>4
    <3> QED BY <3>2 DEF g, e
  <2> QED BY <2>6
<1> HIDE DEF p
<1>8. IsProgram(r) /\ SameProgram(r, p) /\ r.streams = <<>> /\ r.n = j /\ line.user_number = p.user_number
  BY <1>7, LoadedProgramIs
<1> HIDE DEF r
<1>9. /\ IsSeq(qs) /\ Len(qs) = j + 1 /\ DOMAIN qs = 1..j + 1 /\ qs[j + 1] = r
      /\ \A k \in 1..j : qs[k] = ps[k]
  BY <1>1, <1>6, AppendedTo
<1> HIDE DEF qs
<1>10. ASSUME NEW k \in DOMAIN qs
       PROVE  IsProgram(qs[k]) /\ qs[k].n = k - 1 /\ SameProgram(qs[k], s[i].programs[k])
  <2>1. CASE k = j + 1
    BY <1>6, <1>8, <1>9, <2>1 DEF p
  <2>2. CASE k # j + 1
    <3>1. k \in 1..j /\ k \in DOMAIN ps
      BY <1>6, <1>9, <2>2
    <3> QED BY <1>5, <1>9, <3>1 DEF IsChannel, SameChannel
  <2> QED BY <2>1, <2>2
<1>11. /\ IsChannel(d) /\ d.programs = qs
       /\ d.type = c.type /\ d.n = c.n /\ d.f = c.f /\ d.p = c.p
  BY <1>5, <1>9, <1>10, ProgramsChanged
<1> HIDE DEF d
<1>12. SameChannel(d, s[i])
  <2>1. Len(d.programs) <= Len(s[i].programs)
    <3>1. Len(s[i].programs) \in Nat
      BY <1>1, ChannelAtPlace
    <3> QED BY <1>6, <1>9, <1>11, <3>1
  <2> QED BY <1>5, <1>10, <1>11, <2>1 DEF SameChannel
<1>13. AreChannels(u) /\ SameSoFar(u, s) /\ Len(u) = i /\ u[i] = d
  <2>1. SameChannel(d, s[Len(t)]) /\ SameSoFar(t, s) /\ t # <<>> /\ IsChannel(d)
    BY <1>1, <1>4, <1>11, <1>12
  <2> DEFINE v == [t EXCEPT ![Len(t)] = d]
  <2>2. AreChannels(v) /\ SameSoFar(v, s) /\ Len(v) = Len(t) /\ v[Len(t)] = d
    BY <2>1, LastChannelRead
  <2>3. u = v
    BY <1>1
  <2> HIDE DEF v, u
  <2> QED BY <1>1, <2>2, <2>3
<1>14. WithLine(t, line, id) = u
  <2>1. line.kind = "program"
    BY DEF ProgramLine
  <2>2. WithLine(t, line, id) = [t EXCEPT ![Len(t)] = WithProgram(t[Len(t)], LoadedProgram(line))]
    BY <2>1 DEF WithLine, InLast
  <2>3. WithProgram(c, r) = d
    BY DEF WithProgram, d, qs
  <2> QED BY <1>1, <2>2, <2>3 DEF r
<1>15. IsReadUpTo(u, s, i, j + 1, 0)
  <2>1. Len(<<>>) = 0
    OBVIOUS
  <2> QED BY <1>1, <1>2, <1>8, <1>9, <1>11, <1>13, <2>1 DEF IsReadUpTo
<1>16. Head(rest).kind = "program" /\ Head(rest).user_number \in Nat
  <2>1. Head(rest).kind = "program"
    BY <1>3 DEF ProgramLine
  <2>2. Head(rest).user_number = p.user_number
    BY <1>3, <1>8
  <2> QED BY <1>7, <2>1, <2>2 DEF IsProgram
<1> HIDE DEF u, line
<1> QED BY <1>3, <1>13, <1>14, <1>15, <1>16 DEF IsRead

(* and that of a channel adds it to the list.                              *)
LEMMA ChannelRead ==
  ASSUME NEW t, AreChannels(t), NEW s, AreChannels(s), NEW rest, IsSeq(rest), rest # <<>>, NEW id,
         NEW i, NEW j, NEW l, IsReadUpTo(t, s, i, j, l), Begins(rest, LinesFrom(s, i, j, l)),
         i < Len(s), i # 0 => j = Len(s[i].programs),
         i # 0 /\ j # 0 => l = Len(s[i].programs[j].streams)
  PROVE  /\ Head(rest).kind = "channel"
         /\ AreChannels(WithLine(t, Head(rest), id)) /\ IsRead(WithLine(t, Head(rest), id), s, Tail(rest))
<1> DEFINE c == s[i + 1]
           line == ChannelLine(c)
           d == NewChannel(id, [line EXCEPT !.p = Parsed(line)])
           u == Append(t, d)
<1>1. IsPlace(s, i, j, l) /\ SameSoFar(t, s) /\ i = Len(t) /\ (i # 0 => j = Len(t[i].programs))
  BY DEF IsReadUpTo
<1>2. IsPlace(s, i + 1, 0, 0) /\ LinesFrom(s, i, j, l) = <<line>> \o LinesFrom(s, i + 1, 0, 0)
  <2>1. IsPlace(s, i, j, l)
    BY <1>1
  <2> QED BY <2>1, ChannelNext
<1>3. Head(rest) = line /\ Begins(Tail(rest), LinesFrom(s, i + 1, 0, 0))
  <2>1. IsSeq(LinesFrom(s, i + 1, 0, 0))
    BY <1>2, LinesAtPlace
  <2> HIDE DEF line
  <2> QED BY <1>2, <2>1, BeginsNext
<1>4. IsSeq(t) /\ i \in Nat /\ DOMAIN t = 1..i /\ Len(s) \in Nat /\ DOMAIN s = 1..Len(s)
  BY <1>1, SeqFacts DEF AreChannels
<1>5. IsChannel(c)
  <2>1. i + 1 \in DOMAIN s
    BY <1>4
  <2> QED BY <2>1 DEF AreChannels
<1> HIDE DEF c
<1>6. IsChannel(d) /\ SameChannel(d, c) /\ d.programs = <<>>
  BY <1>5, LoadedChannelIs
<1> HIDE DEF d
<1>7. /\ IsSeq(u) /\ Len(u) = i + 1 /\ DOMAIN u = 1..i + 1 /\ u[i + 1] = d
      /\ \A k \in 1..i : u[k] = t[k]
  BY <1>1, <1>4, AppendedTo
<1>8. WithLine(t, line, id) = u
  BY DEF WithLine, ChannelLine, d
<1> HIDE DEF u
<1>9. AreChannels(u)
  <2> SUFFICES ASSUME NEW k \in DOMAIN u PROVE IsChannel(u[k])
    BY <1>7 DEF AreChannels
  <2>1. CASE k = i + 1
    BY <1>6, <1>7, <2>1
  <2>2. CASE k # i + 1
    <3>1. k \in 1..i
      BY <1>4, <1>7, <2>2
    <3> QED BY <1>4, <1>7, <3>1 DEF AreChannels
  <2> QED BY <2>1, <2>2
<1>10. SameSoFar(u, s)
  <2>1. Len(u) <= Len(s)
    BY <1>4, <1>7
  <2>2. ASSUME NEW k \in DOMAIN u
        PROVE  SameChannel(u[k], s[k]) /\ (k < Len(u) => Len(u[k].programs) = Len(s[k].programs))
    <3>1. CASE k = i + 1
      BY <1>4, <1>6, <1>7, <3>1 DEF c
    <3>2. CASE k # i + 1
      <4>1. k \in 1..i /\ k \in DOMAIN t /\ u[k] = t[k]
        BY <1>4, <1>7, <3>2
      <4>2. SameChannel(t[k], s[k]) /\ (k < Len(t) => Len(t[k].programs) = Len(s[k].programs))
        BY <1>1, <4>1 DEF SameSoFar
      <4>3. k < Len(t) \/ (k = i /\ i # 0)
        BY <1>1, <1>4, <4>1
      <4>4. k = i /\ i # 0 => Len(t[k].programs) = Len(s[k].programs)
        BY <1>1
      <4> QED BY <4>1, <4>2, <4>3, <4>4
    <3> QED BY <3>1, <3>2
  <2> QED BY <2>1, <2>2 DEF SameSoFar
<1>11. IsReadUpTo(u, s, i + 1, 0, 0)
  <2>1. Len(<<>>) = 0
    OBVIOUS
  <2> QED BY <1>2, <1>6, <1>7, <1>10, <2>1 DEF IsReadUpTo
<1>12. Head(rest).kind = "channel"
  BY <1>3 DEF ChannelLine
<1> HIDE DEF line
<1> QED BY <1>3, <1>8, <1>9, <1>11, <1>12 DEF IsRead

(* A line more of the file: what is loaded is still what was saved.        *)
LEMMA LineRead ==
  ASSUME NEW t, AreChannels(t), NEW s, AreChannels(s), NEW rest, IsSeq(rest), rest # <<>>, NEW id,
         IsRead(t, s, rest)
  PROVE  /\ IsSeq(Tail(rest))
         /\ Head(rest).kind = "program" => Head(rest).user_number \in Nat
         /\ AreChannels(WithLine(t, Head(rest), id)) /\ IsRead(WithLine(t, Head(rest), id), s, Tail(rest))
<1>1. PICK i, j, l : IsReadUpTo(t, s, i, j, l) /\ Begins(rest, LinesFrom(s, i, j, l))
  BY DEF IsRead
<1>2. IsPlace(s, i, j, l)
  BY <1>1 DEF IsReadUpTo
<1>3. Len(s) \in Nat /\ i \in 0..Len(s)
  BY <1>2, SeqFacts DEF IsPlace, AreChannels
<1>4. IsSeq(Tail(rest))
  <2>1. rest \in Seq(ToSet(rest))
    BY DEF IsSeq
  <2> QED BY <2>1, HeadTailProperties, IsSeqOf
<1>5. CASE i # 0 /\ j # 0 /\ l < Len(s[i].programs[j].streams)
  BY <1>1, <1>4, <1>5, StreamRead
<1>6. CASE i # 0 /\ j < Len(s[i].programs) /\ (j # 0 => l = Len(s[i].programs[j].streams))
  BY <1>1, <1>4, <1>6, ProgramRead
<1>7. CASE /\ i # 0 => j = Len(s[i].programs)
           /\ i # 0 /\ j # 0 => l = Len(s[i].programs[j].streams)
  <2>1. CASE i < Len(s)
    BY <1>1, <1>4, <1>7, <2>1, ChannelRead
  <2>2. CASE i = Len(s)
    <3>1. LinesFrom(s, i, j, l) = <<>>
      BY <1>2, <1>7, <2>2, NoneNext
    <3> QED BY <1>1, <3>1, BeginsNone
  <2> QED BY <1>3, <2>1, <2>2
<1>8. CASE i = 0
  BY <1>7, <1>8
<1>9. CASE i # 0
  <2>1. Len(s[i].programs) \in Nat /\ j \in 0..Len(s[i].programs)
    BY <1>2, <1>9, ChannelAtPlace DEF IsPlace
  <2>2. j # 0 => /\ Len(s[i].programs[j].streams) \in Nat
                 /\ l \in 0..Len(s[i].programs[j].streams)
    BY <1>2, <1>9, ChannelAtPlace DEF IsPlace
  <2> QED BY <1>5, <1>6, <1>7, <1>9, <2>1, <2>2
<1> QED BY <1>8, <1>9

-----------------------------------------------------------------------------
(* The numbers of the programs of a list                                   *)

NumbersDiffer(s) ==
  \A i, k \in DOMAIN s : \A j \in DOMAIN s[i].programs, l \in DOMAIN s[k].programs :
    s[i].programs[j].user_number = s[k].programs[l].user_number => i = k /\ j = l

NumbersBelow(s, m) ==
  \A i \in DOMAIN s : \A j \in DOMAIN s[i].programs : s[i].programs[j].user_number < m

OneChannelEach(s) ==
  \A i, k \in DOMAIN s : s[i].type = s[k].type /\ s[i].n = s[k].n => i = k

LEMMA NoChannels ==
  /\ AreChannels(<<>>) /\ NumbersDiffer(<<>>) /\ OneChannelEach(<<>>)
  /\ \A m : NumbersBelow(<<>>, m)
<1>1. IsSeq(<<>>) /\ DOMAIN <<>> = {}
  BY DEF IsSeq
<1> QED BY <1>1 DEF AreChannels, NumbersDiffer, OneChannelEach, NumbersBelow

(* The programs of a channel take the numbers from m on.                   *)
LEMMA NumberedIs ==
  ASSUME NEW c, IsChannel(c), NEW m \in Nat
  PROVE  LET d == Numbered(c, m) IN
           /\ IsChannel(d) /\ d.type = c.type /\ d.n = c.n
           /\ DOMAIN d.programs = DOMAIN c.programs
           /\ Len(c.programs) \in Nat /\ DOMAIN c.programs = 1..Len(c.programs)
           /\ \A j \in DOMAIN c.programs : d.programs[j].user_number = m + j - 1
<1> DEFINE ps == c.programs
           qs == [j \in DOMAIN ps |-> [ps[j] EXCEPT !.user_number = m + j - 1]]
           d == [c EXCEPT !.programs = qs]
<1>1. Len(ps) \in Nat /\ DOMAIN ps = 1..Len(ps)
  BY SeqFacts DEF IsChannel
<1>2. IsSeq(qs) /\ DOMAIN qs = DOMAIN ps
  <2>1. qs = [j \in 1..Len(ps) |-> qs[j]]
    BY <1>1
  <2> HIDE DEF qs
  <2> QED BY <1>1, <2>1, SeqOfFunction
<1>3. ASSUME NEW j \in DOMAIN ps
      PROVE  IsProgram(qs[j]) /\ qs[j].n = j - 1 /\ qs[j].user_number = m + j - 1
  <2>1. IsProgram(ps[j]) /\ ps[j].n = j - 1
    BY DEF IsChannel
  <2>2. m + j - 1 \in Nat
    BY <1>1
  <2>3. /\ DOMAIN qs[j] = DOMAIN ps[j] /\ qs[j].n = ps[j].n /\ qs[j].user_number = m + j - 1
        /\ qs[j].provider = ps[j].provider /\ qs[j].service = ps[j].service
        /\ qs[j].streams = ps[j].streams
    BY <2>1 DEF IsProgram
  <2> HIDE DEF qs
  <2> QED BY <2>1, <2>2, <2>3 DEF IsProgram
<1>4. Numbered(c, m) = d
  BY DEF Numbered
<1> HIDE DEF qs
<1>5. /\ IsChannel(d) /\ d.programs = qs
      /\ d.type = c.type /\ d.n = c.n
  BY <1>2, <1>3, ProgramsChanged
<1> HIDE DEF d
<1> QED BY <1>1, <1>2, <1>3, <1>4, <1>5

(* A channel that is added, numbered from the next number on.              *)
LEMMA ChannelAdded ==
  ASSUME NEW s, AreChannels(s), NEW c, IsChannel(c), NEW m \in Nat
  PROVE  LET u == Append(s, Numbered(c, m))
             k == m + Len(c.programs)
         IN  /\ AreChannels(u) /\ k \in Nat
             /\ NumbersDiffer(s) /\ NumbersBelow(s, m) => NumbersDiffer(u) /\ NumbersBelow(u, k)
             /\ OneChannelEach(s)
                  /\ (\A i \in DOMAIN s : ~(s[i].type = c.type /\ s[i].n = c.n))
                    => OneChannelEach(u)
<1> DEFINE d == Numbered(c, m)
           u == Append(s, d)
           k == m + Len(c.programs)
           last == Len(s) + 1
<1>1. /\ IsChannel(d) /\ d.type = c.type /\ d.n = c.n
      /\ DOMAIN d.programs = DOMAIN c.programs
      /\ Len(c.programs) \in Nat /\ DOMAIN c.programs = 1..Len(c.programs)
      /\ \A j \in DOMAIN c.programs : d.programs[j].user_number = m + j - 1
  BY NumberedIs
<1> HIDE DEF d
<1>2. Len(s) \in Nat /\ DOMAIN s = 1..Len(s)
  BY SeqFacts DEF AreChannels
<1>3. /\ IsSeq(u) /\ DOMAIN u = 1..last /\ u[last] = d
      /\ \A i \in DOMAIN s : u[i] = s[i]
  BY AppendedTo DEF AreChannels
<1> HIDE DEF u
<1>4. \A i \in DOMAIN u : (i \in DOMAIN s /\ u[i] = s[i]) \/ (i = last /\ u[i] = d)
  BY <1>2, <1>3
<1>5. AreChannels(u)
  BY <1>1, <1>3, <1>4 DEF AreChannels
<1>6. k \in Nat
  BY <1>1
<1>7. ASSUME NEW j \in DOMAIN d.programs
      PROVE  /\ d.programs[j].user_number \in Nat
             /\ m <= d.programs[j].user_number /\ d.programs[j].user_number < k
  <2>1. d.programs[j].user_number = m + j - 1 /\ j \in 1..Len(c.programs)
    BY <1>1
  <2> QED BY <1>1, <2>1
<1>8. ASSUME NEW i \in DOMAIN s, NEW j \in DOMAIN s[i].programs
      PROVE  s[i].programs[j].user_number \in Nat
  <2>1. IsChannel(s[i])
    BY DEF AreChannels
  <2> QED BY <2>1 DEF IsChannel, IsProgram
<1>9. ASSUME NumbersDiffer(s), NumbersBelow(s, m) PROVE NumbersDiffer(u) /\ NumbersBelow(u, k)
  <2>1. NumbersBelow(u, k)
    <3> SUFFICES ASSUME NEW i \in DOMAIN u, NEW j \in DOMAIN u[i].programs
                 PROVE  u[i].programs[j].user_number < k
      BY DEF NumbersBelow
    <3>1. CASE i = last /\ u[i] = d
      BY <1>7, <3>1
    <3>2. CASE i \in DOMAIN s /\ u[i] = s[i]
      <4>1. s[i].programs[j].user_number < m /\ s[i].programs[j].user_number \in Nat
        BY <1>8, <1>9, <3>2 DEF NumbersBelow
      <4>2. m <= k
        BY <1>1
      <4> HIDE DEF k
      <4> QED BY <1>6, <3>2, <4>1, <4>2
    <3> QED BY <1>4, <3>1, <3>2
  <2>2. NumbersDiffer(u)
    <3> SUFFICES ASSUME NEW a \in DOMAIN u, NEW b \in DOMAIN u,
                        NEW j \in DOMAIN u[a].programs, NEW l \in DOMAIN u[b].programs,
                        u[a].programs[j].user_number = u[b].programs[l].user_number
                 PROVE  a = b /\ j = l
      BY DEF NumbersDiffer
    <3>1. ASSUME NEW e \in DOMAIN s, NEW f \in DOMAIN s[e].programs, NEW g \in DOMAIN d.programs
          PROVE  s[e].programs[f].user_number # d.programs[g].user_number
      <4>1. s[e].programs[f].user_number < m /\ s[e].programs[f].user_number \in Nat
        BY <1>8, <1>9 DEF NumbersBelow
      <4> QED BY <1>7, <4>1
    <3>2. CASE (a \in DOMAIN s /\ u[a] = s[a]) /\ (b \in DOMAIN s /\ u[b] = s[b])
      BY <1>9, <3>2 DEF NumbersDiffer
    <3>3. CASE (a \in DOMAIN s /\ u[a] = s[a]) /\ (b = last /\ u[b] = d)
      BY <3>1, <3>3
    <3>4. CASE (a = last /\ u[a] = d) /\ (b \in DOMAIN s /\ u[b] = s[b])
      BY <3>1, <3>4
    <3>5. CASE (a = last /\ u[a] = d) /\ (b = last /\ u[b] = d)
      <4>1. d.programs[j].user_number = m + j - 1 /\ d.programs[l].user_number = m + l - 1
        BY <1>1, <3>5
      <4>2. j \in 1..Len(c.programs) /\ l \in 1..Len(c.programs)
        BY <1>1, <3>5
      <4>3. m + j - 1 = m + l - 1
        BY <3>5, <4>1
      <4>4. j = l
        BY <1>1, <4>2, <4>3
      <4> QED BY <3>5, <4>4
    <3> QED BY <1>4, <3>2, <3>3, <3>4, <3>5
  <2> QED BY <2>1, <2>2
<1>10. ASSUME OneChannelEach(s), \A i \in DOMAIN s : ~(s[i].type = c.type /\ s[i].n = c.n)
       PROVE  OneChannelEach(u)
  BY <1>1, <1>4, <1>10 DEF OneChannelEach
<1> QED BY <1>5, <1>6, <1>9, <1>10 DEF u, d

(* Some of the channels of a list.                                         *)
LEMMA SomeChannels ==
  ASSUME NEW s, AreChannels(s), NEW t, IsChannels(t),
         \A i \in DOMAIN t : \E k \in DOMAIN s : t[i] = s[k]
  PROVE  /\ AreChannels(t)
         /\ NumbersDiffer(s) => NumbersDiffer(t)
         /\ \A m : NumbersBelow(s, m) => NumbersBelow(t, m)
         /\ OneChannelEach(s) => OneChannelEach(t)
<1>1. AreChannels(t)
  BY DEF AreChannels, IsChannels
<1>2. ASSUME NEW a \in DOMAIN t, NEW b \in DOMAIN t, NEW k \in DOMAIN s, t[a] = s[k], t[b] = s[k]
      PROVE  a = b
  BY <1>2 DEF IsChannels
<1>3. ASSUME NumbersDiffer(s) PROVE NumbersDiffer(t)
  <2> SUFFICES ASSUME NEW a \in DOMAIN t, NEW b \in DOMAIN t,
                      NEW j \in DOMAIN t[a].programs, NEW l \in DOMAIN t[b].programs,
                      t[a].programs[j].user_number = t[b].programs[l].user_number
               PROVE  a = b /\ j = l
    BY DEF NumbersDiffer
  <2>1. PICK e \in DOMAIN s : t[a] = s[e]
    OBVIOUS
  <2>2. PICK f \in DOMAIN s : t[b] = s[f]
    OBVIOUS
  <2>3. e = f /\ j = l
    BY <1>3, <2>1, <2>2 DEF NumbersDiffer
  <2> QED BY <1>2, <2>1, <2>2, <2>3
<1>4. ASSUME NEW m, NumbersBelow(s, m) PROVE NumbersBelow(t, m)
  BY <1>4 DEF NumbersBelow
<1>5. ASSUME OneChannelEach(s) PROVE OneChannelEach(t)
  <2> SUFFICES ASSUME NEW a \in DOMAIN t, NEW b \in DOMAIN t,
                      t[a].type = t[b].type, t[a].n = t[b].n
               PROVE  a = b
    BY DEF OneChannelEach
  <2>1. PICK e \in DOMAIN s : t[a] = s[e]
    OBVIOUS
  <2>2. PICK f \in DOMAIN s : t[b] = s[f]
    OBVIOUS
  <2>3. e = f
    BY <1>5, <2>1, <2>2 DEF OneChannelEach
  <2> QED BY <1>2, <2>1, <2>2, <2>3
<1> QED BY <1>1, <1>3, <1>4, <1>5

(* What a file was written from and what is loaded of it.                  *)
LEMMA LoadedNumbers ==
  ASSUME NEW s, AreChannels(s), NEW t, AreChannels(t), SameSoFar(t, s)
  PROVE  /\ NumbersDiffer(s) => NumbersDiffer(t)
         /\ OneChannelEach(s) => OneChannelEach(t)
<1>1. /\ Len(s) \in Nat /\ DOMAIN s = 1..Len(s) /\ Len(t) \in Nat /\ DOMAIN t = 1..Len(t)
      /\ Len(t) <= Len(s)
  BY SeqFacts DEF AreChannels, SameSoFar
<1>2. ASSUME NEW i \in DOMAIN t
      PROVE  /\ i \in DOMAIN s /\ SameChannel(t[i], s[i])
             /\ IsChannel(t[i]) /\ IsChannel(s[i])
  <2>1. i \in DOMAIN s
    BY <1>1
  <2> QED BY <2>1 DEF SameSoFar, AreChannels
<1>3. ASSUME NEW i \in DOMAIN t, NEW j \in DOMAIN t[i].programs
      PROVE  /\ j \in DOMAIN s[i].programs
             /\ t[i].programs[j].user_number = s[i].programs[j].user_number
  <2>1. SameChannel(t[i], s[i]) /\ IsChannel(t[i]) /\ IsChannel(s[i])
    BY <1>2
  <2>2. /\ Len(s[i].programs) \in Nat /\ DOMAIN s[i].programs = 1..Len(s[i].programs)
        /\ Len(t[i].programs) \in Nat /\ DOMAIN t[i].programs = 1..Len(t[i].programs)
    BY <2>1, SeqFacts DEF IsChannel
  <2>3. Len(t[i].programs) <= Len(s[i].programs) /\ SameProgram(t[i].programs[j], s[i].programs[j])
    BY <2>1 DEF SameChannel
  <2>4. j \in DOMAIN s[i].programs
    BY <2>2, <2>3
  <2> QED BY <2>3, <2>4 DEF SameProgram
<1>4. ASSUME NumbersDiffer(s) PROVE NumbersDiffer(t)
  <2> SUFFICES ASSUME NEW a \in DOMAIN t, NEW b \in DOMAIN t,
                      NEW j \in DOMAIN t[a].programs, NEW l \in DOMAIN t[b].programs,
                      t[a].programs[j].user_number = t[b].programs[l].user_number
               PROVE  a = b /\ j = l
    BY DEF NumbersDiffer
  <2>1. a \in DOMAIN s /\ b \in DOMAIN s
    BY <1>2
  <2>2. /\ j \in DOMAIN s[a].programs /\ l \in DOMAIN s[b].programs
        /\ s[a].programs[j].user_number = s[b].programs[l].user_number
    BY <1>3
  <2> QED BY <1>4, <2>1, <2>2 DEF NumbersDiffer
<1>5. ASSUME OneChannelEach(s) PROVE OneChannelEach(t)
  BY <1>2, <1>5 DEF OneChannelEach, SameChannel
<1> QED BY <1>4, <1>5

(* The channel that a merge puts in the place of another.                  *)
LEMMA ChannelReplaced ==
  ASSUME NEW list, IsChannels(list.channels), AreChannels(list.channels), NEW c
  PROVE  LET left == Without(list.channels, Replaced(list, c)) IN
           /\ IsChannels(left)
           /\ \A i \in DOMAIN left : \E k \in DOMAIN list.channels : left[i] = list.channels[k]
           /\ OneChannelEach(list.channels) =>
                \A i \in DOMAIN left : ~(left[i].type = c.type /\ left[i].n = c.n)
<1> DEFINE s == list.channels
           gone == Replaced(list, c)
           left == Without(s, gone)
           IsC(d) == d.type = c.type /\ d.n = c.n
<1>0. gone = {i \in DOMAIN s : IsC(s[i]) /\ \A k \in DOMAIN s : IsC(s[k]) => i <= k}
  BY DEF Replaced, OfNumber
<1>1. DOMAIN s = 1..Len(s) /\ Len(s) \in Nat
  BY SeqFacts DEF AreChannels
<1>2. ASSUME OneChannelEach(s), NEW k \in DOMAIN s, IsC(s[k]) PROVE k \in gone
  <2>1. \A i \in DOMAIN s : IsC(s[i]) => k = i
    BY <1>2 DEF OneChannelEach
  <2>2. k <= k
    BY <1>1
  <2> HIDE DEF IsC, gone
  <2> QED BY <1>0, <1>2, <2>1, <2>2
<1> HIDE DEF gone
<1>3. CASE gone = {}
  <2>1. left = s
    BY <1>3 DEF Without
  <2> QED BY <1>2, <1>3, <2>1 DEF gone
<1>4. CASE gone # {}
  <2> DEFINE i == CHOOSE i \in gone : TRUE
  <2>1. i \in gone
    BY <1>4
  <2>2. left = RemoveAt(s, i)
    BY <1>4 DEF Without
  <2> HIDE DEF i, left
  <2>3. i \in DOMAIN s /\ \A k \in DOMAIN s : IsC(s[k]) => i <= k
    BY <1>0, <2>1
  <2>4. /\ IsChannels(left) /\ IdSet(left) = IdSet(s) \ {s[i].id}
        /\ \A a \in DOMAIN left : \E k \in DOMAIN s : left[a] = s[k]
    BY <2>2, <2>3, RemovedChannel
  <2>5. ASSUME OneChannelEach(s), NEW a \in DOMAIN left PROVE ~IsC(left[a])
    <3>1. PICK k \in DOMAIN s : left[a] = s[k]
      BY <2>4
    <3>2. left[a].id # s[i].id
      BY <2>4 DEF IdSet
    <3>3. k # i
      BY <3>1, <3>2
    <3>4. IsC(s[i])
      BY <1>0, <2>1
    <3> QED BY <2>3, <2>5, <3>1, <3>3, <3>4 DEF OneChannelEach
  <2> QED BY <2>4, <2>5 DEF left, gone
<1> QED BY <1>3, <1>4

(* The numbers after a move: that of the program at a place is to, the     *)
(* others are shifted.                                                     *)
LEMMA NumberShifted ==
  ASSUME NEW x \in Nat, NEW from \in Nat, NEW to \in Nat
  PROVE  /\ Shifted(x, from, to) \in Nat
         /\ \A m \in Nat : x < m /\ from < m => Shifted(x, from, to) < m
BY DEF Shifted

(* Two numbers other than that of the program that moves keep their        *)
(* order, and none takes the program's new number when it moves down.      *)
LEMMA ShiftedOrder ==
  ASSUME NEW x \in Nat, NEW y \in Nat, NEW from \in Nat, NEW to \in Nat,
         x # from, y # from
  PROVE  /\ x < y => Shifted(x, from, to) < Shifted(y, from, to)
         /\ Shifted(x, from, to) = Shifted(y, from, to) => x = y
         /\ to <= from => Shifted(x, from, to) # to
BY DEF Shifted

IsMoved(u, s, at, from, to) ==
  /\ DOMAIN u = DOMAIN s
  /\ \A i \in DOMAIN s :
       /\ u[i].type = s[i].type /\ u[i].n = s[i].n
       /\ DOMAIN u[i].programs = DOMAIN s[i].programs
       /\ \A j \in DOMAIN s[i].programs :
            /\ s[i].programs[j].user_number \in Nat
            /\ u[i].programs[j].user_number =
                 IF <<i, j>> = at THEN to
                 ELSE Shifted(s[i].programs[j].user_number, from, to)

LEMMA MovedIs ==
  ASSUME NEW s, AreChannels(s), NEW at, NEW from \in Nat, NEW to \in Nat
  PROVE  /\ AreChannels(Moved(s, at, from, to))
         /\ IsMoved(Moved(s, at, from, to), s, at, from, to)
<1> DEFINE u == Moved(s, at, from, to)
           N(i, j) == IF <<i, j>> = at THEN to
                      ELSE Shifted(s[i].programs[j].user_number, from, to)
           Q(i) == [j \in DOMAIN s[i].programs |->
                      [s[i].programs[j] EXCEPT !.user_number = N(i, j)]]
<1>1. u = [i \in DOMAIN s |-> [s[i] EXCEPT !.programs = Q(i)]]
  BY DEF Moved
<1>2. DOMAIN s = 1..Len(s) /\ Len(s) \in Nat /\ \A i \in DOMAIN s : IsChannel(s[i])
  BY SeqFacts DEF AreChannels
<1>3. IsSeq(u) /\ DOMAIN u = DOMAIN s
  <2>1. u = [i \in 1..Len(s) |-> u[i]]
    BY <1>1, <1>2
  <2> HIDE DEF u
  <2> QED BY <1>2, <2>1, SeqOfFunction
<1>4. ASSUME NEW i \in DOMAIN s
      PROVE  /\ IsChannel(u[i]) /\ u[i].type = s[i].type /\ u[i].n = s[i].n
             /\ DOMAIN u[i].programs = DOMAIN s[i].programs
             /\ \A j \in DOMAIN s[i].programs :
                  /\ s[i].programs[j].user_number \in Nat
                  /\ u[i].programs[j].user_number = N(i, j)
  <2> DEFINE c == s[i]
             ps == c.programs
             qs == Q(i)
  <2>1. IsChannel(c)
    BY <1>2
  <2>2. DOMAIN ps = 1..Len(ps) /\ Len(ps) \in Nat
    BY <2>1, SeqFacts DEF IsChannel
  <2>3. IsSeq(qs) /\ DOMAIN qs = DOMAIN ps
    <3>1. qs = [j \in 1..Len(ps) |-> qs[j]]
      BY <2>2
    <3> HIDE DEF qs
    <3> QED BY <2>2, <3>1, SeqOfFunction
  <2>4. ASSUME NEW j \in DOMAIN ps
        PROVE  /\ IsProgram(qs[j]) /\ qs[j].n = j - 1
               /\ ps[j].user_number \in Nat /\ qs[j].user_number = N(i, j)
    <3>1. IsProgram(ps[j]) /\ ps[j].n = j - 1
      BY <2>1 DEF IsChannel
    <3>2. ps[j].user_number \in Nat
      BY <3>1 DEF IsProgram
    <3>3. N(i, j) \in Nat
      BY <3>2, NumberShifted
    <3> DEFINE p == ps[j]
               v == N(i, j)
    <3>4. qs[j] = [p EXCEPT !.user_number = v]
      OBVIOUS
    <3> HIDE DEF p, v, qs, N
    <3>5. IsProgram(p) /\ p.n = j - 1 /\ v \in Nat
      BY <3>1, <3>3 DEF p, v
    <3> HIDE DEF p
    <3>6. /\ DOMAIN qs[j] = DOMAIN p /\ qs[j].n = p.n /\ qs[j].user_number = v
          /\ qs[j].provider = p.provider /\ qs[j].service = p.service
          /\ qs[j].streams = p.streams
      BY <3>4, <3>5 DEF IsProgram
    <3>7. IsProgram(qs[j])
      BY <3>5, <3>6 DEF IsProgram
    <3> QED BY <3>2, <3>5, <3>6, <3>7 DEF v
  <2> HIDE DEF N, Q
  <2>5. u[i] = [c EXCEPT !.programs = qs]
    BY <1>1
  <2>6. \A j \in DOMAIN qs : IsProgram(qs[j]) /\ qs[j].n = j - 1
    BY <2>3, <2>4
  <2> HIDE DEF qs, c, u
  <2>7. IsChannel(u[i]) /\ u[i].programs = qs /\ u[i].type = c.type /\ u[i].n = c.n
    BY <2>1, <2>3, <2>5, <2>6, ProgramsChanged
  <2> QED BY <2>3, <2>4, <2>7 DEF c
<1> HIDE DEF N, u
<1>5. AreChannels(u)
  BY <1>3, <1>4 DEF AreChannels
<1>6. IsMoved(u, s, at, from, to)
  BY <1>3, <1>4 DEF IsMoved, N
<1> QED BY <1>5, <1>6 DEF u

(* A program that moves down takes its number, and no other has it.        *)
LEMMA MovedNumbers ==
  ASSUME NEW s, AreChannels(s), NEW from \in Nat, NEW to \in Nat,
         NEW a \in DOMAIN s, NEW b \in DOMAIN s[a].programs, NEW at, at = <<a, b>>,
         s[a].programs[b].user_number = from, NumbersDiffer(s)
  PROVE  LET u == Moved(s, at, from, to) IN
           /\ to <= from => NumbersDiffer(u)
           /\ to <= from => \A m \in Nat : NumbersBelow(s, m) => NumbersBelow(u, m)
           /\ OneChannelEach(s) => OneChannelEach(u)
<1> DEFINE u == Moved(s, at, from, to)
<1>0. IsMoved(u, s, at, from, to)
  BY MovedIs
<1> HIDE DEF u
<1>1. /\ DOMAIN u = DOMAIN s
      /\ \A i \in DOMAIN s :
           /\ u[i].type = s[i].type /\ u[i].n = s[i].n
           /\ DOMAIN u[i].programs = DOMAIN s[i].programs
           /\ \A j \in DOMAIN s[i].programs :
                /\ s[i].programs[j].user_number \in Nat
                /\ u[i].programs[j].user_number =
                     IF <<i, j>> = at THEN to
                     ELSE Shifted(s[i].programs[j].user_number, from, to)
  BY <1>0 DEF IsMoved
<1>2. ASSUME NEW i \in DOMAIN s, NEW j \in DOMAIN s[i].programs, <<i, j>> # at
      PROVE  s[i].programs[j].user_number # from
  BY <1>2 DEF NumbersDiffer
<1>3. OneChannelEach(s) => OneChannelEach(u)
  BY <1>1 DEF OneChannelEach
<1>4. ASSUME to <= from, NEW m \in Nat, NumbersBelow(s, m) PROVE NumbersBelow(u, m)
  <2>1. from < m /\ to < m
    BY <1>4 DEF NumbersBelow
  <2> SUFFICES ASSUME NEW i \in DOMAIN s, NEW j \in DOMAIN s[i].programs
               PROVE  u[i].programs[j].user_number < m
    BY <1>1 DEF NumbersBelow
  <2>2. CASE <<i, j>> = at
    BY <1>1, <2>1, <2>2
  <2>3. CASE <<i, j>> # at
    <3>1. s[i].programs[j].user_number < m /\ s[i].programs[j].user_number \in Nat
      BY <1>1, <1>4 DEF NumbersBelow
    <3>2. Shifted(s[i].programs[j].user_number, from, to) < m
      BY <2>1, <3>1, NumberShifted
    <3> QED BY <1>1, <2>3, <3>2
  <2> QED BY <2>2, <2>3
<1>5. ASSUME to <= from PROVE NumbersDiffer(u)
  <2> SUFFICES ASSUME NEW i \in DOMAIN s, NEW k \in DOMAIN s,
                      NEW j \in DOMAIN s[i].programs, NEW l \in DOMAIN s[k].programs,
                      u[i].programs[j].user_number = u[k].programs[l].user_number
               PROVE  i = k /\ j = l
    BY <1>1 DEF NumbersDiffer
  <2> DEFINE x == s[i].programs[j].user_number
             y == s[k].programs[l].user_number
  <2>1. x \in Nat /\ y \in Nat
    BY <1>1
  <2>2. CASE <<i, j>> = at /\ <<k, l>> = at
    BY <2>2
  <2>3. CASE <<i, j>> = at /\ <<k, l>> # at
    <3>1. to = Shifted(y, from, to) /\ y # from
      BY <1>1, <1>2, <2>3
    <3> HIDE DEF x, y
    <3> QED BY <1>5, <2>1, <3>1, ShiftedOrder
  <2>4. CASE <<i, j>> # at /\ <<k, l>> = at
    <3>1. to = Shifted(x, from, to) /\ x # from
      BY <1>1, <1>2, <2>4
    <3> HIDE DEF x, y
    <3> QED BY <1>5, <2>1, <3>1, ShiftedOrder
  <2>5. CASE <<i, j>> # at /\ <<k, l>> # at
    <3>1. Shifted(x, from, to) = Shifted(y, from, to) /\ x # from /\ y # from
      BY <1>1, <1>2, <2>5
    <3>2. x = y
      <4> HIDE DEF x, y
      <4> QED BY <2>1, <3>1, ShiftedOrder
    <3> QED BY <3>2 DEF NumbersDiffer
  <2> QED BY <2>2, <2>3, <2>4, <2>5
<1> QED BY <1>3, <1>4, <1>5 DEF u

(* The lines of a list are all of it, from before its first channel on.    *)
LEMMA LinesAre ==
  ASSUME NEW s, AreChannels(s)
  PROVE  IsSeq(Lines(s)) /\ Lines(s) = LinesFrom(s, 0, 0, 0) /\ IsPlace(s, 0, 0, 0)
<1> DEFINE z == 0
<1>1. DOMAIN s = 1..Len(s) /\ Len(s) \in Nat /\ \A k \in 1..Len(s) : 0 + k = k
  BY SeqFacts DEF AreChannels
<1>2. Lines(s) = ChannelsFrom(s, 0)
  <2>1. [i \in DOMAIN s |-> ChannelLines(s[i])] = [k \in 1..Len(s) - 0 |-> ChannelLines(s[0 + k])]
    BY <1>1
  <2> QED BY <2>1 DEF Lines, ChannelsFrom
<1>3. IsSeq(ChannelsFrom(s, 0))
  BY <1>1, LinesOfChannels
<1>4. LinesFrom(s, 0, 0, 0) = <<>> \o (<<>> \o ChannelsFrom(s, 0))
  BY DEF LinesFrom, FromProgram, FromChannel
<1>5. <<>> \o (<<>> \o ChannelsFrom(s, 0)) = ChannelsFrom(s, 0)
  <2> DEFINE x == ChannelsFrom(s, 0)
  <2>1. IsSeq(x)
    BY <1>3
  <2> HIDE DEF x
  <2>2. <<>> \o x = x
    BY <2>1, JoinedToNone
  <2> QED BY <2>2 DEF x
<1>6. IsPlace(s, 0, 0, 0)
  BY <1>1 DEF IsPlace
<1> QED BY <1>2, <1>3, <1>4, <1>5, <1>6

(* Nothing is read yet.                                                    *)
LEMMA NothingRead ==
  ASSUME NEW s, AreChannels(s), NEW rest, Begins(rest, Lines(s))
  PROVE  IsRead(<<>>, s, rest)
<1>1. Lines(s) = LinesFrom(s, 0, 0, 0) /\ IsPlace(s, 0, 0, 0)
  BY LinesAre
<1>2. SameSoFar(<<>>, s)
  <2>1. Len(s) \in Nat
    BY SeqFacts DEF AreChannels
  <2> QED BY <2>1 DEF SameSoFar
<1>3. IsReadUpTo(<<>>, s, 0, 0, 0)
  BY <1>1, <1>2 DEF IsReadUpTo
<1> QED BY <1>1, <1>3 DEF IsRead

(* The first lines, and those that follow.                                 *)
Follows(r, t, s) ==
  Len(t) + Len(r) = Len(s) /\ \A k \in 1..Len(r) : r[k] = s[Len(t) + k]

(* A line more is written.                                                 *)
LEMMA LineWritten ==
  ASSUME NEW t, IsSeq(t), NEW r, IsSeq(r), r # <<>>, NEW s, IsSeq(s),
         Begins(t, s), Follows(r, t, s)
  PROVE  /\ IsSeq(Append(t, Head(r))) /\ IsSeq(Tail(r))
         /\ Begins(Append(t, Head(r)), s) /\ Follows(Tail(r), Append(t, Head(r)), s)
<1> DEFINE x == Head(r)
           u == Append(t, x)
           q == Tail(r)
<1>1. Len(t) \in Nat /\ DOMAIN t = 1..Len(t) /\ Len(s) \in Nat
  BY SeqFacts
<1>2. /\ Len(r) \in Nat /\ Len(r) # 0 /\ x = r[1]
      /\ IsSeq(q) /\ Len(q) = Len(r) - 1 /\ \A k \in 1..Len(q) : q[k] = r[k + 1]
  <2>1. r \in Seq(ToSet(r))
    BY DEF IsSeq
  <2>2. /\ q \in Seq(ToSet(r)) /\ Len(q) = Len(r) - 1 /\ \A k \in 1..Len(q) : q[k] = r[k + 1]
    BY <2>1, HeadTailProperties
  <2>3. Len(r) \in Nat /\ Len(r) # 0
    BY <2>1, EmptySeq
  <2>4. IsSeq(q)
    BY <2>2, IsSeqOf
  <2>5. x = r[1]
    OBVIOUS
  <2> HIDE DEF x, q
  <2> QED BY <2>2, <2>3, <2>4, <2>5
<1> HIDE DEF x, q
<1>3. /\ IsSeq(u) /\ Len(u) = Len(t) + 1 /\ u[Len(t) + 1] = x
      /\ \A k \in DOMAIN t : u[k] = t[k]
  BY AppendedTo
<1> HIDE DEF u
<1>4. Len(t) + Len(r) = Len(s) /\ \A k \in 1..Len(r) : r[k] = s[Len(t) + k]
  BY DEF Follows
<1>5. x = s[Len(t) + 1]
  <2>1. 1 \in 1..Len(r)
    BY <1>2
  <2> QED BY <1>2, <1>4, <2>1
<1>6. Begins(u, s)
  <2>1. Len(u) <= Len(s)
    BY <1>1, <1>2, <1>3, <1>4
  <2>2. ASSUME NEW k \in 1..Len(u) PROVE u[k] = s[k]
    <3>1. CASE k = Len(t) + 1
      BY <1>3, <1>5, <3>1
    <3>2. CASE k # Len(t) + 1
      <4>1. k \in DOMAIN t
        BY <1>1, <1>3, <3>2
      <4> QED BY <1>1, <1>3, <4>1 DEF Begins
    <3> QED BY <3>1, <3>2
  <2> QED BY <2>1, <2>2 DEF Begins
<1>7. Follows(q, u, s)
  <2>1. Len(u) + Len(q) = Len(s)
    <3>1. Len(u) = Len(t) + 1
      BY <1>3
    <3>2. Len(q) = Len(r) - 1 /\ Len(r) \in Nat
      BY <1>2
    <3>3. Len(t) + Len(r) = Len(s)
      BY <1>4
    <3> QED BY <1>1, <3>1, <3>2, <3>3
  <2>2. ASSUME NEW k \in 1..Len(q) PROVE q[k] = s[Len(u) + k]
    <3>1. k + 1 \in 1..Len(r) /\ Len(t) + (k + 1) = Len(u) + k
      BY <1>1, <1>2, <1>3
    <3>2. r[k + 1] = s[Len(t) + (k + 1)]
      BY <1>4, <3>1
    <3> QED BY <1>2, <3>1, <3>2
  <2> QED BY <2>1, <2>2 DEF Follows
<1> QED BY <1>2, <1>3, <1>6, <1>7 DEF u, q, x

-----------------------------------------------------------------------------
(* The invariant of the lists and of the file                              *)

(* The lists are channels, programs and streams, the programs of a channel *)
(* in the order of their indexes.                                          *)
ListsInv ==
  /\ AreChannels(dvb.channels) /\ AreChannels(found.channels) /\ AreChannels(saved)
  /\ dvb.user_number \in Nat
  /\ NumbersDiffer(found.channels)

(* The next number of a list is above its numbers until one is loaded: the *)
(* numbers of a file do not raise it enough (Raised).                      *)
TrustInv ==
  trusted =>
    /\ NumbersDiffer(dvb.channels) /\ OneChannelEach(dvb.channels)
    /\ NumbersDiffer(saved) /\ OneChannelEach(saved)
    /\ ~loaded => NumbersBelow(dvb.channels, dvb.user_number)
    /\ pc = "merging" => ~loaded

(* The file has the first lines of what was saved last, and what is loaded *)
(* of them is the first part of it.                                        *)
FileInv ==
  /\ IsSeq(disk) /\ IsSeq(todo)
  /\ Begins(disk, Lines(saved))
  /\ pc = "saving" => Follows(todo, disk, Lines(saved))
  /\ pc = "loading" => loaded /\ IsRead(dvb.channels, saved, todo)

StoredInv == OwnedOnceInv /\ ListsInv /\ TrustInv /\ FileInv

(* What is found is numbered from 1 on, in one turn of Recorded after      *)
(* another.                                                                *)
LEMMA AllottedIs ==
  ASSUME NEW c \in Air, NEW id, NEW d,
         d = [NewChannel(id, c) EXCEPT !.programs = c.programs]
  PROVE  IsChannel(d)
<1>1. c.programs \in Seq(FoundProgram) /\ \A j \in DOMAIN c.programs : c.programs[j].n = j - 1
  BY InfoDvbAssumption
<1>2. DOMAIN d = {"id", "type", "n", "f", "p", "programs"} /\ d.programs = c.programs
  BY DEF NewChannel
<1> DEFINE ps == c.programs
<1>3. IsSeq(ps) /\ \A j \in DOMAIN ps : ps[j] \in FoundProgram
  <2>1. ps \in Seq(FoundProgram)
    BY <1>1
  <2> HIDE DEF ps
  <2> QED BY <2>1, IsSeqOf
<1>4. ASSUME NEW p \in FoundProgram PROVE IsProgram(p)
  <2>1. IsSeq(p.streams)
    <3>1. p.streams \in Seq([n : Nat, pid : Nat])
      BY DEF FoundProgram
    <3> QED BY <3>1, IsSeqOf
  <2> QED BY <2>1 DEF FoundProgram, IsProgram
<1> QED BY <1>1, <1>2, <1>3, <1>4 DEF IsChannel

(* So no two programs that a search found have the same number.            *)
LEMMA RecordedNumbers ==
  ASSUME NEW n \in Nat, NEW cs \in [1..n -> Air], NEW id \in Nat
  PROVE  /\ AreChannels(Recorded(cs, id).channels)
         /\ NumbersDiffer(Recorded(cs, id).channels)
<1>1. Len(cs) = n
  BY SeqDef
<1>2. PICK g : IsRecordUpTo(cs, id, g, n) /\ Recorded(cs, id) = g[n]
  BY <1>1, RecordUpTo
<1> DEFINE Good(m) == /\ DOMAIN g[m] = {"channels", "user_number"}
                      /\ AreChannels(g[m].channels) /\ g[m].user_number \in Nat
                      /\ NumbersDiffer(g[m].channels)
                      /\ NumbersBelow(g[m].channels, g[m].user_number)
           G == {m \in Nat : Good(m)}
<1>3. Good(0)
  <2>1. g[0] = NewDvb
    BY <1>2 DEF IsRecordUpTo, RecordStep
  <2> QED BY <2>1, NoChannels DEF NewDvb
<1>4. ASSUME NEW m \in 0..n - 1, Good(m) PROVE Good(m + 1)
  <2> DEFINE c == Allotted(cs, id, m + 1)
             k == g[m].user_number
             s == g[m].channels
             u == Append(s, Numbered(c, k))
  <2>1. g[m + 1] = WithFound(g[m], c)
    <3>1. m + 1 \in 0..n /\ m + 1 # 0 /\ m + 1 - 1 = m
      OBVIOUS
    <3> QED BY <1>2, <3>1 DEF IsRecordUpTo, RecordStep
  <2>2. IsChannel(c)
    <3>1. cs[m + 1] \in Air
      <4>1. m + 1 \in 1..n
        OBVIOUS
      <4> QED BY <4>1
    <3>2. c = [NewChannel(id + (m + 1) - 1, cs[m + 1]) EXCEPT !.programs = cs[m + 1].programs]
      BY DEF Allotted
    <3> HIDE DEF c
    <3> QED BY <3>1, <3>2, AllottedIs
  <2> HIDE DEF c
  <2>3. /\ DOMAIN g[m + 1] = {"channels", "user_number"}
        /\ g[m + 1].channels = u
        /\ g[m + 1].user_number = k + Len(c.programs)
    BY <1>4, <2>1 DEF WithFound, Counted, WithChannel
  <2>4. k \in Nat /\ AreChannels(s) /\ NumbersDiffer(s) /\ NumbersBelow(s, k)
    BY <1>4
  <2> HIDE DEF k, s, Good
  <2>5. /\ AreChannels(u) /\ k + Len(c.programs) \in Nat
        /\ NumbersDiffer(u) /\ NumbersBelow(u, k + Len(c.programs))
    BY <2>2, <2>4, ChannelAdded
  <2> QED BY <2>3, <2>5 DEF Good
<1>5. Good(n)
  <2> HIDE DEF Good
  <2>1. 0 \in G /\ \A m \in 0..n - 1 : m \in G => m + 1 \in G
    BY <1>3, <1>4
  <2> HIDE DEF G
  <2>2. n \in G
    BY <2>1, UpTo, n \in 0..n
  <2> QED BY <2>2 DEF G
<1> QED BY <1>2, <1>5

LEMMA InitStored == Init => StoredInv
<1> SUFFICES ASSUME Init PROVE StoredInv
  OBVIOUS
<1>1. /\ dvb.channels = <<>> /\ dvb.user_number = 1 /\ found.channels = <<>>
      /\ saved = <<>> /\ disk = <<>> /\ todo = <<>> /\ pc = "client"
  BY DEF Init, NewDvb
<1>2. ListsInv /\ TrustInv
  BY <1>1, NoChannels DEF ListsInv, TrustInv
<1>3. FileInv
  <2>1. IsSeq(<<>>)
    BY DEF IsSeq
  <2>2. Begins(<<>>, Lines(saved))
    <3>1. Len(Lines(saved)) \in Nat
      BY <1>1, NoChannels, LinesAre, SeqFacts
    <3> QED BY <3>1 DEF Begins
  <2> QED BY <1>1, <2>1, <2>2 DEF FileInv
<1> QED BY <1>2, <1>3, InitOwned DEF StoredInv

LEMMA SearchedStored ==
  ASSUME StoredInv, NEW k \in 1..MaxFound, NEW cs \in [1..k -> Air], Searched(cs)
  PROVE  (ListsInv /\ TrustInv /\ FileInv)'
<1>1. k \in Nat /\ next_id \in Nat
  BY InfoDvbAssumption DEF StoredInv, OwnedOnceInv
<1>2. found' = Recorded(cs, next_id)
  BY DEF Searched
<1>3. AreChannels(found'.channels) /\ NumbersDiffer(found'.channels)
  BY <1>1, <1>2, RecordedNumbers
<1>4. UNCHANGED <<dvb, pc, disk, todo, saved, loaded, trusted>>
  BY DEF Searched
<1> QED BY <1>3, <1>4 DEF StoredInv, ListsInv, TrustInv, FileInv

(* A merge takes numbers from the next one on, which are new, and          *)
(* removes the only channel of the new one's type and number.              *)
LEMMA MergeStored ==
  ASSUME StoredInv, Merge
  PROVE  (ListsInv /\ TrustInv /\ FileInv)'
<1> DEFINE s == dvb.channels
           m == dvb.user_number
           c == Head(found.channels)
           left == Without(s, Replaced(dvb, c))
           u == Append(left, Numbered(c, m))
<1>1. /\ IsChannels(s) /\ AreChannels(s) /\ m \in Nat
      /\ IsChannels(found.channels) /\ AreChannels(found.channels) /\ NumbersDiffer(found.channels)
      /\ DOMAIN dvb = {"channels", "user_number"} /\ DOMAIN found = {"channels", "user_number"}
  BY DEF StoredInv, OwnedOnceInv, IsDvb, ListsInv
<1>2. /\ dvb'.channels = u /\ dvb'.user_number = m + Len(c.programs)
      /\ found'.channels = Tail(found.channels)
      /\ UNCHANGED <<pc, disk, todo, saved, loaded, trusted>>
  BY <1>1 DEF Merge, Counted, WithChannel, Renumbered
<1>3. pc = "merging" /\ found.channels # <<>>
  BY DEF Merge
<1>4. IsChannel(c)
  <2> DEFINE t == found.channels
  <2>1. AreChannels(t) /\ t # <<>> /\ c = t[1]
    BY <1>1, <1>3
  <2> HIDE DEF t, c
  <2>2. t \in Seq(ToSet(t)) /\ DOMAIN t = 1..Len(t) /\ Len(t) \in Nat
    BY <2>1, SeqFacts DEF AreChannels, IsSeq
  <2>3. 1 \in DOMAIN t
    BY <2>1, <2>2, EmptySeq
  <2> QED BY <2>1, <2>3 DEF AreChannels
<1>5. AreChannels(found'.channels) /\ NumbersDiffer(found'.channels)
  <2> DEFINE t == found.channels
             r == Tail(t)
  <2>1. AreChannels(t) /\ IsChannels(t) /\ t # <<>> /\ NumbersDiffer(t)
    BY <1>1, <1>3
  <2> HIDE DEF t
  <2>2. IsChannels(r) /\ \A i \in DOMAIN r : \E j \in DOMAIN t : r[i] = t[j]
    BY <2>1, TailChannels
  <2> HIDE DEF r
  <2>3. AreChannels(r) /\ NumbersDiffer(r)
    BY <2>1, <2>2, SomeChannels
  <2> QED BY <1>2, <2>3 DEF r, t
<1> HIDE DEF c
<1>6. /\ IsChannels(left)
      /\ \A i \in DOMAIN left : \E k \in DOMAIN s : left[i] = s[k]
      /\ OneChannelEach(s) => \A i \in DOMAIN left : ~(left[i].type = c.type /\ left[i].n = c.n)
  BY <1>1, ChannelReplaced
<1> HIDE DEF left, s, m
<1>7. /\ AreChannels(left)
      /\ NumbersDiffer(s) => NumbersDiffer(left)
      /\ NumbersBelow(s, m) => NumbersBelow(left, m)
      /\ OneChannelEach(s) => OneChannelEach(left)
  BY <1>1, <1>6, SomeChannels
<1>8. /\ AreChannels(u) /\ m + Len(c.programs) \in Nat
      /\ NumbersDiffer(left) /\ NumbersBelow(left, m) =>
           NumbersDiffer(u) /\ NumbersBelow(u, m + Len(c.programs))
      /\ OneChannelEach(left)
           /\ (\A i \in DOMAIN left : ~(left[i].type = c.type /\ left[i].n = c.n))
             => OneChannelEach(u)
  BY <1>1, <1>4, <1>7, ChannelAdded
<1> HIDE DEF u
<1>9. ListsInv'
  BY <1>2, <1>5, <1>8 DEF ListsInv, StoredInv
<1>10. TrustInv'
  <2> SUFFICES ASSUME trusted PROVE TrustInv'
    BY <1>2 DEF TrustInv
  <2>1. /\ NumbersDiffer(s) /\ OneChannelEach(s) /\ NumbersBelow(s, m) /\ ~loaded
        /\ NumbersDiffer(saved) /\ OneChannelEach(saved)
    BY <1>3 DEF StoredInv, TrustInv, s, m
  <2>2. NumbersDiffer(u) /\ NumbersBelow(u, m + Len(c.programs)) /\ OneChannelEach(u)
    BY <1>6, <1>7, <1>8, <2>1
  <2> QED BY <1>2, <2>1, <2>2 DEF TrustInv
<1>11. FileInv'
  BY <1>2, <1>3 DEF FileInv, StoredInv
<1> QED BY <1>9, <1>10, <1>11

LEMMA PlaceIs ==
  ASSUME NEW list, NEW at \in Places(list)
  PROVE  \E i \in DOMAIN list.channels : \E j \in DOMAIN list.channels[i].programs : at = <<i, j>>
BY DEF Places

(* The place of the program that moves.                                    *)
LEMMA PlaceMoved ==
  ASSUME NEW from, NEW at \in ByUserNumber(dvb, from)
  PROVE  \E i \in DOMAIN dvb.channels : \E j \in DOMAIN dvb.channels[i].programs :
           at = <<i, j>> /\ dvb.channels[i].programs[j].user_number = from
<1>1. at \in Places(dvb) /\ Program(dvb, at).user_number = from
  BY DEF ByUserNumber, First
<1>2. PICK i \in DOMAIN dvb.channels : \E j \in DOMAIN dvb.channels[i].programs : at = <<i, j>>
  BY <1>1, PlaceIs
<1>3. PICK j \in DOMAIN dvb.channels[i].programs : at = <<i, j>>
  BY <1>2
<1>4. dvb.channels[i].programs[j].user_number = from
  BY <1>1, <1>3 DEF Program
<1> QED BY <1>3, <1>4

(* A move down to a number shifts those from it up to the old one.         *)
LEMMA MoveChannelStored ==
  ASSUME StoredInv, NEW from \in 1..MaxNumber, NEW to \in 1..MaxNumber, MoveChannel(from, to)
  PROVE  (ListsInv /\ TrustInv /\ FileInv)'
<1> DEFINE s == dvb.channels
<1>1. PICK at \in ByUserNumber(dvb, from) : dvb' = [dvb EXCEPT !.channels = Moved(s, at, from, to)]
  BY DEF MoveChannel
<1>2. from \in Nat /\ to \in Nat
  OBVIOUS
<1>3. PICK a \in DOMAIN s : \E b \in DOMAIN s[a].programs :
        at = <<a, b>> /\ s[a].programs[b].user_number = from
  BY PlaceMoved
<1>4. PICK b \in DOMAIN s[a].programs : at = <<a, b>> /\ s[a].programs[b].user_number = from
  BY <1>3
<1> DEFINE u == Moved(s, at, from, to)
<1>5. AreChannels(s) /\ dvb.user_number \in Nat /\ DOMAIN dvb = {"channels", "user_number"}
  BY DEF StoredInv, ListsInv, OwnedOnceInv, IsDvb
<1>6. dvb'.channels = u /\ dvb'.user_number = dvb.user_number
  BY <1>1, <1>5
<1>7. /\ UNCHANGED <<found, pc, disk, todo, saved, loaded>>
      /\ trusted' = (trusted /\ to <= from) /\ pc = "client"
  BY DEF MoveChannel
<1> HIDE DEF s
<1>8. AreChannels(u)
  BY <1>2, <1>5, MovedIs
<1>9. NumbersDiffer(s) =>
        /\ to <= from => NumbersDiffer(u)
        /\ to <= from => \A m \in Nat : NumbersBelow(s, m) => NumbersBelow(u, m)
        /\ OneChannelEach(s) => OneChannelEach(u)
  BY <1>2, <1>4, <1>5, MovedNumbers
<1> HIDE DEF u
<1>10. ListsInv'
  BY <1>5, <1>6, <1>7, <1>8 DEF ListsInv, StoredInv
<1>11. TrustInv'
  <2> SUFFICES ASSUME trusted, to <= from PROVE TrustInv'
    BY <1>7 DEF TrustInv
  <2>1. /\ NumbersDiffer(s) /\ OneChannelEach(s)
        /\ ~loaded => NumbersBelow(s, dvb.user_number)
        /\ NumbersDiffer(saved) /\ OneChannelEach(saved)
    BY DEF StoredInv, TrustInv, s
  <2>2. NumbersDiffer(u) /\ OneChannelEach(u) /\ (~loaded => NumbersBelow(u, dvb.user_number))
    BY <1>5, <1>9, <2>1
  <2> QED BY <1>6, <1>7, <2>1, <2>2 DEF TrustInv
<1>12. FileInv'
  BY <1>7 DEF FileInv, StoredInv
<1> QED BY <1>10, <1>11, <1>12

(* The file is empty, and all the lines are still to be written.           *)
LEMMA SaveStartStored ==
  ASSUME StoredInv, NEW list \in {dvb, found}, SaveStart(list)
  PROVE  (ListsInv /\ TrustInv /\ FileInv)'
<1> DEFINE s == list.channels
<1>1. /\ UNCHANGED <<dvb, found, loaded>>
      /\ pc' = "saving" /\ disk' = <<>> /\ todo' = Lines(s) /\ saved' = s
      /\ trusted' = (trusted /\ OneOfEach(list))
  BY DEF SaveStart
<1>2. AreChannels(s)
  BY DEF StoredInv, ListsInv
<1>3. ListsInv'
  BY <1>1, <1>2 DEF ListsInv, StoredInv
<1>4. TrustInv'
  <2> SUFFICES ASSUME trusted, OneOfEach(list) PROVE TrustInv'
    BY <1>1 DEF TrustInv
  <2>1. OneChannelEach(s)
    BY DEF OneOfEach, OneChannelEach
  <2>2. NumbersDiffer(s)
    BY DEF StoredInv, ListsInv, TrustInv
  <2> QED BY <1>1, <2>1, <2>2 DEF TrustInv, StoredInv
<1>5. FileInv'
  <2> HIDE DEF s
  <2>1. IsSeq(Lines(s)) /\ Len(Lines(s)) \in Nat
    BY <1>2, LinesAre, SeqFacts
  <2>2. IsSeq(<<>>)
    BY DEF IsSeq
  <2>3. Begins(<<>>, Lines(s)) /\ Follows(Lines(s), <<>>, Lines(s))
    <3> DEFINE x == Lines(s)
    <3>1. Len(x) \in Nat
      BY <2>1
    <3> HIDE DEF x
    <3>2. Len(<<>>) = 0 /\ \A k \in 1..Len(x) : 0 + k = k
      BY <3>1
    <3>3. Begins(<<>>, x) /\ Follows(x, <<>>, x)
      BY <3>1, <3>2 DEF Begins, Follows
    <3> QED BY <3>3 DEF x
  <2> QED BY <1>1, <2>1, <2>2, <2>3 DEF FileInv
<1> QED BY <1>3, <1>4, <1>5

LEMMA SaveLineStored ==
  ASSUME StoredInv, SaveLine
  PROVE  (ListsInv /\ TrustInv /\ FileInv)'
<1>1. /\ pc = "saving" /\ todo # <<>>
      /\ disk' = Append(disk, Head(todo)) /\ todo' = Tail(todo)
      /\ UNCHANGED <<dvb, found, pc, saved, loaded, trusted>>
  BY DEF SaveLine
<1>2. IsSeq(Lines(saved))
  BY LinesAre DEF StoredInv, ListsInv
<1>3. IsSeq(disk) /\ IsSeq(todo) /\ Begins(disk, Lines(saved)) /\ Follows(todo, disk, Lines(saved))
  BY <1>1 DEF StoredInv, FileInv
<1>4. /\ IsSeq(disk') /\ IsSeq(todo')
      /\ Begins(disk', Lines(saved)) /\ Follows(todo', disk', Lines(saved))
  BY <1>1, <1>2, <1>3, LineWritten
<1>5. FileInv'
  BY <1>1, <1>4 DEF FileInv
<1> QED BY <1>1, <1>5 DEF StoredInv, ListsInv, TrustInv

(* Nothing is loaded, and all the lines of the file are to be read.        *)
LEMMA LoadStartStored ==
  ASSUME StoredInv, LoadStart
  PROVE  (ListsInv /\ TrustInv /\ FileInv)'
<1>1. /\ dvb = NewDvb /\ pc' = "loading" /\ todo' = disk /\ loaded' = TRUE
      /\ UNCHANGED <<dvb, found, disk, saved, trusted>>
  BY DEF LoadStart
<1>2. dvb.channels = <<>>
  BY <1>1 DEF NewDvb
<1>3. IsRead(<<>>, saved, disk)
  BY NothingRead DEF StoredInv, ListsInv, FileInv
<1>4. FileInv'
  BY <1>1, <1>2, <1>3 DEF FileInv, StoredInv
<1> QED BY <1>1, <1>4 DEF StoredInv, ListsInv, TrustInv

(* The numbers of what is loaded are those of what was saved.              *)
LEMMA LoadLineStored ==
  ASSUME StoredInv, LoadLine
  PROVE  (ListsInv /\ TrustInv /\ FileInv)'
<1> DEFINE line == Head(todo)
           t == dvb.channels
           u == WithLine(t, line, next_id)
<1>1. /\ pc = "loading" /\ todo # <<>> /\ todo' = Tail(todo)
      /\ dvb'.channels = u
      /\ dvb'.user_number = IF line.kind = "program"
                            THEN Raised(dvb.user_number, line.user_number)
                            ELSE dvb.user_number
      /\ UNCHANGED <<found, pc, disk, saved, loaded, trusted>>
  BY DEF LoadLine
<1>2. /\ AreChannels(t) /\ AreChannels(saved) /\ IsSeq(todo) /\ loaded
      /\ IsRead(t, saved, todo) /\ dvb.user_number \in Nat
  BY <1>1 DEF StoredInv, ListsInv, FileInv
<1> HIDE DEF t
<1>3. /\ IsSeq(Tail(todo)) /\ (line.kind = "program" => line.user_number \in Nat)
      /\ AreChannels(u) /\ IsRead(u, saved, Tail(todo))
  BY <1>1, <1>2, LineRead
<1> HIDE DEF line, u
<1>4. dvb'.user_number \in Nat
  BY <1>1, <1>2, <1>3 DEF Raised
<1>5. ListsInv'
  BY <1>1, <1>3, <1>4 DEF ListsInv, StoredInv
<1>6. FileInv'
  BY <1>1, <1>2, <1>3 DEF FileInv, StoredInv
<1>7. SameSoFar(u, saved)
  BY <1>3 DEF IsRead, IsReadUpTo
<1>8. TrustInv'
  <2> SUFFICES ASSUME trusted PROVE TrustInv'
    BY <1>1 DEF TrustInv
  <2>1. NumbersDiffer(saved) /\ OneChannelEach(saved)
    BY DEF StoredInv, TrustInv
  <2>2. NumbersDiffer(u) /\ OneChannelEach(u)
    BY <1>2, <1>3, <1>7, <2>1, LoadedNumbers
  <2> QED BY <1>1, <1>2, <2>1, <2>2 DEF TrustInv
<1> QED BY <1>5, <1>6, <1>8

LEMMA NextStored == StoredInv /\ [Next]_vars => StoredInv'
<1> SUFFICES ASSUME StoredInv, [Next]_vars PROVE (ListsInv /\ TrustInv /\ FileInv)'
  BY NextOwned DEF StoredInv
<1>0. NewDvb.channels = <<>> /\ NewDvb.user_number = 1
  BY DEF NewDvb
<1>1. CASE \E k \in 1..MaxFound : \E cs \in [1..k -> Air] : IsInjective(cs) /\ Searched(cs)
  BY <1>1, SearchedStored
<1>2. CASE FreeFound
  <2>1. found' = NewDvb /\ UNCHANGED <<dvb, pc, disk, todo, saved, loaded, trusted>>
    BY <1>2 DEF FreeFound
  <2> QED BY <1>0, <2>1, NoChannels DEF StoredInv, ListsInv, TrustInv, FileInv
<1>3. CASE MergeStart
  BY <1>3 DEF MergeStart, StoredInv, ListsInv, TrustInv, FileInv
<1>4. CASE Merge
  BY <1>4, MergeStored
<1>5. CASE MergeEnd
  <2>1. /\ found' = NewDvb /\ pc' = "client"
        /\ UNCHANGED <<dvb, disk, todo, saved, loaded, trusted>>
    BY <1>5 DEF MergeEnd
  <2> QED BY <1>0, <2>1, NoChannels DEF StoredInv, ListsInv, TrustInv, FileInv
<1>6. CASE \E from, to \in 1..MaxNumber : MoveChannel(from, to)
  BY <1>6, MoveChannelStored
<1>7. CASE \E list \in {dvb, found} : SaveStart(list)
  BY <1>7, SaveStartStored
<1>8. CASE SaveLine
  BY <1>8, SaveLineStored
<1>9. CASE LoadStart
  BY <1>9, LoadStartStored
<1>10. CASE LoadLine
  BY <1>10, LoadLineStored
<1>11. CASE FileEnd
  BY <1>11 DEF FileEnd, StoredInv, ListsInv, TrustInv, FileInv
<1>12. CASE Restart
  <2>1. /\ found' = NewDvb /\ dvb' = NewDvb /\ pc' = "client" /\ todo' = <<>>
        /\ UNCHANGED <<disk, saved, trusted>>
    BY <1>12 DEF Restart
  <2>2. IsSeq(<<>>)
    BY DEF IsSeq
  <2> QED BY <1>0, <2>1, <2>2, NoChannels DEF StoredInv, ListsInv, TrustInv, FileInv
<1>13. CASE UNCHANGED vars
  BY <1>13 DEF vars, StoredInv, ListsInv, TrustInv, FileInv
<1> QED
  BY <1>1, <1>2, <1>3, <1>4, <1>5, <1>6, <1>7, <1>8, <1>9, <1>10, <1>11, <1>12, <1>13 DEF Next

(* The invariant of the lists, the numbers and the file.                   *)
LEMMA StoredInvariant == Spec => []StoredInv
<1>1. Init => StoredInv
  BY InitStored
<1>2. StoredInv /\ [Next]_vars => StoredInv'
  BY NextStored
<1> QED BY <1>1, <1>2, PTL DEF Spec

-----------------------------------------------------------------------------
(* What the invariant shows                                                *)

(* A program that ends while it saves, and starts again, loads the first   *)
(* part of what it was saving, whatever the names, the lists of values and *)
(* the place where it ended: each program is in its channel, each stream   *)
(* in its program, and nothing that comes before is missing.               *)
THEOREM LoadedAsSavedCorrect == Spec => []LoadedAsSaved
<1>1. StoredInv => LoadedAsSaved
  <2> SUFFICES ASSUME StoredInv, pc = "loading" PROVE SameSoFar(dvb.channels, saved)
    BY DEF LoadedAsSaved, SameSoFar
  <2>1. IsRead(dvb.channels, saved, todo)
    BY DEF StoredInv, FileInv
  <2> QED BY <2>1 DEF IsRead, IsReadUpTo
<1> QED BY <1>1, StoredInvariant, PTL

LEMMA FirstOfOne ==
  ASSUME NEW a
  PROVE  First({a}) = {a}
BY DEF First

(* A number of a user and the name of a service lead to one program each,  *)
(* through any merges, moves, saves and loads, however many channels and   *)
(* programs there are, as long as nothing was merged into a loaded list,   *)
(* nothing moved up and no two channels of one number were saved.          *)
THEOREM EveryProgramIsFoundCorrect == Spec => []EveryProgramIsFound
<1>1. StoredInv => EveryProgramIsFound
  <2> DEFINE s == dvb.channels
  <2> SUFFICES ASSUME StoredInv, trusted, NEW at \in Places(dvb)
               PROVE  /\ ByUserNumber(dvb, Program(dvb, at).user_number) = {at}
                      /\ Find(dvb, s[at[1]].type, s[at[1]].n, Program(dvb, at).n) = {at}
    BY DEF EveryProgramIsFound
  <2>1. PICK i \in DOMAIN s : \E j \in DOMAIN s[i].programs : at = <<i, j>>
    BY PlaceIs
  <2>2. PICK j \in DOMAIN s[i].programs : at = <<i, j>>
    BY <2>1
  <2>3. AreChannels(s) /\ NumbersDiffer(s) /\ OneChannelEach(s)
    BY DEF StoredInv, ListsInv, TrustInv
  <2>4. at[1] = i /\ Program(dvb, at) = s[i].programs[j]
    BY <2>2 DEF Program
  <2>5. ASSUME NEW b \in Places(dvb)
        PROVE  \E k \in DOMAIN s : \E l \in DOMAIN s[k].programs :
                 b = <<k, l>> /\ b[1] = k /\ Program(dvb, b) = s[k].programs[l]
    <3>1. PICK k \in DOMAIN s : \E l \in DOMAIN s[k].programs : b = <<k, l>>
      BY PlaceIs
    <3>2. PICK l \in DOMAIN s[k].programs : b = <<k, l>>
      BY <3>1
    <3>3. b[1] = k /\ Program(dvb, b) = s[k].programs[l]
      BY <3>2 DEF Program
    <3> QED BY <3>2, <3>3
  <2>6. ByUserNumber(dvb, Program(dvb, at).user_number) = {at}
    <3> DEFINE S == {b \in Places(dvb) :
                       Program(dvb, b).user_number = Program(dvb, at).user_number}
    <3>1. ASSUME NEW b \in S PROVE b = at
      <4>1. PICK k \in DOMAIN s : \E l \in DOMAIN s[k].programs :
              b = <<k, l>> /\ b[1] = k /\ Program(dvb, b) = s[k].programs[l]
        BY <2>5
      <4>2. PICK l \in DOMAIN s[k].programs :
              b = <<k, l>> /\ Program(dvb, b) = s[k].programs[l]
        BY <4>1
      <4>3. s[k].programs[l].user_number = s[i].programs[j].user_number
        BY <2>4, <4>2
      <4>4. k = i /\ l = j
        BY <2>3, <4>3 DEF NumbersDiffer
      <4> QED BY <2>2, <4>2, <4>4
    <3>2. at \in S
      OBVIOUS
    <3>3. S = {at}
      <4> HIDE DEF S
      <4> QED BY <3>1, <3>2
    <3>4. ByUserNumber(dvb, Program(dvb, at).user_number) = First(S)
      BY DEF ByUserNumber
    <3> QED BY <3>3, <3>4, FirstOfOne
  <2>7. Find(dvb, s[at[1]].type, s[at[1]].n, Program(dvb, at).n) = {at}
    <3> DEFINE O == OfNumber(dvb, s[at[1]].type, s[at[1]].n)
               S == {b \in Places(dvb) :
                       /\ b[1] \in O
                       /\ \A k \in O : b[1] <= k
                       /\ Program(dvb, b).n = Program(dvb, at).n}
    <3>1. O = {i}
      BY <2>3, <2>4 DEF OfNumber, OneChannelEach
    <3>2. IsChannel(s[i]) /\ i \in Nat
      BY <2>3, SeqFacts DEF AreChannels
    <3>3. ASSUME NEW l \in DOMAIN s[i].programs
          PROVE  s[i].programs[l].n = l - 1 /\ l \in Nat
      BY <3>2, SeqFacts DEF IsChannel
    <3> HIDE DEF O
    <3>4. ASSUME NEW b \in S PROVE b = at
      <4>1. PICK k \in DOMAIN s : \E l \in DOMAIN s[k].programs :
              b = <<k, l>> /\ b[1] = k /\ Program(dvb, b) = s[k].programs[l]
        BY <2>5
      <4>2. PICK l \in DOMAIN s[k].programs :
              b = <<k, l>> /\ b[1] = k /\ Program(dvb, b) = s[k].programs[l]
        BY <4>1
      <4>3. k = i
        BY <3>1, <4>2
      <4>4. s[i].programs[l].n = s[i].programs[j].n /\ l \in DOMAIN s[i].programs
        BY <2>4, <4>2, <4>3
      <4>5. l - 1 = j - 1 /\ l \in Nat /\ j \in Nat
        BY <3>3, <4>4
      <4>6. l = j
        BY <4>5
      <4> QED BY <2>2, <4>2, <4>3, <4>6
    <3>5. at \in S
      BY <2>4, <3>1, <3>2
    <3>6. S = {at}
      <4> HIDE DEF S
      <4> QED BY <3>4, <3>5
    <3>7. Find(dvb, s[at[1]].type, s[at[1]].n, Program(dvb, at).n) = First(S)
      BY DEF Find, O
    <3> QED BY <3>6, <3>7, FirstOfOne
  <2> QED BY <2>6, <2>7
<1> QED BY <1>1, StoredInvariant, PTL

(* The programs that are not at a place keep their order in a step.        *)
InOrder(a) ==
  \A b, c \in Places(dvb) \ {a} :
    Program(dvb, b).user_number < Program(dvb, c).user_number
      => Program(dvb', b).user_number < Program(dvb', c).user_number

(* The program at the place found by its number is the one that moves.     *)
LEMMA MoveInOrder ==
  ASSUME StoredInv, trusted,
         NEW from \in 1..MaxNumber, NEW to \in 1..MaxNumber, MoveChannel(from, to)
  PROVE  \E a \in Places(dvb) \cup {<<0, 0>>} : InOrder(a)
<1> DEFINE s == dvb.channels
           u == dvb'.channels
<1>1. PICK at \in ByUserNumber(dvb, from) : dvb' = [dvb EXCEPT !.channels = Moved(s, at, from, to)]
  BY DEF MoveChannel
<1>2. from \in Nat /\ to \in Nat
  OBVIOUS
<1>3. at \in Places(dvb)
  BY DEF ByUserNumber, First
<1>4. PICK a \in DOMAIN s : \E b \in DOMAIN s[a].programs :
        at = <<a, b>> /\ s[a].programs[b].user_number = from
  BY PlaceMoved
<1>5. PICK b \in DOMAIN s[a].programs : at = <<a, b>> /\ s[a].programs[b].user_number = from
  BY <1>4
<1>6. AreChannels(s) /\ NumbersDiffer(s) /\ DOMAIN dvb = {"channels", "user_number"}
  BY DEF StoredInv, ListsInv, TrustInv, OwnedOnceInv, IsDvb
<1>7. IsMoved(u, s, at, from, to)
  <2>1. u = Moved(s, at, from, to)
    BY <1>1, <1>6
  <2> HIDE DEF s, u
  <2> QED BY <1>2, <1>6, <2>1, MovedIs
<1>8. ASSUME NEW p \in Places(dvb) \ {at}
      PROVE  /\ Program(dvb, p).user_number \in Nat /\ Program(dvb, p).user_number # from
             /\ Program(dvb', p).user_number = Shifted(Program(dvb, p).user_number, from, to)
  <2>1. PICK i \in DOMAIN s : \E j \in DOMAIN s[i].programs : p = <<i, j>>
    BY PlaceIs
  <2>2. PICK j \in DOMAIN s[i].programs : p = <<i, j>>
    BY <2>1
  <2>3. Program(dvb, p) = s[i].programs[j] /\ Program(dvb', p) = u[i].programs[j]
    BY <2>2 DEF Program
  <2>4. <<i, j>> # at
    BY <2>2
  <2>5. s[i].programs[j].user_number # from
    BY <1>5, <1>6, <2>4 DEF NumbersDiffer
  <2> HIDE DEF s, u
  <2>6. /\ s[i].programs[j].user_number \in Nat
        /\ u[i].programs[j].user_number = Shifted(s[i].programs[j].user_number, from, to)
    BY <1>7, <2>4 DEF IsMoved
  <2> QED BY <2>3, <2>5, <2>6
<1>9. InOrder(at)
  <2> SUFFICES ASSUME NEW p \in Places(dvb) \ {at}, NEW q \in Places(dvb) \ {at},
                      Program(dvb, p).user_number < Program(dvb, q).user_number
               PROVE  Program(dvb', p).user_number < Program(dvb', q).user_number
    BY DEF InOrder
  <2> DEFINE x == Program(dvb, p).user_number
             y == Program(dvb, q).user_number
  <2>1. x \in Nat /\ x # from /\ y \in Nat /\ y # from /\ x < y
    BY <1>8
  <2>2. Program(dvb', p).user_number = Shifted(x, from, to)
    BY <1>8
  <2>3. Program(dvb', q).user_number = Shifted(y, from, to)
    BY <1>8
  <2> HIDE DEF x, y
  <2>4. Shifted(x, from, to) < Shifted(y, from, to)
    BY <1>2, <2>1, ShiftedOrder
  <2> QED BY <2>2, <2>3, <2>4
<1> QED BY <1>3, <1>9

(* Two programs other than the one that moves keep their order, in every   *)
(* list without a number twice, whichever way the program moves and        *)
(* however many there are between.                                         *)
THEOREM OnlyOneMovesCorrect == Spec => OnlyOneMoves
<1> DEFINE Step == trusted /\ pc = "client" /\ pc' = "client" /\ Ids(dvb) = Ids(dvb)' =>
                     \E a \in Places(dvb) \cup {<<0, 0>>} : InOrder(a)
<1>1. StoredInv /\ [Next]_vars => Step
  <2> SUFFICES ASSUME StoredInv, [Next]_vars, trusted, pc = "client", pc' = "client",
                      Ids(dvb) = Ids(dvb)'
               PROVE  \E a \in Places(dvb) \cup {<<0, 0>>} : InOrder(a)
    OBVIOUS
  <2>1. ASSUME dvb' = dvb PROVE \E a \in Places(dvb) \cup {<<0, 0>>} : InOrder(a)
    <3>1. InOrder(<<0, 0>>)
      BY <2>1 DEF InOrder, Program
    <3> QED BY <3>1
  <2>2. CASE \E from, to \in 1..MaxNumber : MoveChannel(from, to)
    BY <2>2, MoveInOrder
  <2>3. CASE Restart
    <3>1. Ids(dvb)' = {}
      BY <2>3 DEF Restart, NewDvb, Ids
    <3>2. DOMAIN dvb.channels = {}
      BY <3>1 DEF Ids
    <3>3. Places(dvb) = {}
      BY <3>2 DEF Places
    <3>4. InOrder(<<0, 0>>)
      BY <3>3 DEF InOrder
    <3> QED BY <3>4
  <2>4. CASE \E k \in 1..MaxFound : \E cs \in [1..k -> Air] : IsInjective(cs) /\ Searched(cs)
    BY <2>1, <2>4 DEF Searched
  <2>5. CASE FreeFound
    BY <2>1, <2>5 DEF FreeFound
  <2>6. ~MergeStart /\ ~Merge /\ ~MergeEnd /\ ~SaveLine /\ ~LoadStart /\ ~LoadLine /\ ~FileEnd
    BY DEF MergeStart, Merge, MergeEnd, SaveLine, LoadStart, LoadLine, FileEnd
  <2>7. ~(\E list \in {dvb, found} : SaveStart(list))
    BY DEF SaveStart
  <2>8. CASE UNCHANGED vars
    BY <2>1, <2>8 DEF vars
  <2> QED BY <2>2, <2>3, <2>4, <2>5, <2>6, <2>7, <2>8 DEF Next
<1> QED
  BY <1>1, StoredInvariant, PTL DEF Spec, OnlyOneMoves, InOrder
=============================================================================
