--------------------------- MODULE Sections_proofs ---------------------------
(* Proofs that the memory of tables comes back, whatever sections come:    *)
(* see README.md, "What is proved".                                        *)
EXTENDS Sections, TLAPS, WellFoundedInduction, FiniteSetTheorems, SequenceTheorems

-----------------------------------------------------------------------------
(* Sums.  What SumFunction sums up, set by set.                            *)

LEMMA LeastIn ==
  ASSUME NEW S, S \subseteq Nat, S # {}
  PROVE  \E m \in S : \A k \in S : m <= k
<1>1. IsWellFoundedOn(OpToRel(<, Nat), Nat)
  BY NatLessThanWellFounded
<1>2. PICK m \in S : \A k \in S : ~(<<k, m>> \in OpToRel(<, Nat))
  BY <1>1, WFMin, Zenon
<1>3. \A k \in S : ~(k < m)
  BY <1>2 DEF OpToRel
<1>4. m \in Nat /\ \A k \in S : k \in Nat
  BY <1>2
<1>5. \A k \in S : m <= k
  BY <1>3, <1>4
<1> QED BY <1>2, <1>5

Pick(s) == CHOOSE x \in s : TRUE

SumStep(f, sum, s) == IF s = {} THEN 0 ELSE f[Pick(s)] + sum[s \ {Pick(s)}]

IsSums(f, sum, D) == sum = [s \in D |-> SumStep(f, sum, s)]

LEMMA SumFunctionIs ==
  ASSUME NEW f, IsFiniteSet(DOMAIN f)
  PROVE  \E sum : IsSums(f, sum, SUBSET DOMAIN f) /\ SumFunction(f) = sum[DOMAIN f]
<1> DEFINE S == DOMAIN f
           Upto(m) == {s \in SUBSET S : Cardinality(s) <= m}
           Lacking == {m \in Nat : ~ \E sum : IsSums(f, sum, Upto(m))}
<1>0. \A s \in SUBSET S : IsFiniteSet(s) /\ Cardinality(s) \in Nat /\ Cardinality(s) <= Cardinality(S)
  BY FS_Subset, FS_CardinalityType
<1>1. Lacking = {}
  <2> SUFFICES ASSUME Lacking # {} PROVE FALSE
    OBVIOUS
  <2>1. PICK m \in Lacking : \A k \in Lacking : m <= k
    BY LeastIn, Zenon
  <2>2. CASE m = 0
    <3> DEFINE sum == [s \in Upto(0) |-> 0]
    <3>1. \A s \in Upto(0) : s = {}
      BY <1>0, FS_EmptySet
    <3>2. sum = [s \in Upto(0) |-> SumStep(f, sum, s)]
      BY <3>1 DEF SumStep
    <3> QED BY <2>1, <2>2, <3>2 DEF IsSums
  <2>3. CASE m # 0
    <3>0. m \in Nat /\ \A k \in Lacking : m <= k
      BY <2>1
    <3>1. m \in Nat /\ m - 1 \in Nat /\ m - 1 \notin Lacking
      <4> HIDE DEF Lacking
      <4> QED BY <3>0, <2>3
    <3>2. PICK g : IsSums(f, g, Upto(m - 1))
      BY <3>1
    <3> DEFINE sum == [s \in Upto(m) |-> SumStep(f, g, s)]
    <3>3. \A s \in Upto(m) : s # {} => s \ {Pick(s)} \in Upto(m - 1)
      <4> TAKE s \in Upto(m)
      <4> HAVE s # {}
      <4>1. Pick(s) \in s
        BY DEF Pick
      <4>2. Cardinality(s \ {Pick(s)}) = Cardinality(s) - 1
        BY <4>1, <1>0, FS_RemoveElement
      <4> QED BY <4>2, <1>0, <3>1
    <3>4. \A s \in Upto(m - 1) : s \in Upto(m) /\ sum[s] = g[s]
      BY <3>1, <3>2, <1>0 DEF IsSums
    <3>5. \A s \in Upto(m) : sum[s] = SumStep(f, sum, s)
      <4> TAKE s \in Upto(m)
      <4>1. sum[s] = SumStep(f, g, s)
        OBVIOUS
      <4>2. CASE s = {}
        BY <4>1, <4>2 DEF SumStep
      <4>3. CASE s # {}
        <5>1. sum[s \ {Pick(s)}] = g[s \ {Pick(s)}]
          BY <4>3, <3>3, <3>4
        <5> QED BY <4>1, <4>3, <5>1 DEF SumStep
      <4> QED BY <4>2, <4>3
    <3>6. sum = [s \in Upto(m) |-> SumStep(f, sum, s)]
      BY <3>5
    <3> QED BY <2>1, <3>6 DEF IsSums
  <2> QED BY <2>2, <2>3
<1>2. Upto(Cardinality(S)) = SUBSET S /\ Cardinality(S) \in Nat
  BY <1>0, FS_CardinalityType
<1>3. PICK g : IsSums(f, g, SUBSET S)
  BY <1>1, <1>2
<1>4. SumFunction(f) = (CHOOSE sum : IsSums(f, sum, SUBSET S))[S]
  BY DEF SumFunction, SumFunctionOnSet, FoldFunctionOnSet, MapThenFoldSet, IsSums, SumStep, Pick
<1>5. IsSums(f, CHOOSE sum : IsSums(f, sum, SUBSET S), SUBSET S)
  BY <1>3
<1> QED BY <1>4, <1>5

(* A sum of numbers is a number, and of larger ones a larger one.          *)
LEMMA SumFunctionType ==
  ASSUME NEW f, IsFiniteSet(DOMAIN f), \A x \in DOMAIN f : f[x] \in Nat
  PROVE  SumFunction(f) \in Nat
<1>1. PICK sum : IsSums(f, sum, SUBSET DOMAIN f) /\ SumFunction(f) = sum[DOMAIN f]
  BY SumFunctionIs
<1> DEFINE Wrong == {s \in SUBSET DOMAIN f : sum[s] \notin Nat}
           Sizes == {n \in Nat : \E s \in Wrong : Cardinality(s) = n}
<1>2. \A s \in SUBSET DOMAIN f : IsFiniteSet(s) /\ Cardinality(s) \in Nat
  BY FS_Subset, FS_CardinalityType
<1>3. Wrong = {}
  <2> SUFFICES ASSUME Wrong # {} PROVE FALSE
    OBVIOUS
  <2>1. Sizes \subseteq Nat /\ Sizes # {}
    BY <1>2
  <2>2. PICK n \in Sizes : \A k \in Sizes : n <= k
    BY <2>1, LeastIn, Zenon
  <2>3. PICK s \in Wrong : Cardinality(s) = n
    OBVIOUS
  <2>4. sum[s] = SumStep(f, sum, s)
    BY <1>1 DEF IsSums
  <2>5. s # {}
    BY <2>3, <2>4 DEF SumStep
  <2>6. Pick(s) \in s
    BY <2>5 DEF Pick
  <2> DEFINE r == s \ {Pick(s)}
  <2>7. r \in SUBSET DOMAIN f /\ Cardinality(r) = n - 1
    BY <1>2, <2>3, <2>6, FS_RemoveElement
  <2>8. r \notin Wrong
    <3>1. n - 1 \notin Sizes
      <4>1. n \in Nat /\ \A k \in Sizes : n <= k
        BY <2>2
      <4> HIDE DEF Sizes
      <4> QED BY <4>1
    <3>2. n - 1 \in Nat
      BY <2>7, <1>2
    <3> QED BY <3>1, <3>2, <2>7
  <2>9. sum[r] \in Nat /\ f[Pick(s)] \in Nat
    BY <2>7, <2>8, <2>6, <2>3
  <2> QED BY <2>3, <2>4, <2>5, <2>9 DEF SumStep
<1> QED BY <1>1, <1>3

LEMMA SumFunctionMonotone ==
  ASSUME NEW f, NEW g, IsFiniteSet(DOMAIN f), DOMAIN g = DOMAIN f,
         \A x \in DOMAIN f : f[x] \in Nat /\ g[x] \in Nat /\ f[x] <= g[x]
  PROVE  SumFunction(f) <= SumFunction(g)
<1>1. PICK sum : IsSums(f, sum, SUBSET DOMAIN f) /\ SumFunction(f) = sum[DOMAIN f]
  BY SumFunctionIs
<1>2. PICK tum : IsSums(g, tum, SUBSET DOMAIN f) /\ SumFunction(g) = tum[DOMAIN f]
  BY SumFunctionIs
<1> DEFINE Right(s) == sum[s] \in Nat /\ tum[s] \in Nat /\ sum[s] <= tum[s]
           Wrong == {s \in SUBSET DOMAIN f : ~Right(s)}
           Sizes == {n \in Nat : \E s \in Wrong : Cardinality(s) = n}
<1>3. \A s \in SUBSET DOMAIN f : IsFiniteSet(s) /\ Cardinality(s) \in Nat
  BY FS_Subset, FS_CardinalityType
<1>4. Wrong = {}
  <2> SUFFICES ASSUME Wrong # {} PROVE FALSE
    OBVIOUS
  <2>1. Sizes \subseteq Nat /\ Sizes # {}
    BY <1>3
  <2>2. PICK n \in Sizes : \A k \in Sizes : n <= k
    BY <2>1, LeastIn, Zenon
  <2>3. PICK s \in Wrong : Cardinality(s) = n
    OBVIOUS
  <2>4. sum[s] = SumStep(f, sum, s) /\ tum[s] = SumStep(g, tum, s)
    BY <1>1, <1>2 DEF IsSums
  <2>5. s # {}
    BY <2>3, <2>4 DEF SumStep
  <2>6. Pick(s) \in s
    BY <2>5 DEF Pick
  <2> DEFINE r == s \ {Pick(s)}
  <2>7. r \in SUBSET DOMAIN f /\ Cardinality(r) = n - 1
    BY <1>3, <2>3, <2>6, FS_RemoveElement
  <2>8. Right(r)
    <3>1. n - 1 \notin Sizes
      <4>1. n \in Nat /\ \A k \in Sizes : n <= k
        BY <2>2
      <4> HIDE DEF Sizes
      <4> QED BY <4>1
    <3>2. n - 1 \in Nat
      BY <2>7, <1>3
    <3> QED BY <3>1, <3>2, <2>7
  <2>9. f[Pick(s)] \in Nat /\ g[Pick(s)] \in Nat /\ f[Pick(s)] <= g[Pick(s)]
    BY <2>6, <2>3
  <2>10. sum[s] = f[Pick(s)] + sum[r] /\ tum[s] = g[Pick(s)] + tum[r]
    BY <2>4, <2>5 DEF SumStep
  <2>11. ~Right(s)
    BY <2>3
  <2> HIDE DEF r
  <2> QED BY <2>8, <2>9, <2>10, <2>11
<1> QED BY <1>1, <1>2, <1>4

-----------------------------------------------------------------------------
(* Loops.  The places a loop comes to are numbers from its start on.       *)

From(o) == {p \in Nat : p >= o}

TurnStep(until, next, g, o) == IF o >= until THEN <<>> ELSE <<o>> \o g[next[o]]

IsTurns(until, next, g, D) == g = [o \in D |-> TurnStep(until, next, g, o)]

Advances(next) == next \in [Nat -> Nat] /\ \A o \in Nat : next[o] > o

LEMMA TurnsType ==
  ASSUME NEW from \in Nat, NEW until \in Int, NEW next, Advances(next)
  PROVE  Turns(from, until, next) \in Seq(From(from))
<1> DEFINE Near(m) == {o \in Nat : o + m >= until}
           Lacking == {m \in Nat : ~ \E g : IsTurns(until, next, g, Near(m))}
<1>1. Lacking = {}
  <2> SUFFICES ASSUME Lacking # {} PROVE FALSE
    OBVIOUS
  <2>1. PICK m \in Lacking : \A k \in Lacking : m <= k
    BY LeastIn, Zenon
  <2>2. CASE m = 0
    <3> DEFINE g == [o \in Near(0) |-> <<>>]
    <3>1. g = [o \in Near(0) |-> TurnStep(until, next, g, o)]
      BY DEF TurnStep
    <3> QED BY <2>1, <2>2, <3>1 DEF IsTurns
  <2>3. CASE m # 0
    <3>0. m \in Nat /\ \A k \in Lacking : m <= k
      BY <2>1
    <3>1. m \in Nat /\ m - 1 \in Nat /\ m - 1 \notin Lacking
      <4> HIDE DEF Lacking
      <4> QED BY <3>0, <2>3
    <3>2. PICK g : IsTurns(until, next, g, Near(m - 1))
      BY <3>1
    <3> DEFINE h == [o \in Near(m) |-> TurnStep(until, next, g, o)]
    <3>3. \A o \in Near(m) : next[o] \in Near(m - 1)
      BY <3>1 DEF Advances
    <3>4. \A o \in Near(m - 1) : o \in Near(m) /\ h[o] = g[o]
      BY <3>1, <3>2 DEF IsTurns
    <3>5. \A o \in Near(m) : h[o] = TurnStep(until, next, h, o)
      BY <3>3, <3>4 DEF TurnStep
    <3>6. h = [o \in Near(m) |-> TurnStep(until, next, h, o)]
      BY <3>5
    <3> QED BY <2>1, <3>6 DEF IsTurns
  <2> QED BY <2>2, <2>3
<1>2. \E g : IsTurns(until, next, g, Nat)
  <2>1. CASE until \in Nat
    <3>1. Near(until) = Nat
      BY <2>1
    <3> QED BY <1>1, <2>1, <3>1
  <2>2. CASE until \notin Nat
    <3>1. Near(0) = Nat
      BY <2>2
    <3> QED BY <1>1, <3>1
  <2> QED BY <2>1, <2>2
<1> DEFINE turns == CHOOSE g : IsTurns(until, next, g, Nat)
<1>3. Turns(from, until, next) = turns[from]
  BY DEF Turns, IsTurns, TurnStep
<1>4. IsTurns(until, next, turns, Nat)
  BY <1>2
<1> HIDE DEF turns
<1> DEFINE Wrong == {o \in Nat : turns[o] \notin Seq(From(o))}
           Far == {n \in Nat : \E o \in Wrong : until - o = n}
<1>5. \A o \in Wrong : o \in Nat /\ o < until /\ turns[o] = <<o>> \o turns[next[o]]
  <2> TAKE o \in Wrong
  <2>1. turns[o] = TurnStep(until, next, turns, o)
    BY <1>4 DEF IsTurns
  <2>2. turns[o] # <<>>
    BY EmptySeq
  <2> QED BY <2>1, <2>2 DEF TurnStep
<1>5a. \A o \in Wrong : o \in Nat /\ o < until
  BY <1>5
<1>6. Wrong = {}
  <2> SUFFICES ASSUME Wrong # {} PROVE FALSE
    OBVIOUS
  <2>1. Far \subseteq Nat /\ Far # {}
    <3>1. \A o \in Wrong : until - o \in Nat
      <4> TAKE o \in Wrong
      <4>1. o \in Nat /\ o < until
        BY <1>5a
      <4> HIDE DEF Wrong
      <4> QED BY <4>1
    <3>2. Far \subseteq Nat
      OBVIOUS
    <3>3. PICK o \in Wrong : TRUE
      OBVIOUS
    <3>4. until - o \in Far
      BY <3>1, <3>3
    <3> QED BY <3>2, <3>4
  <2>2. PICK n \in Far : \A k \in Far : n <= k
    BY <2>1, LeastIn, Zenon
  <2>3. PICK o \in Wrong : until - o = n
    OBVIOUS
  <2>4. o \in Nat /\ next[o] \in Nat /\ next[o] > o
    BY <2>3 DEF Advances
  <2>5. next[o] \notin Wrong
    <3> SUFFICES ASSUME next[o] \in Wrong PROVE FALSE
      OBVIOUS
    <3>1. next[o] < until
      BY <1>5
    <3>2. until - next[o] \in Far
      BY <3>1, <2>4
    <3>3. n <= until - next[o]
      BY <3>2, <2>2
    <3> QED BY <3>3, <2>3, <2>4
  <2>6. turns[next[o]] \in Seq(From(next[o]))
    BY <2>4, <2>5
  <2>7. turns[next[o]] \in Seq(From(o)) /\ <<o>> \in Seq(From(o))
    <3>1. From(next[o]) \subseteq From(o)
      BY <2>4 DEF From
    <3>2. turns[next[o]] \in Seq(From(o))
      BY <2>6, <3>1, SeqMonotonic
    <3>3. o \in From(o)
      BY <2>4 DEF From
    <3> QED BY <3>2, <3>3
  <2>8. <<o>> \o turns[next[o]] \in Seq(From(o))
    BY <2>7, ConcatProperties
  <2> QED BY <2>3, <2>8, <1>5
<1> QED BY <1>3, <1>6

-----------------------------------------------------------------------------
(* Descriptors.  Of each, what is owned is numbers, and what is not freed  *)
(* owns nothing.                                                           *)

Buffer == Seq(0..255)

LEMMA ByteType ==
  ASSUME NEW d \in Buffer, NEW o \in Nat
  PROVE  Byte(d, o) \in Nat
<1>1. CASE o + 1 \in DOMAIN d
  <2>1. d[o + 1] \in 0..255
    BY <1>1, LenProperties, ElementOfSeq DEF Buffer
  <2> QED BY <1>1, <2>1 DEF Byte
<1>2. CASE o + 1 \notin DOMAIN d
  BY <1>2 DEF Byte
<1> QED BY <1>1, <1>2

LEMMA BitsType ==
  ASSUME NEW d \in Buffer, NEW o \in Nat
  PROVE  Bits16(d, o) \in Nat /\ Bits12(d, o) \in Nat
<1>1. Byte(d, o) \in Nat /\ Byte(d, o + 1) \in Nat
  BY ByteType
<1>2. Bits16(d, o) \in Nat
  BY <1>1 DEF Bits16
<1> QED BY <1>2 DEF Bits12

LEMMA ArrayBlocksType ==
  ASSUME NEW n \in Nat, NEW owned, DOMAIN owned = 1..n,
         \A i \in 1..n : owned[i] \in Nat
  PROVE  ArrayBlocks(owned) \in Nat
<1>1. IsFiniteSet(1..n)
  BY FS_Interval
<1>2. SumFunction(owned) \in Nat
  BY <1>1, SumFunctionType
<1> QED BY <1>2 DEF ArrayBlocks, PlainArray, Block

LEMMA BlockType ==
  ASSUME NEW s
  PROVE  Block(s) \in Nat /\ TextBlocks(s) \in Nat /\ PlainArray(s) \in Nat
         /\ OptionalArray(s) \in Nat
BY DEF Block, TextBlocks, PlainArray, OptionalArray

(* The fields that are pointers to memory of their own, and all fields.    *)
Arrays == {"items", "iso_names", "params"}
Pointers == Arrays \cup
  {"name", "provider_name", "service_name", "event_name", "text", "ratings", "apps", "profiles",
   "content", "user", "private", "selectors", "labels", "langs", "base_path", "classpath", "class"}
FieldNames ==
  <<"items", "iso_names", "params", "name", "provider_name",
    "service_name", "event_name", "text", "ratings", "apps", "profiles",
    "content", "user", "private", "selectors", "labels", "langs",
    "base_path", "classpath", "class", "service_type", "lang", "id",
    "last_id", "stream_content_ext", "stream_content", "component_type",
    "component_tag", "data_broadcast_id", "ca_system_id", "ca_pid",
    "service_bound_flag", "visibility", "priority", "label", "remote_flag",
    "ids">>
Fields == {FieldNames[i] : i \in 1..37}

LEMMA FieldsFinite == IsFiniteSet(Fields)
<1> DEFINE name == [i \in 1..37 |-> FieldNames[i]]
<1>1. name \in Surjection(1..37, Fields)
  <2> HIDE DEF FieldNames
  <2> QED BY DEF Surjection, Fields
<1>2. IsFiniteSet(1..37)
  <2>1. \A n \in Nat : IsFiniteSet(1..n)
    BY FS_Interval
  <2> QED BY <2>1
<1> HIDE DEF name
<1> QED BY <1>1, <1>2, FS_Surjection

LEMMA FieldsAre ==
  Fields = Pointers \cup
    {"service_type", "lang", "id", "last_id", "stream_content_ext",
     "stream_content", "component_type", "component_tag",
     "data_broadcast_id", "ca_system_id", "ca_pid", "service_bound_flag",
     "visibility", "priority", "label", "remote_flag", "ids"}
BY DEF Fields, FieldNames, Pointers, Arrays

LEMMA PlainOwned ==
  ASSUME NEW c, NEW f \in DOMAIN c, f \notin Arrays
  PROVE  Owned(c)[f] \in Nat /\ (f \notin Pointers => Owned(c)[f] = 0)
<1>1. 0 \in Nat /\ 1 \in Nat
  OBVIOUS
<1> QED BY <1>1, BlockType DEF Owned, Pointers, Arrays

(* What is owned is counted in numbers, and all of it is freed.            *)
AllFreed(c, freed) ==
  /\ IsFiniteSet(DOMAIN c)
  /\ \A f \in DOMAIN c : Owned(c)[f] \in Nat
  /\ \A f \in DOMAIN c \ freed : Owned(c)[f] = 0

LEMMA PlainFreed ==
  ASSUME NEW c, NEW freed, DOMAIN c \subseteq Fields \ Arrays,
         DOMAIN c \cap Pointers \subseteq freed
  PROVE  AllFreed(c, freed)
<1>1. IsFiniteSet(DOMAIN c)
  BY FieldsFinite, FS_Subset
<1>2. \A f \in DOMAIN c : Owned(c)[f] \in Nat /\ (f \notin Pointers => Owned(c)[f] = 0)
  BY PlainOwned
<1> QED BY <1>1, <1>2 DEF AllFreed

(* Of the three with arrays of what has memory of its own, that array.     *)
LEMMA ArrayFreed ==
  ASSUME NEW c, NEW freed, DOMAIN c \subseteq Fields, DOMAIN c \cap Pointers \subseteq freed,
         \A f \in DOMAIN c \cap Arrays : Owned(c)[f] \in Nat
  PROVE  AllFreed(c, freed)
<1>1. IsFiniteSet(DOMAIN c)
  BY FieldsFinite, FS_Subset
<1>2. \A f \in DOMAIN c \ Arrays :
        Owned(c)[f] \in Nat /\ (f \notin Pointers => Owned(c)[f] = 0)
  BY PlainOwned
<1>3. Arrays \subseteq Pointers
  BY DEF Pointers
<1> QED BY <1>1, <1>2, <1>3 DEF AllFreed

LEMMA TurnsDomain ==
  ASSUME NEW from \in Nat, NEW until \in Int, NEW next, Advances(next)
  PROVE  \E n \in Nat : DOMAIN Turns(from, until, next) = 1..n
<1>1. Turns(from, until, next) \in Seq(From(from))
  BY TurnsType
<1> QED BY <1>1, LenProperties

LEMMA ExtendedEventFreed ==
  ASSUME NEW d \in Buffer
  PROVE  AllFreed(ExtendedEvent(d), {"items", "text"})
<1> DEFINE c == ExtendedEvent(d)
           Value(o) == o + 1 + Byte(d, o)
           items == Turns(7, 7 + Byte(d, 6), [o \in Nat |-> Value(Value(o))])
           owned == [i \in DOMAIN c.items |-> TextBlocks(c.items[i].item_description)
                                                + TextBlocks(c.items[i].item_value)]
<1>1. \A o \in Nat : Value(o) \in Nat /\ Value(o) > o
  BY ByteType
<1>2. Advances([o \in Nat |-> Value(Value(o))])
  <2> HIDE DEF Value
  <2>1. \A o \in Nat : Value(Value(o)) \in Nat /\ Value(Value(o)) > o
    <3> TAKE o \in Nat
    <3>1. Value(o) \in Nat /\ Value(o) > o
      BY <1>1
    <3>2. Value(Value(o)) \in Nat /\ Value(Value(o)) > Value(o)
      BY <3>1, <1>1
    <3> QED BY <3>1, <3>2
  <2> QED BY <2>1 DEF Advances
<1>3. 7 + Byte(d, 6) \in Int
  BY ByteType
<1>4. PICK n \in Nat : DOMAIN items = 1..n
  BY <1>2, <1>3, TurnsDomain
<1>5. DOMAIN c = {"id", "last_id", "lang", "items", "text"} /\ DOMAIN c.items = DOMAIN items
  BY DEF ExtendedEvent
<1> HIDE DEF c, items
<1>6. ArrayBlocks(owned) \in Nat
  <2>1. DOMAIN owned = 1..n
    BY <1>4, <1>5
  <2>2. \A i \in 1..n : owned[i] \in Nat
    BY <2>1, BlockType
  <2> QED BY <2>1, <2>2, ArrayBlocksType
<1>7. Owned(c)["items"] = ArrayBlocks(owned)
  BY <1>5 DEF Owned
<1>8. DOMAIN c \cap Arrays = {"items"} /\ DOMAIN c \subseteq Fields
      /\ DOMAIN c \cap Pointers \subseteq {"items", "text"}
  BY <1>5, FieldsAre DEF Arrays, Pointers
<1>9. AllFreed(c, {"items", "text"})
  BY <1>6, <1>7, <1>8, ArrayFreed
<1> QED BY <1>9 DEF c

LEMMA ApplicationNameFreed ==
  ASSUME NEW d \in Buffer
  PROVE  AllFreed(ApplicationName(d), {"iso_names"})
<1> DEFINE c == ApplicationName(d)
           next == [o \in Nat |-> o + 4 + Byte(d, o + 3)]
           names == Turns(2, 2 + Byte(d, 1), next)
           owned == [i \in DOMAIN c.iso_names |-> Block(c.iso_names[i].name)]
<1>1. Advances(next)
  <2>1. \A o \in Nat : Byte(d, o + 3) \in Nat
    BY ByteType
  <2> QED BY <2>1 DEF Advances
<1>2. 2 + Byte(d, 1) \in Int
  BY ByteType
<1>3. PICK n \in Nat : DOMAIN names = 1..n
  BY <1>1, <1>2, TurnsDomain
<1>4. DOMAIN c = {"iso_names"} /\ DOMAIN c.iso_names = DOMAIN names
  BY DEF ApplicationName
<1> HIDE DEF c, names
<1>5. ArrayBlocks(owned) \in Nat
  <2>1. DOMAIN owned = 1..n
    BY <1>3, <1>4
  <2>2. \A i \in 1..n : owned[i] \in Nat
    BY <2>1, BlockType
  <2> QED BY <2>1, <2>2, ArrayBlocksType
<1>6. Owned(c)["iso_names"] = ArrayBlocks(owned)
  BY <1>4 DEF Owned
<1>7. DOMAIN c \cap Arrays = {"iso_names"} /\ DOMAIN c \subseteq Fields
  BY <1>4, FieldsAre DEF Arrays, Pointers
<1>8. AllFreed(c, {"iso_names"})
  BY <1>4, <1>5, <1>6, <1>7, ArrayFreed
<1> QED BY <1>8 DEF c

LEMMA DvbJApplicationFreed ==
  ASSUME NEW d \in Buffer
  PROVE  AllFreed(DvbJApplication(d), {"params"})
<1> DEFINE c == DvbJApplication(d)
           next == [o \in Nat |-> o + 1 + Byte(d, o)]
           params == Turns(2, 2 + Byte(d, 1), next)
           owned == [i \in DOMAIN c.params |-> Block(c.params[i])]
<1>1. Advances(next)
  <2>1. \A o \in Nat : Byte(d, o) \in Nat
    BY ByteType
  <2> QED BY <2>1 DEF Advances
<1>2. 2 + Byte(d, 1) \in Int
  BY ByteType
<1>3. PICK n \in Nat : DOMAIN params = 1..n
  BY <1>1, <1>2, TurnsDomain
<1>4. DOMAIN c = {"params"} /\ DOMAIN c.params = DOMAIN params
  BY DEF DvbJApplication
<1> HIDE DEF c, params
<1>5. ArrayBlocks(owned) \in Nat
  <2>1. DOMAIN owned = 1..n
    BY <1>3, <1>4
  <2>2. \A i \in 1..n : owned[i] \in Nat
    BY <2>1, BlockType
  <2> QED BY <2>1, <2>2, ArrayBlocksType
<1>6. Owned(c)["params"] = ArrayBlocks(owned)
  BY <1>4 DEF Owned
<1>7. DOMAIN c \cap Arrays = {"params"} /\ DOMAIN c \subseteq Fields
  BY <1>4, FieldsAre DEF Arrays, Pointers
<1>8. AllFreed(c, {"params"})
  BY <1>4, <1>5, <1>6, <1>7, ArrayFreed
<1> QED BY <1>8 DEF c

(* parse_descriptor and free_descriptor agree, by table and tag.           *)
LEMMA ContentFreed ==
  ASSUME NEW t \in Tables, NEW d \in Buffer
  PROVE  AllFreed(Content(t, d), Freed(t, d[1]))
<1>1. CASE t = "AIT" /\ d[1] = 0
  <2>1. Content(t, d) = Application(d) /\ Freed(t, d[1]) = {"profiles", "labels"}
    BY <1>1 DEF Content, Freed
  <2>2. DOMAIN Application(d) \subseteq Fields \ Arrays /\ DOMAIN Application(d) \cap Pointers \subseteq {"profiles", "labels"}
    BY FieldsAre DEF Application, Pointers, Arrays
  <2> QED BY <2>1, <2>2, PlainFreed
<1>2. CASE t = "AIT" /\ d[1] = 1
  <2>1. Content(t, d) = ApplicationName(d) /\ Freed(t, d[1]) = {"iso_names"}
    BY <1>2 DEF Content, Freed
  <2> QED BY <2>1, ApplicationNameFreed
<1>3. CASE t = "AIT" /\ d[1] = 2
  <2>1. Content(t, d) = TransportProtocol(d) /\ Freed(t, d[1]) = {}
    BY <1>3 DEF Content, Freed
  <2>2. DOMAIN TransportProtocol(d) \subseteq Fields \ Arrays /\ DOMAIN TransportProtocol(d) \cap Pointers \subseteq {}
    BY FieldsAre DEF TransportProtocol, Pointers, Arrays
  <2> QED BY <2>1, <2>2, PlainFreed
<1>4. CASE t = "AIT" /\ d[1] = 3
  <2>1. Content(t, d) = DvbJApplication(d) /\ Freed(t, d[1]) = {"params"}
    BY <1>4 DEF Content, Freed
  <2> QED BY <2>1, DvbJApplicationFreed
<1>5. CASE t = "AIT" /\ d[1] = 4
  <2>1. Content(t, d) = DvbJApplicationLoc(d) /\ Freed(t, d[1]) = {"base_path", "classpath", "class"}
    BY <1>5 DEF Content, Freed
  <2>2. DOMAIN DvbJApplicationLoc(d) \subseteq Fields \ Arrays /\ DOMAIN DvbJApplicationLoc(d) \cap Pointers \subseteq {"base_path", "classpath", "class"}
    BY FieldsAre DEF DvbJApplicationLoc, Pointers, Arrays
  <2> QED BY <2>1, <2>2, PlainFreed
<1>6. CASE t = "PMT" /\ d[1] = 9
  <2>1. Content(t, d) = Ca(d) /\ Freed(t, d[1]) = {"private"}
    BY <1>6 DEF Content, Freed
  <2>2. DOMAIN Ca(d) \subseteq Fields \ Arrays /\ DOMAIN Ca(d) \cap Pointers \subseteq {"private"}
    BY FieldsAre DEF Ca, Pointers, Arrays
  <2> QED BY <2>1, <2>2, PlainFreed
<1>7. CASE d[1] = 10
  <2>1. Content(t, d) = Iso639Lang(d) /\ Freed(t, d[1]) = {"langs"}
    BY <1>7 DEF Content, Freed
  <2>2. DOMAIN Iso639Lang(d) \subseteq Fields \ Arrays /\ DOMAIN Iso639Lang(d) \cap Pointers \subseteq {"langs"}
    BY FieldsAre DEF Iso639Lang, Pointers, Arrays
  <2> QED BY <2>1, <2>2, PlainFreed
<1>8. CASE t = "NIT" /\ d[1] = 64
  <2>1. Content(t, d) = NetworkName(d) /\ Freed(t, d[1]) = {"name"}
    BY <1>8 DEF Content, Freed
  <2>2. DOMAIN NetworkName(d) \subseteq Fields \ Arrays /\ DOMAIN NetworkName(d) \cap Pointers \subseteq {"name"}
    BY FieldsAre DEF NetworkName, Pointers, Arrays
  <2> QED BY <2>1, <2>2, PlainFreed
<1>9. CASE t = "SDT" /\ d[1] = 72
  <2>1. Content(t, d) = Service(d) /\ Freed(t, d[1]) = {"provider_name", "service_name"}
    BY <1>9 DEF Content, Freed
  <2>2. DOMAIN Service(d) \subseteq Fields \ Arrays /\ DOMAIN Service(d) \cap Pointers \subseteq {"provider_name", "service_name"}
    BY FieldsAre DEF Service, Pointers, Arrays
  <2> QED BY <2>1, <2>2, PlainFreed
<1>10. CASE t = "EIT" /\ d[1] = 77
  <2>1. Content(t, d) = ShortEvent(d) /\ Freed(t, d[1]) = {"event_name", "text"}
    BY <1>10 DEF Content, Freed
  <2>2. DOMAIN ShortEvent(d) \subseteq Fields \ Arrays /\ DOMAIN ShortEvent(d) \cap Pointers \subseteq {"event_name", "text"}
    BY FieldsAre DEF ShortEvent, Pointers, Arrays
  <2> QED BY <2>1, <2>2, PlainFreed
<1>11. CASE t = "EIT" /\ d[1] = 78
  <2>1. Content(t, d) = ExtendedEvent(d) /\ Freed(t, d[1]) = {"items", "text"}
    BY <1>11 DEF Content, Freed
  <2> QED BY <2>1, ExtendedEventFreed
<1>12. CASE t = "EIT" /\ d[1] = 80
  <2>1. Content(t, d) = Component(d) /\ Freed(t, d[1]) = {"text"}
    BY <1>12 DEF Content, Freed
  <2>2. DOMAIN Component(d) \subseteq Fields \ Arrays /\ DOMAIN Component(d) \cap Pointers \subseteq {"text"}
    BY FieldsAre DEF Component, Pointers, Arrays
  <2> QED BY <2>1, <2>2, PlainFreed
<1>13. CASE t = "PMT" /\ d[1] = 82
  <2>1. Content(t, d) = StreamId(d) /\ Freed(t, d[1]) = {}
    BY <1>13 DEF Content, Freed
  <2>2. DOMAIN StreamId(d) \subseteq Fields \ Arrays /\ DOMAIN StreamId(d) \cap Pointers \subseteq {}
    BY FieldsAre DEF StreamId, Pointers, Arrays
  <2> QED BY <2>1, <2>2, PlainFreed
<1>14. CASE t = "EIT" /\ d[1] = 84
  <2>1. Content(t, d) = ContentClasses(d) /\ Freed(t, d[1]) = {"content", "user"}
    BY <1>14 DEF Content, Freed
  <2>2. DOMAIN ContentClasses(d) \subseteq Fields \ Arrays /\ DOMAIN ContentClasses(d) \cap Pointers \subseteq {"content", "user"}
    BY FieldsAre DEF ContentClasses, Pointers, Arrays
  <2> QED BY <2>1, <2>2, PlainFreed
<1>15. CASE t = "EIT" /\ d[1] = 85
  <2>1. Content(t, d) = ParentalRating(d) /\ Freed(t, d[1]) = {"ratings"}
    BY <1>15 DEF Content, Freed
  <2>2. DOMAIN ParentalRating(d) \subseteq Fields \ Arrays /\ DOMAIN ParentalRating(d) \cap Pointers \subseteq {"ratings"}
    BY FieldsAre DEF ParentalRating, Pointers, Arrays
  <2> QED BY <2>1, <2>2, PlainFreed
<1>16. CASE t \in {"SDT", "EIT"} /\ d[1] = 100
  <2>1. Content(t, d) = DataBroadcast(d) /\ Freed(t, d[1]) = {"selectors", "text"}
    BY <1>16 DEF Content, Freed
  <2>2. DOMAIN DataBroadcast(d) \subseteq Fields \ Arrays /\ DOMAIN DataBroadcast(d) \cap Pointers \subseteq {"selectors", "text"}
    BY FieldsAre DEF DataBroadcast, Pointers, Arrays
  <2> QED BY <2>1, <2>2, PlainFreed
<1>17. CASE t = "PMT" /\ d[1] = 102
  <2>1. Content(t, d) = DataBroadcastId(d) /\ Freed(t, d[1]) = {"selectors"}
    BY <1>17 DEF Content, Freed
  <2>2. DOMAIN DataBroadcastId(d) \subseteq Fields \ Arrays /\ DOMAIN DataBroadcastId(d) \cap Pointers \subseteq {"selectors"}
    BY FieldsAre DEF DataBroadcastId, Pointers, Arrays
  <2> QED BY <2>1, <2>2, PlainFreed
<1>18. CASE t = "PMT" /\ d[1] = 111
  <2>1. Content(t, d) = ApplicationSignalling(d) /\ Freed(t, d[1]) = {"apps"}
    BY <1>18 DEF Content, Freed
  <2>2. DOMAIN ApplicationSignalling(d) \subseteq Fields \ Arrays /\ DOMAIN ApplicationSignalling(d) \cap Pointers \subseteq {"apps"}
    BY FieldsAre DEF ApplicationSignalling, Pointers, Arrays
  <2> QED BY <2>1, <2>2, PlainFreed
<1>19. CASE ~ \/ t = "AIT" /\ d[1] = 0
              \/ t = "AIT" /\ d[1] = 1
              \/ t = "AIT" /\ d[1] = 2
              \/ t = "AIT" /\ d[1] = 3
              \/ t = "AIT" /\ d[1] = 4
              \/ t = "PMT" /\ d[1] = 9
              \/ d[1] = 10
              \/ t = "NIT" /\ d[1] = 64
              \/ t = "SDT" /\ d[1] = 72
              \/ t = "EIT" /\ d[1] = 77
              \/ t = "EIT" /\ d[1] = 78
              \/ t = "EIT" /\ d[1] = 80
              \/ t = "PMT" /\ d[1] = 82
              \/ t = "EIT" /\ d[1] = 84
              \/ t = "EIT" /\ d[1] = 85
              \/ t \in {"SDT", "EIT"} /\ d[1] = 100
              \/ t = "PMT" /\ d[1] = 102
              \/ t = "PMT" /\ d[1] = 111
  <2>1. Content(t, d) = <<>>
    BY <1>19 DEF Content
  <2>2. DOMAIN <<>> = {}
    OBVIOUS
  <2> QED BY <2>1, <2>2, PlainFreed
<1> QED BY <1>1, <1>2, <1>3, <1>4, <1>5, <1>6, <1>7, <1>8, <1>9, <1>10, <1>11, <1>12, <1>13, <1>14, <1>15, <1>16, <1>17, <1>18, <1>19

(* What a descriptor has taken is what is given back with it.              *)
LEMMA DescriptorBlocks ==
  ASSUME NEW t \in Tables, NEW buf \in Buffer, NEW o \in Nat
  PROVE  LET des == Descriptor(t, buf, o)
         IN  OwnedBlocks(des) \in Nat /\ FreedBlocks(des) = OwnedBlocks(des)
<1> DEFINE des == Descriptor(t, buf, o)
           d == SubSeq(buf, o + 1, Len(buf))
<1>1. d \in Buffer
  <2>1. Len(buf) \in Nat /\ \A i \in o + 1..Len(buf) : buf[i] \in 0..255
    <3>1. Len(buf) \in Nat
      BY LenProperties DEF Buffer
    <3>2. \A i \in 1..Len(buf) : buf[i] \in 0..255
      BY ElementOfSeq DEF Buffer
    <3> QED BY <3>1, <3>2
  <2> QED BY <2>1, SubSeqProperties DEF Buffer
<1>2. des.table = t /\ des.type = d[1] /\ des.content \in {<<>>, Content(t, d)}
  BY DEF Descriptor
<1> HIDE DEF des
<1>3. AllFreed(des.content, Freed(des.table, des.type))
  <2>1. AllFreed(<<>>, Freed(t, d[1]))
    <3>1. DOMAIN <<>> = {}
      OBVIOUS
    <3> QED BY <3>1, PlainFreed
  <2> QED BY <1>1, <1>2, <2>1, ContentFreed
<1> DEFINE owned == Owned(des.content)
           freed == [f \in DOMAIN owned |->
                       IF f \in Freed(des.table, des.type) THEN owned[f] ELSE 0]
<1>4. DOMAIN owned = DOMAIN des.content /\ owned = [f \in DOMAIN owned |-> owned[f]]
  BY DEF Owned
<1>5. freed = owned
  BY <1>3, <1>4 DEF AllFreed
<1>6. SumFunction(owned) \in Nat
  BY <1>3, <1>4, SumFunctionType DEF AllFreed
<1>7. OwnedBlocks(des) = SumFunction(owned) /\ FreedBlocks(des) = SumFunction(freed)
  BY DEF OwnedBlocks, FreedBlocks
<1> HIDE DEF owned, freed
<1>8. OwnedBlocks(des) \in Nat /\ FreedBlocks(des) = OwnedBlocks(des)
  BY <1>5, <1>6, <1>7
<1> QED BY <1>8 DEF des

-----------------------------------------------------------------------------
(* Tables.  An array of descriptors is whole if all that its elements own  *)
(* is freed with them.                                                     *)

Whole(ds) ==
  \E n \in Nat : DOMAIN ds = 1..n
    /\ \A i \in 1..n : OwnedBlocks(ds[i]) \in Nat /\ FreedBlocks(ds[i]) = OwnedBlocks(ds[i])

LEMMA DescriptorPlacesType ==
  ASSUME NEW buf \in Buffer, NEW from \in Nat, NEW until \in Nat
  PROVE  DescriptorPlaces(buf, from, until) \in Seq(From(from))
<1> DEFINE next == [o \in Nat |-> o + DescriptorLen(buf, o)]
<1>1. \A o \in Nat : Byte(buf, o + 1) \in Nat
  BY ByteType
<1>2. Advances(next)
  BY <1>1 DEF Advances, DescriptorLen
<1> HIDE DEF next
<1>3. Turns(from, until, next) \in Seq(From(from))
  BY <1>2, TurnsType
<1> QED BY <1>3 DEF DescriptorPlaces, next

LEMMA DescriptorsWhole ==
  ASSUME NEW t \in Tables, NEW buf \in Buffer, NEW from \in Nat, NEW until \in Nat
  PROVE  Whole(DescriptorsUntil(t, buf, from, until))
<1> DEFINE places == DescriptorPlaces(buf, from, until)
           ds == DescriptorsUntil(t, buf, from, until)
<1>1. places \in Seq(From(from))
  BY DescriptorPlacesType
<1>2. Len(places) \in Nat /\ DOMAIN places = 1..Len(places)
      /\ \A i \in 1..Len(places) : places[i] \in From(from)
  BY <1>1, LenProperties, ElementOfSeq
<1>3. DOMAIN ds = 1..Len(places) /\ \A i \in 1..Len(places) : ds[i] = Descriptor(t, buf, places[i])
  BY <1>2 DEF DescriptorsUntil
<1> HIDE DEF places, ds
<1>4. ASSUME NEW i \in 1..Len(places)
      PROVE  OwnedBlocks(ds[i]) \in Nat /\ FreedBlocks(ds[i]) = OwnedBlocks(ds[i])
  <2>1. places[i] \in Nat
    BY <1>2 DEF From
  <2> QED BY <1>3, <2>1, DescriptorBlocks
<1>5. Whole(ds)
  BY <1>2, <1>3, <1>4 DEF Whole
<1> QED BY <1>5 DEF ds

LEMMA WholeEmpty == Whole(<<>>)
<1>1. DOMAIN <<>> = 1..0
  OBVIOUS
<1> QED BY <1>1 DEF Whole

LEMMA WholeFreed ==
  ASSUME NEW ds, Whole(ds)
  PROVE  DescriptorsTaken(ds) \in Nat /\ DescriptorsFreed(ds) = DescriptorsTaken(ds)
<1>1. PICK n \in Nat : DOMAIN ds = 1..n
        /\ \A i \in 1..n : OwnedBlocks(ds[i]) \in Nat /\ FreedBlocks(ds[i]) = OwnedBlocks(ds[i])
  BY DEF Whole
<1> DEFINE owned == [i \in DOMAIN ds |-> OwnedBlocks(ds[i])]
           freed == [i \in DOMAIN ds |-> FreedBlocks(ds[i])]
<1>2. owned = freed /\ DOMAIN owned = 1..n /\ \A i \in 1..n : owned[i] \in Nat
  BY <1>1
<1>3. DescriptorsTaken(ds) = ArrayBlocks(owned) /\ DescriptorsFreed(ds) = ArrayBlocks(freed)
  BY DEF DescriptorsTaken, DescriptorsFreed
<1> HIDE DEF owned, freed
<1>4. ArrayBlocks(owned) \in Nat
  BY <1>2, ArrayBlocksType
<1> QED BY <1>2, <1>3, <1>4

LEMMA LayoutType ==
  ASSUME NEW t \in Tables
  PROVE  /\ Layout(t).head \in Nat /\ Layout(t).own \in Nat /\ Layout(t).descs \in Nat
         /\ Layout(t).item \in Nat /\ Layout(t).item > 0
BY DEF Layout, Tables

LEMMA DescriptorsEndType ==
  ASSUME NEW buf \in Buffer, NEW from \in Nat, NEW until \in Nat
  PROVE  DescriptorsEnd(buf, from, until) \in Nat /\ DescriptorsEnd(buf, from, until) >= from
<1> DEFINE places == DescriptorPlaces(buf, from, until)
<1>1. places \in Seq(From(from))
  BY DescriptorPlacesType
<1> HIDE DEF places
<1>2. CASE places = <<>>
  BY <1>2 DEF DescriptorsEnd, places
<1>3. CASE places # <<>>
  <2>1. Len(places) \in 1..Len(places)
    BY <1>1, <1>3, EmptySeq, LenProperties
  <2>2. places[Len(places)] \in From(from)
    BY <1>1, <2>1, ElementOfSeq
  <2> DEFINE last == Last(places)
  <2>3. last \in Nat /\ last >= from
    BY <2>2 DEF Last, From
  <2>4. DescriptorsEnd(buf, from, until) = last + DescriptorLen(buf, last)
    BY <1>3 DEF DescriptorsEnd, places
  <2> HIDE DEF last
  <2>5. Byte(buf, last + 1) \in Nat
    BY <2>3, ByteType
  <2> QED BY <2>3, <2>4, <2>5 DEF DescriptorLen
<1> QED BY <1>2, <1>3

LEMMA ItemEndType ==
  ASSUME NEW t \in Tables, NEW buf \in Buffer, NEW o \in Nat
  PROVE  ItemEnd(t, buf, o) \in Nat /\ ItemEnd(t, buf, o) > o
<1> DEFINE l == Layout(t)
           from == o + l.item
           end == DescriptorsEnd(buf, from, from + Bits12(buf, o + l.descs))
<1>1. l.item \in Nat /\ l.item > 0 /\ l.descs \in Nat
  BY LayoutType
<1>2. ItemEnd(t, buf, o) = IF l.descs = 0 THEN from ELSE end
  BY DEF ItemEnd
<1> HIDE DEF l
<1>3. from \in Nat /\ from > o /\ o + l.descs \in Nat
  BY <1>1
<1> HIDE DEF from
<1>4. from + Bits12(buf, o + l.descs) \in Nat
  BY <1>3, BitsType
<1>5. end \in Nat /\ end >= from
  BY <1>3, <1>4, DescriptorsEndType
<1> HIDE DEF end
<1> QED BY <1>2, <1>3, <1>5

LEMMA OwnEndType ==
  ASSUME NEW t \in Tables, NEW buf \in Buffer
  PROVE  /\ OwnEnd(t, buf) \in Nat
         /\ Layout(t).head + Bits12(buf, Layout(t).own) \in Nat
<1>1. Layout(t).head \in Nat /\ Layout(t).own \in Nat
  BY LayoutType
<1>2. Layout(t).head + Bits12(buf, Layout(t).own) \in Nat
  BY <1>1, BitsType
<1> QED BY <1>1, <1>2, DescriptorsEndType DEF OwnEnd

Items(t, buf) == {Item(t, buf, o) : o \in Nat}

LEMMA ItemsInType ==
  ASSUME NEW t \in Tables, NEW buf \in Buffer, NEW len \in Nat
  PROVE  ItemsIn(t, buf, len) \in Seq(Items(t, buf))
<1> DEFINE from == ItemsFrom(t, buf)
           until == ItemsUntil(t, buf, len)
           next == [o \in Nat |-> ItemEnd(t, buf, o)]
           places == ItemPlaces(t, buf, len)
<1>1. OwnEnd(t, buf) \in Nat
  BY OwnEndType
<1>2. from \in Nat
  BY <1>1 DEF ItemsFrom
<1>3. until \in Int
  <2>1. Bits12(buf, OwnEnd(t, buf)) \in Nat
    BY <1>1, BitsType
  <2> QED BY <1>2, <2>1 DEF ItemsUntil
<1>4. Advances(next)
  BY ItemEndType DEF Advances
<1>5. places = Turns(from, until, next)
  BY DEF ItemPlaces
<1> HIDE DEF from, until, next, places
<1>6. places \in Seq(From(from))
  BY <1>2, <1>3, <1>4, <1>5, TurnsType
<1>7. Len(places) \in Nat /\ DOMAIN places = 1..Len(places)
      /\ \A i \in 1..Len(places) : places[i] \in Nat
  BY <1>6, LenProperties, ElementOfSeq DEF From
<1> DEFINE items == [i \in DOMAIN places |-> Item(t, buf, places[i])]
<1>8. items \in [1..Len(places) -> Items(t, buf)]
  BY <1>7 DEF Items
<1>9. items \in Seq(Items(t, buf))
  BY <1>7, <1>8
<1> QED BY <1>9 DEF ItemsIn, places

OthersStep(items, g, i) ==
  IF i = 0 THEN <<>> ELSE IF IsNit(items[i]) THEN g[i - 1] ELSE Append(g[i - 1], items[i])

IsOthers(items, g, m) == g = [i \in 0..m |-> OthersStep(items, g, i)]

LEMMA OthersType ==
  ASSUME NEW S, NEW items \in Seq(S)
  PROVE  Others(items) \in Seq(S)
<1> DEFINE Lacking == {m \in Nat : ~ \E g : IsOthers(items, g, m)}
<1>1. Lacking = {}
  <2> SUFFICES ASSUME Lacking # {} PROVE FALSE
    OBVIOUS
  <2>1. PICK m \in Lacking : \A k \in Lacking : m <= k
    BY LeastIn, Zenon
  <2>2. CASE m = 0
    <3> DEFINE g == [i \in 0..0 |-> <<>>]
    <3>1. g = [i \in 0..0 |-> OthersStep(items, g, i)]
      BY DEF OthersStep
    <3> QED BY <2>1, <2>2, <3>1 DEF IsOthers
  <2>3. CASE m # 0
    <3>0. m \in Nat /\ \A k \in Lacking : m <= k
      BY <2>1
    <3>1. m \in Nat /\ m - 1 \in Nat /\ m - 1 \notin Lacking
      <4> HIDE DEF Lacking
      <4> QED BY <3>0, <2>3
    <3>2. PICK g : IsOthers(items, g, m - 1)
      BY <3>1
    <3> DEFINE h == [i \in 0..m |-> OthersStep(items, g, i)]
    <3>3. \A i \in 0..m - 1 : i \in 0..m /\ h[i] = g[i]
      BY <3>1, <3>2 DEF IsOthers
    <3>4. \A i \in 0..m : i # 0 => h[i - 1] = g[i - 1]
      <4> TAKE i \in 0..m
      <4> HAVE i # 0
      <4>1. i - 1 \in 0..m - 1
        BY <3>1
      <4> HIDE DEF h
      <4> QED BY <4>1, <3>3
    <3>5. \A i \in 0..m : h[i] = OthersStep(items, h, i)
      BY <3>4 DEF OthersStep
    <3>6. h = [i \in 0..m |-> OthersStep(items, h, i)]
      BY <3>5
    <3> QED BY <2>1, <3>6 DEF IsOthers
  <2> QED BY <2>2, <2>3
<1> DEFINE upTo == CHOOSE g : IsOthers(items, g, Len(items))
<1>2. Len(items) \in Nat
  BY LenProperties
<1>3. IsOthers(items, upTo, Len(items))
  BY <1>1, <1>2
<1>4. Others(items) = upTo[Len(items)]
  BY DEF Others, IsOthers, OthersStep
<1> HIDE DEF upTo
<1> DEFINE Wrong == {i \in 0..Len(items) : upTo[i] \notin Seq(S)}
<1>5. Wrong = {}
  <2> SUFFICES ASSUME Wrong # {} PROVE FALSE
    OBVIOUS
  <2>1. Wrong \subseteq Nat
    BY <1>2
  <2>2. PICK i \in Wrong : \A k \in Wrong : i <= k
    BY <2>1, LeastIn, Zenon
  <2>3. i \in 0..Len(items) /\ upTo[i] \notin Seq(S) /\ upTo[i] = OthersStep(items, upTo, i)
    BY <1>3 DEF IsOthers
  <2>4. i # 0
    BY <2>3 DEF OthersStep
  <2>5. i - 1 \in 0..Len(items) /\ i \in 1..Len(items)
    BY <2>3, <2>4, <1>2
  <2>6. i - 1 \notin Wrong
    <3> HIDE DEF Wrong
    <3> QED BY <2>2, <2>5, <1>2
  <2>7. upTo[i - 1] \in Seq(S)
    BY <2>5, <2>6
  <2>8. items[i] \in S
    BY <2>5, ElementOfSeq
  <2>9. Append(upTo[i - 1], items[i]) \in Seq(S)
    BY <2>7, <2>8, AppendProperties
  <2> QED BY <2>3, <2>4, <2>7, <2>9 DEF OthersStep
<1> QED BY <1>2, <1>4, <1>5

(* What an item has taken is given back with it, but that of a stream when *)
(* another version replaces the program, and of an event.                  *)
LEMMA ItemWhole ==
  ASSUME NEW t \in Tables, NEW buf \in Buffer, NEW item \in Items(t, buf)
  PROVE  Whole(item.descriptors)
<1>1. PICK o \in Nat : item = Item(t, buf, o)
  BY DEF Items
<1> DEFINE from == o + Layout(t).item
           until == from + Bits12(buf, o + Layout(t).descs)
<1>2. from \in Nat /\ o + Layout(t).descs \in Nat
  BY LayoutType
<1>3. until \in Nat
  BY <1>2, BitsType
<1>4. item.descriptors = IF Layout(t).descs = 0 THEN <<>> ELSE DescriptorsUntil(t, buf, from, until)
  BY <1>1 DEF Item
<1> HIDE DEF from, until
<1> QED BY <1>2, <1>3, <1>4, DescriptorsWhole, WholeEmpty

LEMMA ItemBlocks ==
  ASSUME NEW t \in Tables, NEW buf \in Buffer, NEW item \in Items(t, buf)
  PROVE  /\ ItemTaken(t, item) \in Nat
         /\ ItemFreed(t, item) \in Nat /\ ItemFreed(t, item) <= ItemTaken(t, item)
         /\ ItemDeleted(t, item) \in Nat /\ ItemDeleted(t, item) <= ItemTaken(t, item)
         /\ t \notin {"PMT", "EIT"} => ItemFreed(t, item) = ItemTaken(t, item)
         /\ t \notin {"PMT", "EIT"} => ItemDeleted(t, item) = ItemTaken(t, item)
<1> DEFINE taken == DescriptorsTaken(item.descriptors)
           freed == DescriptorsFreed(item.descriptors)
<1>1. taken \in Nat /\ freed = taken
  BY ItemWhole, WholeFreed
<1>2. ItemTaken(t, item) = (IF t = "PAT" THEN 0 ELSE taken) + (IF t = "EIT" THEN 1 ELSE 0)
  BY DEF ItemTaken
<1>3. /\ t \in {"PAT", "PMT"} => ItemFreed(t, item) = 0
      /\ t = "EIT" => ItemFreed(t, item) = 1
      /\ t \notin {"PAT", "PMT", "EIT"} => ItemFreed(t, item) = freed
  BY DEF ItemFreed
<1>4. ItemDeleted(t, item) = IF t = "PMT" THEN freed ELSE ItemFreed(t, item)
  BY DEF ItemDeleted
<1> HIDE DEF taken, freed
<1>5. CASE t = "PAT"
  BY <1>1, <1>2, <1>3, <1>4, <1>5
<1>6. CASE t = "PMT"
  BY <1>1, <1>2, <1>3, <1>4, <1>6
<1>7. CASE t = "EIT"
  BY <1>1, <1>2, <1>3, <1>4, <1>7
<1>8. CASE t \notin {"PAT", "PMT", "EIT"}
  BY <1>1, <1>2, <1>3, <1>4, <1>8
<1> QED BY <1>5, <1>6, <1>7, <1>8

(* The block of a table's NIT is counted where it is taken and where it is *)
(* given back, and a PAT has one at most.                                  *)
LEMMA NitBlocks ==
  ASSUME NEW t, NEW buf, NEW len, NEW S, ItemsIn(t, buf, len) \in Seq(S),
         Cardinality(Nits(ItemsIn(t, buf, len))) <= 1
  PROVE  LET h == Decoded(t, buf, len)
         IN  h.nits \in Nat /\ Cardinality(h.nit) = h.nits
<1> DEFINE items == ItemsIn(t, buf, len)
           nits == Nits(items)
           h == Decoded(t, buf, len)
<1>1. nits \subseteq 1..Len(items) /\ Len(items) \in Nat
  BY LenProperties DEF Nits
<1>2. IsFiniteSet(nits)
  <2>1. \A n \in Nat : IsFiniteSet(1..n)
    BY FS_Interval
  <2>2. IsFiniteSet(1..Len(items))
    BY <1>1, <2>1
  <2> HIDE DEF nits
  <2> QED BY <1>1, <2>2, FS_Subset
<1>3. Cardinality(nits) \in Nat /\ (Cardinality(nits) = 0 <=> nits = {})
  BY <1>2, FS_CardinalityType, FS_EmptySet
<1> DEFINE pid == items[Max(nits)].fields.pmt_pid
<1>4. h.nits = Cardinality(nits) /\ h.nit = IF nits = {} THEN {} ELSE {pid}
  BY DEF Decoded
<1>5. Cardinality(nits) <= 1
  OBVIOUS
<1> HIDE DEF nits, pid, h
<1>6. Cardinality(h.nit) = IF nits = {} THEN 0 ELSE 1
  BY <1>4, FS_Singleton, FS_EmptySet
<1>7. h.nits \in Nat /\ Cardinality(h.nit) = h.nits
  BY <1>3, <1>4, <1>5, <1>6
<1> QED BY <1>7 DEF h

(* Lists of as many elements, that own as much or less.                    *)
LEMMA FewerBlocks ==
  ASSUME NEW f \in Seq(Nat), NEW g \in Seq(Nat), Len(f) = Len(g),
         \A i \in 1..Len(f) : f[i] <= g[i]
  PROVE  /\ ArrayBlocks(f) \in Nat /\ ArrayBlocks(g) \in Nat
         /\ ArrayBlocks(f) <= ArrayBlocks(g)
<1>1. /\ Len(f) \in Nat /\ DOMAIN f = 1..Len(f) /\ DOMAIN g = 1..Len(f)
      /\ \A i \in 1..Len(f) : f[i] \in Nat /\ g[i] \in Nat
  BY LenProperties, ElementOfSeq
<1>2. IsFiniteSet(1..Len(f))
  BY <1>1, FS_Interval
<1>3. SumFunction(f) \in Nat /\ SumFunction(g) \in Nat
  BY <1>1, <1>2, SumFunctionType
<1>4. SumFunction(f) <= SumFunction(g)
  BY <1>1, <1>2, SumFunctionMonotone
<1>5. PlainArray(f) = PlainArray(g) /\ PlainArray(f) \in Nat
  <2>1. (f = <<>>) <=> (g = <<>>)
    BY EmptySeq
  <2> QED BY <2>1 DEF PlainArray, Block
<1> QED BY <1>3, <1>4, <1>5 DEF ArrayBlocks

-----------------------------------------------------------------------------
(* What a table that is held has taken, and what is given back of it.      *)

DecodedFrom(t, h) == \E s \in Broadcast : s.table = t /\ h = Decoded(t, s.buf, s.len)

TableFreed(t, h)   == Released(t, h, ItemFreed)
TableDeleted(t, h) == Released(t, h, ItemDeleted)

LEMMA TableBlocks ==
  ASSUME NEW t, NEW h, DecodedFrom(t, h)
  PROVE  /\ t \in Tables /\ Taken(t, h) \in Nat
         /\ TableFreed(t, h) \in Nat /\ TableFreed(t, h) <= Taken(t, h)
         /\ TableDeleted(t, h) \in Nat /\ TableDeleted(t, h) <= Taken(t, h)
         /\ t \notin {"PMT", "EIT"} => TableFreed(t, h) = Taken(t, h)
         /\ t \notin {"PMT", "EIT"} => TableDeleted(t, h) = Taken(t, h)
<1>1. PICK s \in Broadcast : s.table = t /\ h = Decoded(t, s.buf, s.len)
  BY DEF DecodedFrom
<1> DEFINE buf == s.buf
           len == s.len
           items == ItemsIn(t, buf, len)
           taken == [i \in DOMAIN h.items |-> ItemTaken(t, h.items[i])]
           freed == [i \in DOMAIN h.items |-> ItemFreed(t, h.items[i])]
           deleted == [i \in DOMAIN h.items |-> ItemDeleted(t, h.items[i])]
<1>2. t \in Tables /\ buf \in Buffer /\ len \in Nat /\ Cardinality(Nits(items)) <= 1
  BY <1>1, SectionsAssumption DEF Buffer
<1> HIDE DEF buf, len
<1>3. items \in Seq(Items(t, buf))
  BY <1>2, ItemsInType
<1>4. h.nits \in Nat /\ Cardinality(h.nit) = h.nits
  BY <1>1, <1>2, <1>3, NitBlocks DEF buf, len
<1>5. h.items \in Seq(Items(t, buf))
  <2>1. h.items = Others(items)
    BY <1>1 DEF Decoded, buf, len
  <2> HIDE DEF items
  <2> QED BY <2>1, <1>3, OthersType
<1>6. Whole(h.own)
  <2> DEFINE until == Layout(t).head + Bits12(buf, Layout(t).own)
  <2>1. h.own = IF Layout(t).own = 0 THEN <<>> ELSE DescriptorsUntil(t, buf, Layout(t).head, until)
    BY <1>1 DEF Decoded, buf
  <2>2. until \in Nat /\ Layout(t).head \in Nat
    BY <1>2, OwnEndType, LayoutType
  <2> HIDE DEF until
  <2> QED BY <1>2, <2>1, <2>2, DescriptorsWhole, WholeEmpty
<1>7. DescriptorsTaken(h.own) \in Nat /\ DescriptorsFreed(h.own) = DescriptorsTaken(h.own)
  BY <1>6, WholeFreed
<1> DEFINE n == Len(h.items)
<1>8. n \in Nat /\ DOMAIN h.items = 1..n /\ \A i \in 1..n : h.items[i] \in Items(t, buf)
  BY <1>5, LenProperties, ElementOfSeq
<1> HIDE DEF n
<1>9. ASSUME NEW i \in 1..n
      PROVE  /\ taken[i] \in Nat
             /\ freed[i] \in Nat /\ freed[i] <= taken[i]
             /\ deleted[i] \in Nat /\ deleted[i] <= taken[i]
             /\ t \notin {"PMT", "EIT"} => freed[i] = taken[i] /\ deleted[i] = taken[i]
  BY <1>2, <1>8, ItemBlocks
<1>10. /\ taken = [i \in 1..n |-> taken[i]] /\ freed = [i \in 1..n |-> freed[i]]
       /\ deleted = [i \in 1..n |-> deleted[i]]
  BY <1>8
<1>11. t \notin {"PMT", "EIT"} => freed = taken /\ deleted = taken
  BY <1>8, <1>9
<1> DEFINE own == IF HasOwn(t) THEN DescriptorsTaken(h.own) ELSE 0
<1>12. /\ Taken(t, h) = own + ArrayBlocks(taken) + h.nits
       /\ TableFreed(t, h) = own + ArrayBlocks(freed) + h.nits
       /\ TableDeleted(t, h) = own + ArrayBlocks(deleted) + h.nits
  BY <1>4, <1>7 DEF Taken, TableFreed, TableDeleted, Released
<1>13. own \in Nat
  BY <1>7
<1>14. taken \in Seq(Nat) /\ freed \in Seq(Nat) /\ deleted \in Seq(Nat)
       /\ Len(taken) = n /\ Len(freed) = n /\ Len(deleted) = n
  <2> HIDE DEF taken, freed, deleted
  <2>1. taken \in [1..n -> Nat] /\ freed \in [1..n -> Nat] /\ deleted \in [1..n -> Nat]
    BY <1>9, <1>10, <1>8
  <2>2. \A f \in [1..n -> Nat] : f \in Seq(Nat) /\ Len(f) = n
    BY <1>8
  <2> QED BY <2>1, <2>2
<1> HIDE DEF taken, freed, deleted, own
<1>15. ArrayBlocks(taken) \in Nat /\ ArrayBlocks(freed) \in Nat /\ ArrayBlocks(freed) <= ArrayBlocks(taken)
  BY <1>9, <1>14, FewerBlocks
<1>16. ArrayBlocks(deleted) \in Nat /\ ArrayBlocks(deleted) <= ArrayBlocks(taken)
  BY <1>9, <1>14, FewerBlocks
<1> QED BY <1>2, <1>4, <1>11, <1>12, <1>13, <1>15, <1>16

-----------------------------------------------------------------------------
(* The invariant: what is held was decoded from a section, the heap holds  *)
(* its memory and, but for programs and events, nothing else.              *)

HeapInv ==
  /\ table \in Tables /\ heap \in Nat
  /\ held = {} \/ \E h : held = {h} /\ DecodedFrom(table, h)
  /\ NothingLost

HeldFreed   == HeldBlocks(LAMBDA h : TableFreed(table, h))
HeldDeleted == HeldBlocks(LAMBDA h : TableDeleted(table, h))
HeldTaken   == HeldBlocks(LAMBDA h : Taken(table, h))

LEMMA HeldBlocksType ==
  ASSUME HeapInv
  PROVE  /\ HeldTaken \in Nat /\ heap >= HeldTaken
         /\ table \notin {"PMT", "EIT"} => heap = HeldTaken
         /\ HeldFreed \in Nat /\ HeldFreed <= HeldTaken
         /\ HeldDeleted \in Nat /\ HeldDeleted <= HeldTaken
         /\ table \notin {"PMT", "EIT"} => HeldFreed = HeldTaken /\ HeldDeleted = HeldTaken
<1>1. heap >= HeldTaken /\ (table \notin {"PMT", "EIT"} => heap = HeldTaken)
  BY DEF HeapInv, NothingLost, HeldTaken
<1>2. CASE held = {}
  <2>1. HeldTaken = 0 /\ HeldFreed = 0 /\ HeldDeleted = 0
    BY <1>2 DEF HeldTaken, HeldFreed, HeldDeleted, HeldBlocks
  <2> QED BY <1>1, <2>1
<1>3. CASE held # {}
  <2>1. PICK h : held = {h} /\ DecodedFrom(table, h)
    BY <1>3 DEF HeapInv
  <2>2. (CHOOSE x \in held : TRUE) = h
    BY <2>1
  <2>3. HeldTaken = Taken(table, h) /\ HeldFreed = TableFreed(table, h)
        /\ HeldDeleted = TableDeleted(table, h)
    BY <1>3, <2>2 DEF HeldTaken, HeldFreed, HeldDeleted, HeldBlocks
  <2> QED BY <1>1, <2>1, <2>3, TableBlocks
<1> QED BY <1>2, <1>3

LEMMA InitHeap == Init => HeapInv
BY DEF Init, HeapInv, NothingLost, HeldBlocks

LEMMA SectionHeap ==
  ASSUME HeapInv, NEW s \in Broadcast, Section(s)
  PROVE  HeapInv'
<1>1. table' = table /\ s.table = table
  BY DEF Section
<1>2. CASE Unchanged(s.buf)
  BY <1>1, <1>2 DEF Section, HeapInv, NothingLost, HeldBlocks, DecodedFrom
<1>3. CASE ~Unchanged(s.buf)
  <2> DEFINE new == Decoded(table, s.buf, s.len)
  <2>1. held' = {new} /\ heap' = heap - HeldFreed + Taken(table, new)
    BY <1>3 DEF Section, HeldFreed, TableFreed
  <2>2. DecodedFrom(table, new)
    BY <1>1 DEF DecodedFrom
  <2> HIDE DEF new
  <2>3. Taken(table, new) \in Nat
    BY <2>2, TableBlocks
  <2>4. /\ HeldTaken \in Nat /\ heap >= HeldTaken /\ HeldFreed \in Nat /\ HeldFreed <= HeldTaken
        /\ table \notin {"PMT", "EIT"} => heap = HeldTaken /\ HeldFreed = HeldTaken
    BY HeldBlocksType
  <2>5. table \in Tables /\ heap \in Nat
    BY DEF HeapInv
  <2>6. heap' \in Nat /\ heap' >= Taken(table, new)
        /\ (table \notin {"PMT", "EIT"} => heap' = Taken(table, new))
    BY <2>1, <2>3, <2>4, <2>5
  <2>7. (CHOOSE x \in held' : TRUE) = new
    BY <2>1
  <2>8. NothingLost'
    BY <1>1, <2>1, <2>6, <2>7 DEF NothingLost, HeldBlocks
  <2>9. \E h : held' = {h} /\ DecodedFrom(table', h)
    BY <1>1, <2>1, <2>2
  <2> QED BY <1>1, <2>5, <2>6, <2>8, <2>9 DEF HeapInv, DecodedFrom
<1> QED BY <1>2, <1>3

LEMMA DeleteHeap ==
  ASSUME HeapInv, Delete
  PROVE  HeapInv'
<1>1. table' = table /\ held' = {} /\ heap' = heap - HeldDeleted
  BY DEF Delete, HeldDeleted, TableDeleted
<1>2. /\ HeldTaken \in Nat /\ heap >= HeldTaken /\ HeldDeleted \in Nat /\ HeldDeleted <= HeldTaken
      /\ table \notin {"PMT", "EIT"} => heap = HeldTaken /\ HeldDeleted = HeldTaken
  BY HeldBlocksType
<1>3. table \in Tables /\ heap \in Nat
  BY DEF HeapInv
<1>4. heap' \in Nat /\ heap' >= 0 /\ (table \notin {"PMT", "EIT"} => heap' = 0)
  BY <1>1, <1>2, <1>3
<1> QED BY <1>1, <1>3, <1>4 DEF HeapInv, NothingLost, HeldBlocks

(* Everything taken for a table is given back with it, whatever sections   *)
(* come: each descriptor is freed as it was parsed, by table and tag.      *)
THEOREM NothingLostCorrect == Spec => []NothingLost
<1>1. HeapInv /\ [Next]_vars => HeapInv'
  <2> SUFFICES ASSUME HeapInv, [Next]_vars PROVE HeapInv'
    OBVIOUS
  <2>1. CASE \E s \in Broadcast : Section(s)
    BY <2>1, SectionHeap
  <2>2. CASE Delete
    BY <2>2, DeleteHeap
  <2>3. CASE UNCHANGED vars
    BY <2>3 DEF vars, HeapInv, NothingLost, HeldBlocks, DecodedFrom
  <2> QED BY <2>1, <2>2, <2>3 DEF Next
<1>2. HeapInv => NothingLost
  BY DEF HeapInv
<1> QED BY InitHeap, <1>1, <1>2, PTL DEF Spec
=============================================================================
