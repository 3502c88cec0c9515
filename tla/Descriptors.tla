---------------------------- MODULE Descriptors ----------------------------
(***************************************************************************)
(* Descriptors (src/descriptor.c, src/mhp_desc.c): parsed from the bytes   *)
(* of a section into what a client reads, and freed with the table that    *)
(* holds them.                                                             *)
(*                                                                         *)
(* A descriptor is a tag, a length and as many bytes.  Offsets are those   *)
(* of the code, from 0 on; what lies behind a section in the buffer is     *)
(* what earlier sections left there.                                       *)
(***************************************************************************)
EXTENDS Text

Tables == {"PAT", "PMT", "SDT", "NIT", "EIT", "AIT"}

(* getbits, as far as whole bytes and the bits at their start.  The buffer *)
(* of mydvb_main_loop is static and twice the size of a section: there is  *)
(* always something to read.                                               *)
Byte(d, o)     == IF o + 1 \in DOMAIN d THEN d[o + 1] ELSE 0
Bits16(d, o)   == 256 * Byte(d, o) + Byte(d, o + 1)
Bits13_mutant(d, o) == Bits16(d, o)  \* the reserved bits are not left out
Bits13(d, o)   == Bits16(d, o) % 8192
Bits12(d, o)   == Bits16(d, o) % 4096
Bytes(d, o, n) == SubSeq(d, o + 1, o + n)
TextAt(d, o, n) == TextCreate(Bytes(d, o, n))

(* Where the turns of a loop start that goes on while it has bytes left.   *)
Turns(from, until, next) ==
  LET turns[o \in Nat] == IF o >= until THEN <<>> ELSE <<o>> \o turns[next[o]]
  IN  turns[from]

-----------------------------------------------------------------------------
(* The parsers, of a descriptor d that starts at offset 0.                 *)

NetworkName(d) == [name |-> TextAt(d, 2, Byte(d, 1))]

Service(d) ==
  LET p == Byte(d, 3)
  IN  [service_type |-> Byte(d, 2), provider_name |-> TextAt(d, 4, p),
       service_name |-> TextAt(d, 5 + p, Byte(d, 4 + p))]

ShortEvent(d) ==
  LET n == Byte(d, 5)
  IN  [lang |-> Bytes(d, 2, 3), event_name |-> TextAt(d, 6, n),
       text |-> TextAt(d, 7 + n, Byte(d, 6 + n))]

(* Each item is a description and a value, with a length each.             *)
ExtendedEvent(d) ==
  LET Value(o) == o + 1 + Byte(d, o)
      items == Turns(7, 7 + Byte(d, 6), [o \in Nat |-> Value(Value(o))])
      end   == 7 + Byte(d, 6)
  IN  [id |-> Byte(d, 2) \div 16, last_id |-> Byte(d, 2) % 16, lang |-> Bytes(d, 3, 3),
       items |-> [i \in DOMAIN items |->
         LET o == items[i] IN
           [item_description |-> TextAt(d, o + 1, Byte(d, o)),
            item_value |-> TextAt(d, Value(o) + 1, Byte(d, Value(o)))]],
       text |-> TextAt(d, end + 1, Byte(d, end))]

Component(d) ==
  [stream_content_ext |-> Byte(d, 2) \div 16, stream_content |-> Byte(d, 2) % 16,
   component_type |-> Byte(d, 3), component_tag |-> Byte(d, 4), lang |-> Bytes(d, 5, 3),
   text |-> TextAt(d, 8, Byte(d, 1) - 6)]

ContentClasses(d) ==
  LET Every2nd(o) == [i \in 1..Byte(d, 1) \div 2 |-> Byte(d, o + 2 * (i - 1))]
  IN  [content |-> Every2nd(2), user |-> Every2nd(3)]

(* The ratings are read from the byte of the length on, one too early.     *)
ParentalRating(d) ==
  [ratings |-> [i \in 1..Byte(d, 1) \div 4 |->
     LET other == Byte(d, 4 * i)
     IN  [country |-> Bytes(d, 4 * i - 3, 3), other |-> other,
          min_years |-> IF other \in 1..15 THEN other + 3 ELSE 0]]]

DataBroadcast(d) ==
  LET n == Byte(d, 5)
  IN  [data_broadcast_id |-> Bits16(d, 2), component_tag |-> Byte(d, 4),
       selectors |-> Bytes(d, 6, n), lang |-> Bytes(d, 6 + n, 3),
       text |-> TextAt(d, 10 + n, Byte(d, 9 + n))]

DataBroadcastId(d) ==
  [data_broadcast_id |-> Bits16(d, 2), selectors |-> Bytes(d, 4, Byte(d, 1) - 2)]

Iso639Lang(d) ==
  [langs |-> [i \in 1..Byte(d, 1) \div 4 |->
     [lang |-> Bytes(d, 4 * i - 2, 3), audio_type |-> Byte(d, 4 * i + 1)]]]

Ca(d) ==
  [ca_system_id |-> Bits16(d, 2), ca_pid |-> Bits13(d, 4),
   private |-> Bytes(d, 6, Byte(d, 1) - 4)]

StreamId(d) == [component_tag |-> Byte(d, 2)]

ApplicationSignalling(d) ==
  [apps |-> [i \in 1..Byte(d, 1) \div 3 |->
     [type |-> Bits16(d, 3 * i - 1), AIT_version |-> Byte(d, 3 * i + 1) % 32]]]

(* There is one label: the parser makes room for the size of a byte.        *)
Application(d) ==
  LET total == Byte(d, 2) \div 5
      o     == 3 + 5 * total
  IN  [profiles |-> [i \in 1..total |-> Bytes(d, 5 * i - 2, 5)],
       service_bound_flag |-> Byte(d, o) \div 128, visibility |-> (Byte(d, o) \div 32) % 4,
       priority |-> Byte(d, o + 1), labels |-> Bytes(d, o + 2, Byte(d, 1) - 3 - 5 * total)]

ApplicationName(d) ==
  LET names == Turns(2, 2 + Byte(d, 1), [o \in Nat |-> o + 4 + Byte(d, o + 3)])
  IN  [iso_names |-> [i \in DOMAIN names |->
         LET o == names[i] IN [lang |-> Bytes(d, o, 3), name |-> Bytes(d, o + 4, Byte(d, o + 3))]]]

(* Two of the ids of a remote carousel are read at the wrong bits.         *)
TransportProtocol(d) ==
  LET remote == Byte(d, 5) >= 128
  IN  IF Bits16(d, 2) # 1 THEN [id |-> Bits16(d, 2), label |-> Byte(d, 4)]
      ELSE [id |-> 1, label |-> Byte(d, 4), remote_flag |-> remote,
            ids |-> IF remote THEN <<Bits16(d, 6), Bits16(d, 7), Bits16(d, 9)>>
                              ELSE <<0, 0, 0>>,
            component_tag |-> IF remote THEN Byte(d, 12) ELSE Byte(d, 6)]

DvbJApplication(d) ==
  LET params == Turns(2, 2 + Byte(d, 1), [o \in Nat |-> o + 1 + Byte(d, o)])
  IN  [params |-> [i \in DOMAIN params |-> Bytes(d, params[i] + 1, Byte(d, params[i]))]]

DvbJApplicationLoc(d) ==
  LET c == 3 + Byte(d, 2)
      r == c + 1 + Byte(d, c)
  IN  [base_path |-> Bytes(d, 3, Byte(d, 2)), classpath |-> Bytes(d, c + 1, Byte(d, c)),
       class |-> Bytes(d, r, Byte(d, 1) + 2 - r)]

-----------------------------------------------------------------------------
(* parse_descriptor: what is parsed depends on the tag and on the table;   *)
(* the others are skipped, as are those without content.                   *)
Content(t, d) ==
  CASE t = "AIT" /\ d[1] = 0 -> Application(d)
    [] t = "AIT" /\ d[1] = 1 -> ApplicationName(d)
    [] t = "AIT" /\ d[1] = 2 -> TransportProtocol(d)
    [] t = "AIT" /\ d[1] = 3 -> DvbJApplication(d)
    [] t = "AIT" /\ d[1] = 4 -> DvbJApplicationLoc(d)
    [] t = "PMT" /\ d[1] = 9 -> Ca(d)
    [] d[1] = 10 -> Iso639Lang(d)
    [] t = "NIT" /\ d[1] = 64 -> NetworkName(d)
    [] t = "SDT" /\ d[1] = 72 -> Service(d)
    [] t = "EIT" /\ d[1] = 77 -> ShortEvent(d)
    [] t = "EIT" /\ d[1] = 78 -> ExtendedEvent(d)
    [] t = "EIT" /\ d[1] = 80 -> Component(d)
    [] t = "PMT" /\ d[1] = 82 -> StreamId(d)
    [] t = "EIT" /\ d[1] = 84 -> ContentClasses(d)
    [] t = "EIT" /\ d[1] = 85 -> ParentalRating(d)
    [] t \in {"SDT", "EIT"} /\ d[1] = 100 -> DataBroadcast(d)
    [] t = "PMT" /\ d[1] = 102 -> DataBroadcastId(d)
    [] t = "PMT" /\ d[1] = 111 -> ApplicationSignalling(d)
    [] OTHER -> <<>>

DescriptorLen(buf, o) == Byte(buf, o + 1) + 2

Descriptor(t, buf, o) ==
  LET d == SubSeq(buf, o + 1, Len(buf))
  IN  [table |-> t, type |-> d[1],
       content |-> IF DescriptorLen(buf, o) = 2 THEN <<>> ELSE Content(t, d)]

-----------------------------------------------------------------------------
(* Memory, in blocks: a text has one for itself and one for its codes, a   *)
(* dynamic array one for itself and one for its elements, both only when   *)
(* they have any; a string or a plain array has one if it is not empty.    *)
Block(s)     == IF s = <<>> THEN 0 ELSE 1
TextBlocks(text)  == 1 + Block(text)

(* An array whose elements own nothing, and one whose elements own what    *)
(* the sequence owned says.  The first is made at once or, where it is     *)
(* optional, only when the descriptor has something in it.                 *)
PlainArray(a)      == 1 + Block(a)
OptionalArray(a)   == IF a = <<>> THEN 0 ELSE PlainArray(a)
ArrayBlocks(owned) == PlainArray(owned) + SumFunction(owned)

(* What a content owns, by the name of its pointers.                       *)
Owned(c) ==
  [f \in DOMAIN c |->
     CASE f \in {"name", "provider_name", "service_name", "event_name", "text"} ->
            TextBlocks(c[f])
       [] f = "items" ->
            ArrayBlocks([i \in DOMAIN c[f] |-> TextBlocks(c[f][i].item_description)
                                                 + TextBlocks(c[f][i].item_value)])
       [] f = "ratings" -> PlainArray(c[f])
       [] f = "iso_names" -> ArrayBlocks([i \in DOMAIN c[f] |-> Block(c[f][i].name)])
       [] f = "params" -> ArrayBlocks([i \in DOMAIN c[f] |-> Block(c[f][i])])
       [] f \in {"apps", "profiles"} -> OptionalArray(c[f])
       [] f \in {"content", "user"} -> 1  \* malloc of any size
       [] f \in {"private", "selectors", "labels", "langs", "base_path", "classpath", "class"} ->
            Block(c[f])
       [] OTHER -> 0]

(* free_descriptor, by tag and table                                       *)
Freed(t, tag) ==
  CASE t = "AIT" /\ tag = 0 -> {"profiles", "labels"}
    [] t = "AIT" /\ tag = 1 -> {"iso_names"}
    [] t = "AIT" /\ tag = 3 -> {"params"}
    [] t = "AIT" /\ tag = 4 -> {"base_path", "classpath", "class"}
    [] t = "PMT" /\ tag = 9 -> {"private"}
    [] tag = 10 -> {"langs"}
    [] t = "NIT" /\ tag = 64 -> {"name"}
    [] t = "SDT" /\ tag = 72 -> {"provider_name", "service_name"}
    [] t = "EIT" /\ tag = 77 -> {"event_name", "text"}
    [] t = "EIT" /\ tag = 78 -> {"items", "text"}
    [] t = "EIT" /\ tag = 80 -> {"text"}
    [] t = "EIT" /\ tag = 84 -> {"content", "user"}
    [] t = "EIT" /\ tag = 85 -> {"ratings"}
    [] t \in {"SDT", "EIT"} /\ tag = 100 -> {"selectors", "text"}
    [] t = "PMT" /\ tag = 102 -> {"selectors"}
    [] t = "PMT" /\ tag = 111 -> {"apps"}
    [] OTHER -> {}

OwnedBlocks(des) == SumFunction(Owned(des.content))
FreedBlocks(des) ==
  LET owned == Owned(des.content)
  IN  SumFunction([f \in DOMAIN owned |->
                     IF f \in Freed(des.table, des.type) THEN owned[f] ELSE 0])
=============================================================================
