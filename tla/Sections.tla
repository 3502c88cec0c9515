------------------------------ MODULE Sections ------------------------------
(***************************************************************************)
(* The tables (src/tables.c, src/mhp_tables.c): what the sections of one   *)
(* table are decoded into, version by version.                             *)
(*                                                                         *)
(* A table is a list of items, each with descriptors, after descriptors of *)
(* its own.  The six decoders are the same loops over different layouts.   *)
(* A section is decoded in one call; when sections come, and what events   *)
(* and filters follow, is in module Decoder.                               *)
(***************************************************************************)
EXTENDS Descriptors, FiniteSets

CONSTANTS
  Broadcast,   \* what is sent: of each table, its versions with their sections
  MaxSections  \* bound on the sections received

VARIABLES
  table,    \* the table that is received
  held,     \* what was decoded of it; {} if there is none
  heap,     \* the blocks of memory taken and not given back
  sent,     \* history: the last section whose version was new
  stop,     \* history: where the decoder stopped in it
  received  \* the number of sections so far

vars == <<table, held, heap, sent, stop, received>>

-----------------------------------------------------------------------------
(* Where things are: the size of the header, the length of the descriptors *)
(* of the table if it has any, the size of the header of an item and, in   *)
(* it, the length of its descriptors; 0 for what a table does not have.    *)
(* The items of some have a length, those of others go on up to the CRC.   *)
Layout(t) ==
  CASE t = "PAT" -> [head |-> 8,  own |-> 0,  item |-> 4,  descs |-> 0,  counted |-> FALSE]
    [] t = "PMT" -> [head |-> 12, own |-> 10, item |-> 5,  descs |-> 3,  counted |-> FALSE]
    [] t = "SDT" -> [head |-> 11, own |-> 0,  item |-> 5,  descs |-> 3,  counted |-> FALSE]
    [] t = "EIT" -> [head |-> 14, own |-> 0,  item |-> 12, descs |-> 10, counted |-> FALSE]
    [] t = "NIT" -> [head |-> 10, own |-> 8,  item |-> 6,  descs |-> 4,  counted |-> TRUE]
    [] t = "AIT" -> [head |-> 10, own |-> 8,  item |-> 9,  descs |-> 7,  counted |-> TRUE]

VersionOf(buf) == (Byte(buf, 5) \div 2) % 32

TableId(t, buf) ==
  CASE t = "PMT" -> <<Bits13(buf, 8)>>
    [] t = "SDT" -> <<Bits16(buf, 3), Bits16(buf, 8)>>
    [] t = "AIT" -> <<Byte(buf, 3) \div 128, Bits16(buf, 3) % 32768>>
    [] OTHER -> <<Bits16(buf, 3)>>

Bcd(b) == 10 * (b \div 16) + (b % 16)

ItemFields(t, buf, o) ==
  CASE t = "PAT" -> [number |-> Bits16(buf, o), pmt_pid |-> Bits13(buf, o + 2)]
    [] t = "PMT" -> [type |-> Byte(buf, o), pid |-> Bits13(buf, o + 1)]
    [] t = "SDT" -> [number |-> Bits16(buf, o), eit |-> (Byte(buf, o + 2) \div 2) % 2,
                     eit_pw |-> Byte(buf, o + 2) % 2,
                     running_status |-> Byte(buf, o + 3) \div 32,
                     scram |-> (Byte(buf, o + 3) \div 16) % 2]
    [] t = "EIT" -> [event_id |-> Bits16(buf, o), start_time |-> Bytes(buf, o + 2, 5),
                     duration |-> 3600 * Bcd(Byte(buf, o + 7)) + 60 * Bcd(Byte(buf, o + 8))
                                    + Bcd(Byte(buf, o + 9)),
                     running_status |-> Byte(buf, o + 10) \div 32,
                     scram |-> (Byte(buf, o + 10) \div 16) % 2]
    [] t = "NIT" -> [ts_id |-> Bits16(buf, o), original_net_id |-> Bits16(buf, o + 2)]
    [] t = "AIT" -> [ctrl_code |-> Byte(buf, o + 6)]

-----------------------------------------------------------------------------
(* The loops.  Each counts the bytes it has left down to 0, or to the four *)
(* of the CRC; that is to come to a certain place.                         *)

DescriptorPlaces(buf, from, until) ==
  Turns(from, until, [o \in Nat |-> o + DescriptorLen(buf, o)])

DescriptorsUntil(t, buf, from, until) ==
  LET places == DescriptorPlaces(buf, from, until)
  IN  [i \in DOMAIN places |-> Descriptor(t, buf, places[i])]

(* Where a loop over descriptors stops *)
DescriptorsEnd(buf, from, until) ==
  LET places == DescriptorPlaces(buf, from, until)
  IN  IF places = <<>> THEN from ELSE Last(places) + DescriptorLen(buf, Last(places))

ItemEnd(t, buf, o) ==
  LET l == Layout(t)
      from == o + l.item
  IN  IF l.descs = 0 THEN from
      ELSE DescriptorsEnd(buf, from, from + Bits12(buf, o + l.descs))

Item(t, buf, o) ==
  LET l == Layout(t)
      from == o + l.item
  IN  [fields |-> ItemFields(t, buf, o),
       descriptors |-> IF l.descs = 0 THEN <<>>
                       ELSE DescriptorsUntil(t, buf, from, from + Bits12(buf, o + l.descs))]

OwnEnd(t, buf) ==
  LET l == Layout(t) IN
    IF l.own = 0 THEN l.head
    ELSE DescriptorsEnd(buf, l.head, l.head + Bits12(buf, l.own))

ItemsFrom(t, buf) == OwnEnd(t, buf) + (IF Layout(t).counted THEN 2 ELSE 0)

ItemsUntil_mutant(t, buf, len) ==  \* the CRC is taken for an item
  IF Layout(t).counted THEN ItemsFrom(t, buf) + Bits12(buf, OwnEnd(t, buf)) ELSE len
ItemsUntil(t, buf, len) ==
  IF Layout(t).counted THEN ItemsFrom(t, buf) + Bits12(buf, OwnEnd(t, buf)) ELSE len - 4

ItemPlaces(t, buf, len) ==
  Turns(ItemsFrom(t, buf), ItemsUntil(t, buf, len), [o \in Nat |-> ItemEnd(t, buf, o)])

(* Of a PAT, program 0 is that of the NIT, and not among the others; each *)
(* takes the place of one before it.                                       *)
IsNit(item) == "pmt_pid" \in DOMAIN item.fields /\ item.fields.number = 0

Nits(items) == {i \in DOMAIN items : IsNit(items[i])}
Others(items) ==
  LET upTo[i \in 0..Len(items)] ==
        IF i = 0 THEN <<>>
        ELSE IF IsNit(items[i]) THEN upTo[i - 1] ELSE Append(upTo[i - 1], items[i])
  IN  upTo[Len(items)]

ItemsIn(t, buf, len) ==
  LET places == ItemPlaces(t, buf, len)
  IN  [i \in DOMAIN places |-> Item(t, buf, places[i])]

Decoded(t, buf, len) ==
  LET l == Layout(t)
      items == ItemsIn(t, buf, len)
      nits  == Nits(items)
  IN  [version |-> VersionOf(buf), id |-> TableId(t, buf),
       own |-> IF l.own = 0 THEN <<>>
               ELSE DescriptorsUntil(t, buf, l.head, l.head + Bits12(buf, l.own)),
       items |-> Others(items), nits |-> Cardinality(nits),
       nit |-> IF nits = {} THEN {} ELSE {items[Max(nits)].fields.pmt_pid}]

DecoderStops(t, buf, len) ==
  LET places == ItemPlaces(t, buf, len)
  IN  IF places = <<>> THEN ItemsFrom(t, buf) ELSE ItemEnd(t, buf, Last(places))

-----------------------------------------------------------------------------
(* Memory.  An array of descriptors takes them with it when it is freed;   *)
(* the streams of a program and the events of a program have nothing that  *)
(* frees theirs.                                                           *)

DescriptorsTaken(ds) == ArrayBlocks([i \in DOMAIN ds |-> OwnedBlocks(ds[i])])
DescriptorsFreed(ds) == ArrayBlocks([i \in DOMAIN ds |-> FreedBlocks(ds[i])])

HasOwn(t) == Layout(t).own # 0

(* An event has its start time besides. *)
ItemTaken(t, item) ==
  (IF t = "PAT" THEN 0 ELSE DescriptorsTaken(item.descriptors)) + (IF t = "EIT" THEN 1 ELSE 0)

Taken(t, h) ==
  (IF HasOwn(t) THEN DescriptorsTaken(h.own) ELSE 0)
    + ArrayBlocks([i \in DOMAIN h.items |-> ItemTaken(t, h.items[i])]) + h.nits

ItemFreed_mutant(t, item) == IF t = "EIT" THEN 1 ELSE 0  \* no callback is set
ItemFreed(t, item) ==
  CASE t \in {"PAT", "PMT"} -> 0
    [] t = "EIT" -> 1
    [] OTHER -> DescriptorsFreed(item.descriptors)

(* mydvb_delete_program, alone, goes over the streams itself. *)
ItemDeleted(t, item) ==
  IF t = "PMT" THEN DescriptorsFreed(item.descriptors) ELSE ItemFreed(t, item)

Released(t, h, item_blocks(_, _)) ==
  (IF HasOwn(t) THEN DescriptorsFreed(h.own) ELSE 0)
    + ArrayBlocks([i \in DOMAIN h.items |-> item_blocks(t, h.items[i])])
    + Cardinality(h.nit)

HeldBlocks(blocks(_)) == IF held = {} THEN 0 ELSE blocks(CHOOSE h \in held : TRUE)

-----------------------------------------------------------------------------
(* A section of length len, in a buffer that goes on with what is older;   *)
(* tells is what its sender put into it.  A PAT has one NIT at most, for   *)
(* the decoder does not give back those that another one takes the place   *)
(* of.                                                                     *)
ASSUME SectionsAssumption ==
  /\ MaxSections \in Nat
  /\ \A s \in Broadcast :
       /\ s.table \in Tables /\ s.buf \in Seq(0..255) /\ s.len \in Nat
       /\ Cardinality(Nits(ItemsIn(s.table, s.buf, s.len))) <= 1

Init ==
  /\ table \in Tables
  /\ held = {} /\ sent = {} /\ stop = 0
  /\ heap = 0 /\ received = 0

Unchanged(buf) == \E h \in held : h.version = VersionOf(buf)

Section(s) ==
  /\ received < MaxSections /\ s.table = table
  /\ received' = received + 1
  /\ IF Unchanged(s.buf)
     THEN UNCHANGED <<held, heap, sent, stop>>
     ELSE \E new \in {Decoded(table, s.buf, s.len)} :
            /\ held' = {new}
            /\ heap' = heap - HeldBlocks(LAMBDA h : Released(table, h, ItemFreed))
                            + Taken(table, new)
            /\ sent' = {s}
            /\ stop' = DecoderStops(table, s.buf, s.len)
  /\ UNCHANGED table

(* The program, the PAT or the decoder goes: mydvb_delete_program,         *)
(* mydvb_delete_pat, mydvb_delete_nit, mydvb_delete_sdt and                *)
(* mydvb_delete_ait.  Nothing frees an EIT.                                *)
Delete ==
  /\ table # "EIT"
  /\ held # {}
  /\ heap' = heap - HeldBlocks(LAMBDA h : Released(table, h, ItemDeleted))
  /\ held' = {} /\ sent' = {} /\ stop' = 0
  /\ UNCHANGED <<table, received>>

Next == (\E s \in Broadcast : Section(s)) \/ Delete

Spec == Init /\ [][Next]_vars
-----------------------------------------------------------------------------
(* Correctness, for sections that are well formed                          *)

(* The ratings of a country and two ids of a remote carousel are misread.  *)
SameDescriptor(new, old) ==
  /\ new.type = old.type
  /\ CASE table = "EIT" /\ old.type = 85 ->
            DOMAIN new.content = DOMAIN old.content
              /\ \A f \in DOMAIN old.content : Len(new.content[f]) = Len(old.content[f])
       [] table = "AIT" /\ old.type = 2 ->
            DOMAIN new.content = DOMAIN old.content
              /\ \A f \in DOMAIN old.content \ {"ids"} : new.content[f] = old.content[f]
       [] OTHER -> new.content = old.content

SameDescriptors(new, old) ==
  Len(new) = Len(old) /\ \A i \in DOMAIN old : SameDescriptor(new[i], old[i])

(* Through any sections, a client finds in a table exactly what the last   *)
(* new version said: each item with its own descriptors, each descriptor   *)
(* with its content, those it does not know and empty ones passed over.    *)
DecodedAsSent ==
  \A s \in sent, h \in held :
    /\ h.version = s.tells.version /\ h.id = s.tells.id /\ h.nit = s.tells.nit
    /\ SameDescriptors(h.own, s.tells.own)
    /\ Len(h.items) = Len(s.tells.items)
    /\ \A i \in DOMAIN h.items :
         /\ h.items[i].fields = s.tells.items[i].fields
         /\ SameDescriptors(h.items[i].descriptors, s.tells.items[i].descriptors)

(* The loops over items and descriptors come to their end exactly before   *)
(* the CRC, and nothing of the older sections behind it is taken for part  *)
(* of this one.                                                            *)
EndsAtCrc == \A s \in sent : stop = s.len - 4

(* Everything taken for a table is given back with it, once: nothing that  *)
(* is held is freed, and what is not held was freed, but the descriptors   *)
(* of the streams of a program and of events that another version replaced.*)
NothingLost ==
  LET blocks == HeldBlocks(LAMBDA h : Taken(table, h)) IN
    /\ heap >= blocks
    /\ table \notin {"PMT", "EIT"} => heap = blocks
=============================================================================
