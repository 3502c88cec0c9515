----------------------------- MODULE MCSections -----------------------------
(***************************************************************************)
(* Constants of the run of module Sections: sections as broadcasters make  *)
(* them, by the layouts of ISO 13818-1, EN 300 468 and TS 102 812.         *)
(***************************************************************************)
EXTENDS Sections

W16(n)         == <<n \div 256, n % 256>>
W13(n)         == W16(57344 + n)          \* reserved bits are set
W12(high, n)   == W16(4096 * high + n)
Sized(s)       == <<Len(s)>> \o s
Each(f(_), s)  == FlattenSeq([i \in DOMAIN s |-> f(s[i])])

Body(t, tag, c) ==
  CASE t = "AIT" /\ tag = 0 ->
         Sized(FlattenSeq(c.profiles))
           \o <<128 * c.service_bound_flag + 32 * c.visibility + 31, c.priority>> \o c.labels
    [] t = "AIT" /\ tag = 1 -> Each(LAMBDA x : x.lang \o Sized(x.name), c.iso_names)
    [] t = "AIT" /\ tag = 2 ->
         W16(c.id) \o <<c.label>>
           \o (IF c.id # 1 THEN <<9, 9>>
               ELSE (IF c.remote_flag THEN <<255>> \o Each(W16, c.ids) ELSE <<127>>)
                      \o <<c.component_tag>>)
    [] t = "AIT" /\ tag = 3 -> Each(Sized, c.params)
    [] t = "AIT" /\ tag = 4 -> Sized(c.base_path) \o Sized(c.classpath) \o c.class
    [] tag = 9  -> W16(c.ca_system_id) \o W13(c.ca_pid) \o c.private
    [] tag = 10 -> Each(LAMBDA x : x.lang \o <<x.audio_type>>, c.langs)
    [] tag = 64 -> c.name
    [] tag = 72 -> <<c.service_type>> \o Sized(c.provider_name) \o Sized(c.service_name)
    [] tag = 77 -> c.lang \o Sized(c.event_name) \o Sized(c.text)
    [] tag = 78 ->
         <<16 * c.id + c.last_id>> \o c.lang
           \o Sized(Each(LAMBDA x : Sized(x.item_description) \o Sized(x.item_value), c.items))
           \o Sized(c.text)
    [] tag = 80 -> <<16 * c.stream_content_ext + c.stream_content, c.component_type,
                     c.component_tag>> \o c.lang \o c.text
    [] tag = 82 -> <<c.component_tag>>
    [] tag = 84 -> FlattenSeq([i \in DOMAIN c.content |-> <<c.content[i], c.user[i]>>])
    [] tag = 85 -> Each(LAMBDA x : x.country \o <<x.other>>, c.ratings)
    [] tag = 100 -> W16(c.data_broadcast_id) \o <<c.component_tag>> \o Sized(c.selectors)
                      \o c.lang \o Sized(c.text)
    [] tag = 102 -> W16(c.data_broadcast_id) \o c.selectors
    [] tag = 111 -> Each(LAMBDA x : W16(x.type) \o <<224 + x.AIT_version>>, c.apps)

Means(t, tag, c) == [table |-> t, type |-> tag, content |-> c, bytes |-> Body(t, tag, c)]
Unknown(t, tag, bytes) == [table |-> t, type |-> tag, content |-> <<>>, bytes |-> bytes]

DescriptorBytes(des) == <<des.type>> \o Sized(des.bytes)
AllBytes(ds) == Each(DescriptorBytes, ds)

ItemHead(t, f, n) ==
  CASE t = "PAT" -> W16(f.number) \o W13(f.pmt_pid)
    [] t = "PMT" -> <<f.type>> \o W13(f.pid) \o W12(15, n)
    [] t = "SDT" -> W16(f.number) \o <<252 + 2 * f.eit + f.eit_pw>>
                      \o W12(2 * f.running_status + f.scram, n)
    [] t = "EIT" -> W16(f.event_id) \o f.start_time \o <<\h01, \h30, \h59>>
                      \o W12(2 * f.running_status + f.scram, n)
    [] t = "NIT" -> W16(f.ts_id) \o W16(f.original_net_id) \o W12(15, n)
    [] t = "AIT" -> <<1, 2, 3, 4, 5, 6, f.ctrl_code>> \o W12(15, n)

ItemBytes(t, item) ==
  ItemHead(t, item.fields, Len(AllBytes(item.descriptors))) \o AllBytes(item.descriptors)

Section_(t, version, id, own, items) ==
  LET head  == <<0, 240, 0>> \o (IF t = "PMT" THEN <<0, 7>> ELSE
                                 IF t = "AIT" THEN W16(32768 * id[1] + id[2]) ELSE W16(id[1]))
                 \o <<193 + 2 * version, 0, 0>>
      loop  == FlattenSeq([i \in DOMAIN items |-> ItemBytes(t, items[i])])
      owned == W12(15, Len(AllBytes(own))) \o AllBytes(own)
      rest  == CASE t = "PAT" -> loop
                 [] t = "PMT" -> W13(id[1]) \o owned \o loop
                 [] t = "SDT" -> W16(id[2]) \o <<255>> \o loop
                 [] t = "EIT" -> <<0, 1, 0, 2, 0, 78>> \o loop
                 [] OTHER -> owned \o W12(15, Len(loop)) \o loop
      all   == head \o rest \o <<1, 2, 3, 16>>
  IN  [table |-> t, buf |-> all \o [i \in 1..20 |-> 0], len |-> Len(all),
       tells |-> [version |-> version, id |-> id, own |-> own,
                  items |-> SelectSeq(items, LAMBDA item : ~IsNit(item)),
                  nit |-> {items[i].fields.pmt_pid : i \in {i \in DOMAIN items : IsNit(items[i])}}]]

-----------------------------------------------------------------------------
(* One or more descriptors of each kind that a table has, one that is not  *)
(* known in it, one that is empty.                                         *)
Eng == <<101, 110, 103>>

Kinds(t) ==
  CASE t = "PAT" -> {}
    [] t = "PMT" ->
         {Means(t, 9, [ca_system_id |-> 256, ca_pid |-> 5000, private |-> p]) : p \in {<<>>, <<7, 8>>}}
           \cup {Means(t, 10, [langs |-> <<[lang |-> Eng, audio_type |-> 1]>>]),
                 Unknown(t, 10, <<>>),
                 Means(t, 82, [component_tag |-> 3]),
                 Means(t, 102, [data_broadcast_id |-> 261, selectors |-> <<4>>]),
                 Means(t, 111, [apps |-> <<[type |-> 1, AIT_version |-> 5],
                                           [type |-> 2, AIT_version |-> 31]>>]),
                 Unknown(t, 72, <<1, 0, 0>>)}
    [] t = "SDT" ->
         {Means(t, 72, [service_type |-> 1, provider_name |-> p, service_name |-> <<66>>]) :
            p \in {<<>>, <<65>>}}
           \cup {Means(t, 100, [data_broadcast_id |-> 10, component_tag |-> 2,
                                selectors |-> <<1, 2>>, lang |-> Eng, text |-> <<67>>]),
                 Unknown(t, 73, <<1, 2>>), Unknown(t, 72, <<>>)}
    [] t = "EIT" ->
         {Means(t, 77, [lang |-> Eng, event_name |-> <<65, 66>>, text |-> <<>>]),
          Means(t, 78, [id |-> 1, last_id |-> 2, lang |-> Eng,
                        items |-> <<[item_description |-> <<65>>, item_value |-> <<>>],
                                    [item_description |-> <<66>>, item_value |-> <<67, 68>>]>>,
                        text |-> <<69>>]),
          Means(t, 80, [stream_content_ext |-> 15, stream_content |-> 2, component_type |-> 3,
                        component_tag |-> 4, lang |-> Eng, text |-> <<>>]),
          Means(t, 84, [content |-> <<16, 32>>, user |-> <<0, 1>>]),
          Means(t, 85, [ratings |-> <<[country |-> Eng, other |-> 9]>>]),
          Unknown(t, 66, <<1>>)}
    [] t = "NIT" ->
         {Means(t, 64, [name |-> <<65>>]), Unknown(t, 90, <<1, 2, 3>>), Unknown(t, 64, <<>>)}
    [] t = "AIT" ->
         {Means(t, 0, [profiles |-> <<<<0, 1, 1, 0, 2>>>>, service_bound_flag |-> 1,
                       visibility |-> 3, priority |-> 5, labels |-> <<1>>]),
          Means(t, 1, [iso_names |-> <<[lang |-> Eng, name |-> <<65>>],
                                       [lang |-> Eng, name |-> <<>>]>>]),
          Means(t, 2, [id |-> 1, label |-> 2, remote_flag |-> TRUE, ids |-> <<1, 2, 3>>,
                       component_tag |-> 6]),
          Means(t, 2, [id |-> 1, label |-> 2, remote_flag |-> FALSE, ids |-> <<0, 0, 0>>,
                       component_tag |-> 6]),
          Means(t, 2, [id |-> 3, label |-> 2]),
          Means(t, 3, [params |-> <<<<65>>, <<>>, <<66, 67>>>>]),
          Means(t, 4, [base_path |-> <<47>>, classpath |-> <<>>, class |-> <<65>>])}

Fields(t, k) ==
  CASE t = "PAT" -> [number |-> k - 1, pmt_pid |-> 4096 + k]
    [] t = "PMT" -> [type |-> k, pid |-> 8000 + k]
    [] t = "SDT" -> [number |-> 300 + k, eit |-> k % 2, eit_pw |-> 1, running_status |-> 4,
                     scram |-> k % 2]
    [] t = "EIT" -> [event_id |-> 400 + k, start_time |-> <<1, 2, 3, 4, k>>, duration |-> 5459,
                     running_status |-> k, scram |-> 1]
    [] t = "NIT" -> [ts_id |-> 500 + k, original_net_id |-> 600]
    [] t = "AIT" -> [ctrl_code |-> k]

ItemOf(t, k, ds) == [fields |-> Fields(t, k), descriptors |-> ds]

(* At most two descriptors in an item, one in the table, two items. *)
Lists(t, n) == UNION {[1..k -> Kinds(t)] : k \in 0..n}

ItemLists(t) ==
  IF t = "PAT" THEN {[i \in 1..k |-> ItemOf(t, i, <<>>)] : k \in 0..3}
  ELSE {<<>>} \cup {<<ItemOf(t, 1, ds)>> : ds \in Lists(t, 2)}
              \cup {<<ItemOf(t, 1, ds), ItemOf(t, 2, <<>>)>> : ds \in Lists(t, 2)}

Id(t) == CASE t = "AIT" -> <<1, 2>> [] t = "SDT" -> <<258, 259>> [] OTHER -> <<4660>>

MCBroadcast ==
  UNION {{Section_(t, v, Id(t), own, items) :
            v \in {0}, items \in ItemLists(t),
            own \in (IF t \in {"PMT", "NIT", "AIT"} THEN Lists(t, 1) ELSE {<<>>})} : t \in Tables}
    \cup {Section_(t, 31, Id(t), <<>>, <<ItemOf(t, 2, <<>>)>>) : t \in Tables}
=============================================================================
