------------------------------ MODULE InfoDvb ------------------------------
(***************************************************************************)
(* The stored channels (src/info_dvb.c): lists of channels, their programs *)
(* and streams, filled by a search or from a file, merged, renumbered and  *)
(* saved.                                                                  *)
(*                                                                         *)
(* The loops over channels and over the lines of the file take one step    *)
(* per turn, so that the program may end inside them and leave a file that *)
(* is only partly written.  A line of which only a part was written is     *)
(* like one that was not: the reader stops at the end of the file.         *)
(***************************************************************************)
EXTENDS Text, FiniteSets

CONSTANTS
  Air,          \* the channels a search can find, without the user numbers
  Listed,       \* of each parameter, the values that have a name in its list
  MaxFound,     \* bound on the channels one search finds
  MaxChannels,  \* bound on the channels ever allocated
  MaxNumber     \* bound on the user numbers a client chooses

(* The parameters of a channel in the order of a line: inversion, bandwidth, *)
(* two code rates, constellation, transmission mode, guard interval and      *)
(* hierarchy.                                                                *)
Param == 1..8

(* A program as a search finds it, its names in unicode and not numbered.  *)
FoundProgram ==
  [n : Nat, provider : Seq(Nat), service : Seq(Nat), number : Nat,
   user_number : Nat, streams : Seq([n : Nat, pid : Nat])]

ASSUME InfoDvbAssumption ==
  /\ MaxFound \in Nat /\ MaxChannels \in Nat /\ MaxNumber \in Nat
  /\ \A c \in Air :
       /\ DOMAIN c.p = Param
       /\ c.programs \in Seq(FoundProgram)
       /\ \A j \in DOMAIN c.programs : c.programs[j].n = j - 1
  /\ DOMAIN Listed = Param

VARIABLES
  dvb,      \* the INFO_DVB of the client
  found,    \* that of the last search, handed over with its event
  pc,       \* what the client is in: "client", "merging", "saving", "loading"
  disk,     \* the lines of the file
  todo,     \* the lines still to be written or read
  next_id,  \* channels are known by the order of their allocation
  live,     \* the channels allocated and not freed
  saved,    \* history: the channels the file was last written from
  loaded,   \* history: the numbers of dvb come from a file
  trusted   \* history: no channel moved up, none merged into a loaded list,
            \* no two channels of one number saved

vars == <<dvb, found, pc, disk, todo, next_id, live, saved, loaded, trusted>>

-----------------------------------------------------------------------------
(* info_dvb_new, info_dvb_add, info_channel_new, info_channel_add and      *)
(* info_program_add                                                        *)
NewDvb == [channels |-> <<>>, user_number |-> 1]

WithChannel(list, c) == [list EXCEPT !.channels = Append(@, c)]

NewChannel(id, c) ==
  [id |-> id, type |-> c.type, n |-> c.n, f |-> c.f, p |-> c.p, programs |-> <<>>]

WithProgram(c, p) == [c EXCEPT !.programs = Append(@, p)]

WithStream(p, s) == [p EXCEPT !.streams = Append(@, s)]

InLast(list, f(_)) == [list EXCEPT ![Len(list)] = f(list[Len(list)])]

Ids(list) == {list.channels[i].id : i \in DOMAIN list.channels}

(* The programs of a channel get the next numbers of a list. *)
Numbered(c, user_number) ==
  [c EXCEPT !.programs =
     [j \in DOMAIN @ |-> [@[j] EXCEPT !.user_number = user_number + j - 1]]]

Counted(list, c) == [list EXCEPT !.user_number = @ + Len(c.programs)]

(* The programs of a list, by the places of their channel and their own. *)
Places(list) ==
  UNION {{<<i, j>> : j \in DOMAIN list.channels[i].programs} :
           i \in DOMAIN list.channels}

Program(list, at) == list.channels[at[1]].programs[at[2]]

Before(a, b) == a[1] < b[1] \/ (a[1] = b[1] /\ a[2] < b[2])

-----------------------------------------------------------------------------
(* info_dvb_find: in the first channel of a type and number, the first     *)
(* program of an index; info_dvb_get_by_user_number.  {} for NULL.         *)

OfNumber(list, type, n) ==
  {i \in DOMAIN list.channels : list.channels[i].type = type /\ list.channels[i].n = n}

First(S) == {a \in S : \A b \in S \ {a} : Before(a, b)}

Find(list, type, n, service) ==
  First({at \in Places(list) :
           /\ at[1] \in OfNumber(list, type, n)
           /\ \A i \in OfNumber(list, type, n) : at[1] <= i
           /\ Program(list, at).n = service})

ByUserNumber(list, number) ==
  First({at \in Places(list) : Program(list, at).user_number = number})

-----------------------------------------------------------------------------
(* The lines of a file.  A name goes through UTF-8 and back.               *)

ProgramLine(p) == [kind |-> "program", n |-> p.n, provider |-> ToUtf8(p.provider),
                   service |-> ToUtf8(p.service), number |-> p.number,
                   user_number |-> p.user_number]
StreamLine(s)  == [kind |-> "stream", n |-> s.n, pid |-> s.pid]
ChannelLine(c) == [kind |-> "channel", type |-> c.type, n |-> c.n, f |-> c.f, p |-> c.p]

ProgramLines(p) ==
  <<ProgramLine(p)>> \o [k \in DOMAIN p.streams |-> StreamLine(p.streams[k])]
ChannelLines(c) ==
  <<ChannelLine(c)>> \o FlattenSeq([j \in DOMAIN c.programs |-> ProgramLines(c.programs[j])])
Lines(channels) ==
  FlattenSeq([i \in DOMAIN channels |-> ChannelLines(channels[i])])

(* _info_dvb_parse_p: a name that is not in its list leaves the value of   *)
(* the field before, the frequency for the first.  The last name still has *)
(* the end of its line, so that it is in no list.                          *)
Parsed_mutant(line) ==  \* the names are looked up in the next list
  [k \in Param |-> IF k < 8 /\ line.p[k] \in Listed[k + 1] THEN line.p[k] ELSE line.f]
Parsed(line) ==
  LET value[k \in 0..8] ==
        IF k = 0 THEN line.f
        ELSE IF k < 8 /\ line.p[k] \in Listed[k] THEN line.p[k] ELSE value[k - 1]
  IN  [k \in Param |-> value[k]]

(* The index of a stream is read from "--0", which is 0. *)
LoadedStream(line)  == [n |-> 0, pid |-> line.pid]
LoadedProgram(line) ==
  [n |-> line.n, provider |-> TextCreate(line.provider),
   service |-> TextCreate(line.service), number |-> line.number,
   user_number |-> line.user_number, streams |-> <<>>]

WithLine(channels, line, id) ==
  CASE line.kind = "channel" ->
         Append(channels, NewChannel(id, [line EXCEPT !.p = Parsed(line)]))
    [] line.kind = "program" ->
         InLast(channels, LAMBDA c : WithProgram(c, LoadedProgram(line)))
    [] OTHER ->
         InLast(channels, LAMBDA c :
           [c EXCEPT !.programs =
              InLast(c.programs, LAMBDA p : WithStream(p, LoadedStream(line)))])

-----------------------------------------------------------------------------
(* The client                                                              *)

(* A search records the channels it finds (module Search), their programs  *)
(* numbered from 1 on, and hands them over when it ends.                   *)
WithFound(list, c) ==
  Counted(WithChannel(list, Numbered(c, list.user_number)), c)

Recorded(cs, id) ==
  LET New(i) == [NewChannel(id + i - 1, cs[i]) EXCEPT !.programs = cs[i].programs]
      upTo[i \in 0..Len(cs)] ==
        IF i = 0 THEN NewDvb ELSE WithFound(upTo[i - 1], New(i))
  IN  upTo[Len(cs)]

Searched(cs) ==
  /\ pc = "client" /\ found = NewDvb
  /\ next_id + Len(cs) <= MaxChannels + 1
  /\ found' = Recorded(cs, next_id)
  /\ live' = live \cup Ids(found')
  /\ next_id' = next_id + Len(cs)
  /\ UNCHANGED <<dvb, pc, disk, todo, saved, loaded, trusted>>

(* info_dvb_free of what a search found, which the client has not merged.  *)
FreeFound ==
  /\ pc = "client" /\ found # NewDvb
  /\ live' = live \ Ids(found)
  /\ found' = NewDvb
  /\ UNCHANGED <<dvb, pc, disk, todo, next_id, saved, loaded, trusted>>

(* info_dvb_merge (dvb, found), a turn of its loop at a time: the first    *)
(* channel of found takes the place, at the end, of the first one of dvb   *)
(* that has its type and number.                                           *)
MergeStart ==
  /\ pc = "client" /\ found.channels # <<>>
  /\ pc' = "merging"
  /\ trusted' = (trusted /\ ~loaded)
  /\ UNCHANGED <<dvb, found, disk, todo, next_id, live, saved, loaded>>

Replaced(list, c) ==
  LET same == OfNumber(list, c.type, c.n) IN {i \in same : \A k \in same : i <= k}

Without(channels, gone) ==
  IF gone = {} THEN channels ELSE RemoveAt(channels, CHOOSE i \in gone : TRUE)

Freed_mutant(list, gone) == {}  \* what is replaced is not freed
Freed(list, gone) == {list.channels[i].id : i \in gone}

Renumbered_mutant(c, user_number) == c  \* with the numbers of the search
Renumbered(c, user_number) == Numbered(c, user_number)

Merge ==
  /\ pc = "merging" /\ found.channels # <<>>
  /\ LET c    == Head(found.channels)
         gone == Replaced(dvb, c)
         rest == [dvb EXCEPT !.channels = Without(@, gone)]
     IN /\ live' = live \ Freed(dvb, gone)
        /\ dvb' = Counted(WithChannel(rest, Renumbered(c, dvb.user_number)), c)
  /\ found' = [found EXCEPT !.channels = Tail(@)]
  /\ UNCHANGED <<pc, disk, todo, next_id, saved, loaded, trusted>>

MergeEnd ==  \* the client frees the list, now empty
  /\ pc = "merging" /\ found.channels = <<>>
  /\ pc' = "client" /\ found' = NewDvb
  /\ UNCHANGED <<dvb, disk, todo, next_id, live, saved, loaded, trusted>>

(* info_dvb_move_channel: the programs from the new number up to the old   *)
(* one make room; a program that moves up finds its number taken.          *)
Shifted_mutant(number, from, to) ==  \* the last one is left out
  IF number >= to /\ number < from - 1 THEN number + 1 ELSE number
Shifted(number, from, to) ==
  IF number >= to /\ number < from THEN number + 1 ELSE number

Moved(channels, at, from, to) ==
  [i \in DOMAIN channels |->
     LET programs  == channels[i].programs
         Number(j) == IF <<i, j>> = at THEN to
                      ELSE Shifted(programs[j].user_number, from, to)
     IN  [channels[i] EXCEPT !.programs =
            [j \in DOMAIN programs |-> [programs[j] EXCEPT !.user_number = Number(j)]]]]

MoveChannel(from, to) ==
  /\ pc = "client"
  /\ \E at \in ByUserNumber(dvb, from) :
       dvb' = [dvb EXCEPT !.channels = Moved(dvb.channels, at, from, to)]
  /\ trusted' = (trusted /\ to <= from)
  /\ UNCHANGED <<found, pc, disk, todo, next_id, live, saved, loaded>>

(* info_dvb_save, of the list of the client or of what a search found.     *)
OneOfEach(list) ==
  \A i, j \in DOMAIN list.channels :
    list.channels[i].type = list.channels[j].type
      /\ list.channels[i].n = list.channels[j].n => i = j

SaveStart(list) ==
  /\ pc = "client"
  /\ pc' = "saving"
  /\ disk' = <<>> /\ todo' = Lines(list.channels)
  /\ saved' = list.channels
  /\ trusted' = (trusted /\ OneOfEach(list))
  /\ UNCHANGED <<dvb, found, next_id, live, loaded>>

SaveLine ==
  /\ pc = "saving" /\ todo # <<>>
  /\ disk' = Append(disk, Head(todo)) /\ todo' = Tail(todo)
  /\ UNCHANGED <<dvb, found, pc, next_id, live, saved, loaded, trusted>>

(* info_dvb_load, which clients do at their start.                         *)
LoadStart ==
  /\ pc = "client" /\ dvb = NewDvb /\ ~loaded
  /\ pc' = "loading"
  /\ todo' = disk
  /\ loaded' = TRUE
  /\ UNCHANGED <<dvb, found, disk, next_id, live, saved, trusted>>

Raised(user_number, v) == IF v > user_number THEN v + 1 ELSE user_number

LoadLine ==
  /\ pc = "loading" /\ todo # <<>>
  /\ LET line == Head(todo) IN
       /\ line.kind = "channel" => next_id <= MaxChannels
       /\ dvb' = [channels |-> WithLine(dvb.channels, line, next_id),
                  user_number |-> IF line.kind = "program"
                                  THEN Raised(dvb.user_number, line.user_number)
                                  ELSE dvb.user_number]
       /\ live' = IF line.kind = "channel" THEN live \cup {next_id} ELSE live
       /\ next_id' = IF line.kind = "channel" THEN next_id + 1 ELSE next_id
  /\ todo' = Tail(todo)
  /\ UNCHANGED <<found, pc, disk, saved, loaded, trusted>>

FileEnd ==
  /\ pc \in {"saving", "loading"} /\ todo = <<>>
  /\ pc' = "client"
  /\ UNCHANGED <<dvb, found, disk, todo, next_id, live, saved, loaded, trusted>>

(* The program ends, wherever it is, and starts again.                     *)
Restart ==
  /\ dvb' = NewDvb /\ found' = NewDvb
  /\ pc' = "client"
  /\ todo' = <<>> /\ live' = {} /\ loaded' = FALSE
  /\ UNCHANGED <<disk, next_id, saved, trusted>>

-----------------------------------------------------------------------------
Init ==
  /\ dvb = NewDvb /\ found = NewDvb
  /\ pc = "client"
  /\ disk = <<>> /\ todo = <<>>
  /\ next_id = 1 /\ live = {}
  /\ saved = <<>> /\ loaded = FALSE /\ trusted = TRUE

Next ==
  \/ \E k \in 1..MaxFound : \E cs \in [1..k -> Air] : IsInjective(cs) /\ Searched(cs)
  \/ FreeFound
  \/ MergeStart \/ Merge \/ MergeEnd
  \/ \E from, to \in 1..MaxNumber : MoveChannel(from, to)
  \/ \E list \in {dvb, found} : SaveStart(list)
  \/ SaveLine \/ LoadStart \/ LoadLine \/ FileEnd
  \/ Restart

Spec == Init /\ [][Next]_vars

-----------------------------------------------------------------------------
(* Correctness                                                             *)

(* A program is played by the number of its user (mydvb_info_dvb.h:64,     *)
(* "unique in the system") or as dvbt://channel/index (line 28): each      *)
(* leads to it, through any merges, moves, saves and loads, as long as     *)
(* nothing was merged into a loaded list and nothing moved up.             *)
EveryProgramIsFound ==
  trusted => \A at \in Places(dvb) :
    LET c == dvb.channels[at[1]]
        p == Program(dvb, at)
    IN  /\ ByUserNumber(dvb, p.user_number) = {at}
        /\ Find(dvb, c.type, c.n, p.n) = {at}

(* Every channel allocated is in one list, once, and every channel in a    *)
(* list is allocated: merging neither loses one nor leaves one that was    *)
(* freed.                                                                  *)
OwnedOnce ==
  /\ live = Ids(dvb) \cup Ids(found)
  /\ Cardinality(live) = Len(dvb.channels) + Len(found.channels)

(* Moving a channel changes the order of no other two programs, whichever  *)
(* way it moves.                                                           *)
OnlyOneMoves ==
  [][trusted /\ pc = "client" /\ pc' = "client" /\ Ids(dvb) = Ids(dvb)' =>
       \E a \in Places(dvb) \cup {<<0, 0>>} :
         \A b, c \in Places(dvb) \ {a} :
           Program(dvb, b).user_number < Program(dvb, c).user_number
             => Program(dvb', b).user_number < Program(dvb', c).user_number]_vars

(* "Usando el fichero de texto se puede reconstruir la informacion"        *)
(* (mydvb_info_dvb.h:14): a program that ends while it saves, and starts   *)
(* again, loads the first part of what it was saving, each program with    *)
(* its channel and each stream with its program, and with the parameters   *)
(* that have names, but the hierarchy, and the names that are ASCII.       *)
SameName(new, old) == Ascii(old) => new = old

SameProgram(new, old) ==
  /\ new.n = old.n /\ new.number = old.number
  /\ new.user_number = old.user_number
  /\ SameName(new.provider, old.provider) /\ SameName(new.service, old.service)
  /\ Len(new.streams) <= Len(old.streams)
  /\ \A k \in DOMAIN new.streams : new.streams[k].pid = old.streams[k].pid

SameChannel(new, old) ==
  /\ new.type = old.type /\ new.n = old.n /\ new.f = old.f
  /\ \A k \in 1..7 : old.p[k] \in Listed[k] => new.p[k] = old.p[k]
  /\ Len(new.programs) <= Len(old.programs)
  /\ \A j \in DOMAIN new.programs : SameProgram(new.programs[j], old.programs[j])

LoadedAsSaved ==
  pc = "loading" =>
    /\ Len(dvb.channels) <= Len(saved)
    /\ \A i \in DOMAIN dvb.channels :
         /\ SameChannel(dvb.channels[i], saved[i])
         /\ i < Len(dvb.channels) =>
              Len(dvb.channels[i].programs) = Len(saved[i].programs)

(* A name is written into as many bytes as were allocated for it.          *)
NamesFit ==
  \A at \in Places(found) :
    \A name \in {Program(found, at).provider, Program(found, at).service} :
      Len(Written(name)) = Allocated(name)
=============================================================================
