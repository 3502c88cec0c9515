# A verification project for libmydvb

libmydvb tunes Linux DVB devices and decodes the tables of the streams they
receive. A program registers callbacks and gives its thread to
`mydvb_main_loop`; everything the library and its users do afterwards happens
in callbacks of events, inside one another. There are no threads and no locks:
what is hard is that a callback may call anything, in the middle of the
function that notified it.

TLC checks the modules on small instances, TLAPS proves theorems about them for
all values of the constants. `PROJECT.json` maps every definition to the lines
it translates.

## Inventory

Paths are relative to `src/`. "Built" means listed in `src/Makefile.am`.

| component | code | state | operations | what makes it correct |
|---|---|---|---|---|
| tuners and filters | `src/mydvb.c`, `src/tune.c` | `MYDVB_TUNE`: status, references, parameters, frontend and dvr descriptors, section and stream filter tables, decoder | tune, release, start and stop decoder, program, stream; frontend events; timeout | the counter counts the users; descriptors are neither leaked nor used after close; users of a tuner receive what they asked for; a tuning ends |
| event dispatcher | `src/events.c` | array of listeners, next identifier, one propagation flag; the C stack of notifications | register, remove, stop, notify | each listener once, in order, nobody missed, a stopped event stops |
| main loop and poll table | `src/mydvb.c` 1426-1672 | `pfd`, `poll_len`, the slot being looked at, `mainloop` | add, remove, poll, scan | no wait in a read, every ready descriptor served |
| table decoder | `src/mydvb.c` 1039-1230, `src/tables.c` | `MYDVB`: PAT, SDT, programs, NIT, EIT, `ready` | one handler per table id | READY and PROGRAM once the tables are complete, versions replace each other |
| channel search | `src/mydvb_search.c` | `TUNER_SCAN_INFO`: status, scan, saved listeners, result | search, stop, cancel, three listeners | ends once, returns the listeners and the tuner, records what is on the air |
| frequency scan | `src/tune.c` 139-500 | odometer over frequencies and parameters | init, next | every combination once, then the end |
| stored channels | `src/info_dvb.c` | channels, programs, user numbers; a file | add, merge, move, find, load, save | user numbers unique, load inverts save, what is merged has one owner |
| tables and descriptors | `src/tables.c`, `src/descriptor.c`, `src/mhp_tables.c`, `src/mhp_desc.c` | the decoded tables | decode a section, delete a table | what is decoded is what was sent, the loops end at the CRC, memory comes back |
| dynamic array | `src/dynarray.c` | elements, size, capacity | add, remove, get | is a sequence that frees what it owns |
| text | `src/mydvb_text.c` | none | create, to UTF-8 | buffers are as large as what is written |
| dates and bits | `src/mydvb_date.c`, `src/util.c` | none | convert | arithmetic |
| queries | `src/mydvb_info.c` | none | read-only accessors | - |
| logger | `src/logger.c` | level, output | log | output only |
| teletext, carousel, `ca/csa`, `_obsolete` | not built | | | |
| examples | `tests/` | | a search (`test01.c`), a player (`test02.c`) | show what clients do |

How they interact: the main loop owns the round; it reads a descriptor, which
belongs to a tuner or to an external listener, changes the tuner or decodes a
table, and notifies. The dispatcher calls the listeners. These (a client, or
the search) tune, release, decode and change the listeners and the poll table,
that is, the very arrays the main loop and the dispatcher are iterating over,
and may notify again. The hard behaviours are listed, at their lines, under
"hazards" in `PROJECT.json`.

## Modules

`X` models a component, `MCX` instantiates it for TLC, `X_proofs` has theorems.
Definitions named `..._mutant` are mistakes someone could make in the
definition that follows them; no specification uses them. Each is there because
putting it in the place of the original breaks one property of one run, which
shows that the property depends on the code.

### Tuners

Control passes to client code between two calls of the library and while an
event is notified; an action is the code from one such point to the next.
`mydvb_tuner_channel` notifies TRYING halfway (line 1293), so it is two
actions: `TunerChannelOpen` (choose, count, open, poll, parameters) and
`TunerChannelTune` (`mydvb_tune_frontend`); `calls` is the stack of clients
between the two. The periodic check notifies FAILED between two tuners, so each
of its turns (`CheckTuner`) is an action and clients run in between. In the
other handlers the notification comes last.

| variable | code |
|---|---|
| `tune[t]` | `MYDVB_TUNE` number t of `engine->tuners`; `front` is what the device was told, `age` the seconds since `start_ms` |
| `polled` | the descriptors in `engine->pfd` |
| `open` | the descriptors the library has open, in the kernel |
| `client` | what each user holds and started |
| `calls`, `checking`, `due` | where the thread is |
| `patRead` | the decoders of `engine->channels` that have a PAT; they outlive their tuners |
| `up` | before `mydvb_engine_end` |

`open` hands out the lowest free number, as the kernel does, so a closed
descriptor comes back as another file at once. It may fail (`OpenMayFail`);
failed ioctls of a filter leave the same state. The filter tables are sets of
entries with their index: `RemoveFilters` has the loop of
`__mydvb_remove_pes`, which steps over the entry that moves into a removed
place.

What clients do (external): a client has at most one tuner, starts the decoder
of a locked tuner that has none, starts a program once, and stops its programs
before it leaves a tuner that others use. Releasing within the TRYING event is
left out. These are listed as hazards where the code does not check them.

### Dispatcher

`events` is the C stack: one record for each `mydvb_notify_event` that has not
returned, with the index of its loop; every operation is available in every
callback, `Notify` included, up to `MaxDepth`. A callback is any sequence of
operations and ends with `Finish` (the flag is down or nobody is left) or
`Continue` (the next matching listener of the array as it is then). `told`,
`present`, `stopped` and `meanwhile` are history for the properties.

### MainLoop

The poll table slot by slot: `Poll` sets `revents`, `Skip`, `Serve` and `Block`
look at slot `j`, `Return` ends the callback of a slot. `AddPoll` and
`RemovePoll` are called by callbacks; `RemovePoll` moves the descriptors down
and leaves `revents`, as the code does. Demux and frontend devices are opened
without `O_NONBLOCK`, so the read of one that has no data waits (`Block`).

### Decoder

The way of the tables: on the air, in the buffer of a filter, in the decoder. A
decoder (`MYDVB`) belongs to a channel; `mydvb_start_decoder` finds it again, so
it outlives the decoding, and two tuners on one channel feed the same one.

| variable | code |
|---|---|
| `mydvb[k]` | the decoder of `engine->channels` for a type and channel number: PAT, programs with version and event table, NIT, SDT, `ready` |
| `tuner[t]` | of a `MYDVB_TUNE`: the transponder its device is on while there is a decoder (`front`), whether there is a filter for the NIT, the filters of maps with the program they were started for, the programs a client started and did not stop |
| `waiting[t]` | what the demux holds for the filters of the tuner |
| `air[x]` | the tables transponder x sends (external) |
| `told`, `heard` | history: READY and PROGRAM events |
| `changes` | new versions so far, at most `MaxChanges` |

One action is one call of `__read_table` (`ReadPat`, `ReadSdt`, `ReadNit`,
`ReadPmt`, `ReadEit`), one client call (`StartDecoder`, `StopDecoder`,
`StartProgram`, `StopProgram`), or one event on the air. READY and PROGRAM are
notified at the end of a handler, so what callbacks call are the actions that
follow. The decoding functions of `tables.c` are operators: `PatRead`,
`SdtRead`, `NitRead`, `PmtRead`, `EitRead`. Content is what these decide by:
versions (5 bits, about to wrap at the start), the section number of PAT and
EIT, the programs a PAT lists and their pids.

The air (external) sends what it likes of its tables, repeatedly, and the
sections of an event table in turn. One section per filter waits, those of the
EIT filter in one place; with `MayLose` a section that finds it full is lost,
without it none is sent then, that is, the loop is fast enough. A client finds
a program by its number at each call; it starts one that is listed, once.

### Search, SearchService, Scan

`mydvb_tuner_search` takes a tuner and puts its own three listeners in the
place of those of the engine; from then on the search lives in its callbacks,
between everything else that happens, until it puts the listeners back,
reports, and releases the tuner.

| variable | code |
|---|---|
| `listeners`, `listener_cnt`, `event_propagation` | of the engine; a listener is known by its kind and its owner, a search or a client |
| `events` | the C stack as in `Dispatcher`, where the callbacks of the library run as well: a frame is in client code (`user`), about to run a callback of a search (`callback`), in the middle of `__mydvb_search_finish` (`finishing`), or back in the loop of the dispatcher (`done`) |
| `tune[t]` | status, references, channel number, frequency, whether the device took it, decoder |
| `tables[d]` | the frequency the tables of a decoder were read from; decoders outlive their tuners |
| `search[s]` | `TUNER_SCAN_INFO`; `tried`, `locked`, `disturbed` are history: the combinations tried, the frequencies at which its tuner locked, and whether events of other tuners have reached it |
| `mine` | history: the listeners clients may count on |
| `crashed` | a null pointer was followed |

`TunerSearch` and `AskEnd` (the client changes `scan_info->status`), `Register`
and `RemoveListener` are what client code does, in any callback.
`TuneCallback`, `ReadyCallback`, `TimeoutCallback` are the three callbacks, each
as a whole up to the event it notifies, with `ScanOn` and `Finish` as their
common tail; `FinishSearch` is what `__mydvb_search_finish` does when its event
has been told; `NextListener` is the loop of the dispatcher. `Lock`, `Fail`,
`ReadTables`, `Second`, `OtherEvent` are the main loop.

`Scan` has the lists of parameters of `mydvb_tune.h`, the search in them
(`FindNext`) and the odometers (`ScanNext`) as operators; `Combinations` is the
definition they are compared with.

`SearchService` is what a search promises: it takes a tuner nobody has, the
client may ask it to end, it reports once, with `COMPLETED` or what was asked
for, and the tuner comes back after the report. `ImplementsService` is the
refinement: `TunerSearch` is its `Start`, `AskEnd` its `Ask`, the end of a
callback its `Report`, `FinishSearch` its `Close`; other steps stutter.

### InfoDvb, Text

The lists of channels, programs and streams, and the file they are written to.
The loops that merge, save and load take a step per turn, and `Restart`, the
end of the program, comes between any two: `info_dvb_save` truncates the file
before it writes.

| variable | code |
|---|---|
| `dvb`, `found` | the `INFO_DVB` of the client and that of the last search |
| `pc`, `todo` | the loop the thread is in and the lines left of it; a merge takes the channels left from `found` |
| `disk` | the lines of the file |
| `live`, `next_id` | the channels allocated and not freed |
| `saved`, `loaded`, `trusted` | history for the properties |

`Text` is `mydvb_text_create` and the way to UTF-8, with the size of the buffer
and the bytes written into it; saving a name and loading it goes through both.

### Sections, Descriptors

One table and the sections that are received of it. PAT, PMT, SDT, NIT, EIT and
AIT are decoded by the same loops (items until the CRC or a length, descriptors
of the table and of each item) over different layouts, so `Layout` has the
offsets and the loops are written once. `Descriptors` has every parser of
`descriptor.c` and `mhp_desc.c`, over bytes. `table` is the table, `held` what
is decoded of it, `heap` the number of blocks taken and not given back; `sent`,
`stop` are history. `MCSections` builds sections from their contents by the
layout of the standards and without any operator of the decoder, so that
decoding is compared with an independent encoding. An old section stays behind
the new one in the buffer, as in the code; beyond that the buffer, which is static
(mydvb.c:1434), is zero.

## Runs

| run | instance | shows |
|---|---|---|
| `tuners_two` | 2 tuners, 3 clients, 2 channels, no failures | no leak, poll table and tuners agree, users get their channel, the decoder runs on locked tuners only, only available tuners are taken |
| `tuners_nested` | 1 tuner, 3 clients, 2 channels, failing opens, nested tuning | counters, idle tuners, no closed descriptor is polled, none is in two places |
| `tuners_live` | 1 tuner, 2 clients sharing one program, 10 descriptors, failing opens, fairness | filters never outlive the clients that started them, although the removal loop skips; a tuning ends |
| `dispatcher_nested` | 2 kinds, 4 listeners, depth 3 | order, nobody missed; of events whose callbacks notify no other: a removal causes no gap, stop stops |
| `mainloop_rounds` | 2 devices, a dvr, an external descriptor, 4 slots, fairness | until a slot is removed poll's answer holds, every ready descriptor is served |
| `decoder_tables` | 1 tuner, 2 programs on 2 pids, perhaps the same, 1 change, restarts | a client that waits for READY hears it, whatever was ready before; PROGRAM is heard of every started program that is ready, also when a PAT moved it and another one's stop took its filter; a PAT is taken whole |
| `decoder_shared` | 2 tuners, 1 program, 1 change, fairness | no tuner is told READY twice or too early; the tables are again those of the air, though one tuner brings old sections late |
| `decoder_events` | 1 tuner, 3 event sections, 1 change, fairness | event tables are completed, and then have each section once, if none was missed |
| `search` | 2 tuners, 2 searches, 1 frequency, 1 listener of a client, events of other tuners | no listener of a freed search is left, clients' listeners come back, READY comes with tables, tuners are given back, each search implements its service |
| `search_live` | 1 tuner, 1 search, 2 frequencies, 4 hierarchies by 2 constellations, fairness | a complete search tried every combination at every frequency that did not lock, recorded what was there, and every search ends |
| `stored` | 3 channels on the air, 2 found at once, 4 ever allocated, user numbers up to 3, restarts | every program is found by both its numbers, channels have one owner, a move moves one, what is loaded is the first part of what was saved, names fit their buffers |
| `sections` | 6 tables, every descriptor, up to 2 descriptors of an item and 2 items, 2 sections | what is decoded is what was sent, loops end at the CRC, memory comes back |

Bounds. Three clients are the fewest of which two share a tuner while a third
tunes or releases; two tuners and two channels make both "shared" and "taken"
happen. Descriptors are as many as the instance can open, except in
`tuners_live`, where they run out and any open may fail: two clients then hold
every mix of filters, neighbouring ones with one pid included. Three listeners
of one event are enough for one behind, at and ahead of the loop; depth 3 is an
event inside an event that is itself inside one. Four slots leave a removed one,
the current one, and two ahead. Of the decoder, one change is enough for an old
section to wait while a new one is read, and a restart brings the decoder's old
tables back besides. Three event sections are the fewest with one between the
first and the last. Far fewer than 32 changes, so a version that comes back is
an old section and not a wrap. All decoder runs have one transponder; loss of
sections and more of everything are in the theorems.

Two searches on two tuners are the fewest that begin and end inside each other,
in every order; one frequency with one combination then makes each short enough
for all of them, and `search_live` has the odometer: two digits that turn, two
frequencies, so that both the carry and the reset of a digit happen. In `stored`
two of three channels are satellite ones, which all have number 0, so that a
merge replaces channels and keeps others; user numbers up to three move a
program past one and past two others. In `sections`, two sections are a first
version and then the same one, a new one or a deletion; two items and two
descriptors are a first and a last of each loop, and which descriptor comes
first matters to none.

Fairness. One thread runs everything, and callbacks return. `MainLoop`: weak
fairness of the loop's own steps; a device need not deliver and a client need
not act. `Tuners`: strong fairness of the clock and of the periodic check,
because clients run in callbacks that come between its turns and may enable and
disable a turn in doing so, but cannot keep control from the loop. `Decoder`:
weak fairness of the reads, since the loop serves every descriptor that has data
(`ReadyIsServed`), and of each table on the air, since a stream repeats its
tables; clients and changes are free. `Search`: weak fairness of the library's
callbacks and of the dispatcher's loop, for code runs on; strong fairness of
each trial's end, since the device answers or the check of 3 seconds fails it
(`TryingEnds` of `Tuners`), and of the second that comes 5 seconds after a lock,
since other events come between. Tables need not come.

Symmetry is used on clients, kinds and (with one PAT section) programs, in runs
of safety properties only. Deadlock is not checked for `Tuners` and `MainLoop`,
which end (`mydvb_engine_end`, `mydvb_end_main_loop`), for `Search`, which stops
where a null pointer is followed, and for `Sections`, whose sections are
bounded; it is for `Dispatcher`, `Decoder` and `InfoDvb`.

## Seen, without a run

No run checks these; they are what the code was seen to do while it was
modelled, and the modules do it too. Where a property has a premise, this is
mostly why.

Dispatcher and main loop:

* `mydvb_notify_event` raises the engine's only propagation flag (events.c:144),
  so an event that one of its callbacks stopped goes on when the callback
  notifies another event afterwards. Stopping a nested event stops the
  enclosing one too (events.c:170).
* `mydvb_remove_poll` does not move `revents` with the descriptors
  (mydvb.c:1665), so a callback that releases a tuner or stops a decoder can
  make the loop wait in a read of a device that has nothing.

Tuners and decoders:

* A callback of TRYING that tunes takes the tuner that is being tuned
  (mydvb.c:1271), and the first frontend descriptor is lost.
* All satellite channels have number 0 (tune.c:131 has a TODO), and both tuners
  and decoders are found by number: a client shares a tuner that is locked on
  another transponder, and a decoder is READY with the tables of another one.
  With `OneSatellite`, `Satellite` and `SatelliteNumber` in the place of the
  terrestrial constants of `tuners_two`, `LockedOnChannelAskedFor` is violated.
* A PAT section of the stored version is ignored whatever its number
  (tables.c:68): of a PAT of several sections one is decoded, READY is told, and
  the other programs do not exist. With `NPat = 2` and `TwoSections` in
  `decoder_tables`, `PatIsWhole` is violated. The SDT is alike.
* An event table is complete at the second sighting of its first section
  (tables.c:692), sections missed between or not, and stays so until the next
  version.

Search and scan:

* Listeners registered during a search are lost when it ends, and one removed
  while it is saved comes back. FAILED of another tuner is lost to clients too
  while their listeners are saved, and to a first search while a second one
  has saved its listeners: it then never ends.
* The callbacks do not look at the tuner of an event (mydvb_search.c:285):
  events of other tuners drive a search. `mydvb_tuner_search` stops the
  propagation, but the TRYING it notifies raises it again, so that a search
  started in a READY callback of another tuner meets its own READY callback
  with `tune->mydvb` NULL. That TRYING event has no tuner set.
* A cable tuner gets no event, so its search never ends.
* Satellite transponders share a decoder (number 0): the second is recorded with
  the tables of the first. A terrestrial step that is no multiple of 8 MHz gives
  two frequencies one channel number, with the same effect
  (`ScanAssumption`).
* "scrambled" of a program that is not in the SDT is that of the last service
  looked at (mydvb_search.c:178). Streams are never recorded.

Stored channels:

* Loading sets the counter only if the number read is above it, and then to one
  more (info_dvb.c:504), so that the next program may get a number in use; a
  merge into a loaded list makes duplicates. Moving a program to a higher number
  does, too.
* The number of a stream is read as 0 from what was written ("--0"); the
  hierarchy keeps the end of its line, is in no list, and takes the value
  of the guard interval; a value without a name takes that of the field before.
* Names that are not ASCII change on reload; a ':' in a name ends the field.
* All satellite channels have number 0, so that a merge keeps the last only.

Sections:

* Parental ratings are read one byte early (descriptor.c:357),
  and two ids of a remote carousel of an AIT at the wrong bits;
  `SameDescriptor` leaves these contents out.
* The descriptors of the streams of a program and of events are not freed when
  another version replaces them, and nothing frees an EIT. `NothingLost` is
  stated of the other tables.
* The application labels get the size of their length field, which is a byte
  (mhp_desc.c:152), however many there are; sections of the model have one.

## What is proved

The proofs hold for any number of tuners, clients, channels, programs, searches,
listeners, events inside one another, slots and descriptors. They rest on the
named ASSUMEs of the modules (types of the constants, finitely many clients) and,
where a theorem says so, on a hypothesis of its own:

| hypothesis | theorems | why |
|---|---|---|
| `~NestedTuning`: no callback of TRYING tunes | `TakenIsAvailable`, `SharedIsAskedFor`, `NoLeak`, `PollIsComplete` | otherwise the tuner that is being tuned is taken and a descriptor is lost ("Seen, without a run"); `tuners_nested` lets callbacks tune |
| `NumbersIdentify`: a number is one channel of its delivery system | `SharedIsAskedFor` | so for UHF channels; satellite channels all have number 0 |
| `PidsIdentify`: programs have pids of their own | `FiltersAreStarted` | with one pid, a client's filter cannot be told from another's |
| `[]OneFeeder`: no two tuners feed one decoder at once | `ReadyIsHeard`, `ProgramIsHeard` | of two, the one that reads the last table is told, which nothing in the repository excludes or promises |
| `OneSectionPat`, `VersionsLast`: a PAT is one section, there are fewer changes than versions | `PatIsRight` | of several sections one is decoded; a version that comes back looks like no change |
| `AllReceived`: nothing is lost, decoding is not stopped | `EitIsRight` | a table is taken for complete when its first section comes again, whatever was missed |
| `FromUhf`: the first frequency is in UHF or above | `ReadyHasTables`, `FoundIsRight` | the frequency 0 stands for a decoder without tables; `mydvb_tune_get_uhf_channel` counts from 306 MHz, satellite frequencies are higher |

Most invariants that are checked are not inductive. For each component, what had
to be added and why:

**Tuners** (`Tuners_proofs`).

* `TypeInv`: with `TypeOK`, that filters have indices (`TablesFinite`), that the
  client on top of `calls` is still calling and is there once (`CallsAreStacked`),
  and that who has a tuner is in a phase of using it (`ClientsHaveTuners`).
* `UsesInv` relates the counter to the set of clients (`ReferencesCountUsers`),
  whose cardinality goes up and down by one in the lemmas on `Users`; a release
  that brings it to 0 closes the tuner (`IdleTunerOwnsNothing`). It holds with
  failing opens and nested tuning.
* `StageInv`: where the clients are that are halfway through a tuning. A tuner
  somebody is tuning is not locked (`CallingNotLocked`), and one that is in use
  and has not begun is being tuned (`NoopIsUnused`), so that a decoder is only
  started on a locked tuner, and the tuner that is taken had no user.
* `ChannelInv`: the device is on the channel last asked for (`FrontIsAsked`), and
  that is the channel of every user of the tuner (`UsersAgree`).
* `FdInv`: whose descriptors are. Different tuners have different ones
  (`TunersApart`), so do the parts of a tuner, and only a decoder has filters
  (`TunersTidy`); what is listed is open (`OwnedIsOpen`), so that the number an
  open returns is nobody's; what a tuner wants polled is polled (`Served`), which
  is what a close has to undo; a stream filter is not (`PesNotPolled`), for its
  close does not touch the poll table. From these `PolledOpen` and `OneOwner`,
  with nested tuning and failing opens.
* `ExactInv` adds the other direction, that nothing else is open or polled:
  `NoLeak`, `PollIsComplete`.
* `FilterInv`: the filters of a pid are at most as many as the clients that
  started the program. The removal loop steps over the entry behind a removed
  one; that it takes one filter at least is enough, because there was at most one
  for each client (`FiltersAreStarted`). Only holders have programs
  (`HoldersStart`), so a release may leave the tables alone.

**Dispatcher** (`Dispatcher_proofs`).

* `OrderInv`: identifiers increase along the array (`IdsIncrease`), and those
  already told are below everything beyond the index of the loop
  (`ToldIsBehind`). A removal moves later listeners towards the index, never
  earlier ones beyond it. It gives `ToldInOrderCorrect`.
* `CompleteInv` adds the other side, for every frame of the stack: the listeners
  found at the start are in the array until one is removed, and told up to the
  index (`Covered`); none was passed over below the last one told, removals
  included, until a callback notifies another event (`Unskipped`); and the one
  flag of the engine is what the last operation on it made it (`Flagged`).
  `NothingSkipped` is an invariant, `EverybodyTold` and `StoppedTellsNobody` are
  action properties from the same invariant.

**MainLoop** (`MainLoop_proofs`): what is polled is polled once (`PolledOnce`), so
that serving one slot does not take the data of one ahead (`ReadyHasDataCorrect`).

**Decoder** (`Decoder_proofs`).

* `ReadyInv`: a decoder that is ready has PAT and SDT (`ReadyHasTables`), which no
  handler takes away, and a tuner that was told has a ready decoder
  (`ToldIsReady`); nothing waits at a tuner without filters (`OnlyRunningWait`).
  It holds with loss, restarts and any number of tuners on a decoder:
  `ReadyOnceCorrect`.
* `HeardInv` is the two properties and that an idle tuner has no started program
  (`IdleStarts`). A step changes one decoder and the tuner that feeds it; that no
  other tuner has to be told is the hypothesis. What is to be shown of each
  handler is that READY and PROGRAM are told in the step that completes the
  tables, whichever table comes last, though a PAT replaces the programs while
  their maps wait to be read.
* `WholeInv`: a PAT somewhere, in a buffer or in a decoder, is at most as old
  (`Age`) as there were changes, and one of the version on the air has its
  programs. Fewer changes than versions make the age exact.
* `RoundInv`: the sections of an event table that were added are those from the
  initial one up to the one that comes next (`InRound`), which is in the buffer
  or, if nothing waits, the turn of the air (`OneWaits`, `TurnInv`, `RoundsInv`);
  a decoder nobody feeds and a program that is not listed have none (`UnreadInv`).

**Search** (`Search_proofs`, `SearchScan_proofs`).

* `SearchInv`: the listeners of a search are in the engine or in exactly one saved
  list, of a search that goes on (`ListenersInv`); only the innermost frame of
  the stack is about to run a callback, its owner has listeners in the engine, and
  a search ends in one frame at most (`EventsInv`); searches have different tuners
  with one reference each, all others are closed (`TunersInv`); a search that goes
  on is searching or was asked to end (`StatusInv`). So the search that
  finishes takes all of its listeners with it. It gives `NoStaleListenerCorrect`,
  `TunersGivenBackCorrect` and the refinement `ImplementsServiceCorrect`.
* `RestoreInv`: the searches that go on form a chain, from the one whose listeners
  are in the engine to the first, whose saved list has those of the clients
  (`Chained`); so it is known of every kind in which list a client's listeners are
  and in what order (`EngineLists`, `SavedLists`). What taking elements from a list
  and putting lists together does to that order are lemmas on `Only`. It gives
  `ListenersRestoredCorrect`.
* `TablesInv`: a READY event that is being told is of a tuner some search has, and
  its decoder keeps the tables until the search has been told (`ReadyInv`).
  Callbacks of clients ahead of the search's may do anything, so it has to be
  known which events can be inside which (`ShapeInv`): above READY there is
  only the report of a search, after which the propagation is off and nobody is
  told. A search has one listener of each kind (`OnceInv`), so it is told once;
  one that was not disturbed has its listeners in the engine (`DisturbedInv`), so
  no other search can be under way. It gives `ReadyHasTablesCorrect`.
* `ScansInv`: where the odometer of each search is. At the frequency it is at, the
  settings tried are those up to the current one, in the order in which the digits
  turn (`AtMost`); every lower frequency was locked or had every setting tried
  (`Done`), no higher one was touched, and a tuner that is locked now locked at the
  current frequency (`OnScan`). That a turn goes to the next setting
  (`NextSetting`), that the last one is where no digit turns (`LastSetting`), and
  that settings are the combinations the property asks for
  (`CombinationsAreSettings`) are lemmas about `Scan` alone. An event of
  another tuner may end a trial early, and then the next setting comes; a frequency
  is left before its last setting only when the search's own tuner is locked,
  so that the theorem needs no hypothesis: `CompletedIsThoroughCorrect`.
* `FoundInv`: while no search has been disturbed, a tuner with a decoder is locked
  and still at the channel of that decoder (`SteadyInv`), the tables of a
  terrestrial decoder were read at the frequency of its number (`TablesRight`),
  and what a search has found is right and lies below the frequency it is at,
  which is that of its tuner (`FoundsInv`). A callback acts on the status in its
  event, not on that of the tuner, so it has to be known that the two agree until
  the search has been told (`EventRight`): otherwise a stale LOCK would start a
  decoder at a channel that is not received. It stands on `TablesInv`, for the
  search must be the only one. UHF channels of different frequencies are different
  because the step is 8 MHz or a multiple (`UhfChannelGrows`). It gives
  `FoundIsRightCorrect`.

**InfoDvb** (`InfoDvb_proofs`).

* `OwnedOnceInv`: a list has no id twice (`IsChannels`), the two lists have none in
  common and the next id is in neither, so that the ids count the channels and a
  merge, which moves a channel from one list to the other and frees the one it
  replaces, keeps the count. It gives `OwnedOnceCorrect`, for lists of any
  content: of a line of the file only its kind matters.
* The names of what was found are texts (`AllNamed`), and for every text the bytes
  written are as many as were allocated (`WrittenFits`), which gives
  `NamesFitCorrect`.
* `FileInv`: the file has the first lines of the channels it was last written from
  (`Begins`), and while it is written the lines left follow them (`Follows`). While
  it is loaded, the last stream of the last program of the last channel is a place
  in what was saved, and the lines left begin with those from that place on
  (`IsRead`, `LinesFrom`). A line more keeps it (`LineRead`): the next line is that of
  a stream, of a program or of a channel, and what the loader makes of each is the
  same as what was saved (`LoadedStreamIs`, `LoadedProgramIs`, `LoadedChannelIs`),
  for which a name in ASCII has to come back from its bytes (`AsciiKept`) and a
  parameter with a name from its list (`ParsedIs`). Nothing is assumed of the
  place where the program ended. It gives `LoadedAsSavedCorrect`.
* `TrustInv`: while `trusted`, the numbers of all programs differ and no two channels
  have one type and number, in the list of the client and in what the file was
  written from, and until a file is loaded the next number is above all. A merge
  takes numbers from there (`ChannelAdded`) and leaves no other channel of the type
  and number (`ChannelReplaced`); a move down shifts the numbers between and frees
  the new one (`ShiftedOrder`); what is loaded has the numbers of what was saved
  (`LoadedNumbers`), so that `TrustInv` stands on `FileInv`. With the indexes of the
  programs of a channel (`ListsInv`) it gives `EveryProgramIsFoundCorrect`, and that
  a shift keeps the order of all but the program that moves gives
  `OnlyOneMovesCorrect`. The indexes are an assumption about what a search finds,
  `n = j - 1` of program `j`: the code counts them (mydvb_search.c:161).

**Sections** (`Sections_proofs`).

* For each of the 18 parsers, what `free_descriptor` does not free of the content it
  makes owns nothing (`ContentFreed`), and what it frees is counted in numbers: the
  loops of the parsers go forward (`Advances`), so they make lists (`TurnsType`),
  whatever the bytes are. So an array of descriptors gives back what it took
  (`WholeFreed`), an item and a table too, or less for a program and an event
  (`ItemBlocks`, `TableBlocks`). `HeapInv` adds to `NothingLost` that what is held
  was decoded from a section (`DecodedFrom`). It gives `NothingLostCorrect`. Of a
  section it assumes only bytes and, of a PAT, one NIT at most; but the model, and
  so the theorem, is meant for well-formed sections.

`Only`, the filter of lists, is a recursive function, and so are `FlattenSeq`, `Combinations`,
the `Recorded`, `Parsed` and `Allocated` of `InfoDvb` and `Text`, `TextCreate`, what is under
`Written`, and the `Turns`, `Others` and `SumFunction` of `Sections`. What they do is proved by
least counterexample, over lengths (`SmallestIn`, `UpTo`), lists (`ShortestIn`) or cardinalities
(`SumFunctionIs`), from the well-foundedness of the naturals.

Only model-checked:

* liveness, which is out of reach of the prover: `TryingEnds`, `ReadyIsServed`,
  `FollowsAir`, `EitFollowsAir`, `SearchEnds`;
* `DecodedAsSent` and `EndsAtCrc`, which are about well-formed sections: what one is,
  byte by byte, is only in the encoder of `MCSections`, so that there is nothing to
  prove them from for all sections.

## Not modelled

The components marked `not_modelled` in `PROJECT.json`, and of the others:

* arguments that are NULL, failing allocations, logging, the functions that
  print tables, and the limits of the arrays `sct_fd[32]`, `pes_fd[32]` and
  `pfd[64]`, which the code does not check;
* in `Decoder`: the content of tables beyond versions and programs (it is in
  `Sections`); CAT, TDT and AIT, whose filters are never opened (the AIT's
  decoder is in `Sections`, those of CAT and TDT are in none); 16 of the 17
  event tables of a program, which are handled like the first; that the second
  of two tuners on a channel hears READY or PROGRAM at all, which is not so and
  which nothing in the repository promises; that a filter for the NIT is there
  after a restart, likewise;
* in `Search`: tuners and decoders beyond what a search uses, which are in
  `Tuners` and `Decoder`; an open that fails, which `mydvb_tuner_search` does not
  look at, is a device that does not take the parameters;
* in `InfoDvb`: `info_dvb_save_channels_conf`, which exports a format that
  nothing here reads, and lines that `info_dvb_save` did not write;
* in `Sections`: sections that are not well formed, among them a PAT with two entries
  for the NIT, whose first block nothing frees (tables.c:94), and the sections of an
  EIT after the first of a version, which are in `Decoder`;
* of `dynarray.c`: sorting, loading and saving, which nothing calls; of
  `mydvb_date.c` the conversion of a date, which is floating point;
  `mydvb_info.c`, whose accessors change nothing.

## Plan

Done: the core (`Tuners`, `Dispatcher`, `MainLoop`, `Decoder`), the search with
its service, the scan, the stored channels, the sections; proofs of the safety
properties of `Tuners`, `Dispatcher`, `MainLoop`, `Decoder`, `Search` and
`InfoDvb`, and of the memory of `Sections`. Left, in this order:

1. `Delivery`: the abstract dispatcher (every listener present is told once) as
   a refinement target of `Dispatcher` without nesting; `PollTable` as a set
   implemented by the table of `MainLoop`.
2. A composition of `Tuners` with `MainLoop`, for descriptors that are closed
   and handed out again within a round.
3. Well-formed sections as a predicate of `Sections`, from which `DecodedAsSent`
   and `EndsAtCrc` could be proved.
