# AlphaTheta Connect in TLA+

TLA+ modules, model-checking runs and machine-checked proofs for
`alphatheta-connect-rs`, the Rust crate under `src/`: a library that takes part
in the Pro DJ Link protocol of CDJ players. It listens to announcements and
status packets, announces itself as a virtual CDJ, reads track databases from
players and derives "now playing" events.

Two kinds of modules: those about parts that keep state several tasks touch,

| Module | Code | Is about |
|---|---|---|
| `Mixstatus` | `mixstatus/mod.rs` | deck states to `now_playing`, `stopped`, `set_started`, `set_ended` |
| `DeviceManager` | `devices/mod.rs` | which devices are on the network; timeouts |
| `DeviceId` | `virtualcdj/device_id.rs` | which device id to announce, which to query with |
| `Announcer` | `virtualcdj/mod.rs` | claiming, defending and announcing the id |
| `Network` | `network.rs` | configure, connect, disconnect, close |
| `RemoteDb` | `remotedb/{mod,utils,queries}.rs`, `remotedb/message/mod.rs` | queries on a player's connection |
| `RemoteQueries` | the same | extends it by a history of what queries read; implements `QueryService` |
| `QueryService` | - | what a caller of a query is promised |
| `LocalDb` | `localdb/mod.rs`, `query_media_slot` of `status/mod.rs` | downloaded databases, two formats per medium |
| `RpcService` | - | what a caller of an RPC is promised |
| `Rpc` | `nfs/rpc.rs` | calls, time limits and retries over UDP; implements `RpcService` |
| `Nfs` | `nfs/{mod,programs}.rs` | cached clients and root handles, files read in pieces; implements `FileService` |
| `FileService` | - | what a caller of `fetch_file` and `fetch_file_range` is promised |
| `Database` | `db/*.rs` | where a lookup is answered from, and what may fail it |
| `PassiveDevices` | `passive/{pcap_adapter,devices,mod}.rs` | capture, devices, timeouts and stop in passive mode |
| `Passive` | `passive/{localdb,remotedb}.rs` | extends it by the two passive databases |

and those that say what comes in and goes out, as functions on byte strings:

| Module | Code | Is about |
|---|---|---|
| `Bytes` | readers of numbers in several files | bytes at offsets; reading past the end is no value |
| `Packets` | `virtualcdj/`, `control/`, `status/media.rs` | every packet the crate sends |
| `PacketReaders` | `status/`, `devices/utils.rs`, `passive/` | what it makes of packets and captured frames |
| `Cues` | `localdb/utils.rs`, `entities.rs`, `utils/converters.rs` | cue points and waveforms |
| `Messages` | `remotedb/fields.rs`, `remotedb/message/` | fields, messages, menu items, responses |
| `Xdr` | `nfs/xdr.rs` | RPC, port mapper, mount and NFS calls and replies |
| `Anlz` | `localdb/rekordbox/{anlz,anlz_parsers,mod}.rs` | analysis files |
| `Pdb` | `localdb/rekordbox/pdb.rs` | tables, pages, rows and strings of `export.pdb` |
| `Library` | `localdb/orm.rs`, `rekordbox/{hydrator,entity_creators,table_mappings}.rs` | the tables in memory and the lookups in them |
| `Wire` | - | composes `Packets` and `PacketReaders`: a packet or a frame is put through the parsers |
| `Formats` | - | extends it by messages, replies and files |

Paths here are under `src/src/`. A module `M` has an `MCM` module with the
values TLC needs where a `.cfg` cannot give them; its theorems, if there are any, are in
an `MProofs` module, its own or another's (see "Proofs"). `PROJECT.json` lists the runs, the mutants, the
findings, the hazards, the theorems, and for every definition the lines it
stands for.

    tlc -workers 2 -config ldb.cfg MCLocalDb     # a run; see "Runs" for the pairs
    tlapm LocalDbProofs.tla                      # the proofs of a module


## The system

The components, the state each keeps, how they meet, and what makes each
correct.

* **Mix status processor.** State per deck (last packet, live, last start and
  stop, cued), whether a set is active, and the handle of a timer task. Fed by
  status packets; emits events. Correct if listeners and processor agree on what
  is live, a deck is announced over another only for a reason its mode names,
  and the end of a set is reported once it is silent, not before.
* **Device manager.** The map of devices and the map of timeout handles. Fed by
  the announce socket; asked by nearly everything else. Correct if a device that
  falls silent leaves the map, listeners hear of it, and a caller of
  `get_device_ensured` misses no device.
* **Virtual CDJ: device id, announcer, Stagehand announcer and heartbeat.** One
  shared device record (its id changes in a conflict), a timer task, a conflict
  listener task, a watch channel for `ready`. Correct if we neither fall silent
  nor announce twice, take an id that is free and cannot become a player's, and
  `ready` tells the end of the startup.
* **Network.** The network state, the configuration, the name the device manager
  filters, and the stored connection service, which owns announcer, status
  emitter and databases. Each field has its own lock. Correct if whatever
  announces us can be stopped, and the pieces agree once the calls have returned.
* **Remote database.** A lock and a stored TCP connection per player, a
  transaction counter per connection. Correct if queries on a player are
  serialised, carry an id the player answers, and read their own answers only.
* **Local database.** A list of databases, a lock per slot, per database an
  active format and a lazily loaded alternate; asks the status emitter what is
  in a slot; downloads over NFS. Correct if a medium is loaded once, a listed
  database is open, an alternate is downloaded once, and calls return.
* **NFS client.** Process-wide caches of RPC clients and root handles by
  address; calls over UDP with transaction ids and retries. Used by the local
  databases and the file lookups. Correct if a call takes no other's answer and
  a file is read from the medium that is in the slot.
* **Database service** (`db/`). No state; chooses local or remote and falls back
  from one to the other.
* **Passive network.** The same services over packet capture, without announcing
  ourselves: device manager, status and position emitters, local and remote
  database, each a variation of the active one.
* **Status and position emitters, remote control, event emitter, UDP feed.**
  Parse and forward; an emitter keeps 256 events per subscriber and drops the
  oldest.
* **Parsers and codecs.** Packets, captured frames, remote database messages, XDR,
  pdb, ANLZ, OneLibrary (SQLite), audio tags, artwork: functions without state.
  Correct if what is sent reads back, nothing is taken for something else, and
  what is cut off is refused or gives only what is whole in it.

What is hard here: the tasks run on several workers; nearly every field has a
lock of its own and few operations hold one over two fields; `JoinHandle::abort`
stops a task only at its next await; futures of calls may be dropped at any
await (a `timeout` around a call does it); events of a broadcast channel may
overtake the state they speak of; players defend ids, go silent, close
connections and swap media. `PROJECT.json` lists each such hazard at the line
where it bites, with the properties aimed at it; one that no property covers
says why.


## The modules

### Mixstatus

One mutex guards the processor, so a public call is one step on the record `st`,
which is the code's `ProcessorState` plus what a listener has seen (`out`,
`heard`, `open`). `HandleState`, `TriggerNextTrack` and `Configure` are the
calls; `Promote`, `PromoteNext`, `MarkPlayerStopped`, `PlaystateChange`,
`OnairChange` are the private functions they call, as operators from record to
record, so a handler with all its calls is one action. The task that waits
`time_between_sets` is outside the lock: `TimerWakes`, `TimerEnds` and
`LateTimerEnds` separate waking up, taking the lock, and running on after its
handle was aborted or forgotten. `Tick` is time.

### DeviceManager

`feed` is the task in `handle_announce`: receive, insert into the map, emit
`connected`, emit `announced`, spawn a timeout task, store its handle (aborting
the older). The timeout tasks sleep, remove the device, remove the handle, emit
`disconnected`. No lock spans two of these, so each is a step. `waiters` are the
calls of `get_device_ensured`, which subscribe, look at the map, then wait.

### DeviceId and Announcer

`DeviceId` holds the pure functions as operators: `PickAvailableDeviceId`,
`PlayerNumberCeiling`, `PickRemoteDbQueryId`. `Announcer` has the client that
calls `start` and `stop`, the conflict listeners and the timer tasks.
`spawn_timer` and `handle_conflict` release the mutex between their steps, so
`ClearTimer`, `Spawn`, `StoreTimer`, `Pick`, `Rename`, `Unready` are steps.
`AbortTask` marks a running task `doomed` rather than gone. `ready` is the watch
channel, whose `send` stores nothing when nobody is subscribed.

### Network

Every call is a sequence of reads and writes of fields with locks of their own;
`calls` says where each caller is. `connect` decides on an id (`CallConnect`,
`KeepId`), sets the filter (`FilterName`), starts the announcer (`Announce`),
sets the state and stores the connection; `disconnect` takes the stored
connection, stops its services one by one and sets the state. Announcers are seen
from outside: they announce from start to stop, and `Conflict` may move the
active one to another number. `known`, `replaced` and `overlapped` are history.

### RemoteDb

`get` (find, connect, introduce, insert, find again), `connect_to_device`,
`forget`, `disconnect_from_device` and the queries, for one player. A menu is
read in pages: `PageSize`, `FooterDue`, `NextStep` are `render_items` with its
`LIMIT`. The player is external: it takes requests in order, answers, refuses
or closes. `Cancel` drops the future of a call wherever it waits, which leaves
answers in the stream. A response carries its request's transaction id; the
code never looks at it.

`RemoteQueries` runs the same steps and writes down, per client, what the query under
way has read (`reading`: whether all of it answered its own requests, how many items
the player announced, which came) and what was asked and returned (`queries`). No step
depends on it: `HistoryWatches` proves `QuerySpec => Spec`. `QueryService` has no
connections, messages or pages: queries take turns, and one that returns returns the
menu of the length the player said, each item once and in order, or the one datum asked
for. A query that begins on a connection on which another was cancelled is promised
nothing (`"anything"`), since there it may read the other's answer and the code does
not notice: that is the counterexample to `AnswersMatch` below.

### LocalDb

`CallGet`, `Ask`, `Answered`/`NoMedia`, `LockSlot`, `Load` are `get_item` and
`hydrate`; `Agrees`, `LoadAlternate`, `AlternateLoaded`, `Switch`, `Store` are
`find_track` and `load_alternate`, with the alternate's mutex as `holder`.
`Remove` and `Close` are `handle_device_removed`: off the list first, closed one
by one then. `Cancel` drops a call with its guards, `SetPreference` may come at any
time. An item is kept while it is listed, in use or being closed, as its
`Arc` is.


### RpcService and Rpc

A call of `Rpc` takes a transaction id (`Call`), waits for the connection's mutex
(`Lock`), sends, reads datagrams (`Receive`) until one has its id, and after a
`Timeout` pauses and sends the same datagram again (`Retry`), with the mutex held
all the while. `requests` and `replies` are all datagrams ever sent; any of them
may be taken at any time, again or never, so loss, delay, duplication and
reordering need no actions of their own. The player is external: it answers with
what it serves `now`, denies, or sends what cannot be decoded. `Cancel` drops a
call where it waits.

`RpcService` has no datagrams: a call that was made fails, or gives the answer to
its own question as the player would have given it at one moment of the call.
`Rpc` implements it (`Implements`); the refinement mapping leaves of a call its
question, the version when it was made and its answer (`Seen`). History variables:
`since` in `calls`, and `now`.

### Nfs

One player. A procedure call is a step, as `RpcService` allows, or a `Fault`.
`get_clients` is `GetClients`, `PortMount`, `PortNfs` under its lock;
`get_root_handle` is `RootHandle`, `Exports`, `Mount`, `Insert` with no lock over
them; `resolve_file` is `Lookup` per component and `Clear` for the second
attempt; `Read` is a chunk, as short as the player likes. `Swap` changes the
medium under a handle, `Restart` the ports. `reset_device_cache` and
`configure_retry_strategy` are two steps each, since they change two things under
two locks; any task may be in one at any time, or be dropped between its two steps.
Two configurations that overlap may end with the first one's value in the clients and
the second one's for new ones, and one that is dropped leaves the clients as they were:
`torn` is history that says so, and `CachesAreCurrent` is about the others.

`FileService` has no caches, ports, mounts, lookups or second attempt: a fetch finds
its file on the medium in the slot at one moment (`Open`), gets more of its bytes while
that medium is there, and ends with a whole file, or a range that may be short, or an
error. `ActsUncached` says that `Nfs` implements it. The mapping (`Seen`) leaves of a call
what it fetches, the medium whose handle it reads from, and the bytes; a call that looks
at or clears caches is no fetch.

### Database

A lookup chooses its strategy (`Lookup`), asks the player what is in the slot
(`Ask`), opens the database of that medium (`Open`), and gets the parts of its
`plan` one by one, each with what becomes of the lookup when it fails:
`error`, `none`, or `skip`. `Miss` and `Failed` are the second chance of
`metadata_via_remote_fallback`. `Swap` and `Remove` happen in between. The lookups
of `LocalDb`, `RemoteDb` and `Nfs` are one step each here.

### PassiveDevices and Passive

`StartCapture`, `CaptureFails` and `StopCapture` are the capture thread and the
flag it reads; `Announce`, `ResetTimeout`, `Expire`, `EmitDisconnected` the device
manager, and `HandleRemoved` the listener in the local database, so that an event
may be late. `stop` is a sequence (`stopping`), devices first and capture last.
The local database loads a slot under one of two locks (`LockSlot`, by medium or
by slot), the remote one opens a connection under the device's. `CallGet` and
`CallRemote` are `get`, which looks at the map; what it calls is public too and does not:
`CallDirectly` is `get_with_media` or `get_without_media` with any device, also one that
has left (`late` in the database it makes), and `CallConnect` is `connect_to_device`,
which takes no lock and stores its connection over any other (`direct`).

### Wire and Formats

One variable, `case`: an input and the byte it is cut at. Those of `Wire` are the
packets and frames of the three ports: what `Packets` can send for the devices in
`Senders` and `Peers`, the packets of players and mixers in `Foreign`, beats among them,
and `FrameOf` the captured frames in `Frames`. Each is given to a listener in either mode
and to a capture. What these may be is said by assumptions that TLC checks of
the values given, and that are all the proofs know of them: `DevicesAssumption` (ids and
types of a byte, addresses of six and four, any name), `ForeignAssumption` (the header,
port, type and least size of a kind of packet, and nothing of its other bytes) and
`FramesAssumption` (a VLAN tag or none, any IP options, a datagram that fits in an IP
packet of 1500 bytes (`Room`), any padding).

A packet of these sizes need not be taken for what it is: the code tells some by their
length or subtype only. `Mistaken` names these confusions, and `NothingMisread` says that
there are no others.

`Formats` adds what the writers of the other side in `MCFormats` make: messages of every
field type, responses, NFS replies, analysis files with every section that is read, pdb
files with tables of all ten types in several pages, with index groups, both row counts of
a page and every string form. Numbers stay bytes where nothing depends on their
value; reading past the end of a byte string gives `Panic` (or an error where the code
checks), so that the properties can see it.


## Runs

| Run | Module | States | Checks |
|---|---|---|---|
| `mix` | `MCMixstatus` | 250 000 | `LiveMirrorsEvents`, `SilenceIsTimed`, `NoPrematureHandover`, `SilenceEndsSet` |
| `dev` | `DeviceManager` | 74 000 | `NoImmortalDevice`, `NoLostWakeup`, `SilenceEmptiesMap` |
| `ann` | `MCAnnouncer` | 145 000 | `NeverSilent`, `PicksFreeId`, `EarlyWaiterReturns` |
| `net` | `MCNetwork` | 821 000 | `EveryAnnouncerIsHeld`, `StoredAnnounces`, `SerialCallsAgree`, `StagehandKeepsIdentity` |
| `rdb` | `MCRemoteDb` | 1 663 000 | `AnswersWhole` (the refinement), `QueriesAreSerialised`, `AnsweredId`, `NextResponseFits`, `StreamInSync` |
| `ldb` | `MCLocalDb` | 167 000 | `OneItemPerMedia`, `ListedIsOpen`, `AlternateLoadedOnce`, `CallsReturn` |
| `rpc` | `MCRpc` | 93 000 | `Implements` (the refinement), `CallsReturn` |
| `nfs` | `MCNfs` | 545 000 | `ActsUncached` (the refinement), `CachesAreCurrent`, `FindsFreshMedium`, `FileIsWhole` |
| `passive` | `MCPassive` | 1 303 000 | `OnePerKey`, `AbsentHasNoDatabase` |
| `db` | `Database` | 222 000 | `FailsOnlyIfItMust`, `OneMedium` |
| `formats` | `MCFormats` | 15 000 | `SentReadsBack`, `NothingMisread`, `NeverPastTheEnd`, `RoundTrips`, `CutIsRefused`, `CutFilesKeepWhatIsWhole`, `LibraryHoldsTheRows` |

They pass. A state of `formats` is one input, a behaviour one step. The type invariants
are theorems, of every module with state that changes.

One run checks a sentence of the documentation that the code does not keep, and
ends in a counterexample:

| Run | Property | The code |
|---|---|---|
| `ldb_alternate` | `AlternateIsTheOther` | Two lookups that switch one slot leave the same format as active and alternate; the other database is lost to the slot. |

Seven more properties of that kind are stated in their modules. Added to the `.cfg`
named here, each ends in a counterexample:

| Property | `.cfg` | The code |
|---|---|---|
| `SetEndedMeansSilence` | `mix` | A deck that cues and resumes the same track leaves the pending timer armed: `set_ended` while it plays on air. |
| `DisconnectedMeansGone` | `dev` | A timeout task past its sleep cannot be aborted and reports, or removes, a device that has just announced itself. |
| `ReadyReturns` | `ann` | A startup that completes while nobody is subscribed is not recorded; a later `ready` waits for ever. |
| `KeepsIdentity` | `net` | A conflict changes the announced number, not the configured one: the next connect claims the old number. |
| `AnswersMatch` | `rdb` | The answer to a cancelled query is taken by the next query of the same kind. |
| `AlwaysAnswered` | `rdb` | Players answer requests under the ids 1 to 6 (`remotedb/mod.rs:272`), but only the upper end is tested (`:288`, `device_id.rs:208`): a virtual CDJ that goes under 0 keeps it, and the 0 of a CDJ on the map may be picked. |
| `BeatsAreNoPositions` | `formats` | Positions are said to be told apart from beats (`docs/ABSOLUTE_POSITION.md:96`), but what is looked at, the header, the subtype and the length, is true of a beat packet too: it is emitted as a position. |

Every property of a passing run has a mutant in `PROJECT.json`: an operator, in
the module and marked so, that changes one definition the way a plausible bug
would, under which TLC finds the property violated.

### Bounds, and why they are enough

* `mix`: two decks, two tracks, two configurations, time up to 2 with a beat of
  one unit, one task without a handle. A handover, a grace period that passes or not, and
  a late task over a new one need no more. No call arrives while a late task is
  pending beyond `MaxLost`; `CHECK_DEADLOCK FALSE` because time stops at `MaxTime`.
* `dev`: two devices, two hosts under the same id, two timeout tasks, so an old
  task and its replacement race; announcements wait while both are in use.
* `ann`: ids 1 to 4 with players in 1 and 2, a rig with free ids and a full one, a
  mixer that reserves more than the players' range. Two timer tasks and two
  listeners are what one restart during a conflict needs.
* `net`: two overlapping callers and two connections, one peer whose removal a
  disconnect awaits, two Stagehand numbers. Callers, connections and
  numbers are symmetric (the properties are safety properties).
* `rdb`: two tasks, two connections; a page of two and menus of 0 and 3 items
  give an empty menu, a full page and a short one with their footers. The virtual CDJ
  goes under 0 or an id above the players' range, so that an id is kept, picked or not to
  be had; the player is alone or with a CDJ announced under 0. With
  `MaxTx = 1` a query follows a query. A query starts on a connection only below that number.
* `ldb`: two tasks, one slot, one medium. Slots share only the query lock,
  and another medium uses the same slot lock under another key. Two items: a removed one
  still in use and its successor. With both in use a load can only fail.

* `rpc`: two tasks, two calls one after the other or at once, configurations with
  no retry and with one, an answer that changes once: a late answer to a given-up
  or cancelled call meets the next call, and a stale one the same question.
* `nfs`: two tasks, one slot, one swap and one restart; a file of two path
  components and three bytes read two at a time, so that reads are short, whole, longer
  than asked and past the end. Two configurations, so that two tasks can leave one in the
  clients and the other for new ones. Two tasks are what it takes to put an old handle back.
* `passive`: two tasks, one device with one slot, one medium and the unknown one,
  two connections, two events on their way. Devices share no lock and no key. Two
  connections are what it takes to store one over another.
* `db`: one task, three media in one slot: lookups write nothing but the list of
  local databases, whose entry `Open` may find or load at will. Three media, since a
  second swap may bring the first one back.
* `formats`: packets, frames, messages, replies and analysis files are cut at every
  byte, pdb files at every page and around its header; up to twenty rows fill a
  second index group, and chains have up to three pages, one of them circular. The
  limit of a million pages is `MaxPages`, here five.

### Fairness

Only scheduling is fair: a task that can run is run (weak fairness of each
step of the feed and timeout tasks, of the timer's steps, of a call once made)
and sleeps end. Calls, packets, announcements and conflicts need not come, and
liveness properties are stated for when they cease where they disturb. `LocalDb`
uses strong fairness of a call's steps: tokio's mutexes are first come first
served, so a waiter that can get a lock again and again gets it. There the network
operations end, as the timeouts of the media query and of the RPC calls make
them. In `Rpc` the mutex is strongly fair for the same reason, and the sleeps and
time limits of a call end; nothing is assumed of the player or the network, so
`CallsReturn` holds for a player that never answers. `RemoteDb` has no liveness property: reading has no time limit, so whether
a query ends is up to the player.


## Proofs

For every value of the constants, from the named assumptions of the modules
(types of the constants, `None` is no other value):

| Module | Theorems | The inductive invariant |
|---|---|---|
| `MixstatusProofs` | `TypeCorrect`, `LiveMirrorsEventsHolds`, `SilenceIsTimedHolds`, `NoPrematureHandoverHolds` | `Inv(st)`: the properties on states and what each private function must be given. For the handover, `Reasoned`: what a step announces is one deck and has a reason, or the step reports a stop. One lemma per function for each |
| | of `Passive`: `PassiveTypeCorrect`, `OnePerKeyHolds`, `AbsentHasNoDatabaseHolds` | `PassiveInv`: `Once`, a lock is held by one call and what its holder is about to load or open is not there, but for a connection a direct call stored; `Attended`, whoever's database is kept or being loaded is on the map, is leaving it, has its removal queued, or came late or was asked for in its absence |
| `DeviceManagerProofs` | `TypeCorrect`, `NoImmortalDeviceHolds`, `NoLostWakeupHolds` | `IInv`: a stored handle is that of a task for the same id, and the handle about to be stored is nowhere else, so that aborting never hits the last task that would remove a device |
| | of `Database`: `LookupsTypeCorrect`, `FailsOnlyIfItMustHolds`, `OneMediumHolds` | `LookupInv`: `Careful`, a lookup is at a step its plan allows, ends in nothing or an error only for what was asked in vain, and with what is not optional at hand in no error; `Current`, what it has is of the medium in the slot unless a swap overtook it |
| | of `Wire`: `SentReadsBackHolds`, `NothingMisreadHolds`, `NeverPastTheEndHolds` | `Considered`: the case is one of the inputs, cut somewhere; the rest is about the parsers, see "Bytes" below |
| `AnnouncerProofs` | `TypeCorrect`, `NeverSilentHolds`, `PicksFreeIdHolds`, `PickIsFree`, `PickIsAboveThePlayers` | `NeverSilent` is inductive over the type invariant; `PicksFreeId` follows from the last two, facts about the function for any range of ids |
| `NetworkProofs` | `TypeCorrect`, `EveryAnnouncerIsHeldHolds`, `StoredAnnouncesHolds`, `SerialCallsAgreeHolds`, `StagehandKeepsIdentityHolds` | `Custody`: besides the first two properties, a call that holds a connection holds a live one and no two calls hold the same. `Serial`: while calls do not overlap there is one, and what each of its steps leaves agrees with the state it has yet to set |
| `RemoteDbProofs` | `TypeCorrect`, `QueriesAreSerialisedHolds`, `AnsweredIdHolds`, `NextResponseFitsHolds`, `StreamInSyncHolds`, `AnswersWholeHolds`, `QueryIdIsAnswered` | `IInv`: a connection in use or stored has an id players answer, or one announced as 0, the client's id is its connection's, whoever waits for an item has not had all. `Synced`: a connection that is not abandoned is quiet, or has one reader, whose request is still to be taken or the rest of whose answer is the inbox; a page ends where the client looks for its footer. `History`, with it: what a query has read are its own responses so far, one item after the other, and all that is on its way on a connection nobody abandoned is genuine (`Recorded`, `AllGenuine`) |
| `LocalDbProofs` | `TypeCorrect`, `OneItemPerMediaHolds`, `ListedIsOpenHolds`, `AlternateLoadedOnceHolds` | `IInv`: who loads holds the slot's lock and what it loads is not listed; a call that loads an alternate holds the item's, which is untried; without an alternate only the active format is open; what a call is about to make active is open while the item is listed |
| `NfsProofs` | `TypeCorrect`, `CachesAreCurrentHolds`, `FindsFreshMediumHolds`, `FileIsWholeHolds`, `ActsUncachedHolds` | `Typed`, which says who may be at which step and that the lock's holder is the one that makes connections; `Current`, ports are those of the player's present boot and connections have the configuration in force unless configurations were torn, and between the two writes of one too (`Configured`); `Fresh`, a second lookup has the root of the medium in the slot; `FileIsWhole`; `Plain`, a fetch has bytes only where it reads them |
| `RpcProofs` | `TypeCorrect`, `ImplementsService` | `IInv`: transaction ids of calls under way differ and are not above the last one taken; a request or an answer with the id of a call under way asks or answers its question, the answer since the call was made |

Three of these are refinements, in which the detailed specification is shown to
implement the abstract one under a mapping of its variables: initial states map to
initial states and each step to a step or a stutter. `ImplementsService` is
`Spec => Service!Spec` for `Rpc` and `RpcService` (`InitRefines`, `StepRefines`),
`AnswersWholeHolds` is `QuerySpec => Service!Spec` for `RemoteQueries` and `QueryService`
(`ServiceStep`), `ActsUncachedHolds` is `Spec => Files!Spec` for `Nfs` and `FileService`
(`FilesInit`, `FilesStep`).

Bytes. `DeviceManagerProofs`, whose component lives on the packets of the announce
port, also has the theorems about what is parsed, where the run `formats` tries the
inputs it is given:

* `SentReadsBackHolds`, `NothingMisreadHolds`, `NeverPastTheEndHolds`: the three properties
  of `Wire`, for any devices, any packets of players and mixers and any frames the
  assumptions of `Wire` allow, cut at any byte. They are theorems of `WireSpec`: `Formats`
  has the same properties and more inputs, but reaches `Bitwise`, where nothing can be proved;
  its other inputs are of kinds these properties say nothing about. A name is
  promised to read back if it has at most 20 bytes and no NUL, as a packet has no more
  room and ends it there (`Says`).
* `NoPacketIsReadPastItsEnd`: whatever a parser of a port, of a conflict or of a captured
  frame gives for whatever bytes is made of bytes that are there. In Rust: no slice index
  panics.
* `AnnouncementsReadBack`, `StatusReadsBack`: for any device this process may be
  (`AnyHost`: ids and types of one byte, addresses of six and four, any name) what it
  announces reads back as it, by an active listener and by a capture, by the latter also if
  it is cut off behind the MAC; its status is that of a player with no track.
* `NothingSentIsMisread`: everything else the crate sends means nothing on the port it goes
  to, for any device, slot, command, counter and setting.
* `FieldReadsBack`, `OpaqueReadsBack`: the bytes of a field of the remote database, and of
  opaque data of NFS, are read back wherever they stand in whatever was received (`Holds`)
  and are refused while any of them is missing (`EndsWithin`). The hypothesis is that a
  length needs at most three bytes, as in `Bytes`.

Their argument is where the bytes of a joined string are (`Joining`), from which each
packet's bytes follow at the offsets its parser looks at (`IsAnnounce`, `IsFrame`, `Begins`,
`Sized`). For a captured frame that is `Laid`: which bytes are where, for each length of tag,
options, payload and padding (`FrameLaid`); the decoder looks for them there
(`FrameReadsBack`, by `IpHeader` and `UdpHeader`). Names need a lemma of their own
(`TextReadsBack`), that text padded with zeros ends where the first zero is.

The proofs about `Passive` share a module with those of the mix status processor, those about
`Database` and `Wire` one with the device manager's. Such a proof module extends all the
modules it is about, so their named assumptions are facts in it; the specifications have
names of their own (`PassiveSpec`, `DatabaseSpec`, `WireSpec`). The order of the
databases `Passive` keeps is never used by the code, so they are a bag.

Each proof has a lemma per action and, where several actions share an
argument, one for the argument (`Moves`, `UpdateMoves` and `Stays` in
`LocalDbProofs`, `QuietStep` in `NfsProofs`, `Alone` in `NetworkProofs`).

Only model-checked: the liveness properties (`SilenceEndsSet`,
`SilenceEmptiesMap`, `EarlyWaiterReturns`, `CallsReturn`), since neither
fairness nor `ENABLED` is in the prover's reach; and of the properties of `Formats` those on whole
messages, replies, analysis files and databases (`RoundTrips`, `CutIsRefused`,
`CutFilesKeepWhatIsWhole`, `LibraryHoldsTheRows`), which are read by folds and recursive
functions: what those compute for every input needs induction over data, which the provers
cannot do either. What is proved of them are the fields they consist of (`FieldReadsBack`,
`OpaqueReadsBack`). No module with a theorem reaches a `RECURSIVE` operator or `Bitwise`, which
the masks of `Anlz` need, so nothing is proved about analysis files.


## Where the models simplify

* **Mixstatus.** Time is in beats' units; broadcast lag is left out.
* **DeviceManager.** Timeouts have no length: a sleep may end at any time. Lagging
  receivers are left out.
* **Announcer.** The packets are those of `Packets`, but are not sent here; the
  order of the Stagehand announcer's stages is left out. The map a conflict reads
  may be any rig: whether the device that defends the id is on it is not said.
* **Network.** The lazily made mixstatus processor; sockets are open or closed.
* **RemoteDb.** One player; pick_query_id on and a CDJ as target; a partly
  written message counts as not written; a message half read when its query was
  cancelled garbles the stream (`garbled`): what comes then is not kept, and whatever
  reads from it fails, at any time.
* **LocalDb.** A download is one step that succeeds with one of the formats tried or fails;
  whether a row agrees with the player is a choice; a swap of media shows as the
  answer naming any medium; closing active and alternate of one item is one step;
  `preload` (many `get`s), `get_database_type` (a read) and the service's drop
  are left out.

* **Rpc.** The time limit and the pauses have no length; transaction ids do not wrap.
* **Nfs.** One player; paths are abstract, every file has the same path and size, and
  its bytes are their positions. Which mount path belongs to a slot is left out.
* **Database.** A step of `LocalDb`, `RemoteDb` or `Nfs` each; why it fails is a choice.
* **Passive.** One access of a timeout task to the maps is one step (their orders
  are in `DeviceManager`); `preload` is many `get`s; what a query asks is left out.
  `get` reads the map and the cached medium in one step; the medium a direct call is
  given is one of the slot it is given; the databases stop only with the network, whose
  `stop` calls theirs.
* **Wire, Formats.** The scale of numbers (BPM, pitch, times), text beyond its length and
  its NUL bytes, the colours and the wording of enumerations, columns of pdb rows
  that neither a query nor a property tells apart. Bytes no parser looks at are 0.

Other places where code and documentation differ, or where the code may surprise,
seen while modelling and not checked by a run:

* `mixstatus/mod.rs:329` `set_ended` leaves `is_set_active` true for good, so
  `set_started` is reported once in the life of a processor; `:260` a timer that
  has already woken emits although it is aborted; `:402` and `:371` a deck that is
  not announced, went quiet and plays again keeps its stop time, and is reported
  stopped while it plays (`:474`); `:412` "Play has come back on air" also forgets
  the stop time of a deck that is paused; `:269` "and is on air" is not looked at
  before the deck that has played longest is chosen, so nobody may be promoted.
* `devices/mod.rs:242` the handle a newer task stored may be dropped by an older
  one; `:212` a map entry is not refreshed by an announcement with a new address.
* `network.rs:481` `is_connected` is true while a disconnect is under way; `:422`
  the state is `Connected` before the connection is stored; `:452` a disconnect
  may set `Online` over a later `connect` or `close`; `:363` the filtered name is not
  reset when a later connect has none; `:350` the number a connect found or chose is written
  back over one that was configured, or written by another connect, since it was read;
  `:423` a connection that is stored over another leaves that one announcing for ever.
* `remotedb/mod.rs:401` `forget` is documented for failed connections and called
  from nowhere in the crate: a failed connection stays stored. The goodbye's
  transaction id is overwritten by `write_message`.
* `localdb/mod.rs:300` "Only affects newly loaded databases": `load_alternate`
  reads the preference at `:399`, so an item loaded before gets no alternate, for
  good, if a lookup meets another preference; `:374` `hydration_done` is emitted
  before the database is listed; `:348` an alternate whose lock is taken is not closed; `:557`
  the drop never runs, as the disconnect task holds the service.
* `nfs/mod.rs:258` says it is important to call `reset_device_cache` when a device
  disconnects; nothing in the crate does. `:273` two configurations at once, or one that
  is dropped while it waits for a client, leave connections with another configuration
  than the one set last (`torn` in `Nfs`).
* `virtualcdj/mod.rs:504` a `stop` between the spawn and the store of a handle leaves
  a task that announces after it; a handle that is overwritten leaves a second one.
* `localdb/mod.rs:384` a player that is removed while its database is downloaded
  leaves the database on the list until it is removed once more; `passive/localdb.rs`
  does the same (`late` in `Passive`).
* `passive/pcap_adapter.rs:180` when the capture ends on an error `is_capturing` stays
  true and `start` does nothing until `stop` was called. `passive/mod.rs:106` what
  `stop` ended is not begun again by `start`: the tasks are spawned by `new`.
  `passive/remotedb.rs:179` a query that fails takes out the connection of the
  device, also one that was opened since; `:52` a direct `connect_to_device` opens one over
  a stored one, or over the one `get` is opening (`direct` in `Passive`).
  `passive/localdb.rs:247` and `:278` load a database for a device that has left, whose
  removal does not come again (`late`). The mixer state emitter of
  `passive/status.rs` is never fired.
* `status/utils.rs:32` every packet with the header and at least 0xcc bytes is a CDJ
  status, whatever its type says: outside Stagehand mode and in a capture
  (`passive/status.rs:106`) a mixer state packet of that length is emitted as the status
  of a deck, and in every mode a media slot or on-air packet that long. `:151`
  `position_from_packet` does not look at the type either: beats and, outside Stagehand
  mode, the levels of a mixer are emitted as positions (`Mistaken` in `Wire`).
* `virtualcdj/mod.rs:183` the packet of stage 02 is 0x33 bytes and says 0x32, that of
  stage 06 (`:219`) 0x37 and says 0x36, and a reader finds 0 where its type would be
  (`SaysType` in `Wire`); as a known device is never refreshed
  (`devices/mod.rs:212`) it stays on the map so.
* `control/mod.rs:18` a play state command has a byte for the ids 0 to 3 only: sent
  to a device with a higher id it says nothing.
* `remotedb/message/mod.rs` `to_bytes` leaves out a binary after a zero also if it is
  not empty. `response.rs` a deleted cue is known by its byte 6.
* `localdb/rekordbox/pdb.rs:300` a chain of two pages that point at each other is
  walked a million times, with its rows; the type of a page is not compared with
  the table's; `:358` a page that states more rows than its index has room for ends
  the whole hydration (in a debug build, with a panic). `entity_creators.rs:56` an
  analysis path that ends within a character panics.
* `localdb/rekordbox/anlz_parsers.rs` the status of a cue entry is not looked at; two
  cue sections of one kind in a file are not merged, the last one counts.

## Not modelled

* **Audio tags and artwork** (`metadata/`, `artwork/`): decoding of ID3, MP4, FLAC and
  AIFF over ranged reads, without state between two calls; covered by unit tests.
* **OneLibrary** (`localdb/onelibrary/`): SQL over an encrypted SQLite file. `LocalDb`
  has what matters to the others, that closing it removes nothing.
* **Event emitter and UDP feed** (`emitter.rs`, `utils/udp.rs`): a bounded broadcast
  channel of the library tokio. The models deliver events, or let them be late.
* **Capture and interfaces** (`passive/alphatheta.rs`, `utils/net.rs`): I/O.
* **Logging, errors, the command line client**: no behaviour of their own.

`PROJECT.json` lists every component with its status.


## Plan

1. Two more abstract specifications: `DeviceManager` as a set of present devices, and
   `Network` as a switch for callers that do not overlap; `Serial` is most of what the
   second needs. `Nfs` over `RpcService` by `INSTANCE`, with the answers of the service as
   its steps.
2. Bytes: that the header of a message and of an RPC reply reads back, field by field, as
   their number is fixed.
3. **Emitter** (bounded broadcast with lag) as an abstract channel, and
   `DeviceManager` and `Mixstatus` consumers that may lag.
4. **Stagehand announcer and heartbeat**: the order of the stages, and stop.
5. The frame and atom walks of ID3 and MP4 as inputs of `Formats`.
