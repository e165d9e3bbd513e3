# Canopee: a TLA+ model

Canopee is a peer-to-peer object store: a daemon per device keeps signed,
content-addressed objects, shares some of them with its peers, caches what it
fetches, and can publish an app through a public edge. This directory holds
TLA+ modules translated from the Rust sources in `crates/`, the TLC
configurations that check them, and TLAPS proofs of what matters most.

Contents: [the system](#the-system) · [plan](#plan) ·
[modules](#modules-and-the-code) · [runs](#runs) · [divergences](#where-the-code-and-its-documents-disagree) ·
[bounds](#bounds) · [fairness](#fairness) · [proofs](#proofs) ·
[not modelled](#what-is-not-modelled)

## The system

| component | state | operations | hard behaviours |
|---|---|---|---|
| **Home index and serving set** (`canopee-runtime/src/sharing.rs`, `lib.rs`) | the home index object, the `(owner, "home")` pointer record, entry pointers, the in-memory `SharedSet`, DHT provider records | share, set the shared flag, save, delete, announce, reseed at start | one tokio task per connection and no lock across an operation; five files and sets to keep in step; a crash at any await |
| **Serve session** (`runtime/src/serve.rs`) | the session slot of the runtime, a handler task and a heartbeat task, a shutdown channel | start (which stops the previous session), stop, heartbeat, answer a forwarded request | commands of several connections cross; a stop crosses a heartbeat; requests time out and arrive late |
| **Edge registry** (`canopee-edge/src/registry.rs`) | app hash → publisher and last-seen time, in memory | register (validated by fetching the manifest), heartbeat, deregister, resolve, expire | registrations from several devices; a restart forgets everything; late requests |
| **Content cache** (`canopee-storage/src/cache.rs`, `runtime/src/lib.rs`, `canopee-node/src/lib.rs`) | objects on disk, the LRU index, its sidecar file | fetch and import, accept a push, serve, sweep, delete, pair | each operation crosses store, index and sidecar in several awaits; the identity under it changes with pairing |
| **Object store** (`canopee-storage/src/storage.rs`) | one file per object, a temporary file per object | put, read, delete | several processes write the same user store |
| **Pointer records** (`runtime/src/records.rs`, `storage/src/pointer.rs`) | one signed record file per (owner, name), a copy in the DHT | publish, push, resolve | the temporary file shared by publishers; caches older than the network; timestamps in whole seconds |
| **Device list and record sync** (`runtime/src/records.rs`, `sync.rs`) | the device list object, the cached records of every contact | add, remove, merge, sync one record | last writer wins between devices that do not see each other |
| **Network event loop** (`canopee-network/src/event_loop.rs`, `manager.rs`) | pending replies per request, peers, subscriptions, DHT queries | requests, replication, provide, find providers, subscribe | a reply, a timeout and a lost connection race; tables that must be emptied |
| **Pairing** (`runtime/src/pairing.rs`) | the pairing code, the key file | offer, accept, transfer of keys and records | the key is replaced before the records are in |
| **Capabilities** (`runtime/src/capabilities.rs`) | the capability index, one record of the issuer | grant, revoke, check | read-edit-save without a lock; an index found through an old pointer |
| **Node daemon** (`canopee-node/src/lib.rs`, `canopee-cli/src/commands/daemon.rs`) | the socket file, one task per connection, the sweep's interval | start, accept, dispatch, subscribe, sweep, shut down | the socket file is the lock; handlers are aborted where they wait; a subscriber that lags |
| **Gateway** (`canopee-gateway/src/lib.rs`, `www/client.js`) | a page's unanswered requests, a subscription's pump | translate commands, stream messages | a subscription and commands share a websocket; answers carry no id |
| **Edge front door, HTTP rendering** (`canopee-edge/src/httpd.rs`, `runtime/src/http.rs`, `canopee-cli/src/app.rs`) | a keep-alive connection, the browser's copies | answer from the files, or forward to the publisher | lengths, ranges and answers without a body on one connection |
| **SDK, CLI** (`canopee-sdk`, `canopee-cli`) | what one command has done so far | publish, open, serve locally, add a contact, one call each for the rest | a command is many calls, with failures and other commands in between |

How they meet. Applications, the CLI and the gateway send commands to the daemon
over a Unix socket; the daemon runs each connection in a task that calls
`Runtime`. `Runtime` owns the store, the cache, the identity and the serving
set, and sends commands to the **network event loop** over a channel, each with
a one-shot reply. The loop broadcasts what arrives from peers; `Runtime`'s
object loop answers object requests (from the serving set and the cache), the
serve session answers forwarded HTTP requests, and the edge's registry handles
registrations. The home index and the records are ordinary objects and files of
the same store, so a delete or an eviction can take them away.

What makes each part right:

- *Home index*: only what the ledger shares or a user announced is served, all
  the ledger shares is served, also after a restart; what it lists is stored; a
  name is never published before the object it names is shared.
- *Publishing*: a running session is routable, a stopped one is not, a dead one
  not for long; no task of a session outlives it.
- *Cache*: the sweep never takes own objects, brings the total back under the
  cap, and what it believes survives a restart.
- *Store*: no torn object, whoever writes it at the same time.
- *Records*: all devices and contacts end with the newest record, and a device
  never loses a newer record to an older one.
- *Network*: every command is answered once, and nothing stays in a table when
  the peer or the caller is gone.
- *Daemon and its clients*: every call comes back, with an answer that is its
  own and that it understands; a stream is an unbroken run of its topic's
  messages; one daemon listens, where the socket leads.
- *HTTP*: the bytes on a connection are those the announced lengths say, and
  what is shown is what the app has under that path.
- *Releases*: a name points only at an app that is there whole, and an open
  shows one release or fails.
- *Capabilities, contacts*: an edit that was reported done stands, whatever
  commands and syncs run beside it, as far as the last writer wins.

## Plan

Done, in this order: the home index (the daemon's central promise) and its
network side; publishing, which composes sessions with the registry; the cache;
the store's write protocol; the requests of the network event loop; the sync of
records between devices, and the device list; subscriptions, with the first
abstract specification and its refinement; the gateway's session; the daemon's
life and its calls; HTTP serving; releases; capabilities and contacts; proofs of
the safety properties of all of them; abstract specifications of the records
(`RecordRegister`) and of the serve sessions (`ServeSessions`), with proofs that
`RecordSync` and `AppPublishing` implement them.

Next, in order:

1. An abstract lease, which the edge's registry implements for one device.
2. The session of a pairing with its code; the records of a contact and the
   username registry; inbound requests of the event loop and the address and
   reservation lists.

A module that is to be proved about declares no recursive operator, names its
assumptions, has one action per step between two awaits, and states its
invariants as conjunctions of named parts.

## Modules and the code

An action is what one task does between two awaits at which another task can
change something it uses. A task in flight is a record of its stage and of what
it has read so far: the values read before an await stay as they were read.

- **`HomeLedger`**. `home` is the index named by the `(owner, "home")` record,
  `tmp` the record's temporary file, `indexes` the index objects in the store
  (an index is a value, since its id is its hash), `stored` the other objects,
  `shared` the `SharedSet`. `BeginShare`, `BeginSet`, `BeginSave`,
  `BeginDelete`, `BeginSweep` and `BeginAnnounce` are the commands;
  `LoadHome` → `LoadPrevious` → `WriteTmp` → `Rename` → `Reconcile` →
  `PublishEntry` is `save_home_index` with its callers; `DeleteLoad` …
  `EvictFile` → `EvictWithdraw` → `EvictHome` is `delete_object`. `Crash` loses
  memory, `Restart` is the reseed of `open_with_config`. `asked` is a history
  variable: what a user announced and did not withdraw since. The version of an
  index is a counter that tells successive saves apart.
- **`HomeSharing`** extends it with the network's view: `entryPtr`,
  `providing`, and `sends`, the tasks `reconcile_shared` spawns.
- **`EdgeRegistry`** is the registry of one owner's apps: `entry`, and
  `fetching`, the registration whose manifest is being fetched while the loop
  waits. `Refresh` is the heartbeat path, `Fetch`/`Pin` the first registration.
- **`AppPublishing`** extends it with devices: `sess` (both tasks of a session),
  `slot` (the runtime's current session), `call` (start and stop commands in
  flight), `rpc` (requests and replies on the way, each with an age). A request
  whose sender gave up still arrives. Time is counted in tens of seconds.
  **`ServeSessions`** says what a device promises of its sessions: one at a time,
  from its start to a stop, a replacement or a crash, never again after it left.
  `AppPublishing` implements it (`SessionsServeOnce`): `StartSession` is `Start`,
  `Take` is `Leave`, the end of the later task is `End`, `NodeDies` is `Die`; a
  session serves while it is in its slot with both tasks.
- **`ContentCache`**: `disk`, `index` (when an object was last served), the
  `sidecar`, `op` per task. The identity in memory (`paired`) and on disk
  (`keyfile`) differ between a pairing and the restart after it.
- **`TempRename`**: one object's two directory entries and the open files
  behind them; `fs::write` is an open that truncates and a write to whatever the
  file is called by then.
- **`NetworkRequests`**: `call` is what a method of `NetworkManager` waits for,
  `queue` the command channel, `pending` the six `pending_*` tables in one (an
  entry is a call and the peer its request went to, or no peer for a DHT
  query), `flight` what libp2p has not finished, `push` the verdicts the task of
  a replication has collected, `peers` the peer table against `conns`, the
  connections that exist. The methods are told apart by what becomes of their
  reply (`Kinds`). An action of the loop is one arm of `handle_command` or
  `handle_swarm_event`. libp2p is external: a request ends with its answer or
  with a failure, whether or not the peer acted on it; `held` is the history of
  what peers stored.
- **`RecordSync`**: the devices of one identity and its records in the order of
  `sync_records`. `cache` is the record file of each, `pointers` the `AppPointer`
  objects in its store (the pushed ones and its own), `held` the record objects,
  `served` the serving set. `BeginSave` → `WriteRecord` → `PushPointer` is
  `save_profile` and `save_contact_list` with `publish_pointer`; `BeginRead` →
  `EndRead` is `resolve_pointer`; `BeginSync` → `Scan` → `Fetch` →
  `StorePointer` is `sync_records`. A pointer is the second it was signed in and
  the object it names. Three history variables: `versions`, what was signed by
  whom and when (an object is a number into it), `published`, and `lapsed`, the
  objects a crash stopped from being served for good.
  **`RecordRegister`** says what a record promises: versions are signed, made a
  device's own in that order, given, and adopted, and what a device reads is a
  version of that record, its own or a given one. `RecordSync` implements it
  (`RecordsAreVersions`): `BeginSave` is `Sign`, `WriteRecord` is `MakeOwn`,
  `PushPointer` is `Give`, and `EndRead` and `StorePointer` are `Adopt`. A sync or a
  read can put an older given version in the place of a newer own one, so the
  register does not promise that what is read moves forward.
- **`DeviceList`**: one record of those, with what its saves depend on.
  `BeginEdit` is `load_device_list_merged` and the edit of `add_device`,
  `remove_device` or `reconcile_device_list`, `SaveList` is `save_device_list` with
  the push of its pointer. Three tasks of a device edit at once: its
  registrations (`PublishConnected`, `Register`), the periodic sync
  (`Reconcile`) and a command. A list is the set of its devices; the steps
  inside a save and a sync are those of `RecordSync`, here one each.
- **`TopicFeed`** says what a subscription promises: the messages of its topic
  from its start on, in order, without a gap. **`TopicStreams`** is how the
  daemon does it: `requests` is the channel to the network loop, `topics` what
  the loop is subscribed to, `taken` the broadcast channel with all it ever
  carried, `stream` a connection and its handler with its `cursor` in the
  channel. `OpenStream` → `LoopSubscribes` → `StartStream` → `Receive` …
  `EndStream` is `handle_subscribe`. It implements `TopicFeed`
  (`StreamsAreFeeds`): a handler's stream is the feed while its stage is
  "streaming".
- **`GatewaySession`**: `pending` is client.js's queue of unanswered requests,
  `inbox` and `outbox` the frames under way, `gate` where `handle_commands` is,
  `pump` and `events` the task and the channel of the subscription. `BeginFrame`
  and `FinishFrame` are the two halves of a read that `ForwardEvent` can drop in
  between. `torn` and `failed` are histories.
- **`DaemonCalls`**: `daemon` is the stage of each process, `socket` whose
  listener the file leads to, `call` what each client waits for. `CheckStart` →
  `SpawnNode` → `OpenNode` → `RemoveStale` → `Bind` is a start; `Settle` of a
  Shutdown → `AbortCalls` → `Unlink` → `Exit` an end. `NodeReplies` and
  `Methods` are the two halves of the protocol: what `handle` replies to each
  command and what each method of the SDK takes for success.
- **`HttpServing`**: one browser connection to the local server or to the edge.
  `ParseRange`, `Render` and `Relayed` are pure operators for `parse_range`,
  `render_response` with `prepare_response`, and the edge's `write_response`;
  `owed` is what the reader still waits for by the length it was told. The
  reference for ranges is `Asked`, the set of bytes RFC 7233 gives them.
- **`AppRelease`**: `release` is a `publish` or an `app-manifest` under way,
  `held` and `shared` the publisher's store and serving set, `pointer` what names
  lead to, `opened` an `open` or a `handle` with one fetch task per object,
  `store` the reader's. Each arrow of `get_or_fetch` (`Get` → `Pull` → `Check` →
  `Put`, then `FindProviders` → `FetchObject` → `CheckImport` → `Import`) is an
  action, so that two tasks can bring in one object.
- **`RecordEdits`**: the capability index or the contact list (`list`), as what
  a load, a change and a save make of it. `Begin` → `LookUp` → `KeepFound` →
  `Read` → `Save` → `Publish`; a contact goes through it twice, since the client
  loads and the daemon loads again. The contact list is one of the records a
  sync refreshes, so `ReadLocal` → `Scan` → `FetchAndCache` (`sync_record`) runs
  beside the commands and writes the same record file. Nothing is locked and any
  number of callers cross. `due` is the history of what a device's record file is
  due to lead to. A `Publish` sets it to what its command knew when it looked the
  list up, without a contact of the same name, and its own edit: the last writer
  wins. `PutInPlace`, which `KeepFound` and a sync do, empties it when it puts
  another pointer there. So an edit leaves `due` only at the step that may undo it.
- `MCParts`, `MCDaemonClients` and `MCDevice` put modules that share no state
  into one run: `part` picks the one that works, the others rest. A behaviour
  of the sum is a behaviour of one part, so the run checks what a run for each
  would, and fairness is that of the part. `MCHomeLedger`, `MCHomeSharing`,
  `MCContentCache` and `MCRecordSync` give inputs and symmetry. The proofs are
  in the modules that end in `_proofs`.

Operators under a comment "Mutant:" are deliberate mistakes. Each is substituted
for the operator it precedes to see that the named property fails
(`PROJECT.json`, `mutants`); no specification uses one.

## Runs

| run | question | answer |
|---|---|---|
| `ledger_onewriter` | With one writing command at a time, beside announcements, the sweep, and a crash: do ledger, serving set and store agree? | yes; the ledger is lost in one way only, deleting an unlisted object |
| `sharing_restart` | Is a name published only once it is shared, and does every share come back after a crash? | yes |
| `publish_recovery` | After a crash, a loss or a refusal: does the session come back, is a silent publisher dropped, do tasks end, and does a session serve until it leaves its slot and never again? | yes |
| `network_calls` | Two calls of any kind, a channel of one place, peers that come and go, lost answers, callers that give up: does every call return, do the tables empty, and does a push report what its targets did? | yes, except for provider queries |
| `sync_devices` | While saves, reads and syncs of two devices cross, pushes are lost, the DHT answers or not, and a device crashes: is what a device reads a version of that record, its own or a given one, does each end with the newest pointer that reached it, and does it serve what it published? | yes; as to the last two, unless a crash took the object the pointer names |
| `device_parts` | *Cache:* do fetch, push, serve, delete, pairing, sweep and a crash keep index, store and sidecar together, and does the sweep end under the cap? *Device list:* two devices come up in any order, edit their list from three tasks each and sync it, while a user adds or removes one: does each end on the other's list, and do the saves stop? | yes; own objects are spared until pairing; at most 15 saves |
| `parts_safety` | *HTTP:* are answers framed by the lengths they announce, and is what a browser shows what the app has? *Releases:* does an open serve one release whole, and a name lead to one that is there, while objects are deleted and evicted, the publisher restarts or publishes again? *Edits:* does a grant, a revocation or a contact that was reported done stand, and a revoked grant stay refused, while commands and syncs cross? *Store:* three writers of one object through one temporary file: is what has settled whole? *Lease:* is a running session routable while start, stop and replace commands of two connections cross and requests are lost or late? | yes, except after an unsatisfiable range at the edge; an edit stands until a command that looked the list up before it is reported, or a sync or a look-up puts another pointer in the record file; with at most one heartbeat missed in a row |
| `daemon_clients` | *Subscriptions:* is each stream an unbroken run of its topic's messages, and does a shutdown end them? *Gateway:* does every request get its own answer, or a rejection? *Calls:* does a call of any command come back, with a reply its method takes, and is the daemon that listens where the socket leads, through starts, a shutdown and a kill? | yes; not when a subscription failed or a frame was dropped, nor when two starts overlap |
| `ledger_unlisted`, `publish_offline`, `cache_pairing`, `streams_unread` | see the next section | no |

With several writers `ServedWasAsked` fails (next section), which is why
`ledger_onewriter` has one; its other task announces and sweeps.

## Where the code and its documents disagree

With a run (`PROJECT.json`, `findings`, quotes both sides):

| run | what happens |
|---|---|
| `ledger_unlisted` | `delete_object` of a stored object that no entry lists still evicts the home index object the pointer names. The ledger is unreadable from then on: after a restart nothing is served |
| `publish_offline` | `terminate` drops a clone of the shutdown sender, so both tasks run on while it waits for them; a heartbeat in that wait puts the stopped app back on the edge |
| `cache_pairing` | the records pairing brings are marked as another's content; after the restart the sweep may evict the node's own records |
| `streams_unread` | a subscription's client reads the length of a message with its bytes in the wrong order, and waits for ever: no message is delivered by the SDK, nor by the gateway's pump, which uses it |

Without a run of their own; the property is in the module, and TLC refutes it
on the instance given (constants not named are those of a listed run of the
module):

| property | instance | what happens |
|---|---|---|
| `ServedWasAsked` | `HomeLedger`, two tasks, both writers, one name, one own object, `MaxVersion = 2`, no crash | two connections save the home index at once; the difference each applies to the serving set is of indexes that were never consecutive, and something unshared stays served (`sharing.rs:47`) |
| `UnsharedNameDoesNotResolve` | `HomeSharing`, one writer, one name, one object | unsharing leaves the entry pointer (`sharing.rs:78`) |
| `ListedIsStored` | `HomeLedger`, `Aliasing = TRUE`, one writer, two names, one object | deleting an object listed twice removes one entry and the blob (`lib.rs:648`) |
| `ProvidedIsServed` | `HomeSharing`, one name, one object | the spawned announce runs after the unannounce (`sharing.rs:198`) |
| `LiveSessionIsRoutable` | `AppPublishing`, `Tolerated = 2`, `Losses = 2` | two heartbeats lost in a row cost 30 s and a timeout each: the 90 s entry expires, where `publishing-apps.md:131` allows three missed beats |
| `AnswersOwnApp` | two apps, two sessions, `Losses = 0` | a forwarded request names no app, so a session being replaced answers for its successor (`message.rs:73`) |
| `AppStaysReachable` | two nodes, two sessions, `Losses = 0` | one device's deregistration removes the entry another device pinned (`registry.rs:85`) |
| `ForeignIsTracked` | `ContentCache`, `Objects = {own, a, b}`, `Inherited = {}`, `Imports = 4` | a push between the delete and the untrack of an eviction leaves an object no sweep sees (`lib.rs:620`) |
| `FetchedIsReturned` | two connections, `Inherited = {}` | of two fetches of one object the second fails (`lib.rs:607`) |
| `NeverTorn` | `TempRename`, two writers | one writer renames the temporary file another has just truncated (`storage.rs:30`) |
| `RenamesAreIdempotent` | `TempRename`, two writers | the second rename finds no temporary file and the put fails (`storage.rs:33`) |
| `ConnectedAreListed` | `NetworkRequests`, one call, one peer, two connections, three changes | `ConnectionClosed` removes the peer although another connection to it remains (a relayed one closing after the direct upgrade, say); pushes skip it until its next identify message (`event_loop.rs:528`) |
| `ProvidersReturn` | `NetworkRequests`, one call, one peer, one connection, one change | only `GetProviders(Ok)` is matched (`event_loop.rs:632`): the failure of a provider query leaves its reply in the table, and `find_providers` waits for ever, with it a fetch, a sync or the device list's merge, none of which has a timeout of its own; `canopee-network/README.md:150` promises an error "rather than hanging forever" |
| `AbsentStayListed` | `DeviceList`, `MaxSaves = 6` | a command adds a device while a registration, which loaded the list before, is about to save it (`records.rs:599`): no list names the added device, where `records.rs:466` says merging "keeps the union of all registered devices". A sync can replace the list likewise |
| `RecordsAreServed` | `RecordSync`, `Order <- MCOrder` | the contact list is not announced, neither when it is saved (`records.rs:874`) nor on opening (`lib.rs:273`), where `sharing.md:75` says it is always shared; a device that finds its pointer cannot fetch it, and the error ends the sync before the device list (`sync.rs:71`) |
| `CachedIsLoadable` | `RecordSync`, no crash | reading caches a pointer without its object; the sync then finds nothing newer and never fetches it, and loading the record fails (`records.rs:120`) |
| `SyncTakesNewer` | `RecordSync`, `MaxTime = 2`, no crash | a sync compares what it found with the record file as it was before the fetch (`sync.rs:95`), and then overwrites the file whatever it holds (`sync.rs:110`): a version published in between is undone by an older one, where `sync.rs:67` says the last writer wins by `published_at`. In `RecordEdits` the same steps undo a contact that was reported added, with no other command running. A later sync finds the newer pointer in the store again |
| `EdgeAddsLength` | `HttpServing` | the session leaves Content-Length off a 416 and the edge adds one only to statuses with a body (`httpd.rs:269` says "when the publisher left it off and the status code needs one"): the browser waits until the connection closes |
| `PublishedOpensByName` | `AppRelease` | `publish` points `app:<name>` at the manifest, `open --name` looks for `<name>` (`publish.rs:65`, `docs/reference/uri-scheme.md:28`, `docs/reference/cli.md:100`) |
| `StoredIsNoError` | `AppRelease`, a directory with two equal files | two tasks of one open bring in one object and the second fails with "already exists", where `common.rs:45` calls that "a no-op, not an error" of the fetch command: `open` has no such rule |
| `StreamedIsSubscribed` | `TopicStreams`, two clients, one topic | the first handler that ends unsubscribes the topic the other still streams, which hears nothing more (`protocols.md:38`: "until the client disconnects") |
| `DroppedIsUnsubscribed` | `TopicStreams` | a handler sees that its client has gone only when a message cannot be written: without one the topic stays subscribed (`subscription.rs:5`) |
| `AnsweredAlongside` | `GatewaySession` | a message that is ready first drops the half-read command with the future that read it (`canopee-gateway/src/lib.rs:211`: "every other command is answered immediately alongside it") |
| `ErrorsFindTheirRequest` | `GatewaySession` | the error of a subscription settles the oldest request of another command, whose own answer settles the next (`client.js:59`: errors "that can't be tied to a request" go to `onError`) |
| `SocketIsTheLock` | `DaemonCalls`, `MaxStarts = 2` | two starts find no daemon, and the second removes the socket the first has just bound: two daemons listen (`daemon.rs:62`: "the socket is the lock"). The model has `canopee start` only: the binary `canopee-node` run directly makes no check at all and removes the socket of a live daemon (`canopee-node/src/lib.rs:79`) |
| `StoppedIsGone` | `DaemonCalls` | "Canopee node stopped" (`daemon.rs:124`) is printed when the command was answered, before the daemon has closed |
| `RevocationsReachOthers` | `RecordEdits` | the index is never announced, so a device that finds its pointer cannot fetch it, and honours a revoked grant (`docs/reference/capabilities.md:57`: "a revoked grant stops being honored") |
| `DeniedAfterRevoke` | `RecordEdits`, the same offer granted twice in a second | both grants have one id; revoking flags the first entry and access is still allowed through the second |

Read in the code, and left out of the models because no property is about them:
`client.js` writes `peerId` where the gateway reads `peer_id`, so `fetchObject`
with a peer is refused (in `GatewaySession` an invalid command);
`recipientsB64` is ignored; `Resource::parse` splits at the first colon;
`contact_add` takes a failed load for an empty list (in `RecordEdits`).

## Bounds

- `ledger_onewriter`: two names, two own objects and a foreign one, two tasks of
  which one writes, three index versions, one crash. Two names and objects are
  needed for an entry that is not the one edited; three versions for a delete
  that crosses a ledger with a past; more versions repeat the cycle. Applications
  save the empty index only: `ListedIsStored` is about the daemon's own edits.
  The theorems cover every set of application indexes.
- `sharing_restart`: one name, no symmetry because it checks liveness.
- The lease in `parts_safety`: one device, two connections, one session identity per start
  that succeeds, two losses. `Skew = 12`, so that no registration is refused as
  stale, isolates the lease. `publish_recovery`: two sessions, one loss and one
  crash, `Skew = 2`, so that late registrations are refused; one connection, so a
  session is replaced by a start that has stopped it first. `SessionsServeOnce`
  and `DutyInv` were also checked with two connections, whose starts cross (1.7
  million states), and hold for any number (`PublishingServesOnce`). Units are ten
  seconds: `TTL = 9`, `Interval = 3`, a request timeout and `terminate`'s wait
  of one unit each. The orders among these are what the properties depend on.
- The cache in `device_parts`: one own, one inherited and one foreign object; cap one, so two
  cached objects exceed it; two clock values, enough for an older and a newer
  one and for ties; two imports and one crash.
- The store in `parts_safety`: three writers: one that truncates, one that renames, one that
  finds the name gone.
- `network_calls`: two calls compete for a channel of one place; two peers are
  the fewest with which a broadcast can half fail; two connections per peer and
  four changes let a peer leave and come back under a push. `Deadlock` is not
  checked in the network runs: the calls are finite, and when all have returned
  nothing need happen.
- `sync_devices`: one record, two saves in two seconds: enough for a save that a
  sync overtakes, for pointers of one second and for an older pointer that
  arrives late. The safety properties also hold with a second record that is not
  announced (2.7 million states), whose failing fetch cuts the sync short, and so do
  `VersionsInv` and `RecordsAreVersions`. The
  models of a device run one save, one read and one sync at a time, and a
  device's clock does not go back. A provider query is taken to end: one that
  never does (`ProvidersReturn`) would stop the periodic sync for good.
- The device list in `device_parts`: two devices and the name of a third; one registration,
  addition or removal beyond the first registrations. The longest behaviour
  saves 15 times, so `MaxSaves = 16` never stops one. Two such edits, without the
  third name, settle as well (0.9 million states). Saves have different seconds,
  and the DHT answers with the last put or not at all; a list is served by the
  device that saved it.
- HTTP in `parts_safety`: a file gzip shortens and one it lengthens, of three
  and two bytes; ranges that begin inside, at and past the end, suffixes of one
  byte, of more than there are and of none. Every clamp and every comparison of
  `parse_range` has both of its outcomes; longer files add no other.
- Releases: two paths beside `index.html` and four directories: with equal files,
  with one missing, without an index, with a name that leads nowhere; two of the
  deletions, restarts and evictions, two seconds, so that a second release of the
  same bytes is another object.
- Edits: two devices of the issuer, two callers on one of them, three commands
  or syncs, two seconds: a grant, its revocation and a check; an edit that falls
  between the load and the save of another; two edits while a sync is under way,
  which undoes the second. A version of the model that kept either of the lost
  edits in `due` is refuted within these bounds. Four commands or syncs were
  checked too (5.3 million states). Neither list is announced, so a device
  fetches only what its own store holds; lists that pairing copies are left out.
- Subscriptions: two clients, two topics, a channel of one message and enough
  messages to lag behind it. `FrameLength` matters to `streams_unread` only,
  where any length from 1 to 127 gives the same.
- `GatewaySession`: enough commands for an answer that goes to another request
  and for one behind an invalid command. `DaemonCalls`: one caller sends every
  command of the protocol, the other shuts down; the daemons are as many as the
  starts, so every start finds a process.
- The three sums do not check for deadlock: a part whose budget is spent and
  whose connections have closed has nothing left to do. Nor does
  `streams_unread`.
- Budgets (`crashes`, `losses`, `imports`, versions) are part of the state, so
  liveness holds in each whatever the budget was spent on.

## Fairness

tokio runs a ready task and fires timers, and no step of a task waits for
another command, so a step that stays enabled is taken (`WF` on each task's
steps). A request to a peer ends by the request timeout (`GiveUp`), and time
does not stop (`Tick`); `Tick` waits for timers that are due, which assumes
timers are met within ten seconds. Requests that are not lost are delivered,
without an order. The service units in `deploy/` (`Restart=on-failure`) restart
a dead daemon or edge. In `NetworkRequests` the loop takes a command it can
take, a replication's task runs, and libp2p ends each request and query by its
own timeout, with success or failure as it likes; a caller's giving up, and the
peers' connections, get no fairness. The sweep's interval ticks forever. In `RecordSync` a save, a read and a sync that began go on, the
30-second interval starts the next sync, and a dead daemon is restarted; a push
may fail and a lookup may find nothing for ever. In `DeviceList` devices connect, and stay so, within
the 25 seconds a device waits for a peer before it publishes. In `TopicStreams` the loop takes the next command, a handler goes on, and a
shutdown's `abort_all` reaches every handler; clients that open and drop, and
messages, get no fairness. In `GatewaySession` both ends' runtimes run what is
ready, the rest of a frame that has begun to arrive arrives, and the node answers
every call (`CallsComeBack` of `DaemonCalls`); a session that has lost the head of
a frame (`Misread`) gets none. In `DaemonCalls` a stop goes on to its end, and a
command of the runtime ends. Commands of users,
pushes of peers, losses and crashes get no fairness. `HomeLedger` and
`TempRename` have none: their properties are safety.

## Proofs

All leaf steps are checked by TLAPS with Z3, Zenon and LS4. Every safety property
of a passing run is a theorem, but for `SavesSettle`; so are the four refinements.

**The home index** (`HomeLedger_proofs`), from `HomeAssumption` (writers are
tasks, `None` is no object, own and foreign objects differ, application indexes
are indexes), for any number of other tasks, names, objects and indexes:

- `TypeCorrect` holds without more. `LedgerInvariant`, `ServesOnlyWhatWasAsked`,
  `LedgerStaysReadable` and `NamesFollowTheLedger` need a single writer of the
  index (`OneWriter`): with two they are false (see the table above).
- `ServesWhatIsShared` needs `~Aliasing` as well: a delete leaves a second entry
  of its object behind.
- `ListsOnlyWhatIsStored` also needs `AppsListNothingOwn`: `save_home_index`
  takes the index an application hands it and does not look at what it lists.
- `SharingImplementsLedger`: every step of `HomeSharing` is one of `HomeLedger`
  or leaves its variables alone, so all of the above holds of the composition.

`ServedWasAsked` is not inductive: it says nothing while a writer is between the
publication of an index and `reconcile_shared`. `LedgerInv` has three parts.
`ServingInv` says what a writer has read in each stage (`PublishingOK`:
`previous` is the published index, the temporary file is the writer's own), what
the serving set still answers to in that gap (`ServedOK`, `CoveredOK`), and,
without aliasing, that an object is listed once and leaves the ledger before a
delete takes it from the store (`ListedOnce`). `KeptOK` is for
`LedgerLostOnlyByUnlistedDelete`: an index is stored before a pointer names it,
and the one a delete evicts is older than the one in force. `StoredOK` is for
`ListedIsStored`: what an index on its way to the record lists is stored already.
`NamesInOrder` (`HomeSharing`) adds that a writer about to publish an entry's
pointer still has the ledger it saved.

**What a device keeps** (`LocalData_proofs`). For any set of writers of one
object: `StoreInvariant`, `TornIsTransient` and `StoreSettlesWhole`. `StoreInv`
strengthens the last with `EndedIsStored`: nobody ends, or loses the temporary
file, before something was renamed into place. For any devices, callers, contacts
and grants, from `EditAssumption` and `NoPointerAssumption` (the word for "no
pointer" is no pointer): `EditsInvariant`, `ReportedEditsStand` and
`RevokedStaysRefused`. Commands and syncs cross in any order; none is excluded.
`EditsStand` speaks of the list a device reads and says nothing of the command that
is about to replace it, which may have loaded its list long before. `EditInv`
follows the edits a command knew of when it looked the list up (`Holds`): the
pointer it found leads to a list with them that the device holds, so does the list
it loaded, so does what the client sends back, and what it publishes has them and
its own edit (`ChangeStands`: what a grant, a revocation or a contact does to a
list keeps every other edit in it). The second look of `save_contact_list`, for the
version, may find anything and changes none of this. A check that knew of a
revocation refuses (`Refused`), and a record file that is due edits names a list the
device has (`Kept`). What a sync fetches is either the pointer already there or ends
what the file was due (`PutInPlaceKeeps`): nothing later than the writer's own look
is promised to survive it, and without that exception `EditsStand` is false.

**Content cache** (`DeviceData_proofs`), from `CacheAssumption` (own and
inherited objects differ, the sweep is a task of its own): `TypeCorrect`,
`SidecarSettles` and `SweepIsSafe`. `Moved` states once what any task's step may
do to the index and the sidecar. `SidecarIsCurrent` is inductive beside the types;
for the sweep `CacheInv` adds that, until pairing has replaced the key that is in
memory, no own object is tracked in the index or in the saved sidecar, about to be
marked, or picked (`OwnUntouched`).

**Device list** (`DeviceData_proofs`), from `DeviceAssumption` (there are devices,
finitely many, with names of their own), for any number of edits and saves, and for
saves that have seconds of their own, as `DeviceList` has them:
`DeviceListsInvariant`, and from it `DeviceListsTyped`, `NewestListIsKept` and
`ListsMoveForward`. `ListsInv` says that the lists in record files, stores and the
DHT were each saved under a number of its own (`OneListPerSave`), so that the order
of the pointers is an order of the lists; that some device reads its list from the
newest save (`NewestIsKept`), though the DHT may be given an older one; and that a
registration or reconciliation under way keeps its own device
(`EditsNameTheirDevice`). It does not say that a later list names everybody an
earlier one did: `AbsentStayListed` is false.

**Publishing** (`AppPublishing_proofs`), from `EdgeAssumption` and
`PublishingAssumption` (names are told apart, timers are positive), for any
devices, apps, sessions, commands, timers, losses and crashes:

- `PublishingTyped`, and `PublishingInvariant`: `PartsInv` says that a sender has
  one request under way, in the stage that awaits its answer and for the app it
  serves (`SentOK`), that a command that goes on knows its device, app and session
  (`CallsOK`), and that a slot holds a session of its device (`SlotsOK`).
- `LeaseInvariant`, with one device (`OneDevice`). How old the mapping of a session
  can be is a matter of arithmetic: after `k` missed heartbeats the last answer is
  at most `Bound(k) == RpcTimeout + k * (Interval + RpcTimeout)` ago, since each
  miss costs an interval and a timeout and the answer itself may be as late.
  `LeaseInv` relates that to the timer of a sleeping session and to the age of the
  request of a beating one (`Leased`), and carries it through the wire: nobody
  waits longer than the timeout (`InTime`), and the mapping is younger than an
  acceptance on its way back (`OksAreFresh`).
- `ServedIsRoutable`: if `RpcTimeout + (Tolerated + 1) * (Interval + RpcTimeout) <=
  TTL` (`Timely`), `LiveSessionIsRoutable` holds for any number of sessions while
  no process has died and no session was stopped or replaced. The edge's 90
  seconds, with the publisher's 30 and 10, are `Timely` for one missed heartbeat
  and not for two: 10 + 2 * 40 = 90.
- `SessionIsRoutable`: with one session and no crash the property holds outright.
- `DutyInvariant` and `PublishingServesOnce`, for any devices, sessions, commands,
  losses and crashes: the refinement `Spec => SessionsServeOnce`. That a handler
  which ends, or a heartbeat that gives up, is one of a session that has left maps
  its step to `End` or to a stutter; for that `DutyInv` says that a session in its
  slot is referenced, marked running and has both tasks, and that a session a
  command is stopping is in no slot any more. It is inductive only beside
  `PartsInv`: a late answer that reached a session without a heartbeat under way
  would wake its loop again, and `SentOK` excludes it.

The hypotheses are the code's limits: with two devices the other one takes the app
over and drops it (`registry.rs:81`), with a second session a deregistration of the
first that is late removes the mapping of the next, and a crash of the edge empties
the registry until the next heartbeat, which is `PublishedComesBack`. A run checks
the instance of `SessionIsRoutable`; `LeaseInv` was also checked with TLC for two
sessions, two apps and a crash, 24 million states, before it was proved.

**From a directory to the browser** (`AppDelivery_proofs`).

- `OpenServesOneRelease`, for any directories: `OpenInv` says that what has been
  uploaded is of the directory the release has read, and that every manifest that
  was sealed, named or asked for describes one directory, whole.
- `NamedAppIsWhole`: an app's parts are stored before its manifest, served before
  the name is moved, and pinned after (`Whole`), until something is deleted or the
  publisher restarts; `spoiled` remembers that, and the property is about the rest.
- `ReadersKnowTheEnd` and `BrowsersShowTheSite`, for any site, ranges and cached
  copies: `HttpInv` says what the browser may have told of its copy; the rest is
  arithmetic on `ParseRange`, for every length and range.

**What talks to the daemon** (`DaemonClients_proofs`).

- `RepliesAreUnderstood`, for any callers and daemons: a call carries a command of
  the protocol, and an answer one of the replies `handle` has for it (`CallsInv`);
  the two tables of the protocol are compared entry by entry.
- `SocketLeads`: as long as no two starts overlapped, one daemon at most is coming
  up, and none while one has its file (`SocketInv`).
- `AnswersFollowRequests`: client.js gives an answer to the oldest request. That is
  right because the numbers on the way out, in the session and on the way back
  increase, and together are those the page waits for (`PageInOrder`,
  `SessionInOrder`), until a subscription fails or a part of a frame is dropped.
- `StreamsKeepUp` and `StreamsImplementFeed`, from `StreamsAssumption`, for any
  clients, topics, messages and size of the channel: the refinement
  `StreamSpec => StreamsAreFeeds`. A step of the loop or of a handler maps to a step
  of `TopicFeed` or to a stutter only because the message a handler reads next is
  the first of its topic that the client has not heard: `StreamInv` says that the
  cursor is within what was taken in and has left no message of the topic behind
  (`NoGap`), and that nothing is written before the stream starts (`Unwritten`).
  Joining the channel is `Join`, a message written is `Hear`, and a handler that
  lags, sees the shutdown, is aborted or finds its client gone is `Leave`.

**Records** (`RecordSync_proofs`), from `SyncAssumption` (the order is a non-empty
sequence of records, the announced ones are among them, bounds are numbers), for
any devices, order and bounds: `TypeCorrect`, `ServeInvariant`,
`ServesWhatItPublished`, `VersionsInvariant` and `SyncImplementsRegister`. `AnnouncedIsServed` speaks of running devices and of
pointers the record file still names; `ServeInv` carries it through the gaps: an
object is served before its pointer is written (`WritingIsServed`), a device that
is down runs nothing (`StoppedIsIdle`), and what it published is in its record
files, from which opening serves it again, or is in `lapsed`
(`PublishedIsServed`).

`SyncImplementsRegister` is the refinement `SyncSpec => RecordsAreVersions`. A step
that writes a record file is `MakeOwn` or `Adopt` only if the pointer it was holding
since before its awaits names a version of that record, and for `Adopt` one that was
pushed: `VersionsInv` says so of every pointer in a file, a push, a read or a sync
under way, and that a device's own versions follow one another, a version between
its signature and its record file included.

**Requests of the network** (`NetworkRequests_proofs`), from `NetworkAssumption`
(no peer is `None`, the channel holds something), for any calls, peers, capacity
and changes of the peer table: `NetInvariant`, and from it `TypeCorrect`,
`TablesDrain`, `SuccessIsStored` and `FailureIsUnanimous`; no run lists the types,
nor those of `RecordSync`, since the theorems have them. What the properties say
of a call's answer depends on what is still in the channel and in flight, so
`NetInv` says that a command is in the channel once and nothing was done for it
before it is taken (`QueuedOnce`, `Fresh`), that a query is only in flight for the
kinds that start one (`TablesOK`), and that a target whose request is pending has
given no verdict yet and one that did answer `ok` holds the bundle (`PushOK`). A
step is about one call; `Untouched` carries the rest.

Model-checked only:

- `SavesSettle` (`DeviceList`): that a bound on the saves is never reached is a
  claim about the longest behaviour of an instance.
- Liveness: `SharesSurviveRestart`, `PublishedComesBack`, `SilentIsDropped`,
  `TasksEnd`, `EveryCallReturns`, `DeliveredIsAdopted`, `CapRestored`,
  `RunningAreListed`, `ShutdownCloses`, `RequestsSettle`, `CallsComeBack`. Fairness
  and `ENABLED` are out of the prover's reach.

## What is not modelled

Cryptography, signatures, encodings and encryption are taken as given: a record,
a grant or a registration is signed by its owner, and the edge model has one
owner, so it says nothing of the signature checks. Bytes and sizes appear where
a property is about them (the framing of HTTP answers, the length prefix of a
stream); elsewhere an object has size one. The order of the home index's entries
is left out. libp2p is external: its effects are requests that are lost, late or
answered, and queries that progress, end or fail.

- *Network event loop*: inbound requests other than pushes, dialling, the lists
  of listen addresses and relay reservations.
- *Edge front door*: reading the request line and the headers, the limits on
  their size, TLS.
- *Subscriptions*: a topic the network loop refuses; the handler then answers with
  an error and ends.
- *Gateway*: the websocket handshake, the demo page and what messages carry; a
  session that is closing may still be sent a frame in the model.
- *Pairing*: the session, its code and their expiry; the change of the key and
  the records it brings are in `ContentCache`.
- *Records*: the username registry and a device's registry record; in the store,
  name sidecars and listings.
- *Identity, device keys and envelopes*: export and import of an identity
  included; they are computations on key files with no other actor.
- *SDK and CLI*: bundles; commands that are one call each.
- *Configuration, the chat demo, deployment*: they keep no state the daemon
  shares. The unit files justify the fairness of restarts.

`PROJECT.json` gives each component's status and, under `hazards`, what a test
would hardly reach, with the properties about it.
