----------------------------- MODULE DeviceList -----------------------------
(***************************************************************************)
(* The (owner, "devices") record: the list of the devices of one identity.   *)
(* Each device registers itself on starting, merges its list with what its   *)
(* peers serve, and adopts the newest list with every sync of its records.   *)
(*                                                                          *)
(* A list carries the number of its save; saves have seconds of their own,   *)
(* so that number also orders the pointers.  RecordSync has the steps inside *)
(* a save, a push and a sync, ties, losses and crashes; here each is one     *)
(* step, and a device that is connected stays so.                            *)
(***************************************************************************)
EXTENDS Naturals, Sequences, FiniteSets, Functions

CONSTANTS
    Devices,        \* the devices that run
    Others,         \* names of devices that are off
    MaxEdits,       \* bound: later registrations, devices added and removed by users
    MaxSaves        \* bound: saves

Names == Devices \cup Others

ASSUME DeviceAssumption ==
    /\ Devices # {} /\ IsFiniteSet(Devices) /\ Devices \cap Others = {}
    /\ MaxEdits \in Nat /\ MaxSaves \in Nat

VARIABLES
    saves,      \* how many lists were saved
    cache,      \* the list each device's record file points at
    pushed,     \* the list of the newest pointer in each device's store
    dht,        \* the list whose pointer was put into the DHT last: one at most
    linked,     \* the devices connected to each other
    published,  \* the devices that have published again since they are connected
    edit,       \* the edit under way in each task of each device
    edits       \* bound counter

deviceVars == <<saves, cache, pushed, dht, linked, published, edit, edits>>

\* Who edits: the registrations, the periodic sync, and a command.
EditTasks == {"startup", "sync", "user"}
Resting == [busy |-> FALSE, members |-> {}, without |-> {}]

\* Devices that have opened for the first time: each has registered itself with
\* nobody to ask, in any order, and is not connected yet.
ListInit ==
    /\ \E order \in Bijection(Devices, 1..Cardinality(Devices)) :
          cache = [d \in Devices |-> [number |-> order[d], by |-> d, members |-> {d}, version |-> 1]]
    /\ pushed = cache /\ saves = Cardinality(Devices)
    /\ dht = {} /\ linked = {} /\ published = {} /\ edits = 0
    /\ edit = [d \in Devices |-> [t \in EditTasks |-> Resting]]

-----------------------------------------------------------------------------
(* Lists.                                                                   *)

\* load_device_list: what the record file points at.
Local(d) == cache[d].members

\* A device serves the lists it saved.
Offered(d, lists) == {l \in lists : {d, l.by} \subseteq linked /\ l.by # d}

\* fetch_freshest_device_list: of the lists a device can name that a peer serves,
\* one of the highest version.  found is what the DHT answered.
Freshest(d, found) ==
    LET offered == Offered(d, {cache[d], pushed[d]} \cup found) IN
    {l \in offered : \A k \in offered : k.version <= l.version}

-----------------------------------------------------------------------------
(* Edits.                                                                   *)

\* Local entries first, then those only the freshest list has.
Union(local, remote) == local \cup remote

\* What load_device_list_merged returns, whether the DHT answers or not.
Merged(d) ==
    LET remotes(found) == {l.members : l \in Freshest(d, found)} IN
    UNION {{Union(Local(d), remote) : remote \in IF remotes(found) = {} THEN {{}} ELSE remotes(found)}
           : found \in {{}, dht}}

\* Mutant: lists are compared by their objects and not by their devices.
NeedsSavingOtherList(d, t, wanted) == t = "sync" => \E l \in Freshest(d, dht) : l # cache[d]

\* A reconciliation saves only a list that changed.
NeedsSaving(d, t, wanted) == t = "sync" => Local(d) # wanted

\* The list is loaded, merged and edited; nobody holds it until it is saved.
BeginEdit(d, t, added, removed) ==
    /\ ~edit[d][t].busy
    /\ \E members \in Merged(d) :
          LET wanted == (members \cup added) \ removed IN
          /\ NeedsSaving(d, t, wanted)
          /\ edit' = [edit EXCEPT ![d][t] = [busy |-> TRUE, members |-> wanted, without |-> removed]]
    /\ UNCHANGED <<saves, cache, pushed, linked>>

\* schedule_device_publish, once the device has a peer: its pointer goes into the
\* DHT, and it registers again.
PublishConnected(d) ==
    /\ d \in linked \ published
    /\ dht' = {cache[d]} /\ published' = published \cup {d}
    /\ BeginEdit(d, "startup", {d}, {})
    /\ UNCHANGED edits

\* The registration 20 seconds later.
Register(d) ==
    /\ d \in published /\ edits < MaxEdits
    /\ BeginEdit(d, "startup", {d}, {})
    /\ edits' = edits + 1
    /\ UNCHANGED <<dht, published>>

\* Mutant: the device takes itself to be on the list.
ReconcileUnchecked(d) ==
    /\ d \in linked /\ Cardinality(linked) > 1
    /\ BeginEdit(d, "sync", {}, {})
    /\ UNCHANGED <<dht, published, edits>>

\* reconcile_device_list, from the periodic sync.
Reconcile(d) ==
    /\ d \in linked /\ Cardinality(linked) > 1
    /\ BeginEdit(d, "sync", {d}, {})
    /\ UNCHANGED <<dht, published, edits>>

\* The commands AddDevice and RemoveDevice; the device itself cannot be removed.
Command(d, who) ==
    /\ edits < MaxEdits
    /\ \/ BeginEdit(d, "user", {who}, {})
       \/ who # d /\ BeginEdit(d, "user", {}, {who})
    /\ edits' = edits + 1
    /\ UNCHANGED <<dht, published>>

\* save_device_list numbers the list after the one the record file names now.
NextVersion(d) == cache[d].version + 1

\* save_device_list: the list is stored and announced, the record file replaced,
\* whatever it points at by now, and the pointer goes to the device's own store,
\* to those of connected devices, and into the DHT.
SaveList(d, t) ==
    LET list == [number |-> saves + 1, by |-> d, members |-> edit[d][t].members, version |-> NextVersion(d)]
        receivers == IF d \in linked THEN linked ELSE {d}
    IN
    /\ edit[d][t].busy /\ saves < MaxSaves
    /\ saves' = saves + 1
    /\ cache' = [cache EXCEPT ![d] = list]
    /\ pushed' = [x \in Devices |-> IF x \in receivers THEN list ELSE pushed[x]]
    /\ dht' = IF d \in linked THEN {list} ELSE dht
    /\ edit' = [edit EXCEPT ![d][t] = Resting]
    /\ UNCHANGED <<linked, published, edits>>

-----------------------------------------------------------------------------
\* A device connects, and stays connected.
Connect(d) ==
    /\ d \notin linked
    /\ linked' = linked \cup {d}
    /\ UNCHANGED <<saves, cache, pushed, dht, published, edit, edits>>

\* sync_record for this record: the newest pushed pointer, else what the DHT
\* finds, replaces an older one once the list is fetched.
Sync(d) ==
    LET newer(lists) == {l \in lists : l.number > cache[d].number} IN
    /\ d \in linked
    /\ \E l \in Offered(d, IF newer({pushed[d]}) # {} THEN {pushed[d]} ELSE newer(dht)) :
           cache' = [cache EXCEPT ![d] = l]
    /\ UNCHANGED <<saves, pushed, dht, linked, published, edit, edits>>

ListNext ==
    \E d \in Devices :
        \/ PublishConnected(d) \/ Register(d) \/ Reconcile(d) \/ Connect(d) \/ Sync(d)
        \/ \E t \in EditTasks : SaveList(d, t)
        \/ \E who \in Names : Command(d, who)

\* EditTasks run, the interval fires, and devices connect.
ListFairness ==
    \A d \in Devices :
        /\ WF_deviceVars(PublishConnected(d)) /\ WF_deviceVars(Reconcile(d))
        /\ WF_deviceVars(Connect(d)) /\ WF_deviceVars(Sync(d))
        /\ \A t \in EditTasks : WF_deviceVars(SaveList(d, t))

DeviceSpec == ListInit /\ [][ListNext]_deviceVars /\ ListFairness

-----------------------------------------------------------------------------
(* Properties.                                                              *)

\* Types and ranges; in it, that a version counts at most the saves before it.
ListTypeOK ==
    /\ \A l \in {cache[d] : d \in Devices} \cup {pushed[d] : d \in Devices} \cup dht :
         /\ l.number \in 1..saves /\ l.by \in Devices
         /\ l.members \subseteq Names /\ l.version \in 1..l.number
    /\ saves \in Nat /\ Cardinality(dht) <= 1
    /\ published \subseteq linked /\ linked \subseteq Devices /\ edits \in 0..MaxEdits
    /\ edit \in [Devices -> [EditTasks -> [busy : BOOLEAN, members : SUBSET Names, without : SUBSET Names]]]

\* "What makes the device list converge across machines" (records.rs:648): in the
\* end every running device is on the list of every other, for good, whatever
\* lists crossed and whoever was removed meanwhile.
RunningAreListed == <>[](\A d, e \in Devices : d \in Local(e))

\* "Being write-frugal matters" (records.rs:651): registrations and commands set
\* off a bounded number of saves; reconciling devices do not answer each other for
\* ever.
SavesSettle == saves < MaxSaves

Listed == UNION {Local(d) : d \in Devices}

\* False: merging "keeps the union of all registered devices" (records.rs:466), so
\* that only a removal takes off a device that is away.  Two tasks of a device load
\* its list, one adds a device, and the other's save replaces that list
\* (records.rs:599); or a sync replaces it by a newer one that had not heard of the
\* device (sync.rs:100).
AbsentStayListed ==
    [][\A x \in Others \cap (Listed \ Listed') :
           \E d \in Devices, t \in EditTasks : x \in edit[d][t].without /\ ~edit'[d][t].busy]_deviceVars
=============================================================================
