---------------------------- MODULE RecordEdits ----------------------------
(***************************************************************************)
(* Lists that are edited by loading them, changing them and saving them    *)
(* back: the capability index and the contact list of one identity.  A     *)
(* list is an object named by a pointer; a device reads the pointer in its *)
(* record file or, without one, looks further and keeps what it finds.     *)
(* Grants and revocations are edited in the daemon, contacts in the CLI,   *)
(* which loads the list in one call and saves it in another.  The contact  *)
(* list is also synced, by the 30-second task and by `canopee sync`, which *)
(* write the record file beside the commands.  Nothing locks it.           *)
(*                                                                         *)
(* Neither list is announced, so no device serves one: a list is read and  *)
(* fetched only from the store of the device that saved it.                *)
(***************************************************************************)
EXTENDS Naturals, Sequences, SequencesExt

CONSTANTS
    Null,
    Devices,      \* devices, the issuer's and those of others
    Own,          \* the devices of the issuer
    Callers,      \* commands and syncs run one after another, each caller on a device
    Home,         \* the device of a caller
    Offers,       \* what is granted: a subject, permissions and an expiry
    Cards,        \* contacts added: a name and a peer
    MaxClock,     \* bound: the clock
    MaxJobs       \* bound: commands and syncs run

ASSUME EditAssumption == Own \subseteq Devices /\ Home \in [Callers -> Devices]

\* What the lists hold, and the signed pointers that name them.
Caps ==
    [subject : {o.subject : o \in Offers}, permissions : {o.permissions : o \in Offers},
     issued : Nat, expires : {o.expires : o \in Offers}]

Grants == [cap : Caps, revoked : BOOLEAN]

Pointers ==
    [list : [entries : Seq(Cards) \cup Seq(Grants), version : Nat], at : Nat]

ASSUME NoPointerAssumption == Null \notin Pointers

VARIABLES
    list,         \* which of the two lists the run is about
    clock,        \* the clock, in unix seconds
    recordFile,   \* the record file of the list on each device
    pushed,       \* the pointer objects in each device's store
    lists,        \* the list objects in each device's store
    task,         \* the command or sync of each caller
    jobs,         \* bound counter
    due           \* history: the edits reported done that the record file of a
                  \* device is due to lead to

editVars == <<list, clock, recordFile, pushed, lists, task, jobs, due>>

-----------------------------------------------------------------------------
(* Capabilities.  The id is a digest of these fields; permissions are       *)
(* sorted first, so they are a set.                                         *)

Issue(offer) ==
    [subject |-> offer.subject, permissions |-> offer.permissions,
     issued |-> clock, expires |-> offer.expires]

is_active_at(cap, now) ==
    now >= cap.issued /\ (cap.expires = Null \/ now <= cap.expires)

\* The first entry with an id, or 0.
by_id(entries, id) == SelectInSeq(entries, LAMBDA e : e.cap = id)

\* An unrevoked, active grant, at the issuer.
find_active(entries, subject, permission, now) ==
    \E i \in DOMAIN entries :
        /\ ~entries[i].revoked
        /\ entries[i].cap.subject = subject
        /\ permission \in entries[i].cap.permissions
        /\ is_active_at(entries[i].cap, now)

-----------------------------------------------------------------------------
(* The lists as values.                                                     *)

Absent == [entries |-> <<>>, version |-> 0]

by_name(entries, name) == SelectInSeq(entries, LAMBDA e : e.name = name)

\* A grant appends, a revocation flags the first entry with the id, a contact
\* replaces the one of its name.
Change(entries, job) ==
    CASE job.op = "grant" -> Append(entries, [cap |-> job.cap, revoked |-> FALSE])
      [] job.op = "revoke" ->
            [entries EXCEPT ![by_id(entries, job.cap)].revoked = TRUE]
      [] job.op = "contact" ->
            IF by_name(entries, job.card.name) = 0
              THEN Append(entries, job.card)
              ELSE [entries EXCEPT ![by_name(entries, job.card.name)] = job.card]

\* What a device reads through its record file.
Current(d) ==
    IF recordFile[d] # Null /\ recordFile[d].list \in lists[d] THEN recordFile[d].list ELSE Absent

-----------------------------------------------------------------------------
(* Commands and syncs.                                                      *)

Idle == [step |-> "idle"]

EditsOf(kind) == IF kind = "contacts" THEN {"contact"} ELSE {"grant", "revoke"}

IsEdit(job) == job.op \in EditsOf(list)

Running(c) == task[c].step \notin {"idle", "done"}

\* The capabilities of the lists the issuer published: it was told of them, and
\* may have handed them over.
Known ==
    IF list = "contacts" THEN {}
    ELSE {e.cap : e \in UNION {ToSet(r.list.entries) : r \in UNION {pushed[d] : d \in Own}}}

\* The commands of the issuer, its syncs, and on any device the check of a
\* capability.
Commands(d) ==
    (CASE d \notin Own -> {}
       [] d \in Own /\ list = "contacts" ->
            {[op |-> "contact", card |-> k] : k \in Cards} \cup {[op |-> "sync"]}
       [] OTHER -> {[op |-> "grant", cap |-> Issue(o)] : o \in Offers}
                   \cup [op : {"revoke", "access"}, cap : Known])
    \cup [op : {"check"}, cap : Known]

\* A command starts by loading the list; a grant has stored the capability, and
\* a contact is added to the list the client holds.
Begin(c) ==
    /\ ~Running(c) /\ jobs < MaxJobs
    /\ \E job \in Commands(Home[c]) :
          task' = [task EXCEPT ![c] =
              [step |-> "look", saving |-> FALSE, job |-> job, found |-> Null,
               list |-> Absent, knew |-> Null]]
    /\ jobs' = jobs + 1
    /\ UNCHANGED <<list, clock, recordFile, pushed, lists, due>>

Newest(records) == {r \in records : \A q \in records : q.at <= r.at}

\* resolve_pointer: the record file, else the newest pushed pointer, else what
\* the DHT finds, which may be nothing.  What a command saves rests on its first
\* look; save_contact_list looks again.
LookUp(c) ==
    LET d == Home[c]
        t == [task[c] EXCEPT !.knew = IF task[c].saving THEN @ ELSE due]
        found == IF pushed[d] # {} THEN Newest(pushed[d]) ELSE UNION {pushed[o] : o \in Devices}
    IN  /\ task[c].step = "look" /\ task[c].job.op # "sync"
        /\ \/ /\ recordFile[d] # Null
              /\ task' = [task EXCEPT ![c] = [t EXCEPT !.step = "read", !.found = recordFile[d]]]
           \/ /\ recordFile[d] = Null
              /\ \E r \in found : task' = [task EXCEPT ![c] = [t EXCEPT !.step = "keep", !.found = r]]
           \/ /\ recordFile[d] = Null /\ pushed[d] = {}
              /\ task' = [task EXCEPT ![c] = [t EXCEPT !.step = "loaded"]]
        /\ UNCHANGED <<list, clock, recordFile, pushed, lists, jobs, due>>

\* A pointer is written over whatever the record file holds by now; where that
\* is another one, the file is due nothing any more.
PutInPlace(d, pointer) ==
    /\ recordFile' = [recordFile EXCEPT ![d] = pointer]
    /\ due' = [due EXCEPT ![d] = IF recordFile[d] = pointer THEN @ ELSE {}]

\* What was found is written to the record file.
KeepFound(c) ==
    /\ task[c].step = "keep"
    /\ PutInPlace(Home[c], task[c].found)
    /\ task' = [task EXCEPT ![c].step = "read"]
    /\ UNCHANGED <<list, clock, pushed, lists, jobs>>

\* Without the object, which no device serves, the capability index is absent.
\* The contact list is an error, which the client takes for an empty list and
\* save_contact_list does not.
Read(c) ==
    LET t == task[c]
        held == t.found.list \in lists[Home[c]]
    IN  /\ t.step = "read"
        /\ task' = [task EXCEPT ![c] =
              IF ~held /\ t.saving THEN Idle
              ELSE [t EXCEPT !.step = "loaded", !.list = IF held THEN t.found.list ELSE @]]
        /\ UNCHANGED <<list, clock, recordFile, pushed, lists, jobs, due>>

\* Mutant: revocation is looked up for the capabilities of others only.
CheckCapabilityOffline(entries, cap) == is_active_at(cap, clock)

\* check_capability: active, and not revoked in the list that was loaded.
CheckCapability(entries, cap) ==
    /\ is_active_at(cap, clock)
    /\ by_id(entries, cap) # 0 => ~entries[by_id(entries, cap)].revoked

\* A check of a capability, or check_access for a permission it grants.
AnswerCheck(c) ==
    LET t == task[c] IN
    /\ t.step = "loaded" /\ ~IsEdit(t.job)
    /\ \E p \in t.job.cap.permissions :
          task' = [task EXCEPT ![c] =
              [step |-> "done", job |-> t.job, knew |-> t.knew,
               yes |-> IF t.job.op = "check"
                         THEN CheckCapability(t.list.entries, t.job.cap)
                         ELSE find_active(t.list.entries, t.job.cap.subject, p, clock)]]
    /\ UNCHANGED <<list, clock, recordFile, pushed, lists, jobs, due>>

\* There is nothing to revoke.
NotIssued(c) ==
    LET t == task[c] IN
    /\ t.step = "loaded" /\ t.job.op = "revoke" /\ by_id(t.list.entries, t.job.cap) = 0
    /\ task' = [task EXCEPT ![c] = Idle]
    /\ UNCHANGED <<list, clock, recordFile, pushed, lists, jobs, due>>

\* The client sends its changed list; save_contact_list loads the list in force
\* first, for its version.
SendContacts(c) ==
    LET t == task[c] IN
    /\ t.step = "loaded" /\ t.job.op = "contact" /\ ~t.saving
    /\ task' = [task EXCEPT ![c] =
          [t EXCEPT !.step = "look", !.saving = TRUE, !.list = Absent,
                    !.job = [op |-> "contact", card |-> t.job.card,
                             sent |-> Change(t.list.entries, t.job)]]]
    /\ UNCHANGED <<list, clock, recordFile, pushed, lists, jobs, due>>

\* Mutant: the list in force is asked for its version only.
SavedAlone(t) ==
    [entries |-> IF t.saving THEN <<t.job.card>>
                 ELSE IF t.job.op = "grant" THEN Change(<<>>, t.job)
                 ELSE Change(t.list.entries, t.job),
     version |-> t.list.version + 1]

\* The new list.
Saved(t) ==
    [entries |-> IF t.saving THEN t.job.sent ELSE Change(t.list.entries, t.job),
     version |-> t.list.version + 1]

\* The new list is stored and a pointer to it signed.
Save(c) ==
    LET t == task[c] IN
    /\ t.step = "loaded" /\ IsEdit(t.job)
    /\ t.job.op = "contact" => t.saving
    /\ t.job.op = "revoke" => by_id(t.list.entries, t.job.cap) # 0
    /\ lists' = [lists EXCEPT ![Home[c]] = @ \cup {Saved(t)}]
    /\ task' = [task EXCEPT ![c].step = "publish", ![c].found = [list |-> Saved(t), at |-> clock]]
    /\ UNCHANGED <<list, clock, recordFile, pushed, jobs, due>>

\* The record file is written and the pointer pushed to the devices in reach.  It
\* is due to lead to what the writer knew and its edit: the last writer wins.
Publish(c) ==
    LET t == task[c]
        d == Home[c]
        replaced == IF list = "contacts" THEN {a \in t.knew[d] : a.card.name = t.job.card.name} ELSE {}
        done == IF list = "contacts" THEN [op |-> "contact", card |-> t.job.card] ELSE t.job
    IN  /\ t.step = "publish"
        /\ recordFile' = [recordFile EXCEPT ![d] = t.found]
        /\ \E reached \in SUBSET (Devices \ {d}) :
              pushed' = [o \in Devices |->
                  IF o \in reached \cup {d} THEN pushed[o] \cup {t.found} ELSE pushed[o]]
        /\ due' = [due EXCEPT ![d] = (t.knew[d] \ replaced) \cup {done}]
        /\ task' = [task EXCEPT ![c] = Idle]
        /\ UNCHANGED <<list, clock, lists, jobs>>

-----------------------------------------------------------------------------
(* sync_record, of the contact list.                                        *)

\* The record file is read.
ReadLocal(c) ==
    /\ task[c].step = "look" /\ task[c].job.op = "sync"
    /\ task' = [task EXCEPT ![c].step = "scan", ![c].found = recordFile[Home[c]]]
    /\ UNCHANGED <<list, clock, recordFile, pushed, lists, jobs, due>>

\* The newest pushed pointer if it is newer than what was read, else what the DHT
\* finds if that is newer, which may be nothing.
Scan(c) ==
    LET d == Home[c]
        newer(records) == {r \in records : task[c].found = Null \/ r.at > task[c].found.at}
        scanned == newer(Newest(pushed[d]))
        found == IF scanned # {} THEN scanned ELSE newer(UNION {pushed[o] : o \in Devices})
    IN  /\ task[c].step = "scan"
        /\ \/ \E r \in found : task' = [task EXCEPT ![c].step = "fetch", ![c].found = r]
           \/ scanned = {} /\ task' = [task EXCEPT ![c] = Idle]
        /\ UNCHANGED <<list, clock, recordFile, pushed, lists, jobs, due>>

\* cache_record, with the object in the store; else the fetch fails, which ends
\* the sync.
FetchAndCache(c) ==
    LET t == task[c]
        d == Home[c]
    IN  /\ t.step = "fetch"
        /\ IF t.found.list \in lists[d] THEN PutInPlace(d, t.found)
           ELSE UNCHANGED <<recordFile, due>>
        /\ task' = [task EXCEPT ![c] = Idle]
        /\ UNCHANGED <<list, clock, pushed, lists, jobs>>

ClockTicks ==
    /\ clock < MaxClock /\ clock' = clock + 1
    /\ UNCHANGED <<list, recordFile, pushed, lists, task, jobs, due>>

-----------------------------------------------------------------------------
EditInit ==
    /\ list \in {"capabilities", "contacts"}
    /\ clock = 1
    /\ recordFile = [d \in Devices |-> Null]
    /\ pushed = [d \in Devices |-> {}]
    /\ lists = [d \in Devices |-> {}]
    /\ task = [c \in Callers |-> Idle]
    /\ jobs = 0
    /\ due = [d \in Devices |-> {}]

EditNext ==
    \/ \E c \in Callers :
        \/ Begin(c) \/ LookUp(c) \/ KeepFound(c) \/ Read(c) \/ AnswerCheck(c)
        \/ NotIssued(c) \/ SendContacts(c) \/ Save(c) \/ Publish(c)
        \/ ReadLocal(c) \/ Scan(c) \/ FetchAndCache(c)
    \/ ClockTicks

EditSpec == EditInit /\ [][EditNext]_editVars

-----------------------------------------------------------------------------
(* Properties.                                                              *)

\* An edit is in the list a device reads.
Stands(entries, edit) ==
    CASE edit.op = "grant" -> by_id(entries, edit.cap) # 0
      [] edit.op = "revoke" ->
            by_id(entries, edit.cap) # 0 /\ entries[by_id(entries, edit.cap)].revoked
      [] edit.op = "contact" -> edit.card \in ToSet(entries)

\* Commands and syncs of one device cross in any order, with no lock
\* (capabilities.rs:25, sharing.rs:197, sync.rs:95): an edit that was reported
\* done is in the list the device reads, until a command is reported that looked
\* the list up before the edit was published, or a look-up or a sync puts another
\* pointer in the record file.  A load that finds another device's pointer, no
\* object or a second version loses nothing else.
EditsStand ==
    \A d \in Devices : \A edit \in due[d] : Stands(Current(d).entries, edit)

\* A check on the issuer's device refuses a capability whose revocation the
\* record file was due to lead to when the check looked it up.
RevokedIsRefused ==
    \A c \in Callers :
        /\ task[c].step = "done" /\ task[c].job.op = "check"
        /\ [op |-> "revoke", cap |-> task[c].job.cap] \in task[c].knew[Home[c]]
        => ~task[c].yes

\* False: a check on any device that looks the list up after a revocation refuses
\* the capability.
\* (docs/reference/capabilities.md:57: "a revoked grant stops being honored").
RevocationsReachOthers ==
    \A c \in Callers :
        /\ task[c].step = "done" /\ task[c].job.op = "check"
        /\ \E d \in Own : [op |-> "revoke", cap |-> task[c].job.cap] \in task[c].knew[d]
        => ~task[c].yes

\* False: once the one capability a subject was granted is revoked, the issuer's
\* own check denies access.
DeniedAfterRevoke ==
    \A c \in Callers :
        /\ task[c].step = "done" /\ task[c].job.op = "access"
        /\ [op |-> "revoke", cap |-> task[c].job.cap] \in task[c].knew[Home[c]]
        /\ \A e \in ToSet(Current(Home[c]).entries) : e.cap = task[c].job.cap
        => ~task[c].yes
=============================================================================
