---------------------------- MODULE DaemonCalls ----------------------------
(***************************************************************************)
(* Daemons, the socket they share and the calls made over it.  `canopee    *)
(* start` asks whether a daemon answers at the socket and, if none does,   *)
(* spawns one, which opens its runtime, removes a socket file it finds and *)
(* binds its own.  A client sends one command on a connection of its own,  *)
(* and takes the reply it expects for success, an Error for failure and    *)
(* any other for unexpected.  Shutdown is answered first; then the daemon  *)
(* aborts its handlers, removes the socket file and exits.  A daemon that  *)
(* is killed leaves the file.                                              *)
(*                                                                         *)
(* What a command does is in the other modules: here it is done, or it     *)
(* fails.  `subscribe` has TopicStreams.                                   *)
(***************************************************************************)
EXTENDS Naturals, FiniteSets

CONSTANTS
    NoDaemon,      \* no socket file
    Daemons,       \* the processes that may be spawned
    Callers,
    Menu,          \* the commands a caller sends
    MaxCalls,      \* bound: calls of one caller
    MaxStarts,     \* bound: `canopee start`
    Kills          \* bound: daemons killed

-----------------------------------------------------------------------------
(* Commands and replies.                                                    *)

\* The entries of two tables; TLC's @@ is closed to the prover.
Joined(f, g) ==
    [x \in DOMAIN f \cup DOMAIN g |-> IF x \in DOMAIN f THEN f[x] ELSE g[x]]

\* The replies `handle` gives to a success, by section of the enum.
StorageReplies ==
    [Put |-> "ObjectCreated", Concat |-> "Concatenated",
     SetName |-> "NameSet", Get |-> "Object", List |-> "Objects",
     DeleteObject |-> "ObjectDeleted", Status |-> "Status",
     Identity |-> "Identity", Export |-> "Exported", Import |-> "Imported",
     Shutdown |-> "ShutdownAccepted"]

NetworkReplies ==
    [Dial |-> "Dialed", ListenViaRelay |-> "ListeningViaRelay",
     Publish |-> "Published", Peers |-> "Peers",
     RelayReservations |-> "RelayReservations", FindProviders |-> "Providers",
     FetchObject |-> "Exported", Announce |-> "Announced",
     PutObject |-> "ObjectCreated"]

RecordReplies ==
    [PublishAppPointer |-> "AppPointerPublished",
     ResolveAppPointer |-> "AppPointer",
     PublishPointer |-> "PointerPublished", ResolvePointer |-> "Pointer",
     SaveProfile |-> "ProfileSaved", LoadProfile |-> "Profile",
     SaveContactList |-> "ContactListSaved",
     LoadContactList |-> "ContactList", SaveHomeIndex |-> "HomeIndexSaved",
     LoadHomeIndex |-> "HomeIndex", SetHomeEntryShared |-> "HomeIndexSaved",
     DhPublicKey |-> "DhPublicKey", PutObjectPublic |-> "ObjectCreated",
     ShareObject |-> "HomeIndexSaved"]

IdentityReplies ==
    [ClaimUsername |-> "UsernameClaimed", ResolveUsername |-> "UsernameOwner",
     ResolveProfile |-> "Profile", ShowUsername |-> "Username",
     ExportIdentity |-> "IdentityExported",
     ImportIdentity |-> "IdentityImported", Device |-> "Device",
     DeviceList |-> "DeviceList", ResolveOwnerDevice |-> "OwnerDevice",
     AddDevice |-> "DeviceAdded", RemoveDevice |-> "DeviceRemoved"]

SessionReplies ==
    [InitiatePairing |-> "PairingQr", CompletePairing |-> "PairingComplete",
     SyncFromPeer |-> "SyncComplete", SyncDeviceList |-> "SyncComplete",
     GrantCapability |-> "CapabilityGranted",
     ListCapabilities |-> "Capabilities",
     RevokeCapability |-> "CapabilityRevoked",
     CheckCapability |-> "CapabilityCheck", CheckAccess |-> "AccessAllowed",
     StartServeSession |-> "ServeSessionStarted",
     StopServeSession |-> "ServeSessionStopped"]

NodeReplies ==
    Joined(StorageReplies, Joined(NetworkReplies,
        Joined(RecordReplies, Joined(IdentityReplies, SessionReplies))))

\* The enum both ends serialise, and the commands that cannot fail.
NodeCommand == DOMAIN NodeReplies

Infallible == {"Identity", "Status", "Shutdown", "DhPublicKey", "Device",
               "StopServeSession"}

\* The commands the methods of the SDK take each reply to answer.
ObjectMethods ==
    [Status |-> {"Status"}, Identity |-> {"Identity"},
     IdentityExported |-> {"ExportIdentity"},
     IdentityImported |-> {"ImportIdentity"},
     ObjectCreated |-> {"Put", "PutObject", "PutObjectPublic"},
     NameSet |-> {"SetName"}, DhPublicKey |-> {"DhPublicKey"},
     Object |-> {"Get"}, Objects |-> {"List"}, Exported |-> {"Export", "FetchObject"},
     Imported |-> {"Import"}, Concatenated |-> {"Concat"},
     ObjectDeleted |-> {"DeleteObject"}]

NetworkMethods ==
    [Peers |-> {"Peers"}, Dialed |-> {"Dial"},
     ListeningViaRelay |-> {"ListenViaRelay"},
     RelayReservations |-> {"RelayReservations"}, Announced |-> {"Announce"},
     Providers |-> {"FindProviders"}, AppPointerPublished |-> {"PublishAppPointer"},
     AppPointer |-> {"ResolveAppPointer"}, PointerPublished |-> {"PublishPointer"},
     Pointer |-> {"ResolvePointer"}]

UserMethods ==
    [ProfileSaved |-> {"SaveProfile"}, Profile |-> {"LoadProfile", "ResolveProfile"},
     UsernameClaimed |-> {"ClaimUsername"}, Username |-> {"ShowUsername"},
     ServeSessionStarted |-> {"StartServeSession"},
     ServeSessionStopped |-> {"StopServeSession"}, Device |-> {"Device"},
     DeviceList |-> {"DeviceList"}, DeviceAdded |-> {"AddDevice"},
     DeviceRemoved |-> {"RemoveDevice"}, OwnerDevice |-> {"ResolveOwnerDevice"},
     UsernameOwner |-> {"ResolveUsername"}]

SyncMethods ==
    [PairingQr |-> {"InitiatePairing"}, PairingComplete |-> {"CompletePairing"},
     SyncComplete |-> {"SyncFromPeer", "SyncDeviceList"},
     ContactListSaved |-> {"SaveContactList"}, ContactList |-> {"LoadContactList"},
     HomeIndexSaved |-> {"SaveHomeIndex", "SetHomeEntryShared", "ShareObject"},
     HomeIndex |-> {"LoadHomeIndex"}]

CapabilityMethods ==
    [CapabilityGranted |-> {"GrantCapability"}, Capabilities |-> {"ListCapabilities"},
     CapabilityRevoked |-> {"RevokeCapability"},
     CapabilityCheck |-> {"CheckCapability"}, AccessAllowed |-> {"CheckAccess"},
     Published |-> {"Publish"}, ShutdownAccepted |-> {"Shutdown"}]

Methods ==
    Joined(ObjectMethods, Joined(NetworkMethods,
        Joined(UserMethods, Joined(SyncMethods, CapabilityMethods))))

\* `unexpected`: an Error is a failure, every other reply is not understood.
Understood(cmd, reply) ==
    IF reply = "Error" THEN "error"
    ELSE IF reply \in DOMAIN Methods /\ cmd \in Methods[reply] THEN "ok"
    ELSE "unexpected"

ASSUME CallsAssumption ==
    /\ Menu \in [Callers -> SUBSET NodeCommand]
    /\ MaxCalls \in Nat /\ MaxStarts \in Nat /\ Kills \in Nat
    /\ NoDaemon \notin Daemons
    /\ IsFiniteSet(Daemons)

-----------------------------------------------------------------------------
VARIABLES
    daemon,    \* the stage of each process
    socket,    \* whose listener the socket file leads to
    checked,   \* `canopee start`s that have found no daemon, before they spawn
    call,      \* what each caller is waiting for
    made,      \* how many calls it has made
    begun,     \* starts so far
    killed,    \* kills so far
    raced      \* two starts have overlapped

boundVars == <<made, begun, killed>>
callVars == <<daemon, socket, checked, call, boundVars, raced>>

NoCall == [at |-> "idle", by |-> NoDaemon, cmd |-> "none", reply |-> "none",
           did |-> FALSE]

CallInit ==
    /\ daemon = [d \in Daemons |-> "unborn"]
    /\ socket = NoDaemon
    /\ checked = 0
    /\ call = [c \in Callers |-> NoCall]
    /\ made = [c \in Callers |-> 0] /\ begun = 0 /\ killed = 0
    /\ raced = FALSE

\* A connection to the socket succeeds as long as the listener is there.
HasListener(d) == daemon[d] \in {"listening", "stopping", "unlinked"}

Answers == socket # NoDaemon /\ HasListener(socket)

Rising == {d \in Daemons : daemon[d] \in {"opening", "found", "binding"}}

Pending(d) == {c \in Callers : call[c].by = d
                   /\ call[c].at \in {"queued", "reading", "running", "replying"}}

Handled(d) == {c \in Pending(d) : call[c].at # "queued"}

\* What the callers of `cs` get when their connection ends without a reply.
Fail(cs) == [c \in Callers |-> IF c \in cs
                               THEN [call[c] EXCEPT !.at = "settled",
                                                    !.reply = "lost"]
                               ELSE call[c]]

-----------------------------------------------------------------------------
(* Daemons.                                                                 *)

\* `canopee start`: refused while a daemon answers.
CheckStart ==
    /\ begun < MaxStarts /\ begun' = begun + 1
    /\ IF Answers THEN UNCHANGED <<checked, raced>>
       ELSE /\ checked' = checked + 1
            /\ raced' = (raced \/ checked > 0 \/ Rising # {})
    /\ UNCHANGED <<daemon, socket, call, made, killed>>

SpawnNode ==
    /\ checked > 0 /\ checked' = checked - 1
    /\ \E d \in Daemons :
        /\ daemon[d] = "unborn"
        /\ daemon' = [daemon EXCEPT ![d] = "opening"]
    /\ UNCHANGED <<socket, call, boundVars, raced>>

Becomes(d, stage) == daemon' = [daemon EXCEPT ![d] = stage]

\* The runtime opens, or does not; then the file is looked for.
OpenNode(d) ==
    /\ daemon[d] = "opening"
    /\ daemon' \in {[daemon EXCEPT ![d] = "gone"],
                    [daemon EXCEPT ![d] = IF socket = NoDaemon THEN "binding"
                                          ELSE "found"]}
    /\ UNCHANGED <<socket, checked, call, boundVars, raced>>

\* A file that has gone in between is an error.
RemoveStale(d) ==
    /\ daemon[d] = "found"
    /\ Becomes(d, IF socket = NoDaemon THEN "gone" ELSE "binding")
    /\ socket' = NoDaemon
    /\ UNCHANGED <<checked, call, boundVars, raced>>

\* A file that has come in between makes bind fail.
Bind(d) ==
    /\ daemon[d] = "binding"
    /\ IF socket = NoDaemon
       THEN socket' = d /\ Becomes(d, "listening")
       ELSE Becomes(d, "gone") /\ UNCHANGED socket
    /\ UNCHANGED <<checked, call, boundVars, raced>>

\* abort_all: every handler that is left is dropped where it waits.
AbortCalls(d) ==
    /\ daemon[d] = "stopping"
    /\ Handled(d) # {}
    /\ call' = Fail(Handled(d))
    /\ UNCHANGED <<daemon, socket, checked, boundVars, raced>>

\* Mutant: the listener is dropped first.
CloseFirst(d) ==
    /\ daemon[d] = "stopping" /\ Handled(d) = {}
    /\ Becomes(d, "closed")
    /\ call' = Fail(Pending(d))
    /\ UNCHANGED <<socket, checked, boundVars, raced>>

\* Mutant: and the file removed when nobody listens at it any more.
UnlinkLast(d) ==
    /\ daemon[d] = "closed"
    /\ Becomes(d, "gone")
    /\ socket' = NoDaemon
    /\ UNCHANGED <<checked, call, boundVars, raced>>

\* Mutant: both, in this order.
UnlinkAfterClose(d) == CloseFirst(d) \/ UnlinkLast(d)

\* The file is removed, whoever's it is by now.
Unlink(d) ==
    /\ daemon[d] = "stopping" /\ Handled(d) = {}
    /\ Becomes(d, "unlinked")
    /\ socket' = NoDaemon
    /\ UNCHANGED <<checked, call, boundVars, raced>>

\* Mutant: a task that is not joined still owns the listener.
ExitKeeping(d) ==
    /\ daemon[d] = "unlinked"
    /\ Becomes(d, "gone")
    /\ UNCHANGED <<socket, checked, call, boundVars, raced>>

\* `run` returns and drops the listener with what waits in its queue.
Exit(d) ==
    /\ daemon[d] = "unlinked"
    /\ Becomes(d, "gone")
    /\ call' = Fail(Pending(d))
    /\ UNCHANGED <<socket, checked, boundVars, raced>>

Kill(d) ==
    /\ killed < Kills /\ killed' = killed + 1
    /\ daemon[d] \notin {"unborn", "gone"}
    /\ Becomes(d, "gone")
    /\ call' = Fail(Pending(d))
    /\ UNCHANGED <<socket, checked, made, begun, raced>>

-----------------------------------------------------------------------------
(* Calls.                                                                   *)

\* is_running and the connection of the request.
Request(c) ==
    /\ call[c].at \in {"idle", "settled"}
    /\ made[c] < MaxCalls /\ made' = [made EXCEPT ![c] = @ + 1]
    /\ \E cmd \in Menu[c] :
        call' = [call EXCEPT ![c] =
            IF Answers THEN [NoCall EXCEPT !.at = "queued", !.by = socket,
                                           !.cmd = cmd]
            ELSE [NoCall EXCEPT !.at = "settled", !.reply = "lost"]]
    /\ UNCHANGED <<daemon, socket, checked, begun, killed, raced>>

AcceptCall(c) ==
    /\ call[c].at = "queued" /\ daemon[call[c].by] = "listening"
    /\ call' = [call EXCEPT ![c].at = "reading"]
    /\ UNCHANGED <<daemon, socket, checked, boundVars, raced>>

\* The runtime does it, in its own time; a handler that is aborted may have
\* done it as well.
Handle(c) ==
    /\ call[c].at = "reading"
    /\ call' = [call EXCEPT ![c].at = "running", ![c].did = TRUE]
    /\ UNCHANGED <<daemon, socket, checked, boundVars, raced>>

\* Mutant: a failure is logged and answered like a success.
ReplyAnyway(c) ==
    /\ call[c].at \in {"reading", "running"}
    /\ call' = [call EXCEPT ![c].at = "replying",
                            ![c].reply = NodeReplies[call[c].cmd]]
    /\ UNCHANGED <<daemon, socket, checked, boundVars, raced>>

Reply(c) ==
    /\ \/ /\ call[c].at = "running"
          /\ call' = [call EXCEPT ![c].at = "replying",
                                  ![c].reply = NodeReplies[call[c].cmd]]
       \/ /\ call[c].at \in {"reading", "running"}
          /\ call[c].cmd \notin Infallible
          /\ call' = [call EXCEPT ![c].at = "replying", ![c].reply = "Error"]
    /\ UNCHANGED <<daemon, socket, checked, boundVars, raced>>

\* write_response; then Shutdown signals the accept loop.
Settle(c) ==
    /\ call[c].at = "replying"
    /\ call' = [call EXCEPT ![c].at = "settled"]
    /\ IF call[c].cmd = "Shutdown" /\ daemon[call[c].by] = "listening"
       THEN Becomes(call[c].by, "stopping")
       ELSE UNCHANGED daemon
    /\ UNCHANGED <<socket, checked, boundVars, raced>>

CallNext ==
    \/ CheckStart \/ SpawnNode
    \/ \E d \in Daemons :
        \/ OpenNode(d) \/ RemoveStale(d) \/ Bind(d)
        \/ AbortCalls(d) \/ Unlink(d) \/ Exit(d) \/ Kill(d)
    \/ \E c \in Callers :
        \/ Request(c) \/ AcceptCall(c) \/ Handle(c) \/ Reply(c) \/ Settle(c)

\* Tasks that are ready are run, and every command of the runtime ends.
CallFairness ==
    /\ \A d \in Daemons : WF_callVars(AbortCalls(d) \/ Unlink(d) \/ Exit(d))
    /\ \A c \in Callers :
        WF_callVars(AcceptCall(c) \/ Handle(c) \/ Reply(c) \/ Settle(c))

CallSpec == CallInit /\ [][CallNext]_callVars /\ CallFairness

-----------------------------------------------------------------------------
(* Properties.                                                              *)

\* Whatever is shut down, killed or aborted on the way, a client whose call
\* succeeds has had its command carried out, and no command that was carried
\* out is answered with a reply its method does not take.
AnswersAreUnderstood ==
    \A c \in Callers :
        (call[c].at = "settled" /\ call[c].reply # "lost") =>
            /\ Understood(call[c].cmd, call[c].reply) \in {"ok", "error"}
            /\ Understood(call[c].cmd, call[c].reply) = "ok" => call[c].did

\* The socket works as a lock for starts that do not overlap: at most one
\* daemon has a listener beside those whose file is gone, and the one that
\* listens is reached through the socket, through every stop, kill and restart.
SocketLeadsToDaemon ==
    ~raced =>
        \A d \in Daemons :
            /\ daemon[d] = "listening" => socket = d
            /\ HasListener(d) => \A e \in Daemons :
                   (HasListener(e) /\ e # d) =>
                       "unlinked" \in {daemon[d], daemon[e]}

\* A call comes back, and a daemon that has answered Shutdown goes.
CallsComeBack ==
    /\ \A c \in Callers : (call[c].at = "queued") ~> (call[c].at = "settled")
    /\ \A d \in Daemons : (daemon[d] = "stopping") ~> (daemon[d] = "gone")

\* daemon.rs:62: `start` refuses "to start a second daemon on the same app root:
\* the socket is the lock".
SocketIsTheLock ==
    Cardinality({d \in Daemons : daemon[d] = "listening"}) <= 1

\* daemon.rs:124: when the reply is there "Canopee node stopped" is printed.
StoppedIsGone ==
    \A c \in Callers :
        (call[c].at = "settled" /\ call[c].cmd = "Shutdown"
            /\ call[c].reply = "ShutdownAccepted") => daemon[call[c].by] = "gone"
=============================================================================
