----------------------------- MODULE AppRelease -----------------------------
(***************************************************************************)
(* An app from a directory on the publisher's disk to a browser elsewhere. *)
(* `canopee publish` and `canopee app-manifest` upload every file, store a *)
(* manifest that names them, announce all of it and point a name at the    *)
(* manifest; `publish` then pins the files in a serve session.  `canopee   *)
(* open` and `canopee handle` resolve a name or take an id, fetch the      *)
(* manifest, the entrypoint and then all the assets at once, and serve     *)
(* them.  Every command is a sequence of requests to a daemon; on the      *)
(* publisher other commands delete objects and the daemon restarts, on the *)
(* reader the cache sweep evicts.                                          *)
(*                                                                         *)
(* An object is its content and the second it was created in: the same     *)
(* bytes stored twice in one second are one object.  A fetch of the node   *)
(* goes to whoever holds the object, here the publisher.  When an open     *)
(* fails its other fetches end with it.  Whether the DHT knows a provider  *)
(* is left open: an announcement may have failed, or expired.              *)
(***************************************************************************)
EXTENDS Naturals, FiniteSets

CONSTANTS
    Nil,           \* no object, no content
    AssetPaths,    \* the paths a directory can have beside index.html
    Data,          \* file contents
    Directories,   \* what the publisher has on disk
    MaxSecond,     \* bound: seconds that pass
    Events         \* bound: releases, evictions, deletions and restarts

\* A map of paths with one more path, unless it has it already.
WithPath(files, path, file) ==
    [p \in DOMAIN files \cup {path} |-> IF p \in DOMAIN files THEN files[p] ELSE file]

FilesOf(dir) == {n \in DOMAIN dir.files : dir.files[n] # Nil}

ASSUME DirectoriesAssumption ==
    \A dir \in Directories :
        /\ dir.files \in [AssetPaths \cup {"index"} -> Data \cup {Nil}]
        /\ dir.refs \subseteq AssetPaths \cup {"/"}

ASSUME AppBounds == MaxSecond \in Nat /\ Events \in Nat

ReleaseCommands == {"publish", "app-manifest"}

\* The pointer a command writes.  `open` and `handle` resolve the plain name.
PointerName(command) ==
    IF command = "publish" THEN "app:name" ELSE "name"

PointerNames == {"name", "app:name"}

\* The objects an app is made of.
Parts(manifest) ==
    {manifest, manifest.entry}
        \cup {manifest.assets[p] : p \in DOMAIN manifest.assets}

VARIABLES
    second,     \* the publisher's clock
    held,       \* the publisher's store
    shared,     \* the objects it serves
    pointer,    \* name -> manifest, in the DHT
    release,    \* the command under way
    pinned,     \* the files of the serve session: path -> object
    store,      \* the reader's store
    opened,     \* the open under way
    left,       \* what the bound leaves
    spoiled        \* an object was lost, or the publisher's memory

publisherVars == <<second, held, shared, pointer, release, pinned>>
readerVars == <<store, opened>>
budgetVars == <<left, spoiled>>
appVars == <<publisherVars, readerVars, budgetVars>>

NoRelease ==
    [phase |-> "idle", command |-> Nil, dir |-> Nil, up |-> <<>>,
     manifest |-> Nil, todo |-> {}]

NotOpened ==
    [phase |-> "closed", why |-> Nil, target |-> Nil, task |-> <<>>,
     files |-> <<>>]

AppInit ==
    /\ second = 0
    /\ held = {} /\ shared = {}
    /\ pointer = [k \in PointerNames |-> Nil]
    /\ release = NoRelease
    /\ pinned = Nil
    /\ store = {}
    /\ opened = NotOpened
    /\ left = Events /\ spoiled = FALSE

-----------------------------------------------------------------------------
(* The publisher.                                                           *)

\* The clock is read only while objects are made.
SecondPasses ==
    /\ release.phase = "uploading"
    /\ second < MaxSecond
    /\ second' = second + 1
    /\ UNCHANGED <<held, shared, pointer, release, pinned,
                   readerVars, budgetVars>>

BeginRelease ==
    /\ release.phase \in {"idle", "done", "failed"}
    /\ left > 0 /\ left' = left - 1
    /\ \E command \in ReleaseCommands, dir \in Directories :
        release' = [NoRelease EXCEPT !.phase = "uploading",
                                     !.command = command, !.dir = dir]
    /\ pinned' = Nil
    /\ UNCHANGED <<second, held, shared, pointer, readerVars, spoiled>>

\* The order in which the directory is walked, and the manifest's map.
First(names) == CHOOSE n \in names : TRUE

\* put_public_file: stored as it is, so that an edge can serve it.
Upload ==
    /\ release.phase = "uploading"
    /\ LET missing == FilesOf(release.dir) \ DOMAIN release.up
           n == First(missing)
           object == [data |-> release.dir.files[n], at |-> second]
       IN  /\ missing # {}
           /\ release' = [release EXCEPT !.up = WithPath(@, n, object)]
           /\ held' = held \cup {object}
    /\ UNCHANGED <<second, shared, pointer, pinned, readerVars, budgetVars>>

\* There must be an index.html, and every path it names among the assets.
Complete(dir) ==
    /\ dir.files["index"] # Nil
    /\ dir.refs \subseteq FilesOf(dir)

\* The manifest is stored last, naming the objects the uploads returned.
Seal ==
    /\ release.phase = "uploading"
    /\ DOMAIN release.up = FilesOf(release.dir)
    /\ IF Complete(release.dir)
       THEN LET manifest == [entry |-> release.up["index"],
                             assets |-> [p \in DOMAIN release.up \ {"index"}
                                            |-> release.up[p]],
                             at |-> second]
            IN  /\ held' = held \cup {manifest}
                /\ release' = [release EXCEPT !.phase = "announcing",
                                              !.manifest = manifest,
                                              !.todo = Parts(manifest)]
       ELSE release' = [release EXCEPT !.phase = "failed"] /\ UNCHANGED held
    /\ UNCHANGED <<second, shared, pointer, pinned, readerVars, budgetVars>>

\* The manifest is announced first, then the entrypoint, then the assets.  The
\* daemon serves the object even when the DHT refuses the announcement: then
\* `publish` warns and goes on, `app-manifest` ends.
AnnouncePart ==
    /\ release.phase = "announcing"
    /\ LET todo == release.todo
           object == IF release.manifest \in todo THEN release.manifest
                     ELSE IF release.manifest.entry \in todo
                          THEN release.manifest.entry
                          ELSE First(todo)
       IN  /\ todo # {}
           /\ shared' = shared \cup {object}
           /\ \/ release' = [release EXCEPT !.todo = @ \ {object}]
              \/ /\ release.command = "app-manifest"
                 /\ release' = [release EXCEPT !.phase = "failed"]
    /\ UNCHANGED <<second, held, pointer, pinned, readerVars, budgetVars>>

\* Mutant: the name is moved as soon as the manifest is stored.
PointAtOnce ==
    /\ release.phase = "announcing"
    /\ pointer' = [pointer EXCEPT ![PointerName(release.command)] =
                                      release.manifest]
    /\ release' = [release EXCEPT !.phase = "serving"]
    /\ UNCHANGED <<second, held, shared, pinned, readerVars, budgetVars>>

\* Best effort for `publish`, which goes on to the serve session.
Point ==
    /\ release.phase = "announcing"
    /\ release.todo = {}
    /\ \/ /\ pointer' = [pointer EXCEPT ![PointerName(release.command)] =
                                            release.manifest]
          /\ release' = [release EXCEPT !.phase =
                            IF release.command = "publish" THEN "serving"
                            ELSE "done"]
       \/ /\ release' = [release EXCEPT !.phase =
                            IF release.command = "publish" THEN "serving"
                            ELSE "failed"]
          /\ UNCHANGED pointer
    /\ UNCHANGED <<second, held, shared, pinned, readerVars, budgetVars>>

\* load_app_files: the manifest must be held and served and the entrypoint
\* held; an asset that is missing is left out.  AppPublishing goes on with the
\* registration.
PinFiles ==
    /\ release.phase = "serving"
    /\ LET manifest == release.manifest IN
       IF manifest \in held \cap shared /\ manifest.entry \in held
       THEN /\ release' = [release EXCEPT !.phase = "done"]
            /\ pinned' = WithPath([p \in {q \in DOMAIN manifest.assets :
                                             manifest.assets[q] \in held}
                                      |-> manifest.assets[p]],
                                  "/", manifest.entry)
       ELSE /\ release' = [release EXCEPT !.phase = "failed"]
            /\ UNCHANGED pinned
    /\ UNCHANGED <<second, held, shared, pointer, readerVars, budgetVars>>

\* `canopee delete` of an object of the app.
DeletePart ==
    /\ left > 0 /\ left' = left - 1 /\ spoiled' = TRUE
    /\ \E object \in held :
        /\ held' = held \ {object}
        /\ shared' = shared \ {object}
    /\ UNCHANGED <<second, pointer, release, pinned, readerVars>>

\* Nothing but the home index says what to serve after a restart, and the
\* objects of an app are not in it.
RestartPublisher ==
    /\ left > 0 /\ left' = left - 1 /\ spoiled' = TRUE
    /\ shared' = {}
    /\ pinned' = Nil
    /\ release' = IF release.phase \in {"idle", "done", "failed"} THEN release
                  ELSE [release EXCEPT !.phase = "failed"]
    /\ UNCHANGED <<second, held, pointer, readerVars>>

-----------------------------------------------------------------------------
(* The reader: get_or_fetch of each object is a task.                       *)

Task(at, last) == [at |-> at, last |-> last]

Start(slots) == [slot \in slots |-> Task("get", FALSE)]

Fetching == opened.phase \in {"manifest", "entry", "assets"}

Opening(target) ==
    opened' = [NotOpened EXCEPT !.phase = "manifest", !.target = target,
                                !.task = Start({"manifest"})]

Failed(why) == opened' = [NotOpened EXCEPT !.phase = "failed", !.why = why]

\* `open --owner --name` and `handle`: the pointer is asked of the DHT.
OpenByName ==
    /\ ~Fetching
    /\ IF pointer["name"] = Nil THEN Failed("no pointer")
       ELSE Opening(pointer["name"])
    /\ UNCHANGED <<publisherVars, store, budgetVars>>

\* `open <id>`, with the id a command printed.
OpenById ==
    /\ ~Fetching
    /\ release.phase = "done"
    /\ Opening(release.manifest)
    /\ UNCHANGED <<publisherVars, store, budgetVars>>

Slots == {"manifest", "entry"} \cup AssetPaths

ObjectOf(slot) ==
    CASE slot = "manifest" -> opened.target
      [] slot = "entry"    -> opened.target.entry
      [] OTHER             -> opened.target.assets[slot]

At(slot, at) ==
    /\ Fetching
    /\ slot \in DOMAIN opened.task
    /\ opened.task[slot].at = at

Goto(slot, at) == opened' = [opened EXCEPT !.task[slot].at = at]

Served(object) == object \in held \cap shared

\* The node's own get fails: the client goes on to look for providers, once.
Missed(slot, why) ==
    IF opened.task[slot].last THEN Failed(why) ELSE Goto(slot, "providers")

Get(slot) ==
    /\ At(slot, "get")
    /\ Goto(slot, IF ObjectOf(slot) \in store THEN "done" ELSE "pull")
    /\ UNCHANGED <<publisherVars, store, budgetVars>>

\* fetch_object: from a connected peer or a provider, or from nobody.
Pull(slot) ==
    /\ At(slot, "pull")
    /\ \/ Served(ObjectOf(slot)) /\ Goto(slot, "check")
       \/ Missed(slot, "unreachable")
    /\ UNCHANGED <<publisherVars, store, budgetVars>>

\* import: "Object already exists" is an error, also when it was another task
\* that has just brought the object in.
Check(slot) ==
    /\ At(slot, "check")
    /\ IF ObjectOf(slot) \in store THEN Missed(slot, "exists") ELSE Goto(slot, "put")
    /\ UNCHANGED <<publisherVars, store, budgetVars>>

Put(slot) ==
    /\ At(slot, "put")
    /\ store' = store \cup {ObjectOf(slot)}
    /\ Goto(slot, "done")
    /\ UNCHANGED <<publisherVars, budgetVars>>

\* resolve_providers: the peer given comes first, then what the DHT knows; it
\* is an error that there is nobody, or that the DHT does not answer.
FindProviders(slot) ==
    /\ At(slot, "providers")
    /\ Goto(slot, "fetch") \/ Failed("unreachable")
    /\ UNCHANGED <<publisherVars, store, budgetVars>>

FetchObject(slot) ==
    /\ At(slot, "fetch")
    /\ \/ Served(ObjectOf(slot)) /\ Goto(slot, "import")
       \/ Failed("unreachable")
    /\ UNCHANGED <<publisherVars, store, budgetVars>>

CheckImport(slot) ==
    /\ At(slot, "import")
    /\ IF ObjectOf(slot) \in store THEN Failed("exists") ELSE Goto(slot, "save")
    /\ UNCHANGED <<publisherVars, store, budgetVars>>

\* The reader announces itself as one more provider, best effort, and reads the
\* object back through its node.
Import(slot) ==
    /\ At(slot, "save")
    /\ store' = store \cup {ObjectOf(slot)}
    /\ opened' = [opened EXCEPT !.task[slot] = Task("get", TRUE)]
    /\ UNCHANGED <<publisherVars, budgetVars>>

AllDone == \A slot \in DOMAIN opened.task : opened.task[slot].at = "done"

\* Mutant: an asset that cannot be had is left out, as load_app_files does.
ServePartly ==
    /\ opened.phase = "assets"
    /\ opened' = [NotOpened EXCEPT
           !.phase = "served", !.target = opened.target,
           !.files = WithPath([p \in {q \in DOMAIN opened.task :
                                         opened.task[q].at = "done"}
                                  |-> opened.target.assets[p]],
                              "/", opened.target.entry)]
    /\ UNCHANGED <<publisherVars, store, budgetVars>>

\* The manifest is decoded, then the entrypoint is read, then every asset at
\* once; when the last of them is there the files are served.
Serve ==
    /\ opened.phase = "assets" /\ AllDone
    /\ opened' = [NotOpened EXCEPT
           !.phase = "served", !.target = opened.target,
           !.files = WithPath(opened.target.assets, "/", opened.target.entry)]
    /\ UNCHANGED <<publisherVars, store, budgetVars>>

NextPhase ==
    /\ opened.phase \in {"manifest", "entry"} /\ AllDone
    /\ opened' = IF opened.phase = "manifest"
                 THEN [opened EXCEPT !.phase = "entry", !.task = Start({"entry"})]
                 ELSE [opened EXCEPT !.phase = "assets",
                                     !.task = Start(DOMAIN opened.target.assets)]
    /\ UNCHANGED <<publisherVars, store, budgetVars>>

\* The reader's cache sweep, or another of its commands.
EvictCopy ==
    /\ left > 0 /\ left' = left - 1 /\ spoiled' = TRUE
    /\ \E object \in store : store' = store \ {object}
    /\ UNCHANGED <<publisherVars, opened>>

AppNext ==
    \/ SecondPasses \/ BeginRelease \/ Upload \/ Seal \/ AnnouncePart \/ Point
    \/ PinFiles \/ DeletePart \/ RestartPublisher
    \/ OpenByName \/ OpenById \/ NextPhase \/ Serve \/ EvictCopy
    \/ \E slot \in Slots :
        \/ Get(slot) \/ Pull(slot) \/ Check(slot) \/ Put(slot)
        \/ FindProviders(slot) \/ FetchObject(slot)
        \/ CheckImport(slot) \/ Import(slot)

AppSpec == AppInit /\ [][AppNext]_appVars

-----------------------------------------------------------------------------
(* Properties.                                                              *)

\* What is opened and what is released agree in shape.
AppTypeOK ==
    /\ second \in 0 .. MaxSecond
    /\ release.phase \in {"idle", "uploading", "announcing", "serving", "done",
                          "failed"}
    /\ opened.phase \in {"closed", "manifest", "entry", "assets", "served",
                         "failed"}
    /\ Fetching <=> opened.task # <<>>

\* A directory as it would be read by a browser.
Snapshot(dir) ==
    WithPath([p \in FilesOf(dir) \ {"index"} |-> dir.files[p]],
             "/", dir.files["index"])

\* Whatever is deleted, evicted, published again or restarted meanwhile, an
\* open that succeeds serves one directory as it was published, with every
\* asset its page names: never a part of it and never two releases mixed.
OpenedIsPublished ==
    opened.phase = "served" =>
        \E dir \in Directories :
            /\ Complete(dir)
            /\ [p \in DOMAIN opened.files |-> opened.files[p].data]
                   = Snapshot(dir)

\* As long as nothing is deleted and the publisher has not restarted, a name
\* points to an app every object of which the publisher holds and serves, and
\* so does a session: nobody resolves a release that is still on its way.
PointedIsServed ==
    ~spoiled =>
        /\ \A k \in PointerNames :
            pointer[k] # Nil => Parts(pointer[k]) \subseteq held \cap shared
        /\ pinned # Nil => DOMAIN pinned =
                               {"/"} \cup DOMAIN release.manifest.assets

\* publish.rs:65: the pointer is written "so `open --name <dirname>` still
\* resolves to the same app".
PublishedOpensByName ==
    (release.phase = "done" /\ pointer["app:name"] # Nil) =>
        pointer["name"] # Nil

\* common.rs:45: "fetching an object you already hold is a no-op, not an error".
StoredIsNoError == opened.why # "exists"
=============================================================================
