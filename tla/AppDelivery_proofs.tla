------------------------- MODULE AppDelivery_proofs -------------------------
(***************************************************************************)
(* Theorems about how an app reaches a browser: from the directory it is    *)
(* released from to the files an open serves (AppRelease), and from those   *)
(* to what the browser reads over HTTP (HttpServing), for any directories,  *)
(* files, ranges and numbers of releases, losses and seconds.               *)
(***************************************************************************)
EXTENDS HttpServing, AppRelease, TLAPS

-----------------------------------------------------------------------------
(* A release and an open of it.                                             *)

ReleaseShape ==
    /\ release = [phase |-> release.phase, command |-> release.command, dir |-> release.dir,
                  up |-> release.up, manifest |-> release.manifest, todo |-> release.todo]
    /\ DOMAIN pointer = PointerNames /\ spoiled \in BOOLEAN

OpenedShape ==
    opened = [phase |-> opened.phase, why |-> opened.why, target |-> opened.target,
              task |-> opened.task, files |-> opened.files]

\* A manifest that describes one directory, whole.
Published(manifest) ==
    \E dir \in Directories :
        /\ Complete(dir)
        /\ DOMAIN manifest.assets = FilesOf(dir) \ {"index"}
        /\ manifest.entry.data = dir.files["index"]
        /\ \A p \in DOMAIN manifest.assets : manifest.assets[p].data = dir.files[p]

UploadOK ==
    release.phase = "uploading" =>
        /\ release.dir \in Directories
        /\ DOMAIN release.up \subseteq FilesOf(release.dir)
        /\ \A n \in DOMAIN release.up : release.up[n].data = release.dir.files[n]

SealedOK ==
    /\ release.phase \in {"announcing", "serving", "done"} => Published(release.manifest)
    /\ \A k \in PointerNames : pointer[k] # Nil => Published(pointer[k])

\* What has been uploaded is of one directory, and every manifest that was
\* sealed, named or asked for describes one.
OpenInv ==
    /\ ReleaseShape /\ OpenedShape /\ UploadOK /\ SealedOK
    /\ Fetching => Published(opened.target)
    /\ OpenedIsPublished

\* The reader, and the clock, leave the publisher's side alone.
LEMMA ReleaseStays ==
    ASSUME OpenInv, UNCHANGED <<release, pointer, spoiled>>
    PROVE  (ReleaseShape /\ UploadOK /\ SealedOK)'
BY DEF OpenInv, ReleaseShape, UploadOK, SealedOK

\* The publisher leaves the reader's side alone.
LEMMA OpenStays ==
    ASSUME OpenInv, UNCHANGED opened
    PROVE  (OpenedShape /\ (Fetching => Published(opened.target)) /\ OpenedIsPublished)'
<1>1. OpenedShape' /\ (Fetching => Published(opened.target))'
  BY DEF OpenInv, OpenedShape, Fetching, Published
<1>2. OpenedIsPublished'
  BY DEF OpenInv, OpenedIsPublished
<1> QED BY <1>1, <1>2

\* An upload adds a file of the directory as it is on the disk.
LEMMA UploadKeeps == OpenInv /\ Upload => OpenInv'
<1> SUFFICES ASSUME OpenInv, Upload PROVE OpenInv'
  OBVIOUS
<1> DEFINE missing == FilesOf(release.dir) \ DOMAIN release.up
           n == First(missing)
           object == [data |-> release.dir.files[n], at |-> second]
<1>1. /\ release.phase = "uploading" /\ missing # {}
      /\ release' = [release EXCEPT !.up = WithPath(@, n, object)]
      /\ UNCHANGED <<pointer, opened, spoiled>>
  BY DEF Upload, readerVars, budgetVars
<1>2. n \in missing
  BY <1>1 DEF First
<1> HIDE DEF n
<1>3. object.data = release.dir.files[n]
  OBVIOUS
<1> HIDE DEF object
<1>4. release' = [phase |-> release.phase, command |-> release.command, dir |-> release.dir,
                  up |-> WithPath(release.up, n, object), manifest |-> release.manifest,
                  todo |-> release.todo]
  BY <1>1 DEF OpenInv, ReleaseShape
<1>5. DOMAIN release'.up = DOMAIN release.up \cup {n}
      /\ \A m \in DOMAIN release'.up :
            release'.up[m] = IF m \in DOMAIN release.up THEN release.up[m] ELSE object
  BY <1>4 DEF WithPath
<1>6. UploadOK'
  BY <1>1, <1>2, <1>3, <1>4, <1>5 DEF OpenInv, UploadOK, FilesOf
<1>7. ReleaseShape' /\ SealedOK'
  BY <1>1, <1>4 DEF OpenInv, ReleaseShape, SealedOK
<1> QED BY <1>1, <1>6, <1>7, OpenStays DEF OpenInv

\* The manifest names what the uploads returned, and every file is uploaded.
LEMMA SealKeeps == OpenInv /\ Seal => OpenInv'
<1> SUFFICES ASSUME OpenInv, Seal PROVE OpenInv'
  OBVIOUS
<1>1. /\ release.phase = "uploading" /\ DOMAIN release.up = FilesOf(release.dir)
      /\ UNCHANGED <<pointer, opened, spoiled>>
  BY DEF Seal, readerVars, budgetVars
<1>2. CASE Complete(release.dir)
  <2> DEFINE manifest == [entry |-> release.up["index"],
                          assets |-> [p \in DOMAIN release.up \ {"index"} |-> release.up[p]],
                          at |-> second]
  <2>1. release' = [release EXCEPT !.phase = "announcing", !.manifest = manifest,
                                   !.todo = Parts(manifest)]
    BY <1>2 DEF Seal
  <2>2. Published(manifest)
    <3>1. "index" \in FilesOf(release.dir)
      BY <1>1, <1>2, DirectoriesAssumption DEF OpenInv, UploadOK, Complete, FilesOf
    <3>2. release.dir \in Directories
          /\ \A n \in DOMAIN release.up : release.up[n].data = release.dir.files[n]
      BY <1>1 DEF OpenInv, UploadOK
    <3>3. DOMAIN manifest.assets = FilesOf(release.dir) \ {"index"}
          /\ manifest.entry = release.up["index"]
          /\ \A p \in DOMAIN manifest.assets : manifest.assets[p] = release.up[p]
      BY <1>1
    <3> QED BY <1>1, <1>2, <3>1, <3>2, <3>3 DEF Published
  <2> HIDE DEF manifest
  <2>3. release' = [phase |-> "announcing", command |-> release.command, dir |-> release.dir,
                    up |-> release.up, manifest |-> manifest, todo |-> Parts(manifest)]
    BY <2>1 DEF OpenInv, ReleaseShape
  <2>4. (ReleaseShape /\ UploadOK /\ SealedOK)'
    BY <1>1, <2>2, <2>3 DEF OpenInv, ReleaseShape, UploadOK, SealedOK
  <2> QED BY <1>1, <2>4, OpenStays DEF OpenInv
<1>3. CASE ~Complete(release.dir)
  <2>1. release' = [release EXCEPT !.phase = "failed"]
    BY <1>3 DEF Seal
  <2>2. (ReleaseShape /\ UploadOK /\ SealedOK)'
    BY <1>1, <2>1 DEF OpenInv, ReleaseShape, UploadOK, SealedOK
  <2> QED BY <1>1, <2>2, OpenStays DEF OpenInv
<1> QED BY <1>2, <1>3

\* The other commands of the publisher.
LEMMA PublisherKeeps ==
    OpenInv /\ (\/ SecondPasses \/ BeginRelease \/ AnnouncePart \/ Point \/ PinFiles
                \/ DeletePart \/ RestartPublisher) => OpenInv'
<1> SUFFICES ASSUME OpenInv, \/ SecondPasses \/ BeginRelease \/ AnnouncePart \/ Point
                             \/ PinFiles \/ DeletePart \/ RestartPublisher
             PROVE  (ReleaseShape /\ UploadOK /\ SealedOK)' /\ UNCHANGED opened
  BY OpenStays DEF OpenInv
<1> USE DEF readerVars, budgetVars
<1>1. CASE SecondPasses \/ DeletePart
  BY <1>1 DEF SecondPasses, DeletePart, OpenInv, ReleaseShape, UploadOK, SealedOK
<1>2. CASE BeginRelease
  <2>1. PICK command \in ReleaseCommands, dir \in Directories :
            release' = [NoRelease EXCEPT !.phase = "uploading", !.command = command, !.dir = dir]
    BY <1>2 DEF BeginRelease
  <2>2. release' = [phase |-> "uploading", command |-> command, dir |-> dir, up |-> <<>>,
                    manifest |-> Nil, todo |-> {}]
    BY <2>1 DEF NoRelease
  <2>3. UploadOK'
    BY <2>2 DEF UploadOK
  <2>4. UNCHANGED <<pointer, opened, spoiled>>
    BY <1>2 DEF BeginRelease
  <2> QED BY <2>2, <2>3, <2>4 DEF OpenInv, ReleaseShape, SealedOK
<1>3. CASE AnnouncePart
  <2>1. /\ release.phase = "announcing" /\ UNCHANGED <<pointer, opened, spoiled>>
        /\ \E rest : \/ release' = [release EXCEPT !.todo = rest]
                      \/ release' = [release EXCEPT !.phase = "failed"]
    BY <1>3 DEF AnnouncePart
  <2> QED BY <2>1 DEF OpenInv, ReleaseShape, UploadOK, SealedOK
<1>4. CASE Point
  <2>1. /\ release.phase = "announcing" /\ UNCHANGED <<opened, spoiled>>
        /\ \E end \in {"serving", "done", "failed"} : release' = [release EXCEPT !.phase = end]
        /\ pointer' \in {pointer, [pointer EXCEPT ![PointerName(release.command)] =
                                                      release.manifest]}
    BY <1>4 DEF Point
  <2>2. Published(release.manifest)
    BY <2>1 DEF OpenInv, SealedOK
  <2>3. DOMAIN pointer' = PointerNames
        /\ \A k \in PointerNames : pointer'[k] \in {pointer[k], release.manifest}
    BY <2>1 DEF OpenInv, ReleaseShape
  <2>4. \A k \in PointerNames : pointer'[k] # Nil => Published(pointer'[k])
    BY <2>2, <2>3 DEF OpenInv, SealedOK
  <2>5. ReleaseShape' /\ release'.phase # "uploading" /\ release'.manifest = release.manifest
    BY <2>1, <2>3 DEF OpenInv, ReleaseShape
  <2> QED BY <2>1, <2>2, <2>4, <2>5 DEF UploadOK, SealedOK
<1>5. CASE PinFiles
  <2>1. /\ release.phase = "serving" /\ UNCHANGED <<pointer, opened, spoiled>>
        /\ \E end \in {"done", "failed"} : release' = [release EXCEPT !.phase = end]
    BY <1>5 DEF PinFiles
  <2> QED BY <2>1 DEF OpenInv, ReleaseShape, UploadOK, SealedOK
<1>6. CASE RestartPublisher
  <2>1. /\ release' = release \/ release' = [release EXCEPT !.phase = "failed"]
        /\ spoiled' = TRUE /\ UNCHANGED <<pointer, opened>>
    BY <1>6 DEF RestartPublisher
  <2> QED BY <2>1 DEF OpenInv, ReleaseShape, UploadOK, SealedOK
<1> QED BY <1>1, <1>2, <1>3, <1>4, <1>5, <1>6

\* One of the fetches of an open goes on, or all of them end.
TaskMoves ==
    \/ \E slot, task : opened' = [opened EXCEPT !.task[slot] = task]
    \/ \E slot, at : opened' = [opened EXCEPT !.task[slot].at = at]
    \/ \E why : opened' = [NotOpened EXCEPT !.phase = "failed", !.why = why]

\* Every step of a fetch is one of those.
LEMMA FetchSteps ==
    ASSUME NEW slot \in Slots,
           \/ Get(slot) \/ Pull(slot) \/ Check(slot) \/ Put(slot)
           \/ FindProviders(slot) \/ FetchObject(slot)
           \/ CheckImport(slot) \/ Import(slot)
    PROVE  TaskMoves /\ Fetching /\ UNCHANGED publisherVars /\ UNCHANGED budgetVars
<1>1. CASE Get(slot)
  BY <1>1 DEF Get, At, Goto, TaskMoves
<1>2. CASE Pull(slot)
  BY <1>2 DEF Pull, Missed, Failed, At, Goto, TaskMoves
<1>3. CASE Check(slot)
  BY <1>3 DEF Check, Missed, Failed, At, Goto, TaskMoves
<1>4. CASE Put(slot)
  BY <1>4 DEF Put, At, Goto, TaskMoves
<1>5. CASE FindProviders(slot)
  BY <1>5 DEF FindProviders, Failed, At, Goto, TaskMoves
<1>6. CASE FetchObject(slot)
  BY <1>6 DEF FetchObject, Failed, At, Goto, TaskMoves
<1>7. CASE CheckImport(slot)
  BY <1>7 DEF CheckImport, Failed, At, Goto, TaskMoves
<1>8. CASE Import(slot)
  BY <1>8 DEF Import, At, TaskMoves
<1> QED BY <1>1, <1>2, <1>3, <1>4, <1>5, <1>6, <1>7, <1>8

\* A fetch changes neither what is asked for nor what is served.
LEMMA TaskMovesKeep == OpenInv /\ Fetching /\ TaskMoves /\ UNCHANGED <<release, pointer, spoiled>> => OpenInv'
<1> SUFFICES ASSUME OpenInv, Fetching, TaskMoves, UNCHANGED <<release, pointer, spoiled>>
             PROVE  OpenInv'
  OBVIOUS
<1>1. CASE \/ \E slot, task : opened' = [opened EXCEPT !.task[slot] = task]
           \/ \E slot, at : opened' = [opened EXCEPT !.task[slot].at = at]
  <2>1. PICK task : opened' = [opened EXCEPT !.task = task]
    BY <1>1
  <2>2. opened' = [phase |-> opened.phase, why |-> opened.why, target |-> opened.target,
                   task |-> task, files |-> opened.files]
    BY <2>1 DEF OpenInv, OpenedShape
  <2>3. OpenedShape' /\ (Fetching => Published(opened.target))' /\ OpenedIsPublished'
    BY <2>2 DEF OpenInv, OpenedShape, Fetching, OpenedIsPublished
  <2> QED BY <2>3, ReleaseStays DEF OpenInv
<1>2. CASE \E why : opened' = [NotOpened EXCEPT !.phase = "failed", !.why = why]
  <2>1. opened'.phase = "failed" /\ OpenedShape'
    BY <1>2 DEF NotOpened, OpenedShape
  <2> QED BY <2>1, ReleaseStays DEF OpenInv, Fetching, OpenedIsPublished
<1> QED BY <1>1, <1>2 DEF TaskMoves

\* What is asked for was published.
LEMMA OpeningKeeps == OpenInv /\ (OpenByName \/ OpenById) => OpenInv'
<1> SUFFICES ASSUME OpenInv, OpenByName \/ OpenById PROVE OpenInv'
  OBVIOUS
<1>1. UNCHANGED <<release, pointer, spoiled>>
  BY DEF OpenByName, OpenById, publisherVars, budgetVars
<1>2. \/ Failed("no pointer")
      \/ \E target : Published(target) /\ Opening(target)
  <2>1. CASE OpenById
    BY <2>1 DEF OpenById, OpenInv, SealedOK
  <2>2. CASE OpenByName
    BY <2>2 DEF OpenByName, OpenInv, SealedOK, PointerNames
  <2> QED BY <2>1, <2>2
<1>3. CASE Failed("no pointer")
  <2>1. opened'.phase = "failed" /\ OpenedShape'
    BY <1>3 DEF Failed, NotOpened, OpenedShape
  <2> QED BY <1>1, <2>1, ReleaseStays DEF OpenInv, Fetching, OpenedIsPublished
<1>4. CASE \E target : Published(target) /\ Opening(target)
  <2>1. PICK target : Published(target) /\ Opening(target)
    BY <1>4
  <2>2. opened' = [phase |-> "manifest", why |-> Nil, target |-> target,
                   task |-> Start({"manifest"}), files |-> <<>>]
    BY <2>1 DEF Opening, NotOpened
  <2> QED BY <1>1, <2>1, <2>2, ReleaseStays DEF OpenInv, OpenedShape, Fetching, OpenedIsPublished
<1> QED BY <1>2, <1>3, <1>4

\* The files served are the manifest's, and so a directory's.
LEMMA ServeKeeps == OpenInv /\ (NextPhase \/ Serve) => OpenInv'
<1> SUFFICES ASSUME OpenInv, NextPhase \/ Serve PROVE OpenInv'
  OBVIOUS
<1>1. UNCHANGED <<release, pointer, spoiled>>
  BY DEF NextPhase, Serve, publisherVars, budgetVars
<1>2. CASE NextPhase
  <2>1. Published(opened.target) /\ Fetching
    BY <1>2 DEF NextPhase, OpenInv, Fetching
  <2>2. PICK phase \in {"entry", "assets"} :
            \E task : opened' = [opened EXCEPT !.phase = phase, !.task = task]
    BY <1>2 DEF NextPhase
  <2>3. PICK task : opened' = [opened EXCEPT !.phase = phase, !.task = task]
    BY <2>2
  <2>4. opened' = [phase |-> phase, why |-> opened.why, target |-> opened.target,
                   task |-> task, files |-> opened.files]
    BY <2>3 DEF OpenInv, OpenedShape
  <2> QED BY <1>1, <2>1, <2>4, ReleaseStays DEF OpenInv, OpenedShape, OpenedIsPublished
<1>3. CASE Serve
  <2> DEFINE files == WithPath(opened.target.assets, "/", opened.target.entry)
  <2>1. Published(opened.target)
    BY <1>3 DEF Serve, OpenInv, Fetching
  <2>2. opened' = [phase |-> "served", why |-> Nil, target |-> opened.target, task |-> <<>>,
                   files |-> files]
    BY <1>3 DEF Serve, NotOpened
  <2>3. PICK dir \in Directories :
            /\ Complete(dir)
            /\ DOMAIN opened.target.assets = FilesOf(dir) \ {"index"}
            /\ opened.target.entry.data = dir.files["index"]
            /\ \A p \in DOMAIN opened.target.assets :
                  opened.target.assets[p].data = dir.files[p]
    BY <2>1 DEF Published
  <2>4. [p \in DOMAIN files |-> files[p].data] = Snapshot(dir)
    <3>1. DOMAIN files = (FilesOf(dir) \ {"index"}) \cup {"/"}
      BY <2>3 DEF WithPath
    <3>2. ASSUME NEW p \in (FilesOf(dir) \ {"index"}) \cup {"/"}
          PROVE  files[p].data = IF p \in FilesOf(dir) \ {"index"} THEN dir.files[p]
                                 ELSE dir.files["index"]
      BY <2>3, <3>2 DEF WithPath
    <3>3. Snapshot(dir) = [p \in (FilesOf(dir) \ {"index"}) \cup {"/"} |->
                              IF p \in FilesOf(dir) \ {"index"} THEN dir.files[p]
                              ELSE dir.files["index"]]
      BY DEF Snapshot, WithPath
    <3> HIDE DEF files
    <3> QED BY <3>1, <3>2, <3>3
  <2> HIDE DEF files
  <2>5. OpenedIsPublished'
    BY <2>2, <2>3, <2>4 DEF OpenedIsPublished
  <2> QED BY <1>1, <2>2, <2>5, ReleaseStays DEF OpenInv, OpenedShape, Fetching
<1> QED BY <1>2, <1>3

\* Nothing is released and nothing is opened.
LEMMA InitOpenInv == AppInit => OpenInv
<1> SUFFICES ASSUME AppInit PROVE OpenInv
  OBVIOUS
<1>1. ReleaseShape /\ release.phase = "idle"
  BY DEF AppInit, NoRelease, ReleaseShape
<1>2. OpenedShape /\ opened.phase = "closed"
  BY DEF AppInit, NotOpened, OpenedShape
<1>3. SealedOK /\ UploadOK
  BY <1>1 DEF AppInit, SealedOK, UploadOK
<1> QED BY <1>1, <1>2, <1>3 DEF OpenInv, Fetching, OpenedIsPublished

\* Every step of the publisher and of the reader.
LEMMA OpenPreserved == OpenInv /\ [AppNext]_appVars => OpenInv'
<1> SUFFICES ASSUME OpenInv, [AppNext]_appVars PROVE OpenInv'
  OBVIOUS
<1>1. CASE UNCHANGED appVars \/ EvictCopy
  <2>1. UNCHANGED <<release, pointer, opened>> /\ (spoiled' = spoiled \/ spoiled' = TRUE)
    BY <1>1 DEF EvictCopy, appVars, publisherVars, readerVars, budgetVars
  <2>2. (ReleaseShape /\ UploadOK /\ SealedOK)'
    BY <2>1 DEF OpenInv, ReleaseShape, UploadOK, SealedOK
  <2> QED BY <2>1, <2>2, OpenStays DEF OpenInv
<1>2. CASE \E slot \in Slots :
              \/ Get(slot) \/ Pull(slot) \/ Check(slot) \/ Put(slot)
              \/ FindProviders(slot) \/ FetchObject(slot)
              \/ CheckImport(slot) \/ Import(slot)
  <2>1. TaskMoves /\ Fetching /\ UNCHANGED publisherVars /\ UNCHANGED budgetVars
    BY <1>2, FetchSteps
  <2> QED BY <2>1, TaskMovesKeep DEF publisherVars, budgetVars
<1> QED BY <1>1, <1>2, UploadKeeps, SealKeeps, PublisherKeeps, OpeningKeeps, ServeKeeps
        DEF AppNext

\* An open that succeeds serves one directory as it was published, whatever was
\* deleted, evicted, released again or restarted while its fetches ran.
THEOREM OpenServesOneRelease == AppSpec => []OpenedIsPublished
<1>1. OpenInv => OpenedIsPublished
  BY DEF OpenInv
<1> QED BY <1>1, InitOpenInv, OpenPreserved, PTL DEF AppSpec

-----------------------------------------------------------------------------
(* What a name points to is all there.                                      *)

\* An app's objects are stored before its manifest is, served before the name is
\* moved, and pinned after.
Whole ==
    /\ release.phase = "uploading" => \A n \in DOMAIN release.up : release.up[n] \in held
    /\ release.phase = "announcing" =>
         /\ Parts(release.manifest) \subseteq held
         /\ Parts(release.manifest) \ release.todo \subseteq shared
    /\ release.phase \in {"serving", "done"} =>
         Parts(release.manifest) \subseteq held \cap shared
    /\ \A k \in PointerNames : pointer[k] # Nil => Parts(pointer[k]) \subseteq held \cap shared
    /\ pinned # Nil => /\ release.phase = "done"
                       /\ DOMAIN pinned = {"/"} \cup DOMAIN release.manifest.assets

\* Until an object is deleted or the publisher restarts.
WholeInv == OpenInv /\ (~spoiled => Whole)

\* A file that is uploaded is held.
LEMMA UploadKeepsWhole ==
    ASSUME OpenInv, Whole, Upload PROVE Whole'
<1> DEFINE missing == FilesOf(release.dir) \ DOMAIN release.up
           n == First(missing)
           object == [data |-> release.dir.files[n], at |-> second]
<1>1. /\ release.phase = "uploading" /\ held' = held \cup {object}
      /\ release' = [release EXCEPT !.up = WithPath(@, n, object)]
      /\ UNCHANGED <<shared, pointer, pinned>>
  BY DEF Upload
<1> HIDE DEF n, object
<1>2. release' = [phase |-> release.phase, command |-> release.command, dir |-> release.dir,
                  up |-> WithPath(release.up, n, object), manifest |-> release.manifest,
                  todo |-> release.todo]
  BY <1>1 DEF OpenInv, ReleaseShape
<1>3. \A m \in DOMAIN release'.up : release'.up[m] \in held'
  BY <1>1, <1>2 DEF WithPath, Whole
<1> QED BY <1>1, <1>2, <1>3 DEF Whole

\* The manifest names what is held, and is held.
LEMMA SealKeepsWhole ==
    ASSUME OpenInv, Whole, Seal PROVE Whole'
<1>1. /\ release.phase = "uploading" /\ DOMAIN release.up = FilesOf(release.dir)
      /\ UNCHANGED <<shared, pointer, pinned>>
  BY DEF Seal
<1>2. CASE Complete(release.dir)
  <2> DEFINE manifest == [entry |-> release.up["index"],
                          assets |-> [p \in DOMAIN release.up \ {"index"} |-> release.up[p]],
                          at |-> second]
  <2>1. /\ held' = held \cup {manifest}
        /\ release' = [release EXCEPT !.phase = "announcing", !.manifest = manifest,
                                      !.todo = Parts(manifest)]
    BY <1>2 DEF Seal
  <2>2. Parts(manifest) \subseteq held'
    <3>1. "index" \in DOMAIN release.up
      BY <1>1, <1>2, DirectoriesAssumption DEF OpenInv, UploadOK, Complete, FilesOf
    <3>2. release.up["index"] \in held /\ \A p \in DOMAIN release.up : release.up[p] \in held
      BY <1>1, <3>1 DEF Whole
    <3>3. /\ manifest.entry = release.up["index"]
          /\ DOMAIN manifest.assets = DOMAIN release.up \ {"index"}
          /\ \A p \in DOMAIN manifest.assets : manifest.assets[p] = release.up[p]
      OBVIOUS
    <3> HIDE DEF manifest
    <3> QED BY <2>1, <3>2, <3>3 DEF Parts
  <2> HIDE DEF manifest
  <2>3. release' = [phase |-> "announcing", command |-> release.command, dir |-> release.dir,
                    up |-> release.up, manifest |-> manifest, todo |-> Parts(manifest)]
    BY <2>1 DEF OpenInv, ReleaseShape
  <2> QED BY <1>1, <2>1, <2>2, <2>3 DEF Whole
<1>3. CASE ~Complete(release.dir)
  <2>1. release' = [release EXCEPT !.phase = "failed"] /\ held' = held
    BY <1>3 DEF Seal
  <2>2. release'.phase = "failed"
    BY <2>1 DEF OpenInv, ReleaseShape
  <2> QED BY <1>1, <2>1, <2>2 DEF Whole
<1> QED BY <1>2, <1>3

\* An object is served before it leaves the list of what is to announce.
LEMMA AnnounceKeepsWhole ==
    ASSUME OpenInv, Whole, AnnouncePart PROVE Whole'
<1>1. /\ release.phase = "announcing" /\ UNCHANGED <<held, pointer, pinned>>
      /\ \E object : /\ shared' = shared \cup {object}
                     /\ \/ release' = [release EXCEPT !.todo = @ \ {object}]
                        \/ release' = [release EXCEPT !.phase = "failed"]
  BY DEF AnnouncePart
<1>2. PICK object : /\ shared' = shared \cup {object}
                    /\ \/ release' = [release EXCEPT !.todo = @ \ {object}]
                       \/ release' = [release EXCEPT !.phase = "failed"]
  BY <1>1
<1>3. \A k \in PointerNames : pointer'[k] # Nil => Parts(pointer'[k]) \subseteq held' \cap shared'
  BY <1>1, <1>2 DEF Whole
<1>4. CASE release' = [release EXCEPT !.todo = @ \ {object}]
  <2>1. /\ release'.phase = "announcing" /\ release'.manifest = release.manifest
        /\ release'.todo = release.todo \ {object}
    BY <1>1, <1>4 DEF OpenInv, ReleaseShape
  <2> QED BY <1>1, <1>2, <1>3, <2>1 DEF Whole
<1>5. CASE release' = [release EXCEPT !.phase = "failed"]
  <2>1. release'.phase = "failed"
    BY <1>5 DEF OpenInv, ReleaseShape
  <2> QED BY <1>1, <1>3, <2>1 DEF Whole
<1> QED BY <1>2, <1>4, <1>5

\* The name is moved when nothing is left to announce.
LEMMA PointKeepsWhole ==
    ASSUME OpenInv, Whole, Point PROVE Whole'
<1>1. /\ release.phase = "announcing" /\ release.todo = {} /\ UNCHANGED <<held, shared, pinned>>
      /\ \E end \in {"serving", "done", "failed"} : release' = [release EXCEPT !.phase = end]
      /\ pointer' \in {pointer, [pointer EXCEPT ![PointerName(release.command)] =
                                                    release.manifest]}
  BY DEF Point
<1>2. Parts(release.manifest) \subseteq held \cap shared /\ pinned = Nil
  BY <1>1 DEF Whole
<1>3. release'.phase \in {"serving", "done", "failed"} /\ release'.manifest = release.manifest
  BY <1>1 DEF OpenInv, ReleaseShape
<1>4. \A k \in PointerNames : pointer'[k] \in {pointer[k], release.manifest}
  BY <1>1 DEF OpenInv, ReleaseShape
<1>5. \A k \in PointerNames : pointer'[k] # Nil => Parts(pointer'[k]) \subseteq held \cap shared
  BY <1>2, <1>4 DEF Whole
<1> QED BY <1>1, <1>2, <1>3, <1>5 DEF Whole

\* All the assets are held when the session pins them.
LEMMA PinKeepsWhole ==
    ASSUME OpenInv, Whole, PinFiles PROVE Whole'
<1> DEFINE manifest == release.manifest
<1>1. /\ release.phase = "serving" /\ UNCHANGED <<held, shared, pointer>>
      /\ \A p \in DOMAIN manifest.assets : manifest.assets[p] \in held
  BY DEF PinFiles, Whole, Parts
<1>2. CASE manifest \in held \cap shared /\ manifest.entry \in held
  <2>1. /\ release' = [release EXCEPT !.phase = "done"]
        /\ pinned' = WithPath([p \in {q \in DOMAIN manifest.assets : manifest.assets[q] \in held}
                                  |-> manifest.assets[p]], "/", manifest.entry)
    BY <1>2 DEF PinFiles
  <2>2. release'.phase = "done" /\ release'.manifest = manifest
    BY <2>1 DEF OpenInv, ReleaseShape
  <2>3. DOMAIN pinned' = {"/"} \cup DOMAIN manifest.assets
    BY <1>1, <2>1 DEF WithPath
  <2> QED BY <1>1, <2>2, <2>3 DEF Whole
<1>3. CASE ~(manifest \in held \cap shared /\ manifest.entry \in held)
  <2>1. release' = [release EXCEPT !.phase = "failed"] /\ pinned' = pinned
    BY <1>3 DEF PinFiles
  <2>2. release'.phase = "failed"
    BY <2>1 DEF OpenInv, ReleaseShape
  <2> QED BY <1>1, <2>1, <2>2 DEF Whole
<1> QED BY <1>2, <1>3

\* A release that begins lets go of the files of the last one.
LEMMA BeginKeepsWhole ==
    ASSUME OpenInv, Whole, BeginRelease PROVE Whole'
<1>1. PICK command \in ReleaseCommands, dir \in Directories :
          release' = [NoRelease EXCEPT !.phase = "uploading", !.command = command, !.dir = dir]
  BY DEF BeginRelease
<1>2. release'.phase = "uploading" /\ release'.up = <<>>
  BY <1>1 DEF NoRelease
<1>3. pinned' = Nil /\ UNCHANGED <<held, shared, pointer>>
  BY DEF BeginRelease
<1> QED BY <1>2, <1>3 DEF Whole

\* Every step of the publisher and of the reader.
LEMMA WholePreserved == WholeInv /\ [AppNext]_appVars => WholeInv'
<1> SUFFICES ASSUME WholeInv, [AppNext]_appVars, ~spoiled' PROVE Whole'
  BY OpenPreserved DEF WholeInv
<1>1. OpenInv
  BY DEF WholeInv
<1>2. CASE SecondPasses \/ OpenByName \/ OpenById \/ NextPhase \/ Serve \/ UNCHANGED appVars
           \/ \E slot \in Slots :
                 \/ Get(slot) \/ Pull(slot) \/ Check(slot) \/ Put(slot)
                 \/ FindProviders(slot) \/ FetchObject(slot)
                 \/ CheckImport(slot) \/ Import(slot)
  <2>1. UNCHANGED <<release, held, shared, pointer, pinned, spoiled>>
    BY <1>2, FetchSteps
       DEF SecondPasses, OpenByName, OpenById, NextPhase, Serve, appVars, publisherVars,
           readerVars, budgetVars
  <2> QED BY <2>1 DEF WholeInv, Whole
<1>3. CASE DeletePart \/ RestartPublisher \/ EvictCopy
  BY <1>3 DEF DeletePart, RestartPublisher, EvictCopy
<1>4. CASE BeginRelease \/ Upload \/ Seal \/ AnnouncePart \/ Point \/ PinFiles
  <2>1. spoiled' = spoiled
    BY <1>4 DEF BeginRelease, Upload, Seal, AnnouncePart, Point, PinFiles, budgetVars
  <2>2. Whole
    BY <2>1 DEF WholeInv
  <2> QED BY <1>1, <1>4, <2>2, BeginKeepsWhole, UploadKeepsWhole, SealKeepsWhole,
             AnnounceKeepsWhole, PointKeepsWhole, PinKeepsWhole
<1> QED BY <1>2, <1>3, <1>4 DEF AppNext

\* As long as nothing was deleted and the publisher has not restarted, an app that
\* a name points to is stored and served whole, and a session pins all of it.
THEOREM NamedAppIsWhole == AppSpec => []PointedIsServed
<1>1. AppInit => WholeInv
  BY InitOpenInv DEF WholeInv, Whole, AppInit, NoRelease
<1>2. WholeInv => PointedIsServed
  BY DEF WholeInv, Whole, PointedIsServed
<1> QED BY <1>1, <1>2, WholePreserved, PTL DEF AppSpec

-----------------------------------------------------------------------------
(* A browser and a front.                                                   *)

File == site[ServedKey(req.path)]

\* The request under way, and what the browser may have said of its copy.
RequestOK ==
    stage # "waiting" =>
        /\ req.method \in Methods /\ req.path \in Paths
        /\ req.range \in Ranges \cup {Nothing}
        /\ req.held \in {Nothing, copy[req.path]}

HttpInv ==
    /\ site \in Sites /\ front \in Fronts
    /\ stage = "forwarding" => front = "edge"
    /\ answer # NoAnswer => stage = "waiting"
    /\ RequestOK /\ ReadersAreFramed /\ ShownIsServed

\* The length announced is that of the body, which an answer to HEAD and a 304 do
\* not have.
Framed(reply) ==
    IF req.method = "HEAD" \/ reply.status = "304" THEN reply.body = 0
    ELSE reply.length \in Int /\ reply.body = reply.length

\* What the browser takes from an answer to GET.
TellsTrue(reply) ==
    req.method = "GET" =>
        /\ reply.status \in {"200", "206"} => reply.tag = File.data
        /\ reply.status = "304" => copy[req.path] = File.data
        /\ reply.status = "200" /\ ~reply.packed => reply.body = File.len
        /\ reply.status = "206" =>
              {reply.from + i : i \in 0 .. reply.body - 1} = Asked(req.range, File.len)

\* The part of a file that is cut out for a range is the part the range names.
LEMMA RangeIsAsked ==
    ASSUME NEW range \in Ranges \cup {Nothing}, NEW len \in Nat,
           ParseRange(range, len).kind = "part"
    PROVE  LET part == ParseRange(range, len) IN
           /\ part.from \in Int /\ part.to \in Int /\ part.to - part.from + 1 \in Nat
           /\ {part.from + i : i \in 0 .. (part.to - part.from + 1) - 1} = Asked(range, len)
<1> DEFINE part == ParseRange(range, len)
<1>1. range # Nothing /\ range \in Ranges
  BY DEF ParseRange, All
<1>2. range.first \in Nat \cup {Nothing} /\ range.last \in Nat \cup {Nothing} /\ Nothing \notin Int
  BY <1>1, RangesAssumption, NamesAssumption
<1>3. CASE range.first = Nothing
  <2>1. /\ len # 0 /\ range.last # Nothing /\ range.last # 0
        /\ part = Part(len - Lesser(range.last, len), len - 1)
    BY <1>1, <1>3 DEF ParseRange, All, Unsatisfiable
  <2>2. /\ part.from = len - Lesser(range.last, len) /\ part.to = len - 1
        /\ range.last \in Nat
    BY <1>2, <2>1 DEF Part
  <2> HIDE DEF part
  <2> DEFINE first == len - Lesser(range.last, len)
  <2>3. first \in 0 .. len - 1 /\ \A i \in 0 .. len - 1 : i >= len - range.last <=> i >= first
    BY <2>1, <2>2 DEF Lesser
  <2>4. Asked(range, len) = {i \in 0 .. len - 1 : i >= first}
    BY <1>3, <2>3 DEF Asked
  <2> HIDE DEF first
  <2>5. {first + i : i \in 0 .. (len - 1 - first + 1) - 1} = {i \in 0 .. len - 1 : i >= first}
    <3>1. ASSUME NEW j \in 0 .. len - 1, j >= first
          PROVE  \E i \in 0 .. (len - 1 - first + 1) - 1 : j = first + i
      <4>1. j - first \in 0 .. (len - 1 - first + 1) - 1 /\ j = first + (j - first)
        BY <2>3, <3>1
      <4> QED BY <4>1
    <3> QED BY <2>3, <3>1
  <2>6. part.from = first /\ part.to = len - 1
    BY <2>2 DEF first
  <2> QED BY <2>3, <2>4, <2>5, <2>6 DEF part
<1>4. CASE range.first # Nothing
  <2> DEFINE last == IF range.last = Nothing THEN len - 1 ELSE Lesser(range.last, len - 1)
  <2>1. /\ range.first < len /\ (range.last # Nothing => range.first <= range.last)
        /\ part = Part(range.first, last)
    BY <1>1, <1>2, <1>4 DEF ParseRange, All, Unsatisfiable
  <2>2. part.from = range.first /\ part.to = last /\ range.first \in Nat
    BY <1>2, <1>4, <2>1 DEF Part
  <2> HIDE DEF part
  <2>3. /\ last \in 0 .. len - 1 /\ range.first <= last
        /\ \A i \in 0 .. len - 1 : (range.last # Nothing => i <= range.last) <=> i <= last
    BY <1>2, <2>1, <2>2 DEF Lesser
  <2>4. Asked(range, len) = {i \in 0 .. len - 1 : i >= range.first /\ i <= last}
    BY <1>4, <2>3 DEF Asked
  <2> HIDE DEF last
  <2>5. {range.first + i : i \in 0 .. (last - range.first + 1) - 1}
            = {i \in 0 .. len - 1 : i >= range.first /\ i <= last}
    <3>1. ASSUME NEW j \in 0 .. len - 1, j >= range.first, j <= last
          PROVE  \E i \in 0 .. (last - range.first + 1) - 1 : j = range.first + i
      <4>1. /\ j - range.first \in 0 .. (last - range.first + 1) - 1
            /\ j = range.first + (j - range.first)
        BY <2>2, <2>3, <3>1
      <4> QED BY <4>1
    <3> QED BY <2>2, <2>3, <3>1
  <2> QED BY <2>2, <2>3, <2>4, <2>5 DEF part
<1> QED BY <1>3, <1>4

\* The five answers of a front that has the files.
LEMMA Rendered ==
    ASSUME HttpInv, stage # "waiting", NEW empty, NEW r, r = Render(site, req, empty)
    PROVE  \/ r = Answer("404", empty, 0, 0, Nothing, FALSE)
           \/ /\ File \in Files /\ copy[req.path] = File.data
              /\ r = Answer("304", Nothing, 0, 0, File, FALSE)
           \/ req.method = "GET" /\ r = Answer("416", empty, 0, 0, Nothing, FALSE)
           \/ /\ req.method = "GET" /\ File \in Files /\ File # Nothing
              /\ ParseRange(req.range, File.len).kind = "part"
              /\ LET part == ParseRange(req.range, File.len)
                 IN  r = Answer("206", part.to - part.from + 1, part.to - part.from + 1,
                                part.from, File, FALSE)
           \/ File \in Files /\ File # Nothing /\ r = FullAnswer(req, File)
<1>1. req.path \in Paths /\ req.held \in {Nothing, copy[req.path]} /\ site \in Sites
  BY DEF HttpInv, RequestOK
<1> DEFINE key == ServedKey(req.path)
           file == IF key = Nothing THEN Nothing ELSE site[key]
<1>2. CASE file = Nothing
  BY <1>2 DEF Render
<1>3. CASE file # Nothing
  <2>1. file = File /\ key \in Keys
    BY <1>3 DEF File, ServedKey, Keys
  <2>2. File \in Files /\ File.data # Nothing /\ File # Nothing
    BY <1>1, <1>3, <2>1, FilesAssumption DEF Sites, File
  <2> DEFINE range == ParseRange(req.range, File.len)
  <2>3. r = IF req.method # "other" /\ req.held = File.data
              THEN Answer("304", Nothing, 0, 0, File, FALSE)
            ELSE IF req.method = "GET" /\ range.kind = "unsatisfiable"
              THEN Answer("416", empty, 0, 0, Nothing, FALSE)
            ELSE IF req.method = "GET" /\ range.kind = "part"
              THEN Answer("206", range.to - range.from + 1, range.to - range.from + 1,
                          range.from, File, FALSE)
            ELSE FullAnswer(req, File)
    BY <1>3, <2>1 DEF Render
  <2>4. req.held = File.data => copy[req.path] = File.data
    BY <1>1, <2>2
  <2> HIDE DEF range
  <2> QED BY <2>2, <2>3, <2>4 DEF range
<1> QED BY <1>2, <1>3

\* A whole file, packed or not.
LEMMA WholeFile ==
    ASSUME NEW f \in Files
    PROVE  LET size == IF Packs(req, f) THEN f.packed ELSE f.len
           IN  /\ size \in Nat /\ (~Packs(req, f) => size = f.len)
               /\ FullAnswer(req, f) = Answer("200", size, IF req.method = "GET" THEN size ELSE 0,
                                              0, f, Packs(req, f))
BY FilesAssumption DEF FullAnswer

\* An answer is what it was made from.
IsAnswer(r) ==
    r = [status |-> r.status, length |-> r.length, body |-> r.body, from |-> r.from,
         tag |-> r.tag, packed |-> r.packed]

\* What the edge does to an answer it relays.
LEMMA RelayedFields ==
    ASSUME NEW r, IsAnswer(r), NEW reply, reply = Relayed(req, r)
    PROVE  /\ reply.status = r.status /\ reply.from = r.from /\ reply.packed = r.packed
           /\ reply.tag = r.tag
           /\ reply.length = IF r.status \in HasBody /\ r.length = Nothing THEN r.body
                             ELSE r.length
           /\ reply.body = IF r.status \in HasBody /\ req.method # "HEAD" THEN r.body ELSE 0
<1>1. reply = [status |-> r.status,
               length |-> IF r.status \in HasBody /\ r.length = Nothing THEN r.body ELSE r.length,
               body |-> IF r.status \in HasBody /\ req.method # "HEAD" THEN r.body ELSE 0,
               from |-> r.from, tag |-> r.tag, packed |-> r.packed]
  BY DEF Relayed, IsAnswer
<1> QED BY <1>1

\* The local server's answers.
LEMMA LocalReply ==
    ASSUME HttpInv, stage # "waiting", NEW r, r = LocalAnswer(site, req)
    PROVE  (req.method # "other" => Framed(r)) /\ TellsTrue(r)
<1>1. r = Render(site, req, 0)
  BY DEF LocalAnswer
<1>2. req.method \in Methods /\ req.range \in Ranges \cup {Nothing}
  BY DEF HttpInv, RequestOK
<1>3. CASE r = Answer("404", 0, 0, 0, Nothing, FALSE)
  BY <1>3 DEF Answer, Framed, TellsTrue
<1>4. CASE /\ File \in Files /\ copy[req.path] = File.data
           /\ r = Answer("304", Nothing, 0, 0, File, FALSE)
  <2>1. r.status = "304" /\ r.body = 0
    BY <1>4 DEF Answer
  <2> QED BY <1>4, <2>1 DEF Framed, TellsTrue
<1>5. CASE r = Answer("416", 0, 0, 0, Nothing, FALSE)
  BY <1>5 DEF Answer, Framed, TellsTrue
<1>6. CASE /\ req.method = "GET" /\ File \in Files /\ File # Nothing
           /\ ParseRange(req.range, File.len).kind = "part"
           /\ LET part == ParseRange(req.range, File.len)
              IN  r = Answer("206", part.to - part.from + 1, part.to - part.from + 1,
                             part.from, File, FALSE)
  <2> DEFINE part == ParseRange(req.range, File.len)
  <2>1. File.len \in Nat
    BY <1>6, FilesAssumption
  <2>2. /\ part.to - part.from + 1 \in Nat
        /\ {part.from + i : i \in 0 .. (part.to - part.from + 1) - 1} = Asked(req.range, File.len)
    BY <1>2, <1>6, <2>1, RangeIsAsked
  <2>3. /\ r.status = "206" /\ r.length = part.to - part.from + 1
        /\ r.body = part.to - part.from + 1 /\ r.from = part.from /\ r.tag = File.data
    BY <1>6 DEF Answer
  <2> HIDE DEF part
  <2>4. {r.from + i : i \in 0 .. r.body - 1} = Asked(req.range, File.len)
    BY <2>2, <2>3
  <2>5. TellsTrue(r)
    BY <2>3, <2>4 DEF TellsTrue
  <2>6. req.method = "GET"
    BY <1>6
  <2>7. r.length \in Int /\ r.body = r.length
    BY <2>2, <2>3
  <2> QED BY <2>3, <2>5, <2>6, <2>7 DEF Framed
<1>7. CASE File \in Files /\ File # Nothing /\ r = FullAnswer(req, File)
  <2> DEFINE size == IF Packs(req, File) THEN File.packed ELSE File.len
  <2>1. /\ size \in Nat /\ (~Packs(req, File) => size = File.len)
        /\ r = Answer("200", size, IF req.method = "GET" THEN size ELSE 0, 0, File, Packs(req, File))
    BY <1>7, WholeFile
  <2> HIDE DEF size
  <2>2. /\ r.status = "200" /\ r.length = size /\ r.tag = File.data /\ r.packed = Packs(req, File)
        /\ r.body = IF req.method = "GET" THEN size ELSE 0
    BY <1>7, <2>1 DEF Answer
  <2> QED BY <1>2, <2>1, <2>2 DEF Framed, TellsTrue, Methods
<1> QED BY <1>1, <1>3, <1>4, <1>5, <1>6, <1>7, Rendered

\* The session's answers, as the edge relays them.
LEMMA RelayReply ==
    ASSUME HttpInv, stage # "waiting", NEW r, r = SessionAnswer(site, req),
           NEW reply, reply = Relayed(req, r)
    PROVE  /\ req.method # "other" /\ reply.status # "416" => Framed(reply)
           /\ TellsTrue(reply)
<1>1. r = Render(site, req, Nothing)
  BY DEF SessionAnswer
<1>2. req.method \in Methods /\ req.range \in Ranges \cup {Nothing}
  BY DEF HttpInv, RequestOK
<1>3. CASE r = Answer("404", Nothing, 0, 0, Nothing, FALSE)
  <2>1. IsAnswer(r) /\ r.status = "404" /\ r.length = Nothing /\ r.body = 0
    BY <1>3 DEF Answer, IsAnswer
  <2>2. reply.status = "404" /\ reply.length = 0 /\ reply.body = 0
    BY <2>1, RelayedFields DEF HasBody
  <2> QED BY <2>2 DEF Framed, TellsTrue
<1>4. CASE /\ File \in Files /\ copy[req.path] = File.data
           /\ r = Answer("304", Nothing, 0, 0, File, FALSE)
  <2>1. IsAnswer(r) /\ r.status = "304" /\ r.body = 0
    BY <1>4 DEF Answer, IsAnswer
  <2>2. reply.status = "304" /\ reply.body = 0
    BY <2>1, RelayedFields DEF HasBody
  <2> QED BY <1>4, <2>2 DEF Framed, TellsTrue
<1>5. CASE r = Answer("416", Nothing, 0, 0, Nothing, FALSE)
  <2>1. IsAnswer(r) /\ r.status = "416"
    BY <1>5 DEF Answer, IsAnswer
  <2>2. reply.status = "416"
    BY <2>1, RelayedFields
  <2> QED BY <2>2 DEF TellsTrue
<1>6. CASE /\ req.method = "GET" /\ File \in Files /\ File # Nothing
           /\ ParseRange(req.range, File.len).kind = "part"
           /\ LET part == ParseRange(req.range, File.len)
              IN  r = Answer("206", part.to - part.from + 1, part.to - part.from + 1,
                             part.from, File, FALSE)
  <2> DEFINE part == ParseRange(req.range, File.len)
             size == part.to - part.from + 1
  <2>1. File.len \in Nat
    BY <1>6, FilesAssumption
  <2>2. /\ size \in Nat
        /\ {part.from + i : i \in 0 .. size - 1} = Asked(req.range, File.len)
    BY <1>2, <1>6, <2>1, RangeIsAsked
  <2>3. r = Answer("206", size, size, part.from, File, FALSE)
    BY <1>6
  <2>4. size # Nothing
    BY <2>2, NamesAssumption
  <2> HIDE DEF part, size
  <2>5. /\ IsAnswer(r) /\ r.tag = File.data /\ r.status = "206"
        /\ r.length = size /\ r.body = size /\ r.from = part.from
    BY <1>6, <2>3 DEF Answer, IsAnswer
  <2>6. /\ reply.status = "206" /\ reply.length = size /\ reply.body = size
        /\ reply.from = part.from /\ reply.tag = File.data
    BY <1>6, <2>4, <2>5, RelayedFields DEF HasBody
  <2>7. {reply.from + i : i \in 0 .. reply.body - 1} = Asked(req.range, File.len)
    BY <2>2, <2>6
  <2>8. TellsTrue(reply)
    BY <2>6, <2>7 DEF TellsTrue
  <2>9. req.method = "GET"
    BY <1>6
  <2>10. reply.length \in Int /\ reply.body = reply.length
    BY <2>2, <2>6
  <2> QED BY <2>6, <2>8, <2>9, <2>10 DEF Framed
<1>7. CASE File \in Files /\ File # Nothing /\ r = FullAnswer(req, File)
  <2> DEFINE size == IF Packs(req, File) THEN File.packed ELSE File.len
             told == IF req.method = "GET" THEN size ELSE 0
  <2>1. /\ size \in Nat /\ (~Packs(req, File) => size = File.len)
        /\ r = Answer("200", size, told, 0, File, Packs(req, File))
    BY <1>7, WholeFile
  <2>2. size # Nothing
    BY <2>1, NamesAssumption
  <2>3. (req.method = "GET" => told = size)
    OBVIOUS
  <2> HIDE DEF size, told
  <2>4. /\ IsAnswer(r) /\ r.tag = File.data /\ r.status = "200" /\ r.length = size
        /\ r.body = told /\ r.packed = Packs(req, File)
    BY <1>7, <2>1 DEF Answer, IsAnswer
  <2>5. /\ reply.status = "200" /\ reply.length = size /\ reply.tag = File.data
        /\ reply.packed = Packs(req, File)
        /\ reply.body = IF req.method # "HEAD" THEN told ELSE 0
    BY <2>2, <2>4, RelayedFields DEF HasBody
  <2> QED BY <1>2, <2>1, <2>3, <2>5 DEF Framed, TellsTrue, Methods
<1> QED BY <1>1, <1>3, <1>4, <1>5, <1>6, <1>7, Rendered

\* The edge's own answers.
LEMMA EdgeReply ==
    ASSUME NEW status \in {"404", "502", "504"}, NEW reply,
           reply = Relayed(req, EdgeText(status))
    PROVE  Framed(reply) /\ TellsTrue(reply)
<1> DEFINE length == IF status = "404" THEN 1 ELSE Nothing
<1>1. EdgeText(status) = Answer(status, length, 1, 0, Nothing, FALSE)
  BY DEF EdgeText
<1>2. length \in {1, Nothing} /\ 1 # Nothing
  BY NamesAssumption
<1> HIDE DEF length
<1> DEFINE text == EdgeText(status)
<1>3. IsAnswer(text) /\ text.status = status /\ text.length = length /\ text.body = 1
  BY <1>1 DEF Answer, IsAnswer
<1>4. reply = Relayed(req, text)
  OBVIOUS
<1> HIDE DEF text
<1>5. /\ reply.status = status /\ reply.length = 1
      /\ reply.body = IF req.method # "HEAD" THEN 1 ELSE 0
  BY <1>2, <1>3, <1>4, RelayedFields DEF HasBody
<1> QED BY <1>5 DEF Framed, TellsTrue

\* Writing such an answer leaves nothing owed.
LEMMA WriteKeeps ==
    ASSUME HttpInv, stage # "waiting", NEW reply, WriteAnswer(reply), TellsTrue(reply),
           \/ req.method = "other" \/ Framed(reply)
           \/ front = "edge" /\ reply.status = "416"
    PROVE  HttpInv'
<1> DEFINE expected == Expected(req.method, reply)
           missing == IF expected = UntilClose THEN UntilClose ELSE expected - reply.body
           shown == IF reply.status = "304" THEN copy[req.path] ELSE reply.tag
<1>1. /\ answer' = [req |-> req, reply |-> reply, shown |-> shown]
      /\ owed' = IF req.close THEN 0 ELSE missing
      /\ stage' = "waiting" /\ UNCHANGED <<front, site>>
  BY DEF WriteAnswer
<1>2. answer'.req = req /\ answer'.reply = reply /\ answer'.shown = shown
  BY <1>1
<1>3. Framed(reply) => missing = 0
  BY NamesAssumption DEF Framed, Expected
<1>4. ReadersAreFramed'
  <2> HIDE DEF missing
  <2> QED BY <1>1, <1>2, <1>3 DEF ReadersAreFramed
<1>5. ShownIsServed'
  BY <1>1, <1>2 DEF ShownIsServed, TellsTrue, File
<1>6. RequestOK'
  BY <1>1 DEF RequestOK
<1> QED BY <1>1, <1>4, <1>5, <1>6 DEF HttpInv

\* Nothing is asked yet.
LEMMA InitHttpInv == HttpInit => HttpInv
BY DEF HttpInit, HttpInv, RequestOK, ReadersAreFramed, ShownIsServed

\* Every step of the browser and the front.
LEMMA HttpPreserved == HttpInv /\ [HttpNext]_httpVars => HttpInv'
<1> SUFFICES ASSUME HttpInv, [HttpNext]_httpVars PROVE HttpInv'
  OBVIOUS
<1>1. CASE UNCHANGED httpVars
  BY <1>1 DEF httpVars, HttpInv, RequestOK, ReadersAreFramed, ShownIsServed
<1>2. CASE Connect
  BY <1>2 DEF Connect, HttpInv, RequestOK, ReadersAreFramed, ShownIsServed
<1>3. CASE Send
  <2>1. PICK path \in Paths, method \in Methods, gzip \in BOOLEAN, close \in BOOLEAN :
          \E have \in {Nothing, copy[path]}, range \in Ranges \cup {Nothing} :
             req' = [method |-> method, path |-> path, range |-> range, gzip |-> gzip,
                     held |-> have, close |-> close]
    BY <1>3 DEF Send
  <2>2. RequestOK'
    BY <1>3, <2>1 DEF Send, RequestOK
  <2> QED BY <1>3, <2>2 DEF Send, HttpInv, ReadersAreFramed, ShownIsServed
<1>4. CASE AnswerLocally
  BY <1>4, LocalReply, WriteKeeps DEF AnswerLocally
<1>5. CASE NoPublisher
  BY <1>5, EdgeReply, WriteKeeps DEF NoPublisher
<1>6. CASE Forward
  BY <1>6 DEF Forward, HttpInv, RequestOK, ReadersAreFramed, ShownIsServed
<1>7. CASE Relay
  BY <1>7, RelayReply, WriteKeeps DEF Relay, HttpInv
<1>8. CASE RelayFails
  BY <1>8, EdgeReply, WriteKeeps DEF RelayFails
<1>9. CASE Close
  BY <1>9 DEF Close, HttpInv, RequestOK, ReadersAreFramed, ShownIsServed
<1>10. CASE OpenAnother
  BY <1>10 DEF OpenAnother, HttpInv, RequestOK, ReadersAreFramed, ShownIsServed
<1> QED BY <1>1, <1>2, <1>3, <1>4, <1>5, <1>6, <1>7, <1>8, <1>9, <1>10 DEF HttpNext

\* On a connection that stays open the browser is never left waiting for bytes
\* that do not come, nor given bytes it has not been told of, by either front
\* and for every site, request and range, but for the edge's 416.
THEOREM ReadersKnowTheEnd == HttpSpec => []ReadersAreFramed
<1>1. HttpInv => ReadersAreFramed
  BY DEF HttpInv
<1> QED BY <1>1, InitHttpInv, HttpPreserved, PTL DEF HttpSpec

\* What a browser shows is what is served now, whole or the very bytes its range
\* names, also when it kept a copy from another app on the same address.
THEOREM BrowsersShowTheSite == HttpSpec => []ShownIsServed
<1>1. HttpInv => ShownIsServed
  BY DEF HttpInv
<1> QED BY <1>1, InitHttpInv, HttpPreserved, PTL DEF HttpSpec
=============================================================================
