----------------------------- MODULE TempRename ----------------------------
(***************************************************************************)
(* How the store writes an object: create or cut short a temporary file,    *)
(* write the bytes, rename it into place.  The temporary name depends on    *)
(* the object id alone and several processes share the user store, so the   *)
(* writers of one id share it; they all write the same bytes.  The module   *)
(* follows the two directory entries of one id and the open files behind    *)
(* them.                                                                    *)
(***************************************************************************)
CONSTANT Writers

VARIABLES
    file,       \* what the object's name holds
    tmp,        \* what the temporary name holds
    put,        \* progress of each put_verified
    fd,         \* what a writer's open file is: still the temporary name, the
                \* object's name after a rename, or neither
    lost        \* an object was evicted or a writer died on the way

storeVars == <<file, tmp, put, fd, lost>>

Contents == {"absent", "torn", "whole"}

StoreInit ==
    /\ file = "absent" /\ tmp = "absent"
    /\ put = [w \in Writers |-> "idle"]
    /\ fd = [w \in Writers |-> "none"]
    /\ lost = FALSE

\* fs::write creates the temporary file or cuts it short ...
Open(w) ==
    /\ put[w] \in {"idle", "ok", "failed"}
    /\ put' = [put EXCEPT ![w] = "opened"]
    /\ fd' = [fd EXCEPT ![w] = "tmp"]
    /\ tmp' = "torn"
    /\ UNCHANGED <<file, lost>>

\* Mutant: the bytes go to whatever the temporary name is now.
WriteByName(w) ==
    /\ put[w] = "opened"
    /\ put' = [put EXCEPT ![w] = "written"]
    /\ tmp' = "whole"
    /\ UNCHANGED <<file, fd, lost>>

\* ... and writes the bytes to the file it opened, whatever its name is by now.
Write(w) ==
    /\ put[w] = "opened"
    /\ put' = [put EXCEPT ![w] = "written"]
    /\ tmp' = IF fd[w] = "tmp" THEN "whole" ELSE tmp
    /\ file' = IF fd[w] = "file" THEN "whole" ELSE file
    /\ UNCHANGED <<fd, lost>>

\* The files behind the two names after a rename of the temporary one.
Renamed(w) ==
    [x \in Writers |-> IF x = w THEN "none"
                       ELSE IF fd[x] = "tmp" THEN "file"
                       ELSE IF fd[x] = "file" THEN "gone" ELSE fd[x]]

\* Mutant: the rename happens before the bytes are written out.
RenameEarly(w) ==
    /\ put[w] = "opened" /\ tmp # "absent"
    /\ file' = tmp /\ tmp' = "absent"
    /\ put' = [put EXCEPT ![w] = "ok"] /\ fd' = Renamed(w)
    /\ UNCHANGED lost

Rename(w) ==
    /\ put[w] = "written" /\ tmp # "absent"
    /\ file' = tmp /\ tmp' = "absent"
    /\ put' = [put EXCEPT ![w] = "ok"] /\ fd' = Renamed(w)
    /\ UNCHANGED lost

\* Another writer has renamed the temporary file away.
RenameFails(w) ==
    /\ put[w] = "written" /\ tmp = "absent"
    /\ put' = [put EXCEPT ![w] = "failed"] /\ fd' = [fd EXCEPT ![w] = "none"]
    /\ UNCHANGED <<file, tmp, lost>>

\* Storage.delete.
Delete ==
    /\ file # "absent"
    /\ file' = "absent" /\ lost' = TRUE
    /\ fd' = [w \in Writers |-> IF fd[w] = "file" THEN "gone" ELSE fd[w]]
    /\ UNCHANGED <<tmp, put>>

\* The process of a writer dies.
Die(w) ==
    /\ put[w] \in {"opened", "written"}
    /\ put' = [put EXCEPT ![w] = "idle"] /\ fd' = [fd EXCEPT ![w] = "none"]
    /\ lost' = TRUE
    /\ UNCHANGED <<file, tmp>>

StoreNext ==
    \/ \E w \in Writers : Open(w) \/ Write(w) \/ Rename(w) \/ RenameFails(w) \/ Die(w)
    \/ Delete

StoreSpec == StoreInit /\ [][StoreNext]_storeVars

-----------------------------------------------------------------------------
(* Properties.                                                              *)

\* Type correctness of the two names and of the writers.
StoreTypeOK ==
    /\ file \in Contents /\ tmp \in Contents
    /\ put \in [Writers -> {"idle", "opened", "written", "ok", "failed"}]
    /\ fd \in [Writers -> {"none", "tmp", "file", "gone"}]
    /\ lost \in BOOLEAN

Busy(w) == put[w] \in {"opened", "written"}

\* Whatever the order of their opens, writes and renames, once some put has
\* ended and none is under way the object is there, whole: even the put that
\* failed had another one store it (put_verified's callers go on from here).
SettledIsWhole ==
    (\E w \in Writers : put[w] \in {"ok", "failed"}) /\ (\A w \in Writers : ~Busy(w)) /\ ~lost
        => file = "whole"

\* A name that holds a torn file is one a live writer is still about to fill,
\* unless a process died on the way: readers that find it torn may retry.
TornIsBeingWritten ==
    ~lost => /\ file = "torn" => \E w \in Writers : put[w] = "opened" /\ fd[w] = "file"
             /\ tmp = "torn" => \E w \in Writers : put[w] = "opened" /\ fd[w] = "tmp"

\* storage.rs:26: "a concurrent writer ... can never leave a torn file behind".
NeverTorn == file # "torn"

\* storage.rs:29: "concurrent renames are idempotent".
RenamesAreIdempotent == \A w \in Writers : put[w] # "failed"

-----------------------------------------------------------------------------
(* Why what has settled is whole.                                           *)

\* No one loses the temporary file, and nothing ends, before a rename put
\* something under the object's name.
EndedIsStored ==
    ~lost => /\ (\E w \in Writers : put[w] \in {"ok", "failed"}) => file # "absent"
             /\ \A w \in Writers : Busy(w) /\ fd[w] # "tmp" => file # "absent"
             /\ \A w \in Writers : Busy(w) /\ fd[w] = "tmp" => tmp # "absent"

StoreInv == StoreTypeOK /\ TornIsBeingWritten /\ EndedIsStored
=============================================================================
