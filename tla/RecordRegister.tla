--------------------------- MODULE RecordRegister ---------------------------
(***************************************************************************)
(* What the records of an identity promise its devices.  A device signs    *)
(* versions of a record, each its own object, at times that do not go      *)
(* back; it makes them its own version one after the other, newer ones     *)
(* last, and may then give its own version to the others.  What a device   *)
(* reads of a record is a version of that record, its own or one that was  *)
(* given, whatever was saved, read and synced at the same time.            *)
(***************************************************************************)
EXTENDS Naturals, Sequences

CONSTANTS
    Devices,
    Records,
    Times           \* the times a device can sign at, numbers

VARIABLES
    versions,       \* every version signed: by whom, of what, and when
    own,            \* per device and record, the last version it made its own, or 0
    current,        \* per device and record, the version it reads, or 0
    given           \* the versions given to other devices

registerVars == <<versions, own, current, given>>

RegisterInit ==
    /\ versions = <<>> /\ given = {}
    /\ own = [d \in Devices |-> [r \in Records |-> 0]]
    /\ current = own

\* A device's version of a record that is not older than its own.
Follows(v, d, r) ==
    /\ v.by = d /\ v.rec = r
    /\ own[d][r] # 0 => versions[own[d][r]].at <= v.at

Sign(d, r, v) ==
    /\ Follows(v, d, r)
    /\ versions' = Append(versions, v)
    /\ UNCHANGED <<own, current, given>>

\* A device that crashed leaves out a version it had signed.
MakeOwn(d, r, n) ==
    /\ n \in DOMAIN versions /\ n > own[d][r] /\ Follows(versions[n], d, r)
    /\ own' = [own EXCEPT ![d][r] = n]
    /\ current' = [current EXCEPT ![d][r] = n]
    /\ UNCHANGED <<versions, given>>

Give(d, r) ==
    /\ own[d][r] # 0
    /\ given' = given \cup {own[d][r]}
    /\ UNCHANGED <<versions, own, current>>

Adopt(d, r, n) ==
    /\ n \in given /\ versions[n].rec = r
    /\ current' = [current EXCEPT ![d][r] = n]
    /\ UNCHANGED <<versions, own, given>>

RegisterNext ==
    \E d \in Devices, r \in Records :
        \/ \E at \in Times : Sign(d, r, [by |-> d, rec |-> r, at |-> at])
        \/ \E n \in DOMAIN versions : MakeOwn(d, r, n)
        \/ Give(d, r)
        \/ \E n \in given : Adopt(d, r, n)

RegisterSpec == RegisterInit /\ [][RegisterNext]_registerVars
=============================================================================
