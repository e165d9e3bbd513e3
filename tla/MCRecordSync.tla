---------------------------- MODULE MCRecordSync ----------------------------
(* Inputs for the runs of RecordSync.                                       *)
EXTENDS RecordSync

MCProfile == <<"profile">>
MCOrder == <<"profile", "contacts">>
MCAnnounced == {"profile"}
=============================================================================
