-------------------------- MODULE LocalData_proofs --------------------------
(***************************************************************************)
(* What a device keeps of its own data.                                    *)
(*                                                                         *)
(* Files (TempRename): for any number of writers of one object id,         *)
(* whatever has settled in the store is whole.  A name can hold a torn     *)
(* file only while a live writer has that very file open and still to      *)
(* fill; when nobody writes, nothing is torn, and EndedIsStored says that  *)
(* something is there.                                                     *)
(*                                                                         *)
(* Lists (RecordEdits): for any number of devices, commands, syncs and     *)
(* edits, in any order, an edit that was reported stands until a writer    *)
(* that did not know of it is through.  That follows from what a running   *)
(* command holds of the edits it knew when it looked the list up (Holds),  *)
(* which no step of another command or sync can change.                    *)
(***************************************************************************)
EXTENDS TempRename, RecordEdits, SequenceTheorems, WellFoundedInduction, TLAPS

-----------------------------------------------------------------------------
(* Files.                                                                   *)

\* At the start nothing is stored and nobody writes.
LEMMA InitStoreInv == StoreInit => StoreInv
BY DEF StoreInit, StoreInv, StoreTypeOK, TornIsBeingWritten, EndedIsStored, Contents, Busy

\* Opening the temporary file: a writer with an open, unfilled file appears.
LEMMA OpenKeepsInv ==
    ASSUME StoreInv, NEW w \in Writers, Open(w)
    PROVE  StoreInv'
<1>1. StoreTypeOK'
  BY DEF StoreInv, StoreTypeOK, Open, Contents
<1>2. TornIsBeingWritten'
  BY DEF StoreInv, StoreTypeOK, TornIsBeingWritten, Open, Contents
<1>3. EndedIsStored'
  BY DEF StoreInv, StoreTypeOK, EndedIsStored, Open, Contents, Busy
<1> QED
  BY <1>1, <1>2, <1>3 DEF StoreInv

\* Writing fills the file behind the name the writer's file now has.
LEMMA WriteKeepsInv ==
    ASSUME StoreInv, NEW w \in Writers, Write(w)
    PROVE  StoreInv'
<1>1. StoreTypeOK'
  BY DEF StoreInv, StoreTypeOK, Write, Contents
<1>2. TornIsBeingWritten'
  BY DEF StoreInv, StoreTypeOK, TornIsBeingWritten, Write, Contents
<1>3. EndedIsStored'
  BY DEF StoreInv, StoreTypeOK, EndedIsStored, Write, Contents, Busy
<1> QED
  BY <1>1, <1>2, <1>3 DEF StoreInv

\* A rename moves the file, torn or whole, and its writers' open files with it.
LEMMA RenameKeepsInv ==
    ASSUME StoreInv, NEW w \in Writers, Rename(w)
    PROVE  StoreInv'
<1>1. StoreTypeOK'
  BY DEF StoreInv, StoreTypeOK, Rename, Renamed, Contents
<1>2. TornIsBeingWritten'
  BY DEF StoreInv, StoreTypeOK, TornIsBeingWritten, Rename, Renamed, Contents
<1>3. EndedIsStored'
  BY DEF StoreInv, StoreTypeOK, EndedIsStored, Rename, Renamed, Contents, Busy
<1> QED
  BY <1>1, <1>2, <1>3 DEF StoreInv

\* A rename fails only when the writer's file has the object's name already.
LEMMA RenameFailsKeepsInv ==
    ASSUME StoreInv, NEW w \in Writers, RenameFails(w)
    PROVE  StoreInv'
<1>1. StoreTypeOK'
  BY DEF StoreInv, StoreTypeOK, RenameFails, Contents
<1>2. TornIsBeingWritten'
  BY DEF StoreInv, StoreTypeOK, TornIsBeingWritten, RenameFails, Contents
<1>3. EndedIsStored'
  BY DEF StoreInv, StoreTypeOK, EndedIsStored, RenameFails, Contents, Busy
<1> QED
  BY <1>1, <1>2, <1>3 DEF StoreInv

\* Once an object is evicted or a writer dies the promises are off.
LEMMA LossKeepsInv ==
    ASSUME StoreInv, Delete \/ \E w \in Writers : Die(w)
    PROVE  StoreInv'
<1>1. StoreTypeOK'
  BY DEF StoreInv, StoreTypeOK, Delete, Die, Contents
<1>2. lost'
  BY DEF Delete, Die
<1> QED
  BY <1>1, <1>2 DEF StoreInv, TornIsBeingWritten, EndedIsStored

\* The store's invariant, for any number of writers of one id.
THEOREM StoreInvariant == StoreSpec => []StoreInv
<1>1. StoreInv /\ [StoreNext]_storeVars => StoreInv'
  <2> SUFFICES ASSUME StoreInv, [StoreNext]_storeVars PROVE StoreInv'
    OBVIOUS
  <2>1. CASE UNCHANGED storeVars
    BY <2>1 DEF storeVars, StoreInv, StoreTypeOK, TornIsBeingWritten, EndedIsStored, Busy
  <2>2. CASE \E w \in Writers : Open(w)
    BY <2>2, OpenKeepsInv
  <2>3. CASE \E w \in Writers : Write(w)
    BY <2>3, WriteKeepsInv
  <2>4. CASE \E w \in Writers : Rename(w)
    BY <2>4, RenameKeepsInv
  <2>5. CASE \E w \in Writers : RenameFails(w)
    BY <2>5, RenameFailsKeepsInv
  <2>6. CASE Delete \/ \E w \in Writers : Die(w)
    BY <2>6, LossKeepsInv
  <2> QED
    BY <2>1, <2>2, <2>3, <2>4, <2>5, <2>6 DEF StoreNext
<1> QED
  BY <1>1, InitStoreInv, PTL DEF StoreSpec

\* A torn file is about to be completed by a live writer, unless one died.
THEOREM TornIsTransient == StoreSpec => []TornIsBeingWritten
<1>1. StoreInv => TornIsBeingWritten
  BY DEF StoreInv
<1> QED
  BY <1>1, StoreInvariant, PTL

\* Concurrent writers of one id may fail, but what they leave is whole.
THEOREM StoreSettlesWhole == StoreSpec => []SettledIsWhole
<1>1. StoreInv => SettledIsWhole
  BY DEF StoreInv, SettledIsWhole, StoreTypeOK, TornIsBeingWritten, EndedIsStored, Contents, Busy
<1> QED
  BY <1>1, StoreInvariant, PTL

-----------------------------------------------------------------------------
(* Lists that are edited: what a change makes of the entries.               *)

\* The smallest of a set of indices.
LEMMA Smallest ==
    ASSUME NEW I, I \subseteq Nat, I # {}
    PROVE  Min(I) \in I /\ \A i \in I : Min(I) <= i
<1>1. PICK m \in I : \A i \in I : ~ (<<i, m>> \in OpToRel(<, Nat))
  BY NatLessThanWellFounded, WFMin
<1>2. \A i \in I : ~(i < m)
  BY <1>1 DEF OpToRel
<1>3. \A i \in I : m <= i
  BY <1>2
<1>4. \E x \in I : \A y \in I : x <= y
  BY <1>3
<1>5. Min(I) = CHOOSE x \in I : \A y \in I : x <= y
  BY DEF Min
<1> QED BY <1>4, <1>5, Zenon

\* by_id finds the first grant of a capability, if there is one.
LEMMA FirstGrant ==
    ASSUME NEW s \in Seq(Grants), NEW id
    PROVE  /\ by_id(s, id) # 0 => by_id(s, id) \in 1..Len(s) /\ s[by_id(s, id)].cap = id
           /\ \A j \in 1..Len(s) : s[j].cap = id => by_id(s, id) # 0 /\ by_id(s, id) <= j
<1> DEFINE I == {i \in 1..Len(s) : s[i].cap = id}
<1>1. by_id(s, id) = IF I # {} THEN Min(I) ELSE 0
  BY DEF by_id, SelectInSeq
<1>2. I \subseteq Nat /\ Len(s) \in Nat
  BY LenProperties
<1>3. I # {} => Min(I) \in I /\ \A i \in I : Min(I) <= i
  <2> HIDE DEF I
  <2> QED BY <1>2, Smallest
<1>4. by_id(s, id) # 0 => by_id(s, id) \in I
  BY <1>1, <1>3
<1>5. ASSUME NEW j \in 1..Len(s), s[j].cap = id
      PROVE  by_id(s, id) # 0 /\ by_id(s, id) <= j
  <2>1. j \in I
    BY <1>5
  <2>2. by_id(s, id) = Min(I) /\ Min(I) \in I /\ Min(I) <= j
    <3> HIDE DEF I
    <3> QED BY <1>1, <1>3, <2>1
  <2> QED BY <1>2, <2>2
<1> QED BY <1>4, <1>5

\* The same of contacts and their names.
LEMMA FirstOfName ==
    ASSUME NEW s \in Seq(Cards), NEW name
    PROVE  by_name(s, name) # 0 =>
             by_name(s, name) \in 1..Len(s) /\ s[by_name(s, name)].name = name
<1> DEFINE I == {i \in 1..Len(s) : s[i].name = name}
<1>1. by_name(s, name) = IF I # {} THEN Min(I) ELSE 0
  BY DEF by_name, SelectInSeq
<1>2. I \subseteq Nat /\ Len(s) \in Nat
  BY LenProperties
<1>3. I # {} => Min(I) \in I /\ \A i \in I : Min(I) <= i
  <2> HIDE DEF I
  <2> QED BY <1>2, Smallest
<1> QED BY <1>1, <1>2, <1>3

\* A grant at the end of the list changes the first grant of no capability that
\* has one.
LEMMA AppendGrant ==
    ASSUME NEW s \in Seq(Grants), NEW job, job.op = "grant", job.cap \in Caps,
           NEW t, t = Change(s, job)
    PROVE  /\ t \in Seq(Grants) /\ by_id(t, job.cap) # 0
           /\ \A id : by_id(s, id) # 0 =>
                by_id(t, id) = by_id(s, id) /\ t[by_id(t, id)] = s[by_id(s, id)]
<1> DEFINE g == [cap |-> job.cap, revoked |-> FALSE]
<1>0. g \in Grants /\ g.cap = job.cap /\ t = Append(s, g)
  BY DEF Grants, Change
<1> HIDE DEF g
<1>1. /\ t \in Seq(Grants) /\ Len(s) \in Nat /\ Len(t) = Len(s) + 1 /\ t[Len(s) + 1] = g
      /\ \A k \in 1..Len(s) : t[k] = s[k] /\ k \in 1..Len(t)
  BY <1>0, AppendProperties
<1>2. by_id(t, job.cap) # 0
  <2>1. Len(s) + 1 \in 1..Len(t)
    BY <1>1
  <2> QED BY <1>0, <1>1, <2>1, FirstGrant
<1>3. ASSUME NEW id, by_id(s, id) # 0
      PROVE  by_id(t, id) = by_id(s, id) /\ t[by_id(t, id)] = s[by_id(s, id)]
  <2>1. /\ by_id(s, id) \in 1..Len(s) /\ s[by_id(s, id)].cap = id
        /\ \A j \in 1..Len(s) : s[j].cap = id => by_id(s, id) <= j
    BY <1>3, FirstGrant
  <2>2. by_id(t, id) # 0
    <3>1. by_id(s, id) \in 1..Len(t) /\ t[by_id(s, id)].cap = id
      BY <1>1, <2>1
    <3> QED BY <1>1, <3>1, FirstGrant
  <2>3. /\ by_id(t, id) \in 1..Len(t) /\ t[by_id(t, id)].cap = id
        /\ \A j \in 1..Len(t) : t[j].cap = id => by_id(t, id) <= j
    BY <1>1, <2>2, FirstGrant
  <2>4. by_id(t, id) <= by_id(s, id)
    BY <1>1, <2>1, <2>3
  <2>5. by_id(t, id) \in 1..Len(s) /\ s[by_id(t, id)].cap = id
    BY <1>1, <2>1, <2>3, <2>4
  <2>6. by_id(t, id) = by_id(s, id)
    BY <1>1, <2>1, <2>4, <2>5
  <2> QED BY <1>1, <2>1, <2>6
<1> QED BY <1>1, <1>2, <1>3

\* The grants t hold every grant of s, those it has revoked, and cap, revoked.
Revokes(s, t, cap) ==
    /\ t \in Seq(Grants) /\ by_id(t, cap) # 0 /\ t[by_id(t, cap)].revoked
    /\ \A id : by_id(s, id) # 0 =>
         /\ by_id(t, id) # 0
         /\ s[by_id(s, id)].revoked => t[by_id(t, id)].revoked

\* A revocation flags one entry and moves none.
LEMMA FlagGrant ==
    ASSUME NEW s \in Seq(Grants), NEW cap, by_id(s, cap) # 0,
           NEW t, t = [s EXCEPT ![by_id(s, cap)].revoked = TRUE]
    PROVE  Revokes(s, t, cap)
<1> DEFINE n == by_id(s, cap)
           g == [s[n] EXCEPT !.revoked = TRUE]
<1>1. n \in 1..Len(s)
  BY FirstGrant
<1> HIDE DEF n
<1>2. s[n] \in Grants
  BY <1>1, ElementOfSeq
<1>3. g \in Grants /\ g.cap = s[n].cap /\ g.revoked
  BY <1>2 DEF Grants
<1>4. t = [s EXCEPT ![n] = g]
  BY DEF n
<1> HIDE DEF g
<1>5. /\ t \in Seq(Grants) /\ Len(t) = Len(s) /\ Len(s) \in Nat
      /\ \A j \in 1..Len(s) : t[j] = IF j = n THEN g ELSE s[j]
  <2>1. Len(s) \in Nat
    BY LenProperties
  <2>2. /\ [s EXCEPT ![n] = g] \in Seq(Grants) /\ Len([s EXCEPT ![n] = g]) = Len(s)
        /\ \A j \in 1..Len(s) : [s EXCEPT ![n] = g][j] = IF j = n THEN g ELSE s[j]
    BY <1>1, <1>3, ExceptSeq
  <2> QED BY <1>4, <2>1, <2>2
<1>6. \A j \in 1..Len(s) : t[j].cap = s[j].cap /\ (s[j].revoked => t[j].revoked)
  BY <1>1, <1>3, <1>5
<1>7. ASSUME NEW id, by_id(s, id) # 0 PROVE by_id(t, id) = by_id(s, id) /\ by_id(s, id) \in 1..Len(s)
  <2>1. /\ by_id(s, id) \in 1..Len(s) /\ s[by_id(s, id)].cap = id
        /\ \A j \in 1..Len(s) : s[j].cap = id => by_id(s, id) <= j
    BY <1>7, FirstGrant
  <2>2. by_id(t, id) # 0 /\ by_id(t, id) <= by_id(s, id)
    <3>1. by_id(s, id) \in 1..Len(t) /\ t[by_id(s, id)].cap = id
      BY <1>5, <1>6, <2>1
    <3> QED BY <1>5, <3>1, FirstGrant
  <2>3. by_id(t, id) \in 1..Len(t) /\ t[by_id(t, id)].cap = id
    BY <1>5, <2>2, FirstGrant
  <2>4. by_id(t, id) \in 1..Len(s) /\ s[by_id(t, id)].cap = id
    BY <1>5, <1>6, <2>3
  <2>5. by_id(s, id) <= by_id(t, id)
    BY <2>1, <2>4
  <2> QED BY <1>5, <2>1, <2>2, <2>4, <2>5
<1>8. by_id(t, cap) = n /\ t[n].revoked
  BY <1>1, <1>3, <1>5, <1>7 DEF n
<1> QED BY <1>1, <1>5, <1>6, <1>7, <1>8 DEF Revokes

\* A contact takes the place of one of its name, or the end of the list.
LEMMA PutContact ==
    ASSUME NEW s \in Seq(Cards), NEW job, job.op = "contact", job.card \in Cards,
           NEW t, t = Change(s, job)
    PROVE  /\ t \in Seq(Cards) /\ job.card \in ToSet(t)
           /\ \A other \in ToSet(s) : other.name # job.card.name => other \in ToSet(t)
<1> DEFINE card == job.card
           n == by_name(s, card.name)
<1>1. t = IF n = 0 THEN Append(s, card) ELSE [s EXCEPT ![n] = card]
  BY DEF Change
<1>2. n # 0 => n \in 1..Len(s) /\ s[n].name = card.name
  BY FirstOfName
<1> HIDE DEF n
<1>3. CASE n = 0
  <2>1. /\ t \in Seq(Cards) /\ Len(s) \in Nat /\ Len(t) = Len(s) + 1 /\ t[Len(s) + 1] = card
        /\ \A k \in 1..Len(s) : t[k] = s[k] /\ k \in 1..Len(t)
    BY <1>1, <1>3, AppendProperties
  <2>2. DOMAIN s = 1..Len(s) /\ DOMAIN t = 1..Len(t) /\ Len(s) + 1 \in 1..Len(t)
    BY <2>1, LenProperties
  <2> QED BY <2>1, <2>2 DEF ToSet
<1>4. CASE n # 0
  <2>1. /\ t \in Seq(Cards) /\ Len(t) = Len(s) /\ Len(s) \in Nat
        /\ \A j \in 1..Len(s) : t[j] = IF j = n THEN card ELSE s[j]
    BY <1>1, <1>2, <1>4, ExceptSeq, LenProperties
  <2>2. DOMAIN s = 1..Len(s) /\ DOMAIN t = 1..Len(t)
    BY <2>1, LenProperties
  <2> QED BY <1>2, <1>4, <2>1, <2>2 DEF ToSet
<1> QED BY <1>3, <1>4

-----------------------------------------------------------------------------
\* What a list holds, what names it, and what is asked of it.
Entries == IF list = "contacts" THEN Cards ELSE Grants

ListsNow == [entries : Seq(Entries), version : Nat]

PointersNow == [list : ListsNow, at : Nat]

CapJobs == [op : {"grant", "revoke"}, cap : Caps]

Edits == IF list = "contacts" THEN [op : {"contact"}, card : Cards] ELSE CapJobs

JobOK(job) ==
    \/ job.op \in {"check", "access", "sync"}
    \/ list = "contacts" /\ job.op = "contact" /\ job.card \in Cards
    \/ list = "capabilities" /\ job \in CapJobs

Words == {"step", "saving", "job", "found", "list", "knew"}

Steps == {"look", "keep", "read", "loaded", "publish", "scan", "fetch"}

TaskTyped(t) ==
    \/ t = Idle
    \/ t.step = "done"
    \/ /\ t.step \in Steps /\ DOMAIN t = Words
       /\ t.saving \in BOOLEAN /\ JobOK(t.job) /\ t.list \in ListsNow
       /\ t.step \in {"keep", "read", "publish", "fetch"} => t.found \in PointersNow
       /\ t.saving => t.job.op = "contact" /\ t.job.sent \in Seq(Cards)
       /\ t.saving \/ t.step \in {"keep", "read", "loaded", "publish"} => t.knew \in [Devices -> SUBSET Edits]

EditTyped ==
    /\ list \in {"capabilities", "contacts"} /\ clock \in Nat
    /\ lists \in [Devices -> SUBSET ListsNow]
    /\ recordFile \in [Devices -> PointersNow \cup {Null}]
    /\ pushed \in [Devices -> SUBSET PointersNow]
    /\ due \in [Devices -> SUBSET Edits]
    /\ DOMAIN task = Callers /\ \A c \in Callers : TaskTyped(task[c])

\* The edit a command reports, and the edits that stand once it has.
Reported(job) == IF list = "contacts" THEN [op |-> "contact", card |-> job.card] ELSE job

Outdated(edits, job) ==
    IF list = "contacts" THEN {a \in edits : a.card.name = job.card.name} ELSE {}

Standing(edits, job) == (edits \ Outdated(edits, job)) \cup {Reported(job)}

\* An edit of a list keeps the edits it does not replace.
LEMMA ChangeStands ==
    ASSUME list \in {"capabilities", "contacts"}, NEW entries \in Seq(Entries),
           NEW job, JobOK(job), IsEdit(job),
           job.op = "revoke" => by_id(entries, job.cap) # 0,
           NEW edits \in SUBSET Edits, \A e \in edits : Stands(entries, e)
    PROVE  /\ Change(entries, job) \in Seq(Entries)
           /\ \A e \in Standing(edits, job) : Stands(Change(entries, job), e)
           /\ Standing(edits, job) \in SUBSET Edits
<1> DEFINE new == Change(entries, job)
<1>1. CASE list = "contacts"
  <2>1. job.op = "contact" /\ job.card \in Cards /\ entries \in Seq(Cards)
    BY <1>1 DEF JobOK, IsEdit, EditsOf, Entries
  <2>2. /\ new \in Seq(Cards) /\ job.card \in ToSet(new)
        /\ \A other \in ToSet(entries) : other.name # job.card.name => other \in ToSet(new)
    BY <2>1, PutContact
  <2> HIDE DEF new
  <2>3. \A e \in edits : e.op = "contact" /\ e \in Edits /\ e.card \in ToSet(entries)
    BY <1>1 DEF Edits, Stands
  <2>4. \A e \in edits \ Outdated(edits, job) : Stands(new, e)
    BY <1>1, <2>2, <2>3 DEF Outdated, Stands
  <2>5. Stands(new, Reported(job)) /\ Reported(job) \in Edits
    BY <1>1, <2>1, <2>2 DEF Reported, Stands, Edits
  <2>6. new \in Seq(Entries)
    BY <1>1, <2>2 DEF Entries
  <2> QED BY <2>4, <2>5, <2>6 DEF Standing, new
<1>2. CASE list = "capabilities" /\ job.op = "grant"
  <2>1. job \in CapJobs /\ entries \in Seq(Grants)
    BY <1>2 DEF JobOK, Entries
  <2>2. job.cap \in Caps
    BY <2>1 DEF CapJobs
  <2>3. /\ new \in Seq(Grants) /\ by_id(new, job.cap) # 0
        /\ \A id : by_id(entries, id) # 0 =>
             by_id(new, id) = by_id(entries, id) /\ new[by_id(new, id)] = entries[by_id(entries, id)]
    BY <1>2, <2>1, <2>2, AppendGrant
  <2> HIDE DEF new
  <2>4. ASSUME NEW e \in edits PROVE Stands(new, e)
    <3>1. e.op \in {"grant", "revoke"} /\ Stands(entries, e)
      BY <1>2 DEF Edits, CapJobs
    <3> QED BY <2>3, <3>1 DEF Stands
  <2>5. Stands(new, job)
    BY <1>2, <2>3 DEF Stands
  <2> QED BY <1>2, <2>1, <2>3, <2>4, <2>5
          DEF Standing, Outdated, Reported, Entries, Edits, new
<1>3. CASE list = "capabilities" /\ job.op = "revoke"
  <2>1. job \in CapJobs /\ entries \in Seq(Grants) /\ by_id(entries, job.cap) # 0
    BY <1>3 DEF JobOK, Entries
  <2>2. new = [entries EXCEPT ![by_id(entries, job.cap)].revoked = TRUE]
    BY <1>3 DEF Change
  <2> DEFINE cap == job.cap
  <2>3. /\ new \in Seq(Grants) /\ by_id(new, cap) # 0 /\ new[by_id(new, cap)].revoked
        /\ \A id : by_id(entries, id) # 0 =>
             /\ by_id(new, id) # 0
             /\ entries[by_id(entries, id)].revoked => new[by_id(new, id)].revoked
    <3>1. by_id(entries, cap) # 0 /\ new = [entries EXCEPT ![by_id(entries, cap)].revoked = TRUE]
      BY <2>1, <2>2
    <3> HIDE DEF new, cap
    <3>2. Revokes(entries, new, cap)
      BY ONLY <2>1, <3>1, FlagGrant
    <3> QED BY <3>2 DEF Revokes, cap
  <2> HIDE DEF new
  <2>4. ASSUME NEW e \in edits PROVE Stands(new, e)
    <3>1. e.op \in {"grant", "revoke"} /\ Stands(entries, e)
      BY <1>3 DEF Edits, CapJobs
    <3> QED BY <2>3, <3>1 DEF Stands
  <2>5. Stands(new, job)
    BY <1>3, <2>3 DEF Stands
  <2> QED BY <1>3, <2>1, <2>3, <2>4, <2>5
          DEF Standing, Outdated, Reported, Entries, Edits, new
<1> QED BY <1>1, <1>2, <1>3 DEF IsEdit, EditsOf

-----------------------------------------------------------------------------
(* The inductive invariant: what a command holds of the edits it knew when   *)
(* it looked the list up.                                                    *)

AllStand(entries, edits) == \A e \in edits : Stands(entries, e)

\* A record file that is due edits leads to a list the device has.
Kept(d) == due[d] # {} => recordFile[d] # Null /\ recordFile[d].list \in lists[d]

\* What a command found, loaded, sends or publishes has the edits it knew; the
\* second look of save_contact_list, for the version, changes none of it.
Holds(t, d) ==
    /\ t.step = "keep" /\ ~t.saving => t.knew[d] = {}
    /\ t.step = "read" /\ ~t.saving =>
         /\ t.knew[d] # {} => t.found.list \in lists[d]
         /\ AllStand(t.found.list.entries, t.knew[d])
    /\ t.step = "loaded" /\ ~t.saving => AllStand(t.list.entries, t.knew[d])
    /\ t.saving => AllStand(t.job.sent, Standing(t.knew[d], t.job))
    /\ t.step = "publish" =>
         /\ t.found.list \in lists[d] /\ IsEdit(t.job)
         /\ AllStand(t.found.list.entries, Standing(t.knew[d], t.job))

Refused(t, d) ==
    t.job.op = "check" /\ [op |-> "revoke", cap |-> t.job.cap] \in t.knew[d] => ~t.yes

InOrder(t, d) ==
    /\ t.step \notin {"idle", "done"} => Holds(t, d)
    /\ t.step = "done" => Refused(t, d)

EditInv ==
    /\ EditTyped
    /\ \A c \in Callers : InOrder(task[c], Home[c])
    /\ \A d \in Devices : Kept(d)
    /\ EditsStand

\* The words of a running command.
LEMMA RunningTask ==
    ASSUME EditInv, NEW c \in Callers, Running(c), NEW t, t = task[c]
    PROVE  /\ t.step \in Steps /\ DOMAIN t = Words
           /\ t.saving \in BOOLEAN /\ JobOK(t.job) /\ t.list \in ListsNow
           /\ t.step \in {"keep", "read", "publish", "fetch"} => t.found \in PointersNow
           /\ t.saving => t.job.op = "contact" /\ t.job.sent \in Seq(Cards)
           /\ t.saving \/ t.step \in {"keep", "read", "loaded", "publish"} => t.knew \in [Devices -> SUBSET Edits]
           /\ Home[c] \in Devices /\ DOMAIN task = Callers /\ Holds(t, Home[c])
BY EditAssumption DEF EditInv, EditTyped, TaskTyped, Running, Idle, InOrder

\* The commands after a step of one of them: the others hold what they held.
LEMMA OthersHold ==
    ASSUME EditInv, NEW c \in Callers, DOMAIN task' = Callers,
           \A o \in Callers \ {c} : task'[o] = task[o],
           TaskTyped(task'[c]), InOrder(task[c], Home[c])', UNCHANGED list,
           \A d \in Devices : lists[d] \subseteq lists'[d]
    PROVE  /\ \A o \in Callers : TaskTyped(task[o])'
           /\ \A o \in Callers : InOrder(task[o], Home[o])'
<1>1. ASSUME NEW o \in Callers PROVE TaskTyped(task[o])'
  <2>1. TaskTyped(task'[o])
    BY DEF EditInv, EditTyped
  <2> QED BY <2>1 DEF TaskTyped, JobOK, ListsNow, PointersNow, Entries, Edits
<1>2. ASSUME NEW o \in Callers \ {c} PROVE InOrder(task[o], Home[o])'
  <2>1. InOrder(task[o], Home[o]) /\ task'[o] = task[o] /\ lists[Home[o]] \subseteq lists'[Home[o]]
    BY EditAssumption DEF EditInv
  <2> QED BY <2>1 DEF InOrder, Holds, Refused, AllStand, Stands, IsEdit, Standing, Outdated, Reported
<1> QED BY <1>1, <1>2

\* A step of one command that leaves the device alone.
LEMMA CommandMoves ==
    ASSUME EditInv, NEW c \in Callers, NEW r, DOMAIN task' = Callers, task'[c] = r,
           \A o \in Callers \ {c} : task'[o] = task[o],
           TaskTyped(r), InOrder(r, Home[c]),
           UNCHANGED <<list, clock, recordFile, pushed, lists, due>>
    PROVE  EditInv'
<1>1. InOrder(task[c], Home[c])'
  BY DEF InOrder, Holds, Refused, AllStand, Stands, IsEdit, Standing, Outdated, Reported
<1>2. /\ \A o \in Callers : TaskTyped(task[o])'
      /\ \A o \in Callers : InOrder(task[o], Home[o])'
  BY <1>1, OthersHold
<1>3. EditTyped'
  BY <1>2 DEF EditInv, EditTyped, ListsNow, PointersNow, Entries, Edits
<1>4. (\A d \in Devices : Kept(d))'
  BY DEF EditInv, Kept
<1>5. EditsStand'
  BY DEF EditInv, EditsStand, Current
<1> QED BY <1>2, <1>3, <1>4, <1>5 DEF EditInv

LEMMA InvInit ==
    EditInit => EditInv
<1> SUFFICES ASSUME EditInit PROVE EditInv
  OBVIOUS
<1>1. EditTyped
  BY DEF EditInit, EditTyped, TaskTyped
<1>2. \A c \in Callers : task[c].step = "idle"
  BY DEF EditInit, Idle
<1> QED BY <1>1, <1>2, EditAssumption DEF EditInit, EditInv, InOrder, Kept, EditsStand

\* A command begins by looking.
LEMMA BeginKeeps ==
    ASSUME EditInv, NEW c \in Callers, Begin(c)
    PROVE  EditInv'
<1> DEFINE d == Home[c]
           s == task'[c]
<1>1. /\ UNCHANGED <<list, clock, recordFile, pushed, lists, due>>
      /\ d \in Devices /\ DOMAIN task = Callers
  BY EditAssumption DEF Begin, EditInv, EditTyped
<1>2. PICK job \in Commands(d) :
        task' = [task EXCEPT ![c] =
              [step |-> "look", saving |-> FALSE, job |-> job, found |-> Null,
               list |-> Absent, knew |-> Null]]
  BY DEF Begin
<1>3. /\ DOMAIN task' = Callers /\ \A o \in Callers \ {c} : task'[o] = task[o]
      /\ s.step = "look" /\ s.saving = FALSE /\ s.job = job /\ s.list = Absent
      /\ DOMAIN s = Words
  BY <1>1, <1>2 DEF Words
<1>5. JobOK(job)
  <2>1. CASE job.op \in {"check", "access", "sync"}
    BY <2>1 DEF JobOK
  <2>2. CASE job.op \notin {"check", "access", "sync"} /\ list = "contacts"
    <3> HIDE DEF d
    <3> QED BY <2>2 DEF Commands, JobOK
  <2>3. CASE job.op \notin {"check", "access", "sync"} /\ list = "capabilities"
    <3>1. \A o \in Offers : Issue(o) \in Caps
      BY DEF Issue, Caps, EditInv, EditTyped
    <3>2. Known \subseteq Caps
      <4> SUFFICES ASSUME NEW e \in UNION {ToSet(r.list.entries) : r \in UNION {pushed[o] : o \in Own}}
                   PROVE  e.cap \in Caps
        BY <2>3 DEF Known
      <4>1. PICK r \in UNION {pushed[o] : o \in Own} : e \in ToSet(r.list.entries)
        OBVIOUS
      <4>2. r \in PointersNow
        BY <4>1, EditAssumption DEF EditInv, EditTyped
      <4>3. r.list.entries \in Seq(Grants)
        BY <2>3, <4>2 DEF PointersNow, ListsNow, Entries
      <4>4. PICK i \in DOMAIN r.list.entries : e = r.list.entries[i]
        BY <4>1 DEF ToSet
      <4>5. e \in Grants
        BY <4>3, <4>4, ElementOfSeq, LenProperties
      <4> QED BY <4>5 DEF Grants
    <3>3. job \in CapJobs
      <4> HIDE DEF d
      <4> QED BY <2>3, <3>1, <3>2 DEF Commands, CapJobs
    <3> QED BY <2>3, <3>3 DEF JobOK
  <2> QED BY <2>1, <2>2, <2>3 DEF EditInv, EditTyped
<1>6. Absent \in ListsNow
  BY EmptySeq DEF Absent, ListsNow
<1>0. d = Home[c] /\ s = task'[c]
  OBVIOUS
<1> HIDE DEF s, d
<1>7. TaskTyped(s)
  BY <1>3, <1>5, <1>6 DEF TaskTyped, Steps
<1>8. InOrder(s, d)
  BY <1>3 DEF InOrder, Holds
<1> QED BY <1>0, <1>1, <1>3, <1>7, <1>8, CommandMoves

\* A command finds its record, with the edits due there, or none.
LEMMA LookUpKeeps ==
    ASSUME EditInv, NEW c \in Callers, LookUp(c)
    PROVE  EditInv'
<1> DEFINE t == task[c]
           d == Home[c]
           s == task'[c]
<1>1. /\ t.step = "look" /\ Running(c)
      /\ UNCHANGED <<list, clock, recordFile, pushed, lists, due>>
  BY DEF LookUp, Running
<1>2. /\ DOMAIN t = Words /\ t.saving \in BOOLEAN /\ JobOK(t.job) /\ t.list \in ListsNow
      /\ t.saving => t.job.op = "contact" /\ t.job.sent \in Seq(Cards)
      /\ t.saving => t.knew \in [Devices -> SUBSET Edits]
      /\ d \in Devices /\ DOMAIN task = Callers /\ Holds(t, d)
      /\ due \in [Devices -> SUBSET Edits]
  BY <1>1, RunningTask DEF EditInv, EditTyped
<1> DEFINE u == [t EXCEPT !.knew = IF t.saving THEN t.knew ELSE due]
           found == IF pushed[d] # {} THEN Newest(pushed[d]) ELSE UNION {pushed[o] : o \in Devices}
<1>a. \/ /\ recordFile[d] # Null
         /\ task' = [task EXCEPT ![c] = [u EXCEPT !.step = "read", !.found = recordFile[d]]]
      \/ /\ recordFile[d] = Null
         /\ \E p \in found : task' = [task EXCEPT ![c] = [u EXCEPT !.step = "keep", !.found = p]]
      \/ /\ recordFile[d] = Null
         /\ task' = [task EXCEPT ![c] = [u EXCEPT !.step = "loaded"]]
  BY DEF LookUp
<1>b. /\ DOMAIN u = Words /\ u.saving = t.saving /\ u.job = t.job /\ u.list = t.list
      /\ u.knew = IF t.saving THEN t.knew ELSE due
  BY <1>2 DEF Words
<1>c. /\ recordFile[d] # Null => recordFile[d] \in PointersNow
      /\ recordFile[d] = Null => due[d] = {}
      /\ found \subseteq PointersNow
  BY <1>2 DEF EditInv, EditTyped, Kept, Newest
<1>0. t = task[c] /\ d = Home[c] /\ s = task'[c]
  OBVIOUS
<1> HIDE DEF t, d, u, found
<1>3. /\ DOMAIN task' = Callers /\ \A o \in Callers \ {c} : task'[o] = task[o]
      /\ DOMAIN s = Words /\ s.saving = t.saving /\ s.job = t.job /\ s.list = t.list
      /\ s.knew = IF t.saving THEN t.knew ELSE due
  BY <1>2, <1>a, <1>b DEF Words
<1>4. /\ s.step \in {"keep", "read", "loaded"} /\ (s.step # "loaded" => s.found \in PointersNow)
      /\ IF s.step = "read" THEN s.found = recordFile[d] /\ recordFile[d] # Null ELSE due[d] = {}
  BY <1>2, <1>a, <1>b, <1>c DEF Words
<1>5. s.step = "read" => (due[d] # {} => s.found.list \in lists[d]) /\ AllStand(s.found.list.entries, due[d])
  <2> SUFFICES ASSUME s.step = "read", NEW e \in due[d]
               PROVE  s.found.list \in lists[d] /\ Stands(s.found.list.entries, e)
    BY DEF AllStand
  <2>1. Kept(d) /\ Stands(Current(d).entries, e)
    BY <1>2 DEF EditInv, EditsStand
  <2> QED BY <1>4, <2>1 DEF Kept, Current
<1> HIDE DEF s
<1>6. TaskTyped(s)
  BY <1>2, <1>3, <1>4 DEF TaskTyped, Steps
<1>7. InOrder(s, d)
  <2>1. CASE t.saving
    BY <1>2, <1>3, <1>4, <2>1 DEF InOrder, Holds
  <2>2. CASE ~t.saving
    <3>1. s.step = "loaded" => AllStand(s.list.entries, s.knew[d])
      BY <1>3, <1>4, <2>2 DEF AllStand
    <3> QED BY <1>3, <1>4, <1>5, <2>2, <3>1 DEF InOrder, Holds
  <2> QED BY <1>2, <2>1, <2>2
<1> QED BY <1>0, <1>1, <1>3, <1>6, <1>7, CommandMoves

\* A pointer put in place leaves the file due what it was due, if it is the one
\* that was there, and else nothing.
LEMMA PutInPlaceKeeps ==
    ASSUME EditInv, NEW c \in Callers, NEW d \in Devices, NEW p \in PointersNow, PutInPlace(d, p),
           NEW r, DOMAIN task' = Callers, task'[c] = r,
           \A o \in Callers \ {c} : task'[o] = task[o],
           TaskTyped(r), InOrder(r, Home[c]),
           UNCHANGED <<list, clock, pushed, lists>>
    PROVE  EditInv'
<1>1. /\ recordFile \in [Devices -> PointersNow \cup {Null}] /\ due \in [Devices -> SUBSET Edits]
      /\ \A o \in Devices : Kept(o)
  BY DEF EditInv, EditTyped
<1>2. /\ recordFile' \in [Devices -> PointersNow \cup {Null}] /\ due' \in [Devices -> SUBSET Edits]
      /\ \A o \in Devices : due'[o] # {} => recordFile'[o] = recordFile[o] /\ due'[o] = due[o]
  BY <1>1 DEF PutInPlace
<1>3. InOrder(task[c], Home[c])'
  BY DEF InOrder, Holds, Refused, AllStand, Stands, IsEdit, Standing, Outdated, Reported
<1>4. /\ \A o \in Callers : TaskTyped(task[o])'
      /\ \A o \in Callers : InOrder(task[o], Home[o])'
  BY <1>3, OthersHold
<1>5. EditTyped'
  BY <1>2, <1>4 DEF EditInv, EditTyped, ListsNow, PointersNow, Entries, Edits
<1>6. (\A o \in Devices : Kept(o))'
  BY <1>1, <1>2 DEF Kept
<1>7. EditsStand'
  <2> SUFFICES ASSUME NEW o \in Devices, NEW e \in due'[o] PROVE Stands(Current(o)'.entries, e)
    BY DEF EditsStand, Stands
  <2>1. Current(o)' = Current(o) /\ e \in due[o]
    BY <1>2 DEF Current
  <2> QED BY <2>1 DEF EditInv, EditsStand
<1> QED BY <1>4, <1>5, <1>6, <1>7 DEF EditInv

LEMMA KeepFoundKeeps ==
    ASSUME EditInv, NEW c \in Callers, KeepFound(c)
    PROVE  EditInv'
<1> DEFINE t == task[c]
           d == Home[c]
           s == task'[c]
<1>1. /\ t.step = "keep" /\ Running(c) /\ PutInPlace(d, t.found)
      /\ UNCHANGED <<list, clock, pushed, lists>>
  BY DEF KeepFound, Running
<1>2. /\ DOMAIN t = Words /\ t.saving \in BOOLEAN /\ JobOK(t.job) /\ t.list \in ListsNow
      /\ t.found \in PointersNow /\ t.knew \in [Devices -> SUBSET Edits]
      /\ t.saving => t.job.op = "contact" /\ t.job.sent \in Seq(Cards)
      /\ d \in Devices /\ DOMAIN task = Callers /\ Holds(t, d)
  BY <1>1, RunningTask
<1>3. /\ s.step = "read" /\ s.saving = t.saving /\ s.job = t.job /\ s.found = t.found
      /\ s.list = t.list /\ s.knew = t.knew /\ DOMAIN s = Words
      /\ DOMAIN task' = Callers /\ \A o \in Callers \ {c} : task'[o] = task[o]
  BY <1>2 DEF KeepFound, Words
<1>0. t = task[c] /\ d = Home[c] /\ s = task'[c]
  OBVIOUS
<1> HIDE DEF t, d, s
<1>4. TaskTyped(s)
  BY <1>2, <1>3 DEF TaskTyped, Steps
<1>5. InOrder(s, d)
  BY <1>1, <1>2, <1>3 DEF InOrder, Holds, AllStand
<1> QED BY <1>0, <1>1, <1>2, <1>3, <1>4, <1>5, PutInPlaceKeeps

\* A command reads the list it found; with edits that it knew, the device has it.
LEMMA ReadKeeps ==
    ASSUME EditInv, NEW c \in Callers, Read(c)
    PROVE  EditInv'
<1> DEFINE t == task[c]
           d == Home[c]
           s == task'[c]
           held == t.found.list \in lists[d]
<1>1. /\ t.step = "read" /\ Running(c)
      /\ UNCHANGED <<list, clock, recordFile, pushed, lists, due>>
  BY DEF Read, Running
<1>2. /\ DOMAIN t = Words /\ t.saving \in BOOLEAN /\ JobOK(t.job) /\ t.list \in ListsNow
      /\ t.found \in PointersNow /\ t.knew \in [Devices -> SUBSET Edits]
      /\ t.saving => t.job.op = "contact" /\ t.job.sent \in Seq(Cards)
      /\ d \in Devices /\ DOMAIN task = Callers /\ Holds(t, d)
  BY <1>1, RunningTask
<1>3. /\ DOMAIN task' = Callers /\ \A o \in Callers \ {c} : task'[o] = task[o]
      /\ s = IF ~held /\ t.saving THEN Idle
             ELSE [t EXCEPT !.step = "loaded", !.list = IF held THEN t.found.list ELSE t.list]
  BY <1>2 DEF Read
<1>4. ~t.saving => AllStand(t.found.list.entries, t.knew[d]) /\ (t.knew[d] # {} => held)
  BY <1>1, <1>2 DEF Holds
<1>5. CASE ~held /\ t.saving
  <2>1. s = Idle
    BY <1>3, <1>5
  <2>2. TaskTyped(s) /\ s.step = "idle" /\ InOrder(s, d)
    BY <2>1 DEF TaskTyped, Idle, InOrder
  <2>3. d = Home[c] /\ s = task'[c]
    OBVIOUS
  <2> HIDE DEF s, t, d, held
  <2> QED BY <1>1, <1>3, <2>2, <2>3, CommandMoves
<1>6. CASE held \/ ~t.saving
  <2>1. /\ s.step = "loaded" /\ s.saving = t.saving /\ s.job = t.job /\ s.knew = t.knew
        /\ DOMAIN s = Words /\ s.list = IF held THEN t.found.list ELSE t.list
    BY <1>2, <1>3, <1>6 DEF Words
  <2>2. s.list \in ListsNow
    BY <1>2, <2>1 DEF PointersNow
  <2>0. t = task[c] /\ d = Home[c] /\ s = task'[c]
    OBVIOUS
  <2> HIDE DEF s, t, d, held
  <2>3. ~s.saving => AllStand(s.list.entries, s.knew[d])
    BY <1>4, <2>1 DEF AllStand
  <2>4. TaskTyped(s)
    BY <1>2, <2>1, <2>2 DEF TaskTyped, Steps
  <2>5. InOrder(s, d)
    BY <1>2, <2>1, <2>3 DEF InOrder, Holds
  <2> QED BY <1>1, <1>3, <2>0, <2>4, <2>5, CommandMoves
<1> QED BY <1>5, <1>6

\* A check that knew of a revocation finds it.
LEMMA AnswerCheckKeeps ==
    ASSUME EditInv, NEW c \in Callers, AnswerCheck(c)
    PROVE  EditInv'
<1> DEFINE t == task[c]
           d == Home[c]
           s == task'[c]
           e == [op |-> "revoke", cap |-> t.job.cap]
<1>1. /\ t.step = "loaded" /\ Running(c) /\ ~IsEdit(t.job)
      /\ UNCHANGED <<list, clock, recordFile, pushed, lists, due>>
  BY DEF AnswerCheck, Running
<1>2. /\ d \in Devices /\ DOMAIN task = Callers /\ Holds(t, d) /\ t.saving \in BOOLEAN
      /\ t.saving => t.job.op = "contact"
  BY <1>1, RunningTask
<1>3. /\ DOMAIN task' = Callers /\ \A o \in Callers \ {c} : task'[o] = task[o]
      /\ s.step = "done" /\ s.job = t.job /\ s.knew = t.knew
      /\ t.job.op = "check" => s.yes = CheckCapability(t.list.entries, t.job.cap)
  <2>1. PICK y : /\ task' = [task EXCEPT ![c] =
                         [step |-> "done", job |-> t.job, knew |-> t.knew, yes |-> y]]
                 /\ t.job.op = "check" => y = CheckCapability(t.list.entries, t.job.cap)
    BY DEF AnswerCheck
  <2> HIDE DEF t
  <2> QED BY <1>2, <2>1
<1>4. ASSUME s.job.op = "check", e \in s.knew[d]
      PROVE  ~s.yes
  <2>0. ~t.saving
    BY <1>2, <1>3, <1>4
  <2>1. Stands(t.list.entries, e)
    <3> HIDE DEF t, s, d, e
    <3>1. AllStand(t.list.entries, t.knew[d])
      BY <1>1, <1>2, <2>0 DEF Holds
    <3> QED BY <1>3, <1>4, <3>1 DEF AllStand
  <2>2. by_id(t.list.entries, t.job.cap) # 0 /\ t.list.entries[by_id(t.list.entries, t.job.cap)].revoked
    BY <2>1 DEF Stands
  <2>3. s.yes = CheckCapability(t.list.entries, t.job.cap)
    BY <1>3, <1>4
  <2> QED BY <2>2, <2>3 DEF CheckCapability
<1>5. TaskTyped(s) /\ InOrder(s, d)
  BY <1>3, <1>4 DEF TaskTyped, InOrder, Refused
<1>6. d = Home[c] /\ s = task'[c]
  OBVIOUS
<1> HIDE DEF s, t, d
<1> QED BY <1>1, <1>3, <1>5, <1>6, CommandMoves

LEMMA NotIssuedKeeps ==
    ASSUME EditInv, NEW c \in Callers, NotIssued(c)
    PROVE  EditInv'
<1> DEFINE s == task'[c]
<1>1. DOMAIN task = Callers
  BY DEF EditInv, EditTyped
<1>2. /\ DOMAIN task' = Callers /\ \A o \in Callers \ {c} : task'[o] = task[o] /\ s = Idle
      /\ UNCHANGED <<list, clock, recordFile, pushed, lists, due>>
  BY <1>1 DEF NotIssued
<1>3. TaskTyped(s) /\ s.step = "idle" /\ InOrder(s, Home[c])
  BY <1>2 DEF NotIssued, TaskTyped, Idle, InOrder
<1>4. s = task'[c]
  OBVIOUS
<1> HIDE DEF s
<1> QED BY <1>2, <1>3, <1>4, CommandMoves

\* What an edit makes of the list it loaded.
LEMMA EditOfLoaded ==
    ASSUME EditInv, NEW c \in Callers, NEW t, t = task[c], Running(c), t.step = "loaded", IsEdit(t.job),
           t.job.op = "revoke" => by_id(t.list.entries, t.job.cap) # 0
    PROVE  /\ Change(t.list.entries, t.job) \in Seq(Entries)
           /\ ~t.saving =>
                AllStand(Change(t.list.entries, t.job), Standing(t.knew[Home[c]], t.job))
<1> DEFINE d == Home[c]
           entries == t.list.entries
           job == t.job
<1>1. /\ JobOK(t.job) /\ entries \in Seq(Entries) /\ d \in Devices /\ Holds(t, d)
      /\ list \in {"capabilities", "contacts"} /\ t.knew[d] \in SUBSET Edits
  BY RunningTask DEF ListsNow, EditInv, EditTyped
<1>2. ~t.saving => \A e \in t.knew[d] : Stands(entries, e)
  BY <1>1 DEF Holds, AllStand
<1>0. job = t.job /\ JobOK(job) /\ IsEdit(job) /\ (job.op = "revoke" => by_id(entries, job.cap) # 0)
  BY <1>1
<1> HIDE DEF d, entries, job
<1>3. Change(entries, job) \in Seq(Entries)
  <2>1. {} \in SUBSET Edits
    OBVIOUS
  <2> QED BY <1>0, <1>1, <2>1, ChangeStands
<1>4. ~t.saving => \A e \in Standing(t.knew[d], job) : Stands(Change(entries, job), e)
  BY <1>0, <1>1, <1>2, ChangeStands
<1> QED BY <1>3, <1>4 DEF d, entries, job, AllStand

\* The client holds its change of the list it loaded.
LEMMA SendContactsKeeps ==
    ASSUME EditInv, NEW c \in Callers, SendContacts(c)
    PROVE  EditInv'
<1> DEFINE t == task[c]
           d == Home[c]
           s == task'[c]
<1>1. /\ t.step = "loaded" /\ Running(c) /\ t.job.op = "contact" /\ ~t.saving
      /\ UNCHANGED <<list, clock, recordFile, pushed, lists, due>>
  BY DEF SendContacts, Running
<1>2. /\ DOMAIN t = Words /\ JobOK(t.job) /\ t.knew \in [Devices -> SUBSET Edits]
      /\ d \in Devices /\ DOMAIN task = Callers
  BY <1>1, RunningTask
<1>3. list = "contacts" /\ t.job.card \in Cards /\ IsEdit(t.job)
  BY <1>1, <1>2 DEF JobOK, CapJobs, IsEdit, EditsOf
<1>4. /\ DOMAIN task' = Callers /\ \A o \in Callers \ {c} : task'[o] = task[o]
      /\ s.step = "look" /\ s.saving /\ s.saving \in BOOLEAN /\ s.list = Absent /\ s.knew = t.knew
      /\ s.job = [op |-> "contact", card |-> t.job.card, sent |-> Change(t.list.entries, t.job)]
      /\ DOMAIN s = Words
  BY <1>2 DEF SendContacts, Words
<1>5. /\ Change(t.list.entries, t.job) \in Seq(Cards)
      /\ AllStand(Change(t.list.entries, t.job), Standing(t.knew[d], t.job))
  BY <1>1, <1>3, EditOfLoaded DEF Entries
<1>6. s.job.op = "contact" /\ s.job.card = t.job.card /\ s.job.sent = Change(t.list.entries, t.job)
  BY <1>4
<1>7. Standing(s.knew[d], s.job) = Standing(t.knew[d], t.job)
  BY <1>3, <1>4, <1>6 DEF Standing, Outdated, Reported
<1>0. t = task[c] /\ d = Home[c] /\ s = task'[c]
  OBVIOUS
<1>8. Absent \in ListsNow
  BY EmptySeq DEF Absent, ListsNow
<1> HIDE DEF s, t, d
<1>9. JobOK(s.job)
  BY <1>3, <1>6 DEF JobOK
<1>10. TaskTyped(s)
  BY <1>2, <1>4, <1>5, <1>6, <1>8, <1>9 DEF TaskTyped, Steps
<1>11. InOrder(s, d)
  BY <1>4, <1>5, <1>6, <1>7 DEF InOrder, Holds
<1> QED BY <1>0, <1>1, <1>4, <1>10, <1>11, CommandMoves

\* The list that is saved holds the edits its writer knew and the one about to
\* be reported.
LEMMA SaveKeeps ==
    ASSUME EditInv, NEW c \in Callers, Save(c)
    PROVE  EditInv'
<1> DEFINE t == task[c]
           d == Home[c]
           s == task'[c]
           saved == Saved(t)
<1>1. /\ t.step = "loaded" /\ Running(c) /\ IsEdit(t.job)
      /\ t.job.op = "revoke" => by_id(t.list.entries, t.job.cap) # 0
      /\ lists' = [lists EXCEPT ![d] = lists[d] \cup {saved}]
      /\ UNCHANGED <<list, clock, recordFile, pushed, due>>
  BY DEF Save, Running
<1>2. /\ DOMAIN t = Words /\ t.saving \in BOOLEAN /\ JobOK(t.job) /\ t.list \in ListsNow
      /\ t.saving => t.job.op = "contact" /\ t.job.sent \in Seq(Cards)
      /\ t.knew \in [Devices -> SUBSET Edits]
      /\ d \in Devices /\ DOMAIN task = Callers /\ Holds(t, d)
      /\ lists \in [Devices -> SUBSET ListsNow] /\ clock \in Nat
  BY <1>1, RunningTask DEF EditInv, EditTyped
<1>3. /\ DOMAIN task' = Callers /\ \A o \in Callers \ {c} : task'[o] = task[o]
      /\ s.step = "publish" /\ s.saving = t.saving /\ s.job = t.job /\ s.list = t.list
      /\ s.knew = t.knew /\ DOMAIN s = Words /\ s.found = [list |-> saved, at |-> clock]
  BY <1>2 DEF Save, Words
<1>4. /\ saved.entries \in Seq(Entries)
      /\ AllStand(saved.entries, Standing(t.knew[d], t.job))
  <2>1. CASE t.saving
    <3>1. list = "contacts"
      BY <1>2, <2>1 DEF JobOK, CapJobs
    <3> QED BY <1>2, <2>1, <3>1 DEF Saved, Entries, Holds
  <2>2. CASE ~t.saving
    BY <1>1, <2>2, EditOfLoaded DEF Saved
  <2> QED BY <1>2, <2>1, <2>2
<1>5. saved \in ListsNow /\ s.found \in PointersNow /\ s.found.list = saved
  <2>1. saved \in ListsNow
    BY <1>2, <1>4 DEF Saved, ListsNow
  <2> HIDE DEF saved
  <2> QED BY <1>2, <1>3, <2>1 DEF PointersNow
<1>6. /\ lists' \in [Devices -> SUBSET ListsNow] /\ saved \in lists'[d]
      /\ \A o \in Devices : lists[o] \subseteq lists'[o]
  <2> HIDE DEF saved
  <2> QED BY <1>1, <1>2, <1>5
<1>0. t = task[c] /\ d = Home[c] /\ s = task'[c]
  OBVIOUS
<1> HIDE DEF s, t, d, saved
<1>7. TaskTyped(s)
  BY <1>2, <1>3, <1>5 DEF TaskTyped, Steps
<1>8. InOrder(task[c], Home[c])'
  <2>1. /\ s.step = "publish" /\ s.found.list \in lists'[d] /\ IsEdit(s.job)
        /\ AllStand(s.found.list.entries, Standing(s.knew[d], s.job))
        /\ s.saving => AllStand(s.job.sent, Standing(s.knew[d], s.job))
    BY <1>1, <1>2, <1>3, <1>4, <1>5, <1>6 DEF Holds
  <2> QED BY <1>0, <1>1, <2>1
          DEF InOrder, Holds, AllStand, Stands, IsEdit, Standing, Outdated, Reported
<1>9. /\ \A o \in Callers : TaskTyped(task[o])'
      /\ \A o \in Callers : InOrder(task[o], Home[o])'
  BY <1>0, <1>1, <1>3, <1>6, <1>7, <1>8, OthersHold
<1>10. EditTyped'
  BY <1>1, <1>3, <1>6, <1>9 DEF EditInv, EditTyped, ListsNow, PointersNow, Entries, Edits
<1>11. (\A e \in Devices : Kept(e))'
  BY <1>1, <1>6 DEF EditInv, Kept
<1>12. EditsStand'
  <2> SUFFICES ASSUME NEW o \in Devices, NEW edit \in due[o]
               PROVE  Stands(Current(o)'.entries, edit)
    BY <1>1 DEF EditsStand, Stands
  <2>1. Kept(o) /\ Stands(Current(o).entries, edit)
    BY DEF EditInv, EditsStand
  <2>2. Current(o)' = Current(o)
    BY <1>1, <1>6, <2>1 DEF Kept, Current
  <2> QED BY <2>1, <2>2
<1> QED BY <1>9, <1>10, <1>11, <1>12 DEF EditInv

\* What is reported is an edit.
LEMMA StandingTyped ==
    ASSUME NEW job, JobOK(job), IsEdit(job), NEW edits \in SUBSET Edits
    PROVE  Standing(edits, job) \in SUBSET Edits
<1>1. Reported(job) \in Edits
  BY DEF Reported, JobOK, IsEdit, EditsOf, Edits, CapJobs
<1> QED BY <1>1 DEF Standing

\* No pointer is Null.
LEMMA PointersAreNotNull ==
    ASSUME NEW p \in PointersNow
    PROVE  p # Null
<1> DEFINE E == Seq(Entries)
           F == Seq(Cards) \cup Seq(Grants)
<1>1. E \subseteq F
  BY DEF Entries
<1>2. PointersNow = [list : [entries : E, version : Nat], at : Nat]
      /\ Pointers = [list : [entries : F, version : Nat], at : Nat]
  BY DEF PointersNow, ListsNow, Pointers
<1> HIDE DEF E, F
<1>3. [entries : E, version : Nat] \subseteq [entries : F, version : Nat]
  BY <1>1
<1>4. PointersNow \subseteq Pointers
  BY <1>2, <1>3
<1> QED BY <1>4, NoPointerAssumption

\* The pointer that is written names the list with the edit that is reported.
LEMMA PublishKeeps ==
    ASSUME EditInv, NEW c \in Callers, Publish(c)
    PROVE  EditInv'
<1> DEFINE t == task[c]
           d == Home[c]
           s == task'[c]
           now == Standing(t.knew[d], t.job)
<1>1. /\ t.step = "publish" /\ Running(c)
      /\ recordFile' = [recordFile EXCEPT ![d] = t.found]
      /\ due' = [due EXCEPT ![d] = now]
      /\ UNCHANGED <<list, clock, lists>>
  BY DEF Publish, Running, Standing, Outdated, Reported
<1>2. /\ JobOK(t.job) /\ t.found \in PointersNow /\ t.knew \in [Devices -> SUBSET Edits]
      /\ d \in Devices /\ DOMAIN task = Callers /\ Holds(t, d)
      /\ recordFile \in [Devices -> PointersNow \cup {Null}]
      /\ due \in [Devices -> SUBSET Edits] /\ pushed \in [Devices -> SUBSET PointersNow]
  BY <1>1, RunningTask DEF EditInv, EditTyped
<1>3. /\ IsEdit(t.job) /\ t.found.list \in lists[d]
      /\ AllStand(t.found.list.entries, now)
  BY <1>1, <1>2 DEF Holds
<1>4. DOMAIN task' = Callers /\ s = Idle /\ \A o \in Callers \ {c} : task'[o] = task[o]
  BY <1>2 DEF Publish
<1>5. pushed' \in [Devices -> SUBSET PointersNow]
  <2>1. PICK reached \in SUBSET (Devices \ {d}) :
           pushed' = [o \in Devices |->
              IF o \in reached \cup {d} THEN pushed[o] \cup {t.found} ELSE pushed[o]]
    BY DEF Publish
  <2> HIDE DEF t
  <2> QED BY <1>2, <2>1
<1>6. now \in SUBSET Edits
  BY <1>2, <1>3, StandingTyped
<1>7. t.found # Null
  BY <1>2, PointersAreNotNull
<1>0. t = task[c] /\ d = Home[c] /\ s = task'[c]
  OBVIOUS
<1> HIDE DEF s, t, d, now
<1>8. /\ recordFile' \in [Devices -> PointersNow \cup {Null}] /\ due' \in [Devices -> SUBSET Edits]
      /\ recordFile'[d] = t.found /\ due'[d] = now
      /\ \A o \in Devices \ {d} : recordFile'[o] = recordFile[o] /\ due'[o] = due[o]
  BY <1>1, <1>2, <1>6
<1>9. TaskTyped(s)
  BY <1>4 DEF TaskTyped
<1>10. InOrder(task[c], Home[c])'
  BY <1>0, <1>4 DEF InOrder, Idle
<1>11. /\ \A o \in Callers : TaskTyped(task[o])'
       /\ \A o \in Callers : InOrder(task[o], Home[o])'
  BY <1>0, <1>1, <1>4, <1>9, <1>10, OthersHold
<1>12. EditTyped'
  BY <1>1, <1>4, <1>5, <1>8, <1>11 DEF EditInv, EditTyped, ListsNow, PointersNow, Entries, Edits
<1>13. (\A e \in Devices : Kept(e))'
  BY <1>1, <1>3, <1>7, <1>8 DEF EditInv, Kept
<1>14. EditsStand'
  <2> SUFFICES ASSUME NEW o \in Devices, NEW edit \in due'[o]
               PROVE  Stands(Current(o)'.entries, edit)
    BY <1>1 DEF EditsStand, Stands
  <2>1. CASE o = d
    <3>1. Current(o)' = t.found.list
      BY <1>1, <1>3, <1>7, <1>8, <2>1 DEF Current
    <3> QED BY <1>3, <1>8, <2>1, <3>1 DEF AllStand
  <2>2. CASE o # d
    <3>1. Current(o)' = Current(o) /\ due'[o] = due[o]
      BY <1>1, <1>8, <2>2 DEF Current
    <3> QED BY <3>1 DEF EditInv, EditsStand
  <2> QED BY <2>1, <2>2
<1> QED BY <1>11, <1>12, <1>13, <1>14 DEF EditInv

\* A sync reads the record file and finds a pointer, or none.
LEMMA SyncReads ==
    ASSUME EditInv, NEW c \in Callers, ReadLocal(c) \/ Scan(c)
    PROVE  EditInv'
<1> DEFINE t == task[c]
           d == Home[c]
           s == task'[c]
<1>1. /\ t.step \in {"look", "scan"} /\ Running(c)
      /\ UNCHANGED <<list, clock, recordFile, pushed, lists, due>>
  BY DEF ReadLocal, Scan, Running
<1>2. /\ DOMAIN t = Words /\ t.saving \in BOOLEAN /\ JobOK(t.job) /\ t.list \in ListsNow
      /\ t.saving => t.job.op = "contact" /\ t.job.sent \in Seq(Cards)
      /\ t.saving => t.knew \in [Devices -> SUBSET Edits]
      /\ d \in Devices /\ DOMAIN task = Callers /\ Holds(t, d)
  BY <1>1, RunningTask
<1>3. /\ DOMAIN task' = Callers /\ \A o \in Callers \ {c} : task'[o] = task[o]
      /\ \/ s = Idle
         \/ /\ DOMAIN s = Words /\ s.saving = t.saving /\ s.job = t.job /\ s.list = t.list /\ s.knew = t.knew
            /\ s.step \in {"scan", "fetch"} /\ (s.step = "fetch" => s.found \in PointersNow)
  <2>1. CASE ReadLocal(c)
    BY <1>2, <2>1 DEF ReadLocal, Words
  <2>2. CASE Scan(c)
    <3>1. CASE task' = [task EXCEPT ![c] = Idle]
      BY <1>2, <3>1
    <3>2. CASE \E r \in UNION {pushed[o] : o \in Devices} :
                  task' = [task EXCEPT ![c].step = "fetch", ![c].found = r]
      <4>1. PICK r \in UNION {pushed[o] : o \in Devices} :
                  task' = [task EXCEPT ![c].step = "fetch", ![c].found = r]
        BY <3>2
      <4>2. r \in PointersNow
        BY DEF EditInv, EditTyped
      <4> QED BY <1>2, <4>1, <4>2 DEF Words
    <3> QED BY <1>2, <2>2, <3>1, <3>2 DEF Scan, Newest
  <2> QED BY <2>1, <2>2
<1>0. t = task[c] /\ d = Home[c] /\ s = task'[c]
  OBVIOUS
<1> HIDE DEF t, d, s
<1>4. TaskTyped(s)
  BY <1>2, <1>3 DEF TaskTyped, Steps
<1>5. InOrder(s, d)
  BY <1>2, <1>3 DEF InOrder, Holds, Idle
<1> QED BY <1>0, <1>1, <1>3, <1>4, <1>5, CommandMoves

\* A sync replaces the record file.
LEMMA FetchAndCacheKeeps ==
    ASSUME EditInv, NEW c \in Callers, FetchAndCache(c)
    PROVE  EditInv'
<1> DEFINE t == task[c]
           d == Home[c]
           s == task'[c]
<1>1. /\ t.step = "fetch" /\ Running(c)
      /\ PutInPlace(d, t.found) \/ UNCHANGED <<recordFile, due>>
      /\ UNCHANGED <<list, clock, pushed, lists>>
  BY DEF FetchAndCache, Running
<1>2. t.found \in PointersNow /\ d \in Devices /\ DOMAIN task = Callers
  BY <1>1, RunningTask
<1>3. DOMAIN task' = Callers /\ s = Idle /\ \A o \in Callers \ {c} : task'[o] = task[o]
  BY <1>2 DEF FetchAndCache
<1>4. TaskTyped(s) /\ InOrder(s, d)
  BY <1>3 DEF TaskTyped, InOrder, Idle
<1>0. d = Home[c] /\ s = task'[c]
  OBVIOUS
<1> HIDE DEF t, d, s
<1>5. CASE PutInPlace(d, t.found)
  BY <1>0, <1>1, <1>2, <1>3, <1>4, <1>5, PutInPlaceKeeps
<1>6. CASE UNCHANGED <<recordFile, due>>
  BY <1>0, <1>1, <1>3, <1>4, <1>6, CommandMoves
<1> QED BY <1>1, <1>5, <1>6

\* The clock is no part of what stands.
LEMMA ClockKeeps ==
    ASSUME EditInv,
           ClockTicks \/ UNCHANGED editVars
    PROVE  EditInv'
<1>1. /\ clock' \in Nat
      /\ UNCHANGED <<list, recordFile, pushed, lists, task, due>>
  BY DEF EditInv, EditTyped, ClockTicks, editVars
<1>2. EditTyped'
  BY <1>1 DEF EditInv, EditTyped, TaskTyped, JobOK, ListsNow, PointersNow, Entries, Edits
<1>3. ASSUME NEW c \in Callers PROVE InOrder(task[c], Home[c])'
  <2>1. InOrder(task[c], Home[c])
    BY DEF EditInv
  <2> QED BY <1>1, <2>1 DEF InOrder, Holds, Refused, AllStand, Stands, IsEdit, Standing, Outdated, Reported
<1>4. (\A d \in Devices : Kept(d))' /\ EditsStand'
  BY <1>1 DEF EditInv, Kept, EditsStand, Current, Stands
<1> QED BY <1>2, <1>3, <1>4 DEF EditInv

\* Every edit, check and sync keeps the inductive invariant, whatever runs
\* beside it.
THEOREM EditsInvariant == EditSpec => []EditInv
<1>1. EditInv /\ [EditNext]_editVars => EditInv'
  BY BeginKeeps, LookUpKeeps, KeepFoundKeeps, ReadKeeps, AnswerCheckKeeps, NotIssuedKeeps,
     SendContactsKeeps, SaveKeeps, PublishKeeps, SyncReads, FetchAndCacheKeeps, ClockKeeps DEF EditNext
<1> QED BY InvInit, <1>1, PTL DEF EditSpec

\* An edit that was reported done stands in the list its device reads
\* (edit_capability_index and save_contact_list, which build the new list on the
\* one they loaded), for any number of devices, commands, syncs and edits that
\* cross in any order, until a command that looked the list up before is
\* reported, or a look-up or a sync puts another pointer in place.
THEOREM ReportedEditsStand == EditSpec => []EditsStand
<1>1. EditInv => EditsStand
  BY DEF EditInv
<1> QED BY EditsInvariant, <1>1, PTL

\* check_capability on the issuer's device refuses a capability whose revocation
\* its record file was due to lead to when the check looked it up.
THEOREM RevokedStaysRefused == EditSpec => []RevokedIsRefused
<1>1. EditInv => RevokedIsRefused
  BY DEF EditInv, RevokedIsRefused, InOrder, Refused
<1> QED BY EditsInvariant, <1>1, PTL
=============================================================================
