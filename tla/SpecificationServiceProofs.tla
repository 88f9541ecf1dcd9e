--------------------- MODULE SpecificationServiceProofs ---------------------
(***************************************************************************)
(* What overlapping requests cannot break in the specification service, for *)
(* any number of requests, specifications, names and characteristics.       *)
(*                                                                         *)
(* The rows' properties need to know what a request that is about to write  *)
(* has checked (WritesChecked): its references are ones that have existed,  *)
(* and the row of a deletion has been created.  The check of a request is as  *)
(* good as the cache, which is right but for deletions that are on their     *)
(* way, lost, or overtaken by an older event (CacheIsLate).                 *)
(***************************************************************************)
EXTENDS SpecificationService, TLAPS

\* All references in sight are to characteristics that have existed.
AllExisted ==
    /\ existing \subseteq existed /\ cache \subseteq existed
    /\ \A e \in coming : e.of \in existed

WritesChecked ==
    \A r \in Requests :
        /\ doing[r].step = "check" => doing[r].kind # "delete"
        /\ doing[r].step = "write" =>
              IF doing[r].kind = "delete" THEN rows[doing[r].of].life # "absent"
              ELSE doing[r].ask.refs # {} /\ doing[r].ask.refs \subseteq existed

CacheIsLate ==
    \A c \in cache : c \in existing \/ DeletionComing(c) \/ c \in missed \/ c \in restored

RowsInv == NamesUnique /\ ReferencesExisted /\ LifeAnnounced /\ WritesChecked
CacheInv == AllExisted /\ CacheIsLate
Inv == TypeOK /\ RowsInv /\ CacheInv

LEMMA ChosenType ==
  /\ SomeFields \in Fields
  /\ NoRequest \in Request
  /\ NoRequest.step = "nothing"
<1>1. (CHOOSE n \in Names : TRUE) \in Names /\ (CHOOSE s \in Specifications : TRUE) \in Specifications
  BY SpecificationAssumption
<1>2. SomeFields \in Fields
  BY <1>1 DEF SomeFields, Fields
<1>3. NoRequest \in Request
  BY <1>1, <1>2 DEF NoRequest, Request
<1> QED
  BY <1>2, <1>3 DEF NoRequest

LEMMA InitInv == Init => Inv
<1> SUFFICES ASSUME Init PROVE Inv
  OBVIOUS
<1>1. TypeOK
  BY ChosenType DEF Init, TypeOK, Row, Lives
<1>2. \A r \in Requests : doing[r].step = "nothing"
  BY ChosenType DEF Init
<1>3. RowsInv
  BY <1>2 DEF Init, RowsInv, NamesUnique, ReferencesExisted, LifeAnnounced, WritesChecked, Live
<1>4. CacheInv
  BY DEF Init, CacheInv, AllExisted, CacheIsLate
<1> QED
  BY <1>1, <1>3, <1>4 DEF Inv

------------------------------------------------------------------------------
(* The characteristics: they leave rows and requests alone.                 *)

\* RowsInv speaks of what only the rows' requests change, and of what has existed.
LEMMA RowsKept ==
  ASSUME RowsInv, UNCHANGED own, existed \subseteq existed'
  PROVE  RowsInv'
<1> USE DEF own
<1>1. NamesUnique' /\ LifeAnnounced'
  BY DEF RowsInv, NamesUnique, LifeAnnounced, Live
<1>2. ReferencesExisted' /\ WritesChecked'
  BY DEF RowsInv, ReferencesExisted, WritesChecked, Live
<1> QED
  BY <1>1, <1>2 DEF RowsInv

LEMMA CharacteristicInv ==
  ASSUME Inv, NEW c \in Characteristics,
         CreateCharacteristic(c) \/ UpdateCharacteristic(c) \/ DeleteCharacteristic(c)
  PROVE  Inv'
<1>1. TypeOK /\ CacheInv /\ RowsInv /\ existing \subseteq existed
  BY DEF Inv, CacheInv, AllExisted
<1>2. /\ UNCHANGED own /\ UNCHANGED cached
      /\ existed \subseteq existed' /\ existing' \subseteq existed' /\ existed' \subseteq Characteristics
  BY <1>1 DEF CreateCharacteristic, UpdateCharacteristic, DeleteCharacteristic, TypeOK
<1>3. PICK kind \in Kinds :
        /\ Announce(kind, c)
        /\ c \in existed'
        /\ \A d \in existing \ existing' : d = c /\ kind = "Deleted"
  BY <1>1 DEF CreateCharacteristic, UpdateCharacteristic, DeleteCharacteristic, Kinds
<1> DEFINE e == [kind |-> kind, of |-> c]
<1>4. /\ coming \subseteq coming' /\ coming' \subseteq coming \union {e}
      /\ missed \subseteq missed' /\ missed' \subseteq missed \union {c}
      /\ e \in coming' \/ c \in missed'
  BY <1>3 DEF Announce
<1>5. AllExisted'
  BY <1>1, <1>2, <1>3, <1>4 DEF CacheInv, AllExisted, cached
<1>6. CacheIsLate'
  <2> SUFFICES ASSUME NEW d \in cache
               PROVE  d \in existing' \/ DeletionComing(d)' \/ d \in missed' \/ d \in restored
    BY <1>2 DEF CacheIsLate, cached
  <2>1. CASE d \in existing \ existing'
    BY <1>3, <1>4, <2>1 DEF DeletionComing
  <2>2. CASE d \notin existing \/ d \in existing'
    BY <1>1, <1>4, <2>2 DEF CacheInv, CacheIsLate, DeletionComing
  <2> QED
    BY <2>1, <2>2
<1>7. RowsInv'
  BY <1>1, <1>2, RowsKept
<1>8. TypeOK'
  <2>1. e \in Event
    BY DEF Event
  <2> QED
    BY <1>1, <1>2, <1>4, <2>1 DEF TypeOK, own, cached
<1> QED
  BY <1>5, <1>6, <1>7, <1>8 DEF Inv, CacheInv

LEMMA ConsumeInv == ASSUME Inv, NEW e \in Event, Consume(e) PROVE Inv'
<1>1. TypeOK /\ CacheInv /\ RowsInv /\ e.of \in Characteristics /\ e.of \in existed
  BY DEF Inv, CacheInv, AllExisted, Event, Consume
<1>2. /\ UNCHANGED own /\ UNCHANGED <<existing, existed>>
      /\ coming' \subseteq coming /\ coming \ {e} \subseteq coming'
      /\ missed \subseteq missed' /\ restored \subseteq restored'
      /\ missed' \subseteq missed \union {e.of} /\ restored' \subseteq restored \union {e.of}
  BY DEF Consume, cached
<1>3. \/ cache' = Applied(e) /\ (Outlives(e) => e.of \in restored')
      \/ cache' = cache /\ e.of \in missed'
  BY DEF Consume, cached
<1>4. cache' \subseteq cache \union {e.of}
  BY <1>3 DEF Applied
<1>5. RowsInv'
  BY <1>1, <1>2, RowsKept
<1>6. TypeOK'
  BY <1>1, <1>2, <1>4 DEF TypeOK, own
<1>7. AllExisted'
  BY <1>1, <1>2, <1>4 DEF CacheInv, AllExisted
<1>8. CacheIsLate'
  <2> SUFFICES ASSUME NEW d \in cache'
               PROVE  d \in existing \/ DeletionComing(d)' \/ d \in missed' \/ d \in restored'
    BY <1>2 DEF CacheIsLate
  <2>1. CASE d = e.of
    <3>1. CASE cache' = cache /\ e.of \in missed'
      BY <2>1, <3>1
    <3>2. CASE cache' = Applied(e) /\ (Outlives(e) => e.of \in restored')
      <4>1. e.kind # "Deleted"
        BY <2>1, <3>2 DEF Applied
      <4>2. DeletionComing(d) => DeletionComing(d)'
        BY <1>2, <4>1 DEF DeletionComing
      <4> QED
        BY <2>1, <3>2, <4>1, <4>2 DEF Outlives
    <3> QED
      BY <1>3, <3>1, <3>2
  <2>2. CASE d # e.of
    <3>1. d \in cache
      BY <1>4, <2>2
    <3>2. DeletionComing(d) => DeletionComing(d)'
      BY <1>2, <2>2 DEF DeletionComing
    <3> QED
      BY <1>1, <1>2, <3>1, <3>2 DEF CacheInv, CacheIsLate
  <2> QED
    BY <2>1, <2>2
<1> QED
  BY <1>5, <1>6, <1>7, <1>8 DEF Inv, CacheInv

------------------------------------------------------------------------------
(* The requests: they leave the characteristics and the cache alone.        *)

LEMMA CacheKept ==
  ASSUME CacheInv, UNCHANGED <<characteristics, cached>>
  PROVE  CacheInv'
  BY DEF CacheInv, AllExisted, CacheIsLate, DeletionComing, characteristics, cached

\* A request that reads, checks or is refused: only its own step changes.
LEMMA StepInv ==
  ASSUME Inv, NEW r \in Requests, NEW request \in Request, Goes(r, request),
         UNCHANGED <<rows, told, characteristics, cached>>,
         request.step = "check" => request.kind # "delete",
         request.step = "write" =>
            IF request.kind = "delete" THEN rows[request.of].life # "absent"
            ELSE request.ask.refs # {} /\ request.ask.refs \subseteq existed
  PROVE  Inv'
<1>1. TypeOK /\ RowsInv /\ CacheInv
  BY DEF Inv
<1>2. TypeOK'
  BY <1>1 DEF TypeOK, Goes, characteristics, cached
<1>3. WritesChecked'
  BY <1>1 DEF RowsInv, WritesChecked, Goes, TypeOK, characteristics
<1>4. NamesUnique' /\ ReferencesExisted' /\ LifeAnnounced'
  BY <1>1 DEF RowsInv, NamesUnique, ReferencesExisted, LifeAnnounced, Live, characteristics
<1> QED
  BY <1>1, <1>2, <1>3, <1>4, CacheKept DEF Inv, RowsInv

LEMMA ReadInv ==
  ASSUME Inv, NEW r \in Requests, NEW s \in Specifications, NEW f \in Fields,
         ReadToCreate(r, f) \/ ReadToUpdate(r, s, f) \/ ReadToDelete(r, s)
  PROVE  Inv'
<1>1. rows[s].fields \in Fields
  BY DEF Inv, TypeOK, Row
<1>2. CASE ReadToCreate(r, f)
  <2> DEFINE q == [NoRequest EXCEPT !.step = "check", !.ask = f]
  <2>1. q \in Request /\ q.step = "check" /\ q.kind = "create"
    BY ChosenType DEF Request, NoRequest
  <2> QED
    BY <1>2, <2>1, StepInv DEF ReadToCreate, Reads
<1>3. CASE ReadToUpdate(r, s, f)
  <2> DEFINE q == [step |-> "check", kind |-> "update", of |-> s, ask |-> f, read |-> rows[s].fields]
  <2>1. q \in Request /\ q.step = "check"
    BY <1>1 DEF Request
  <2> QED
    BY <1>3, <2>1, StepInv DEF ReadToUpdate, Reads
<1>4. CASE ReadToDelete(r, s)
  <2> DEFINE q == [NoRequest EXCEPT !.step = "write", !.kind = "delete", !.of = s]
  <2>1. q \in Request /\ q.step = "write" /\ q.kind = "delete" /\ q.of = s
    BY ChosenType DEF Request
  <2>2. rows[s].life # "absent"
    BY <1>4 DEF ReadToDelete
  <2> QED
    BY <1>4, <2>1, <2>2, StepInv DEF ReadToDelete, Reads
<1> QED
  BY <1>2, <1>3, <1>4

LEMMA CheckInv ==
  ASSUME Inv, NEW r \in Requests, CheckCharacteristics(r) \/ Refuse(r)
  PROVE  Inv'
<1>1. CASE Refuse(r)
  BY <1>1, ChosenType, StepInv DEF Refuse
<1>2. CASE CheckCharacteristics(r)
  <2> DEFINE q == [doing[r] EXCEPT !.step = "write"]
  <2>1. doing[r] \in Request
    BY DEF Inv, TypeOK
  <2>2. doing[r].ask.refs # {} /\ doing[r].ask.refs \subseteq existed /\ doing[r].kind # "delete"
    BY <1>2 DEF CheckCharacteristics, Inv, CacheInv, AllExisted, RowsInv, WritesChecked
  <2>3. q \in Request /\ q.ask = doing[r].ask /\ q.kind = doing[r].kind /\ q.step = "write"
    BY <2>1 DEF Request
  <2> QED
    BY <1>2, <2>2, <2>3, StepInv DEF CheckCharacteristics
<1> QED
  BY <1>1, <1>2

\* The commit of a row and its event: the row is as its properties want it.
LEMMA CommitInv ==
  ASSUME Inv, NEW r \in Requests, NEW s \in Specifications,
         NEW life \in Lives, NEW fields \in Fields, NEW kind \in Kinds,
         Commits(r, s, life, fields, kind),
         life = "live" =>
            /\ fields.refs # {} /\ fields.refs \subseteq existed
            /\ Free(fields.name, s),
         life = "absent" => rows[s].life = "absent",
         rows[s].life = "absent" /\ life # "absent" => kind = "Created",
         life = "gone" <=> rows[s].life = "gone" \/ kind = "Deleted"
  PROVE  Inv'
<1>1. TypeOK /\ RowsInv /\ CacheInv
  BY DEF Inv
<1>2. /\ rows' = [rows EXCEPT ![s] = [life |-> life, fields |-> fields]]
      /\ told' = [told EXCEPT ![s] = @ \union {kind}]
      /\ doing' = [doing EXCEPT ![r] = NoRequest]
      /\ UNCHANGED <<characteristics, cached>>
  BY DEF Commits, Goes
<1>3. TypeOK'
  BY <1>1, <1>2, ChosenType DEF TypeOK, Row, characteristics, cached
<1>4. rows \in [Specifications -> Row] /\ told \in [Specifications -> SUBSET Kinds] /\ doing \in [Requests -> Request]
  BY <1>1 DEF TypeOK
<1>5. NamesUnique'
  BY <1>1, <1>2, <1>4 DEF RowsInv, NamesUnique, Live, Free, Row
<1>6. ReferencesExisted'
  BY <1>1, <1>2, <1>4 DEF RowsInv, ReferencesExisted, Live, Row, characteristics
<1>7. LifeAnnounced'
  BY <1>1, <1>2, <1>4 DEF RowsInv, LifeAnnounced, Row
<1>8. WritesChecked'
  <2> SUFFICES ASSUME NEW q \in Requests, doing'[q].step # "nothing"
               PROVE  /\ doing'[q].step = "check" => doing'[q].kind # "delete"
                      /\ doing'[q].step = "write" =>
                            IF doing'[q].kind = "delete" THEN rows'[doing'[q].of].life # "absent"
                            ELSE doing'[q].ask.refs # {} /\ doing'[q].ask.refs \subseteq existed'
    BY DEF WritesChecked
  <2>1. q # r /\ doing'[q] = doing[q] /\ existed' = existed
    BY <1>2, <1>4, ChosenType DEF characteristics
  <2>2. doing[q].of \in Specifications
    BY <1>4 DEF Request
  <2> QED
    BY <1>1, <1>2, <1>4, <2>1, <2>2 DEF RowsInv, WritesChecked
<1> QED
  BY <1>1, <1>2, <1>3, <1>5, <1>6, <1>7, <1>8, CacheKept DEF Inv, RowsInv

LEMMA WriteInv ==
  ASSUME Inv, NEW r \in Requests, NEW s \in Specifications,
         CommitCreate(r, s) \/ CommitUpdate(r) \/ CommitDelete(r)
  PROVE  Inv'
<1>1. TypeOK /\ RowsInv
  BY DEF Inv
<1>2. doing[r] \in Request /\ rows \in [Specifications -> Row]
  BY <1>1 DEF TypeOK
<1>3. doing[r].ask \in Fields /\ doing[r].read \in Fields /\ doing[r].of \in Specifications
  BY <1>2 DEF Request
<1>4. CASE CommitCreate(r, s)
  <2>1. /\ doing[r].step = "write" /\ doing[r].kind = "create" /\ rows[s].life = "absent"
        /\ Free(doing[r].ask.name, s) /\ Commits(r, s, "live", doing[r].ask, "Created")
    BY <1>4 DEF CommitCreate, Commits
  <2>2. doing[r].ask.refs # {} /\ doing[r].ask.refs \subseteq existed
    BY <1>1, <2>1 DEF RowsInv, WritesChecked
  <2>3. "live" \in Lives /\ "Created" \in Kinds
    BY DEF Lives, Kinds
  <2> QED
    BY <1>3, <2>1, <2>2, <2>3, CommitInv
<1>5. CASE CommitUpdate(r)
  <2> DEFINE u == doing[r].of
             Written(column) == IF doing[r].ask[column] # doing[r].read[column]
                                THEN doing[r].ask[column] ELSE rows[u].fields[column]
             new == [name |-> Written("name"), refs |-> Written("refs")]
  <2>1. /\ doing[r].step = "write" /\ doing[r].kind = "update"
        /\ doing[r].ask # doing[r].read => rows[u].life = "live" /\ Free(new.name, u)
        /\ Commits(r, u, rows[u].life, new, "Updated")
    BY <1>5 DEF CommitUpdate, Commits
  <2>2. rows[u] \in Row /\ rows[u].life \in Lives /\ rows[u].fields \in Fields
    BY <1>2, <1>3 DEF Row
  <2>3. new \in Fields /\ "Updated" \in Kinds
    BY <1>3, <2>2 DEF Fields, Kinds
  <2>4. doing[r].ask.refs # {} /\ doing[r].ask.refs \subseteq existed
    BY <1>1, <2>1 DEF RowsInv, WritesChecked
  <2>5. ASSUME rows[u].life = "live"
        PROVE  new.refs # {} /\ new.refs \subseteq existed /\ Free(new.name, u)
    <3>1. rows[u].fields.refs # {} /\ rows[u].fields.refs \subseteq existed
      BY <1>1, <1>3, <2>5 DEF RowsInv, ReferencesExisted, Live
    <3>2. new.refs # {} /\ new.refs \subseteq existed
      BY <2>4, <3>1
    <3>3. CASE doing[r].ask = doing[r].read
      <4>1. new.name = rows[u].fields.name
        BY <3>3
      <4> QED
        BY <1>1, <1>3, <2>5, <3>2, <4>1 DEF RowsInv, NamesUnique, Live, Free
    <3> QED
      BY <2>1, <3>2, <3>3
  <2>6. rows[u].life # "absent" \/ rows[u].life = "absent"
    OBVIOUS
  <2> HIDE DEF new, u
  <2> QED
    BY <1>3, <2>1, <2>2, <2>3, <2>5, CommitInv DEF u
<1>6. CASE CommitDelete(r)
  <2> DEFINE u == doing[r].of
  <2>1. doing[r].step = "write" /\ doing[r].kind = "delete" /\ Commits(r, u, "gone", rows[u].fields, "Deleted")
    BY <1>6 DEF CommitDelete, Commits
  <2>2. rows[u].life # "absent"
    BY <1>1, <2>1 DEF RowsInv, WritesChecked
  <2>3. rows[u].fields \in Fields /\ "gone" \in Lives /\ "Deleted" \in Kinds
    BY <1>2, <1>3 DEF Row, Lives, Kinds
  <2> QED
    BY <1>3, <2>1, <2>2, <2>3, CommitInv
<1> QED
  BY <1>4, <1>5, <1>6

------------------------------------------------------------------------------
LEMMA NextInv == Inv /\ [Next]_vars => Inv'
<1> SUFFICES ASSUME Inv, [Next]_vars PROVE Inv'
  OBVIOUS
<1>1. ASSUME NEW c \in Characteristics,
             CreateCharacteristic(c) \/ UpdateCharacteristic(c) \/ DeleteCharacteristic(c)
      PROVE  Inv'
  BY <1>1, CharacteristicInv
<1>2. ASSUME NEW e \in Event, Consume(e) PROVE Inv'
  BY <1>2, ConsumeInv
<1>3. ASSUME NEW r \in Requests, NEW f \in Fields, ReadToCreate(r, f) PROVE Inv'
  BY <1>3, ReadInv, SpecificationAssumption
<1>4. ASSUME NEW r \in Requests, NEW f \in Fields, NEW s \in Specifications, ReadToUpdate(r, s, f)
      PROVE  Inv'
  BY <1>4, ReadInv
<1>5. ASSUME NEW r \in Requests, NEW s \in Specifications, ReadToDelete(r, s) PROVE Inv'
  BY <1>5, ReadInv, ChosenType
<1>6. ASSUME NEW r \in Requests, NEW s \in Specifications, CommitCreate(r, s) PROVE Inv'
  BY <1>6, WriteInv
<1>7. ASSUME NEW r \in Requests, CommitUpdate(r) \/ CommitDelete(r) PROVE Inv'
  BY <1>7, WriteInv, SpecificationAssumption
<1>8. ASSUME NEW r \in Requests, CheckCharacteristics(r) \/ Refuse(r) PROVE Inv'
  BY <1>8, CheckInv
<1>9. CASE UNCHANGED vars
  <2>1. TypeOK'
    BY <1>9 DEF vars, own, characteristics, cached, Inv, TypeOK
  <2>2. RowsInv' /\ CacheInv'
    BY <1>9, RowsKept, CacheKept DEF vars, own, characteristics, cached, Inv
  <2> QED
    BY <2>1, <2>2 DEF Inv
<1> QED
  BY <1>1, <1>2, <1>3, <1>4, <1>5, <1>6, <1>7, <1>8, <1>9 DEF Next

LEMMA InvHolds == Spec => []Inv
  BY InitInv, NextInv, PTL DEF Spec

(***************************************************************************)
(* The rows, the requests, the events on their way and the cache keep their *)
(* types.                                                                   *)
(***************************************************************************)
THEOREM TypeCorrect == Spec => []TypeOK
  BY InvHolds, PTL DEF Inv

(***************************************************************************)
(* No two live specifications have the same name, although each request     *)
(* looks for the name before it writes: the unique index decides.           *)
(***************************************************************************)
THEOREM NamesAreUnique == Spec => []NamesUnique
  BY InvHolds, PTL DEF Inv, RowsInv

(***************************************************************************)
(* A live specification refers to a characteristic at least, and to none    *)
(* that has never existed, whatever creates, updates and deletions overlap. *)
(***************************************************************************)
THEOREM ReferencesAreReal == Spec => []ReferencesExisted
  BY InvHolds, PTL DEF Inv, RowsInv

(***************************************************************************)
(* The outbox tells that a specification is created, and that it is deleted *)
(* exactly when its row is gone: the row and its event are one commit.      *)
(***************************************************************************)
THEOREM LifeIsAnnounced == Spec => []LifeAnnounced
  BY InvHolds, PTL DEF Inv, RowsInv

(***************************************************************************)
(* The check of a request lets a deleted characteristic through only while  *)
(* the event of its deletion is on its way, or one of its events was lost,   *)
(* or an older one came after it, however the events are repeated and        *)
(* reordered.                                                               *)
(***************************************************************************)
THEOREM OnlyLateDeletionsSlip == Spec => OnlyComingDeletionsSlip
<1> DEFINE Slip == \A r \in Requests : doing[r].step = "check" /\ doing'[r].step = "write" =>
                       \A c \in doing[r].ask.refs :
                           c \in existing \/ DeletionComing(c) \/ c \in missed \/ c \in restored
<1>1. ASSUME Inv, [Next]_vars PROVE [Slip]_vars
  <2> SUFFICES ASSUME NEW r \in Requests, doing[r].step = "check", doing'[r].step = "write"
               PROVE  CheckCharacteristics(r)
    BY <1>1 DEF CheckCharacteristics, Inv, CacheInv, CacheIsLate
  <2>1. doing \in [Requests -> Request]
    BY <1>1 DEF Inv, TypeOK
  <2>2. ASSUME NEW q \in Requests, NEW request, Goes(q, request), doing[q].step # "check" \/ request.step # "write"
        PROVE  FALSE
    BY <2>1, <2>2 DEF Goes
  <2>3. ASSUME NEW q \in Requests, NEW request, Reads(q, request) PROVE FALSE
    BY <2>2, <2>3 DEF Reads
  <2>4. ASSUME NEW q \in Requests, NEW u, NEW life, NEW fields, NEW kind, Commits(q, u, life, fields, kind)
        PROVE  FALSE
    BY <2>2, <2>4, ChosenType DEF Commits
  <2>5. ASSUME NEW q \in Requests, Refuse(q) PROVE FALSE
    BY <2>2, <2>5, ChosenType DEF Refuse
  <2>6. ASSUME NEW q \in Requests, CheckCharacteristics(q) PROVE CheckCharacteristics(r)
    BY <2>1, <2>6 DEF CheckCharacteristics, Goes
  <2>7. ASSUME UNCHANGED doing PROVE FALSE
    BY <2>7
  <2> QED
    BY <1>1, <2>3, <2>4, <2>5, <2>6, <2>7
       DEF Next, vars, own, CreateCharacteristic, UpdateCharacteristic, DeleteCharacteristic, Consume,
           ReadToCreate, ReadToUpdate, ReadToDelete, CommitCreate, CommitUpdate, CommitDelete
<1> QED
  BY <1>1, InvHolds, PTL DEF Spec, OnlyComingDeletionsSlip
=============================================================================
