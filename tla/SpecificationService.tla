------------------------ MODULE SpecificationService ------------------------
(***************************************************************************)
(* The specification service (SpecificationService over                     *)
(* SpecificationRepository) under concurrent requests, and the cache of     *)
(* characteristics it checks them against.                                  *)
(*                                                                         *)
(* The endpoints are plain functions, each in a thread with a session of    *)
(* its own: a request reads (READ COMMITTED, no row lock), checks what it   *)
(* has read, then writes and commits the row with its event.  The row lock  *)
(* and the entry in the unique index are held from the write to the commit, *)
(* so the two are one step.  A request that is refused (400, 404, 409)      *)
(* changes no state; validate_specifications only reads.                    *)
(*                                                                         *)
(* The events of the characteristics come in any order, late, more than     *)
(* once or never: a characteristic is committed before its event, two       *)
(* requests commit theirs in any order, overlapping passes of the outbox     *)
(* publish an event again, after later ones (EventDelivery), and the         *)
(* consumer drops what it cannot apply.                                     *)
(***************************************************************************)
CONSTANTS
    Requests,        \* requests that can be under way at a time (a bound)
    Specifications,  \* ids of the rows that may be created (a bound)
    Names,           \* values of the column name
    Characteristics  \* ids of the characteristics that may be created (a bound)

ASSUME SpecificationAssumption == Names # {} /\ Specifications # {}

VARIABLES
    rows,      \* table specifications, as committed
    told,      \* kinds of the events of a specification in the outbox
    doing,     \* what each request is at
    existing,  \* characteristics in the table of their service
    existed,   \* history: characteristics that have ever been there
    coming,    \* their events that the consumer may still get
    cache,     \* table cached_characteristics
    missed,    \* history: characteristics of which an event was lost
    restored   \* history: characteristics an older event came for after that of their deletion

own == <<rows, told, doing>>
characteristics == <<existing, existed, coming, missed>>
cached == <<cache, restored>>
vars == <<own, characteristics, cached>>

Lives == {"absent", "live", "gone"}
Fields == [name : Names, refs : SUBSET Characteristics]
Row == [life : Lives, fields : Fields]
SomeFields == [name |-> CHOOSE n \in Names : TRUE, refs |-> {}]

\* A request: its step, its kind, the row it is about, its body, what it has read.
Request ==
    [step : {"nothing", "check", "write"}, kind : {"create", "update", "delete"},
     of : Specifications, ask : Fields, read : Fields]
NoRequest ==
    [step |-> "nothing", kind |-> "create", of |-> CHOOSE s \in Specifications : TRUE,
     ask |-> SomeFields, read |-> SomeFields]

Kinds == {"Created", "Updated", "Deleted"}
Event == [kind : Kinds, of : Characteristics]

TypeOK ==
    /\ rows \in [Specifications -> Row]
    /\ told \in [Specifications -> SUBSET Kinds]
    /\ doing \in [Requests -> Request]
    /\ existing \in SUBSET Characteristics
    /\ existed \in SUBSET Characteristics
    /\ coming \in SUBSET Event
    /\ cache \in SUBSET Characteristics
    /\ missed \in SUBSET Characteristics
    /\ restored \in SUBSET Characteristics

Init ==
    /\ rows = [s \in Specifications |-> [life |-> "absent", fields |-> SomeFields]]
    /\ told = [s \in Specifications |-> {}]
    /\ doing = [r \in Requests |-> NoRequest]
    /\ existing = {} /\ existed = {}
    /\ coming = {} /\ missed = {}
    /\ cache = {} /\ restored = {}

------------------------------------------------------------------------------
(* The characteristic service, and the consumer that keeps the cache.      *)

Announce(kind, c) ==
    \/ coming' = coming \union {[kind |-> kind, of |-> c]} /\ missed' = missed
    \/ coming' = coming /\ missed' = missed \union {c}

CreateCharacteristic(c) ==
    /\ c \notin existed
    /\ existing' = existing \union {c} /\ existed' = existed \union {c}
    /\ Announce("Created", c)
    /\ UNCHANGED <<own, cached>>

UpdateCharacteristic(c) ==
    /\ c \in existing
    /\ Announce("Updated", c)
    /\ UNCHANGED <<own, existing, existed, cached>>

\* It does not ask whether a specification refers to the characteristic.
DeleteCharacteristic(c) ==
    /\ c \in existing
    /\ existing' = existing \ {c}
    /\ Announce("Deleted", c)
    /\ UNCHANGED <<own, existed, cached>>

\* Mutant: a deletion is handled like an update.
DeletedIgnored(e) == cache \union {e.of}
\* Mutant: only a characteristic that is cached is written.
UpdatedOnly(e) == IF e.kind = "Deleted" THEN cache \ {e.of} ELSE cache

\* _process_event_sync: created and updated are an upsert.
Applied(e) == IF e.kind = "Deleted" THEN cache \ {e.of} ELSE cache \union {e.of}

DeletionComing(c) == [kind |-> "Deleted", of |-> c] \in coming

\* A created or updated event that comes when the deletion has been and gone.
Outlives(e) == e.kind # "Deleted" /\ e.of \notin existing /\ ~DeletionComing(e.of)

\* The consumer gets an event; it may get it again.
Consume(e) ==
    /\ e \in coming
    /\ coming' \in {coming, coming \ {e}}
    /\ \/ /\ cache' = Applied(e)
          /\ restored' = IF Outlives(e) THEN restored \union {e.of} ELSE restored
          /\ missed' = missed
       \/ missed' = missed \union {e.of} /\ UNCHANGED cached
    /\ UNCHANGED <<own, existing, existed>>

------------------------------------------------------------------------------
(* Requests.                                                               *)

Goes(r, request) == doing' = [doing EXCEPT ![r] = request]
Reads(r, request) ==
    /\ doing[r].step = "nothing"
    /\ Goes(r, request)
    /\ UNCHANGED <<rows, told, characteristics, cached>>

Taken(name) == \E s \in Specifications : rows[s].life = "live" /\ rows[s].fields.name = name

\* create_specification: get_by_name.
ReadToCreate(r, f) ==
    /\ ~Taken(f.name)
    /\ Reads(r, [NoRequest EXCEPT !.step = "check", !.ask = f])

\* Mutant: the characteristics of an update are not validated.
ReadToUpdateUnchecked(r, s, f) ==
    /\ rows[s].life = "live"
    /\ f.name # rows[s].fields.name => ~Taken(f.name)
    /\ Reads(r, [step |-> "write", kind |-> "update", of |-> s, ask |-> f, read |-> rows[s].fields])

\* update_specification: get_by_id, and get_by_name when the name changes.
ReadToUpdate(r, s, f) ==
    /\ rows[s].life = "live"
    /\ f.name # rows[s].fields.name => ~Taken(f.name)
    /\ Reads(r, [step |-> "check", kind |-> "update", of |-> s, ask |-> f, read |-> rows[s].fields])

ReadToDelete(r, s) ==
    /\ rows[s].life = "live"
    /\ Reads(r, [NoRequest EXCEPT !.step = "write", !.kind = "delete", !.of = s])

\* _validate_characteristics.
CheckCharacteristics(r) ==
    /\ doing[r].step = "check"
    /\ doing[r].ask.refs # {} /\ doing[r].ask.refs \subseteq cache
    /\ Goes(r, [doing[r] EXCEPT !.step = "write"])
    /\ UNCHANGED <<rows, told, characteristics, cached>>

\* The unique index of the column name refuses the row (IntegrityError) though
\* get_by_name has found none.
Free(name, s) == \A u \in Specifications \ {s} : ~(rows[u].life = "live" /\ rows[u].fields.name = name)

\* The row and its event are one commit.
Commits(r, s, life, fields, kind) ==
    /\ doing[r].step = "write"
    /\ told' = [told EXCEPT ![s] = @ \union {kind}]
    /\ rows' = [rows EXCEPT ![s] = [life |-> life, fields |-> fields]]
    /\ Goes(r, NoRequest)
    /\ UNCHANGED <<characteristics, cached>>

\* Mutant: the column name has no unique index.
CommitCreateTwice(r, s) ==
    /\ doing[r].kind = "create" /\ rows[s].life = "absent"
    /\ Commits(r, s, "live", doing[r].ask, "Created")

CommitCreate(r, s) ==
    /\ doing[r].kind = "create" /\ rows[s].life = "absent"
    /\ Free(doing[r].ask.name, s)
    /\ Commits(r, s, "live", doing[r].ask, "Created")

\* Mutant: a row that another deletion has committed is written back.
CommitUpdateAnyRow(r) ==
    /\ doing[r].kind = "update"
    /\ Free(doing[r].ask.name, doing[r].of)
    /\ Commits(r, doing[r].of, "live", doing[r].ask, "Updated")

\* SQLAlchemy writes the columns whose value the request changes; with none there
\* is no UPDATE, and the event is added all the same.  The UPDATE of a row that is
\* gone raises StaleDataError.
CommitUpdate(r) ==
    LET s == doing[r].of
        Written(column) == IF doing[r].ask[column] # doing[r].read[column]
                           THEN doing[r].ask[column] ELSE rows[s].fields[column]
        new == [name |-> Written("name"), refs |-> Written("refs")]
    IN
    /\ doing[r].kind = "update"
    /\ doing[r].ask # doing[r].read => rows[s].life = "live" /\ Free(new.name, s)
    /\ Commits(r, s, rows[s].life, new, "Updated")

\* It does not ask whether an offering refers to the specification; deleting a row
\* that is gone only warns.
CommitDelete(r) ==
    /\ doing[r].kind = "delete"
    /\ Commits(r, doing[r].of, "gone", rows[doing[r].of].fields, "Deleted")

\* A characteristic is missing, the row is gone, the name is taken, or the
\* database fails: the session is rolled back.
Refuse(r) ==
    /\ doing[r].step # "nothing"
    /\ Goes(r, NoRequest)
    /\ UNCHANGED <<rows, told, characteristics, cached>>

------------------------------------------------------------------------------
Next ==
    \/ \E c \in Characteristics :
          CreateCharacteristic(c) \/ UpdateCharacteristic(c) \/ DeleteCharacteristic(c)
    \/ \E e \in Event : Consume(e)
    \/ \E r \in Requests :
          \/ \E f \in Fields : ReadToCreate(r, f) \/ \E s \in Specifications : ReadToUpdate(r, s, f)
          \/ \E s \in Specifications : ReadToDelete(r, s) \/ CommitCreate(r, s)
          \/ CheckCharacteristics(r)
          \/ CommitUpdate(r)
          \/ CommitDelete(r)
          \/ Refuse(r)

Spec == Init /\ [][Next]_vars
\* What is published is consumed, at least once.
FairSpec == Spec /\ \A e \in Event : WF_vars(Consume(e))

------------------------------------------------------------------------------
(* Properties.                                                             *)

Live(s) == rows[s].life = "live"

\* Two live specifications never have the same name, however the requests that
\* have both found it free overlap.
NamesUnique ==
    \A s, u \in Specifications :
        Live(s) /\ Live(u) /\ rows[s].fields.name = rows[u].fields.name => s = u

\* A specification refers to a characteristic at least, and to none that its
\* service has never had.
ReferencesExisted ==
    \A s \in Specifications : Live(s) => rows[s].fields.refs # {} /\ rows[s].fields.refs \subseteq existed

\* The outbox tells that a specification is created, and that it is deleted exactly
\* when its row is gone, whatever updates and deletions of the row overlap.
LifeAnnounced ==
    \A s \in Specifications :
        /\ rows[s].life # "absent" => "Created" \in told[s]
        /\ rows[s].life = "gone" <=> "Deleted" \in told[s]

\* The check lets a deleted characteristic through only while the event of its
\* deletion is on its way, or when one of its events was lost, or when an older event
\* came after that of its deletion, which puts it back into the cache.
OnlyComingDeletionsSlip ==
    [][\A r \in Requests : doing[r].step = "check" /\ doing'[r].step = "write" =>
           \A c \in doing[r].ask.refs :
               c \in existing \/ DeletionComing(c) \/ c \in missed \/ c \in restored]_vars

\* In the end the cache shows what there is, in whatever order the events come and
\* however often: a characteristic that is not deleted gets into it, and a client that
\* asks again is no longer refused for it (srs_backend.md:207); one that is deleted
\* leaves it.  Losing an event, or an older one after the deletion, excuses.
CacheCatchesUp ==
    \A c \in Characteristics :
        /\ c \in existing ~> c \in cache \/ c \notin existing \/ c \in missed
        /\ c \in existed \ existing ~> c \notin cache \/ c \in missed \union restored
=============================================================================
