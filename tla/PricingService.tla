--------------------------- MODULE PricingService ---------------------------
(***************************************************************************)
(* The pricing service (PricingService over PriceRepository) under          *)
(* concurrent requests for one price.  Requests for different prices meet   *)
(* only in the unique name, whose conflict ends a request like any error.   *)
(*                                                                         *)
(* The endpoints are plain functions: FastAPI runs each in a thread of its  *)
(* pool with a session of its own.  A request reads the row (READ           *)
(* COMMITTED, no row lock), checks what it read, then writes and commits;   *)
(* the row lock an UPDATE takes is held to the commit, so write and commit  *)
(* are one step.  There is no SELECT ... FOR UPDATE and no version column.  *)
(***************************************************************************)
CONSTANTS
    Requests,   \* requests that can be under way at a time (a bound)
    Sagas,      \* values of locked_by_saga_id
    Nobody,     \* locked = False, locked_by_saga_id = None
    Names,      \* values of the column name
    Values      \* values of the columns value, unit and currency

ASSUME PricingAssumption ==
    /\ Nobody \notin Sagas
    /\ Names # {}
    /\ Values # {}

VARIABLES
    row,        \* the price's row, as committed
    told,       \* what its events say of it, in the order of the outbox
    doing,      \* the step each request is at
    saga,       \* the saga a lock request names
    ask,        \* the body of a create or update request
    read,       \* the columns a request has read
    older,      \* history: requests under way that know the price as it was before its
                \* last lock or unlock
    cutShort    \* history: a request has failed between its two commits

vars == <<row, told, doing, saga, ask, read, older, cutShort>>

Fields == [name : Names, value : Values]
Lives == {"absent", "live", "gone"}
Seen == [fields : Fields, owner : Sagas \union {Nobody}]
Price == [life : Lives, fields : Fields, owner : Sagas \union {Nobody}]
Announcing == {"announce create", "announce delete"}
Steps == {"nothing", "refresh", "update", "delete", "lock", "unlock"} \union Announcing

TypeOK ==
    /\ row \in Price
    /\ told \in Price
    /\ doing \in [Requests -> Steps]
    /\ saga \in [Requests -> Sagas \union {Nobody}]
    /\ ask \in [Requests -> Fields]
    /\ read \in [Requests -> Seen]
    /\ older \subseteq Requests
    /\ cutShort \in BOOLEAN

SomeFields == CHOOSE f \in Fields : TRUE
Nothing == [fields |-> SomeFields, owner |-> Nobody]
NoPrice == [life |-> "absent", fields |-> SomeFields, owner |-> Nobody]

Init ==
    /\ row = NoPrice
    /\ told = NoPrice
    /\ doing = [r \in Requests |-> "nothing"]
    /\ saga = [r \in Requests |-> Nobody]
    /\ ask = [r \in Requests |-> SomeFields]
    /\ read = [r \in Requests |-> Nothing]
    /\ older = {}
    /\ cutShort = FALSE

-----------------------------------------------------------------------------
\* get_price and the check of locked.  An answer 404 or 423, and a lock or
\* unlock that has nothing to do, changes no state.
Reads(r, step) ==
    /\ doing[r] = "nothing"
    /\ row.life = "live"
    /\ doing' = [doing EXCEPT ![r] = step]
    /\ UNCHANGED <<row, told, older, cutShort>>

\* What a request has read of the row: its fields and its lock.
Sees(r) == read' = [read EXCEPT ![r] = [fields |-> row.fields, owner |-> row.owner]]

\* The request has been answered; what it knew is gone with its session.
Leaves(r) ==
    /\ doing' = [doing EXCEPT ![r] = "nothing"]
    /\ saga' = [saga EXCEPT ![r] = Nobody]
    /\ ask' = [ask EXCEPT ![r] = SomeFields]
    /\ read' = [read EXCEPT ![r] = Nothing]

Ends(r) == Leaves(r) /\ older' = older \ {r}

\* create_price: repository.create commits the row, refreshes it, and only
\* then does the service add and commit the event.
CreateRow(r) ==
    /\ doing[r] = "nothing"
    /\ row.life = "absent"
    /\ \E f \in Fields : row' = [life |-> "live", fields |-> f, owner |-> Nobody]
    /\ doing' = [doing EXCEPT ![r] = "refresh"]
    /\ UNCHANGED <<told, saga, ask, read, older, cutShort>>

\* Mutant: the event is added to the session and never committed.
RefreshWithoutEvent(r) ==
    /\ doing[r] = "refresh"
    /\ row.life = "live"
    /\ Ends(r)
    /\ UNCHANGED <<row, told, cutShort>>

Refresh(r) ==
    /\ doing[r] = "refresh"
    /\ row.life = "live"
    /\ Sees(r)
    /\ doing' = [doing EXCEPT ![r] = "announce create"]
    /\ UNCHANGED <<row, told, saga, ask, older, cutShort>>

\* PriceCreated tells the price as it was refreshed, with its lock.
AnnounceCreate(r) ==
    /\ doing[r] = "announce create"
    /\ told' = [life |-> "live", fields |-> read[r].fields, owner |-> read[r].owner]
    /\ UNCHANGED <<row, cutShort>>
    /\ Ends(r)

-----------------------------------------------------------------------------
\* Mutant: the lock is not looked at.
ReadToUpdateLocked(r) ==
    /\ Reads(r, "update")
    /\ Sees(r)
    /\ \E f \in Fields : ask' = [ask EXCEPT ![r] = f]
    /\ saga' = saga

ReadToUpdate(r) ==
    /\ row.owner = Nobody
    /\ Reads(r, "update")
    /\ Sees(r)
    /\ \E f \in Fields : ask' = [ask EXCEPT ![r] = f]
    /\ saga' = saga

\* SQLAlchemy writes the columns whose value the request changes, and no other.
Dirty(r, column) == ask[r][column] # read[r].fields[column]
Written(r, column) == IF Dirty(r, column) THEN ask[r][column] ELSE row.fields[column]

\* The UPDATE of a row that has been deleted raises StaleDataError; without a
\* dirty column there is no UPDATE, and the event is added all the same.
\* PriceUpdated tells the lock as it was read.
CommitUpdate(r) ==
    /\ doing[r] = "update"
    /\ Dirty(r, "name") \/ Dirty(r, "value") => row.life = "live"
    /\ row' = [row EXCEPT !.fields = [name |-> Written(r, "name"), value |-> Written(r, "value")]]
    /\ told' = [life |-> "live", fields |-> ask[r], owner |-> read[r].owner]
    /\ cutShort' = cutShort
    /\ Ends(r)

-----------------------------------------------------------------------------
ReadToDelete(r) ==
    /\ row.owner = Nobody
    /\ Reads(r, "delete")
    /\ UNCHANGED <<saga, ask, read>>

\* repository.delete commits; deleting a row that is gone only warns.
DeleteRow(r) ==
    /\ doing[r] = "delete"
    /\ row' = [row EXCEPT !.life = "gone"]
    /\ doing' = [doing EXCEPT ![r] = "announce delete"]
    /\ UNCHANGED <<told, saga, ask, read, older, cutShort>>

AnnounceDelete(r) ==
    /\ doing[r] = "announce delete"
    /\ told' = [told EXCEPT !.life = "gone"]
    /\ UNCHANGED <<row, cutShort>>
    /\ Ends(r)

-----------------------------------------------------------------------------
ReadToLock(r) ==
    /\ row.owner = Nobody
    /\ Reads(r, "lock")
    /\ \E s \in Sagas : saga' = [saga EXCEPT ![r] = s]
    /\ UNCHANGED <<ask, read>>

\* The others that have read the row before this commit.
Outdates(r) == older' = {q \in Requests \ {r} : doing[q] \notin {"nothing", "refresh"}}

\* Two requests that have both found the price free both commit.
CommitLock(r) ==
    /\ doing[r] = "lock"
    /\ row.life = "live"
    /\ row' = [row EXCEPT !.owner = saga[r]]
    /\ told' = [told EXCEPT !.owner = saga[r]]
    /\ cutShort' = cutShort
    /\ Leaves(r) /\ Outdates(r)

ReadToUnlock(r) ==
    /\ row.owner # Nobody
    /\ Reads(r, "unlock")
    /\ UNCHANGED <<saga, ask, read>>

CommitUnlock(r) ==
    /\ doing[r] = "unlock"
    /\ row.life = "live"
    /\ row' = [row EXCEPT !.owner = Nobody]
    /\ told' = [told EXCEPT !.owner = Nobody]
    /\ cutShort' = cutShort
    /\ Leaves(r) /\ Outdates(r)

-----------------------------------------------------------------------------
\* The request fails before it has committed anything: a name conflict,
\* StaleDataError, the database or the service stops.
FailBeforeCommit(r) ==
    /\ doing[r] \in {"update", "delete", "lock", "unlock"}
    /\ Ends(r)
    /\ UNCHANGED <<row, told, cutShort>>

\* The row to refresh is gone: InvalidRequestError, and no event.
RefreshFails(r) ==
    /\ doing[r] = "refresh"
    /\ row.life = "gone"
    /\ Ends(r)
    /\ UNCHANGED <<row, told, cutShort>>

\* The database or the service stops between the commit of the row and the
\* commit of the event.
FailBetweenCommits(r) ==
    /\ doing[r] \in {"refresh"} \union Announcing
    /\ cutShort' = TRUE
    /\ Ends(r)
    /\ UNCHANGED <<row, told>>

Next ==
    \E r \in Requests :
        \/ CreateRow(r)
        \/ Refresh(r)
        \/ AnnounceCreate(r)
        \/ ReadToUpdate(r)
        \/ CommitUpdate(r)
        \/ ReadToDelete(r)
        \/ DeleteRow(r)
        \/ AnnounceDelete(r)
        \/ ReadToLock(r)
        \/ CommitLock(r)
        \/ ReadToUnlock(r)
        \/ CommitUnlock(r)
        \/ FailBeforeCommit(r)
        \/ RefreshFails(r)
        \/ FailBetweenCommits(r)

Spec == Init /\ [][Next]_vars

-----------------------------------------------------------------------------
\* From the commit of a lock to its unlock the price stays as it is, and so does what
\* the events tell of its lock, once the requests are over that had read the price
\* before: no other lock, update, delete or creation comes through, although check
\* and write are not one transaction and two overlapping locks are both granted.
LockShutsOut ==
    [][older = {} =>
          /\ row.owner # Nobody => row' = row \/ row' = [row EXCEPT !.owner = Nobody]
          /\ told.owner = row.owner => told'.owner = row'.owner]_vars

\* With no request under way a live price has been announced as such, and one that
\* is gone has been announced at all, however create and delete overlap with their
\* two commits each, unless a request was cut short between them.
LifeAnnounced ==
    (\A r \in Requests : doing[r] = "nothing") /\ ~cutShort =>
        /\ row.life = "live" => told.life = "live"
        /\ row.life = "gone" => told.life # "absent"

\* A locked price is neither changed nor deleted
\* (docs/backend/srs_backend.md:1602).
LockedPriceIsFixed ==
    [][row.owner # Nobody => row'.fields = row.fields /\ row'.life = row.life]_vars

=============================================================================
