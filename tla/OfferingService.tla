--------------------------- MODULE OfferingService ---------------------------
(***************************************************************************)
(* The offering service (OfferingService over OfferingRepository) under     *)
(* concurrent requests for one offering, with the event loop and the row    *)
(* lock they share.                                                         *)
(*                                                                         *)
(* create, update and publish are coroutines: their database calls run on   *)
(* the event loop, and they give it up only where they await another        *)
(* service.  delete, retire, confirm and fail run in threads.  Every        *)
(* request reads the row (READ COMMITTED, no row lock), checks what it      *)
(* read, then flushes and commits.  The flush takes the row lock, held to   *)
(* the commit: only publish has an await between the two.  A coroutine      *)
(* whose flush must wait for the row lock waits on the event loop itself.   *)
(***************************************************************************)
CONSTANTS
    Requests,   \* requests that can be under way at a time (a bound)
    NoRequest,
    Bodies,     \* what a create or update request says of the offering
    Complete,   \* bodies with a specification, a price and a channel
    WithIds     \* bodies that name a specification or a price

ASSUME OfferingAssumption ==
    /\ NoRequest \notin Requests
    /\ Bodies # {}
    /\ Complete \subseteq WithIds
    /\ WithIds \subseteq Bodies

VARIABLES
    row,        \* the offering's row, as committed
    told,       \* the status its last lifecycle event tells
    doing,      \* the step each request is at
    ask,        \* the body of an update request
    read,       \* the body an update request has read
    loop,       \* the request that keeps the event loop, if any
    stale,      \* history: requests under way whose status another answer has overtaken
    late        \* history: a stale request has written the status last

history == <<stale, late>>
vars == <<row, told, doing, ask, read, loop, stale, late>>

Statuses == {"DRAFT", "PUBLISHING", "PUBLISHED", "RETIRED"}
Offering == [life : {"absent", "live", "gone"}, status : Statuses, body : Bodies]
Answering == {"confirming", "failing"}
Knowing == {"flushing", "retiring"} \union Answering
Steps == {"nothing", "announcing", "validating", "waiting", "publishing", "deleting"} \union Knowing

SomeBody == CHOOSE b \in Bodies : TRUE

TypeOK ==
    /\ row \in Offering
    /\ told \in Statuses \union {"NONE"}
    /\ doing \in [Requests -> Steps]
    /\ ask \in [Requests -> Bodies]
    /\ read \in [Requests -> Bodies]
    /\ loop \in Requests \union {NoRequest}
    /\ stale \subseteq Requests
    /\ late \in BOOLEAN

Init ==
    /\ row = [life |-> "absent", status |-> "DRAFT", body |-> SomeBody]
    /\ told = "NONE"
    /\ doing = [r \in Requests |-> "nothing"]
    /\ ask = [r \in Requests |-> SomeBody]
    /\ read = [r \in Requests |-> SomeBody]
    /\ loop = NoRequest
    /\ stale = {}
    /\ late = FALSE

\* A publish between its flush and its commit.
RowLocked == \E r \in Requests : doing[r] = "publishing"

\* The loop runs r: nobody keeps it, or r does.
OnLoop(r) == loop \in {NoRequest, r}

\* The request has been answered; what it knew is gone with its session.
Ends(r) ==
    /\ doing' = [doing EXCEPT ![r] = "nothing"]
    /\ ask' = [ask EXCEPT ![r] = SomeBody]
    /\ read' = [read EXCEPT ![r] = SomeBody]

\* It ends without having written the status.
Leaves(r) == Ends(r) /\ stale' = stale \ {r} /\ late' = late

\* It ends with the status written.  An answer of the saga overtakes the other answers
\* under way; a stale request overtakes all that have read the status.
Overtakes(r, others) ==
    /\ Ends(r)
    /\ LET steps == IF r \in stale THEN Knowing ELSE others
       IN  stale' = (stale \union {q \in Requests : doing[q] \in steps}) \ {r}
    /\ late' = (r \in stale)

\* get_offering and the check of the status; any other answer is 400, 404 or 500
\* and changes nothing.
Finds(r, status) ==
    /\ doing[r] = "nothing"
    /\ row.life = "live"
    /\ row.status = status

-----------------------------------------------------------------------------
(* Coroutines.                                                             *)

\* repository.create commits the row; the event has a commit of its own.
CreateRow(r) ==
    /\ doing[r] = "nothing"
    /\ row.life = "absent"
    /\ OnLoop(r)
    /\ \E b \in Bodies : row' = [row EXCEPT !.life = "live", !.body = b]
    /\ doing' = [doing EXCEPT ![r] = "announcing"]
    /\ loop' = r
    /\ UNCHANGED <<told, ask, read, history>>

AnnounceCreate(r) ==
    /\ doing[r] = "announcing"
    /\ OnLoop(r)
    /\ told' = "DRAFT"
    /\ loop' = NoRequest
    /\ row' = row
    /\ Leaves(r)

\* _validate_external_ids awaits an answer for every id, if there is one.
ReadToUpdate(r) ==
    /\ Finds(r, "DRAFT")
    /\ OnLoop(r)
    /\ \E b \in Bodies :
          /\ ask' = [ask EXCEPT ![r] = b]
          /\ loop' = IF b \in WithIds THEN NoRequest ELSE r
    /\ read' = [read EXCEPT ![r] = row.body]
    /\ doing' = [doing EXCEPT ![r] = "validating"]
    /\ UNCHANGED <<row, told, history>>

\* SQLAlchemy issues an UPDATE only if the request changes a column.
Dirty(r) == ask[r] # read[r]

\* Mutants: the object is written with all its columns; the flush takes no
\* notice of the row lock.
CommitUpdateAll(r) ==
    /\ doing[r] = "validating"
    /\ OnLoop(r)
    /\ Dirty(r) => row.life = "live" /\ ~RowLocked
    /\ row' = [row EXCEPT !.body = ask[r], !.status = "DRAFT"]
    /\ loop' = NoRequest
    /\ told' = told
    /\ Leaves(r)
CommitUpdateUnlocked(r) ==
    /\ doing[r] = "validating"
    /\ OnLoop(r)
    /\ Dirty(r) => row.life = "live"
    /\ row' = [row EXCEPT !.body = IF Dirty(r) THEN ask[r] ELSE @]
    /\ loop' = NoRequest
    /\ told' = told
    /\ Leaves(r)

\* The status that was read before the await is not read again.
CommitUpdate(r) ==
    /\ doing[r] = "validating"
    /\ OnLoop(r)
    /\ Dirty(r) => row.life = "live" /\ ~RowLocked
    /\ row' = [row EXCEPT !.body = IF Dirty(r) THEN ask[r] ELSE @]
    /\ loop' = NoRequest
    /\ told' = told
    /\ Leaves(r)

UpdateWaits(r) ==
    /\ doing[r] = "validating"
    /\ OnLoop(r)
    /\ Dirty(r)
    /\ RowLocked
    /\ doing' = [doing EXCEPT ![r] = "waiting"]
    /\ loop' = r
    /\ UNCHANGED <<row, told, ask, read, history>>

\* initiate_publication up to its flush, which waits for the row lock on the loop.
\* A thread may write the row before the flush: the status is not read again.
ReadToPublish(r) ==
    /\ Finds(r, "DRAFT")
    /\ OnLoop(r)
    /\ row.body \in Complete
    /\ doing' = [doing EXCEPT ![r] = "flushing"]
    /\ loop' = r
    /\ UNCHANGED <<row, told, ask, read, history>>

\* From here to its commit the request awaits Camunda.
FlushPublish(r) ==
    /\ doing[r] = "flushing"
    /\ row.life = "live"
    /\ ~RowLocked
    /\ doing' = [doing EXCEPT ![r] = "publishing"]
    /\ loop' = NoRequest
    /\ UNCHANGED <<row, told, ask, read, history>>

\* Camunda has answered, or has not in time: the publish commits in any case.
CommitPublish(r) ==
    /\ doing[r] = "publishing"
    /\ OnLoop(r)
    /\ row' = [row EXCEPT !.status = "PUBLISHING"]
    /\ told' = "PUBLISHING"
    /\ loop' = loop
    /\ Overtakes(r, {})

-----------------------------------------------------------------------------
(* Threads.                                                                *)

Starts(r, step) ==
    /\ doing' = [doing EXCEPT ![r] = step]
    /\ UNCHANGED <<row, told, ask, read, loop, history>>

ReadToDelete(r) == Finds(r, "DRAFT") /\ Starts(r, "deleting")

\* Deleting a row that is gone only warns.  There is no event.
DeleteRow(r) ==
    /\ doing[r] = "deleting"
    /\ ~RowLocked
    /\ row' = [row EXCEPT !.life = "gone"]
    /\ UNCHANGED <<told, loop>>
    /\ Leaves(r)

\* The flush of a row that is gone raises StaleDataError.
Writes(r, status) ==
    /\ row.life = "live"
    /\ ~RowLocked
    /\ row' = [row EXCEPT !.status = status]
    /\ loop' = loop
    /\ Overtakes(r, IF doing[r] \in Answering THEN Answering ELSE {})

ReadToConfirm(r) == Finds(r, "PUBLISHING") /\ Starts(r, "confirming")
CommitConfirm(r) == doing[r] = "confirming" /\ Writes(r, "PUBLISHED") /\ told' = "PUBLISHED"

\* There is no event for a publication that failed.
ReadToFail(r) == Finds(r, "PUBLISHING") /\ Starts(r, "failing")
CommitFail(r) == doing[r] = "failing" /\ Writes(r, "DRAFT") /\ told' = told

\* Mutant: the commit comes before the event, which is never committed.
RetireUntold(r) == doing[r] = "retiring" /\ Writes(r, "RETIRED") /\ told' = told

ReadToRetire(r) == Finds(r, "PUBLISHED") /\ Starts(r, "retiring")
CommitRetire(r) == doing[r] = "retiring" /\ Writes(r, "RETIRED") /\ told' = "RETIRED"

-----------------------------------------------------------------------------
\* The request fails: an id is not valid, StaleDataError, the database.  A create
\* that fails here has committed its row, and its event is lost.
Fail(r) ==
    /\ \/ doing[r] \in {"announcing", "validating", "flushing", "publishing"} /\ OnLoop(r)
       \/ doing[r] \in {"deleting", "retiring"} \union Answering
    /\ loop' = IF loop = r THEN NoRequest ELSE loop
    /\ Leaves(r)
    /\ UNCHANGED <<row, told>>

\* The process is killed and started again: its transactions are rolled back.
Restart ==
    /\ doing' = [r \in Requests |-> "nothing"]
    /\ ask' = [r \in Requests |-> SomeBody]
    /\ read' = [r \in Requests |-> SomeBody]
    /\ loop' = NoRequest
    /\ stale' = {}
    /\ UNCHANGED <<row, told, late>>

Coroutine(r) ==
    \/ CreateRow(r) \/ AnnounceCreate(r)
    \/ ReadToUpdate(r) \/ CommitUpdate(r) \/ UpdateWaits(r)
    \/ ReadToPublish(r) \/ FlushPublish(r) \/ CommitPublish(r)

Thread(r) ==
    \/ ReadToDelete(r) \/ DeleteRow(r)
    \/ ReadToConfirm(r) \/ CommitConfirm(r)
    \/ ReadToFail(r) \/ CommitFail(r)
    \/ ReadToRetire(r) \/ CommitRetire(r)

Next ==
    \/ \E r \in Requests : Coroutine(r) \/ Thread(r) \/ Fail(r)
    \/ Restart

Spec == Init /\ [][Next]_vars

\* A request that can go on does: the loop and the threads are scheduled, and
\* what a coroutine awaits has a timeout.
Fairness ==
    \A r \in Requests :
        /\ WF_vars(AnnounceCreate(r) \/ FlushPublish(r))
        /\ WF_vars(CommitUpdate(r) \/ UpdateWaits(r) \/ CommitPublish(r) \/ Fail(r))
        /\ WF_vars(DeleteRow(r) \/ CommitConfirm(r) \/ CommitFail(r) \/ CommitRetire(r))

FairSpec == Spec /\ Fairness

-----------------------------------------------------------------------------
\* The committed status moves along the lifecycle only, whatever requests overlap, with
\* one way off it: a request writes over the status that a confirm or fail has put
\* there since it read PUBLISHING (two answers of the saga, one late or repeated), or
\* that such a request has put there.
LifecycleFollowed ==
    [][row'.status # row.status =>
          \/ <<row.status, row'.status>> \in
                {<<"DRAFT", "PUBLISHING">>, <<"PUBLISHING", "DRAFT">>,
                 <<"PUBLISHING", "PUBLISHED">>, <<"PUBLISHED", "RETIRED">>}
          \/ late']_vars

\* What the store is told is what the row says, but for a DRAFT: no event tells of a
\* failed publication, nor of a creation that was cut short.  That a DRAFT is told as
\* PUBLISHED or RETIRED takes a stale fail.
EventsTellStatus ==
    row.life = "live" /\ told # row.status =>
        /\ row.status = "DRAFT"
        /\ told \in {"NONE", "PUBLISHING"} \/ late

\* The row that becomes PUBLISHING is complete at that moment: no update comes in
\* between the check of publish and its commit, though Camunda is awaited there.
CompleteWhenPublishing ==
    [][row.status # "PUBLISHING" /\ row'.status = "PUBLISHING" => row'.body \in Complete]_vars

\* An offering on sale is neither edited nor deleted
\* (docs/backend/srs_backend.md:1608, 1611).
PublishedIsFixed ==
    [][row.status = "PUBLISHED" => row'.body = row.body /\ row'.life = row.life]_vars

\* A publish that has started ends (docs/backend/srs_backend.md:320, 1636).
PublishEnds ==
    \A r \in Requests : doing[r] = "publishing" ~> doing[r] # "publishing"

=============================================================================
