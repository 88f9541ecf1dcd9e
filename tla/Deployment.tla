------------------------------ MODULE Deployment ------------------------------
(***************************************************************************)
(* A reset of the application, as SEEDING.md tells the operator to do it:    *)
(* make stop, make clean-db, make migrate, make backend, wait, and seed.     *)
(* The services die and start on their own: each one that checks tokens      *)
(* asks the identity service for its public key while it starts, three       *)
(* times at most, and serves whether it has the key or not.                  *)
(*                                                                         *)
(* Of the data only its generation matters: "old" names the places that      *)
(* still hold something from before the reset.  What comes after it is the   *)
(* subject of SampleData.                                                    *)
(***************************************************************************)
EXTENDS Naturals, Sequences, FiniteSets

CONSTANTS
    MaxTries,   \* how often a service asks for the key: range(3)
    Slow,       \* services that may outlive make stop, which does not wait for them
    MaxFaults   \* faults that may happen (a bound)

Keyed == {"characteristic", "specification", "pricing", "offering"}
Services == Keyed \union {"identity", "store"}

\* Each service but the store owns a database.  The lists of the two scripts.
ToClean == <<"identity", "characteristic", "specification", "pricing", "offering">>
ToMigrate == <<"characteristic", "identity", "offering", "pricing", "specification">>
Databases == Keyed \union {"identity"}

\* Of the queues only the one that fills the cache of characteristics: the store
\* writes no offering that the offering service does not know.
Holders == Keyed \union {"cache", "mongo", "elastic", "queue"}

ASSUME DeploymentAssumption ==
    /\ MaxTries \in Nat \ {0}
    /\ Slow \subseteq Services
    /\ MaxFaults \in Nat

VARIABLES
    command,    \* the operator's next command
    up,         \* what a service's process is doing
    tries,      \* requests for the key that a starting service has made
    key,        \* the services that hold the public key
    tables,     \* the services whose database has its tables
    admin,      \* the identity database has the user admin
    old,        \* the places that hold something from before the reset
    warned,     \* history: the cleanup printed a warning and went on
    outlived,   \* history: a service was alive when the cleanup began
    faults      \* faults so far

deployment == <<command, up, tries, key, tables, admin, old, warned, outlived, faults>>

Commands == {"stop", "clean", "mongo", "elastic", "rabbit", "migrate", "backend", "seed"}

DeploymentTypeOK ==
    /\ command \in Commands
    /\ up \in [Services -> {"up", "stopping", "down", "starting"}]
    /\ tries \in [Keyed -> 0..MaxTries]
    /\ key \subseteq Keyed
    /\ tables \subseteq Databases
    /\ old \subseteq Holders
    /\ admin \in BOOLEAN /\ warned \in BOOLEAN /\ outlived \in BOOLEAN
    /\ faults \in 0..MaxFaults

\* An application that has been in use, and holds data everywhere.
DeploymentInit ==
    /\ command = "stop"
    /\ up = [s \in Services |-> "up"]
    /\ tries = [s \in Keyed |-> 0]
    /\ key = Keyed
    /\ tables = Databases
    /\ admin = TRUE
    /\ old = Holders
    /\ warned = FALSE /\ outlived = FALSE
    /\ faults = 0

Fault == faults < MaxFaults /\ faults' = faults + 1

First(n, list) == {list[i] : i \in 1..n}

-----------------------------------------------------------------------------
(* The operator.                                                           *)

\* make stop: SIGTERM to every process, and no wait for its end.
Stop ==
    /\ command = "stop"
    /\ up' = [s \in Services |-> IF s \in Slow THEN "stopping" ELSE "down"]
    /\ key' = key \intersect Slow
    /\ command' = "clean"
    /\ UNCHANGED <<tries, tables, admin, old, warned, outlived, faults>>

\* Either the command ends, or a fault does and the operator gives it again.
GoesOn(ended, next) ==
    \/ ended /\ command' = next /\ faults' = faults
    \/ ~ended /\ command' = command /\ Fault

\* The cache of characteristics is a table of the specification service.
HeldIn(dbs) == dbs \union (IF "specification" \in dbs THEN {"cache"} ELSE {})

\* A cleanup whose list of databases lacks one.
CleanMostOfPostgres ==
    /\ command = "clean"
    /\ outlived' = (outlived \/ \E s \in Services : up[s] # "down")
    /\ tables' = {"specification"}
    /\ old' = (old \ Keyed) \union {"specification", "cache"}
    /\ admin' = FALSE
    /\ command' = "mongo"
    /\ UNCHANGED <<up, tries, key, warned, faults>>

\* The script drops what it finds, the tables first; an error ends it, and the
\* operator starts it again.
CleanPostgres ==
    /\ command = "clean"
    /\ outlived' = (outlived \/ \E s \in Services : up[s] # "down")
    /\ \E n \in 0..Len(ToClean) :
          /\ tables' = tables \ First(n, ToClean)
          /\ old' = old \ HeldIn(First(n, ToClean))
          /\ admin' = (admin /\ "identity" \notin First(n, ToClean))
          /\ GoesOn(n = Len(ToClean), "mongo")
    /\ UNCHANGED <<up, tries, key, warned>>

CleanMongo ==
    /\ command = "mongo"
    /\ \/ old' = old \ {"mongo"} /\ command' = "elastic" /\ faults' = faults
       \/ command' = "clean" /\ old' = old /\ Fault
    /\ UNCHANGED <<up, tries, key, tables, admin, warned, outlived>>

\* An index that is not deleted is worth a warning.
CleanElastic ==
    /\ command = "elastic"
    /\ \/ old' = old \ {"elastic"} /\ command' = "rabbit" /\ UNCHANGED <<warned, faults>>
       \/ old' = old /\ command' = "rabbit" /\ warned' = TRUE /\ Fault
       \/ old' = old /\ command' = "clean" /\ warned' = warned /\ Fault
    /\ UNCHANGED <<up, tries, key, tables, admin, outlived>>

\* A queue that is not purged, and a broker that does not answer, are worth a
\* warning.
CleanRabbit ==
    /\ command = "rabbit"
    /\ \/ old' = old \ {"queue"} /\ warned' = warned
       \/ old' = old /\ warned' = TRUE
    /\ command' = "migrate"
    /\ UNCHANGED <<up, tries, key, tables, admin, outlived, faults>>

\* alembic upgrade head for each service that has migrations, sorted by name; an
\* error ends the script, and the operator runs it again.  A process that outlives
\* the whole cleanup is left out.
Migrate ==
    /\ command = "migrate" /\ \A s \in Services : up[s] = "down"
    /\ \E n \in 0..Len(ToMigrate) :
          /\ tables' = tables \union First(n, ToMigrate)
          /\ GoesOn(n = Len(ToMigrate), "backend")
    /\ UNCHANGED <<up, tries, key, admin, old, warned, outlived>>

\* make backend starts every service at once.
Backend ==
    /\ command = "backend"
    /\ up' = [s \in Services |-> "starting"]
    /\ command' = "seed"
    /\ UNCHANGED <<tries, key, tables, admin, old, warned, outlived, faults>>

-----------------------------------------------------------------------------
(* The services.                                                           *)

\* The end of a process that has been told to stop.
Exit(s) ==
    /\ up[s] = "stopping"
    /\ up' = [up EXCEPT ![s] = "down"]
    /\ key' = key \ {s}
    /\ UNCHANGED <<command, tries, tables, admin, old, warned, outlived, faults>>

\* Where a request, an event or a sync that is still under way may write.
Reaches(s) ==
    CASE s = "store" -> {"mongo", "elastic"}
      [] s = "characteristic" -> {s, "queue"}
      [] s \in {"specification", "pricing", "offering"} -> {s}
      [] OTHER -> {}

\* What a process that has been told to stop still does.
WriteLate(s) ==
    /\ up[s] = "stopping"
    /\ \E h \in Reaches(s) :
          /\ h \in Keyed => h \in tables
          /\ h \notin old
          /\ old' = old \union {h}
    /\ UNCHANGED <<command, up, tries, key, tables, admin, warned, outlived, faults>>

\* One of the requests for the key.  Whatever goes wrong with the request, the
\* loop goes on; the identity service needs no database to answer.
FetchKey(s) ==
    /\ up[s] = "starting"
    /\ s \notin key
    /\ tries[s] < MaxTries
    /\ \/ up["identity"] = "up" /\ key' = key \union {s} /\ UNCHANGED <<tries, faults>>
       \/ up["identity"] # "up" /\ tries' = [tries EXCEPT ![s] = @ + 1] /\ UNCHANGED <<key, faults>>
       \/ up["identity"] = "up" /\ tries' = [tries EXCEPT ![s] = @ + 1] /\ key' = key /\ Fault
    /\ UNCHANGED <<command, up, tables, admin, old, warned, outlived>>

\* The outbox listener and the consumer start, and the application serves, with
\* the key or without it.
Serve(s) ==
    /\ up[s] = "starting"
    /\ s \in key \/ tries[s] = MaxTries
    /\ up' = [up EXCEPT ![s] = "up"]
    /\ tries' = [tries EXCEPT ![s] = 0]
    /\ UNCHANGED <<command, key, tables, admin, old, warned, outlived, faults>>

\* startup_event: seed_users adds the users that are missing.  Its errors are
\* printed: the service serves without users.
ServeIdentity ==
    /\ up["identity"] = "starting"
    /\ up' = [up EXCEPT !["identity"] = "up"]
    /\ \/ admin' = (admin \/ "identity" \in tables) /\ faults' = faults
       \/ admin' = admin /\ Fault
    /\ UNCHANGED <<command, tries, key, tables, old, warned, outlived>>

\* init_index raises if Elasticsearch does not answer: the service does not start.
ServeStore ==
    /\ up["store"] = "starting"
    /\ \/ up' = [up EXCEPT !["store"] = "up"] /\ faults' = faults
       \/ up' = [up EXCEPT !["store"] = "down"] /\ Fault
    /\ UNCHANGED <<command, tries, key, tables, admin, old, warned, outlived>>

\* The consumer of the specification service works off events from before the
\* reset: it keeps what they tell of characteristics that are no more.
RefillCache ==
    /\ up["specification"] = "up" /\ "specification" \in tables
    /\ command # "stop"
    /\ "queue" \in old
    /\ old' = (old \ {"queue"}) \union {"cache"}
    /\ UNCHANGED <<command, up, tries, key, tables, admin, warned, outlived, faults>>

Operator ==
    \/ Stop \/ CleanPostgres \/ CleanMongo \/ CleanElastic \/ CleanRabbit
    \/ Migrate \/ Backend

Boot == \/ \E s \in Keyed : FetchKey(s) \/ Serve(s)
        \/ ServeIdentity \/ ServeStore

DeploymentNext ==
    \/ Operator
    \/ Boot
    \/ \E s \in Services : Exit(s) \/ WriteLate(s)
    \/ RefillCache

-----------------------------------------------------------------------------

(* Once the cleanup is over, and unless a process outlived make stop,        *)
(* nothing from before the reset is left in a database of a service, nor in  *)
(* MongoDB, and a cleanup that printed no warning left nothing at all -       *)
(* whatever failed before, and in whatever order the services then start and *)
(* work off their queues.                                                    *)
ResetIsComplete ==
    command \in {"migrate", "backend", "seed"} /\ ~outlived =>
        /\ old \subseteq {"cache", "elastic", "queue"}
        /\ ~warned => old = {}
=============================================================================
