------------------------------ MODULE SampleData ------------------------------
(***************************************************************************)
(* scripts/seed_data.py after a reset (Deployment): it logs in, creates      *)
(* characteristics, specifications, prices and offerings, each list from     *)
(* the ids that the one before it returned, publishes the offerings one      *)
(* after the other and waits for each, and reports success.  It goes on      *)
(* after an item that fails.  Meanwhile the events of the characteristics    *)
(* reach the cache of the specification service, and the sagas end.          *)
(* The script may be run again.  The items of a list are the numbers of      *)
(* their places in it: a name is created once, except for offerings.         *)
(***************************************************************************)
EXTENDS Deployment, Functions

CONSTANTS
    MaxPolls,   \* how often the script reads the status of an offering: max_attempts
    MaxRuns     \* runs of the script (a bound)

ASSUME SampleAssumption == MaxPolls \in Nat \ {0} /\ MaxRuns \in Nat \ {0}

\* The script's lists: the numbers of their items.
Items == [characteristics |-> 1..5, specifications |-> 1..3, prices |-> 1..4, offerings |-> 1..3]
Lists == DOMAIN Items

\* The characteristics whose unit the characteristic service knows: those in Percent and
\* in ms are answered 422.
Measurable == {1, 2, 5}
ServiceOf == [characteristics |-> "characteristic", specifications |-> "specification",
              prices |-> "pricing", offerings |-> "offering"]

VARIABLES
    at,         \* what the script is doing
    item,       \* the item it has come to
    ids,        \* the ids it has got for each list
    polls,      \* how often it has read the status of the offering it waits for
    result,     \* what its last run returned
    runs,       \* history: how often it was started
    rows,       \* the characteristics, specifications and prices that were created
    refs,       \* the characteristics of a specification
    cached,     \* the characteristics in the cache of the specification service
    offered,    \* the offerings that were created, in that order
    before      \* history: all that was there when the run began

script == <<at, item, ids, polls, result, runs, before>>
catalog == <<rows, refs, cached, offered>>
vars == <<deployment, script, catalog>>

Named == Lists \ {"offerings"}
Offering == [specifications : SUBSET Items.specifications, prices : SUBSET Items.prices,
             status : {"DRAFT", "PUBLISHING", "PUBLISHED"}]

TypeOK ==
    /\ DeploymentTypeOK
    /\ at \in {"nothing", "login", "publish", "poll"} \union Lists
    /\ item \in 1..6
    /\ DOMAIN ids = Lists
    /\ \A l \in Named : ids[l] \in Seq(Items[l]) /\ rows[l] \subseteq Items[l]
    /\ ids.offerings \in Seq(1..Len(offered))
    /\ polls \in 0..MaxPolls
    /\ result \in {"none", "success", "failure"}
    /\ runs \in 0..MaxRuns
    /\ refs \in [Items.specifications -> SUBSET Items.characteristics]
    /\ cached \subseteq rows.characteristics
    /\ offered \in Seq(Offering)

Init ==
    /\ DeploymentInit
    /\ at = "nothing" /\ item = 1 /\ polls = 0 /\ result = "none" /\ runs = 0
    /\ ids = [l \in Lists |-> <<>>]
    /\ rows = [l \in Named |-> {}]
    /\ refs = [i \in Items.specifications |-> {}]
    /\ cached = {}
    /\ offered = <<>>
    /\ before = <<rows, refs, offered>>

-----------------------------------------------------------------------------
(* What a service answers.                                                 *)

\* get_current_user and RoleChecker: without the key every token is refused with
\* 500; the token of the script is good, and it says ADMIN.
Accepts(s) == up[s] = "up" /\ s \in key /\ s \in tables

\* What create_... of each service asks of an item; no answer but 201 matters.
Creatable(list, wanted) ==
    /\ Accepts(ServiceOf[list])
    /\ list # "offerings" => item \notin rows[list]
    /\ list = "characteristics" => item \in Measurable
    /\ list = "specifications" => wanted \subseteq cached

\* _validate_external_ids asks the owners of what an offering names.
Valid(specifications, prices) ==
    /\ specifications # {} => up["specification"] = "up" /\ specifications \subseteq rows.specifications
    /\ prices # {} => up["pricing"] = "up" /\ prices \subseteq rows.prices

-----------------------------------------------------------------------------
(* The script.                                                             *)

Goes(step) == at' = step /\ item' = 1

Ends(answer) == Goes("nothing") /\ result' = answer

Start ==
    /\ at = "nothing"
    /\ command = "seed" /\ \A s \in Services : up[s] # "starting"
    /\ runs < MaxRuns
    /\ Goes("login")
    /\ ids' = [l \in Lists |-> <<>>]
    /\ runs' = runs + 1
    /\ result' = "none"
    /\ before' = <<rows, refs, offered>>
    /\ UNCHANGED <<deployment, catalog, polls>>

\* login: a user that is not there is answered 401, tables that are not there 500.
Login ==
    /\ at = "login"
    /\ \/ up["identity"] = "up" /\ admin /\ Goes("characteristics") /\ UNCHANGED <<faults, result>>
       \/ ~(up["identity"] = "up" /\ admin) /\ Ends("failure") /\ faults' = faults
       \/ Ends("failure") /\ Fault
    /\ UNCHANGED <<command, up, tries, key, tables, admin, old, warned, outlived>>
    /\ UNCHANGED <<ids, polls, runs, before, catalog>>

\* The script's choice of characteristics for a specification.
SpecificationOf(i, got) ==
    CASE i = 1 -> {got[1]}
      [] i = 2 -> IF Len(got) > 1 THEN {got[1], got[2]} ELSE {got[1]}
      [] i = 3 -> {got[k] : k \in DOMAIN got \intersect 1..3}

\* ... and of the specifications or prices for an offering: the one at place n,
\* or all of them if there are not so many.
PlaceOrAll(n, got) == IF Len(got) >= n THEN {got[n]} ELSE Range(got)

OfferingOf(i) ==
    [specifications |-> PlaceOrAll(i, ids.specifications),
     prices |-> PlaceOrAll(IF i = 3 THEN 4 ELSE i, ids.prices),
     status |-> "DRAFT"]

\* What the service commits for a request that it accepts.
Commit(list) ==
    IF list = "offerings"
    THEN offered' = Append(offered, OfferingOf(item)) /\ UNCHANGED <<rows, refs>>
    ELSE /\ rows' = [rows EXCEPT ![list] = @ \union {item}]
         /\ refs' = IF list = "specifications"
                    THEN [refs EXCEPT ![item] = SpecificationOf(item, ids.characteristics)] ELSE refs
         /\ offered' = offered

Wanted(list) == IF list = "specifications" THEN SpecificationOf(item, ids.characteristics) ELSE {}

\* One item of a list: it is created, it is refused, or the request fails - before
\* the service has committed it or after.
Post(list) ==
    /\ at = list
    /\ item \in Items[list]
    /\ LET accepted == /\ Creatable(list, Wanted(list))
                       /\ list = "offerings" => Valid(OfferingOf(item).specifications, OfferingOf(item).prices)
           id == IF list = "offerings" THEN Len(offered) + 1 ELSE item
       IN  \/ /\ accepted
              /\ Commit(list)
              /\ \/ ids' = [ids EXCEPT ![list] = Append(@, id)] /\ faults' = faults
                 \/ ids' = ids /\ Fault
           \/ /\ ~accepted
              /\ UNCHANGED <<rows, refs, offered, ids, faults>>
           \/ /\ accepted
              /\ UNCHANGED <<rows, refs, offered, ids>> /\ Fault
    /\ item' = item + 1
    /\ UNCHANGED <<command, up, tries, key, tables, admin, old, warned, outlived>>
    /\ UNCHANGED <<at, polls, result, runs, before, cached>>

ListDone(list) == at = list /\ item \notin Items[list]

\* Mutant: the script without that slip.
ToSpecificationsOrPrices ==
    /\ ListDone("characteristics")
    /\ Goes(IF ids.characteristics = <<>> THEN "prices" ELSE "specifications")
    /\ UNCHANGED <<deployment, catalog, ids, polls, runs, result, before>>

\* run goes on without characteristics, it says; but create_specifications takes
\* the first one of them for its second item.
ToSpecifications ==
    /\ ListDone("characteristics")
    /\ IF ids.characteristics = <<>> THEN Ends("failure") ELSE Goes("specifications") /\ result' = result
    /\ UNCHANGED <<deployment, catalog, ids, polls, runs, before>>

ToPrices ==
    /\ ListDone("specifications")
    /\ Goes("prices")
    /\ UNCHANGED <<deployment, catalog, ids, polls, runs, result, before>>

\* Mutant: without a price it goes on as well.
ToOfferingsAlways ==
    /\ ListDone("prices")
    /\ Goes("offerings")
    /\ UNCHANGED <<deployment, catalog, ids, polls, runs, result, before>>

\* Without a price, or without an offering, the run has failed.
ToOfferings ==
    /\ ListDone("prices")
    /\ IF ids.prices = <<>> THEN Ends("failure") ELSE Goes("offerings") /\ result' = result
    /\ UNCHANGED <<deployment, catalog, ids, polls, runs, before>>

ToPublish ==
    /\ ListDone("offerings")
    /\ IF ids.offerings = <<>> THEN Ends("failure") ELSE Goes("publish") /\ result' = result
    /\ UNCHANGED <<deployment, catalog, ids, polls, runs, before>>

\* The offering the script has come to.
Current == ids.offerings[item]

\* Mutant: a publish does not ask for completeness.
PublishableDraft(o) == o.status = "DRAFT"

Publishable(o) == o.status = "DRAFT" /\ o.specifications # {} /\ o.prices # {}

\* The publish request; one that is refused or fails is not waited for.
Publish ==
    /\ at = "publish"
    /\ item <= Len(ids.offerings)
    /\ LET accepted == Accepts("offering") /\ Publishable(offered[Current])
       IN  \/ /\ accepted
              /\ offered' = [offered EXCEPT ![Current].status = "PUBLISHING"]
              /\ \/ at' = "poll" /\ UNCHANGED <<item, faults>>
                 \/ at' = at /\ item' = item + 1 /\ Fault
           \/ ~accepted /\ item' = item + 1 /\ UNCHANGED <<at, offered, faults>>
           \/ accepted /\ item' = item + 1 /\ UNCHANGED <<at, offered>> /\ Fault
    /\ UNCHANGED <<command, up, tries, key, tables, admin, old, warned, outlived>>
    /\ UNCHANGED <<ids, polls, result, runs, rows, refs, cached, before>>

\* One reading of the status: PUBLISHED, or DRAFT again, ends the wait, and so does
\* the last attempt, or a request that fails.
Poll ==
    /\ at = "poll"
    /\ \/ /\ offered[Current].status # "PUBLISHING" \/ polls + 1 = MaxPolls
          /\ at' = "publish" /\ item' = item + 1 /\ polls' = 0 /\ faults' = faults
       \/ /\ offered[Current].status = "PUBLISHING" /\ polls + 1 < MaxPolls
          /\ polls' = polls + 1 /\ UNCHANGED <<at, item, faults>>
       \/ at' = "publish" /\ item' = item + 1 /\ polls' = 0 /\ Fault
    /\ UNCHANGED <<command, up, tries, key, tables, admin, old, warned, outlived>>
    /\ UNCHANGED <<ids, result, runs, catalog, before>>

\* Whatever became of the publications.
Finish ==
    /\ at = "publish"
    /\ item > Len(ids.offerings)
    /\ Ends("success")
    /\ UNCHANGED <<deployment, catalog, ids, polls, runs, before>>

Script ==
    \/ Login
    \/ \E list \in Lists : Post(list)
    \/ ToSpecifications \/ ToPrices \/ ToOfferings \/ ToPublish
    \/ Publish \/ Poll \/ Finish

-----------------------------------------------------------------------------
(* What goes on meanwhile.                                                 *)

\* The event of a characteristic reaches the cache, in the order of creation.
FillCache ==
    /\ up["characteristic"] = "up" /\ up["specification"] = "up" /\ "specification" \in tables
    /\ \E c \in rows.characteristics \ cached :
          /\ \A d \in rows.characteristics \ cached : c <= d
          /\ cached' = cached \union {c}
    /\ UNCHANGED <<deployment, script, rows, refs, offered>>

\* A saga ends; it may as well never end.
EndSaga ==
    /\ \E n \in DOMAIN offered, status \in {"PUBLISHED", "DRAFT"} :
          /\ offered[n].status = "PUBLISHING"
          /\ offered' = [offered EXCEPT ![n].status = status]
    /\ UNCHANGED <<deployment, script, rows, refs, cached>>

Reset == DeploymentNext /\ UNCHANGED <<script, catalog>>

Next == Reset \/ Start \/ Script \/ FillCache \/ EndSaga

Spec == Init /\ [][Next]_vars

-----------------------------------------------------------------------------

(* A run that reports success has created a characteristic, a price and an   *)
(* offering of its own, so the administrator was there and the three services *)
(* had got the public key while they started: without it they serve 500s, and *)
(* the run fails.  It says nothing of the specifications, whose service may be *)
(* without the key, nor of what became of the publications.                  *)
SuccessIsNotEmpty ==
    result = "success" =>
        /\ \A l \in {"characteristics", "prices"} : rows[l] \ before[1][l] # {}
        /\ Len(offered) > Len(before[3])
        /\ admin /\ {"characteristic", "pricing", "offering"} \subseteq key

(* However few of the items before it were created, an offering that is      *)
(* published has a specification and a price; they exist, and so do the      *)
(* characteristics of its specifications.                                    *)
PublishedIsComplete ==
    \A n \in DOMAIN offered : offered[n].status = "PUBLISHED" =>
        LET o == offered[n]
        IN  /\ o.specifications # {} /\ o.specifications \subseteq rows.specifications
            /\ o.prices # {} /\ o.prices \subseteq rows.prices
            /\ \A s \in o.specifications : refs[s] # {} /\ refs[s] \subseteq rows.characteristics

(* A run adds nothing to a catalog that has every characteristic the service  *)
(* accepts, and no offering to one that has all the prices, whatever an        *)
(* earlier run has left out: offerings, whose names may be taken twice, are    *)
(* created again only if a characteristic and a price were missing.           *)
ReseedingAddsNothing ==
    /\ before[1].characteristics = Measurable =>
          rows = before[1] /\ refs = before[2] /\ Len(offered) = Len(before[3])
    /\ before[1].prices = Items.prices => Len(offered) = Len(before[3])
=============================================================================
