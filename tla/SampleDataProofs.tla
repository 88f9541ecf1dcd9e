-------------------------- MODULE SampleDataProofs --------------------------
(***************************************************************************)
(* What holds of a reset and of the sample data after it, whatever is slow, *)
(* fails or is started in whatever order: for any number of faults, tries,  *)
(* polls and runs.                                                          *)
(*                                                                         *)
(* A reset is complete because the processes are down from its beginning    *)
(* (Quiet), so each store stays as its command has left it (Cleaned).  The  *)
(* properties of the sample data rest on the script's path: what it has     *)
(* reached implies what it was given for its items before (Needs, Earned).  *)
(***************************************************************************)
EXTENDS SampleData, SequenceTheorems, TLAPS

\* The deployment but for the faults, which the script meets too.
deploymentState == <<command, up, tries, key, tables, admin, old, warned, outlived>>

After(c) ==
    CASE c = "clean" -> {"mongo", "elastic", "rabbit", "migrate", "backend", "seed"}
      [] c = "mongo" -> {"elastic", "rabbit", "migrate", "backend", "seed"}
      [] c = "elastic" -> {"rabbit", "migrate", "backend", "seed"}
      [] c = "rabbit" -> {"migrate", "backend", "seed"}

\* No process runs between make stop and make backend, but for those that are slow
\* to stop, and none of these lives to see the application started again.
Quiet ==
    /\ command \notin {"stop", "seed"} => \A s \in Services : up[s] \in {"stopping", "down"}
    /\ command \in {"backend", "seed"} => \A s \in Services : up[s] # "stopping"
    /\ command \in After("clean") /\ ~outlived => \A s \in Services : up[s] # "stopping"

Cleaned ==
    ~outlived =>
        /\ command \in After("clean") => old \intersect Keyed = {}
        /\ command \in After("clean") \ {"seed"} => "cache" \notin old
        /\ command \in After("mongo") => "mongo" \notin old
        /\ command \in After("elastic") /\ ~warned => "elastic" \notin old
        /\ command \in After("rabbit") /\ ~warned => old = {}

DeploymentInv == DeploymentTypeOK /\ Quiet /\ Cleaned

LEMMA ListsOfScripts ==
  /\ Len(ToClean) = 5 /\ Len(ToMigrate) = 5
  /\ \A n \in 0 .. 5 : First(n, ToClean) \subseteq Databases /\ First(n, ToMigrate) \subseteq Databases
  /\ First(5, ToClean) = Databases
<1>1. Len(ToClean) = 5 /\ Len(ToMigrate) = 5
  BY DEF ToClean, ToMigrate
<1>2. \A i \in 1 .. 5 : i = 1 \/ i = 2 \/ i = 3 \/ i = 4 \/ i = 5
  OBVIOUS
<1>3. \A i \in 1 .. 5 : ToClean[i] \in Databases /\ ToMigrate[i] \in Databases
  BY <1>2 DEF ToClean, ToMigrate, Databases, Keyed
<1>4. \A n \in 0 .. 5 : \A i \in 1 .. n : i \in 1 .. 5
  OBVIOUS
<1>5. Databases \subseteq First(5, ToClean)
  <2>1. /\ ToClean[1] = "identity" /\ ToClean[2] = "characteristic" /\ ToClean[3] = "specification"
        /\ ToClean[4] = "pricing" /\ ToClean[5] = "offering"
    BY DEF ToClean
  <2> QED
    BY <2>1 DEF First, Databases, Keyed
<1> QED
  BY <1>1, <1>3, <1>4, <1>5 DEF First

LEMMA FaultType == ASSUME faults \in 0 .. MaxFaults, Fault PROVE faults' \in 0 .. MaxFaults
  BY DeploymentAssumption DEF Fault

------------------------------------------------------------------------------
LEMMA DeploymentInitInv == DeploymentInit => DeploymentInv
<1> SUFFICES ASSUME DeploymentInit PROVE DeploymentInv
  OBVIOUS
<1>1. DeploymentTypeOK
  <2>1. 0 \in 0 .. MaxTries /\ 0 \in 0 .. MaxFaults
    BY DeploymentAssumption
  <2>2. /\ up \in [Services -> {"up", "stopping", "down", "starting"}]
        /\ tries \in [Keyed -> 0 .. MaxTries]
    BY <2>1 DEF DeploymentInit
  <2> QED
    BY <2>1, <2>2 DEF DeploymentInit, DeploymentTypeOK, Commands
<1>2. Quiet /\ Cleaned
  BY DEF DeploymentInit, Quiet, Cleaned, After
<1> QED
  BY <1>1, <1>2 DEF DeploymentInv

\* Whatever leaves all but the faults alone.
LEMMA DeploymentKept ==
  ASSUME DeploymentInv, UNCHANGED deploymentState, faults' \in 0 .. MaxFaults
  PROVE  DeploymentInv'
  BY DEF DeploymentInv, DeploymentTypeOK, Quiet, Cleaned, deploymentState

LEMMA OperatorInv == ASSUME DeploymentInv, Operator PROVE DeploymentInv'
<1>1. DeploymentTypeOK /\ Quiet /\ Cleaned
  BY DEF DeploymentInv
<1> USE DEF DeploymentTypeOK, Commands
<1>2. CASE Stop
  BY <1>1, <1>2 DEF Stop, DeploymentInv, Quiet, Cleaned, After
<1>3. CASE CleanPostgres
  <2>1. PICK n \in 0 .. 5 :
           /\ tables' = tables \ First(n, ToClean)
           /\ old' = old \ HeldIn(First(n, ToClean))
           /\ admin' = (admin /\ "identity" \notin First(n, ToClean))
           /\ GoesOn(n = 5, "mongo")
    BY <1>3, ListsOfScripts DEF CleanPostgres
  <2>2. /\ faults' \in 0 .. MaxFaults /\ command' \in {"clean", "mongo"}
        /\ command' = "mongo" => n = 5
    BY <1>1, <1>3, <2>1, FaultType DEF GoesOn, CleanPostgres
  <2>3. DeploymentTypeOK'
    BY <1>1, <1>3, <2>1, <2>2 DEF CleanPostgres
  <2>4. /\ UNCHANGED <<up, key, warned>>
        /\ ~outlived' => \A s \in Services : up[s] = "down"
        /\ \A s \in Services : up[s] \in {"stopping", "down"}
    BY <1>1, <1>3 DEF CleanPostgres, Quiet
  <2>5. Quiet'
    BY <2>2, <2>4 DEF Quiet, After
  <2>6. command' = "mongo" => old' \intersect Keyed = {} /\ "cache" \notin old'
    BY <2>1, <2>2, ListsOfScripts DEF HeldIn, Databases, Keyed
  <2>7. Cleaned'
    BY <2>2, <2>6 DEF Cleaned, After
  <2> QED
    BY <2>3, <2>5, <2>7 DEF DeploymentInv
<1>4. CASE CleanMongo
  <2>1. DeploymentTypeOK'
    BY <1>1, <1>4, FaultType DEF CleanMongo
  <2>2. Quiet' /\ Cleaned'
    BY <1>1, <1>4 DEF CleanMongo, Quiet, Cleaned, After
  <2> QED
    BY <2>1, <2>2 DEF DeploymentInv
<1>5. CASE CleanElastic
  <2>1. DeploymentTypeOK'
    BY <1>1, <1>5, FaultType DEF CleanElastic
  <2>2. Quiet' /\ Cleaned'
    BY <1>1, <1>5 DEF CleanElastic, Quiet, Cleaned, After
  <2> QED
    BY <2>1, <2>2 DEF DeploymentInv
<1>6. CASE CleanRabbit
  <2>1. DeploymentTypeOK'
    BY <1>1, <1>6 DEF CleanRabbit
  <2>2. Quiet'
    BY <1>1, <1>6 DEF CleanRabbit, Quiet, After
  <2>3. Cleaned'
    BY <1>1, <1>6 DEF CleanRabbit, Cleaned, After, Holders
  <2> QED
    BY <2>1, <2>2, <2>3 DEF DeploymentInv
<1>7. CASE Migrate
  <2>1. PICK n \in 0 .. 5 : tables' = tables \union First(n, ToMigrate) /\ GoesOn(n = 5, "backend")
    BY <1>7, ListsOfScripts DEF Migrate
  <2>2. faults' \in 0 .. MaxFaults /\ command' \in {"migrate", "backend"}
    BY <1>1, <1>7, <2>1, FaultType DEF GoesOn, Migrate
  <2>3. DeploymentTypeOK'
    BY <1>1, <1>7, <2>1, <2>2, ListsOfScripts DEF Migrate
  <2>4. Quiet' /\ Cleaned'
    BY <1>1, <1>7, <2>2 DEF Migrate, Quiet, Cleaned, After
  <2> QED
    BY <2>3, <2>4 DEF DeploymentInv
<1>8. CASE Backend
  BY <1>1, <1>8 DEF Backend, DeploymentInv, Quiet, Cleaned, After
<1> QED
  BY <1>2, <1>3, <1>4, <1>5, <1>6, <1>7, <1>8 DEF Operator

LEMMA BootInv == ASSUME DeploymentInv, Boot PROVE DeploymentInv'
<1>1. DeploymentTypeOK /\ Quiet /\ Cleaned
  BY DEF DeploymentInv
<1> USE DEF DeploymentTypeOK
<1>2. Keyed \subseteq Services /\ "identity" \in Services /\ "store" \in Services
  BY DEF Services
<1>3. ASSUME NEW s \in Keyed, FetchKey(s) PROVE DeploymentInv'
  <2>1. DeploymentTypeOK'
    BY <1>1, <1>3, FaultType, DeploymentAssumption DEF FetchKey
  <2>2. Quiet' /\ Cleaned'
    BY <1>1, <1>3 DEF FetchKey, Quiet, Cleaned
  <2> QED
    BY <2>1, <2>2 DEF DeploymentInv
\* A process that starts, and then serves or does not, was started by make backend.
<1>4. ASSUME NEW s \in Services, up[s] = "starting", NEW to \in {"up", "down"},
             up' = [up EXCEPT ![s] = to], UNCHANGED <<command, old, warned, outlived>>
      PROVE  Quiet' /\ Cleaned'
  BY <1>1, <1>4 DEF Quiet, Cleaned, After
<1>5. ASSUME NEW s \in Keyed, Serve(s) PROVE DeploymentInv'
  <2>1. 0 \in 0 .. MaxTries
    BY DeploymentAssumption
  <2>2. /\ up' \in [Services -> {"up", "stopping", "down", "starting"}]
        /\ tries' \in [Keyed -> 0 .. MaxTries]
    BY <1>1, <1>2, <1>5, <2>1 DEF Serve
  <2>3. DeploymentTypeOK'
    BY <1>1, <1>5, <2>2 DEF Serve
  <2> QED
    BY <1>2, <1>4, <1>5, <2>3 DEF Serve, DeploymentInv
<1>6. CASE ServeIdentity
  <2>1. faults' \in 0 .. MaxFaults /\ admin' \in BOOLEAN
    BY <1>1, <1>6, FaultType DEF ServeIdentity
  <2>2. DeploymentTypeOK'
    BY <1>1, <1>6, <2>1 DEF ServeIdentity
  <2> QED
    BY <1>2, <1>4, <1>6, <2>2 DEF ServeIdentity, DeploymentInv
<1>7. CASE ServeStore
  <2>1. faults' \in 0 .. MaxFaults
    BY <1>1, <1>7, FaultType DEF ServeStore
  <2>2. DeploymentTypeOK'
    BY <1>1, <1>7, <2>1 DEF ServeStore
  <2> QED
    BY <1>2, <1>4, <1>7, <2>2 DEF ServeStore, DeploymentInv
<1> QED
  BY <1>3, <1>5, <1>6, <1>7 DEF Boot

LEMMA DeploymentNextInv == ASSUME DeploymentInv, DeploymentNext PROVE DeploymentInv'
<1>1. DeploymentTypeOK /\ Quiet /\ Cleaned
  BY DEF DeploymentInv
<1> USE DEF DeploymentTypeOK
<1>2. ASSUME NEW s \in Services, Exit(s) PROVE DeploymentInv'
  BY <1>1, <1>2 DEF Exit, DeploymentInv, Quiet, Cleaned
<1>3. ASSUME NEW s \in Services, WriteLate(s) PROVE DeploymentInv'
  <2>1. PICK h \in Holders : old' = old \union {h}
    BY <1>3 DEF WriteLate, Reaches, Holders, Keyed
  <2>2. DeploymentTypeOK'
    BY <1>1, <1>3, <2>1 DEF WriteLate
  <2>3. command \in After("clean") => outlived
    BY <1>1, <1>3 DEF WriteLate, Quiet
  <2>4. Quiet' /\ Cleaned'
    BY <1>1, <1>3, <2>3 DEF WriteLate, Quiet, Cleaned, After
  <2> QED
    BY <2>2, <2>4 DEF DeploymentInv
<1>4. CASE RefillCache
  <2>1. command = "seed"
    BY <1>1, <1>4 DEF RefillCache, Quiet, Services, Keyed
  <2>2. DeploymentTypeOK'
    BY <1>1, <1>4 DEF RefillCache, Holders
  <2>3. Quiet' /\ Cleaned'
    BY <1>1, <1>4, <2>1 DEF RefillCache, Quiet, Cleaned, After, Keyed
  <2> QED
    BY <2>2, <2>3 DEF DeploymentInv
<1> QED
  BY <1>2, <1>3, <1>4, OperatorInv, BootInv DEF DeploymentNext

\* What the script relies on is not lost again.
LEMMA DeploymentGrows ==
  ASSUME DeploymentInv, DeploymentNext, command = "seed"
  PROVE  command' = "seed" /\ key \subseteq key' /\ (admin => admin')
<1>1. \A s \in Services : up[s] # "stopping"
  BY DEF DeploymentInv, Quiet
<1>2. ~Operator
  BY DEF Operator, Stop, CleanPostgres, CleanMongo, CleanElastic, CleanRabbit, Migrate, Backend
<1>3. ASSUME NEW s \in Services, Exit(s) \/ WriteLate(s) PROVE FALSE
  BY <1>1, <1>3 DEF Exit, WriteLate
<1>4. CASE RefillCache
  BY <1>4 DEF RefillCache
<1>5. ASSUME NEW s \in Keyed, FetchKey(s) \/ Serve(s)
      PROVE  command' = "seed" /\ key \subseteq key' /\ (admin => admin')
  BY <1>5 DEF FetchKey, Serve
<1>6. CASE ServeStore
  BY <1>6 DEF ServeStore
<1>7. CASE ServeIdentity
  <2>1. admin \in BOOLEAN
    BY DEF DeploymentInv, DeploymentTypeOK
  <2> QED
    BY <1>7, <2>1 DEF ServeIdentity
<1> QED
  BY <1>2, <1>3, <1>4, <1>5, <1>6, <1>7 DEF DeploymentNext, Boot

------------------------------------------------------------------------------
\* The lengths that bound the number of the item, and the domain of rows.
Shape ==
    /\ DOMAIN rows = Named
    /\ item \in Nat \ {0}
    /\ at \in Lists => \A i \in 1 .. item - 1 : i \in Items[at]
    /\ at \in {"login"} \union Named => ids.offerings = <<>>
    /\ at = "offerings" => Len(ids.offerings) < item
    /\ Len(ids.offerings) <= 3
    /\ at \in {"publish", "poll"} => item <= Len(ids.offerings) + 1
    /\ at = "poll" => item <= Len(ids.offerings)
    /\ at \in {"nothing", "login"} => item = 1

\* What has been answered to a script that has come to where it is.
Path ==
    /\ runs > 0 => command = "seed"
    /\ runs = 0 => at = "nothing" /\ offered = <<>> /\ \A l \in Named : rows[l] = {}
    /\ at \notin {"nothing", "login"} => admin

\* What the script must have ids for before it comes to a step.
Needs(step) ==
    /\ step \in {"specifications", "prices", "offerings", "publish", "poll"} => ids.characteristics # <<>>
    /\ step \in {"offerings", "publish", "poll"} => ids.prices # <<>>
    /\ step \in {"publish", "poll"} => ids.offerings # <<>>

\* An id stands for something that was created in this run, by a service that has
\* the public key.
Earned ==
    /\ \A l \in {"characteristics", "prices"} :
          /\ before[1][l] \subseteq rows[l]
          /\ ids[l] # <<>> => rows[l] \ before[1][l] # {} /\ ServiceOf[l] \in key /\ runs # 0
    /\ Len(before[3]) \in Nat /\ Len(before[3]) <= Len(offered)
    /\ ids.offerings # <<>> => Len(offered) > Len(before[3]) /\ "offering" \in key /\ runs # 0
    /\ Needs(at)
    /\ result = "success" => admin /\ Needs("publish")

\* What an offering, a specification and the cache name was created before.
Complete ==
    /\ cached \subseteq rows.characteristics
    /\ \A s \in rows.specifications : refs[s] # {} /\ refs[s] \subseteq rows.characteristics
    /\ \A n \in DOMAIN offered :
          /\ offered[n].specifications \subseteq rows.specifications
          /\ offered[n].prices \subseteq rows.prices
          /\ offered[n].status # "DRAFT" => offered[n].specifications # {} /\ offered[n].prices # {}

\* A run that finds all that its first list, or its third, could create gets no id
\* for it, and so does not come to the lists after it.
Reseeding ==
    /\ before[1].characteristics = Measurable =>
          /\ ids.characteristics = <<>>
          /\ rows = before[1] /\ refs = before[2] /\ Len(offered) = Len(before[3])
    /\ before[1].prices = Items.prices => ids.prices = <<>> /\ Len(offered) = Len(before[3])

Inv == TypeOK /\ Quiet /\ Cleaned /\ Shape /\ Path /\ Earned /\ Complete /\ Reseeding

Steps == {"nothing", "login", "publish", "poll"} \union Lists

LEMMA ItemsOfLists ==
  /\ Lists = {"characteristics", "specifications", "prices", "offerings"}
  /\ Named = {"characteristics", "specifications", "prices"}
  /\ Items["characteristics"] = 1 .. 5 /\ Items["specifications"] = 1 .. 3
  /\ Items["prices"] = 1 .. 4 /\ Items["offerings"] = 1 .. 3
  /\ \A l \in Lists : Items[l] \subseteq Nat \ {0} /\ \A i \in Items[l] : i + 1 <= 6
<1>1. Lists = {"characteristics", "specifications", "prices", "offerings"}
  BY DEF Lists, Items
<1>2. /\ Items["characteristics"] = 1 .. 5 /\ Items["specifications"] = 1 .. 3
      /\ Items["prices"] = 1 .. 4 /\ Items["offerings"] = 1 .. 3
  BY DEF Items
<1>3. Named = {"characteristics", "specifications", "prices"}
  BY <1>1 DEF Named
<1>4. \A l \in Lists : Items[l] \subseteq Nat \ {0} /\ \A i \in Items[l] : i + 1 <= 6
  BY <1>1, <1>2
<1> QED
  BY <1>1, <1>2, <1>3, <1>4

LEMMA InitInv == Init => Inv
<1> SUFFICES ASSUME Init PROVE Inv
  OBVIOUS
<1>1. DeploymentInv
  BY DeploymentInitInv DEF Init
<1>2. /\ DOMAIN ids = Lists /\ DOMAIN rows = Named
      /\ \A l \in Lists : ids[l] = <<>>
      /\ \A l \in Named : rows[l] = {}
  BY DEF Init
<1>3. /\ ids.characteristics = <<>> /\ ids.prices = <<>> /\ ids.offerings = <<>>
      /\ rows.characteristics = {} /\ rows.specifications = {} /\ rows.prices = {}
  BY <1>2, ItemsOfLists
<1>4. TypeOK
  <2>1. item \in 1 .. 6 /\ polls \in 0 .. MaxPolls /\ runs \in 0 .. MaxRuns
    BY SampleAssumption DEF Init
  <2>2. \A l \in Named : ids[l] \in Seq(Items[l]) /\ rows[l] \subseteq Items[l]
    <3>1. \A l \in Named : ids[l] = <<>> /\ rows[l] = {}
      BY <1>2, ItemsOfLists
    <3>2. \A S : <<>> \in Seq(S)
      BY EmptySeq
    <3> QED
      BY <3>1, <3>2
  <2>3. ids.offerings \in Seq(1 .. Len(offered)) /\ offered \in Seq(Offering)
    BY <1>3, EmptySeq DEF Init
  <2>4. refs \in [Items.specifications -> SUBSET Items.characteristics]
    BY DEF Init
  <2>5. cached \subseteq rows.characteristics /\ at = "nothing" /\ result = "none"
    BY DEF Init
  <2> QED
    BY <1>1, <1>2, <2>1, <2>2, <2>3, <2>4, <2>5 DEF TypeOK, DeploymentInv
<1>5. Shape
  BY <1>2, <1>3, ItemsOfLists DEF Shape, Init
<1>6. Path /\ Earned
  <2>1. Path
    BY <1>2 DEF Path, Init
  <2>2. before = <<rows, refs, offered>> /\ offered = <<>> /\ Len(offered) = 0 /\ at = "nothing" /\ result = "none"
    BY EmptySeq DEF Init
  <2>3. Earned
    BY <1>3, <2>2 DEF Earned, Needs
  <2> QED
    BY <2>1, <2>3
<1>7. Complete
  <2>1. offered = <<>> /\ DOMAIN offered = {} /\ cached = {} /\ at = "nothing"
    BY DEF Init
  <2> QED
    BY <1>3, <2>1 DEF Complete
<1>8. Reseeding
  BY <1>3 DEF Reseeding, Init
<1> QED
  BY <1>1, <1>4, <1>5, <1>6, <1>7, <1>8 DEF Inv, DeploymentInv

\* A step of the script that does not touch the catalog.
LEMMA Moves ==
  ASSUME Inv, at # "nothing",
         UNCHANGED deploymentState, faults' \in 0 .. MaxFaults,
         UNCHANGED <<catalog, ids, runs, before>>,
         at' \in Steps, polls' \in 0 .. MaxPolls, result' \in {"none", "success", "failure"},
         Shape',
         at = "login" /\ at' \notin {"nothing", "login"} => admin,
         Needs(at'),
         result' = "success" => result = "success" \/ (at = "publish" /\ Needs("publish"))
  PROVE  Inv'
<1>1. DeploymentTypeOK' /\ Quiet' /\ Cleaned'
  BY DeploymentKept DEF Inv, TypeOK, DeploymentInv
<1>2. UNCHANGED <<rows, refs, cached, offered, ids, runs, before, command, admin, key>>
  BY DEF catalog, deploymentState
<1>3. TypeOK'
  <2>1. item' \in 1 .. 6
    <3>1. CASE at' \in Lists
      <4>1. item' = 1 \/ item' - 1 \in Items[at']
        <5>1. item' \in Nat /\ item' # 0
          BY DEF Shape
        <5>2. \A i \in 1 .. item' - 1 : i \in Items[at']
          BY <3>1 DEF Shape
        <5>3. \A n \in Nat : n # 0 => n = 1 \/ n - 1 \in 1 .. n - 1
          OBVIOUS
        <5> QED
          BY <5>1, <5>2, <5>3
      <4> QED
        BY <3>1, <4>1, ItemsOfLists, SampleAssumption DEF Shape
    <3>2. CASE at' \in {"publish", "poll"}
      <4>1. Len(ids'.offerings) \in Nat
        BY <1>2, LenProperties DEF Inv, TypeOK
      <4> QED
        BY <3>2, <4>1, SampleAssumption DEF Shape
    <3>3. CASE at' \in {"nothing", "login"}
      BY <3>3, SampleAssumption DEF Shape
    <3> QED
      BY <3>1, <3>2, <3>3 DEF Steps
  <2> QED
    BY <1>1, <1>2, <2>1 DEF Inv, TypeOK, Steps
<1>4. Path'
  BY <1>2 DEF Inv, Path
<1>7. Earned'
  <2>1. Needs(at)' /\ (Needs("publish") => Needs("publish")')
    BY <1>2 DEF Needs
  <2>2. result' = "success" => admin' /\ Needs("publish")'
    BY <1>2, <2>1 DEF Inv, Path, Earned
  <2> QED
    BY <1>2, <2>1, <2>2 DEF Inv, Earned
<1>5. Complete'
  BY <1>2 DEF Inv, Complete
<1>6. Reseeding'
  BY <1>2 DEF Inv, Reseeding
<1> QED
  BY <1>1, <1>3, <1>4, <1>5, <1>6, <1>7 DEF Inv

\* Where a list, the publications or the end of a run begin.
LEMMA GoesShape ==
  ASSUME Inv, NEW step \in Steps \ {"login", "poll"}, Goes(step), UNCHANGED <<rows, ids>>,
         step \in Lists => at \in {"login"} \union Named
  PROVE  Shape'
<1>1. Len(ids.offerings) \in Nat /\ Len(ids.offerings) <= 3 /\ DOMAIN rows = Named
  BY LenProperties DEF Inv, TypeOK, Shape
<1>2. step \in Lists => ids.offerings = <<>> /\ Len(ids.offerings) = 0
  BY EmptySeq DEF Inv, Shape
<1>3. at' = step /\ item' = 1
  BY DEF Goes
<1> QED
  BY <1>1, <1>2, <1>3, ItemsOfLists DEF Shape

LEMMA LoginInv == ASSUME Inv, Login PROVE Inv'
<1>1. faults' \in 0 .. MaxFaults /\ UNCHANGED deploymentState
  BY FaultType DEF Inv, TypeOK, DeploymentTypeOK, Login, deploymentState
<1>2. /\ at = "login" /\ UNCHANGED <<catalog, rows, ids, polls, runs, before>>
      /\ \/ Goes("characteristics") /\ admin /\ UNCHANGED result
         \/ Goes("nothing") /\ result' = "failure"
  BY DEF Login, Ends, catalog
<1>3. Shape'
  BY <1>2, GoesShape, ItemsOfLists DEF Steps
<1>4. /\ at' \in {"nothing", "characteristics"}
      /\ at' # "nothing" => admin
      /\ polls' \in 0 .. MaxPolls /\ result' \in {"none", "success", "failure"}
      /\ Needs(at') /\ (result' = "success" => result = "success")
  BY <1>2 DEF Goes, Inv, TypeOK, Needs
<1> QED
  BY <1>1, <1>2, <1>3, <1>4, Moves, ItemsOfLists DEF Steps

\* From one list to the next, or to the end.
LEMMA TurnInv ==
  ASSUME Inv, ToSpecifications \/ ToPrices \/ ToOfferings \/ ToPublish \/ Finish
  PROVE  Inv'
<1>1. /\ faults' \in 0 .. MaxFaults /\ UNCHANGED deploymentState
      /\ polls' \in 0 .. MaxPolls
      /\ UNCHANGED <<catalog, rows, ids, runs, before>>
  BY DEF Inv, TypeOK, DeploymentTypeOK, ToSpecifications, ToPrices, ToOfferings, ToPublish, Finish,
         deployment, deploymentState, catalog
<1>2. result' \in {"none", "success", "failure"}
  BY DEF Inv, TypeOK, ToSpecifications, ToPrices, ToOfferings, ToPublish, Finish, Ends
<1>3. \E step \in Steps \ {"login", "poll"} :
         /\ Goes(step)
         /\ step \in Lists => at \in Named
         /\ Needs(step)
         /\ result' = "success" => result = "success" \/ (at = "publish" /\ Needs("publish"))
  <2> Needs(at)
    BY DEF Inv, Earned
  <2>1. CASE ToSpecifications
    BY <2>1, ItemsOfLists DEF ToSpecifications, ListDone, Ends, Steps, Needs
  <2>2. CASE ToPrices
    BY <2>2, ItemsOfLists DEF ToPrices, ListDone, Steps, Needs
  <2>3. CASE ToOfferings
    BY <2>3, ItemsOfLists DEF ToOfferings, ListDone, Ends, Steps, Needs
  <2>4. CASE ToPublish
    BY <2>4, ItemsOfLists DEF ToPublish, ListDone, Ends, Steps, Needs
  <2>5. CASE Finish
    BY <2>5, ItemsOfLists DEF Finish, Ends, Steps, Needs
  <2> QED
    BY <2>1, <2>2, <2>3, <2>4, <2>5
<1>4. at \notin {"nothing", "login"}
  BY ItemsOfLists DEF ToSpecifications, ToPrices, ToOfferings, ToPublish, Finish, ListDone
<1>5. PICK step \in Steps \ {"login", "poll"} :
         /\ Goes(step)
         /\ step \in Lists => at \in Named
         /\ Needs(step)
         /\ result' = "success" => result = "success" \/ (at = "publish" /\ Needs("publish"))
  BY <1>3
<1>6. Shape'
  BY <1>1, <1>5, GoesShape
<1>7. at' = step
  BY <1>5 DEF Goes
<1> QED
  BY <1>1, <1>2, <1>4, <1>5, <1>6, <1>7, Moves

LEMMA PollInv == ASSUME Inv, Poll PROVE Inv'
<1>1. /\ faults' \in 0 .. MaxFaults /\ UNCHANGED deploymentState
      /\ UNCHANGED <<catalog, rows, ids, runs, result, before>> /\ at = "poll"
  BY FaultType DEF Inv, TypeOK, DeploymentTypeOK, Poll, deploymentState, catalog
<1>2. polls' \in 0 .. MaxPolls
  BY SampleAssumption DEF Inv, TypeOK, Poll
<1>3. \/ at' = "publish" /\ item' = item + 1
      \/ at' = at /\ item' = item
  BY DEF Poll
<1>4. Len(ids.offerings) \in Nat /\ item \in Nat \ {0} /\ item <= Len(ids.offerings)
      /\ Len(ids.offerings) <= 3 /\ DOMAIN rows = Named
  BY <1>1, LenProperties DEF Inv, TypeOK, Shape
<1>5. Shape'
  BY <1>1, <1>3, <1>4, ItemsOfLists DEF Shape
<1>6. Needs(at')
  BY <1>1, <1>3 DEF Inv, Earned, Needs
<1> QED
  BY <1>1, <1>2, <1>3, <1>5, <1>6, Moves, ItemsOfLists DEF Steps, Inv, TypeOK

LEMMA ResetInv == ASSUME Inv, Reset PROVE Inv'
<1>1. DeploymentTypeOK' /\ Quiet' /\ Cleaned'
  BY DeploymentNextInv DEF Inv, TypeOK, Reset, DeploymentInv
<1>2. UNCHANGED <<at, item, ids, polls, result, runs, before, rows, refs, cached, offered>>
  BY DEF Reset, script, catalog
<1>3. TypeOK' /\ Shape' /\ Complete' /\ Reseeding'
  BY <1>1, <1>2 DEF Inv, TypeOK, Shape, Complete, Reseeding
<1>4. command = "seed" => command' = "seed" /\ key \subseteq key' /\ (admin => admin')
  BY DeploymentGrows DEF Inv, TypeOK, Reset, DeploymentInv
<1>5. Path'
  <2>1. CASE runs = 0
    BY <1>2, <2>1 DEF Inv, Path
  <2>2. CASE runs # 0
    <3>1. command = "seed"
      BY <2>2 DEF Inv, TypeOK, Path
    <3>2. key \subseteq key' /\ (admin => admin') /\ command' = "seed"
      BY <1>4, <3>1
    <3> QED
      BY <1>2, <2>2, <3>2 DEF Inv, Path
  <2> QED
    BY <2>1, <2>2
<1>6. Earned'
  <2>1. Needs(at)' /\ (Needs("publish") => Needs("publish")')
    BY <1>2 DEF Needs, Inv, Earned
  <2>2. runs # 0 => key \subseteq key' /\ (admin => admin')
    BY <1>4 DEF Inv, TypeOK, Path
  <2>3. (ids.offerings # <<>> \/ result = "success") => runs # 0
    BY DEF Inv, Earned, Path, TypeOK, Needs
  <2> QED
    BY <1>2, <2>1, <2>2, <2>3 DEF Inv, Earned
<1> QED
  BY <1>1, <1>3, <1>5, <1>6 DEF Inv

LEMMA StartInv == ASSUME Inv, Start PROVE Inv'
<1>1. UNCHANGED <<deploymentState, faults, command, admin, key, rows, refs, cached, offered, polls>>
  BY DEF Start, deployment, deploymentState, catalog
<1>2. DeploymentTypeOK' /\ Quiet' /\ Cleaned'
  BY <1>1, DeploymentKept DEF Inv, TypeOK, DeploymentTypeOK, DeploymentInv
<1>3. /\ at' = "login" /\ item' = 1 /\ result' = "none" /\ runs' = runs + 1 /\ command = "seed"
      /\ before' = <<rows, refs, offered>>
      /\ DOMAIN ids' = Lists /\ \A l \in Lists : ids'[l] = <<>>
  BY DEF Start, Goes
<1>4. /\ ids'.offerings = <<>> /\ ids'.characteristics = <<>> /\ ids'.prices = <<>>
      /\ Len(ids'.offerings) = 0
  BY <1>3, EmptySeq, ItemsOfLists
<1>5. TypeOK'
  <2>1. item' \in 1 .. 6 /\ runs' \in 0 .. MaxRuns
    BY <1>3, SampleAssumption DEF Inv, TypeOK, Start
  <2>2. \A l \in Named : ids'[l] \in Seq(Items[l]) /\ rows'[l] \subseteq Items[l]
    <3> SUFFICES ASSUME NEW l \in Named PROVE ids'[l] \in Seq(Items[l]) /\ rows'[l] \subseteq Items[l]
      OBVIOUS
    <3>1. ids'[l] = <<>>
      BY <1>3, ItemsOfLists
    <3>2. rows[l] \subseteq Items[l]
      BY DEF Inv, TypeOK
    <3> QED
      BY <1>1, <3>1, <3>2, EmptySeq
  <2>3. ids'.offerings \in Seq(1 .. Len(offered'))
    BY <1>4, EmptySeq
  <2> QED
    BY <1>1, <1>2, <1>3, <2>1, <2>2, <2>3 DEF Inv, TypeOK
<1>6. Shape'
  BY <1>1, <1>3, <1>4, ItemsOfLists DEF Shape, Inv
<1>7. Path' /\ Complete'
  BY <1>1, <1>3, SampleAssumption DEF Inv, TypeOK, Path, Complete
<1>8. Reseeding'
  BY <1>1, <1>3, <1>4 DEF Reseeding
<1>9. Earned'
  <2>1. Len(offered) \in Nat
    BY LenProperties DEF Inv, TypeOK
  <2> QED
    BY <1>1, <1>3, <1>4, <2>1 DEF Earned, Needs
<1> QED
  BY <1>2, <1>5, <1>6, <1>7, <1>8, <1>9 DEF Inv

LEMMA FillCacheInv == ASSUME Inv, FillCache PROVE Inv'
<1>1. /\ UNCHANGED <<deploymentState, faults, command, admin, key>>
      /\ UNCHANGED <<at, item, ids, polls, result, runs, before, rows, refs, offered>>
  BY DEF FillCache, deployment, deploymentState, script
<1>2. DeploymentTypeOK' /\ Quiet' /\ Cleaned'
  BY <1>1, DeploymentKept DEF Inv, TypeOK, DeploymentTypeOK, DeploymentInv
<1>3. cached' \subseteq rows'.characteristics
  BY <1>1 DEF Inv, TypeOK, FillCache
<1> QED
  BY <1>1, <1>2, <1>3
     DEF Inv, TypeOK, Shape, Path, Earned, Needs, Complete, Reseeding

\* A step that only changes the status of an offering.
LEMMA StatusInv ==
  ASSUME Inv, NEW n \in DOMAIN offered, NEW s \in {"DRAFT", "PUBLISHING", "PUBLISHED"},
         offered' = [offered EXCEPT ![n].status = s],
         s # "DRAFT" => offered[n].specifications # {} /\ offered[n].prices # {},
         UNCHANGED deploymentState, faults' \in 0 .. MaxFaults,
         UNCHANGED <<ids, polls, result, runs, rows, refs, cached, before>>,
         \/ at' = at /\ item' = item
         \/ at = "publish" /\ at' = "poll" /\ item' = item /\ item <= Len(ids.offerings)
         \/ at = "publish" /\ at' = at /\ item' = item + 1 /\ item <= Len(ids.offerings)
  PROVE  Inv'
<1>1. DeploymentTypeOK' /\ Quiet' /\ Cleaned' /\ UNCHANGED <<command, admin, key>>
  BY DeploymentKept DEF Inv, TypeOK, DeploymentInv, deploymentState
<1>2. offered \in Seq(Offering) /\ Len(offered) \in Nat /\ DOMAIN offered = 1 .. Len(offered)
  BY LenProperties DEF Inv, TypeOK
<1>3. offered[n] \in Offering
  BY <1>2, ElementOfSeq
<1>4. offered' = [offered EXCEPT ![n] = [offered[n] EXCEPT !.status = s]]
  OBVIOUS
<1>5. [offered[n] EXCEPT !.status = s] \in Offering
  BY <1>3 DEF Offering
<1>6. offered' \in Seq(Offering) /\ Len(offered') = Len(offered)
  BY <1>2, <1>4, <1>5, ExceptSeq
<1>7. /\ DOMAIN offered' = DOMAIN offered
      /\ \A m \in DOMAIN offered :
            /\ offered'[m].specifications = offered[m].specifications
            /\ offered'[m].prices = offered[m].prices
            /\ offered'[m].status = IF m = n THEN s ELSE offered[m].status
  <2>1. ASSUME NEW m \in DOMAIN offered
        PROVE  /\ offered'[m].specifications = offered[m].specifications
               /\ offered'[m].prices = offered[m].prices
               /\ offered'[m].status = IF m = n THEN s ELSE offered[m].status
    BY <1>3, <1>4, <2>1 DEF Offering
  <2> QED
    BY <1>4, <2>1
<1>8. /\ Len(ids.offerings) \in Nat /\ Len(ids.offerings) <= 3 /\ item \in Nat \ {0}
      /\ at \in {"publish", "poll"} => item <= Len(ids.offerings) + 1
  BY LenProperties DEF Inv, TypeOK, Shape
<1>9. TypeOK'
  <2>1. item' \in 1 .. 6
    BY <1>8, SampleAssumption DEF Inv, TypeOK
  <2> QED
    BY <1>1, <1>6, <2>1 DEF Inv, TypeOK
<1>10. Shape'
  BY <1>8, ItemsOfLists DEF Inv, Shape
<1>11. Path'
  <2>1. offered # <<>>
    BY <1>2, EmptySeq
  <2> QED
    BY <1>1, <2>1 DEF Inv, Path
<1>14. Earned'
  <2>1. Needs(at') /\ (Needs("publish") => Needs("publish")')
    BY DEF Needs, Inv, Earned
  <2>2. Needs(at)'
    BY <2>1 DEF Needs
  <2> QED
    BY <1>1, <1>6, <2>1, <2>2 DEF Inv, Earned
<1>12. Complete'
  BY <1>7 DEF Inv, Complete
<1>13. Reseeding'
  BY <1>6 DEF Inv, Reseeding
<1> QED
  BY <1>1, <1>9, <1>10, <1>11, <1>12, <1>13, <1>14 DEF Inv

LEMMA EndSagaInv == ASSUME Inv, EndSaga PROVE Inv'
<1>1. PICK n \in DOMAIN offered, s \in {"PUBLISHED", "DRAFT"} :
         /\ offered[n].status = "PUBLISHING"
         /\ offered' = [offered EXCEPT ![n].status = s]
  BY DEF EndSaga
<1>2. offered[n].specifications # {} /\ offered[n].prices # {}
  BY <1>1 DEF Inv, Complete
<1>3. /\ UNCHANGED <<deploymentState, faults>>
      /\ UNCHANGED <<at, item, ids, polls, result, runs, rows, refs, cached, before>>
  BY DEF EndSaga, deployment, deploymentState, script
<1>4. faults' \in 0 .. MaxFaults
  BY <1>3 DEF Inv, TypeOK, DeploymentTypeOK
<1> QED
  BY <1>1, <1>2, <1>3, <1>4, StatusInv

LEMMA PublishInv == ASSUME Inv, Publish PROVE Inv'
<1>1. /\ faults' \in 0 .. MaxFaults /\ UNCHANGED deploymentState
      /\ UNCHANGED <<ids, polls, result, runs, rows, refs, cached, before>>
      /\ at = "publish" /\ item <= Len(ids.offerings)
  BY FaultType DEF Inv, TypeOK, DeploymentTypeOK, Publish, deploymentState
<1>2. CASE UNCHANGED <<at, offered>> /\ item' = item + 1
  <2>1. Len(ids.offerings) \in Nat /\ item \in Nat \ {0} /\ Len(ids.offerings) <= 3 /\ DOMAIN rows = Named
    BY LenProperties DEF Inv, TypeOK, Shape
  <2>2. Shape'
    BY <1>1, <1>2, <2>1, ItemsOfLists DEF Shape
  <2>3. UNCHANGED catalog
    BY <1>1, <1>2 DEF catalog
  <2>4. Needs(at')
    BY <1>2 DEF Inv, Earned
  <2> QED
    BY <1>1, <1>2, <2>2, <2>3, <2>4, Moves, ItemsOfLists DEF Steps, Inv, TypeOK
<1>3. CASE /\ Publishable(offered[Current])
           /\ offered' = [offered EXCEPT ![Current].status = "PUBLISHING"]
           /\ \/ at' = "poll" /\ item' = item
              \/ at' = at /\ item' = item + 1
  <2>1. Current \in DOMAIN offered
    <3>1. item \in 1 .. Len(ids.offerings)
      BY <1>1, LenProperties DEF Inv, TypeOK, Shape
    <3>2. Current \in 1 .. Len(offered)
      BY <3>1, ElementOfSeq DEF Current, Inv, TypeOK
    <3> QED
      BY <3>2, LenProperties DEF Inv, TypeOK
  <2>2. offered[Current].specifications # {} /\ offered[Current].prices # {}
    BY <1>3 DEF Publishable
  <2> QED
    BY <1>1, <1>3, <2>1, <2>2, StatusInv
<1>4. \/ /\ Publishable(offered[Current])
         /\ offered' = [offered EXCEPT ![Current].status = "PUBLISHING"]
         /\ \/ at' = "poll" /\ UNCHANGED <<item, faults>>
            \/ at' = at /\ item' = item + 1 /\ Fault
      \/ item' = item + 1 /\ UNCHANGED <<at, offered, faults>>
      \/ item' = item + 1 /\ UNCHANGED <<at, offered>> /\ Fault
  BY DEF Publish
<1> QED
  BY <1>2, <1>3, <1>4

\* An item that is not created, or the answer of whose creation is lost, moves the
\* script on all the same.
LEMMA PostCases ==
  ASSUME NEW list \in Lists, Post(list)
  PROVE  /\ UNCHANGED deploymentState /\ UNCHANGED <<at, polls, result, runs, before, cached>>
         /\ at = list /\ item \in Items[list] /\ item' = item + 1
         /\ faults' = faults \/ Fault
         /\ \/ UNCHANGED <<rows, refs, offered, ids>>
            \/ /\ Creatable(list, Wanted(list))
               /\ list = "offerings" => Valid(OfferingOf(item).specifications, OfferingOf(item).prices)
               /\ Commit(list)
               /\ \/ ids' = ids
                  \/ ids' = [ids EXCEPT ![list] =
                               Append(@, IF list = "offerings" THEN Len(offered) + 1 ELSE item)]
<1>1. /\ UNCHANGED <<at, polls, result, runs, before, cached>>
      /\ at = list /\ item \in Items[list] /\ item' = item + 1
  BY DEF Post
<1>2. UNCHANGED deploymentState
  BY DEF Post, deploymentState
<1>3. faults' = faults \/ Fault
  BY DEF Post
<1>4. \/ UNCHANGED <<rows, refs, offered, ids>>
      \/ /\ Creatable(list, Wanted(list))
         /\ list = "offerings" => Valid(OfferingOf(item).specifications, OfferingOf(item).prices)
         /\ Commit(list)
         /\ \/ ids' = ids
            \/ ids' = [ids EXCEPT ![list] =
                         Append(@, IF list = "offerings" THEN Len(offered) + 1 ELSE item)]
  BY DEF Post
<1> QED
  BY <1>1, <1>2, <1>3, <1>4

\* The id of what was created is appended to its list, or lost.
LEMMA PostIds ==
  ASSUME Inv, NEW list \in Lists, NEW id, at = list, item \in Items[list], item' = item + 1,
         \/ ids' = ids
         \/ ids' = [ids EXCEPT ![list] = Append(@, id)],
         list \in Named => id \in Items[list],
         list = "offerings" => id \in 1 .. Len(offered'),
         offered \in Seq(Offering), Len(offered) <= Len(offered'), Len(offered') \in Nat
  PROVE  /\ DOMAIN ids' = Lists
         /\ \A l \in Named : ids'[l] \in Seq(Items[l])
         /\ ids'.offerings \in Seq(1 .. Len(offered'))
         /\ list # "offerings" => ids'.offerings = ids.offerings
         /\ list = "offerings" => Len(ids'.offerings) <= item
         /\ \A l \in Lists : ids[l] # <<>> => ids'[l] # <<>>
         /\ \A l \in Lists : ids'[l] # <<>> => ids[l] # <<>> \/ l = list
<1>1. /\ DOMAIN ids = Lists /\ "offerings" \in Lists /\ "characteristics" \in Lists
      /\ \A l \in Named : l \in Lists /\ l # "offerings"
  BY ItemsOfLists DEF Inv, TypeOK
<1>2. \A l \in Lists : \/ ids'[l] = ids[l]
                       \/ l = list /\ ids'[l] = Append(ids[l], id)
  BY <1>1
<1>3. ids["offerings"] \in Seq(1 .. Len(offered'))
  <2>1. Len(offered) \in Nat
    BY LenProperties
  <2>2. 1 .. Len(offered) \subseteq 1 .. Len(offered')
    BY <2>1
  <2>3. ids["offerings"] \in Seq(1 .. Len(offered))
    BY DEF Inv, TypeOK
  <2> QED
    BY <2>2, <2>3, SeqMonotonic
<1>4. ASSUME NEW l \in Named PROVE ids'[l] \in Seq(Items[l])
  <2>1. ids[l] \in Seq(Items[l])
    BY DEF Inv, TypeOK
  <2>2. CASE l = list /\ ids'[l] = Append(ids[l], id)
    <3>1. id \in Items[l]
      BY <1>4, <2>2
    <3>2. Append(ids[l], id) \in Seq(Items[l])
      BY <2>1, <3>1, AppendProperties
    <3> QED
      BY <2>2, <3>2
  <2> QED
    BY <1>1, <1>2, <2>1, <2>2
<1>5. /\ ids'["offerings"] \in Seq(1 .. Len(offered'))
      /\ list = "offerings" => Len(ids'["offerings"]) <= item
  <2>1. list = "offerings" => Len(ids["offerings"]) < item /\ item \in Nat
    BY ItemsOfLists DEF Inv, Shape
  <2>2. Len(ids["offerings"]) \in Nat
    BY <1>3, LenProperties
  <2>3. CASE ids'["offerings"] = ids["offerings"]
    BY <1>3, <2>1, <2>2, <2>3
  <2>4. CASE list = "offerings" /\ ids'["offerings"] = Append(ids["offerings"], id)
    <3>1. /\ Append(ids["offerings"], id) \in Seq(1 .. Len(offered'))
          /\ Len(Append(ids["offerings"], id)) = Len(ids["offerings"]) + 1
      BY <1>3, <2>4, AppendProperties
    <3> QED
      BY <2>1, <2>2, <2>4, <3>1
  <2> QED
    BY <1>1, <1>2, <2>3, <2>4
<1>6. list # "offerings" => ids'["offerings"] = ids["offerings"]
  BY <1>1, <1>2
<1>7. DOMAIN ids' = Lists
  BY <1>1
<1>8. ASSUME NEW l \in Lists
      PROVE  (ids[l] # <<>> => ids'[l] # <<>>) /\ (ids'[l] # <<>> => ids[l] # <<>> \/ l = list)
  <2>1. ids[l] \in Seq(Items[l]) \/ ids[l] \in Seq(1 .. Len(offered'))
    BY <1>3, <1>8, ItemsOfLists DEF Inv, TypeOK
  <2>2. Append(ids[l], id) # <<>>
    <3>1. ids[l] \in Seq(UNION {Items[l], 1 .. Len(offered')} \union {id})
      BY <2>1, SeqMonotonic
    <3> QED
      BY <3>1, AppendProperties, EmptySeq
  <2> QED
    BY <1>2, <2>2
<1> QED
  BY <1>4, <1>5, <1>6, <1>7, <1>8

\* Shape of a script that has come to the next item of its list.
LEMMA PostShape ==
  ASSUME Inv, NEW list \in Lists, at = list, at' = at, item \in Items[list], item' = item + 1,
         DOMAIN rows' = Named, ids'.offerings \in Seq(1 .. Len(offered')),
         list # "offerings" => ids'.offerings = ids.offerings,
         list = "offerings" => Len(ids'.offerings) <= item
  PROVE  Shape' /\ item' \in 1 .. 6
<1>1. item \in Nat \ {0} /\ item + 1 <= 6
  BY ItemsOfLists
<1>2. \A i \in 1 .. item' - 1 : i \in Items[at']
  <2>1. \A i \in 1 .. item - 1 : i \in Items[list]
    BY DEF Inv, Shape
  <2>2. \A i \in 1 .. item' - 1 : i \in 1 .. item - 1 \/ i = item
    BY <1>1
  <2> QED
    BY <2>1, <2>2
<1>3. Len(ids'.offerings) \in Nat /\ Len(ids.offerings) \in Nat
  BY LenProperties DEF Inv, TypeOK
<1>4. list = "offerings" => item \in 1 .. 3
  BY ItemsOfLists
<1>5. list \in Named <=> list # "offerings"
  BY ItemsOfLists
<1>6. Len(ids'.offerings) <= 3
  BY <1>1, <1>3, <1>4 DEF Inv, Shape
<1>7. list \notin {"nothing", "login", "publish", "poll"}
  BY ItemsOfLists
<1>8. /\ list \in Named => ids'.offerings = <<>>
      /\ list = "offerings" => Len(ids'.offerings) < item'
  BY <1>1, <1>3, <1>5 DEF Inv, Shape
<1>9. Shape'
  BY <1>1, <1>2, <1>5, <1>6, <1>7, <1>8 DEF Shape
<1> QED
  BY <1>1, <1>9

\* Whom the service has let in.
LEMMA PostIsAdministrators ==
  ASSUME Inv, NEW list \in Lists, at = list, Creatable(list, Wanted(list))
  PROVE  ServiceOf[list] \in key /\ runs # 0
<1>1. at \notin {"nothing", "login"}
  BY ItemsOfLists
<1> QED
  BY <1>1 DEF Inv, Path, Creatable, Accepts

\* What an id stands for, when there may be one more.
LEMMA PostEarned ==
  ASSUME Inv, NEW list \in Lists, at = list, UNCHANGED <<at, result, runs, before, admin, key>>,
         Creatable(list, Wanted(list)),
         \A l \in {"characteristics", "prices"} : rows[l] \subseteq rows'[l],
         list \in Named => item \in rows'[list],
         Len(offered) \in Nat, Len(offered') \in Nat, Len(offered) <= Len(offered'),
         list = "offerings" => Len(offered') > Len(offered),
         \A l \in Lists : ids[l] # <<>> => ids'[l] # <<>>,
         \A l \in Lists : ids'[l] # <<>> => ids[l] # <<>> \/ l = list
  PROVE  Earned'
<1>1. ServiceOf[list] \in key /\ runs # 0
  BY PostIsAdministrators
<1>2. /\ "offerings" \in Lists /\ "characteristics" \in Lists /\ "prices" \in Lists
      /\ "characteristics" \in Named /\ "prices" \in Named /\ "offerings" \notin Named
      /\ ServiceOf["offerings"] = "offering"
  BY ItemsOfLists DEF ServiceOf
<1>3. ASSUME NEW l \in {"characteristics", "prices"}
      PROVE  /\ before'[1][l] \subseteq rows'[l]
             /\ ids'[l] # <<>> => rows'[l] \ before'[1][l] # {} /\ ServiceOf[l] \in key' /\ runs' # 0
  <2>1. before[1][l] \subseteq rows[l]
    BY DEF Inv, Earned
  <2>2. l = list => item \notin rows[l] /\ item \in rows'[l]
    BY <1>2 DEF Creatable
  <2>3. ids'[l] # <<>> => ids[l] # <<>> \/ l = list
    BY <1>2
  <2>4. ids[l] # <<>> => rows[l] \ before[1][l] # {} /\ ServiceOf[l] \in key /\ runs # 0
    BY DEF Inv, Earned
  <2>5. ids'[l] # <<>> => rows'[l] \ before[1][l] # {} /\ ServiceOf[l] \in key /\ runs # 0
    BY <1>1, <2>1, <2>2, <2>3, <2>4
  <2> QED
    BY <2>1, <2>5
<1>4. Needs(at)' /\ (Needs("publish") => Needs("publish")')
  BY <1>2 DEF Needs, Inv, Earned
<1>5. ids'["offerings"] # <<>> => Len(offered') > Len(before[3]) /\ "offering" \in key /\ runs # 0
  BY <1>1, <1>2 DEF Inv, Earned
<1>6. Len(before[3]) \in Nat /\ Len(before[3]) <= Len(offered')
  BY DEF Inv, Earned
<1> QED
  BY <1>3, <1>4, <1>5, <1>6 DEF Inv, Earned

\* A specification is given a characteristic, and only such as are in the cache.
LEMMA SpecificationHasCharacteristics ==
  ASSUME Inv, at = "specifications", Creatable("specifications", Wanted("specifications")),
         item \in Items["specifications"]
  PROVE  /\ SpecificationOf(item, ids.characteristics) # {}
         /\ SpecificationOf(item, ids.characteristics) \subseteq rows.characteristics
         /\ item \notin rows.specifications
<1>1. item \in {1, 2, 3}
  BY ItemsOfLists
<1>2. ids.characteristics # <<>>
  BY DEF Inv, Earned, Needs
<1>3. ids.characteristics \in Seq(Items["characteristics"])
  BY ItemsOfLists DEF Inv, TypeOK
<1>4. 1 \in DOMAIN ids.characteristics \intersect 1 .. 3
  BY <1>2, <1>3, EmptySeq, LenProperties
<1>5. SpecificationOf(item, ids.characteristics) # {}
  BY <1>1, <1>4 DEF SpecificationOf
<1>6. /\ SpecificationOf(item, ids.characteristics) \subseteq cached
      /\ item \notin rows.specifications
  BY ItemsOfLists DEF Creatable, Wanted
<1> QED
  BY <1>5, <1>6 DEF Inv, Complete

\* A characteristic, a specification or a price is created.
LEMMA PostNamedInv ==
  ASSUME Inv, NEW list \in Named, at = list, item \in Items[list], item' = item + 1,
         UNCHANGED deploymentState, faults' \in 0 .. MaxFaults,
         UNCHANGED <<at, polls, result, runs, before, cached>>,
         Creatable(list, Wanted(list)), Commit(list),
         \/ ids' = ids
         \/ ids' = [ids EXCEPT ![list] = Append(@, item)]
  PROVE  Inv'
<1>1. /\ list \in Lists /\ list # "offerings"
      /\ list \in {"characteristics", "specifications", "prices"}
  BY ItemsOfLists
<1>2. /\ rows' = [rows EXCEPT ![list] = @ \union {item}]
      /\ refs' = IF list = "specifications"
                 THEN [refs EXCEPT ![item] = SpecificationOf(item, ids.characteristics)] ELSE refs
      /\ offered' = offered
  BY <1>1 DEF Commit
<1>3. DeploymentTypeOK' /\ Quiet' /\ Cleaned' /\ UNCHANGED <<command, admin, key>>
  BY DeploymentKept DEF Inv, TypeOK, DeploymentInv, deploymentState
<1>4. /\ DOMAIN rows' = Named
      /\ \A l \in Named : rows'[l] = IF l = list THEN rows[l] \union {item} ELSE rows[l]
  BY <1>2 DEF Inv, Shape
<1>5. /\ offered \in Seq(Offering) /\ Len(offered) \in Nat /\ Len(offered') = Len(offered)
  BY <1>2, LenProperties DEF Inv, TypeOK
<1>6. /\ DOMAIN ids' = Lists
      /\ \A l \in Named : ids'[l] \in Seq(Items[l])
      /\ ids'.offerings \in Seq(1 .. Len(offered'))
      /\ ids'.offerings = ids.offerings
      /\ \A l \in Lists : ids[l] # <<>> => ids'[l] # <<>>
      /\ \A l \in Lists : ids'[l] # <<>> => ids[l] # <<>> \/ l = list
  BY <1>1, <1>5, PostIds
<1>7. Shape' /\ item' \in 1 .. 6
  BY <1>1, <1>4, <1>6, PostShape
<1>8. list = "specifications" =>
        /\ SpecificationOf(item, ids.characteristics) # {}
        /\ SpecificationOf(item, ids.characteristics) \subseteq rows.characteristics
        /\ item \notin rows.specifications
  BY SpecificationHasCharacteristics
<1>9. \A l \in Named : rows[l] \subseteq rows'[l] /\ rows'[l] \subseteq Items[l]
  <2>1. \A l \in Named : rows[l] \subseteq Items[l]
    BY DEF Inv, TypeOK
  <2>2. \A l \in Named : rows'[l] = rows[l] \/ (l = list /\ rows'[l] = rows[l] \union {item})
    BY <1>4
  <2> QED
    BY <2>1, <2>2
<1>10. "characteristics" \in Named /\ "specifications" \in Named /\ "prices" \in Named
  BY ItemsOfLists
<1>11. TypeOK'
  <2>1. refs' \in [Items.specifications -> SUBSET Items.characteristics]
    <3>1. /\ refs \in [Items.specifications -> SUBSET Items.characteristics]
          /\ rows.characteristics \subseteq Items.characteristics
      BY <1>10 DEF Inv, TypeOK
    <3> QED
      BY <1>2, <1>8, <3>1
  <2>2. cached' \subseteq rows'.characteristics
    BY <1>9, <1>10 DEF Inv, TypeOK
  <2>3. /\ at' \in {"nothing", "login", "publish", "poll"} \union Lists
        /\ polls' \in 0 .. MaxPolls /\ result' \in {"none", "success", "failure"}
        /\ runs' \in 0 .. MaxRuns
    BY DEF Inv, TypeOK
  <2> QED
    BY <1>2, <1>3, <1>5, <1>6, <1>7, <1>9, <2>1, <2>2, <2>3 DEF TypeOK
<1>12. Path'
  <2>1. runs # 0
    BY <1>1, PostIsAdministrators
  <2> QED
    BY <1>2, <1>3, <1>4, <2>1 DEF Inv, Path
<1>15. Earned'
  <2>1. /\ \A l \in {"characteristics", "prices"} : rows[l] \subseteq rows'[l]
        /\ item \in rows'[list]
    BY <1>4, <1>9, <1>10
  <2> QED
    BY <1>1, <1>3, <1>5, <1>6, <2>1, PostEarned
<1>13. Complete'
  <2>1. cached' \subseteq rows'.characteristics
    BY <1>9, <1>10 DEF Inv, TypeOK
  <2>2. ASSUME NEW s \in rows'.specifications
        PROVE  refs'[s] # {} /\ refs'[s] \subseteq rows'.characteristics
    <3>1. CASE s \in rows.specifications
      <4>1. refs'[s] = refs[s]
        BY <1>2, <1>8, <3>1
      <4> QED
        BY <1>9, <1>10, <3>1, <4>1 DEF Inv, Complete
    <3>2. CASE s \notin rows.specifications
      <4>1. list = "specifications" /\ s = item
        BY <1>4, <1>10, <2>2, <3>2
      <4>2. refs'[s] = SpecificationOf(item, ids.characteristics)
        BY <1>2, <4>1 DEF Inv, TypeOK
      <4> QED
        BY <1>8, <1>9, <1>10, <4>1, <4>2
    <3> QED
      BY <3>1, <3>2
  <2>3. ASSUME NEW n \in DOMAIN offered
        PROVE  /\ offered[n].specifications \subseteq rows'.specifications
               /\ offered[n].prices \subseteq rows'.prices
               /\ offered[n].status # "DRAFT" => offered[n].specifications # {} /\ offered[n].prices # {}
    BY <1>9, <1>10 DEF Inv, Complete
  <2> QED
    BY <1>2, <2>1, <2>2, <2>3 DEF Complete
<1>14. Reseeding'
  <2>1. before[1].characteristics # Measurable
    <3> SUFFICES ASSUME before[1].characteristics = Measurable PROVE FALSE
      OBVIOUS
    <3>1. ids.characteristics = <<>> /\ rows.characteristics = Measurable
      BY DEF Inv, Reseeding
    <3>2. at = "characteristics"
      BY <1>1, <3>1 DEF Inv, Earned, Needs
    <3> QED
      BY <1>1, <3>1, <3>2 DEF Creatable
  <2>2. before[1].prices = Items.prices => /\ ids.prices = <<>> /\ list # "prices"
                                           /\ Len(offered) = Len(before[3])
    BY <1>1 DEF Inv, Earned, Reseeding, Creatable
  <2>3. "prices" \in Lists
    BY ItemsOfLists
  <2> QED
    BY <1>5, <1>6, <2>1, <2>2, <2>3 DEF Reseeding
<1> QED
  BY <1>3, <1>7, <1>11, <1>12, <1>13, <1>14, <1>15 DEF Inv

LEMMA PostOfferingInv ==
  ASSUME Inv, at = "offerings", item \in Items["offerings"], item' = item + 1,
         UNCHANGED deploymentState, faults' \in 0 .. MaxFaults,
         UNCHANGED <<at, polls, result, runs, before, cached>>,
         Creatable("offerings", Wanted("offerings")), Commit("offerings"),
         Valid(OfferingOf(item).specifications, OfferingOf(item).prices),
         \/ ids' = ids
         \/ ids' = [ids EXCEPT !["offerings"] = Append(@, Len(offered) + 1)]
  PROVE  Inv'
<1> DEFINE new == OfferingOf(item)
<1>1. offered' = Append(offered, new) /\ UNCHANGED <<rows, refs>>
  BY DEF Commit
<1>2. "offerings" \in Lists /\ "offerings" \notin Named
  BY ItemsOfLists
<1>3. DeploymentTypeOK' /\ Quiet' /\ Cleaned' /\ UNCHANGED <<command, admin, key>>
  BY DeploymentKept DEF Inv, TypeOK, DeploymentInv, deploymentState
<1>4. offered \in Seq(Offering) /\ Len(offered) \in Nat /\ DOMAIN offered = 1 .. Len(offered)
  BY LenProperties DEF Inv, TypeOK
\* The services have been asked for what the offering names.
<1>5. /\ new.specifications \subseteq rows.specifications
      /\ new.prices \subseteq rows.prices
      /\ new.status = "DRAFT"
  BY DEF Valid, OfferingOf
<1>6. new \in Offering
  <2>1. rows.specifications \subseteq Items.specifications /\ rows.prices \subseteq Items.prices
    BY ItemsOfLists DEF Inv, TypeOK
  <2>2. new = [specifications |-> new.specifications, prices |-> new.prices, status |-> "DRAFT"]
    BY DEF OfferingOf
  <2> QED
    BY <1>5, <2>1, <2>2 DEF Offering
<1>7. /\ offered' \in Seq(Offering) /\ Len(offered') = Len(offered) + 1
      /\ DOMAIN offered' = 1 .. Len(offered) + 1
      /\ \A n \in 1 .. Len(offered) : offered'[n] = offered[n]
      /\ offered'[Len(offered) + 1] = new
  BY <1>1, <1>4, <1>6, AppendProperties, LenProperties
<1>8. /\ DOMAIN ids' = Lists
      /\ \A l \in Named : ids'[l] \in Seq(Items[l])
      /\ ids'.offerings \in Seq(1 .. Len(offered'))
      /\ Len(ids'.offerings) <= item
      /\ \A l \in Lists : ids[l] # <<>> => ids'[l] # <<>>
      /\ \A l \in Lists : ids'[l] # <<>> => ids[l] # <<>> \/ l = "offerings"
  <2>1. Len(offered) <= Len(offered') /\ Len(offered') \in Nat /\ Len(offered) + 1 \in 1 .. Len(offered')
    BY <1>4, <1>7
  <2> QED
    BY <1>2, <1>4, <2>1, PostIds
<1>9. Shape' /\ item' \in 1 .. 6
  <2>1. DOMAIN rows' = Named
    BY <1>1 DEF Inv, Shape
  <2> QED
    BY <1>2, <1>8, <2>1, PostShape
<1>10. TypeOK'
  BY <1>1, <1>3, <1>7, <1>8, <1>9 DEF Inv, TypeOK
<1>11. Path'
  <2>1. runs # 0
    BY <1>2, PostIsAdministrators
  <2> QED
    BY <1>1, <1>3, <2>1 DEF Inv, Path
<1>14. Earned'
  BY <1>1, <1>2, <1>3, <1>4, <1>7, <1>8, PostEarned
<1>12. Complete'
  <2>1. ASSUME NEW n \in DOMAIN offered'
        PROVE  /\ offered'[n].specifications \subseteq rows.specifications
               /\ offered'[n].prices \subseteq rows.prices
               /\ offered'[n].status # "DRAFT" =>
                    offered'[n].specifications # {} /\ offered'[n].prices # {}
    <3>1. n \in 1 .. Len(offered) \/ n = Len(offered) + 1
      BY <1>4, <1>7
    <3> QED
      BY <1>4, <1>5, <1>7, <3>1 DEF Inv, Complete
  <2> QED
    BY <1>1, <1>8, <2>1 DEF Inv, Complete
\* A run that was given no characteristic, or no price, does not come here.
<1>13. Reseeding'
  <2>1. ids.characteristics # <<>> /\ ids.prices # <<>>
    BY DEF Inv, Earned, Needs
  <2> QED
    BY <2>1 DEF Inv, Reseeding
<1> QED
  BY <1>3, <1>9, <1>10, <1>11, <1>12, <1>13, <1>14 DEF Inv

LEMMA PostInv == ASSUME Inv, NEW list \in Lists, Post(list) PROVE Inv'
<1>1. /\ UNCHANGED deploymentState /\ UNCHANGED <<at, polls, result, runs, before, cached>>
      /\ at = list /\ item \in Items[list] /\ item' = item + 1
  BY PostCases
<1>2. faults' \in 0 .. MaxFaults
  <2>1. faults \in 0 .. MaxFaults
    BY DEF Inv, TypeOK, DeploymentTypeOK
  <2> QED
    BY <2>1, PostCases, FaultType
<1>3. CASE UNCHANGED <<rows, refs, offered, ids>>
  <2>1. ids'.offerings \in Seq(1 .. Len(offered')) /\ DOMAIN rows' = Named
    BY <1>3 DEF Inv, TypeOK, Shape
  <2>2. list = "offerings" => Len(ids'.offerings) <= item
    <3>1. Len(ids.offerings) \in Nat /\ item \in Nat
      BY LenProperties DEF Inv, TypeOK, Shape
    <3> QED
      BY <1>1, <1>3, <3>1 DEF Inv, Shape
  <2>3. Shape'
    BY <1>1, <1>3, <2>1, <2>2, PostShape
  <2>4. UNCHANGED <<catalog, ids, runs, before>>
    BY <1>1, <1>3 DEF catalog
  <2>5. /\ at # "nothing" /\ at # "login" /\ at' \in Steps
        /\ polls' \in 0 .. MaxPolls /\ result' \in {"none", "success", "failure"}
        /\ Needs(at')
    BY <1>1, ItemsOfLists DEF Steps, Inv, TypeOK, Earned
  <2> QED
    BY <1>1, <1>2, <2>3, <2>4, <2>5, Moves
<1>4. CASE /\ Creatable(list, Wanted(list))
           /\ list = "offerings" => Valid(OfferingOf(item).specifications, OfferingOf(item).prices)
           /\ Commit(list)
           /\ \/ ids' = ids
              \/ ids' = [ids EXCEPT ![list] =
                           Append(@, IF list = "offerings" THEN Len(offered) + 1 ELSE item)]
  <2>1. CASE list = "offerings"
    BY <1>1, <1>2, <1>4, <2>1, PostOfferingInv
  <2>2. CASE list \in Named
    <3>1. list # "offerings"
      BY <2>2, ItemsOfLists
    <3>2. \/ ids' = ids
          \/ ids' = [ids EXCEPT ![list] = Append(@, item)]
      BY <1>4, <3>1
    <3> QED
      BY <1>1, <1>2, <1>4, <2>2, <3>2, PostNamedInv
  <2> QED
    BY <2>1, <2>2, ItemsOfLists
<1> QED
  BY <1>3, <1>4, PostCases

LEMMA NextInv == Inv /\ [Next]_vars => Inv'
<1> SUFFICES ASSUME Inv, [Next]_vars PROVE Inv'
  OBVIOUS
<1>1. CASE Script
  <2>1. CASE ToSpecifications \/ ToPrices \/ ToOfferings \/ ToPublish \/ Finish
    BY <2>1, TurnInv
  <2> QED
    BY <1>1, <2>1, LoginInv, PostInv, PublishInv, PollInv DEF Script
<1>2. CASE UNCHANGED vars
  <2>1. /\ UNCHANGED deploymentState /\ faults' = faults /\ UNCHANGED <<command, admin, key>>
        /\ UNCHANGED <<at, item, ids, polls, result, runs, before, rows, refs, cached, offered>>
    BY <1>2 DEF vars, deployment, deploymentState, script, catalog
  <2>2. DeploymentTypeOK' /\ Quiet' /\ Cleaned'
    BY <2>1, DeploymentKept DEF Inv, TypeOK, DeploymentTypeOK, DeploymentInv
  <2> QED
    BY <2>1, <2>2 DEF Inv, TypeOK, Shape, Path, Earned, Needs, Complete, Reseeding
<1> QED
  BY <1>1, <1>2, ResetInv, StartInv, FillCacheInv, EndSagaInv DEF Next

LEMMA Invariance == Spec => []Inv
  BY InitInv, NextInv, PTL DEF Spec

------------------------------------------------------------------------------
\* The variables keep their types, however far the operator, the services and the
\* script have come.
THEOREM TypeCorrect == Spec => []TypeOK
<1>1. Inv => TypeOK
  BY DEF Inv
<1> QED
  BY <1>1, Invariance, PTL

\* Whatever fails in a cleanup, and in whatever order the services start after it,
\* what was there before is gone, if no process outlived make stop.
THEOREM ResetLeavesNothing == Spec => []ResetIsComplete
<1>1. Inv => ResetIsComplete
  BY DEF Inv, TypeOK, DeploymentTypeOK, Cleaned, After, ResetIsComplete, Holders
<1> QED
  BY <1>1, Invariance, PTL

\* A run that reports success has created something of each kind it cannot do
\* without, let in by the administrator's token and the services' public key.
THEOREM SuccessHasCreated == Spec => []SuccessIsNotEmpty
<1>1. Inv => SuccessIsNotEmpty
  <2> SUFFICES ASSUME Inv, result = "success" PROVE SuccessIsNotEmpty
    BY DEF SuccessIsNotEmpty
  <2>1. admin /\ ids.characteristics # <<>> /\ ids.prices # <<>> /\ ids.offerings # <<>>
    BY DEF Inv, Earned, Needs
  <2> QED
    BY <2>1 DEF Inv, Earned, SuccessIsNotEmpty, ServiceOf
<1> QED
  BY <1>1, Invariance, PTL

\* What is published is complete, whatever was refused or failed before it.
THEOREM PublishedOnesAreComplete == Spec => []PublishedIsComplete
<1>1. Inv => PublishedIsComplete
  <2> SUFFICES ASSUME Inv, NEW n \in DOMAIN offered, offered[n].status = "PUBLISHED"
               PROVE  LET o == offered[n]
                      IN  /\ o.specifications # {} /\ o.specifications \subseteq rows.specifications
                          /\ o.prices # {} /\ o.prices \subseteq rows.prices
                          /\ \A s \in o.specifications :
                                refs[s] # {} /\ refs[s] \subseteq rows.characteristics
    BY DEF PublishedIsComplete
  <2> QED
    BY DEF Inv, Complete
<1> QED
  BY <1>1, Invariance, PTL

\* A run over all the characteristics that can be created adds nothing, and one over
\* all the prices no offering, whatever an earlier run has left out.
THEOREM SecondRunAddsNothing == Spec => []ReseedingAddsNothing
<1>1. Inv => ReseedingAddsNothing
  BY DEF Inv, Reseeding, ReseedingAddsNothing
<1> QED
  BY <1>1, Invariance, PTL
=============================================================================
