---------------------------- MODULE Publication ----------------------------
(***************************************************************************)
(* What the publication of an offering promises, and no more: it is a       *)
(* transaction.  It begins with a draft that no other publication works on, *)
(* takes the locks of all its prices, and then either puts the offering on  *)
(* sale or undoes what it has done; the store shows nothing but what is on  *)
(* sale or held.  The locks are not the transaction's own alone: one that   *)
(* is undone may drop the lock of every price it has in common with another *)
(* one.  That is the only way to lose a lock.  There are no workers here,   *)
(* no process engine, no requests and no faults: PublicationSaga, which has *)
(* them, is shown to implement it.                                         *)
(***************************************************************************)
CONSTANTS Offerings, Prices, PricesOf, Sagas, NoSaga, NoOffering

VARIABLES
    status,
    phase,          \* how far the publication of a saga has come
    offeringOf,     \* the offering it publishes
    lockedBy,       \* the saga that has locked a price
    inStore         \* the offerings the store shows

publicationVars == <<status, phase, offeringOf, lockedBy, inStore>>

PricesIn(s) == {PricesOf[offeringOf[s]][i] : i \in DOMAIN PricesOf[offeringOf[s]]}

\* Another offering's publication, which is undone or has been, has the price too.
Disputed(s, p) ==
    \E t \in Sagas :
        /\ phase[t] \in {"undoing", "over"}
        /\ offeringOf[t] # offeringOf[s]
        /\ p \in PricesIn(t)

Holds(s) == \A p \in PricesIn(s) : lockedBy[p] = s \/ Disputed(s, p)

\* No publication of the offering can still lock, unlock or revert, and none has succeeded.
Free(o) == \A s \in Sagas : offeringOf[s] = o => phase[s] \in {"idle", "over"}

Init ==
    /\ status = [o \in Offerings |-> "DRAFT"]
    /\ phase = [s \in Sagas |-> "idle"]
    /\ offeringOf = [s \in Sagas |-> NoOffering]
    /\ lockedBy = [p \in Prices |-> NoSaga]
    /\ inStore = {}

Moves(s, from, to) == phase[s] \in from /\ phase' = [phase EXCEPT ![s] = to]
Becomes(o, old, new) == status[o] = old /\ status' = [status EXCEPT ![o] = new]

Begin(o, s) ==
    /\ Free(o)
    /\ Becomes(o, "DRAFT", "PUBLISHING")
    /\ Moves(s, {"idle"}, "taking")
    /\ offeringOf' = [offeringOf EXCEPT ![s] = o]
    /\ UNCHANGED <<lockedBy, inStore>>

\* Nobody has taken the publication on: the offering waits for ever.
BeginInVain(o) ==
    /\ Free(o)
    /\ Becomes(o, "DRAFT", "PUBLISHING")
    /\ UNCHANGED <<phase, offeringOf, lockedBy, inStore>>

Take(s, p) ==
    /\ phase[s] = "taking"
    /\ p \in PricesIn(s) /\ lockedBy[p] = NoSaga
    /\ lockedBy' = [lockedBy EXCEPT ![p] = s]
    /\ UNCHANGED <<status, phase, offeringOf, inStore>>

Drop(s, p) ==
    /\ phase[s] = "undoing"
    /\ p \in PricesIn(s)
    /\ lockedBy' = [lockedBy EXCEPT ![p] = NoSaga]
    /\ UNCHANGED <<status, phase, offeringOf, inStore>>

Hold(s) ==
    /\ Moves(s, {"taking"}, "holding")
    /\ Holds(s)
    /\ UNCHANGED <<status, offeringOf, lockedBy, inStore>>

Sell(s) ==
    /\ Moves(s, {"holding"}, "sold")
    /\ Holds(s)
    /\ Becomes(offeringOf[s], "PUBLISHING", "PUBLISHED")
    /\ UNCHANGED <<offeringOf, lockedBy, inStore>>

Undo(s) ==
    /\ Moves(s, {"taking", "holding"}, "undoing")
    /\ UNCHANGED <<status, offeringOf, lockedBy, inStore>>

\* The last thing undone is the status, if the offering service does it.
GiveUp(s) ==
    /\ Moves(s, {"undoing"}, "over")
    /\ Becomes(offeringOf[s], "PUBLISHING", "DRAFT") \/ UNCHANGED status
    /\ UNCHANGED <<offeringOf, lockedBy, inStore>>

Show(s) ==
    /\ phase[s] = "holding"
    /\ inStore' = inStore \union {offeringOf[s]}
    /\ UNCHANGED <<status, phase, offeringOf, lockedBy>>

Hide(s) ==
    /\ phase[s] = "undoing"
    /\ inStore' = inStore \ {offeringOf[s]}
    /\ UNCHANGED <<status, phase, offeringOf, lockedBy>>

Retire(o) == Becomes(o, "PUBLISHED", "RETIRED") /\ UNCHANGED <<phase, offeringOf, lockedBy, inStore>>

\* The store learns late what has become of an offering.
Learn(o) ==
    /\ \/ status[o] \in {"PUBLISHED", "RETIRED"} /\ inStore' = inStore \union {o}
       \/ status[o] = "RETIRED" /\ inStore' = inStore \ {o}
    /\ UNCHANGED <<status, phase, offeringOf, lockedBy>>

Next ==
    \/ \E o \in Offerings :
          BeginInVain(o) \/ Retire(o) \/ Learn(o) \/ \E s \in Sagas : Begin(o, s)
    \/ \E s \in Sagas :
          \/ Hold(s) \/ Show(s) \/ Sell(s) \/ Undo(s) \/ Hide(s) \/ GiveUp(s)
          \/ \E p \in Prices : Take(s, p) \/ Drop(s, p)

Spec == Init /\ [][Next]_publicationVars
=============================================================================
