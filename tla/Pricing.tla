------------------------------- MODULE Pricing -------------------------------
(***************************************************************************)
(* The spot price (api/pricing.py): from a source on the network or, when  *)
(* that is off or fails, the operator's manual price; cached for sixty     *)
(* seconds.  The operator's update of the configuration writes its keys    *)
(* one by one and then drops the cached price.                             *)
(***************************************************************************)
EXTENDS Naturals

CONSTANTS
    Quote,       \* requests that need the spot price
    Manager,     \* requests of the operator
    Price,       \* prices
    SpotUrl,     \* TRUE: a source on the network is configured
    MaxChanges   \* bound: updates of the configuration

ASSUME PricingAssumption == SpotUrl \in BOOLEAN /\ MaxChanges \in Nat

VARIABLES
    conf,      \* the rows spot_source and spot_manual of ocpp.pricing_config
    spot,      \* _spot_cache, and where its price is from
    quote,     \* what a request is suspended before, and what it has read
    manager,   \* the keys an update has still to write
    late,      \* history: the configuration changed under a request, or an
               \* update failed before it dropped the cached price
    changes    \* number of updates so far

pricingVars == <<conf, spot, quote, manager, late, changes>>

-----------------------------------------------------------------------------
Conf == [manual : BOOLEAN, price : Price]

QuoteStep == [pc : {"idle", "source", "price", "fetch", "keep"}, manual : BOOLEAN,
              price : Price, from : {"manual", "network"}]

ManagerStep == [pc : {"idle", "source", "price", "drop"}, to : Conf, both : BOOLEAN]

AnyPrice  == CHOOSE p \in Price : TRUE
NoQuote   == [pc |-> "idle", manual |-> FALSE, price |-> AnyPrice, from |-> "manual"]
NoManager == [pc |-> "idle", to |-> [manual |-> FALSE, price |-> AnyPrice], both |-> FALSE]

PricingTypeOK ==
    /\ conf \in Conf
    /\ spot \in [price : Price, from : {"manual", "network"}, fresh : BOOLEAN]
    /\ quote \in [Quote -> QuoteStep]
    /\ manager \in [Manager -> ManagerStep]
    /\ late \in BOOLEAN
    /\ changes \in Nat

PricingInit ==
    /\ conf \in Conf
    /\ spot = [price |-> conf.price, from |-> "manual", fresh |-> FALSE]
    /\ quote = [q \in Quote |-> NoQuote]
    /\ manager = [m \in Manager |-> NoManager]
    /\ late = FALSE
    /\ changes = 0

-----------------------------------------------------------------------------
(* get_spot_price.                                                         *)

Busy(Q) == \E q \in Q : quote[q].pc # "idle"

\* A fresh price answers without a step.
GetSpotPrice(q) ==
    /\ quote[q].pc = "idle"
    /\ ~spot.fresh
    /\ quote' = [quote EXCEPT ![q].pc = "source"]
    /\ UNCHANGED <<conf, spot, manager, late, changes>>

ReadSource(q) ==
    /\ quote[q].pc = "source"
    /\ quote' = [quote EXCEPT ![q].pc = "price", ![q].manual = conf.manual]
    /\ UNCHANGED <<conf, spot, manager, late, changes>>

ReadManual(q) ==
    /\ quote[q].pc = "price"
    /\ quote' = [quote EXCEPT ![q].price = conf.price, ![q].from = "manual",
                   ![q].pc = IF SpotUrl /\ ~quote[q].manual THEN "fetch" ELSE "keep"]
    /\ UNCHANGED <<conf, spot, manager, late, changes>>

\* The source answers a price, whichever it is; or it does not, and the manual
\* one is kept.
Fetch(q) ==
    /\ quote[q].pc = "fetch"
    /\ quote' = [quote EXCEPT ![q].pc = "keep", ![q].price = AnyPrice,
                              ![q].from = "network"]
    /\ UNCHANGED <<conf, spot, manager, late, changes>>

FetchFails(q) ==
    /\ quote[q].pc = "fetch"
    /\ quote' = [quote EXCEPT ![q].pc = "keep"]
    /\ UNCHANGED <<conf, spot, manager, late, changes>>

Keep(q) ==
    /\ quote[q].pc = "keep"
    /\ spot' = [price |-> quote[q].price, from |-> quote[q].from, fresh |-> TRUE]
    /\ quote' = [quote EXCEPT ![q] = NoQuote]
    /\ UNCHANGED <<conf, manager, late, changes>>

\* Sixty seconds pass, or ten after a failure of the source.
SpotExpires ==
    /\ spot.fresh
    /\ spot' = [spot EXCEPT !.fresh = FALSE]
    /\ late' = (late /\ Busy(Quote))
    /\ UNCHANGED <<conf, quote, manager, changes>>

-----------------------------------------------------------------------------
(* update_pricing_config.                                                  *)

Change(m, first, to, both) ==
    /\ manager[m].pc = "idle"
    /\ changes < MaxChanges /\ changes' = changes + 1
    /\ manager' = [manager EXCEPT ![m] = [pc |-> first, to |-> to, both |-> both]]
    /\ UNCHANGED <<conf, spot, quote, late>>

\* Each key is a statement of its own, in the order they were sent.
WriteKey(m) ==
    LET k == manager[m]
        other == IF k.pc = "source" THEN "price" ELSE "source"
    IN  /\ k.pc \in {"source", "price"}
        /\ conf' = IF k.pc = "source" THEN [conf EXCEPT !.manual = k.to.manual]
                   ELSE [conf EXCEPT !.price = k.to.price]
        /\ manager' = [manager EXCEPT ![m].pc = IF k.both THEN other ELSE "drop",
                                      ![m].both = FALSE]
        /\ late' = (late \/ Busy(Quote))
        /\ UNCHANGED <<spot, quote, changes>>

\* Faulty: only a new source drops the cached price.
DropSpotOfSource(m) ==
    /\ manager[m].pc = "drop"
    /\ spot' = IF manager[m].to.manual THEN [spot EXCEPT !.fresh = FALSE] ELSE spot
    /\ manager' = [manager EXCEPT ![m] = NoManager]
    /\ late' = (late /\ Busy(Quote))
    /\ UNCHANGED <<conf, quote, changes>>

DropSpot(m) ==
    /\ manager[m].pc = "drop"
    /\ spot' = [spot EXCEPT !.fresh = FALSE]
    /\ manager' = [manager EXCEPT ![m] = NoManager]
    /\ late' = (late /\ Busy(Quote))
    /\ UNCHANGED <<conf, quote, changes>>

\* A key that does not exist, or a failing statement, ends the update; what it
\* has written stays, and the cached price too.
ChangeFails(m) ==
    /\ manager[m].pc # "idle"
    /\ manager' = [manager EXCEPT ![m] = NoManager]
    /\ late' = TRUE
    /\ UNCHANGED <<conf, spot, quote, changes>>

PricingNext ==
    \/ \E q \in Quote :
         \/ GetSpotPrice(q) \/ ReadSource(q) \/ ReadManual(q) \/ Keep(q)
         \/ Fetch(q) \/ FetchFails(q)
    \/ \E m \in Manager :
         \/ WriteKey(m) \/ DropSpot(m) \/ ChangeFails(m)
         \/ \E first \in {"source", "price"}, to \in Conf, both \in BOOLEAN :
              Change(m, first, to, both)
    \/ SpotExpires

PricingSpec == PricingInit /\ [][PricingNext]_pricingVars

-----------------------------------------------------------------------------
(* Properties.                                                             *)

\* The price drivers are quoted obeys the operator: a fresh cached price is
\* the manual one in force, or one of the network while the source is not the
\* manual one; unless an update has still to drop it, failed before it did, or
\* changed the configuration under a request that was reading it, and then
\* only until the entry runs out.
SpotFresh ==
    spot.fresh =>
        \/ spot.from = "manual" /\ spot.price = conf.price
        \/ spot.from = "network" /\ SpotUrl /\ ~conf.manual
        \/ late
        \/ \E m \in Manager : manager[m].pc # "idle"
=============================================================================
