------------------------------- MODULE Pricing -------------------------------
(***************************************************************************)
(* The price list and its resolver (pricing.service.ts, with the price     *)
(* arithmetic of packages/shared).  Rules are rows whose dimensions may be *)
(* null; the resolver tries a strict match, then three fallbacks, and      *)
(* takes the first of the highest priority in the order the database       *)
(* returns the rows, which no ORDER BY fixes: every rule of the highest    *)
(* priority may be the one.                                                *)
(***************************************************************************)
EXTENDS Integers, FiniteSets

CONSTANTS
    PriceSeed,          \* the rules the seed scripts write
    PriceRequests,      \* what is asked to be priced
    NullDim,            \* a dimension that is null
    currentYear,
    RuleEditLimit       \* edits of the list by staff

VARIABLES
    priceRules,         \* the rows of the table
    pricingMode,        \* "legacy" or "custom"
    ruleEdits           \* edits so far

priceVars == <<priceRules, pricingMode, ruleEdits>>

YearBands == {"pending", "current", "y2025", "y2024_2023", "y2022_2020", "y2019_2017",
              "y2016_back"}
RuleField == {"flow", "currency", "court", "caseStatus", "region", "yearBand", "setType",
              "yearFrom", "yearTo", "isLegacy", "availability", "basePrice", "deliveryCharge",
              "priority", "isActive"}

\* The flat USD rows: one for each flow, court, region and band, no set type, and a flow
\* either has bands or has none (buildUsdPricingRows).
FlatList(rules) ==
    LET usd == {r \in rules : r.currency = "USD"} IN
    /\ \A r \in usd : r.setType = NullDim /\ r.court # NullDim /\ r.region # NullDim
    /\ \A r, s \in usd :
          r.flow = s.flow /\ r.court = s.court /\ r.region = s.region =>
          /\ (r.yearBand = NullDim) = (s.yearBand = NullDim)
          /\ r.yearBand = s.yearBand => r = s

ASSUME PriceAssumption ==
    /\ currentYear \in Nat /\ RuleEditLimit \in Nat /\ NullDim \notin YearBands
    /\ FlatList(PriceSeed)
    /\ \A r \in PriceSeed : /\ DOMAIN r = RuleField
                             /\ r.basePrice \in Nat /\ r.deliveryCharge \in Nat
                             /\ r.priority \in Nat
    /\ \A q \in PriceRequests : q.year \in Nat /\ q.cities \in Nat

-----------------------------------------------------------------------------
\* Arithmetic shared by the server and the page.

deriveYearBand(status, year) ==
    CASE status = "Pending Case" -> "pending"
      [] status # "Pending Case" /\ (year = 0 \/ year >= currentYear) -> "current"
      [] status # "Pending Case" /\ year \in 1..(currentYear - 1) ->
           (CASE year = 2025 -> "y2025"
              [] year \in 2023..2024 -> "y2024_2023"
              [] year \in 2020..2022 -> "y2022_2020"
              [] year \in 2017..2019 -> "y2019_2017"
              [] year <= 2016 -> "y2016_back"
              [] OTHER -> "current")

CASE_SEARCH_PER_YEAR_RATE == 2000
computeCaseSearchBase(year) ==
    (IF year # 0 /\ year < currentYear THEN currentYear - year ELSE 1) * CASE_SEARCH_PER_YEAR_RATE

computeDecidedAgeSurcharge(status, year) ==
    IF status = "Decided Case" /\ year # 0 /\ currentYear - year > 10
      THEN (currentYear - year - 10) * 1000 ELSE 0

CASE_INFO_BUNDLE_BASE(region, bundle) ==
    LET punjab == region = "Punjab" IN
    CASE bundle \in {"doc_only_petition", "doc_only_complete_order_sheet"} ->
           IF punjab THEN 500 ELSE 1200
      [] bundle = "doc_petition_plus_last_order" -> IF punjab THEN 700 ELSE 1500
      [] bundle = "doc_petition_plus_complete_order" -> IF punjab THEN 800 ELSE 1500
      [] bundle = "doc_only_last_order" -> IF punjab THEN 350 ELSE 750
      [] OTHER -> 0
caseInfoBundleBase(q) ==
    IF q.flow = "judicial_case_information" THEN CASE_INFO_BUNDLE_BASE(q.region, q.docBundle) ELSE 0

isSplit(flow) == flow \in {"judicial_case_files", "non_judicial_copy_of_fir",
                           "non_judicial_registry_deed", "non_judicial_criminal_record_search"}
\* The flows with a delivery leg are the same four.
isPhysicalDeliveryFlow(flow) == isSplit(flow)

-----------------------------------------------------------------------------
\* Which rules may price a request.

requestedYearBand(q) == deriveYearBand(q.status, q.year)
requestedSetType(q) == IF q.currency = "USD" THEN NullDim ELSE q.setType

Fits(dim, value) == dim = NullDim \/ dim = value
\* Active rules of the flow in the mode's bucket that fit all but band and set type.
flowRules(q) == {r \in priceRules : r.isActive /\ r.isLegacy = (pricingMode = "legacy")
                                    /\ r.flow = q.flow}
inPlace(q) == {r \in flowRules(q) : /\ r.currency = q.currency
                                    /\ Fits(r.court, q.court) /\ Fits(r.caseStatus, q.status)
                                    /\ Fits(r.region, q.region)}
\* Mutant: the band is not compared.
lookup_AnyBand(q, set, bands) == {r \in inPlace(q) : r.setType = set}
lookup(q, set, bands) == {r \in inPlace(q) : r.setType = set /\ r.yearBand \in bands \cup {NullDim}}

strict(q) == lookup(q, requestedSetType(q), {requestedYearBand(q)})
currentBand(q) == lookup(q, requestedSetType(q), {"current"})
noSetType(q) == IF requestedSetType(q) = NullDim THEN {}
                ELSE lookup(q, NullDim, {requestedYearBand(q), "current"})
yearRange(q) == LET y == IF q.year = 0 THEN currentYear ELSE q.year IN
    {r \in inPlace(q) : /\ r.yearFrom = 0 \/ y >= r.yearFrom
                        /\ r.yearTo = 0 \/ y <= r.yearTo
                        /\ Fits(r.setType, requestedSetType(q))}

candidates(q) ==
    LET tiers == <<strict(q), currentBand(q), noSetType(q), yearRange(q)>>
        tried == {i \in 1..4 : tiers[i] # {}}
    IN  IF tried = {} THEN {} ELSE tiers[CHOOSE i \in tried : \A j \in tried : i <= j]
best(rs) == {r \in rs : \A s \in rs : r.priority >= s.priority}

-----------------------------------------------------------------------------
\* The price by a rule that is available.

serviceCost(q, base, block, count) == IF isSplit(q.flow) THEN base ELSE block * count

priced(q, r) ==
    IF q.currency = "USD" THEN [service |-> r.basePrice, delivery |-> 0, total |-> r.basePrice]
    ELSE LET search == q.flow = "judicial_case_search"
             base == IF search THEN computeCaseSearchBase(q.year)
                     ELSE IF caseInfoBundleBase(q) > 0 THEN caseInfoBundleBase(q) ELSE r.basePrice
             fee == IF isPhysicalDeliveryFlow(q.flow) /\ q.courier THEN 100 ELSE 0
             static == IF isPhysicalDeliveryFlow(q.flow) THEN r.deliveryCharge ELSE 0
             extras == (IF q.stateVs THEN 1000 ELSE 0)
                         + (IF search THEN 0 ELSE computeDecidedAgeSurcharge(q.status, q.year))
                         + (IF q.wantPdf THEN 300 ELSE 0)
             both == IF search /\ q.searchBoth THEN 1000 ELSE 0
             count == IF search /\ q.cities > 1 THEN q.cities ELSE 1
             block == base + extras + both + fee
         IN  [service |-> serviceCost(q, base + extras, block, count),
              delivery |-> static + fee,
              total |-> block * count + static]

\* All answers resolve may give: no rule, "Can't Get", or a price.
resolve(q) ==
    IF candidates(q) = {} THEN {[matched |-> FALSE, available |-> FALSE]}
    ELSE {IF r.availability THEN [matched |-> TRUE, available |-> TRUE, price |-> priced(q, r)]
          ELSE [matched |-> TRUE, available |-> FALSE] : r \in best(candidates(q))}

\* The set types the page offers; it sends the band it derived from status and year.
availabilityFor(q, option) ==
    LET own == lookup(q, option, {requestedYearBand(q)})
        set == IF own # {} THEN own ELSE lookup(q, option, {"current"})
    IN  IF set = {} THEN {lookup(q, NullDim, {requestedYearBand(q), "current"}) # {}}
        ELSE {r.availability : r \in best(set)}

-----------------------------------------------------------------------------
\* Staff edit the list: a rule added by the API is in PKR, has no band, and is available.

NewRule(flow, court, set, price, priority, legacy) ==
    [flow |-> flow, currency |-> "PKR", court |-> court, caseStatus |-> NullDim,
     region |-> NullDim, yearBand |-> NullDim, setType |-> set, yearFrom |-> 0, yearTo |-> 0,
     isLegacy |-> legacy, availability |-> TRUE, basePrice |-> price, deliveryCharge |-> 0,
     priority |-> priority, isActive |-> TRUE]

RuleEdit == ruleEdits < RuleEditLimit /\ ruleEdits' = ruleEdits + 1

CreateRule ==
    \E q \in PriceRequests, set \in {NullDim, "attested"}, priority \in 0..1, legacy \in BOOLEAN :
        /\ RuleEdit
        /\ priceRules' = priceRules \cup {NewRule(q.flow, q.court, set, 50, priority, legacy)}
        /\ UNCHANGED pricingMode

\* The switch of the board turns a rule off or on; its dialog edits the price, and may move the
\* rule to another court, set type or priority.
Edited(r, q, set, priority) ==
    {[r EXCEPT !.isActive = ~@], [r EXCEPT !.basePrice = 60], [r EXCEPT !.priority = priority],
     [r EXCEPT !.court = q.court], [r EXCEPT !.setType = set]}
UpdateRule ==
    \E r \in priceRules, q \in PriceRequests, set \in {NullDim, "attested"}, priority \in 0..1 :
      \E s \in Edited(r, q, set, priority) :
        /\ RuleEdit
        /\ priceRules' = (priceRules \ {r}) \cup {s}
        /\ UNCHANGED pricingMode

RemoveRule == \E r \in priceRules : RuleEdit /\ priceRules' = priceRules \ {r} /\ UNCHANGED pricingMode

UpdateSettings == RuleEdit /\ pricingMode' \in {"legacy", "custom"} /\ UNCHANGED priceRules

\* Before and after the seed scripts.
PriceInit == priceRules \in {{}, PriceSeed} /\ pricingMode = "legacy" /\ ruleEdits = 0
PriceNext == CreateRule \/ UpdateRule \/ RemoveRule \/ UpdateSettings
PriceSpec == PriceInit /\ [][PriceNext]_priceVars

-----------------------------------------------------------------------------
\* The quoted total is the phase-1 cost and the delivery, nothing else: the sums that
\* assign and the finance desk recompute from the parts give the quote again, also for a
\* search in several cities ("serviceCost === total", pricing.service.ts:679-697).
PartsMakeTotal ==
    \A q \in PriceRequests : \A answer \in resolve(q) :
        answer.available => answer.price.total = answer.price.service + answer.price.delivery

\* A set type that the page offers has a price: whatever staff do to the list, the two
\* chains of fallbacks find a rule for the same requests.  pricing.service.ts:234-306.  The
\* dollar price takes no set type, so there it is true while the dollar rows have none.
OfferedIsPriced ==
    \A q \in PriceRequests :
      q.setType # NullDim /\ (q.currency = "USD" => FlatList(priceRules)) =>
        (TRUE \in availabilityFor(q, q.setType) => \A answer \in resolve(q) : answer.matched)

\* The flat USD price does not depend on the order of the rows: quote and charge agree
\* (pricing.service.ts:367-373, "wrong, non-deterministic price"), as long as the list has
\* the band that was asked for or the current one, and nobody moved a dollar row to where
\* another is.
UsdPriceDetermined ==
    FlatList(priceRules) =>
        \A q \in PriceRequests :
            q.currency = "USD" /\ strict(q) \cup currentBand(q) # {} => Cardinality(resolve(q)) = 1

\* An older case is never in a newer band, and never cheaper to search or to have decided;
\* a case without a year costs the least.  index.ts:801-815, 1498-1540.
BandRank(band) ==
    CASE band = "current" -> 6 [] band = "y2025" -> 5 [] band = "y2024_2023" -> 4
      [] band = "y2022_2020" -> 3 [] band = "y2019_2017" -> 2 [] band = "y2016_back" -> 1
OlderNeverCheaper ==
    LET rank(y) == BandRank(deriveYearBand("Decided Case", y))
        age(y) == computeDecidedAgeSurcharge("Decided Case", y)
    IN  \A y, z \in {q.year : q \in PriceRequests} :
          /\ 0 < y /\ y <= z => /\ rank(y) <= rank(z) /\ age(y) >= age(z)
                                /\ computeCaseSearchBase(y) >= computeCaseSearchBase(z)
          /\ computeCaseSearchBase(0) <= computeCaseSearchBase(y)

\* Quote, offer and charge agree, whatever staff do to the price list: what is offered is
\* priced, the parts make the total, a flat price is one price, and age never makes cheaper.
PricesAgree == PartsMakeTotal /\ OfferedIsPriced /\ UsdPriceDetermined /\ OlderNeverCheaper
=============================================================================
