----------------------------- MODULE MCRecords ------------------------------
(***************************************************************************)
(* Small instances of the components whose rules must agree with each      *)
(* other: cases, the price list, the required fields of a form, the lists  *)
(* and dashboards, the menus with the routes behind them, and the page on  *)
(* which a consumer pays.  They share no variable, so a behaviour moves    *)
(* one of them, chosen at the start; the others stay in their initial      *)
(* state.                                                                  *)
(***************************************************************************)
EXTENDS CaseRecords, Pricing, RequiredFields, Reporting, Portal, PayPage

CONSTANTS nul, Part

VARIABLE focus

Symmetry == Permutations(CaseReq) \cup Permutations(ViewRep)

\* Cases: changes of the row; tickets; drifts and their resolution.
Changes == {{"UpdateStatus", "UpdateCase", "DeleteCase", "TrackRecommendationClick"},
            {"CreateCaseTicket", "CompleteTicket", "TicketMoves"},
            {"UpdateCase", "CreateCaseTicket", "CompleteTicket", "ResolveDrift"}}
TwoFlows == {"case_search", "case_information"}

\* Prices: files in both currencies, searches and information; the seed has a rule that
\* is not available and, for USD, one rule per band.
Ask(flow, currency, status, year, set, region, cities) ==
    [flow |-> flow, currency |-> currency, court |-> "High Court", status |-> status,
     year |-> year, setType |-> set, region |-> region, docBundle |-> "doc_only_petition",
     courier |-> cities = 1, stateVs |-> cities = 2, wantPdf |-> TRUE,
     searchBoth |-> cities = 2, cities |-> cities]
Asked == {Ask("judicial_case_files", "PKR", s, y, "attested", reg, 1) :
            s \in {"Pending Case", "Decided Case"}, y \in {0, 2012, 2024},
            reg \in {"Punjab", "other"}}
    \cup {Ask("judicial_case_files", "USD", s, y, "attested", "other", 1) :
            s \in {"Pending Case", "Decided Case"}, y \in {2012, 2024}}
    \cup {Ask("judicial_case_search", "PKR", "Decided Case", y, nul, "other", n) :
            y \in {2026, 2025, 2016}, n \in 1..2}
    \cup {Ask("judicial_case_information", "PKR", "Pending Case", 2020, nul, "Punjab", 1)}
Row(flow, currency, reg, band, set, price, prio) ==
    [NewRule(flow, "High Court", set, price, prio, TRUE) EXCEPT
        !.currency = currency, !.region = reg, !.yearBand = band, !.deliveryCharge = 7]
Seed == {Row("judicial_case_files", "PKR", "Punjab", "pending", "attested", 10, 0),
         Row("judicial_case_files", "PKR", "Punjab", "current", "attested", 11, 0),
         [Row("judicial_case_files", "PKR", "other", "current", "attested", 12, 0)
            EXCEPT !.availability = FALSE],
         Row("judicial_case_files", "USD", "other", "current", nul, 13, 5),
         Row("judicial_case_files", "USD", "other", "pending", nul, 14, 5),
         Row("judicial_case_files", "USD", "other", "y2016_back", nul, 17, 5),
         Row("judicial_case_search", "PKR", nul, nul, nul, 15, 0)}

\* Two changes of mind where the fields depend on each other most, one elsewhere.
Changing == [f \in FlowsWithForms |->
    IF f \in {"judicial_case_information", "judicial_case_search", "non_judicial_copy_of_fir"}
      THEN 2 ELSE 1]

\* Reports: two tickets of one consumer, one of them in dollars.
CONSTANTS q1, q2, k
OneOwner == [t \in {q1, q2} |-> k]
TwoCurrencies == [t \in {q1, q2} |-> IF t = q1 THEN "PKR" ELSE "USD"]

\* Payments: split tickets taxed and discounted, a taxed one-time ticket, and dollars with
\* no rate, a rate of 280.50 and one at which a cent is little more than a paisa.
Priced(model, currency, service, total, rate) ==
    [model |-> model, currency |-> currency, service |-> service, total |-> total, rate |-> rate]
Orders == {Priced("SPLIT", "PKR", 2, 3, 0), Priced("SPLIT", "PKR", 2, 1, 0),
           Priced("ONE_TIME", "PKR", 4, 5, 0), Priced("ONE_TIME", "USD", 3, 3, 0),
           Priced("ONE_TIME", "USD", 3, 3, 28050), Priced("ONE_TIME", "USD", 3, 3, 133)}

\* A component that does not move starts in one of its initial states only.
Still(part, one) == focus = part \/ one

RecordsInit ==
    /\ focus \in Part
    /\ CaseInit /\ Still("cases", "UpdateStatus" \in caseOps)
    /\ PriceInit /\ Still("prices", priceRules = {})
    /\ PaperInit /\ Still("paper", paper.flow = "judicial_case_search" /\ paper.court = Lower)
    /\ ViewInit /\ Still("reports", \A t \in ViewTicket : row[t].rate = Unset /\ ~row[t].wantPdf)
    /\ PortalInit
    /\ PayInit /\ Still("payments", credit = 5 /\ order.rate = 133)

RecordsNext ==
    \/ /\ focus = "cases" /\ CaseNext
       /\ UNCHANGED <<focus, priceVars, paper, viewVars, portalVars, payVars>>
    \/ /\ focus = "prices" /\ PriceNext
       /\ UNCHANGED <<focus, caseVars, paper, viewVars, portalVars, payVars>>
    \/ /\ focus = "paper" /\ PaperNext
       /\ UNCHANGED <<focus, caseVars, priceVars, viewVars, portalVars, payVars>>
    \/ /\ focus = "reports" /\ ViewNext
       /\ UNCHANGED <<focus, caseVars, priceVars, paper, portalVars, payVars>>
    \/ /\ focus = "portal" /\ PortalNext
       /\ UNCHANGED <<focus, caseVars, priceVars, paper, viewVars, payVars>>
    \/ /\ focus = "payments" /\ PayNext
       /\ UNCHANGED <<focus, caseVars, priceVars, paper, viewVars, portalVars>>

recordsVars == <<focus, caseVars, priceVars, paper, viewVars, portalVars, payVars>>
RecordsSpec == RecordsInit /\ [][RecordsNext]_recordsVars
=============================================================================
