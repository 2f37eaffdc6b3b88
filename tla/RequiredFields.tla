--------------------------- MODULE RequiredFields ---------------------------
(***************************************************************************)
(* The required fields of an intake form: the page takes them from         *)
(* intake-flows.ts and the server from REQUIRED_FIELDS_BY_FLOW and the     *)
(* tables of the shared package.  One form is filled in, with changes of   *)
(* mind on the way, and submitted.                                         *)
(***************************************************************************)
EXTENDS Integers

CONSTANTS
    ChangeLimit,        \* answers of a form that are changed, by its flow
    FormFlow            \* the flows whose fields are filled in

CourtType == {"Lower Court", "Special Court", "High Court", "Federal Shariat Court",
              "Supreme Court", "Federal Constitutional Court"}

VARIABLE paper          \* the fields of one form

-----------------------------------------------------------------------------
\* On the page a field has the court types it is required for (where a
\* court type hides it, it is not) and the answer that shows it.

Lower == "Lower Court"
Special == "Special Court"
High == "High Court"
Appeals == CourtType \ {Lower, Special, High}
NoCourt == "none"

Field(key, courts) == [key |-> key, courts |-> courts, field |-> "none", values |-> {}]
Always(key) == Field(key, CourtType \cup {NoCourt})
When(f, field, values) == [f EXCEPT !.field = field, !.values = values]
AlwaysAll(keys) == {Always(k) : k \in keys}

OtherType == When(Always("case_type_other"), "case_type", {"Other"})
Delivery == {Always("delivery_mode"), When(Always("delivery_address"), "delivery_mode", {"TCS"}),
             When(Always("coordinates"), "delivery_mode", {"Uber"})}
SET_TYPE_WITH_QUANTITIES ==
    {Always("set_type"),
     When(Always("attested_qty"), "set_type", {"attested"}),
     When(Always("non_attested_qty"), "set_type", {"non_attested"}),
     When(Always("both_attested_qty"), "set_type", {"both"}),
     When(Always("both_non_attested_qty"), "set_type", {"both"})}
CaseDetails == AlwaysAll({"case_status", "required_documentations"})
    \cup {Field("case_type", {Special}), OtherType, Field("case_no", Appeals \cup {High}),
          Field("year", {Special}), Field("case_title", {Lower, Special, "Federal Shariat Court"}),
          Field("bench", Appeals), Field("judge_designation", CourtType \ {High}),
          Field("judge_name", {Lower}),
          When(Always("decided_date"), "case_status", {"Decided Case"})}
caseFilesSteps == CaseDetails \cup SET_TYPE_WITH_QUANTITIES \cup Delivery
                              \cup {Always("want_pdf_before_dispatch")}
InformationDelivery == {Always("delivery_mode")}
caseInformationSteps == CaseDetails \cup InformationDelivery
SearchDocuments == Delivery \cup {Always("required_documentations")}
caseSearchSteps == SearchDocuments \cup {OtherType}
caseFilingSteps == AlwaysAll({"case_status", "case_type", "case_title"})
    \cup {When(Always("party_type"), "case_status", {"Pending Case"}), OtherType,
          Field("year", CourtType \ {Lower})}
powerOfAttorneySteps == AlwaysAll({"case_status", "party_type", "case_title"})
    \cup {Field("case_type", {Special}), OtherType, Field("case_no", Appeals \cup {High}),
          Field("year", {Special})}
Subject == {"subject_cnic", "subject_full_name", "requestor_relationship", "purpose"}
copyOfFirSteps == AlwaysAll({"fir_mode", "delivery_mode"})
    \cup {When(Always(k), "fir_mode", {"have_fir_number"}) :
            k \in {"station_id", "fir_no", "year", "offence", "case_title"}}
    \cup {When(Always(k), "fir_mode", {"search_by_cnic"}) : k \in Subject}
registryDeedSteps == AlwaysAll({"city_type", "doc_no", "year", "case_title", "delivery_mode"})
criminalRecordSearchSteps == AlwaysAll(Subject \cup {"delivery_mode"})

Judicial == {"judicial_case_files", "judicial_case_information", "judicial_case_search",
             "judicial_case_filing", "judicial_power_of_attorney"}
FlowsWithForms == Judicial \cup {"non_judicial_copy_of_fir", "non_judicial_registry_deed",
                                 "non_judicial_criminal_record_search"}
ASSUME ChangeAssumption == FormFlow \subseteq FlowsWithForms /\ ChangeLimit \in [FormFlow -> Nat]

flowSteps(flow) ==
    CASE flow = "judicial_case_files" -> caseFilesSteps
      [] flow = "judicial_case_information" -> caseInformationSteps
      [] flow = "judicial_case_search" -> caseSearchSteps
      [] flow = "judicial_case_filing" -> caseFilingSteps
      [] flow = "judicial_power_of_attorney" -> powerOfAttorneySteps
      [] flow = "non_judicial_copy_of_fir" -> copyOfFirSteps
      [] flow = "non_judicial_registry_deed" -> registryDeedSteps
      [] flow = "non_judicial_criminal_record_search" -> criminalRecordSearchSteps

\* Fields other fields depend on, and what each flow offers for them.
FieldValues(flow, key) ==
    CASE key = "case_status" ->
           (CASE flow \in {"judicial_case_files", "judicial_case_search"} ->
                   {"Pending Case", "Decided Case", "Unknown Case"}
              [] flow = "judicial_case_information" -> {"Pending Case", "Unknown Case"}
              [] flow = "judicial_case_filing" -> {"New Case", "Pending Case"}
              [] OTHER -> {"Pending Case"})
      [] key = "set_type" -> {"attested", "non_attested", "both"}
      [] key = "delivery_mode" ->
           (CASE flow \in {"judicial_case_files", "judicial_case_search"} ->
                   {"TCS", "Uber", "Self Collection"}
              [] flow \in {"non_judicial_copy_of_fir", "non_judicial_registry_deed"} -> {"courier"}
              [] OTHER -> {"portal"})
      [] key = "required_documentations" -> {"petition"} \cup
           (IF flow \in {"judicial_case_files", "judicial_case_search"} THEN {"complete_file"} ELSE {})
      [] key = "fir_mode" -> {"have_fir_number", "search_by_cnic"}
      [] key = "case_type" -> {"given", "Other"}
      [] OTHER -> {"given"}
Modes(flow) == {f.field : f \in flowSteps(flow)} \ {"none"}

FormKeys == {"year", "sets"} \cup UNION {{f.key : f \in flowSteps(flow)} : flow \in FormFlow}

defaultValue(flow, key) ==
    CASE key = "case_status" /\ flow \in {"judicial_case_files", "judicial_case_information"} ->
           "Pending Case"
      [] key = "delivery_mode" /\ flow \in {"judicial_case_information",
                                             "non_judicial_criminal_record_search"} -> "portal"
      [] key = "party_type" /\ flow = "judicial_case_filing" -> "given"
      [] OTHER -> ""

NewPaper(flow, court) ==
    [flow |-> flow, court |-> court, payload |-> [k \in FormKeys |-> defaultValue(flow, k)],
     changes |-> 0, copied |-> FALSE, answer |-> "none"]

resolveRequired(f) == paper.court \in f.courts
showWhenSatisfied(f) == f.field = "none" \/ paper.payload[f.field] \in f.values
stepFieldErrors ==
    {f.key : f \in {g \in flowSteps(paper.flow) :
                      /\ resolveRequired(g) /\ showWhenSatisfied(g)
                      /\ paper.payload[g.key] = ""}}

\* One of the fields that are complained about is filled in.
FillField ==
    /\ paper.answer = "none" /\ stepFieldErrors # {}
    /\ LET key == CHOOSE k \in stepFieldErrors : TRUE IN
       \E v \in FieldValues(paper.flow, key) : paper' = [paper EXCEPT !.payload[key] = v]

\* A field that decides about others gets another answer; what they hold stays.
ChangeField ==
    \E key \in Modes(paper.flow) :
      \E v \in FieldValues(paper.flow, key) \ {paper.payload[key]} :
        /\ paper.answer = "none" /\ paper.changes < ChangeLimit[paper.flow]
        /\ paper' = [paper EXCEPT !.payload[key] = v, !.changes = @ + 1]

\* Another court, with what has been filled in so far.
ChangeCourt ==
    \E court \in CourtType \ {paper.court} :
        /\ paper.answer = "none" /\ paper.flow \in Judicial /\ paper.changes < ChangeLimit[paper.flow]
        /\ paper' = [paper EXCEPT !.court = court, !.changes = @ + 1]

withDerivedYear(p) ==
    IF /\ "decided_date" \in FormKeys /\ "case_status" \in FormKeys
       /\ p["case_status"] = "Decided Case" /\ p["year"] = "" /\ p["decided_date"] # ""
      THEN [p EXCEPT !["year"] = "given"] ELSE p
withSets(p) ==
    IF "set_type" \notin FormKeys THEN p
    ELSE [p EXCEPT !["sets"] = CASE p["set_type"] = "attested" -> p["attested_qty"]
                                 [] p["set_type"] = "non_attested" -> p["non_attested_qty"]
                                 [] p["set_type"] = "both" -> p["both_attested_qty"]
                                 [] OTHER -> ""]

\* The server.  What step 1 of the page has checked (select_service, select_court, cities,
\* province, district) and what an effect writes (office_name) is left out of the lists;
\* case_petition_no and case_year are listed by the aliases the page sends.
submitFlow == IF paper.flow = "non_judicial_copy_of_fir"
                 /\ paper.payload["fir_mode"] = "search_by_cnic"
                THEN "non_judicial_criminal_record_search" ELSE paper.flow
CaseIdentity == {"case_no", "year", "case_type", "case_title"}
REQUIRED_FIELDS_BY_FLOW(flow) ==
    CASE flow = "judicial_case_files" ->
           CaseIdentity \cup {"case_status", "judge_name", "sets", "set_type", "delivery_mode"}
      [] flow = "judicial_case_information" ->
           CaseIdentity \cup {"case_status", "judge_name", "required_documentations"}
      [] flow = "judicial_case_search" -> CaseIdentity \cup {"case_status", "delivery_mode"}
      [] flow = "judicial_case_filing" -> (CaseIdentity \ {"case_no"}) \cup {"case_status"}
      [] flow = "judicial_power_of_attorney" -> CaseIdentity
      [] flow = "non_judicial_copy_of_fir" ->
           {"fir_no", "year", "offence", "case_title", "delivery_mode"}
      [] flow = "non_judicial_registry_deed" ->
           {"city_type", "doc_no", "year", "case_title", "delivery_mode"}
      [] flow = "non_judicial_criminal_record_search" ->
           {"subject_cnic", "subject_full_name", "purpose", "delivery_mode"}

\* Mutant: the title stays required at the High Court.
REQUIRED_FIELDS_OPTIONAL_BY_TIER_NoTitle(flow, court) ==
    IF flow \in {"judicial_case_files", "judicial_case_information"} /\ court = High
      THEN {"year", "case_type", "judge_name"} ELSE {}
REQUIRED_FIELDS_OPTIONAL_BY_TIER(flow, court) ==
    CASE flow \in {"judicial_case_files", "judicial_case_information"} ->
           (CASE court = Lower -> {"case_no", "year", "case_type"}
              [] court = Special -> {"case_no", "judge_name"}
              [] court = "Federal Shariat Court" -> {"year", "case_type", "judge_name"}
              [] OTHER -> {"year", "case_type", "case_title", "judge_name"})
      [] flow = "judicial_power_of_attorney" ->
           (CASE court = Lower -> {"case_no", "year", "case_type"}
              [] court = Special -> {"case_no"}
              [] OTHER -> {"year", "case_type"})
      [] flow = "judicial_case_filing" -> IF court = Lower THEN {"case_no", "year"} ELSE {}
      [] flow = "judicial_case_search" -> CaseIdentity \cup {"case_status"}
      [] OTHER -> {}

validateFlowPayload(flow, court, payload) ==
    {k \in REQUIRED_FIELDS_BY_FLOW(flow) \ REQUIRED_FIELDS_OPTIONAL_BY_TIER(flow, court) :
        k \notin FormKeys \/ payload[k] = ""}

SubmitForm ==
    /\ paper.answer = "none" /\ stepFieldErrors = {}
    /\ LET sent == withSets(withDerivedYear(paper.payload))
           missing == validateFlowPayload(submitFlow, paper.court, sent)
       IN  paper' = IF missing = {} THEN [paper EXCEPT !.answer = "created", !.payload = sent]
                    ELSE [paper EXCEPT !.answer = "refused"]

-----------------------------------------------------------------------------
\* Regenerate: a new form of any flow, filled from the payload of the ticket.

optionalKeys(flow) ==
    CASE flow = "judicial_case_search" ->
           CaseIdentity \cup {"case_status", "decided_date", "subject_cnic", "subject_full_name",
                              "judge_name", "judge_designation"}
      [] flow = "judicial_case_filing" -> {"case_no", "judge_name", "judge_designation"}
      [] flow = "judicial_power_of_attorney" -> {"judge_name", "judge_designation"}
      [] flow = "non_judicial_criminal_record_search" -> {"station_id"}
      [] OTHER -> {}
declaredFieldsByKey(flow) == {f.key : f \in flowSteps(flow)} \cup optionalKeys(flow)
CROSS_FLOW_STRUCTURAL_KEYS == {"station_id", "city_type"}

ALL_SET_TYPE_QUANTITY_KEYS ==
    {"attested_qty", "non_attested_qty", "both_attested_qty", "both_non_attested_qty"}
SET_TYPE_QUANTITY_KEYS_BY_VALUE(value) ==
    CASE value = "attested" -> {"attested_qty"} [] value = "non_attested" -> {"non_attested_qty"}
      [] value = "both" -> {"both_attested_qty", "both_non_attested_qty"} [] OTHER -> {}

\* The keys the flow knows, with a value it offers; then the quantities of the set type.
buildRegeneratePayload(payload, flow) ==
    LET out == [k \in FormKeys |->
                  IF /\ k \in declaredFieldsByKey(flow) \cup CROSS_FLOW_STRUCTURAL_KEYS
                     /\ payload[k] \in FieldValues(flow, k)
                    THEN payload[k] ELSE ""]
        keep == IF "set_type" \in FormKeys THEN SET_TYPE_QUANTITY_KEYS_BY_VALUE(out["set_type"])
                ELSE {}
    IN  [k \in FormKeys |-> IF k \in ALL_SET_TYPE_QUANTITY_KEYS \ keep THEN "" ELSE out[k]]

\* A judge without a bench becomes a bench of one.
normalizeDraftPayload(payload) ==
    IF {"judge_name", "bench"} \subseteq FormKeys /\ payload["judge_name"] # ""
      THEN [payload EXCEPT !["bench"] = "given"] ELSE payload

\* The route names the flow; the court type is not copied, so a court is chosen again.
\* (Bound: the copy is filled in without further changes of mind.)
Regenerate ==
    \E flow \in FormFlow, court \in CourtType \cup {NoCourt} :
        /\ paper.answer = "created" /\ ~paper.copied /\ paper.changes < ChangeLimit[paper.flow]
        /\ (court = NoCourt) <=> (flow \notin Judicial)
        /\ paper' = [paper EXCEPT
             !.flow = flow, !.court = court, !.copied = TRUE, !.answer = "none", !.changes = ChangeLimit[flow],
             !.payload = normalizeDraftPayload(buildRegeneratePayload(@, flow))]

\* The first save of the regenerated form gives it a draft id, and the effect that depends
\* on it fills the blanks that have a default.
DefaultsApplied ==
    /\ paper.copied /\ paper.answer = "none"
    /\ paper' = [paper EXCEPT !.payload =
                   [k \in FormKeys |-> IF @[k] = "" THEN defaultValue(paper.flow, k) ELSE @[k]]]

PaperNext == FillField \/ ChangeField \/ ChangeCourt \/ SubmitForm \/ Regenerate \/ DefaultsApplied

-----------------------------------------------------------------------------
PaperInit ==
    \E flow \in FormFlow, court \in CourtType \cup {NoCourt} :
        /\ (court = NoCourt) <=> (flow \notin Judicial)
        /\ paper = NewPaper(flow, court)

PaperSpec == PaperInit /\ [][PaperNext]_paper

-----------------------------------------------------------------------------
\* A form never holds a choice that its flow does not offer, a form regenerated from the
\* ticket of another flow included (regenerate-ticket.ts:95: "a stale 'Decided Case' would
\* reach deriveYearBand and corrupt the resolved price").
ChoicesAreOffered ==
    \A k \in FormKeys : paper.payload[k] \in FieldValues(paper.flow, k) \cup {""}

\* The server never misses a field in a form that the page lets through (shared
\* index.ts:277: "validation passes on the page but fails at submit"): intake-flows.ts
\* and the two tables of the server agree for every flow, court type and order of filling,
\* regenerated forms included, and the choices of a form are those of its flow.
PageMatchesServer == paper.answer # "refused" /\ ChoicesAreOffered
=============================================================================
