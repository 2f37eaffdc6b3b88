---------------------------- MODULE IntakePicker ----------------------------
(***************************************************************************)
(* The answers the intake wizard waits for (intake-wizard.tsx): the lists  *)
(* behind the picker of city, service and court, and the debounced         *)
(* previews of price and availability.  The two share nothing.  An effect  *)
(* of React runs with the update that triggers it.                         *)
(***************************************************************************)
EXTENDS Integers, FiniteSets

CONSTANTS
    FormCity,
    FormCourt,
    CourtsOf,           \* the courts of a type in a city
    NoneYet,            \* nothing chosen
    PickLimit,          \* requests for courts in a behaviour
    EditLimit           \* edits of the fields that are priced

CourtType == {"Lower Court", "Special Court", "High Court", "Federal Shariat Court",
              "Supreme Court", "Federal Constitutional Court"}

ASSUME PickerAssumption ==
    /\ NoneYet \notin FormCity \cup FormCourt \cup CourtType \cup Nat
    /\ CourtsOf \in [FormCity -> [CourtType -> SUBSET FormCourt]]
    /\ PickLimit \in Nat /\ EditLimit \in Nat

VARIABLES
    picker,             \* city, service (by its court level), court and the courts listed
    courtReq,           \* requests for the courts of a city: [seq, city, resume]
    preview,            \* what is shown, and for which edit
    previewReq          \* requests of the previews in flight

pickerVars == <<picker, courtReq>>
previewVars == <<preview, previewReq>>
formVars == <<pickerVars, previewVars>>

-----------------------------------------------------------------------------
\* City, service and court.  groups is the city whose courts are listed; mixed is
\* history: a draft arrived over the list of another city or over a chosen service.

Picker == [city : FormCity \cup {NoneYet}, service : CourtType \cup {NoneYet},
           court : FormCourt \cup {NoneYet}, courtType : CourtType \cup {NoneYet},
           groups : FormCity \cup {NoneYet}, loading : BOOLEAN, loaded : BOOLEAN,
           services : BOOLEAN, seq : 0..PickLimit, hydrated : BOOLEAN, mixed : BOOLEAN]

EmptyPicker == [city |-> NoneYet, service |-> NoneYet, court |-> NoneYet, courtType |-> NoneYet,
                groups |-> NoneYet, loading |-> FALSE, loaded |-> FALSE, services |-> FALSE,
                seq |-> 0, hydrated |-> FALSE, mixed |-> FALSE]

listedCourts(p) ==
    IF p.groups = NoneYet \/ p.service = NoneYet THEN {} ELSE CourtsOf[p.groups][p.service]

\* The effect that selects the only court of the group and drops a court when the
\* loaded group has none.
autoSelect(p) ==
    LET list == listedCourts(p) IN
    IF p.service = NoneYet THEN p
    ELSE IF Cardinality(list) = 1
      THEN [p EXCEPT !.court = CHOOSE c \in list : TRUE, !.courtType = p.service]
    ELSE IF list = {} /\ ~p.loading /\ p.groups # NoneYet /\ p.court # NoneYet
      THEN [p EXCEPT !.court = NoneYet, !.courtType = NoneYet]
    ELSE p

\* The effect that finds the service of a prefilled court type.
reconcile(p) ==
    IF p.services /\ p.service = NoneYet /\ p.courtType # NoneYet
      THEN [p EXCEPT !.service = p.courtType] ELSE p

Render(p) == picker' = autoSelect(reconcile(p))

Unpicked(city) == [picker EXCEPT !.city = city, !.service = NoneYet, !.court = NoneYet,
                                 !.courtType = NoneYet, !.loading = TRUE, !.loaded = FALSE,
                                 !.seq = picker.seq + 1]
AskCourts(city, resume) ==
    courtReq' = courtReq \cup {[seq |-> picker.seq + 1, city |-> city, resume |-> resume]}

handleCityChange(city) ==
    /\ picker.seq < PickLimit
    /\ Render([Unpicked(city) EXCEPT !.groups = NoneYet])
    /\ AskCourts(city, FALSE)
    /\ UNCHANGED previewVars

\* The multi-city block of Case Search: another primary city, the old list stays until
\* the new one arrives.
CityBlockChange(city) ==
    /\ picker.seq < PickLimit /\ city # picker.city
    /\ Render(Unpicked(city))
    /\ AskCourts(city, FALSE)
    /\ UNCHANGED previewVars

\* Mutant: the answers of older requests count too.
isLatest_Any(q) == TRUE
isLatest(q) == q.seq = picker.seq

\* The answer, or its failure, counts only for the latest request; a failure empties
\* the list except in the resume path, which leaves it.
CourtsAnswered(q) ==
    \E ok \in BOOLEAN :
        LET groups == IF ok THEN q.city ELSE IF q.resume THEN picker.groups ELSE NoneYet
        IN  /\ courtReq' = courtReq \ {q}
            /\ IF isLatest(q)
                 THEN Render([picker EXCEPT !.groups = groups, !.loading = FALSE, !.loaded = TRUE])
                 ELSE UNCHANGED picker
            /\ UNCHANGED previewVars

ServicesLoaded ==
    /\ ~picker.services
    /\ Render([picker EXCEPT !.services = TRUE])
    /\ UNCHANGED <<courtReq, previewVars>>

\* applySelectedService, from the grid of the services that the city has courts for.
applySelectedService ==
    \E type \in CourtType :
        /\ picker.services /\ picker.city # NoneYet /\ picker.service = NoneYet
        /\ ~picker.loading /\ picker.loaded
        /\ picker.groups # NoneYet /\ CourtsOf[picker.groups][type] # {}
        /\ Render([picker EXCEPT !.service = type, !.courtType = type, !.court = NoneYet])
        /\ UNCHANGED <<courtReq, previewVars>>

\* The Change button: the same handler with no service.
ChangeService ==
    /\ picker.service # NoneYet /\ ~picker.loading /\ picker.loaded
    /\ Render([picker EXCEPT !.service = NoneYet, !.courtType = NoneYet, !.court = NoneYet])
    /\ UNCHANGED <<courtReq, previewVars>>

PickCourt ==
    \E c \in listedCourts(picker) :
        /\ Cardinality(listedCourts(picker)) > 1
        /\ picker' = [picker EXCEPT !.court = c, !.courtType = picker.service]
        /\ UNCHANGED <<courtReq, previewVars>>

\* A saved draft (with its service), a ticket to edit (without) or one to regenerate
\* (without its court type too) arrives, perhaps after the user has begun: the payload is
\* replaced, the list is not, nor is a service already chosen that nothing replaces.
Hydrate ==
    \E city \in FormCity, type \in CourtType, from \in {"draft", "edit", "regenerate"} :
      \E court \in CourtsOf[city][type] :
        /\ picker.seq < PickLimit /\ ~picker.hydrated
        /\ LET service == IF from = "draft" THEN type ELSE picker.service IN
           Render([Unpicked(city) EXCEPT
                     !.service = service, !.court = court, !.hydrated = TRUE,
                     !.courtType = IF from = "regenerate" THEN NoneYet ELSE type,
                     !.mixed = picker.groups \notin {NoneYet, city}
                                 \/ (from # "draft" /\ service # NoneYet)])
        /\ AskCourts(city, from = "draft")
        /\ UNCHANGED previewVars

PickerNext ==
    \/ \E city \in FormCity : handleCityChange(city) \/ CityBlockChange(city)
    \/ \E q \in courtReq : CourtsAnswered(q)
    \/ ServicesLoaded \/ applySelectedService \/ ChangeService \/ PickCourt \/ Hydrate

\* A request is answered or fails.
PickerFairness == WF_pickerVars(\E q \in courtReq : CourtsAnswered(q))

-----------------------------------------------------------------------------
\* The previews.  An edit of a priced field cancels the timer or the request of the
\* last one and arms a timer of 400 ms.

SetTypes == {"attested", "non_attested"}
\* Which set types may be bought depends on what the edit left in the form.
Offered(n) == IF n % 2 = 0 THEN SetTypes ELSE {"attested"}
EmptyPreview == [edit |-> 0, timer |-> FALSE, shown |-> NoneYet, offered |-> SetTypes,
                 offeredFor |-> NoneYet, setType |-> NoneYet]

\* The effect that unchecks a set type which is no longer offered.
autoUncheck(v) == IF v.setType \in v.offered \cup {NoneYet} THEN v
                  ELSE [v EXCEPT !.setType = NoneYet]

EditPriced ==
    /\ preview.edit < EditLimit
    /\ preview' = [preview EXCEPT !.edit = preview.edit + 1, !.timer = TRUE]
    /\ UNCHANGED <<pickerVars, previewReq>>

ChooseSetType ==
    \E s \in SetTypes :
        /\ preview' = autoUncheck([preview EXCEPT !.setType = s])
        /\ UNCHANGED <<pickerVars, previewReq>>

PreviewTimer ==
    /\ preview.timer
    /\ preview' = [preview EXCEPT !.timer = FALSE]
    /\ previewReq' = previewReq \cup {<<kind, preview.edit>> : kind \in {"price", "offers"}}
    /\ UNCHANGED pickerVars

cancelled(q) == q[2] # preview.edit

PreviewAnswered(q) ==
    /\ previewReq' = previewReq \ {q}
    /\ IF cancelled(q) THEN UNCHANGED preview
       ELSE \E ok \in BOOLEAN :
              preview' = autoUncheck(
                IF q[1] = "price" THEN [preview EXCEPT !.shown = IF ok THEN q[2] ELSE NoneYet]
                ELSE [preview EXCEPT !.offered = IF ok THEN Offered(q[2]) ELSE SetTypes,
                                     !.offeredFor = IF ok THEN q[2] ELSE NoneYet])
    /\ UNCHANGED pickerVars

PreviewNext ==
    \/ EditPriced \/ ChooseSetType \/ PreviewTimer
    \/ \E q \in previewReq : PreviewAnswered(q)

-----------------------------------------------------------------------------
FormInit ==
    /\ picker = EmptyPicker /\ courtReq = {}
    /\ preview = EmptyPreview /\ previewReq = {}

FormNext == PickerNext \/ PreviewNext
FormSpec == FormInit /\ [][FormNext]_formVars /\ PickerFairness

-----------------------------------------------------------------------------
\* When step 1 passes, the court is one of that type in the chosen city: answers to
\* earlier requests, the automatic selection and a resumed draft never leave the court of
\* another city behind (excepted a draft or ticket that arrives when another city's courts
\* are listed, or when a service is chosen that it does not replace).  intake-wizard.tsx:1456-1500, 809-836.
CourtOfCity ==
    LET p == picker IN
    (p.city # NoneYet /\ p.service # NoneYet /\ p.court # NoneYet /\ ~p.loading /\ ~p.mixed)
      => p.courtType = p.service /\ p.court \in CourtsOf[p.city][p.service]

\* The courts of the city are not loading for ever: the request that cleared the list is
\* answered, or a later one is.  intake-wizard.tsx:1478-1499.
CourtsLoad == picker.loading ~> ~picker.loading

\* A price on the page is the price of what the form says, unless a new one is under way:
\* the answers of requests that an edit has cancelled are dropped.
\* intake-wizard.tsx:858-914.
PreviewIsCurrent ==
    (~preview.timer /\ <<"price", preview.edit>> \notin previewReq)
      => preview.shown \in {preview.edit, NoneYet}

\* A set type that is chosen is one that may be bought for what the form says, once that
\* is known.  intake-wizard.tsx:971-988.
SetTypeOffered ==
    preview.offeredFor = preview.edit => preview.setType \in Offered(preview.edit) \cup {NoneYet}

\* The form is about what it shows: court, price and set type belong to the current choices
\* in whatever order the answers come (intake-wizard.tsx:809-988, 1456-1500).
FormIsCurrent == picker \in Picker /\ CourtOfCity /\ PreviewIsCurrent /\ SetTypeOffered
=============================================================================
