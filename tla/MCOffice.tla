------------------------------ MODULE MCOffice ------------------------------
(***************************************************************************)
(* Small instances of the components with requests that race: intake,      *)
(* accounts, invoices, personal files, elections and the geography.  They  *)
(* share no variable, so a behaviour moves one of them, chosen at the      *)
(* start; the others stay in their initial state.                          *)
(***************************************************************************)
EXTENDS Intake, Accounts, Invoicing, PersonalFiles, Elections, Geography, TLC

CONSTANTS a, b, c1, c2, s1, s2, Part

VARIABLE focus

\* Intake: one tab that saves, discards and submits; one that is reloaded; one tab
\* each of two consumers who share a promo code.
Scene(owner, asks, n, k, acts) ==
    [owner |-> owner, options |-> {[cnic |-> FALSE, promo |-> asks = "code",
                                    file |-> asks = "file"]},
     forms |-> n, keys |-> k, acts |-> acts]
Alone == {[w \in {a} |-> c1], [w \in {b} |-> c2]}
IntakeScenes == {Scene(o, "file", 2, 1, {"save", "fresh", "autosave"}) : o \in Alone}
           \cup {Scene(o, "plain", 2, 1, {"autosave", "reload"}) : o \in Alone}
           \cup {Scene([w \in {a, b} |-> IF w = a THEN c1 ELSE c2], "code", 4, 2, {"promo"})}

\* Accounts: edits against intake with archiving, wallet and hearings.
Edits(ops, n) == [ops |-> {"edit", "intake"} \cup ops, tickets |-> n]
EditScenes == {Edits({"archive"}, 1), Edits({"wallet"}, 1), Edits({"regenerate"}, 2),
               [ops |-> {"intake", "nextHearing", "archive"}, tickets |-> 2]}

\* Invoices: a ticket with a small and one with a large discount, and one in USD.
Kind(service, discount, currency) ==
    [service |-> service, discount |-> discount, taxRate |-> 1, consumer |-> "a",
     currency |-> currency]
Kinds == {Kind(2, 0, "PKR"), Kind(1, 3, "PKR"), Kind(1, 0, "USD")}
\* Two tickets that are sent back and archived; one whose price, drafts and status are
\* changed behind the review's back.
InvoiceScenes ==
    {[bills |-> Bill, ops |-> {"archive"}, invoices |-> 2]}
    \cup {[bills |-> {t}, ops |-> ops, invoices |-> 1] : t \in Bill,
            ops \in {{"edit"}, {"status", "override", "draft", "archive"}}}

\* Geography: two provinces with a city of the same name; a court of the file in each, one
\* under another label and one under another name; requests and jobs that meet.
Place(level, name, up) == [level |-> level, name |-> name, up |-> up]
DataSet == <<Place("province", "Sindh", 0), Place("district", "Kambar", 1),
             Place("city", "Mirpur", 2), Place("city", "Nawabshah", 2), Place("station", "City", 3),
             Place("province", "Azad Kashmir", 0), Place("district", "Mirpur", 6),
             Place("city", "Mirpur", 7)>>
Court(kind, court, province, city, principal) ==
    [kind |-> kind, court |-> court, province |-> province, city |-> city, principal |-> principal]
CourtFile == <<Court("file", "High Court", "AJK", "Mirpur", TRUE),
               Court("file", "Civil Court", "Sindh", "Benazir Abad", FALSE),
               Court("tehsil", "Civil Court", "Sindh", "Mirpur", FALSE),
               Court("special", "Drug Court", "AJK", "Mirpur", FALSE)>>
ProvinceLabels == [p \in {"AJK", "Sindh"} |-> IF p = "AJK" THEN "Azad Kashmir" ELSE p]
CityNames == [c \in {"Mirpur", "Benazir Abad"} |-> IF c = "Benazir Abad" THEN "Nawabshah" ELSE c]
Everything == {"trees", "creates", "deletes", "copies", "seeds", "resets", "faults", "crashes"}
Atlas(f) == [act \in Everything |-> IF act \in DOMAIN f THEN f[act] ELSE 0]
Atlases == {Atlas([seeds |-> 2, resets |-> 1, crashes |-> 1]),
            Atlas([seeds |-> 2, faults |-> 1, crashes |-> 1]),
            Atlas([seeds |-> 2, deletes |-> 1]),
            Atlas([seeds |-> 1, resets |-> 1, copies |-> 1]),
            Atlas([seeds |-> 1, creates |-> 1, trees |-> 1]),
            Atlas([creates |-> 2, deletes |-> 1, trees |-> 2])}

\* A component that does not move starts in one of its initial states only.
Still(part, one) == focus = part \/ one

OfficeInit ==
    /\ focus \in Part
    /\ IntakeInit /\ Still("intake", scene.keys = 2 /\ wizard[a].form = 1)
    /\ AccountInit /\ Still("accounts", account.phone = "PK" /\ account.country = "PK"
                                        /\ accountScene = Edits({"wallet"}, 1))
    /\ InvoicingInit /\ Still("invoices", billScene.bills = Bill /\ \A t \in Bill : bill[t].service = 2)
    /\ \A t \in Bill \ billScene.bills : bill[t].service = 2
    /\ FilesInit
    /\ ElectionInit /\ Still("elections", \A c, d \in Candidate :
                                candidate[c].position = CHOOSE p \in Position : TRUE)
    /\ GeoInit /\ Still("geography", geoScene.creates = 2)

OfficeNext ==
    \/ /\ focus = "intake" /\ IntakeNext
       /\ UNCHANGED <<focus, accountVars, invoiceVars, fileVars, electionVars, geoVars>>
    \/ /\ focus = "accounts" /\ AccountNext
       /\ UNCHANGED <<focus, intakeVars, invoiceVars, fileVars, electionVars, geoVars>>
    \/ /\ focus = "invoices" /\ InvoicingNext
       /\ UNCHANGED <<focus, intakeVars, accountVars, fileVars, electionVars, geoVars>>
    \/ /\ focus = "files" /\ FilesNext
       /\ UNCHANGED <<focus, intakeVars, accountVars, invoiceVars, electionVars, geoVars>>
    \/ /\ focus = "elections" /\ ElectionNext
       /\ UNCHANGED <<focus, intakeVars, accountVars, invoiceVars, fileVars, geoVars>>
    \/ /\ focus = "geography" /\ GeoNext
       /\ UNCHANGED <<focus, intakeVars, accountVars, invoiceVars, fileVars, electionVars>>

officeVars ==
    <<focus, intakeVars, accountVars, invoiceVars, fileVars, electionVars, geoVars>>
OfficeSpec == OfficeInit /\ [][OfficeNext]_officeVars

\* The two requests of every component are interchangeable, and so are the invoiced
\* tickets, and the two consumers together with their tabs.
Swap == a :> b @@ b :> a @@ c1 :> c2 @@ c2 :> c1
Symmetry == Permutations(Slot) \cup Permutations(Bill) \cup {Swap}
=============================================================================
