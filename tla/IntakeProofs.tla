---------------------------- MODULE IntakeProofs ----------------------------
(***************************************************************************)
(* Theorems about Intake, for any tabs, consumers, scenes and limits: a    *)
(* form is submitted once (SubmittedOnce) and promo codes are counted      *)
(* (PromosAreCounted).                                                     *)
(***************************************************************************)
EXTENDS Intake, FiniteSetTheorems, WellFoundedInduction, TLAPS

-----------------------------------------------------------------------------
\* The inductive invariant.

\* Handlers that will reset their form when they end, and the requests of a tab
\* during which its buttons are disabled.
Resets(q) == q # Idle /\ q.waits /\ q.op \in {"submit", "manual", "discard", "upload"}
Loads(q) == q # Idle /\ q.waits /\ q.op \in {"submit", "manual", "upload"}
Handlers == {r \in Slot : Resets(request[r])}

Form == 1..FormLimit
Key == 0..KeyLimit

\* Every row keeps its shape, and the tables are what their columns say.
Shape ==
    /\ scene \in Scenes
    /\ wizard \in [Open -> WizardRow]
    /\ request \in [Slot -> {Idle} \cup RequestRow]
    /\ forms \in 0..FormLimit /\ keys \in 0..KeyLimit
    /\ drafts \in [Consumer -> DraftRow]
    /\ tickets \in Seq(TicketRow)
    /\ redeemed \subseteq DOMAIN tickets
    /\ promo \in {"absent", "early", "open", "ended"}

\* Every handler under way finds a number for the form it resets to.
FormsSuffice == forms + Cardinality(Handlers) <= scene.forms

\* Two tabs never show the same form, and a request was sent from the tab whose form it
\* names; the next number is unused.
FormsApart ==
    /\ \A w \in Open : wizard[w].instance <= forms
    /\ \A w, v \in Open : wizard[w].instance = wizard[v].instance => w = v
    /\ \A r \in Slot : request[r] # Idle =>
         /\ request[r].tab \in Open /\ request[r].instance <= forms
         /\ \A w \in Open : wizard[w].instance = request[r].instance => request[r].tab = w
    /\ \A r, q \in Slot :
         request[r] # Idle /\ request[q] # Idle /\ request[r].instance = request[q].instance
           => request[r].tab = request[q].tab
    /\ \A i \in DOMAIN tickets : tickets[i].instance <= forms

\* The keys minted, each with the form it was minted for.
MintedBy(form, key) ==
    \/ \E w \in Open : wizard[w].key # 0 /\ form = wizard[w].instance /\ key = wizard[w].key
    \/ \E r \in Slot : /\ request[r] # Idle /\ request[r].op \in {"submit", "upload"}
                       /\ form = request[r].instance /\ key = request[r].key
    \/ \E i \in DOMAIN tickets : form = tickets[i].instance /\ key = tickets[i].key

\* A form has one key and a key one form; a form without a key has not been submitted;
\* no two tickets have the same key.
KeysMatch ==
    /\ \A f, g \in Form, k, l \in Key : MintedBy(f, k) /\ MintedBy(g, l) => (f = g <=> k = l)
    /\ \A f \in Form, k \in Key : MintedBy(f, k) => k \in 1..keys
    /\ \A w \in Open, f \in Form, k \in Key :
         wizard[w].key = 0 /\ f = wizard[w].instance => ~MintedBy(f, k)
    /\ \A i, j \in DOMAIN tickets : tickets[i].key = tickets[j].key => i = j

\* While a handler of the tab waits its buttons are disabled, so there is one at most.
OneHandler ==
    /\ \A r \in Slot : Loads(request[r]) => wizard[request[r].tab].loading
    /\ \A r, q \in Slot : Loads(request[r]) /\ Loads(request[q])
                          /\ request[r].tab = request[q].tab => r = q

\* The ticket that a request will answer with.
Answered(q) == q.op = "submit" /\ (q.pc = "created" \/ (q.pc = "answer" /\ q.res = "ok"))
Knows(q) == q # Idle /\ (q.op = "upload" \/ Answered(q))
TicketsKnown ==
    \A r \in Slot : Knows(request[r]) =>
        /\ request[r].ticket \in DOMAIN tickets
        /\ tickets[request[r].ticket].key = request[r].key

\* The attachment of a ticket has been uploaded, or its upload is under way.
Uploads(q) == q # Idle /\ q.op = "upload"
Spent(i) == tickets[i].documents # 0 \/ \E r \in Slot : Uploads(request[r]) /\ request[r].ticket = i

UploadsOnce ==
    /\ \A i \in DOMAIN tickets : tickets[i].documents <= 1
    /\ \A r \in Slot : Uploads(request[r]) /\ request[r].pc = "sent" =>
         tickets[request[r].ticket].documents = 0
    /\ \A r \in Slot : Uploads(request[r]) => request[r].pc \in {"sent", "answer"}
    /\ \A r, q \in Slot : Uploads(request[r]) /\ Uploads(request[q])
                          /\ request[r].ticket = request[q].ticket => r = q
    /\ \A i \in DOMAIN tickets : Spent(i) =>
         /\ \A r \in Slot : request[r] # Idle /\ request[r].waits /\ request[r].op = "submit"
                            => request[r].instance # tickets[i].instance
         /\ \A w \in Open : wizard[w].instance = tickets[i].instance =>
              \E r \in Slot : Uploads(request[r]) /\ request[r].waits /\ request[r].tab = w

\* What the requests, the wizards and the tickets say of each other.
Core == FormsSuffice /\ FormsApart /\ KeysMatch /\ OneHandler /\ TicketsKnown /\ UploadsOnce

NInv == Shape /\ Core /\ PromoWithinLimits /\ DiscountIsCounted

-----------------------------------------------------------------------------
\* Types.

\* What the assumption says of the limits and of the scene played.
LEMMA Limits ==
    /\ FormLimit \in Nat /\ KeyLimit \in Nat /\ totalUsageLimit \in Nat /\ perUserLimit \in Nat
    /\ IsFiniteSet(Slot) /\ Cardinality(Slot) \in Nat
    /\ IsFiniteSet(Consumer) /\ Cardinality(Consumer) \in Nat
  BY IntakeAssumption, FS_CardinalityType

LEMMA SceneTypes ==
    ASSUME scene \in Scenes
    PROVE  /\ Open \subseteq Tab /\ IsFiniteSet(Open) /\ Cardinality(Open) \in Nat
           /\ \A w \in Open : scene.owner[w] \in Consumer
           /\ scene.options \subseteq Options
           /\ scene.forms \in 1..FormLimit /\ scene.keys \in 1..KeyLimit
           /\ Cardinality(Open) <= scene.forms
  <1>1. /\ Open \subseteq Tab /\ IsFiniteSet(Tab)
        /\ \A w \in Open : scene.owner[w] \in Consumer
        /\ scene.options \subseteq Options
        /\ scene.forms \in 1..FormLimit /\ scene.keys \in 1..KeyLimit
        /\ Cardinality(Open) <= scene.forms
    BY IntakeAssumption DEF Open
  <1> QED BY <1>1, FS_Subset, FS_CardinalityType

\* An idle slot is no request, and a request has the columns of one.
LEMMA RequestTypes ==
    /\ Idle \notin RequestRow /\ Idle.op = "none" /\ ~Resets(Idle) /\ ~Loads(Idle)
    /\ \A q \in RequestRow :
         /\ q # Idle /\ q.tab \in Tab /\ q.instance \in Form /\ q.form \in Form /\ q.key \in Key
         /\ q.ticket \in Key /\ q.waits \in BOOLEAN /\ q.asks \in Options /\ q.unpriced \in BOOLEAN
         /\ q.row \in DraftRow /\ q.op \in Operation
         /\ Knows(q) <=> (q.op = "upload" \/ Answered(q))
         /\ Uploads(q) <=> q.op = "upload"
         /\ Loads(q) => Resets(q)
  <1>1. Idle \notin RequestRow
    <2> SUFFICES ASSUME Idle \in RequestRow PROVE FALSE
      OBVIOUS
    <2>1. Idle.op \in Operation
      BY DEF RequestRow
    <2> QED BY <2>1 DEF Idle, Operation
  <1>2. Idle.op = "none" /\ ~Resets(Idle) /\ ~Loads(Idle)
    BY DEF Idle, Resets, Loads
  <1>3. ASSUME NEW q \in RequestRow
        PROVE  /\ q # Idle /\ q.tab \in Tab /\ q.instance \in Form /\ q.form \in Form
               /\ q.key \in Key /\ q.ticket \in Key /\ q.waits \in BOOLEAN /\ q.asks \in Options
               /\ q.unpriced \in BOOLEAN /\ q.row \in DraftRow /\ q.op \in Operation
    BY <1>1 DEF RequestRow, Form, Key
  <1>4. ASSUME NEW q \in RequestRow
        PROVE  /\ Knows(q) <=> (q.op = "upload" \/ Answered(q))
               /\ Uploads(q) <=> q.op = "upload"
               /\ Loads(q) => Resets(q)
    BY <1>3 DEF Knows, Uploads, Loads, Resets
  <1> QED BY <1>1, <1>2, <1>3, <1>4, Zenon

LEMMA TicketTypes ==
    \A t \in TicketRow : /\ t.instance \in Form /\ t.key \in Key /\ t.documents \in 0..2
                         /\ t.consumer \in Consumer /\ t.promoDiscount \in BOOLEAN
  <1>1. 1..KeyLimit \subseteq Key
    BY Limits DEF Key
  <1> QED BY <1>1 DEF TicketRow, Form

\* A new form of the wizard, and the form after a reset.
LEMMA WizardTypes ==
    ASSUME NEW n \in Form, NEW loading \in BOOLEAN
    PROVE  /\ BlankForm(n) \in WizardRow /\ BlankForm(n).instance = n /\ BlankForm(n).key = 0
           /\ BlankForm(n).loading = FALSE
           /\ resetForm(n, loading) \in WizardRow /\ resetForm(n, loading).instance = n
           /\ resetForm(n, loading).key = 0 /\ resetForm(n, loading).loading = loading
  <1>1. Blank \in Options
    BY DEF Blank, Options
  <1>2. BlankForm(n) \in WizardRow
    BY <1>1, Limits DEF BlankForm, WizardRow, Form
  <1>3. BlankForm(n).instance = n /\ BlankForm(n).key = 0 /\ BlankForm(n).loading = FALSE
    BY DEF BlankForm
  <1>4. /\ resetForm(n, loading) \in WizardRow /\ resetForm(n, loading).instance = n
        /\ resetForm(n, loading).key = 0 /\ resetForm(n, loading).loading = loading
    BY <1>2, <1>3 DEF resetForm, WizardRow
  <1> QED BY <1>2, <1>3, <1>4

\* A request as a handler sends it.
Posted(w, op, key) ==
    [op |-> op, pc |-> "sent", res |-> "none", tab |-> w, waits |-> TRUE,
     instance |-> wizard[w].instance, form |-> wizard[w].form, key |-> key,
     asks |-> IF op = "submit" THEN wizard[w].asks ELSE Blank, unpriced |-> FALSE,
     row |-> NoDraft, ticket |-> 0]

LEMMA PostedType ==
    ASSUME Shape, NEW w \in Open, NEW op \in Operation, NEW key \in Key
    PROVE  Posted(w, op, key) \in RequestRow
  <1>1. wizard[w] \in WizardRow /\ w \in Tab
    BY SceneTypes DEF Shape
  <1>2. wizard[w].instance \in Form /\ wizard[w].form \in Form /\ wizard[w].asks \in Options
    BY <1>1 DEF WizardRow, Form
  <1>3. NoDraft \in DraftRow /\ Blank \in Options /\ 0 \in Key
    BY Limits DEF NoDraft, DraftRow, Blank, Options, Key
  <1> QED BY <1>1, <1>2, <1>3 DEF Posted, RequestRow, Form, Key

-----------------------------------------------------------------------------
\* Counting.

\* A nonempty set of numbers has a least element, and a bounded one a greatest.
LEMMA LeastOf ==
    ASSUME NEW I \in SUBSET Nat, I # {}
    PROVE  Min(I) \in I /\ \A y \in I : Min(I) <= y
  <1> DEFINE R == {ss \in Nat \X Nat : ss[1] < ss[2]}
  <1>1. IsWellFoundedOn(R, Nat)
    BY NatLessThanWellFounded, Zenon DEF OpToRel
  <1>2. \E x \in I : \A y \in I : ~ (<<y, x>> \in R)
    <2> HIDE DEF R
    <2> QED BY <1>1, WFMin, Zenon
  <1>3. PICK x \in I : \A y \in I : ~ (<<y, x>> \in R)
    BY <1>2
  <1>4. ASSUME NEW y \in I PROVE x <= y
    <2>1. x \in Nat /\ y \in Nat /\ ~ (y < x)
      BY <1>3
    <2> QED BY <2>1
  <1> QED BY <1>4 DEF Min

LEMMA GreatestOf ==
    ASSUME NEW n \in Nat, NEW I \in SUBSET (1..n), I # {}
    PROVE  Max(I) \in I
  <1> DEFINE T == {k \in 0..n : n - k \in I}
  <1>1. T \in SUBSET Nat
    OBVIOUS
  <1>2. T # {}
    <2>1. PICK i \in I : TRUE
      OBVIOUS
    <2>2. n - i \in 0..n /\ n - (n - i) = i
      OBVIOUS
    <2> QED BY <2>1, <2>2
  <1>3. Min(T) \in T
    <2> HIDE DEF T
    <2> QED BY <1>1, <1>2, LeastOf
  <1>4. \A k \in T : Min(T) <= k
    <2> HIDE DEF T
    <2> QED BY <1>1, <1>2, LeastOf
  <1>5. ASSUME NEW j \in I PROVE n - Min(T) >= j
    <2>1. n - j \in 0..n /\ n - (n - j) = j
      OBVIOUS
    <2>2. n - j \in T
      BY <2>1
    <2>3. Min(T) <= n - j /\ Min(T) \in 0..n
      BY <2>2, <1>3, <1>4
    <2> QED BY <2>3
  <1>6. n - Min(T) \in I
    BY <1>3
  <1>7. \E x \in I : \A y \in I : x >= y
    BY <1>5, <1>6
  <1> QED BY <1>7 DEF Max

\* A set that a function covers is no larger than the function's domain.
LEMMA CoveredBy ==
    ASSUME NEW S, IsFiniteSet(S), NEW T, NEW f, \A y \in T : \E x \in S : f[x] = y
    PROVE  IsFiniteSet(T) /\ Cardinality(T) <= Cardinality(S)
  <1> DEFINE U == {x \in S : f[x] \in T}
             g == [x \in U |-> f[x]]
  <1>1. U \in SUBSET S
    OBVIOUS
  <1>2. IsFiniteSet(U) /\ Cardinality(U) <= Cardinality(S)
    BY <1>1, FS_Subset
  <1>3. g \in Surjection(U, T)
    BY DEF Surjection
  <1>4. IsFiniteSet(T) /\ Cardinality(T) <= Cardinality(U)
    <2> HIDE DEF U, g
    <2> QED BY <1>2, <1>3, FS_Surjection
  <1>5. Cardinality(T) \in Nat /\ Cardinality(U) \in Nat /\ Cardinality(S) \in Nat
    BY <1>2, <1>4, FS_CardinalityType
  <1> QED BY <1>2, <1>4, <1>5

\* There is an id for a new draft row.
LEMMA FreshDraftIdType == Shape => FreshDraftId \in DraftId
  <1> SUFFICES ASSUME Shape PROVE FreshDraftId \in DraftId
    OBVIOUS
  <1> DEFINE A == {drafts[c].id : c \in Consumer}
             B == {request[r].row.id : r \in {q \in Slot : Busy(q)}}
             f == [c \in Consumer |-> drafts[c].id]
             g == [r \in Slot |-> request[r].row.id]
             n == Cardinality(Slot) + Cardinality(Consumer) + 1
  <1>1. IsFiniteSet(A) /\ Cardinality(A) <= Cardinality(Consumer)
    <2>1. \A y \in A : \E c \in Consumer : f[c] = y
      OBVIOUS
    <2> HIDE DEF A, f
    <2> QED BY <2>1, Limits, CoveredBy
  <1>2. IsFiniteSet(B) /\ Cardinality(B) <= Cardinality(Slot)
    <2>1. \A y \in B : \E r \in Slot : g[r] = y
      OBVIOUS
    <2> HIDE DEF B, g
    <2> QED BY <2>1, Limits, CoveredBy
  <1>3. IsFiniteSet(A \cup B) /\ Cardinality(A \cup B) < n /\ Cardinality(A \cup B) \in Nat
    <2> HIDE DEF A, B
    <2>1. /\ IsFiniteSet(A \cup B)
          /\ Cardinality(A \cup B) = Cardinality(A) + Cardinality(B) - Cardinality(A \cap B)
      BY <1>1, <1>2, FS_Union
    <2>2. A \cap B \in SUBSET A
      OBVIOUS
    <2>3. IsFiniteSet(A \cap B)
      BY <1>1, <2>2, FS_Subset
    <2>4. /\ Cardinality(A) \in Nat /\ Cardinality(B) \in Nat /\ Cardinality(A \cap B) \in Nat
          /\ Cardinality(A \cup B) \in Nat
      BY <1>1, <1>2, <2>1, <2>3, FS_CardinalityType
    <2> QED BY <1>1, <1>2, <2>1, <2>4, Limits
  <1>4. IsFiniteSet(DraftId) /\ Cardinality(DraftId) = n
    <2>1. n \in Int /\ 1 \in Int /\ n >= 1
      BY Limits
    <2>2. IsFiniteSet(1..n) /\ Cardinality(1..n) = IF 1 > n THEN 0 ELSE n - 1 + 1
      <3> HIDE DEF n
      <3> QED BY <2>1, FS_Interval
    <2> QED BY <2>1, <2>2 DEF DraftId
  <1>5. DraftId \ (A \cup B) # {}
    <2> SUFFICES ASSUME DraftId \ (A \cup B) = {} PROVE FALSE
      OBVIOUS
    <2>1. DraftId \in SUBSET (A \cup B)
      OBVIOUS
    <2>2. Cardinality(DraftId) <= Cardinality(A \cup B)
      <3> HIDE DEF A, B
      <3> QED BY <1>3, <2>1, FS_Subset
    <2>3. n \in Nat
      BY Limits
    <2> QED BY <1>3, <1>4, <2>2, <2>3
  <1>6. DraftId \ (A \cup B) \in SUBSET Nat
    BY DEF DraftId
  <1>7. Min(DraftId \ (A \cup B)) \in DraftId \ (A \cup B)
    <2> HIDE DEF A, B
    <2> QED BY <1>5, <1>6, LeastOf
  <1> QED BY <1>7 DEF FreshDraftId

\* The tickets have different keys, all of them minted.
LEMMA TicketsFit ==
    ASSUME Shape, KeysMatch
    PROVE  /\ Len(tickets) \in Nat /\ Len(tickets) <= keys /\ DOMAIN tickets \subseteq Key
           /\ \A i \in DOMAIN tickets : tickets[i].key \in 1..keys
  <1> DEFINE n == Len(tickets)
             f == [i \in 1..n |-> tickets[i].key]
  <1>1. /\ tickets \in Seq(TicketRow) /\ n \in Nat
        /\ DOMAIN tickets = 1..n /\ keys \in 0..KeyLimit /\ KeyLimit \in Nat
    BY Limits DEF Shape
  <1>2. \A i \in DOMAIN tickets : tickets[i].key \in 1..keys
    <2> SUFFICES ASSUME NEW i \in DOMAIN tickets PROVE tickets[i].key \in 1..keys
      OBVIOUS
    <2>1. tickets[i] \in TicketRow
      BY <1>1
    <2>2. tickets[i].instance \in Form /\ tickets[i].key \in Key
      BY <2>1, TicketTypes
    <2>3. MintedBy(tickets[i].instance, tickets[i].key)
      BY DEF MintedBy
    <2> QED BY <2>2, <2>3 DEF KeysMatch
  <1>3. f \in Injection(1..n, 1..keys)
    <2>1. f \in [1..n -> 1..keys]
      BY <1>1, <1>2
    <2>2. \A i, j \in 1..n : f[i] = f[j] => i = j
      BY <1>1 DEF KeysMatch
    <2> QED BY <2>1, <2>2 DEF Injection, IsInjective
  <1>4. /\ IsFiniteSet(1..n) /\ Cardinality(1..n) = n
        /\ IsFiniteSet(1..keys) /\ Cardinality(1..keys) = keys
    <2>1. n \in Nat /\ keys \in Nat
      BY <1>1
    <2> HIDE DEF n
    <2> QED BY <2>1, FS_Interval
  <1>5. n <= keys
    <2> HIDE DEF f, n
    <2> QED BY <1>3, <1>4, FS_Injection
  <1> QED BY <1>1, <1>2, <1>5 DEF Key

\* So a ticket with a new key is not one too many.
LEMMA RoomForTicket ==
    ASSUME Shape, KeysMatch, NEW k \in 1..keys, \A i \in DOMAIN tickets : tickets[i].key # k
    PROVE  Len(tickets) \in Nat /\ Len(tickets) + 1 \in Key
  <1> DEFINE n == Len(tickets) + 1
             f == [i \in 1..n |-> IF i = n THEN k ELSE tickets[i].key]
  <1>1. /\ tickets \in Seq(TicketRow) /\ Len(tickets) \in Nat
        /\ DOMAIN tickets = 1..Len(tickets) /\ keys \in 0..KeyLimit /\ KeyLimit \in Nat
    BY Limits DEF Shape
  <1>2. \A i \in DOMAIN tickets : tickets[i].key \in 1..keys
    BY TicketsFit
  <1>3. \A i, j \in DOMAIN tickets : tickets[i].key = tickets[j].key => i = j
    BY DEF KeysMatch
  <1>4. f \in Injection(1..n, 1..keys)
    <2>1. f \in [1..n -> 1..keys]
      BY <1>1, <1>2
    <2>2. \A i, j \in 1..n : f[i] = f[j] => i = j
      BY <1>1, <1>3
    <2> QED BY <2>1, <2>2 DEF Injection, IsInjective
  <1>5. /\ IsFiniteSet(1..n) /\ Cardinality(1..n) = n
        /\ IsFiniteSet(1..keys) /\ Cardinality(1..keys) = keys
    BY <1>1, FS_Interval
  <1>6. n <= keys
    <2> HIDE DEF f, n
    <2> QED BY <1>4, <1>5, FS_Injection
  <1> QED BY <1>1, <1>6 DEF Key

-----------------------------------------------------------------------------
\* Steps.  What an action does to the requests, wizards and tickets is one of five kinds;
\* each kind keeps Core.

\* A request has ended or gone on: the same call, of the same form, with the same key.
Follows(a, b) ==
    \/ b = a
    \/ b = Idle
    \/ /\ a # Idle /\ b # Idle
       /\ b.op = a.op /\ b.tab = a.tab /\ b.instance = a.instance /\ b.key = a.key
       /\ b.waits => a.waits
       /\ Uploads(a) => b.ticket = a.ticket /\ b.pc \in {a.pc, "answer"}

\* An upload is still heard.
StillHeard(a, b) == Uploads(a) /\ a.waits => Uploads(b) /\ b.waits /\ b.tab = a.tab

\* What a submission has been told of its ticket is so.
Told(b) == b # Idle /\ Answered(b) =>
             b.ticket \in DOMAIN tickets /\ tickets[b.ticket].key = b.key

SameTickets ==
    /\ DOMAIN tickets' = DOMAIN tickets
    /\ \A i \in DOMAIN tickets : /\ tickets'[i].instance = tickets[i].instance
                                 /\ tickets'[i].key = tickets[i].key
                                 /\ tickets'[i].documents = tickets[i].documents

\* A request that followed is a handler, a submission, an upload only if it was one.
LEMMA FollowsFacts ==
    ASSUME NEW a \in {Idle} \cup RequestRow, NEW b \in {Idle} \cup RequestRow, Follows(a, b)
    PROVE  /\ b # Idle => /\ a # Idle /\ b.op = a.op /\ b.tab = a.tab /\ b.key = a.key
                          /\ b.instance = a.instance /\ (b.waits => a.waits)
           /\ Resets(b) => Resets(a)
           /\ Loads(b) => Loads(a) /\ b.tab = a.tab
           /\ Uploads(b) => Uploads(a) /\ b.ticket = a.ticket
                            /\ (b.pc = a.pc \/ b.pc = "answer")
  <1>1. b # Idle => /\ a # Idle /\ b.op = a.op /\ b.tab = a.tab /\ b.key = a.key
                    /\ b.instance = a.instance /\ (b.waits => a.waits)
    BY DEF Follows
  <1>2. /\ Resets(b) => Resets(a)
        /\ Loads(b) => Loads(a) /\ b.tab = a.tab
    BY <1>1, RequestTypes DEF Resets, Loads
  <1>3. Uploads(b) => Uploads(a) /\ b.ticket = a.ticket /\ (b.pc = a.pc \/ b.pc = "answer")
    BY <1>1 DEF Uploads, Follows
  <1> QED BY <1>1, <1>2, <1>3

\* Every form in the tables has been started.
LEMMA MintedForms ==
    ASSUME FormsApart, NEW f, NEW k, MintedBy(f, k)
    PROVE  f <= forms
  BY DEF FormsApart, MintedBy

\* The first kind: requests end or go on, and one tab may have got a new form, with or
\* without the request that asks for its draft.
LEMMA GoesOn ==
    ASSUME Shape, Core, FormsSuffice', scene' = scene, keys' = keys, SameTickets,
           request' \in [Slot -> {Idle} \cup RequestRow],
           NEW new \in SUBSET Open,
           \A v, w \in new : v = w,
           forms' = IF new = {} THEN forms ELSE forms + 1,
           \A v \in Open : /\ v \in new => wizard'[v].instance = forms + 1 /\ wizard'[v].key = 0
                           /\ v \notin new => /\ wizard'[v].instance = wizard[v].instance
                                              /\ wizard'[v].key = wizard[v].key,
           \A q \in Slot :
              \/ Follows(request[q], request'[q])
              \/ /\ request[q] = Idle /\ request'[q] # Idle /\ request'[q].op = "resume"
                 /\ request'[q].tab \in new /\ request'[q].instance = forms + 1,
           \A q \in Slot : Told(request'[q]),
           \A q \in Slot : \/ StillHeard(request[q], request'[q])
                           \/ request[q] # Idle /\ request[q].tab \in new,
           \A q \in Slot : Loads(request'[q]) =>
              wizard'[request'[q].tab].loading = wizard[request'[q].tab].loading
    PROVE  Core'
  <1>1. /\ FormsApart /\ KeysMatch /\ OneHandler /\ TicketsKnown /\ UploadsOnce /\ Open' = Open
        /\ request \in [Slot -> {Idle} \cup RequestRow] /\ wizard \in [Open -> WizardRow]
        /\ forms \in Nat /\ forms' \in Nat /\ forms <= forms'
    BY DEF Core, Shape, Open
  <1>2. \A q \in Slot :
          \/ Follows(request[q], request'[q])
          \/ /\ request[q] = Idle /\ request'[q] # Idle /\ request'[q].op = "resume"
             /\ request'[q].tab \in new /\ request'[q].instance = forms + 1
             /\ ~Loads(request'[q]) /\ ~Uploads(request'[q])
    BY DEF Loads, Uploads
  <1>3. \A q \in Slot :
          /\ Loads(request'[q]) => Loads(request[q]) /\ request'[q].tab = request[q].tab
          /\ Uploads(request'[q]) => /\ Uploads(request[q])
                                     /\ request'[q].ticket = request[q].ticket
                                     /\ request'[q].pc \in {request[q].pc, "answer"}
          /\ request'[q] # Idle /\ request'[q].op # "resume" =>
               /\ request[q] # Idle /\ request'[q].op = request[q].op
               /\ request'[q].key = request[q].key /\ request'[q].instance = request[q].instance
               /\ request'[q].tab = request[q].tab /\ (request'[q].waits => request[q].waits)
          /\ request'[q] # Idle =>
               \/ /\ request[q] # Idle /\ request'[q].instance = request[q].instance
                  /\ request'[q].tab = request[q].tab
               \/ request'[q].instance = forms + 1 /\ request'[q].tab \in new
    BY <1>1, <1>2, FollowsFacts
  <1>4. /\ \A v \in Open : \/ v \notin new /\ wizard'[v].instance = wizard[v].instance
                              /\ wizard'[v].key = wizard[v].key
                           \/ /\ v \in new /\ wizard'[v].instance = forms + 1 /\ forms' = forms + 1
                              /\ wizard'[v].key = 0
        /\ \A v \in Open : wizard[v].instance \in Nat /\ wizard[v].instance <= forms
        /\ \A q \in Slot : request[q] # Idle =>
             request[q].instance \in Nat /\ request[q].instance <= forms
    BY <1>1, RequestTypes DEF FormsApart, WizardRow, Form
  <1>5. FormsApart'
    <2>1. \A v \in Open : wizard'[v].instance <= forms'
      BY <1>1, <1>4
    <2>2. \A v, w \in Open : wizard'[v].instance = wizard'[w].instance => v = w
      BY <1>1, <1>4 DEF FormsApart
    <2>3. ASSUME NEW r \in Slot, request'[r] # Idle
          PROVE  /\ request'[r].tab \in Open /\ request'[r].instance <= forms'
                 /\ \A w \in Open : wizard'[w].instance = request'[r].instance
                                      => request'[r].tab = w
      <3>1. CASE /\ request[r] # Idle /\ request'[r].instance = request[r].instance
                 /\ request'[r].tab = request[r].tab
        <4>1. /\ request[r].tab \in Open /\ request[r].instance <= forms
              /\ request[r].instance \in Nat
              /\ \A w \in Open : wizard[w].instance = request[r].instance => request[r].tab = w
          BY <3>1, <1>1, <1>4 DEF FormsApart
        <4> QED BY <3>1, <4>1, <1>1, <1>4
      <3>2. CASE request'[r].instance = forms + 1 /\ request'[r].tab \in new
        BY <3>2, <1>1, <1>4
      <3> QED BY <2>3, <3>1, <3>2, <1>3
    <2>4. ASSUME NEW r \in Slot, NEW q \in Slot, request'[r] # Idle, request'[q] # Idle,
                 request'[r].instance = request'[q].instance
          PROVE  request'[r].tab = request'[q].tab
      BY <2>4, <1>1, <1>3, <1>4 DEF FormsApart
    <2>5. \A i \in DOMAIN tickets' : tickets'[i].instance <= forms'
      <3> SUFFICES ASSUME NEW i \in DOMAIN tickets PROVE tickets[i].instance <= forms'
        BY DEF SameTickets
      <3>1. tickets[i] \in TicketRow
        BY DEF Shape
      <3>2. tickets[i].instance \in Nat /\ tickets[i].instance <= forms
        BY <3>1, <1>1, Limits DEF TicketRow, FormsApart
      <3> QED BY <3>2, <1>1
    <2> QED BY <2>1, <2>2, <2>3, <2>4, <2>5, <1>1 DEF FormsApart
  <1>6. \A f, k : MintedBy(f, k)' => MintedBy(f, k)
    <2> SUFFICES ASSUME NEW f, NEW k, MintedBy(f, k)' PROVE MintedBy(f, k)
      OBVIOUS
    <2>1. CASE \E w \in Open' : wizard'[w].key # 0 /\ f = wizard'[w].instance /\ k = wizard'[w].key
      BY <2>1, <1>1, <1>4 DEF MintedBy
    <2>2. CASE \E r \in Slot : /\ request'[r] # Idle /\ request'[r].op \in {"submit", "upload"}
                               /\ f = request'[r].instance /\ k = request'[r].key
      BY <2>2, <1>3 DEF MintedBy
    <2>3. CASE \E i \in DOMAIN tickets' : f = tickets'[i].instance /\ k = tickets'[i].key
      BY <2>3 DEF MintedBy, SameTickets
    <2> QED BY <2>1, <2>2, <2>3 DEF MintedBy
  <1>7. KeysMatch'
    <2>1. ASSUME NEW v \in Open, NEW f \in Form, NEW k \in Key, wizard'[v].key = 0,
                 f = wizard'[v].instance, MintedBy(f, k)'
          PROVE  FALSE
      <3>1. MintedBy(f, k)
        BY <2>1, <1>6
      <3>2. f <= forms
        BY <3>1, <1>1, MintedForms
      <3>3. f = wizard[v].instance /\ wizard[v].key = 0
        BY <3>2, <1>1, <1>4, <2>1
      <3> QED BY <3>1, <3>3, <1>1 DEF KeysMatch
    <2>2. \A i, j \in DOMAIN tickets' : tickets'[i].key = tickets'[j].key => i = j
      BY <1>1 DEF KeysMatch, SameTickets
    <2>3. \A f, g \in Form, k, l \in Key :
            MintedBy(f, k)' /\ MintedBy(g, l)' => (f = g <=> k = l)
      BY <1>1, <1>6 DEF KeysMatch
    <2>4. \A f \in Form, k \in Key : MintedBy(f, k)' => k \in 1..keys'
      BY <1>1, <1>6 DEF KeysMatch
    <2> QED BY <2>1, <2>2, <2>3, <2>4, <1>1 DEF KeysMatch
  <1>8. OneHandler'
    <2>1. ASSUME NEW r \in Slot, Loads(request'[r]) PROVE wizard'[request'[r].tab].loading
      BY <2>1, <1>1, <1>3 DEF OneHandler
    <2>2. ASSUME NEW r \in Slot, NEW q \in Slot, Loads(request'[r]), Loads(request'[q]),
                 request'[r].tab = request'[q].tab
          PROVE  r = q
      BY <2>2, <1>1, <1>3 DEF OneHandler
    <2> QED BY <2>1, <2>2 DEF OneHandler, Loads
  <1>9. TicketsKnown'
    <2> SUFFICES ASSUME NEW r \in Slot, Knows(request'[r])
                 PROVE  /\ request'[r].ticket \in DOMAIN tickets
                        /\ tickets[request'[r].ticket].key = request'[r].key
      BY DEF TicketsKnown, Knows, Answered, SameTickets
    <2>1. CASE Answered(request'[r])
      BY <2>1 DEF Told, Knows
    <2>2. CASE Uploads(request'[r])
      <3>1. /\ Uploads(request[r]) /\ request'[r].ticket = request[r].ticket
            /\ request'[r].key = request[r].key
        BY <2>2, <1>3 DEF Uploads
      <3>2. Knows(request[r])
        BY <3>1 DEF Knows, Uploads
      <3> QED BY <3>1, <3>2, <1>1 DEF TicketsKnown
    <2> QED BY <2>1, <2>2 DEF Knows, Uploads
  <1>10. UploadsOnce'
    <2>1. /\ \A i \in DOMAIN tickets' : tickets'[i].documents <= 1
          /\ \A r \in Slot : Uploads(request'[r]) => request'[r].pc \in {"sent", "answer"}
          /\ \A r, q \in Slot : Uploads(request'[r]) /\ Uploads(request'[q])
                                /\ request'[r].ticket = request'[q].ticket => r = q
      BY <1>1, <1>3 DEF UploadsOnce, SameTickets
    <2>2. ASSUME NEW r \in Slot, Uploads(request'[r]), request'[r].pc = "sent"
          PROVE  tickets'[request'[r].ticket].documents = 0
      <3>1. /\ Uploads(request[r]) /\ request'[r].ticket = request[r].ticket
            /\ request[r].pc = "sent"
        BY <2>2, <1>3
      <3>2. request[r].ticket \in DOMAIN tickets /\ tickets[request[r].ticket].documents = 0
        BY <3>1, <1>1 DEF TicketsKnown, Knows, Uploads, UploadsOnce
      <3> QED BY <3>1, <3>2 DEF SameTickets
    <2>3. ASSUME NEW i \in DOMAIN tickets, Spent(i)' PROVE Spent(i)
      BY <2>3, <1>3 DEF Spent, SameTickets
    <2>4. ASSUME NEW i \in DOMAIN tickets, Spent(i), NEW r \in Slot, request'[r] # Idle,
                 request'[r].waits, request'[r].op = "submit"
          PROVE  request'[r].instance # tickets[i].instance
      BY <2>4, <1>1, <1>3 DEF UploadsOnce
    <2>5. ASSUME NEW i \in DOMAIN tickets, Spent(i), NEW v \in Open,
                 wizard'[v].instance = tickets[i].instance
          PROVE  \E r \in Slot : Uploads(request'[r]) /\ request'[r].waits /\ request'[r].tab = v
      <3>1. tickets[i].instance \in Nat /\ tickets[i].instance <= forms
        <4>1. tickets[i] \in TicketRow
          BY DEF Shape
        <4> QED BY <4>1, <1>1, Limits DEF TicketRow, FormsApart
      <3>2. v \notin new /\ wizard[v].instance = tickets[i].instance
        BY <3>1, <1>1, <1>4, <2>5
      <3>3. PICK r \in Slot : Uploads(request[r]) /\ request[r].waits /\ request[r].tab = v
        BY <3>2, <2>5, <1>1 DEF UploadsOnce
      <3>4. StillHeard(request[r], request'[r])
        BY <3>2, <3>3
      <3> QED BY <3>3, <3>4 DEF StillHeard
    <2>6. \A i \in DOMAIN tickets' : tickets'[i].instance = tickets[i].instance /\ i \in DOMAIN tickets
      BY DEF SameTickets
    <2>7. ASSUME NEW i \in DOMAIN tickets', Spent(i)'
          PROVE  /\ \A r \in Slot : request'[r] # Idle /\ request'[r].waits
                                    /\ request'[r].op = "submit"
                                      => request'[r].instance # tickets'[i].instance
                 /\ \A w \in Open' : wizard'[w].instance = tickets'[i].instance =>
                      \E r \in Slot : /\ Uploads(request'[r]) /\ request'[r].waits
                                      /\ request'[r].tab = w
      BY <2>3, <2>4, <2>5, <2>6, <2>7, <1>1
    <2> QED BY <2>1, <2>2, <2>7 DEF UploadsOnce, Uploads
  <1> QED BY <1>5, <1>7, <1>8, <1>9, <1>10 DEF Core

\* The second kind: a handler of tab w sends a request.  A submission mints a key for its
\* form when there is none.
LEMMA Sends ==
    ASSUME Shape, Core, NEW w \in Open, NEW r \in Slot, NEW op \in Operation \ {"upload"},
           NEW key \in Key, NEW loading \in BOOLEAN,
           request[r] = Idle, request' = [request EXCEPT ![r] = Posted(w, op, key)],
           scene' = scene, forms' = forms, tickets' = tickets,
           \A v \in Open \ {w} : wizard'[v] = wizard[v],
           wizard'[w].instance = wizard[w].instance, wizard'[w].loading = loading,
           op \in {"submit", "manual"} => ~wizard[w].loading /\ loading,
           wizard[w].loading => loading,
           op \in {"submit", "manual", "discard"} =>
             forms + Cardinality(Handlers) < scene.forms,
           \/ /\ op # "submit" /\ keys' = keys /\ wizard'[w].key = wizard[w].key
           \/ /\ op = "submit" /\ keys' = keys /\ wizard'[w].key = key
              /\ wizard[w].key # 0 /\ key = wizard[w].key
           \/ /\ op = "submit" /\ keys' = keys + 1 /\ wizard'[w].key = key
              /\ wizard[w].key = 0 /\ key = keys + 1
    PROVE  Core'
  <1> DEFINE new == Posted(w, op, key)
  <1>1. /\ FormsApart /\ KeysMatch /\ OneHandler /\ TicketsKnown /\ UploadsOnce /\ FormsSuffice
        /\ Open' = Open /\ request \in [Slot -> {Idle} \cup RequestRow]
        /\ wizard \in [Open -> WizardRow] /\ forms \in Nat /\ keys \in Nat
        /\ tickets \in Seq(TicketRow)
    BY Limits DEF Core, Shape, Open
  <1>2. /\ new \in RequestRow /\ new # Idle /\ new.op = op /\ new.pc = "sent" /\ new.tab = w
        /\ new.waits /\ new.instance = wizard[w].instance /\ new.key = key
        /\ ~Uploads(new) /\ ~Answered(new) /\ ~Knows(new)
        /\ Loads(new) <=> op \in {"submit", "manual"}
        /\ Resets(new) <=> op \in {"submit", "manual", "discard"}
    <2>1. new \in RequestRow /\ new # Idle
      BY PostedType, RequestTypes
    <2>2. /\ new.op = op /\ new.pc = "sent" /\ new.tab = w /\ new.waits
          /\ new.instance = wizard[w].instance /\ new.key = key
      BY DEF Posted
    <2> HIDE DEF new
    <2> QED BY <2>1, <2>2 DEF Uploads, Answered, Knows, Loads, Resets
  <1> HIDE DEF new
  <1>3. /\ request'[r] = new
        /\ \A q \in Slot \ {r} : request'[q] = request[q]
        /\ ~Uploads(request[r]) /\ ~Loads(request[r]) /\ ~Resets(request[r]) /\ ~Knows(request[r])
    BY <1>1 DEF new, Uploads, Loads, Resets, Knows
  <1>4. /\ \A v \in Open : wizard'[v].instance = wizard[v].instance
        /\ \A v \in Open \ {w} : /\ wizard'[v].key = wizard[v].key
                                 /\ wizard'[v].loading = wizard[v].loading
    OBVIOUS
  <1>5. FormsSuffice'
    <2>1. Handlers' = IF Resets(new) THEN Handlers \cup {r} ELSE Handlers
      BY <1>3 DEF Handlers, Resets
    <2>2. IsFiniteSet(Handlers) /\ Cardinality(Handlers) \in Nat /\ r \notin Handlers
      <3>1. Handlers \in SUBSET Slot /\ r \notin Handlers
        BY <1>3 DEF Handlers
      <3> QED BY <3>1, Limits, FS_Subset, FS_CardinalityType
    <2>3. Cardinality(Handlers \cup {r}) = Cardinality(Handlers) + 1
      BY <2>2, FS_AddElement
    <2>4. scene.forms \in Nat
      BY SceneTypes, Limits DEF Shape
    <2> QED BY <2>1, <2>2, <2>3, <2>4, <1>1, <1>2 DEF FormsSuffice
  <1>6. FormsApart'
    <2>1. \A q \in Slot : request'[q] # Idle =>
            \/ /\ request[q] # Idle /\ request'[q].instance = request[q].instance
               /\ request'[q].tab = request[q].tab
            \/ request'[q].instance = wizard[w].instance /\ request'[q].tab = w
      BY <1>2, <1>3
    <2>2. ASSUME NEW q \in Slot, request'[q] # Idle
          PROVE  /\ request'[q].tab \in Open /\ request'[q].instance <= forms
                 /\ \A v \in Open : wizard[v].instance = request'[q].instance
                                      => request'[q].tab = v
      BY <2>1, <2>2, <1>1 DEF FormsApart
    <2>3. ASSUME NEW o \in Slot, NEW q \in Slot, request'[o] # Idle, request'[q] # Idle,
                 request'[o].instance = request'[q].instance
          PROVE  request'[o].tab = request'[q].tab
      BY <2>1, <2>3, <1>1 DEF FormsApart
    <2> QED BY <2>2, <2>3, <1>1, <1>4 DEF FormsApart
  <1>7. ASSUME NEW f, NEW k, MintedBy(f, k)'
        PROVE  MintedBy(f, k) \/ (op = "submit" /\ f = wizard[w].instance /\ k = key)
    <2>1. CASE \E v \in Open' : wizard'[v].key # 0 /\ f = wizard'[v].instance /\ k = wizard'[v].key
      BY <2>1, <1>1, <1>4 DEF MintedBy
    <2>2. CASE \E q \in Slot : /\ request'[q] # Idle /\ request'[q].op \in {"submit", "upload"}
                               /\ f = request'[q].instance /\ k = request'[q].key
      BY <2>2, <1>2, <1>3 DEF MintedBy
    <2>3. CASE \E i \in DOMAIN tickets' : f = tickets'[i].instance /\ k = tickets'[i].key
      BY <2>3 DEF MintedBy
    <2> QED BY <1>7, <2>1, <2>2, <2>3 DEF MintedBy
  <1>8. KeysMatch'
    <2>1. wizard[w].instance \in Form /\ \A v \in Open : wizard[v].instance \in Form
      BY <1>1 DEF WizardRow, Form
    <2>2. \/ op # "submit"
          \/ MintedBy(wizard[w].instance, key)
          \/ wizard[w].key = 0 /\ key = keys + 1
      BY DEF MintedBy
    <2>3. \A f \in Form, k \in Key : MintedBy(f, k) => k \in 1..keys
      BY <1>1 DEF KeysMatch
    <2>4. \A k \in Key : wizard[w].key = 0 => ~MintedBy(wizard[w].instance, k)
      BY <1>1, <2>1 DEF KeysMatch
    <2>5. ASSUME NEW f \in Form, NEW k \in Key, MintedBy(f, k)'
          PROVE  k \in 1..keys'
      BY <2>1, <2>2, <2>3, <2>5, <1>1, <1>7
    <2>6. ASSUME NEW f \in Form, NEW g \in Form, NEW k \in Key, NEW l \in Key,
                 MintedBy(f, k)', MintedBy(g, l)'
          PROVE  f = g <=> k = l
      <3>1. MintedBy(f, k) /\ MintedBy(g, l) => (f = g <=> k = l)
        BY <1>1 DEF KeysMatch
      <3>2. ASSUME NEW x \in Form, NEW y \in Key, MintedBy(x, y), op = "submit"
            PROVE  x = wizard[w].instance <=> y = key
        <4>1. CASE MintedBy(wizard[w].instance, key)
          BY <3>2, <4>1, <2>1, <1>1 DEF KeysMatch
        <4>2. CASE wizard[w].key = 0 /\ key = keys + 1
          BY <3>2, <4>2, <2>3, <2>4, <1>1
        <4> QED BY <3>2, <4>1, <4>2, <2>2
      <3> QED BY <2>6, <3>1, <3>2, <1>7
    <2>7. ASSUME NEW v \in Open, NEW f \in Form, NEW k \in Key, wizard'[v].key = 0,
                 f = wizard'[v].instance, MintedBy(f, k)'
          PROVE  FALSE
      <3>1. f = wizard[v].instance
        BY <2>7, <1>4
      <3>2. CASE op = "submit" /\ v = w
        <4>1. wizard[w].key \in Nat /\ wizard'[w].key # 0
          BY <3>2, <1>1 DEF WizardRow
        <4> QED BY <2>7, <3>2, <4>1
      <3>3. CASE ~(op = "submit" /\ v = w)
        <4>1. wizard[v].key = 0
          BY <2>7, <3>3, <1>4
        <4>2. ~MintedBy(f, k)
          BY <3>1, <4>1, <1>1 DEF KeysMatch
        <4>3. op = "submit" /\ f = wizard[w].instance
          BY <2>7, <4>2, <1>7
        <4>4. \A x, y \in Open : wizard[x].instance = wizard[y].instance => x = y
          BY <1>1 DEF FormsApart
        <4>5. v = w
          BY <3>1, <4>3, <4>4
        <4> QED BY <3>3, <4>3, <4>5
      <3> QED BY <3>2, <3>3
    <2>8. \A i, j \in DOMAIN tickets' : tickets'[i].key = tickets'[j].key => i = j
      BY <1>1 DEF KeysMatch
    <2> QED BY <2>5, <2>6, <2>7, <2>8, <1>1 DEF KeysMatch
  <1>9. OneHandler'
    <2>1. \A q \in Slot : Loads(request'[q]) =>
            \/ Loads(request[q]) /\ q # r /\ request'[q] = request[q]
            \/ q = r /\ request'[q].tab = w /\ ~wizard[w].loading /\ wizard'[w].loading
      BY <1>2, <1>3
    <2>2. \A q \in Slot : Loads(request[q]) => wizard[request[q].tab].loading /\ request[q].tab \in Open
      BY <1>1 DEF OneHandler, FormsApart, Loads
    <2>3. ASSUME NEW q \in Slot, Loads(request'[q]) PROVE wizard'[request'[q].tab].loading
      BY <2>1, <2>2, <2>3, <1>4
    <2>4. ASSUME NEW o \in Slot, NEW q \in Slot, Loads(request'[o]), Loads(request'[q]),
                 request'[o].tab = request'[q].tab
          PROVE  o = q
      BY <2>1, <2>2, <2>4, <1>1 DEF OneHandler
    <2> QED BY <2>3, <2>4 DEF OneHandler, Loads
  <1>10. TicketsKnown'
    <2>1. \A q \in Slot : Knows(request'[q]) => Knows(request[q]) /\ request'[q] = request[q]
      BY <1>2, <1>3
    <2> QED BY <2>1, <1>1 DEF TicketsKnown, Knows, Answered
  <1>11. UploadsOnce'
    <2>1. \A q \in Slot : Uploads(request'[q]) => Uploads(request[q]) /\ request'[q] = request[q]
      BY <1>2, <1>3
    <2>2. \A q \in Slot : Uploads(request[q]) => request'[q] = request[q]
      BY <1>3
    <2>3. ASSUME NEW i \in DOMAIN tickets, Spent(i)' PROVE Spent(i)
      BY <2>1, <2>3 DEF Spent
    <2>4. ASSUME NEW i \in DOMAIN tickets, Spent(i), NEW q \in Slot, request'[q] # Idle,
                 request'[q].waits, request'[q].op = "submit"
          PROVE  request'[q].instance # tickets[i].instance
      <3>1. CASE q # r
        BY <2>4, <3>1, <1>1, <1>3 DEF UploadsOnce
      <3>2. CASE q = r
        <4> SUFFICES ASSUME wizard[w].instance = tickets[i].instance PROVE FALSE
          BY <3>2, <1>2, <1>3
        <4>1. PICK o \in Slot : Uploads(request[o]) /\ request[o].waits /\ request[o].tab = w
          BY <2>4, <1>1 DEF UploadsOnce
        <4>2. Loads(request[o])
          BY <4>1 DEF Loads, Uploads
        <4>3. wizard[w].loading /\ op = "submit"
          BY <4>1, <4>2, <3>2, <2>4, <1>1, <1>2, <1>3 DEF OneHandler
        <4> QED BY <4>3
      <3> QED BY <3>1, <3>2
    <2>5. ASSUME NEW i \in DOMAIN tickets, Spent(i), NEW v \in Open,
                 wizard'[v].instance = tickets[i].instance
          PROVE  \E q \in Slot : Uploads(request'[q]) /\ request'[q].waits /\ request'[q].tab = v
      <3>1. PICK q \in Slot : Uploads(request[q]) /\ request[q].waits /\ request[q].tab = v
        BY <2>5, <1>1, <1>4 DEF UploadsOnce
      <3> QED BY <3>1, <2>2
    <2>6. /\ \A i \in DOMAIN tickets' : tickets'[i].documents <= 1
          /\ \A q \in Slot : Uploads(request'[q]) /\ request'[q].pc = "sent" =>
               tickets'[request'[q].ticket].documents = 0
          /\ \A q \in Slot : Uploads(request'[q]) => request'[q].pc \in {"sent", "answer"}
          /\ \A o, q \in Slot : Uploads(request'[o]) /\ Uploads(request'[q])
                                /\ request'[o].ticket = request'[q].ticket => o = q
      BY <2>1, <1>1 DEF UploadsOnce
    <2>7. ASSUME NEW i \in DOMAIN tickets', Spent(i)'
          PROVE  /\ \A q \in Slot : request'[q] # Idle /\ request'[q].waits
                                    /\ request'[q].op = "submit"
                                      => request'[q].instance # tickets'[i].instance
                 /\ \A v \in Open' : wizard'[v].instance = tickets'[i].instance =>
                      \E q \in Slot : /\ Uploads(request'[q]) /\ request'[q].waits
                                      /\ request'[q].tab = v
      BY <2>3, <2>4, <2>5, <2>7, <1>1
    <2> QED BY <2>6, <2>7 DEF UploadsOnce, Uploads
  <1> QED BY <1>5, <1>6, <1>8, <1>9, <1>10, <1>11 DEF Core

\* The third kind: the form's ticket exists and its attachment is uploaded.
LEMMA Uploading ==
    ASSUME Shape, Core, NEW r \in Slot, request[r] # Idle, request[r].op = "submit",
           request[r].waits, request[r].pc = "answer", request[r].res = "ok",
           request' = [request EXCEPT ![r].op = "upload", ![r].pc = "sent", ![r].res = "none"],
           scene' = scene, forms' = forms, keys' = keys, tickets' = tickets, wizard' = wizard
    PROVE  Core' /\ request' \in [Slot -> {Idle} \cup RequestRow]
  <1> DEFINE new == [request[r] EXCEPT !.op = "upload", !.pc = "sent", !.res = "none"]
             i == request[r].ticket
  <1>1. /\ FormsApart /\ KeysMatch /\ OneHandler /\ TicketsKnown /\ UploadsOnce /\ FormsSuffice
        /\ Open' = Open /\ request \in [Slot -> {Idle} \cup RequestRow]
        /\ wizard \in [Open -> WizardRow] /\ tickets \in Seq(TicketRow)
        /\ request[r] \in RequestRow
    BY DEF Core, Shape, Open
  <1>2. /\ new \in RequestRow /\ new # Idle
    <2>1. new \in RequestRow
      BY <1>1 DEF RequestRow, Operation
    <2> QED BY <2>1, RequestTypes
  <1>3. /\ new.op = "upload" /\ new.pc = "sent" /\ new.tab = request[r].tab /\ new.waits
        /\ new.instance = request[r].instance /\ new.key = request[r].key /\ new.ticket = i
        /\ Uploads(new) /\ Loads(new) /\ Resets(new)
    <2>1. /\ new.op = "upload" /\ new.pc = "sent" /\ new.tab = request[r].tab /\ new.waits
          /\ new.instance = request[r].instance /\ new.key = request[r].key /\ new.ticket = i
      BY <1>1 DEF RequestRow
    <2> HIDE DEF new
    <2> QED BY <1>2, <2>1 DEF Uploads, Loads, Resets
  <1>4. /\ request'[r] = new
        /\ \A q \in Slot \ {r} : request'[q] = request[q]
        /\ request' \in [Slot -> {Idle} \cup RequestRow]
    BY <1>1, <1>2
  <1> HIDE DEF new
  <1>5. ~Uploads(request[r]) /\ Loads(request[r]) /\ Resets(request[r])
    BY DEF Uploads, Loads, Resets
  <1>6. i \in DOMAIN tickets /\ tickets[i].key = request[r].key
    BY <1>1 DEF TicketsKnown, Knows, Answered
  <1>7. tickets[i].instance = request[r].instance
    <2>1. tickets[i] \in TicketRow
      BY <1>1, <1>6
    <2>2. /\ tickets[i].instance \in Form /\ tickets[i].key \in Key
          /\ request[r].instance \in Form
      BY <2>1, <1>1, TicketTypes, RequestTypes
    <2>3. MintedBy(tickets[i].instance, tickets[i].key)
      BY <1>6 DEF MintedBy
    <2>4. MintedBy(request[r].instance, request[r].key)
      BY DEF MintedBy
    <2> QED BY <2>2, <2>3, <2>4, <1>1, <1>6 DEF KeysMatch
  <1>8. ~Spent(i)
    BY <1>1, <1>6, <1>7 DEF UploadsOnce
  <1>9. FormsSuffice'
    <2>1. Handlers' = Handlers
      BY <1>3, <1>4, <1>5 DEF Handlers, Resets
    <2> QED BY <2>1, <1>1 DEF FormsSuffice
  <1>10. FormsApart'
    <2>1. \A q \in Slot : /\ request'[q] # Idle <=> request[q] # Idle
                          /\ request[q] # Idle => /\ request'[q].instance = request[q].instance
                                                  /\ request'[q].tab = request[q].tab
      BY <1>2, <1>3, <1>4
    <2> QED BY <2>1, <1>1 DEF FormsApart
  <1>11. KeysMatch'
    <2>1. \A q \in Slot :
            request'[q] # Idle /\ request'[q].op \in {"submit", "upload"} =>
              /\ request[q] # Idle /\ request[q].op \in {"submit", "upload"}
              /\ request'[q].instance = request[q].instance /\ request'[q].key = request[q].key
      BY <1>2, <1>3, <1>4
    <2>2. \A f, k : MintedBy(f, k)' => MintedBy(f, k)
      BY <2>1, <1>1 DEF MintedBy
    <2> QED BY <2>2, <1>1 DEF KeysMatch
  <1>12. OneHandler'
    <2>1. \A q \in Slot : Loads(request'[q]) => Loads(request[q]) /\ request'[q].tab = request[q].tab
      BY <1>3, <1>4, <1>5
    <2> QED BY <2>1, <1>1 DEF OneHandler, Loads
  <1>13. TicketsKnown'
    <2>1. \A q \in Slot : Knows(request'[q]) =>
            Knows(request[q]) /\ request'[q].ticket = request[q].ticket
                              /\ request'[q].key = request[q].key
      <3>1. Knows(request[r])
        BY DEF Knows, Answered
      <3> QED BY <3>1, <1>3, <1>4
    <2> QED BY <2>1, <1>1 DEF TicketsKnown, Knows, Answered
  <1>14. UploadsOnce'
    <2>1. \A q \in Slot : Uploads(request'[q]) =>
            q = r \/ (q # r /\ Uploads(request[q]) /\ request'[q] = request[q])
      BY <1>4
    <2>2. \A q \in Slot : Uploads(request[q]) => request'[q] = request[q]
      BY <1>4, <1>5
    <2>3. tickets[i].documents = 0 /\ \A q \in Slot : Uploads(request[q]) => request[q].ticket # i
      BY <1>8 DEF Spent
    <2>4. /\ \A j \in DOMAIN tickets' : tickets'[j].documents <= 1
          /\ \A q \in Slot : Uploads(request'[q]) /\ request'[q].pc = "sent" =>
               tickets'[request'[q].ticket].documents = 0
          /\ \A q \in Slot : Uploads(request'[q]) => request'[q].pc \in {"sent", "answer"}
      BY <2>1, <2>3, <1>1, <1>3, <1>4 DEF UploadsOnce
    <2>5. ASSUME NEW o \in Slot, NEW q \in Slot, Uploads(request'[o]), Uploads(request'[q]),
                 request'[o].ticket = request'[q].ticket
          PROVE  o = q
      BY <2>1, <2>3, <2>5, <1>1, <1>3, <1>4 DEF UploadsOnce
    <2>6. ASSUME NEW j \in DOMAIN tickets, Spent(j)' PROVE Spent(j) \/ j = i
      BY <2>1, <2>6, <1>3, <1>4 DEF Spent
    <2>7. ASSUME NEW q \in Slot, request'[q] # Idle, request'[q].waits, request'[q].op = "submit"
          PROVE  q # r /\ request'[q] = request[q] /\ request[q].instance # tickets[i].instance
      <3>1. q # r /\ request'[q] = request[q] /\ Loads(request[q])
        BY <2>7, <1>3, <1>4 DEF Loads
      <3>2. request[q].tab # request[r].tab
        BY <3>1, <1>1, <1>5 DEF OneHandler
      <3>3. request[q].instance # request[r].instance
        BY <3>1, <3>2, <2>7, <1>1 DEF FormsApart
      <3> QED BY <3>1, <3>3, <1>7
    <2>8. ASSUME NEW v \in Open, wizard[v].instance = tickets[i].instance
          PROVE  request[r].tab = v
      BY <2>8, <1>1, <1>7 DEF FormsApart
    <2>9. ASSUME NEW j \in DOMAIN tickets, Spent(j), NEW v \in Open,
                 wizard[v].instance = tickets[j].instance
          PROVE  \E q \in Slot : Uploads(request'[q]) /\ request'[q].waits /\ request'[q].tab = v
      <3>1. PICK q \in Slot : Uploads(request[q]) /\ request[q].waits /\ request[q].tab = v
        BY <2>9, <1>1 DEF UploadsOnce
      <3> QED BY <3>1, <2>2
    <2>10. ASSUME NEW j \in DOMAIN tickets', Spent(j)'
           PROVE  /\ \A q \in Slot : request'[q] # Idle /\ request'[q].waits
                                     /\ request'[q].op = "submit"
                                       => request'[q].instance # tickets'[j].instance
                  /\ \A v \in Open' : wizard'[v].instance = tickets'[j].instance =>
                       \E q \in Slot : /\ Uploads(request'[q]) /\ request'[q].waits
                                       /\ request'[q].tab = v
      <3>1. CASE j = i
        <4>1. Uploads(request'[r]) /\ request'[r].waits /\ request'[r].tab = request[r].tab
          BY <1>3, <1>4
        <4>2. \A v \in Open : wizard[v].instance = tickets[i].instance => request'[r].tab = v
          BY <2>8, <4>1
        <4>3. \A v \in Open' : wizard'[v].instance = tickets'[j].instance =>
                \E q \in Slot : Uploads(request'[q]) /\ request'[q].waits /\ request'[q].tab = v
          BY <3>1, <4>1, <4>2, <1>1
        <4>4. \A q \in Slot : request'[q] # Idle /\ request'[q].waits /\ request'[q].op = "submit"
                                => request'[q].instance # tickets'[j].instance
          BY <2>7, <3>1
        <4> QED BY <4>3, <4>4
      <3>2. CASE j # i
        <4>1. Spent(j)
          BY <2>6, <2>10, <3>2
        <4>2. \A q \in Slot : request[q] # Idle /\ request[q].waits /\ request[q].op = "submit"
                                => request[q].instance # tickets[j].instance
          BY <4>1, <1>1 DEF UploadsOnce
        <4> QED BY <2>7, <2>9, <4>1, <4>2, <1>1
      <3> QED BY <3>1, <3>2
    <2>11. \A o, q \in Slot : Uploads(request'[o]) /\ Uploads(request'[q])
                              /\ request'[o].ticket = request'[q].ticket => o = q
      BY <2>5
    <2> HIDE DEF i
    <2> QED BY <2>4, <2>10, <2>11 DEF UploadsOnce, Uploads
  <1> QED BY <1>4, <1>9, <1>10, <1>11, <1>12, <1>13, <1>14 DEF Core

\* The fourth kind: the transaction inserts the ticket of a submission.
LEMMA Inserts ==
    ASSUME Shape, Core, NEW r \in Slot, request[r] # Idle, request[r].op = "submit",
           request[r].pc = "priced", replayOf(request[r].key) = {},
           NEW t \in TicketRow, t.instance = request[r].instance, t.key = request[r].key,
           t.documents = 0, tickets' = Append(tickets, t),
           request' = [request EXCEPT ![r].pc = "created", ![r].ticket = Len(tickets) + 1],
           scene' = scene, forms' = forms, keys' = keys, wizard' = wizard
    PROVE  Core' /\ request' \in [Slot -> {Idle} \cup RequestRow]
  <1> DEFINE n == Len(tickets) + 1
             new == [request[r] EXCEPT !.pc = "created", !.ticket = n]
  <1>1. /\ FormsApart /\ KeysMatch /\ OneHandler /\ TicketsKnown /\ UploadsOnce /\ FormsSuffice
        /\ Open' = Open /\ request \in [Slot -> {Idle} \cup RequestRow]
        /\ wizard \in [Open -> WizardRow] /\ tickets \in Seq(TicketRow)
        /\ request[r] \in RequestRow
    BY DEF Core, Shape, Open
  <1>2. \A i \in DOMAIN tickets : tickets[i].key # request[r].key
    BY DEF replayOf
  <1>3. Len(tickets) \in Nat /\ n \in Key
    <2>1. MintedBy(request[r].instance, request[r].key)
      BY DEF MintedBy
    <2>2. request[r].key \in 1..keys
      BY <2>1, <1>1, RequestTypes DEF KeysMatch
    <2> QED BY <2>2, <1>1, <1>2, RoomForTicket
  <1>4. /\ tickets' \in Seq(TicketRow) /\ DOMAIN tickets' = 1..n /\ DOMAIN tickets = 1..Len(tickets)
        /\ tickets'[n] = t /\ n \notin DOMAIN tickets /\ DOMAIN tickets' = DOMAIN tickets \cup {n}
        /\ \A i \in DOMAIN tickets : tickets'[i] = tickets[i]
    BY <1>1, <1>3
  <1>5. new \in RequestRow /\ new # Idle
    <2>1. new \in RequestRow
      BY <1>1, <1>3 DEF RequestRow, Key
    <2> QED BY <2>1, RequestTypes
  <1>6. /\ new.op = "submit" /\ new.pc = "created" /\ new.tab = request[r].tab
        /\ new.waits = request[r].waits
        /\ new.instance = request[r].instance /\ new.key = request[r].key /\ new.ticket = n
        /\ ~Uploads(new)
    <2>1. /\ new.op = "submit" /\ new.pc = "created" /\ new.tab = request[r].tab
          /\ new.waits = request[r].waits
          /\ new.instance = request[r].instance /\ new.key = request[r].key /\ new.ticket = n
      BY <1>1 DEF RequestRow
    <2> HIDE DEF new
    <2> QED BY <2>1 DEF Uploads
  <1>7. /\ request'[r] = new
        /\ \A q \in Slot \ {r} : request'[q] = request[q]
        /\ request' \in [Slot -> {Idle} \cup RequestRow]
    BY <1>1, <1>5
  <1> HIDE DEF new, n
  <1>8. \A q \in Slot :
          /\ request'[q] # Idle <=> request[q] # Idle
          /\ request[q] # Idle =>
               /\ request'[q].op = request[q].op /\ request'[q].tab = request[q].tab
               /\ request'[q].waits = request[q].waits /\ request'[q].key = request[q].key
               /\ request'[q].instance = request[q].instance
          /\ Uploads(request'[q]) <=> Uploads(request[q])
          /\ Uploads(request[q]) => request'[q] = request[q] /\ request[q].ticket \in DOMAIN tickets
    <2>1. ~Uploads(request[r])
      BY DEF Uploads
    <2>2. \A q \in Slot : Uploads(request[q]) => request[q].ticket \in DOMAIN tickets
      BY <1>1 DEF TicketsKnown, Knows, Uploads
    <2> QED BY <2>1, <2>2, <1>5, <1>6, <1>7
  <1>9. FormsSuffice'
    <2>1. \A q \in Slot : Resets(request'[q]) <=> Resets(request[q])
      BY <1>8 DEF Resets
    <2>2. Handlers' = Handlers
      BY <2>1 DEF Handlers, Resets
    <2> QED BY <2>2, <1>1 DEF FormsSuffice
  <1>10. FormsApart'
    <2>1. \A i \in DOMAIN tickets' : tickets'[i].instance <= forms
      BY <1>1, <1>4 DEF FormsApart
    <2> QED BY <2>1, <1>1, <1>8 DEF FormsApart
  <1>11. KeysMatch'
    <2>1. ASSUME NEW f, NEW k, MintedBy(f, k)' PROVE MintedBy(f, k)
      <3>1. CASE \E w \in Open' : wizard'[w].key # 0 /\ f = wizard'[w].instance
                                  /\ k = wizard'[w].key
        BY <3>1, <1>1 DEF MintedBy
      <3>2. CASE \E q \in Slot : /\ request'[q] # Idle /\ request'[q].op \in {"submit", "upload"}
                                 /\ f = request'[q].instance /\ k = request'[q].key
        BY <3>2, <1>8 DEF MintedBy
      <3>3. CASE \E i \in DOMAIN tickets' : f = tickets'[i].instance /\ k = tickets'[i].key
        BY <3>3, <1>4 DEF MintedBy
      <3> QED BY <2>1, <3>1, <3>2, <3>3 DEF MintedBy
    <2>2. \A i, j \in DOMAIN tickets' : tickets'[i].key = tickets'[j].key => i = j
      BY <1>1, <1>2, <1>4 DEF KeysMatch
    <2> QED BY <2>1, <2>2, <1>1 DEF KeysMatch
  <1>12. OneHandler'
    BY <1>1, <1>8 DEF OneHandler, Loads
  <1>13. TicketsKnown'
    <2> SUFFICES ASSUME NEW q \in Slot, Knows(request'[q])
                 PROVE  /\ request'[q].ticket \in DOMAIN tickets'
                        /\ tickets'[request'[q].ticket].key = request'[q].key
      BY DEF TicketsKnown, Knows, Answered
    <2>1. CASE q = r
      BY <2>1, <1>4, <1>6, <1>7
    <2>2. CASE q # r
      BY <2>2, <1>1, <1>4, <1>7 DEF TicketsKnown
    <2> QED BY <2>1, <2>2
  <1>14. UploadsOnce'
    <2>1. ASSUME NEW i \in DOMAIN tickets', Spent(i)'
          PROVE  i \in DOMAIN tickets /\ Spent(i)
      BY <2>1, <1>4, <1>8 DEF Spent
    <2>2. /\ \A i \in DOMAIN tickets' : tickets'[i].documents <= 1
          /\ \A q \in Slot : Uploads(request'[q]) /\ request'[q].pc = "sent" =>
               tickets'[request'[q].ticket].documents = 0
          /\ \A q \in Slot : Uploads(request'[q]) => request'[q].pc \in {"sent", "answer"}
          /\ \A o, q \in Slot : Uploads(request'[o]) /\ Uploads(request'[q])
                                /\ request'[o].ticket = request'[q].ticket => o = q
      BY <1>1, <1>4, <1>8 DEF UploadsOnce
    <2>3. ASSUME NEW i \in DOMAIN tickets', Spent(i)'
          PROVE  /\ \A q \in Slot : request'[q] # Idle /\ request'[q].waits
                                    /\ request'[q].op = "submit"
                                      => request'[q].instance # tickets'[i].instance
                 /\ \A v \in Open' : wizard'[v].instance = tickets'[i].instance =>
                      \E q \in Slot : /\ Uploads(request'[q]) /\ request'[q].waits
                                      /\ request'[q].tab = v
      <3>1. i \in DOMAIN tickets /\ Spent(i) /\ tickets'[i] = tickets[i]
        BY <2>1, <2>3, <1>4
      <3>2. ASSUME NEW q \in Slot, request'[q] # Idle, request'[q].waits,
                   request'[q].op = "submit"
            PROVE  request'[q].instance # tickets'[i].instance
        BY <3>1, <3>2, <1>1, <1>8 DEF UploadsOnce
      <3>3. ASSUME NEW v \in Open, wizard[v].instance = tickets[i].instance
            PROVE  \E q \in Slot : Uploads(request'[q]) /\ request'[q].waits /\ request'[q].tab = v
        <4>1. PICK q \in Slot : Uploads(request[q]) /\ request[q].waits /\ request[q].tab = v
          BY <3>1, <3>3, <1>1 DEF UploadsOnce
        <4> QED BY <4>1, <1>8
      <3> QED BY <3>1, <3>2, <3>3, <1>1
    <2> QED BY <2>2, <2>3 DEF UploadsOnce, Uploads
  <1> QED BY <1>7, <1>9, <1>10, <1>11, <1>12, <1>13, <1>14 DEF Core

\* The fifth kind: the attachment of a ticket arrives.
LEMMA Uploaded ==
    ASSUME Shape, Core, NEW r \in Slot, Uploads(request[r]), request[r].pc = "sent",
           tickets' = [tickets EXCEPT ![request[r].ticket].documents = @ + 1],
           request' = [request EXCEPT ![r].pc = "answer", ![r].res = "ok"],
           scene' = scene, forms' = forms, keys' = keys, wizard' = wizard
    PROVE  /\ Core' /\ request' \in [Slot -> {Idle} \cup RequestRow]
           /\ tickets' \in Seq(TicketRow) /\ DOMAIN tickets' = DOMAIN tickets
           /\ \A i \in DOMAIN tickets : /\ tickets'[i].consumer = tickets[i].consumer
                                        /\ tickets'[i].promoDiscount = tickets[i].promoDiscount
  <1> DEFINE t == request[r].ticket
             new == [request[r] EXCEPT !.pc = "answer", !.res = "ok"]
             row == [tickets[t] EXCEPT !.documents = @ + 1]
  <1>1. /\ FormsApart /\ KeysMatch /\ OneHandler /\ TicketsKnown /\ UploadsOnce /\ FormsSuffice
        /\ Open' = Open /\ request \in [Slot -> {Idle} \cup RequestRow]
        /\ wizard \in [Open -> WizardRow] /\ tickets \in Seq(TicketRow)
        /\ request[r] \in RequestRow /\ request[r].op = "upload"
    BY DEF Core, Shape, Open, Uploads
  <1>2. t \in DOMAIN tickets /\ tickets[t] \in TicketRow /\ tickets[t].documents = 0
    <2>1. t \in DOMAIN tickets /\ tickets[t].documents = 0
      BY <1>1 DEF TicketsKnown, Knows, Uploads, UploadsOnce
    <2> QED BY <2>1, <1>1
  <1>3. /\ row \in TicketRow /\ row.documents = 1 /\ row.instance = tickets[t].instance
        /\ row.key = tickets[t].key /\ row.consumer = tickets[t].consumer
        /\ row.promoDiscount = tickets[t].promoDiscount
    BY <1>2 DEF TicketRow
  <1>4. tickets' = [tickets EXCEPT ![t] = row]
    OBVIOUS
  <1> HIDE DEF row
  <1>5. /\ tickets' \in Seq(TicketRow) /\ DOMAIN tickets' = DOMAIN tickets
        /\ tickets'[t] = row /\ \A i \in DOMAIN tickets \ {t} : tickets'[i] = tickets[i]
    BY <1>1, <1>2, <1>3, <1>4
  <1>6. \A i \in DOMAIN tickets :
          /\ tickets'[i].instance = tickets[i].instance /\ tickets'[i].key = tickets[i].key
          /\ tickets'[i].consumer = tickets[i].consumer
          /\ tickets'[i].promoDiscount = tickets[i].promoDiscount
    BY <1>3, <1>5
  <1>7. new \in RequestRow /\ new # Idle
    <2>1. new \in RequestRow
      BY <1>1 DEF RequestRow
    <2> QED BY <2>1, RequestTypes
  <1>8. /\ new.op = "upload" /\ new.pc = "answer" /\ new.tab = request[r].tab
        /\ new.waits = request[r].waits /\ new.ticket = t
        /\ new.instance = request[r].instance /\ new.key = request[r].key
    BY <1>1 DEF RequestRow
  <1>9. /\ request'[r] = new
        /\ \A q \in Slot \ {r} : request'[q] = request[q]
        /\ request' \in [Slot -> {Idle} \cup RequestRow]
    BY <1>1, <1>7
  <1> HIDE DEF new
  <1>10. \A q \in Slot :
          /\ request'[q] # Idle <=> request[q] # Idle
          /\ request[q] # Idle =>
               /\ request'[q].op = request[q].op /\ request'[q].tab = request[q].tab
               /\ request'[q].waits = request[q].waits /\ request'[q].key = request[q].key
               /\ request'[q].instance = request[q].instance
          /\ Uploads(request'[q]) <=> Uploads(request[q])
          /\ Uploads(request[q]) => request'[q].ticket = request[q].ticket
          /\ Knows(request'[q]) => Knows(request[q]) /\ request'[q].ticket = request[q].ticket
    <2>1. Knows(request[r]) /\ Uploads(new)
      BY <1>1, <1>7, <1>8 DEF Knows, Uploads
    <2>2. /\ request'[r] # Idle /\ request[r] # Idle
          /\ request'[r].op = request[r].op /\ request'[r].tab = request[r].tab
          /\ request'[r].waits = request[r].waits /\ request'[r].key = request[r].key
          /\ request'[r].instance = request[r].instance
          /\ request'[r].ticket = request[r].ticket
          /\ Uploads(request'[r]) /\ Uploads(request[r]) /\ Knows(request[r])
      BY <2>1, <1>1, <1>7, <1>8, <1>9 DEF Uploads
    <2>3. \A q \in Slot : q = r \/ request'[q] = request[q]
      BY <1>9
    <2> QED BY <2>2, <2>3
  <1>11. FormsSuffice'
    <2>1. \A q \in Slot : Resets(request'[q]) <=> Resets(request[q])
      BY <1>10 DEF Resets
    <2>2. Handlers' = Handlers
      BY <2>1 DEF Handlers, Resets
    <2> QED BY <2>2, <1>1 DEF FormsSuffice
  <1>12. FormsApart'
    BY <1>1, <1>5, <1>6, <1>10 DEF FormsApart
  <1>13. KeysMatch'
    <2>1. \A f, k : MintedBy(f, k)' => MintedBy(f, k)
      BY <1>1, <1>5, <1>6, <1>10 DEF MintedBy
    <2> QED BY <2>1, <1>1, <1>5, <1>6 DEF KeysMatch
  <1>14. OneHandler'
    BY <1>1, <1>10 DEF OneHandler, Loads
  <1>15. TicketsKnown'
    <2> SUFFICES ASSUME NEW q \in Slot, Knows(request'[q])
                 PROVE  /\ request'[q].ticket \in DOMAIN tickets'
                        /\ tickets'[request'[q].ticket].key = request'[q].key
      BY DEF TicketsKnown, Knows, Answered
    <2>1. Knows(request[q]) /\ request'[q].ticket = request[q].ticket /\ request[q] # Idle
      BY <1>10 DEF Knows
    <2> QED BY <2>1, <1>1, <1>5, <1>6, <1>10 DEF TicketsKnown
  <1>16. UploadsOnce'
    <2>1. \A q \in Slot : Uploads(request[q]) /\ request[q].ticket = t => q = r
      BY <1>1 DEF UploadsOnce
    <2>2. ASSUME NEW i \in DOMAIN tickets, Spent(i)' PROVE Spent(i)
      <3>1. CASE i = t
        BY <3>1 DEF Spent
      <3>2. CASE i # t
        BY <2>2, <3>2, <1>5, <1>10 DEF Spent
      <3> QED BY <3>1, <3>2
    <2>3. /\ \A i \in DOMAIN tickets' : tickets'[i].documents <= 1
          /\ \A q \in Slot : Uploads(request'[q]) => request'[q].pc \in {"sent", "answer"}
          /\ \A o, q \in Slot : Uploads(request'[o]) /\ Uploads(request'[q])
                                /\ request'[o].ticket = request'[q].ticket => o = q
      BY <1>1, <1>3, <1>5, <1>8, <1>9, <1>10 DEF UploadsOnce
    <2>4. ASSUME NEW q \in Slot, Uploads(request'[q]), request'[q].pc = "sent"
          PROVE  tickets'[request'[q].ticket].documents = 0
      <3>1. q # r /\ request'[q] = request[q] /\ Uploads(request[q])
        BY <2>4, <1>8, <1>9
      <3>2. request[q].ticket # t /\ request[q].ticket \in DOMAIN tickets
        BY <3>1, <2>1, <1>1 DEF TicketsKnown, Knows, Uploads
      <3>3. tickets[request[q].ticket].documents = 0
        BY <2>4, <3>1, <1>1 DEF UploadsOnce
      <3> QED BY <3>1, <3>2, <3>3, <1>5
    <2>5. ASSUME NEW i \in DOMAIN tickets', Spent(i)'
          PROVE  /\ \A q \in Slot : request'[q] # Idle /\ request'[q].waits
                                    /\ request'[q].op = "submit"
                                      => request'[q].instance # tickets'[i].instance
                 /\ \A v \in Open' : wizard'[v].instance = tickets'[i].instance =>
                      \E q \in Slot : /\ Uploads(request'[q]) /\ request'[q].waits
                                      /\ request'[q].tab = v
      <3>1. i \in DOMAIN tickets /\ Spent(i) /\ tickets'[i].instance = tickets[i].instance
        BY <2>2, <2>5, <1>5, <1>6
      <3>2. ASSUME NEW q \in Slot, request'[q] # Idle, request'[q].waits,
                   request'[q].op = "submit"
            PROVE  request'[q].instance # tickets'[i].instance
        BY <3>1, <3>2, <1>1, <1>10 DEF UploadsOnce
      <3>3. ASSUME NEW v \in Open, wizard[v].instance = tickets[i].instance
            PROVE  \E q \in Slot : Uploads(request'[q]) /\ request'[q].waits /\ request'[q].tab = v
        <4>1. PICK q \in Slot : Uploads(request[q]) /\ request[q].waits /\ request[q].tab = v
          BY <3>1, <3>3, <1>1 DEF UploadsOnce
        <4> QED BY <4>1, <1>10 DEF Uploads
      <3> QED BY <3>1, <3>2, <3>3, <1>1
    <2>6. \A q \in Slot : Uploads(request'[q]) /\ request'[q].pc = "sent" =>
            tickets'[request'[q].ticket].documents = 0
      BY <2>4
    <2> HIDE DEF t
    <2> QED BY <2>3, <2>5, <2>6 DEF UploadsOnce, Uploads
  <1> QED BY <1>5, <1>6, <1>9, <1>11, <1>12, <1>13, <1>14, <1>15, <1>16 DEF Core

-----------------------------------------------------------------------------
\* The actions.

\* Steps that do not redeem keep the promo code's counts.
LEMMA PromosKept ==
    ASSUME PromoWithinLimits, DiscountIsCounted, redeemed' = redeemed,
           redeemed \subseteq DOMAIN tickets, DOMAIN tickets' = DOMAIN tickets,
           \A i \in DOMAIN tickets : /\ tickets'[i].consumer = tickets[i].consumer
                                     /\ tickets'[i].promoDiscount = tickets[i].promoDiscount
    PROVE  PromoWithinLimits' /\ DiscountIsCounted'
  <1>1. DiscountIsCounted'
    BY DEF DiscountIsCounted
  <1>2. \A c \in Consumer : {i \in redeemed' : tickets'[i].consumer = c}
                              = {i \in redeemed : tickets[i].consumer = c}
    OBVIOUS
  <1>3. PromoWithinLimits'
    BY <1>2 DEF PromoWithinLimits, usage
  <1> QED BY <1>1, <1>3

\* What a request that is under way has been told is so.
LEMMA ToldBefore == ASSUME TicketsKnown PROVE \A q \in Slot : Told(request[q])
  BY DEF TicketsKnown, Told, Knows

\* A handler that will reset its form finds a number for it.
LEMMA RoomToReset ==
    ASSUME Shape, FormsSuffice, NEW r \in Slot, Resets(request[r])
    PROVE  /\ forms + 1 \in Form /\ IsFiniteSet(Handlers)
           /\ forms + 1 + Cardinality(Handlers \ {r}) <= scene.forms
  <1>1. Handlers \in SUBSET Slot /\ r \in Handlers
    BY DEF Handlers
  <1>2. IsFiniteSet(Handlers)
    BY <1>1, Limits, FS_Subset
  <1>3. IsFiniteSet(Handlers \ {r}) /\ Cardinality(Handlers \ {r}) = Cardinality(Handlers) - 1
    BY <1>1, <1>2, FS_RemoveElement
  <1>4. Cardinality(Handlers) \in Nat /\ Cardinality(Handlers \ {r}) \in Nat
    BY <1>2, <1>3, FS_CardinalityType
  <1>5. scene.forms \in 1..FormLimit /\ FormLimit \in Nat /\ forms \in 0..FormLimit
    BY SceneTypes, Limits DEF Shape
  <1> QED BY <1>2, <1>3, <1>4, <1>5 DEF FormsSuffice, Form

\* Steps that leave the requests and the identity of the forms alone.
LEMMA Kept ==
    ASSUME NInv, scene' = scene, keys' = keys, forms' = forms, request' = request,
           wizard' \in [Open -> WizardRow],
           \A v \in Open : /\ wizard'[v].instance = wizard[v].instance
                           /\ wizard'[v].key = wizard[v].key
                           /\ wizard'[v].loading = wizard[v].loading,
           tickets' \in Seq(TicketRow), SameTickets,
           \A i \in DOMAIN tickets : /\ tickets'[i].consumer = tickets[i].consumer
                                     /\ tickets'[i].promoDiscount = tickets[i].promoDiscount,
           redeemed' = redeemed, drafts' \in [Consumer -> DraftRow],
           promo' \in {"absent", "early", "open", "ended"}
    PROVE  NInv'
  <1>1. Shape /\ Core /\ FormsApart /\ TicketsKnown /\ DOMAIN tickets' = DOMAIN tickets
    BY DEF NInv, Core, SameTickets
  <1>2. Shape'
    BY <1>1 DEF Shape, Open
  <1>3. FormsSuffice'
    BY <1>1 DEF Core, FormsSuffice, Handlers
  <1>4. /\ \A q \in Slot : Follows(request[q], request'[q])
        /\ \A q \in Slot : StillHeard(request[q], request'[q])
        /\ \A q \in Slot : Told(request'[q])
        /\ \A q \in Slot : Loads(request'[q]) =>
              wizard'[request'[q].tab].loading = wizard[request'[q].tab].loading
        /\ request' \in [Slot -> {Idle} \cup RequestRow]
    BY <1>1, ToldBefore DEF Follows, StillHeard, Loads, FormsApart, Shape
  <1>5. Core'
    BY <1>1, <1>3, <1>4, GoesOn, {} \in SUBSET Open
  <1>6. PromoWithinLimits' /\ DiscountIsCounted'
    BY <1>1, PromosKept DEF NInv, Shape
  <1> QED BY <1>2, <1>5, <1>6 DEF NInv

\* A step of the server on a request, and on the drafts.
LEMMA Served ==
    ASSUME NInv, NEW r \in Slot, request[r] # Idle, NEW b \in RequestRow,
           request' = [request EXCEPT ![r] = b],
           b.op = request[r].op, b.tab = request[r].tab, b.waits = request[r].waits,
           b.instance = request[r].instance, b.key = request[r].key,
           b.op = "upload" => b.ticket = request[r].ticket /\ b.pc = "answer",
           Told(b), UNCHANGED client, tickets' = tickets, redeemed' = redeemed, promo' = promo,
           drafts' \in [Consumer -> DraftRow]
    PROVE  NInv'
  <1>1. /\ Shape /\ Core /\ FormsSuffice /\ TicketsKnown /\ b # Idle
        /\ request \in [Slot -> {Idle} \cup RequestRow]
        /\ scene' = scene /\ wizard' = wizard /\ forms' = forms /\ keys' = keys
    BY RequestTypes DEF NInv, Core, Shape, client
  <1>2. /\ request'[r] = b /\ \A q \in Slot \ {r} : request'[q] = request[q]
        /\ request' \in [Slot -> {Idle} \cup RequestRow]
    BY <1>1
  <1>3. Shape'
    BY <1>1, <1>2 DEF Shape, Open
  <1>4. /\ Follows(request[r], b) /\ StillHeard(request[r], b)
        /\ Resets(b) <=> Resets(request[r])
    BY <1>1 DEF Follows, StillHeard, Uploads, Resets
  <1>5. \A q \in Slot : /\ Follows(request[q], request'[q])
                        /\ StillHeard(request[q], request'[q])
                        /\ Told(request'[q])
    <2>1. \A q \in Slot : Told(request[q]) /\ Follows(request[q], request[q])
                          /\ StillHeard(request[q], request[q])
      BY <1>1, ToldBefore DEF Follows, StillHeard
    <2> QED BY <2>1, <1>2, <1>4
  <1>6. FormsSuffice'
    <2>1. \A q \in Slot : Resets(request'[q]) <=> Resets(request[q])
      BY <1>2, <1>4
    <2>2. Handlers' = Handlers
      BY <2>1 DEF Handlers, Resets
    <2> QED BY <2>2, <1>1 DEF FormsSuffice
  <1>7. Core'
    BY <1>1, <1>2, <1>5, <1>6, GoesOn, {} \in SUBSET Open DEF SameTickets
  <1>8. PromoWithinLimits' /\ DiscountIsCounted'
    BY <1>1, PromosKept DEF NInv, Shape
  <1> QED BY <1>3, <1>7, <1>8 DEF NInv

\* A request that its browser has given up is the same but for that.
LEMMA GivenUp ==
    ASSUME NEW q \in RequestRow
    PROVE  LET b == [q EXCEPT !.waits = FALSE]
           IN  /\ b \in RequestRow /\ b # Idle /\ ~b.waits
               /\ b.op = q.op /\ b.tab = q.tab /\ b.instance = q.instance /\ b.key = q.key
               /\ b.ticket = q.ticket /\ b.pc = q.pc /\ b.res = q.res
  <1> DEFINE b == [q EXCEPT !.waits = FALSE]
  <1>1. b \in RequestRow
    BY DEF RequestRow
  <1>2. b # Idle
    BY <1>1, RequestTypes
  <1>3. ~b.waits
    BY DEF RequestRow
  <1>4. /\ b.op = q.op /\ b.tab = q.tab /\ b.instance = q.instance /\ b.key = q.key
        /\ b.ticket = q.ticket /\ b.pc = q.pc /\ b.res = q.res
    OBVIOUS
  <1> QED BY <1>1, <1>2, <1>3, <1>4

\* A request whose browser gets the answer, or gives it up; its tab may get a new form.
LEMMA Heeded ==
    ASSUME NInv, NEW r \in Slot, request[r] # Idle, request[r].waits, Succeeds(r) \/ Fails(r),
           scene' = scene, keys' = keys, UNCHANGED server,
           NEW new \in SUBSET {request[r].tab},
           new # {} => Resets(request[r]), Uploads(request[r]) => new # {},
           forms' = IF new = {} THEN forms ELSE forms + 1,
           wizard' \in [Open -> WizardRow],
           \A v \in Open : /\ v \in new => wizard'[v].instance = forms + 1 /\ wizard'[v].key = 0
                           /\ v \notin new => /\ wizard'[v].instance = wizard[v].instance
                                              /\ wizard'[v].key = wizard[v].key
                           /\ \/ wizard'[v].loading = wizard[v].loading
                              \/ v = request[r].tab /\ Loads(request[r])
    PROVE  NInv'
  <1> DEFINE b == request'[r]
  <1>1. /\ Shape /\ Core /\ FormsSuffice /\ TicketsKnown /\ FormsApart /\ OneHandler
        /\ request \in [Slot -> {Idle} \cup RequestRow] /\ request[r] \in RequestRow
        /\ drafts' = drafts /\ tickets' = tickets /\ redeemed' = redeemed /\ promo' = promo
        /\ request[r].tab \in Open
    BY DEF NInv, Core, Shape, server, FormsApart
  <1>2. /\ b = Idle \/ b = [request[r] EXCEPT !.waits = FALSE]
        /\ \A q \in Slot \ {r} : request'[q] = request[q]
        /\ request' \in [Slot -> {Idle} \cup RequestRow]
    <2>1. [request[r] EXCEPT !.waits = FALSE] \in RequestRow
      BY <1>1 DEF RequestRow
    <2>2. \/ request' = [request EXCEPT ![r] = Idle]
          \/ request' = [request EXCEPT ![r] = [request[r] EXCEPT !.waits = FALSE]]
      BY DEF Succeeds, Fails
    <2> QED BY <2>1, <2>2, <1>1
  <1>3. /\ Follows(request[r], b) /\ ~Resets(b) /\ ~Loads(b)
        /\ b # Idle => /\ b.ticket = request[r].ticket /\ b.key = request[r].key
                       /\ b.op = request[r].op /\ b.pc = request[r].pc /\ b.res = request[r].res
    <2>1. CASE b = Idle
      BY <2>1, RequestTypes DEF Follows
    <2>2. CASE b = [request[r] EXCEPT !.waits = FALSE]
      <3>1. /\ ~b.waits /\ b.op = request[r].op /\ b.tab = request[r].tab
            /\ b.instance = request[r].instance /\ b.key = request[r].key
            /\ b.ticket = request[r].ticket /\ b.pc = request[r].pc /\ b.res = request[r].res
            /\ b # Idle
        BY <2>2, <1>1, GivenUp
      <3> HIDE DEF b
      <3> QED BY <3>1 DEF Follows, Resets, Loads
    <2> QED BY <2>1, <2>2, <1>2
  <1>4. Shape'
    <2>1. CASE new = {}
      BY <2>1, <1>1, <1>2 DEF Shape, Open
    <2>2. CASE new # {}
      <3>1. forms + 1 \in 1..FormLimit
        BY <2>2, <1>1, RoomToReset DEF Form
      <3>2. forms' \in 0..FormLimit
        BY <2>2, <3>1, Limits
      <3> QED BY <3>2, <1>1, <1>2 DEF Shape, Open
    <2> QED BY <2>1, <2>2
  <1>5. \A q \in Slot : Told(request'[q])
    <2>1. \A q \in Slot : Told(request[q])
      BY <1>1, ToldBefore
    <2>2. Told(b)
      BY <2>1, <1>3 DEF Told, Answered
    <2> QED BY <2>1, <2>2, <1>2
  <1>6. FormsSuffice'
    <2>1. \A q \in Slot : Resets(request'[q]) <=> (Resets(request[q]) /\ q # r)
      BY <1>2, <1>3
    <2>2. Handlers' = Handlers \ {r}
      BY <2>1 DEF Handlers, Resets
    <2>3. CASE new = {}
      <3>1. IsFiniteSet(Handlers) /\ Cardinality(Handlers) \in Nat
        <4>1. Handlers \in SUBSET Slot
          BY DEF Handlers
        <4> QED BY <4>1, Limits, FS_Subset, FS_CardinalityType
      <3>2. Handlers \ {r} \in SUBSET Handlers
        OBVIOUS
      <3>3. Cardinality(Handlers \ {r}) <= Cardinality(Handlers)
            /\ Cardinality(Handlers \ {r}) \in Nat
        BY <3>1, <3>2, FS_Subset, FS_CardinalityType
      <3>4. forms \in Nat /\ scene.forms \in Nat
        BY <1>1, SceneTypes, Limits DEF Shape
      <3> QED BY <2>2, <2>3, <3>1, <3>3, <3>4, <1>1 DEF FormsSuffice
    <2>4. CASE new # {}
      BY <2>2, <2>4, <1>1, RoomToReset DEF FormsSuffice
    <2> QED BY <2>3, <2>4
  <1>7. \A q \in Slot : \/ StillHeard(request[q], request'[q])
                        \/ request[q] # Idle /\ request[q].tab \in new
    <2>1. \A q \in Slot \ {r} : StillHeard(request[q], request'[q])
      BY <1>2 DEF StillHeard
    <2>2. Uploads(request[r]) => request[r].tab \in new
      OBVIOUS
    <2>3. ~Uploads(request[r]) => StillHeard(request[r], request'[r])
      BY DEF StillHeard
    <2> QED BY <2>1, <2>2, <2>3
  <1>8. \A q \in Slot : Loads(request'[q]) =>
          wizard'[request'[q].tab].loading = wizard[request'[q].tab].loading
    <2> SUFFICES ASSUME NEW q \in Slot, Loads(request'[q])
                 PROVE  wizard'[request'[q].tab].loading = wizard[request'[q].tab].loading
      OBVIOUS
    <2>1. q # r /\ request'[q] = request[q] /\ request[q].tab \in Open
      BY <1>1, <1>2, <1>3 DEF FormsApart, Loads
    <2>2. CASE request[q].tab = request[r].tab /\ Loads(request[r])
      BY <2>1, <2>2, <1>1 DEF OneHandler
    <2>3. CASE ~(request[q].tab = request[r].tab /\ Loads(request[r]))
      BY <2>1, <2>3
    <2> QED BY <2>2, <2>3
  <1>9. Core'
    <2>1. new \in SUBSET Open /\ (\A v, w \in new : v = w) /\ SameTickets
      BY <1>1 DEF SameTickets
    <2>2. \A q \in Slot : Follows(request[q], request'[q])
      BY <1>2, <1>3 DEF Follows
    <2> QED BY <2>1, <2>2, <1>1, <1>2, <1>5, <1>6, <1>7, <1>8, GoesOn
  <1>10. PromoWithinLimits' /\ DiscountIsCounted'
    BY <1>1, PromosKept DEF NInv, Shape
  <1> QED BY <1>4, <1>9, <1>10 DEF NInv

-----------------------------------------------------------------------------
\* The first state.

LEMMA InitialInv == IntakeInit => NInv
  <1> SUFFICES ASSUME IntakeInit PROVE NInv
    OBVIOUS
  <1>1. /\ scene \in Scenes /\ forms = Cardinality(Open) /\ request = [r \in Slot |-> Idle]
        /\ keys = 0 /\ drafts = [c \in Consumer |-> NoDraft] /\ tickets = <<>> /\ redeemed = {}
        /\ promo = "absent"
    BY DEF IntakeInit
  <1>2. PICK number \in Bijection(Open, 1..Cardinality(Open)) :
          wizard = [w \in Open |-> BlankForm(number[w])]
    BY DEF IntakeInit
  <1>3. /\ number \in [Open -> 1..Cardinality(Open)]
        /\ \A v, w \in Open : number[v] = number[w] => v = w
    BY DEF Bijection, Injection, IsInjective
  <1>4. /\ forms \in Nat /\ forms <= scene.forms /\ scene.forms \in 1..FormLimit
        /\ FormLimit \in Nat /\ KeyLimit \in Nat
    BY <1>1, SceneTypes, Limits
  <1>5. \A w \in Open : number[w] \in Form /\ number[w] <= forms
    BY <1>1, <1>3, <1>4 DEF Form
  <1>6. \A w \in Open : /\ wizard[w] \in WizardRow /\ wizard[w].instance = number[w]
                        /\ wizard[w].key = 0 /\ wizard[w].loading = FALSE
    BY <1>2, <1>5, WizardTypes
  <1>7. \A r \in Slot : request[r] = Idle /\ ~Resets(request[r]) /\ ~Loads(request[r])
                        /\ ~Knows(request[r]) /\ ~Uploads(request[r])
    BY <1>1 DEF Resets, Loads, Knows, Uploads
  <1>8. DOMAIN tickets = {}
    BY <1>1
  <1>9. Shape
    <2>1. NoDraft \in DraftRow
      BY <1>4 DEF NoDraft, DraftRow
    <2>2. wizard \in [Open -> WizardRow]
      BY <1>2, <1>6
    <2>3. tickets \in Seq(TicketRow)
      BY <1>1
    <2> QED BY <2>1, <2>2, <2>3, <1>1, <1>4, <1>8 DEF Shape
  <1>10. FormsSuffice
    <2>1. Handlers = {}
      BY <1>7 DEF Handlers
    <2>2. Cardinality(Handlers) = 0
      BY <2>1, FS_EmptySet
    <2> QED BY <2>2, <1>4 DEF FormsSuffice
  <1>11. FormsApart
    BY <1>3, <1>5, <1>6, <1>7, <1>8 DEF FormsApart
  <1>12. KeysMatch
    <2>1. \A f, k : ~MintedBy(f, k)
      BY <1>6, <1>7, <1>8 DEF MintedBy
    <2> QED BY <2>1, <1>8 DEF KeysMatch
  <1>13. OneHandler /\ TicketsKnown /\ UploadsOnce
    BY <1>7, <1>8 DEF OneHandler, TicketsKnown, UploadsOnce
  <1>14. PromoWithinLimits
    <2>1. Cardinality(redeemed) = 0
      BY <1>1, FS_EmptySet
    <2>2. ASSUME NEW c \in Consumer PROVE usage(c) = 0
      <3>1. {i \in redeemed : tickets[i].consumer = c} = {}
        BY <1>1
      <3> QED BY <3>1, FS_EmptySet DEF usage
    <2> QED BY <2>1, <2>2, Limits DEF PromoWithinLimits
  <1>15. DiscountIsCounted
    BY <1>1, <1>8 DEF DiscountIsCounted
  <1> QED BY <1>9, <1>10, <1>11, <1>12, <1>13, <1>14, <1>15 DEF NInv, Core

-----------------------------------------------------------------------------
\* The browser.

\* Every column of a wizard but its identity may change.
LEMMA EditKeeps == ASSUME NInv, NEW w \in Open, Edit(w) PROVE NInv'
  <1>1. PICK o \in scene.options :
          wizard' = [wizard EXCEPT ![w].asks = o, ![w].timer = canAutosaveDraft(w)]
    BY DEF Edit
  <1>2. /\ Shape /\ wizard \in [Open -> WizardRow] /\ wizard[w] \in WizardRow
        /\ scene' = scene /\ keys' = keys /\ forms' = forms /\ request' = request
        /\ drafts' = drafts /\ tickets' = tickets /\ redeemed' = redeemed /\ promo' = promo
        /\ drafts \in [Consumer -> DraftRow] /\ tickets \in Seq(TicketRow)
        /\ promo \in {"absent", "early", "open", "ended"}
    BY DEF Edit, server, NInv, Shape
  <1>3. o \in Options /\ canAutosaveDraft(w) \in BOOLEAN
    BY <1>2, SceneTypes DEF Shape, canAutosaveDraft, WizardRow
  <1>4. /\ wizard' \in [Open -> WizardRow]
        /\ \A v \in Open : /\ wizard'[v].instance = wizard[v].instance
                           /\ wizard'[v].key = wizard[v].key
                           /\ wizard'[v].loading = wizard[v].loading
    BY <1>1, <1>2, <1>3 DEF WizardRow
  <1> QED BY <1>2, <1>4, Kept DEF SameTickets

\* A handler of tab w sends a request.
LEMMA Posts ==
    ASSUME NInv, NEW w \in Open, NEW r \in Slot, NEW op \in Operation \ {"upload"},
           NEW key \in Key, NEW loading \in BOOLEAN,
           Send(r, w, op, key), scene' = scene, forms' = forms, UNCHANGED server,
           wizard' \in [Open -> WizardRow], keys' \in 0..KeyLimit,
           \A v \in Open \ {w} : wizard'[v] = wizard[v],
           wizard'[w].instance = wizard[w].instance, wizard'[w].loading = loading,
           op \in {"submit", "manual"} => ~wizard[w].loading /\ loading,
           wizard[w].loading => loading,
           op \in {"submit", "manual", "discard"} => Room,
           \/ /\ op # "submit" /\ keys' = keys /\ wizard'[w].key = wizard[w].key
           \/ /\ op = "submit" /\ keys' = keys /\ wizard'[w].key = key
              /\ wizard[w].key # 0 /\ key = wizard[w].key
           \/ /\ op = "submit" /\ keys' = keys + 1 /\ wizard'[w].key = key
              /\ wizard[w].key = 0 /\ key = keys + 1
    PROVE  NInv'
  <1>1. /\ Shape /\ Core /\ request[r] = Idle
        /\ request' = [request EXCEPT ![r] = Posted(w, op, key)]
        /\ drafts' = drafts /\ tickets' = tickets /\ redeemed' = redeemed /\ promo' = promo
    BY DEF NInv, Send, Busy, Posted, server
  <1>2. op \in {"submit", "manual", "discard"} =>
             forms + Cardinality(Handlers) < scene.forms
    <2>1. {q \in Slot : Busy(q) /\ request[q].waits
                        /\ request[q].op \in {"submit", "manual", "discard", "upload"}}
            = Handlers
      BY DEF Handlers, Busy, Resets
    <2> QED BY <2>1 DEF Room
  <1>3. Core'
    BY <1>1, <1>2, Sends
  <1>4. Shape'
    BY <1>1, PostedType DEF Shape, Open
  <1>5. PromoWithinLimits' /\ DiscountIsCounted'
    BY <1>1, PromosKept DEF NInv, Shape
  <1> QED BY <1>3, <1>4, <1>5 DEF NInv

LEMMA TimerKeeps == ASSUME NInv, NEW w \in Open, AutosaveTimer(w) PROVE NInv'
  <1>1. /\ Shape /\ wizard \in [Open -> WizardRow] /\ wizard[w] \in WizardRow
        /\ wizard' = [wizard EXCEPT ![w].timer = FALSE]
        /\ scene' = scene /\ keys' = keys /\ forms' = forms /\ UNCHANGED server
        /\ drafts' = drafts /\ tickets' = tickets /\ redeemed' = redeemed /\ promo' = promo
        /\ drafts \in [Consumer -> DraftRow] /\ tickets \in Seq(TicketRow)
        /\ promo \in {"absent", "early", "open", "ended"} /\ keys \in 0..KeyLimit
    BY DEF AutosaveTimer, server, NInv, Shape
  <1>2. /\ wizard' \in [Open -> WizardRow]
        /\ \A v \in Open : /\ wizard'[v].instance = wizard[v].instance
                           /\ wizard'[v].key = wizard[v].key
                           /\ wizard'[v].loading = wizard[v].loading
        /\ \A v \in Open \ {w} : wizard'[v] = wizard[v]
    BY <1>1 DEF WizardRow
  <1>3. CASE wizard[w].guard
    <2>1. request' = request
      BY <1>3 DEF AutosaveTimer
    <2> QED BY <2>1, <1>1, <1>2, Kept DEF SameTickets
  <1>4. CASE ~wizard[w].guard
    <2>1. PICK r \in Slot : Send(r, w, "auto", 0)
      BY <1>4 DEF AutosaveTimer
    <2>2. "auto" \in Operation \ {"upload"} /\ 0 \in Key /\ wizard[w].loading \in BOOLEAN
      BY <1>1, Limits DEF Operation, Key, WizardRow
    <2> QED BY <2>1, <2>2, <1>1, <1>2, Posts
  <1> QED BY <1>3, <1>4

LEMMA SaveKeeps == ASSUME NInv, NEW w \in Open, SaveDraft(w) PROVE NInv'
  <1>1. /\ Shape /\ wizard \in [Open -> WizardRow] /\ wizard[w] \in WizardRow
        /\ wizard' = [wizard EXCEPT ![w].loading = TRUE] /\ ~wizard[w].loading /\ Room
        /\ scene' = scene /\ keys' = keys /\ forms' = forms /\ UNCHANGED server
        /\ keys \in 0..KeyLimit
    BY DEF SaveDraft, NInv, Shape
  <1>2. PICK r \in Slot : Send(r, w, "manual", 0)
    BY DEF SaveDraft
  <1>3. /\ wizard' \in [Open -> WizardRow] /\ wizard'[w].loading = TRUE
        /\ wizard'[w].instance = wizard[w].instance /\ wizard'[w].key = wizard[w].key
        /\ \A v \in Open \ {w} : wizard'[v] = wizard[v]
    BY <1>1 DEF WizardRow
  <1>4. "manual" \in Operation \ {"upload"} /\ 0 \in Key /\ TRUE \in BOOLEAN
    BY Limits DEF Operation, Key
  <1> QED BY <1>1, <1>2, <1>3, <1>4, Posts

LEMMA SubmitKeeps == ASSUME NInv, NEW w \in Open, SubmitTicket(w) PROVE NInv'
  <1> DEFINE key == IF wizard[w].key = 0 THEN keys + 1 ELSE wizard[w].key
  <1>1. /\ Shape /\ wizard \in [Open -> WizardRow] /\ wizard[w] \in WizardRow
        /\ wizard' = [wizard EXCEPT ![w].guard = TRUE, ![w].timer = FALSE,
                                    ![w].key = key, ![w].loading = TRUE]
        /\ ~wizard[w].loading /\ Room /\ key <= scene.keys
        /\ keys' = IF wizard[w].key = 0 THEN keys + 1 ELSE keys
        /\ scene' = scene /\ forms' = forms /\ UNCHANGED server
        /\ keys \in 0..KeyLimit
    BY DEF SubmitTicket, NInv, Shape
  <1>2. PICK r \in Slot : Send(r, w, "submit", key)
    BY DEF SubmitTicket
  <1>3. key \in Key /\ keys' \in 0..KeyLimit /\ wizard[w].key \in Nat
    <2>1. /\ wizard[w].key \in 0..KeyLimit /\ KeyLimit \in Nat /\ scene.keys \in 1..KeyLimit
      BY <1>1, SceneTypes, Limits DEF Shape, WizardRow
    <2> QED BY <2>1, <1>1 DEF Key
  <1>4. "submit" \in Operation \ {"upload"} /\ TRUE \in BOOLEAN
    BY DEF Operation
  <1>5. \/ keys' = keys /\ wizard[w].key # 0 /\ key = wizard[w].key
        \/ keys' = keys + 1 /\ wizard[w].key = 0 /\ key = keys + 1
    BY <1>1
  <1> HIDE DEF key
  <1>6. /\ wizard' \in [Open -> WizardRow] /\ wizard'[w].loading = TRUE
        /\ wizard'[w].instance = wizard[w].instance /\ wizard'[w].key = key
        /\ \A v \in Open \ {w} : wizard'[v] = wizard[v]
    BY <1>1, <1>3 DEF WizardRow, Key
  <1> QED BY <1>1, <1>2, <1>3, <1>4, <1>5, <1>6, Posts

LEMMA FreshKeeps == ASSUME NInv, NEW w \in Open, StartFresh(w) PROVE NInv'
  <1>1. /\ Shape /\ wizard \in [Open -> WizardRow] /\ wizard[w] \in WizardRow
        /\ wizard' = [wizard EXCEPT ![w].guard = TRUE, ![w].timer = FALSE] /\ Room
        /\ scene' = scene /\ keys' = keys /\ forms' = forms /\ UNCHANGED server
        /\ keys \in 0..KeyLimit
    BY DEF StartFresh, NInv, Shape
  <1>2. PICK r \in Slot : Send(r, w, "discard", 0)
    BY DEF StartFresh
  <1>3. /\ wizard' \in [Open -> WizardRow] /\ wizard'[w].loading = wizard[w].loading
        /\ wizard'[w].instance = wizard[w].instance /\ wizard'[w].key = wizard[w].key
        /\ \A v \in Open \ {w} : wizard'[v] = wizard[v]
    BY <1>1 DEF WizardRow
  <1>4. "discard" \in Operation \ {"upload"} /\ 0 \in Key /\ wizard[w].loading \in BOOLEAN
    BY <1>1, Limits DEF Operation, Key, WizardRow
  <1> QED BY <1>1, <1>2, <1>3, <1>4, Posts

\* The new page has a new form, and asks for the draft; nobody listens to the tab's
\* other requests any more.
LEMMA ReloadKeeps == ASSUME NInv, NEW w \in Open, Reload(w) PROVE NInv'
  <1> DEFINE ask == [op |-> "resume", pc |-> "sent", res |-> "none", tab |-> w,
                     waits |-> TRUE, instance |-> forms + 1, form |-> forms + 1,
                     asks |-> Blank, key |-> 0, unpriced |-> FALSE, row |-> NoDraft,
                     ticket |-> 0]
             given(q) == [request[q] EXCEPT !.waits = FALSE]
  <1>1. /\ Shape /\ Core /\ FormsSuffice /\ FormsApart /\ TicketsKnown
        /\ wizard \in [Open -> WizardRow] /\ request \in [Slot -> {Idle} \cup RequestRow]
        /\ wizard' = [wizard EXCEPT ![w] = BlankForm(forms + 1)] /\ Room /\ forms' = forms + 1
        /\ scene' = scene /\ keys' = keys
        /\ drafts' = drafts /\ tickets' = tickets /\ redeemed' = redeemed /\ promo' = promo
    BY DEF Reload, NInv, Core, Shape, server
  <1>2. PICK r \in Slot :
          /\ request[r] = Idle
          /\ request' = [q \in Slot |-> IF q = r THEN ask
                                        ELSE IF request[q] # Idle /\ request[q].tab = w
                                             THEN given(q) ELSE request[q]]
    BY DEF Reload, Busy
  <1>3. {q \in Slot : Busy(q) /\ request[q].waits
                      /\ request[q].op \in {"submit", "manual", "discard", "upload"}}
          = Handlers
    BY DEF Handlers, Busy, Resets
  <1>4. /\ IsFiniteSet(Handlers) /\ Cardinality(Handlers) \in Nat
        /\ forms \in Nat /\ scene.forms \in 1..FormLimit /\ FormLimit \in Nat
    <2>1. Handlers \in SUBSET Slot
      BY DEF Handlers
    <2> QED BY <2>1, <1>1, SceneTypes, Limits, FS_Subset, FS_CardinalityType DEF Shape
  <1>5. forms + Cardinality(Handlers) < scene.forms /\ forms + 1 \in Form
    <2>1. forms + Cardinality(Handlers) < scene.forms
      BY <1>1, <1>3, Zenon DEF Room
    <2> QED BY <2>1, <1>4 DEF Form
  <1>6. /\ ask \in RequestRow /\ ask # Idle /\ ask.op = "resume" /\ ask.tab = w
        /\ ask.instance = forms + 1 /\ ~Resets(ask) /\ ~Loads(ask) /\ ~Answered(ask)
    <2>1. w \in Tab /\ NoDraft \in DraftRow /\ Blank \in Options /\ KeyLimit \in Nat
      BY <1>1, SceneTypes, Limits DEF Shape, NoDraft, DraftRow, Blank, Options
    <2>2. ask \in RequestRow
      BY <2>1, <1>5 DEF RequestRow, Operation, Form
    <2>3. ask.op = "resume" /\ ask.tab = w /\ ask.instance = forms + 1
      OBVIOUS
    <2> HIDE DEF ask
    <2> QED BY <2>2, <2>3, RequestTypes DEF Resets, Loads, Answered
  <1>7. ASSUME NEW q \in Slot \ {r}, request[q] # Idle, request[q].tab = w
        PROVE  LET b == given(q)
               IN  /\ b \in RequestRow /\ b # Idle /\ ~b.waits /\ b.op = request[q].op
                   /\ b.tab = request[q].tab /\ b.instance = request[q].instance
                   /\ b.key = request[q].key /\ b.ticket = request[q].ticket
                   /\ b.pc = request[q].pc /\ b.res = request[q].res
    BY <1>1, <1>7, GivenUp
  <1> HIDE DEF ask, given
  <1>8. /\ request'[r] = ask
        /\ \A q \in Slot \ {r} : request'[q] = IF request[q] # Idle /\ request[q].tab = w
                                               THEN given(q) ELSE request[q]
        /\ request' \in [Slot -> {Idle} \cup RequestRow]
    BY <1>1, <1>2, <1>6, <1>7
  <1>9. /\ wizard' \in [Open -> WizardRow] /\ wizard'[w].instance = forms + 1
        /\ wizard'[w].key = 0 /\ \A v \in Open \ {w} : wizard'[v] = wizard[v]
    BY <1>1, <1>5, WizardTypes
  <1>10. Shape'
    <2>1. forms' \in 0..FormLimit
      BY <1>1, <1>4, <1>5 DEF Form
    <2> QED BY <2>1, <1>1, <1>8, <1>9 DEF Shape, Open
  <1>11. ASSUME NEW q \in Slot \ {r}
         PROVE  /\ Follows(request[q], request'[q]) /\ Told(request'[q])
                /\ StillHeard(request[q], request'[q]) \/ (request[q] # Idle /\ request[q].tab = w)
                /\ Resets(request'[q]) => Resets(request[q])
                /\ Loads(request'[q]) => request'[q] = request[q] /\ request[q].tab # w
    <2>1. Told(request[q])
      BY <1>1, ToldBefore
    <2>2. CASE request[q] # Idle /\ request[q].tab = w
      <3> DEFINE b == request'[q]
      <3>1. /\ b \in RequestRow /\ b # Idle /\ ~b.waits /\ b.op = request[q].op
            /\ b.tab = request[q].tab /\ b.instance = request[q].instance
            /\ b.key = request[q].key /\ b.ticket = request[q].ticket
            /\ b.pc = request[q].pc /\ b.res = request[q].res
        BY <2>2, <1>7, <1>8
      <3> HIDE DEF b
      <3>2. Follows(request[q], b) /\ ~Resets(b) /\ ~Loads(b)
        BY <3>1, <2>2 DEF Follows, Resets, Loads
      <3>3. Told(b)
        BY <3>1, <2>1, <2>2 DEF Told, Answered
      <3> QED BY <3>2, <3>3, <2>2 DEF b
    <2>3. CASE ~(request[q] # Idle /\ request[q].tab = w)
      <3>1. request'[q] = request[q]
        BY <2>3, <1>8
      <3> QED BY <3>1, <2>1, <2>3 DEF Follows, StillHeard, Loads
    <2> QED BY <2>2, <2>3
  <1>12. FormsSuffice'
    <2>1. Handlers' \in SUBSET Handlers
      BY <1>6, <1>8, <1>11 DEF Handlers, Resets
    <2>2. Cardinality(Handlers') <= Cardinality(Handlers) /\ Cardinality(Handlers') \in Nat
      BY <2>1, <1>4, FS_Subset, FS_CardinalityType
    <2> QED BY <2>2, <1>1, <1>4, <1>5 DEF FormsSuffice
  <1>13. Core'
    <2>1. /\ {w} \in SUBSET Open /\ SameTickets
          /\ \A v \in Open :
               /\ v \in {w} => wizard'[v].instance = forms + 1 /\ wizard'[v].key = 0
               /\ v \notin {w} => /\ wizard'[v].instance = wizard[v].instance
                                  /\ wizard'[v].key = wizard[v].key
      BY <1>1, <1>9 DEF SameTickets
    <2>2. /\ Told(ask) /\ StillHeard(request[r], request'[r])
          /\ request[r] = Idle /\ request'[r] # Idle /\ request'[r].op = "resume"
          /\ request'[r].tab \in {w} /\ request'[r].instance = forms + 1
      BY <1>2, <1>6, <1>8 DEF Told, StillHeard, Uploads
    <2>3. \A q \in Slot :
            \/ Follows(request[q], request'[q])
            \/ /\ request[q] = Idle /\ request'[q] # Idle /\ request'[q].op = "resume"
               /\ request'[q].tab \in {w} /\ request'[q].instance = forms + 1
      BY <2>2, <1>11
    <2>4. \A q \in Slot : /\ Told(request'[q])
                          /\ \/ StillHeard(request[q], request'[q])
                             \/ request[q] # Idle /\ request[q].tab \in {w}
      BY <2>2, <1>8, <1>11
    <2>5. ASSUME NEW q \in Slot, Loads(request'[q])
          PROVE  wizard'[request'[q].tab].loading = wizard[request'[q].tab].loading
      <3>1. q # r
        BY <2>5, <1>6, <1>8
      <3>2. request[q] # Idle /\ request'[q] = request[q] /\ request[q].tab # w
        BY <3>1, <2>5, <1>11 DEF Loads
      <3>3. request[q].tab \in Open
        BY <3>2, <1>1 DEF FormsApart
      <3> QED BY <3>2, <3>3, <1>9
    <2> QED BY <2>1, <2>3, <2>4, <2>5, <1>1, <1>8, <1>12, GoesOn
  <1>14. PromoWithinLimits' /\ DiscountIsCounted'
    BY <1>1, PromosKept DEF NInv, Shape
  <1> QED BY <1>10, <1>13, <1>14 DEF NInv

-----------------------------------------------------------------------------
\* The server.

\* A request that is at work, and the state around it.
LEMMA Working ==
    ASSUME NInv, NEW r \in Slot, Busy(r)
    PROVE  /\ Shape /\ Core /\ TicketsKnown /\ request[r] # Idle /\ request[r] \in RequestRow
           /\ request \in [Slot -> {Idle} \cup RequestRow]
           /\ request[r].tab \in Open /\ Consumes(r) \in Consumer
           /\ drafts \in [Consumer -> DraftRow]
  <1>1. /\ Shape /\ Core /\ TicketsKnown /\ FormsApart /\ request[r] # Idle
        /\ request \in [Slot -> {Idle} \cup RequestRow] /\ drafts \in [Consumer -> DraftRow]
    BY DEF NInv, Core, Shape, Busy
  <1>2. request[r].tab \in Open
    BY <1>1 DEF FormsApart
  <1>3. Consumes(r) \in Consumer
    BY <1>1, <1>2, SceneTypes DEF Consumes, Shape
  <1> QED BY <1>1, <1>2, <1>3

\* An answer without anything new, and a step to the next statement.
LEMMA AnswerKeeps ==
    ASSUME NInv, NEW r \in Slot, Busy(r), NEW res \in {"ok", "suppressed", "error"},
           Answer(r, res), res = "ok" => request[r].op # "submit" \/ request[r].pc = "created",
           UNCHANGED client, tickets' = tickets, redeemed' = redeemed, promo' = promo,
           drafts' \in [Consumer -> DraftRow]
    PROVE  NInv'
  <1> DEFINE b == [request[r] EXCEPT !.pc = "answer", !.res = res]
  <1>1. request[r] \in RequestRow /\ request[r] # Idle /\ TicketsKnown
    BY Working
  <1>2. request' = [request EXCEPT ![r] = b]
    BY DEF Answer
  <1>3. b \in RequestRow
    BY <1>1 DEF RequestRow
  <1>4. /\ b.op = request[r].op /\ b.tab = request[r].tab /\ b.waits = request[r].waits
        /\ b.instance = request[r].instance /\ b.key = request[r].key
        /\ b.ticket = request[r].ticket /\ b.pc = "answer" /\ b.res = res
    BY <1>1 DEF RequestRow
  <1> HIDE DEF b
  <1>5. Told(b)
    <2>1. Told(request[r])
      BY <1>1, ToldBefore
    <2> QED BY <2>1, <1>1, <1>4 DEF Told, Answered
  <1> QED BY <1>1, <1>2, <1>3, <1>4, <1>5, Served

LEMMA StepKeeps ==
    ASSUME NInv, NEW r \in Slot, Busy(r), NEW pc \in {"priced", "upsert", "found"},
           NEW b, request' = [request EXCEPT ![r] = b], NEW unpriced \in BOOLEAN, NEW row \in DraftRow,
           \/ b = [request[r] EXCEPT !.pc = pc]
           \/ b = [request[r] EXCEPT !.pc = pc, !.unpriced = unpriced]
           \/ b = [request[r] EXCEPT !.pc = pc, !.row = row],
           request[r].op # "upload", UNCHANGED client, UNCHANGED server
    PROVE  NInv'
  <1>1. /\ request[r] \in RequestRow /\ request[r] # Idle /\ drafts' \in [Consumer -> DraftRow]
        /\ tickets' = tickets /\ redeemed' = redeemed /\ promo' = promo
    BY Working DEF server
  <1>2. b \in RequestRow
    BY <1>1 DEF RequestRow
  <1>3. /\ b.op = request[r].op /\ b.tab = request[r].tab /\ b.waits = request[r].waits
        /\ b.instance = request[r].instance /\ b.key = request[r].key /\ b.pc = pc
    BY <1>1 DEF RequestRow
  <1>4. Told(b)
    BY <1>3 DEF Told, Answered
  <1> QED BY <1>1, <1>2, <1>3, <1>4, Served

LEMMA SaveIntakeDraftKeeps == ASSUME NInv, NEW r \in Slot, SaveIntakeDraft(r) PROVE NInv'
  <1>1. /\ Busy(r) /\ request[r].op \in {"auto", "manual"} /\ UNCHANGED client
        /\ UNCHANGED server /\ tickets' = tickets /\ redeemed' = redeemed /\ promo' = promo
        /\ drafts' \in [Consumer -> DraftRow]
    BY Working DEF SaveIntakeDraft, At, server
  <1>2. CASE Answer(r, "suppressed")
    BY <1>1, <1>2, AnswerKeeps
  <1>3. CASE Step(r, "upsert")
    <2>1. /\ request' = [request EXCEPT ![r] = [request[r] EXCEPT !.pc = "upsert"]]
          /\ NoDraft \in DraftRow
      BY <1>3, Limits DEF Step, NoDraft, DraftRow
    <2> QED BY <2>1, <1>1, StepKeeps
  <1> QED BY <1>2, <1>3 DEF SaveIntakeDraft

\* The request that wrote or read a row answers with it.
LEMMA RowKeeps ==
    ASSUME NInv, NEW r \in Slot, Busy(r), request[r].op \notin {"submit", "upload"},
           NEW row \in DraftRow,
           request' = [request EXCEPT ![r].pc = "answer", ![r].res = "ok", ![r].row = row],
           UNCHANGED client, tickets' = tickets, redeemed' = redeemed, promo' = promo,
           drafts' \in [Consumer -> DraftRow]
    PROVE  NInv'
  <1> DEFINE b == [request[r] EXCEPT !.pc = "answer", !.res = "ok", !.row = row]
  <1>1. request[r] \in RequestRow /\ request[r] # Idle
    BY Working
  <1>2. b \in RequestRow
    BY <1>1 DEF RequestRow
  <1>3. /\ b.op = request[r].op /\ b.tab = request[r].tab /\ b.waits = request[r].waits
        /\ b.instance = request[r].instance /\ b.key = request[r].key
    BY <1>1 DEF RequestRow
  <1>4. request' = [request EXCEPT ![r] = b]
    OBVIOUS
  <1> HIDE DEF b
  <1>5. Told(b)
    BY <1>3 DEF Told, Answered
  <1> QED BY <1>1, <1>2, <1>3, <1>4, <1>5, Served

LEMMA UpsertKeeps == ASSUME NInv, NEW r \in Slot, UpsertDraft(r) PROVE NInv'
  <1> DEFINE c == Consumes(r)
             row == [id |-> IF drafts[c] = NoDraft THEN FreshDraftId ELSE drafts[c].id,
                     form |-> request[r].form]
  <1>1. /\ Busy(r) /\ request[r].op \in {"auto", "manual"} /\ UNCHANGED client
        /\ tickets' = tickets /\ redeemed' = redeemed /\ promo' = promo
        /\ drafts' = [drafts EXCEPT ![c] = row]
        /\ request' = [request EXCEPT ![r].pc = "answer", ![r].res = "ok", ![r].row = row]
    BY DEF UpsertDraft, At
  <1>2. /\ Shape /\ request[r] \in RequestRow /\ c \in Consumer /\ drafts \in [Consumer -> DraftRow]
    BY <1>1, Working
  <1>3. row \in DraftRow
    <2>1. FreshDraftId \in DraftId /\ request[r].form \in Form
      BY <1>2, FreshDraftIdType, RequestTypes
    <2>2. drafts[c] # NoDraft => drafts[c].id \in DraftId
      BY <1>2 DEF DraftRow
    <2> QED BY <2>1, <2>2 DEF DraftRow, Form
  <1> HIDE DEF row
  <1> QED BY <1>1, <1>2, <1>3, RowKeeps

LEMMA GetDraftKeeps == ASSUME NInv, NEW r \in Slot, GetActiveDraft(r) PROVE NInv'
  <1>1. /\ Busy(r) /\ request[r].op = "resume" /\ UNCHANGED client /\ UNCHANGED server
        /\ request' = [request EXCEPT ![r].pc = "answer", ![r].res = "ok",
                                      ![r].row = drafts[Consumes(r)]]
    BY DEF GetActiveDraft, At
  <1>2. drafts \in [Consumer -> DraftRow] /\ drafts[Consumes(r)] \in DraftRow
    BY <1>1, Working
  <1> QED BY <1>1, <1>2, RowKeeps DEF server

LEMMA DeleteDraftKeeps == ASSUME NInv, NEW r \in Slot, DeleteActiveDraft(r) PROVE NInv'
  <1>1. /\ Busy(r) /\ request[r].op = "discard" /\ UNCHANGED client /\ UNCHANGED server
        /\ drafts' \in [Consumer -> DraftRow] /\ drafts[Consumes(r)] \in DraftRow
    BY Working DEF DeleteActiveDraft, At, server
  <1>2. CASE Answer(r, "ok")
    BY <1>1, <1>2, AnswerKeeps DEF server
  <1>3. CASE request' = [request EXCEPT ![r].pc = "found", ![r].row = drafts[Consumes(r)]]
    <2>1. request' = [request EXCEPT ![r] =
                        [request[r] EXCEPT !.pc = "found", !.row = drafts[Consumes(r)]]]
      BY <1>3
    <2> QED BY <2>1, <1>1, StepKeeps
  <1> QED BY <1>2, <1>3 DEF DeleteActiveDraft

LEMMA DeleteRowKeeps == ASSUME NInv, NEW r \in Slot, DeleteDraftRow(r) PROVE NInv'
  <1>1. /\ Busy(r) /\ request[r].op = "discard" /\ UNCHANGED client
        /\ tickets' = tickets /\ redeemed' = redeemed /\ promo' = promo
        /\ drafts \in [Consumer -> DraftRow] /\ NoDraft \in DraftRow
    BY Working, Limits DEF DeleteDraftRow, At, NoDraft, DraftRow
  <1>2. CASE drafts' = [drafts EXCEPT ![Consumes(r)] = NoDraft] /\ Answer(r, "ok")
    <2>1. drafts' \in [Consumer -> DraftRow]
      BY <1>1, <1>2
    <2> QED BY <2>1, <1>1, <1>2, AnswerKeeps
  <1>3. CASE UNCHANGED drafts /\ Answer(r, "error")
    BY <1>1, <1>3, AnswerKeeps
  <1> QED BY <1>2, <1>3 DEF DeleteDraftRow

LEMMA FailureKeeps == ASSUME NInv, NEW r \in Slot, ServerFails(r) PROVE NInv'
  <1>1. /\ Busy(r) /\ Answer(r, "error") /\ UNCHANGED client
        /\ tickets' = tickets /\ redeemed' = redeemed /\ promo' = promo
        /\ drafts' \in [Consumer -> DraftRow]
    BY Working DEF ServerFails, server
  <1> QED BY <1>1, AnswerKeeps

LEMMA SubmittedDraftKeeps == ASSUME NInv, NEW r \in Slot, DeleteSubmittedDraft(r) PROVE NInv'
  <1>1. /\ Busy(r) /\ request[r].op = "submit" /\ request[r].pc = "created" /\ Answer(r, "ok")
        /\ UNCHANGED client /\ tickets' = tickets /\ redeemed' = redeemed /\ promo' = promo
    BY DEF DeleteSubmittedDraft, At
  <1>2. drafts' \in [Consumer -> DraftRow]
    <2>1. drafts \in [Consumer -> DraftRow] /\ NoDraft \in DraftRow
      BY <1>1, Working, Limits DEF NoDraft, DraftRow
    <2> QED BY <2>1 DEF DeleteSubmittedDraft
  <1> QED BY <1>1, <1>2, AnswerKeeps

LEMMA PricingKeeps == ASSUME NInv, NEW r \in Slot, CreateIntakeTicket(r) PROVE NInv'
  <1>1. /\ Busy(r) /\ request[r].op = "submit" /\ UNCHANGED client /\ UNCHANGED server
        /\ tickets' = tickets /\ redeemed' = redeemed /\ promo' = promo
        /\ drafts' \in [Consumer -> DraftRow]
    BY Working DEF CreateIntakeTicket, At, server
  <1>2. CASE Answer(r, "error")
    BY <1>1, <1>2, AnswerKeeps
  <1>3. CASE \E unpriced \in BOOLEAN :
               request' = [request EXCEPT ![r].pc = "priced", ![r].unpriced = unpriced]
    <2>1. PICK unpriced \in BOOLEAN :
            request' = [request EXCEPT ![r].pc = "priced", ![r].unpriced = unpriced]
      BY <1>3
    <2>2. request' = [request EXCEPT ![r] =
                        [request[r] EXCEPT !.pc = "priced", !.unpriced = unpriced]]
      BY <2>1
    <2>3. NoDraft \in DraftRow
      BY Limits DEF NoDraft, DraftRow
    <2> QED BY <2>2, <2>3, <1>1, StepKeeps
  <1>4. Answer(r, "error")
        \/ \E unpriced \in BOOLEAN :
             request' = [request EXCEPT ![r].pc = "priced", ![r].unpriced = unpriced]
    BY DEF CreateIntakeTicket
  <1> QED BY <1>2, <1>3, <1>4

\* The key is taken: the answer is the ticket that has it.
LEMMA ReplayKeeps ==
    ASSUME NInv, NEW r \in Slot, Busy(r), request[r].op = "submit",
           replayOf(request[r].key) # {}, NEW res \in {"ok", "error"},
           request' = [request EXCEPT ![r].pc = "answer", ![r].res = res,
                                      ![r].ticket = Max(replayOf(request[r].key))],
           UNCHANGED client, UNCHANGED server
    PROVE  NInv'
  <1> DEFINE same == replayOf(request[r].key)
             b == [request[r] EXCEPT !.pc = "answer", !.res = res, !.ticket = Max(same)]
  <1>1. /\ Shape /\ Core /\ request[r] \in RequestRow /\ request[r] # Idle
        /\ drafts' \in [Consumer -> DraftRow]
        /\ tickets' = tickets /\ redeemed' = redeemed /\ promo' = promo
    BY Working DEF server
  <1>2. Max(same) \in same
    <2>1. Len(tickets) \in Nat /\ DOMAIN tickets = 1..Len(tickets)
      BY <1>1 DEF Shape
    <2>2. same \in SUBSET (1..Len(tickets))
      BY <2>1 DEF replayOf
    <2> HIDE DEF same
    <2> QED BY <2>1, <2>2, GreatestOf DEF same
  <1>3. Max(same) \in DOMAIN tickets /\ tickets[Max(same)].key = request[r].key
    BY <1>2 DEF replayOf
  <1>4. Max(same) \in Key
    BY <1>1, <1>3, TicketsFit DEF Core
  <1>5. request' = [request EXCEPT ![r] = b]
    OBVIOUS
  <1> HIDE DEF same
  <1>6. b \in RequestRow
    BY <1>1, <1>4 DEF RequestRow, Key
  <1>7. /\ b.op = request[r].op /\ b.tab = request[r].tab /\ b.waits = request[r].waits
        /\ b.instance = request[r].instance /\ b.key = request[r].key /\ b.ticket = Max(same)
    BY <1>1 DEF RequestRow
  <1> HIDE DEF b
  <1>8. Told(b)
    BY <1>3, <1>7 DEF Told
  <1> QED BY <1>1, <1>5, <1>6, <1>7, <1>8, Served

\* A new ticket is counted when it is discounted, and the recount leaves room for it.
LEMMA PromosCount ==
    ASSUME PromoWithinLimits, DiscountIsCounted, redeemed \subseteq DOMAIN tickets,
           IsFiniteSet(DOMAIN tickets), NEW n, n \notin DOMAIN tickets,
           DOMAIN tickets' = DOMAIN tickets \cup {n},
           \A i \in DOMAIN tickets : tickets'[i] = tickets[i], NEW c \in Consumer,
           tickets'[n].consumer = c, NEW redeems \in BOOLEAN, tickets'[n].promoDiscount = redeems,
           redeems => withinLimits(c), redeemed' = IF redeems THEN redeemed \cup {n} ELSE redeemed
    PROVE  PromoWithinLimits' /\ DiscountIsCounted'
  <1> DEFINE of(d) == {i \in redeemed : tickets[i].consumer = d}
  <1>1. DiscountIsCounted'
    BY DEF DiscountIsCounted
  <1>2. IsFiniteSet(redeemed) /\ Cardinality(redeemed) \in Nat /\ n \notin redeemed
    <2>1. redeemed \in SUBSET DOMAIN tickets
      OBVIOUS
    <2> QED BY <2>1, FS_Subset, FS_CardinalityType
  <1>3. \A d \in Consumer : IsFiniteSet(of(d)) /\ Cardinality(of(d)) \in Nat /\ n \notin of(d)
    <2> SUFFICES ASSUME NEW d \in Consumer
                 PROVE  IsFiniteSet(of(d)) /\ Cardinality(of(d)) \in Nat /\ n \notin of(d)
      OBVIOUS
    <2>1. of(d) \in SUBSET redeemed /\ n \notin of(d)
      BY <1>2
    <2> HIDE DEF of
    <2> QED BY <2>1, <1>2, FS_Subset, FS_CardinalityType
  <1>4. \A d \in Consumer : {i \in redeemed' : tickets'[i].consumer = d}
                              = IF redeems /\ d = c THEN of(d) \cup {n} ELSE of(d)
    OBVIOUS
  <1>5. Cardinality(redeemed') <= totalUsageLimit
    <2>1. CASE redeems
      <3>1. Cardinality(redeemed \cup {n}) = Cardinality(redeemed) + 1
        BY <1>2, FS_AddElement
      <3>2. Cardinality(redeemed) < totalUsageLimit
        BY <2>1 DEF withinLimits
      <3> QED BY <2>1, <3>1, <3>2, <1>2, Limits
    <2>2. CASE ~redeems
      BY <2>2 DEF PromoWithinLimits
    <2> QED BY <2>1, <2>2
  <1>6. ASSUME NEW d \in Consumer PROVE usage(d)' <= perUserLimit
    <2>1. CASE redeems /\ d = c
      <3>1. Cardinality(of(d) \cup {n}) = Cardinality(of(d)) + 1
        <4> HIDE DEF of
        <4> QED BY <1>3, FS_AddElement
      <3>2. Cardinality(of(d)) < perUserLimit
        BY <2>1 DEF withinLimits, usage
      <3>3. usage(d)' = Cardinality(of(d) \cup {n})
        BY <2>1, <1>4 DEF usage
      <3> QED BY <3>1, <3>2, <3>3, <1>3, Limits
    <2>2. CASE ~(redeems /\ d = c)
      <3>1. usage(d)' = Cardinality(of(d))
        BY <2>2, <1>4 DEF usage
      <3>2. Cardinality(of(d)) <= perUserLimit
        BY DEF PromoWithinLimits, usage
      <3> QED BY <3>1, <3>2
    <2> QED BY <2>1, <2>2
  <1>7. PromoWithinLimits'
    BY <1>5, <1>6 DEF PromoWithinLimits
  <1> QED BY <1>1, <1>7

LEMMA TransactionKeeps == ASSUME NInv, NEW r \in Slot, CreateTicketTx(r) PROVE NInv'
  <1> DEFINE c == Consumes(r)
             q == request[r]
             same == replayOf(q.key)
             redeems == q.asks.promo /\ ~q.unpriced
             n == Len(tickets) + 1
             t == [consumer |-> c, flow |-> flowOf(r), form |-> q.form, instance |-> q.instance,
                   key |-> q.key, promoDiscount |-> redeems, recent |-> TRUE, documents |-> 0]
  <1>1. /\ Busy(r) /\ q.op = "submit" /\ q.pc = "priced" /\ UNCHANGED client
        /\ drafts' = drafts /\ promo' = promo
        /\ scene' = scene /\ wizard' = wizard /\ forms' = forms /\ keys' = keys
    BY DEF CreateTicketTx, At, client
  <1>2. /\ Shape /\ Core /\ q \in RequestRow /\ q # Idle /\ c \in Consumer
        /\ drafts \in [Consumer -> DraftRow] /\ KeysMatch
        /\ PromoWithinLimits /\ DiscountIsCounted
    BY <1>1, Working DEF NInv, Core
  <1>3. CASE /\ same # {}
             /\ request' = [request EXCEPT ![r].pc = "answer",
                  ![r].res = IF \E i \in same : tickets[i].consumer = c THEN "ok" ELSE "error",
                  ![r].ticket = Max(same)]
             /\ UNCHANGED <<tickets, redeemed>>
    <2>1. PICK res \in {"ok", "error"} :
            request' = [request EXCEPT ![r].pc = "answer", ![r].res = res,
                                       ![r].ticket = Max(same)]
      BY <1>3
    <2> QED BY <2>1, <1>1, <1>3, ReplayKeeps DEF server
  <1>4. CASE /\ same = {}
             /\ redeems => assertWithinLimits(c)
             /\ tickets' = Append(tickets, t)
             /\ redeemed' = IF redeems THEN redeemed \cup {n} ELSE redeemed
             /\ request' = [request EXCEPT ![r].pc = "created", ![r].ticket = n]
    <2>1. t \in TicketRow /\ t.instance = q.instance /\ t.key = q.key /\ t.documents = 0
          /\ t.consumer = c /\ t.promoDiscount = redeems /\ redeems \in BOOLEAN
      <3>1. MintedBy(q.instance, q.key)
        BY <1>1, <1>2 DEF MintedBy
      <3>2. q.key \in 1..keys /\ q.instance \in Form /\ q.form \in Form
        BY <3>1, <1>2, RequestTypes DEF KeysMatch
      <3>3. q.key \in 1..KeyLimit
        BY <3>2, <1>2, Limits DEF Shape
      <3>4. flowOf(r) \in {WizardFlow, SearchFlow}
        BY DEF flowOf
      <3>5. redeems \in BOOLEAN
        OBVIOUS
      <3> HIDE DEF redeems
      <3> QED BY <3>2, <3>3, <3>4, <3>5, <1>2 DEF TicketRow, Form
    <2> HIDE DEF t, redeems
    <2>2. Core' /\ request' \in [Slot -> {Idle} \cup RequestRow]
      BY <2>1, <1>1, <1>2, <1>4, Inserts DEF Busy
    <2>3. /\ tickets \in Seq(TicketRow) /\ Len(tickets) \in Nat /\ DOMAIN tickets = 1..Len(tickets)
          /\ redeemed \subseteq DOMAIN tickets
      BY <1>2 DEF Shape
    <2>4. /\ tickets' \in Seq(TicketRow) /\ DOMAIN tickets' = DOMAIN tickets \cup {n}
          /\ tickets'[n] = t /\ n \notin DOMAIN tickets
          /\ \A i \in DOMAIN tickets : tickets'[i] = tickets[i]
      BY <2>1, <2>3, <1>4
    <2>5. redeemed' \subseteq DOMAIN tickets'
      BY <2>3, <2>4, <1>4
    <2>6. Shape'
      BY <2>2, <2>4, <2>5, <1>1, <1>2 DEF Shape, Open
    <2>7. IsFiniteSet(DOMAIN tickets)
      BY <2>3, FS_Interval
    <2>8. PromoWithinLimits' /\ DiscountIsCounted'
      <3>1. tickets'[n].consumer = c /\ tickets'[n].promoDiscount = redeems
            /\ redeems => withinLimits(c)
        BY <2>1, <2>4, <1>4 DEF assertWithinLimits
      <3> HIDE DEF c, n
      <3> QED BY <3>1, <2>1, <2>3, <2>4, <2>7, <1>2, <1>4, PromosCount
    <2> QED BY <2>2, <2>6, <2>8 DEF NInv
  <1>5. CASE /\ same = {} /\ redeems /\ ~assertWithinLimits(c)
             /\ Answer(r, "error") /\ UNCHANGED <<tickets, redeemed>>
    BY <1>1, <1>2, <1>5, AnswerKeeps
  <1> QED BY <1>3, <1>4, <1>5 DEF CreateTicketTx

LEMMA UploadKeeps == ASSUME NInv, NEW r \in Slot, UploadDocument(r) PROVE NInv'
  <1>1. /\ Busy(r) /\ request[r].op = "upload" /\ request[r].pc = "sent"
        /\ tickets' = [tickets EXCEPT ![request[r].ticket].documents = @ + 1]
        /\ request' = [request EXCEPT ![r].pc = "answer", ![r].res = "ok"]
        /\ drafts' = drafts /\ redeemed' = redeemed /\ promo' = promo
        /\ scene' = scene /\ wizard' = wizard /\ forms' = forms /\ keys' = keys
    BY DEF UploadDocument, At, Answer, client
  <1>2. Shape /\ Core /\ Uploads(request[r]) /\ PromoWithinLimits /\ DiscountIsCounted
    BY <1>1, Working DEF Uploads, NInv
  <1>3. /\ Core' /\ request' \in [Slot -> {Idle} \cup RequestRow]
        /\ tickets' \in Seq(TicketRow) /\ DOMAIN tickets' = DOMAIN tickets
        /\ \A i \in DOMAIN tickets : /\ tickets'[i].consumer = tickets[i].consumer
                                     /\ tickets'[i].promoDiscount = tickets[i].promoDiscount
    BY <1>1, <1>2, Uploaded
  <1>4. Shape'
    BY <1>1, <1>2, <1>3 DEF Shape, Open
  <1>5. PromoWithinLimits' /\ DiscountIsCounted'
    BY <1>1, <1>2, <1>3, PromosKept DEF Shape
  <1> QED BY <1>3, <1>4, <1>5 DEF NInv

-----------------------------------------------------------------------------
\* The answers.

\* The handler ends in resetForm.
LEMMA ResetKeeps ==
    ASSUME NInv, NEW r \in Slot, Busy(r), Resets(request[r]), Succeeds(r) \/ Fails(r),
           forms' = forms + 1, NEW loading \in BOOLEAN,
           loading = wizard[request[r].tab].loading \/ Loads(request[r]),
           wizard' = [wizard EXCEPT ![request[r].tab] = resetForm(forms + 1, loading)],
           scene' = scene, keys' = keys, UNCHANGED server
    PROVE  NInv'
  <1> DEFINE w == request[r].tab
  <1>1. /\ Shape /\ Core /\ FormsSuffice /\ request[r] # Idle /\ w \in Open /\ request[r].waits
        /\ wizard \in [Open -> WizardRow] /\ wizard' = [wizard EXCEPT ![w] = resetForm(forms + 1, loading)]
    BY Working DEF Core, Shape, Resets
  <1>2. forms + 1 \in Form
    BY <1>1, RoomToReset
  <1>3. /\ wizard' \in [Open -> WizardRow] /\ wizard'[w].instance = forms + 1
        /\ wizard'[w].key = 0 /\ wizard'[w].loading = loading
        /\ \A v \in Open \ {w} : wizard'[v] = wizard[v]
    <2> DEFINE new == resetForm(forms + 1, loading)
    <2>1. new \in WizardRow /\ new.instance = forms + 1 /\ new.key = 0 /\ new.loading = loading
      BY <1>2, WizardTypes
    <2>2. wizard' = [wizard EXCEPT ![w] = new]
      BY <1>1
    <2> HIDE DEF new
    <2> QED BY <2>1, <2>2, <1>1
  <1>4. /\ {w} \in SUBSET {w} /\ {w} # {}
        /\ \A v \in Open :
             /\ v \in {w} => wizard'[v].instance = forms + 1 /\ wizard'[v].key = 0
             /\ v \notin {w} => /\ wizard'[v].instance = wizard[v].instance
                                /\ wizard'[v].key = wizard[v].key
             /\ \/ wizard'[v].loading = wizard[v].loading
                \/ v = w /\ Loads(request[r])
    BY <1>1, <1>3
  <1> QED BY <1>1, <1>3, <1>4, Heeded

\* The handler ends, and the form stays.
LEMMA StayKeeps ==
    ASSUME NInv, NEW r \in Slot, Busy(r), request[r].waits, request[r].op # "upload",
           Succeeds(r) \/ Fails(r), forms' = forms, scene' = scene, keys' = keys,
           UNCHANGED server, wizard' \in [Open -> WizardRow],
           \A v \in Open \ {request[r].tab} : wizard'[v] = wizard[v],
           LET w == request[r].tab
           IN  /\ wizard'[w].instance = wizard[w].instance /\ wizard'[w].key = wizard[w].key
               /\ wizard'[w].loading = wizard[w].loading \/ Loads(request[r])
    PROVE  NInv'
  <1>1. /\ {} \in SUBSET {request[r].tab} /\ request[r] # Idle /\ ~Uploads(request[r])
        /\ \A v \in Open :
             /\ wizard'[v].instance = wizard[v].instance /\ wizard'[v].key = wizard[v].key
             /\ \/ wizard'[v].loading = wizard[v].loading
                \/ v = request[r].tab /\ Loads(request[r])
    BY DEF Busy, Uploads
  <1> QED BY <1>1, Heeded

LEMMA SaveAnsweredKeeps == ASSUME NInv, NEW r \in Slot, SaveAnswered(r) PROVE NInv'
  <1> DEFINE q == request[r]
             w == q.tab
             stale == q.op = "auto" /\ wizard[w].guard
             saved == ~stale /\ q.res # "suppressed"
             fresh == wizard[w].draftId # q.row.id
  <1>1. /\ Busy(r) /\ q.op \in {"auto", "manual"} /\ q.waits /\ Succeeds(r)
        /\ scene' = scene /\ keys' = keys /\ UNCHANGED server
    BY DEF SaveAnswered, Heard
  <1>2. /\ Shape /\ q \in RequestRow /\ w \in Open /\ wizard \in [Open -> WizardRow]
        /\ wizard[w] \in WizardRow
    BY <1>1, Working DEF Shape
  <1>3. q.op = "manual" => Resets(q) /\ Loads(q)
    BY <1>1 DEF Resets, Loads, Busy
  <1>4. CASE /\ q.op = "manual" /\ forms' = forms + 1
             /\ wizard' = [wizard EXCEPT ![w] = resetForm(forms + 1, FALSE)]
    BY <1>1, <1>3, <1>4, ResetKeeps
  <1>5. CASE /\ ~(q.op = "manual" /\ saved) /\ forms' = forms
             /\ wizard' = [wizard EXCEPT
                   ![w].draftId = IF saved THEN q.row.id ELSE @,
                   ![w].timer = IF saved /\ fresh THEN canAutosaveDraft(w) ELSE @,
                   ![w].loading = IF q.op = "manual" THEN FALSE ELSE @]
    <2>1. /\ canAutosaveDraft(w) \in BOOLEAN /\ q.row.id \in {0} \cup DraftId
          /\ wizard[w].draftId \in {0} \cup DraftId
          /\ wizard[w].timer \in BOOLEAN /\ wizard[w].loading \in BOOLEAN
      <3>1. q.row \in DraftRow
        BY <1>2, RequestTypes
      <3>2. q.row.id \in {0} \cup DraftId
        BY <3>1 DEF DraftRow, NoDraft
      <3>3. wizard[w].guard \in BOOLEAN /\ canAutosaveDraft(w) \in BOOLEAN
        BY <1>2 DEF canAutosaveDraft, WizardRow
      <3> QED BY <3>2, <3>3, <1>2 DEF WizardRow
    <2>2. PICK id \in {0} \cup DraftId, timer \in BOOLEAN, loading \in BOOLEAN :
            /\ wizard' = [wizard EXCEPT ![w] = [wizard[w] EXCEPT
                            !.draftId = id, !.timer = timer, !.loading = loading]]
            /\ loading = wizard[w].loading \/ q.op = "manual"
      <3> DEFINE id == IF saved THEN q.row.id ELSE wizard[w].draftId
                 timer == IF saved /\ fresh THEN canAutosaveDraft(w) ELSE wizard[w].timer
                 loading == IF q.op = "manual" THEN FALSE ELSE wizard[w].loading
      <3>1. wizard' = [wizard EXCEPT ![w] = [wizard[w] EXCEPT
                         !.draftId = id, !.timer = timer, !.loading = loading]]
        BY <1>2, <1>5
      <3>2. /\ id \in {0} \cup DraftId /\ timer \in BOOLEAN /\ loading \in BOOLEAN
            /\ loading = wizard[w].loading \/ q.op = "manual"
        BY <2>1
      <3> HIDE DEF id, timer, loading
      <3> QED BY <3>1, <3>2
    <2> HIDE DEF saved, fresh
    <2>3. /\ wizard' \in [Open -> WizardRow]
          /\ \A v \in Open \ {w} : wizard'[v] = wizard[v]
          /\ wizard'[w].instance = wizard[w].instance /\ wizard'[w].key = wizard[w].key
          /\ wizard'[w].loading = wizard[w].loading \/ q.op = "manual"
      BY <1>2, <2>2 DEF WizardRow
    <2> QED BY <1>1, <1>3, <1>5, <2>3, StayKeeps
  <1> QED BY <1>4, <1>5 DEF SaveAnswered

LEMMA SaveFailedKeeps == ASSUME NInv, NEW r \in Slot, SaveFailed(r) PROVE NInv'
  <1> DEFINE w == request[r].tab
  <1>1. /\ Busy(r) /\ request[r].op \in {"auto", "manual"} /\ request[r].waits /\ Fails(r)
        /\ wizard' = [wizard EXCEPT ![w].loading =
                        IF request[r].op = "manual" THEN FALSE ELSE @]
        /\ scene' = scene /\ keys' = keys /\ forms' = forms /\ UNCHANGED server
    BY DEF SaveFailed, Heard
  <1>2. w \in Open /\ wizard \in [Open -> WizardRow] /\ wizard[w] \in WizardRow
    BY <1>1, Working DEF Shape
  <1>3. request[r].op = "manual" => Loads(request[r])
    BY <1>1 DEF Loads, Busy
  <1>4. /\ wizard' \in [Open -> WizardRow]
        /\ \A v \in Open \ {w} : wizard'[v] = wizard[v]
        /\ wizard'[w].instance = wizard[w].instance /\ wizard'[w].key = wizard[w].key
        /\ wizard'[w].loading = wizard[w].loading \/ request[r].op = "manual"
    BY <1>1, <1>2 DEF WizardRow
  <1> QED BY <1>1, <1>3, <1>4, StayKeeps

LEMMA DiscardAnsweredKeeps == ASSUME NInv, NEW r \in Slot, DiscardAnswered(r) PROVE NInv'
  <1>1. /\ Busy(r) /\ Resets(request[r]) /\ (Succeeds(r) \/ Fails(r))
        /\ forms' = forms + 1 /\ scene' = scene /\ keys' = keys /\ UNCHANGED server
        /\ wizard' = [wizard EXCEPT ![request[r].tab] =
                        resetForm(forms + 1, wizard[request[r].tab].loading)]
    BY DEF DiscardAnswered, Heard, Resets, Busy
  <1>2. wizard[request[r].tab].loading \in BOOLEAN
    <2>1. wizard[request[r].tab] \in WizardRow
      BY <1>1, Working DEF Shape
    <2> QED BY <2>1 DEF WizardRow
  <1> QED BY <1>1, <1>2, ResetKeeps

LEMMA SubmitAnsweredKeeps == ASSUME NInv, NEW r \in Slot, SubmitAnswered(r) PROVE NInv'
  <1> DEFINE q == request[r]
  <1>1. /\ Busy(r) /\ q.op = "submit" /\ q.waits /\ scene' = scene /\ keys' = keys
        /\ UNCHANGED server
        /\ drafts' = drafts /\ tickets' = tickets /\ redeemed' = redeemed /\ promo' = promo
    BY DEF SubmitAnswered, Heard, server
  <1>2. CASE /\ q.pc = "answer" /\ q.res = "ok"
             /\ request' = [request EXCEPT ![r].op = "upload", ![r].pc = "sent",
                                           ![r].res = "none"]
             /\ UNCHANGED <<wizard, forms>>
    <2>1. Shape /\ Core /\ PromoWithinLimits /\ DiscountIsCounted /\ q # Idle
      BY <1>1, Working DEF NInv
    <2>2. wizard' = wizard /\ forms' = forms
      BY <1>2
    <2>3. Core' /\ request' \in [Slot -> {Idle} \cup RequestRow]
      BY <1>1, <1>2, <2>1, <2>2, Uploading
    <2>4. Shape'
      BY <1>1, <2>1, <2>2, <2>3 DEF Shape, Open
    <2>5. PromoWithinLimits' /\ DiscountIsCounted'
      BY <1>1, <2>1, PromosKept DEF Shape
    <2> QED BY <2>3, <2>4, <2>5 DEF NInv
  <1>3. CASE /\ Succeeds(r) /\ forms' = forms + 1
             /\ wizard' = [wizard EXCEPT ![q.tab] = resetForm(forms + 1, FALSE)]
    <2>1. Resets(q) /\ Loads(q) /\ FALSE \in BOOLEAN
      BY <1>1 DEF Resets, Loads, Busy
    <2> QED BY <2>1, <1>1, <1>3, ResetKeeps
  <1> QED BY <1>2, <1>3 DEF SubmitAnswered

LEMMA UploadAnsweredKeeps == ASSUME NInv, NEW r \in Slot, UploadAnswered(r) PROVE NInv'
  <1>1. /\ Busy(r) /\ Resets(request[r]) /\ Loads(request[r]) /\ (Succeeds(r) \/ Fails(r))
        /\ forms' = forms + 1 /\ scene' = scene /\ keys' = keys /\ UNCHANGED server
        /\ wizard' = [wizard EXCEPT ![request[r].tab] = resetForm(forms + 1, FALSE)]
    BY DEF UploadAnswered, Heard, Resets, Loads, Busy
  <1> QED BY <1>1, ResetKeeps

LEMMA SubmitFailedKeeps == ASSUME NInv, NEW r \in Slot, SubmitFailed(r) PROVE NInv'
  <1> DEFINE w == request[r].tab
  <1>1. /\ Busy(r) /\ request[r].op = "submit" /\ request[r].waits /\ Fails(r)
        /\ wizard' = [wizard EXCEPT ![w].guard = FALSE, ![w].loading = FALSE]
        /\ scene' = scene /\ keys' = keys /\ forms' = forms /\ UNCHANGED server
    BY DEF SubmitFailed, Heard
  <1>2. w \in Open /\ wizard \in [Open -> WizardRow] /\ wizard[w] \in WizardRow
    BY <1>1, Working DEF Shape
  <1>3. Loads(request[r])
    BY <1>1 DEF Loads, Busy
  <1>4. /\ wizard' \in [Open -> WizardRow]
        /\ \A v \in Open \ {w} : wizard'[v] = wizard[v]
        /\ wizard'[w].instance = wizard[w].instance /\ wizard'[w].key = wizard[w].key
    BY <1>1, <1>2 DEF WizardRow
  <1> QED BY <1>1, <1>3, <1>4, StayKeeps

LEMMA ResumeAnsweredKeeps == ASSUME NInv, NEW r \in Slot, ResumeAnswered(r) PROVE NInv'
  <1> DEFINE q == request[r]
             w == q.tab
  <1>1. /\ Busy(r) /\ q.op = "resume" /\ q.waits /\ (Succeeds(r) \/ Fails(r))
        /\ scene' = scene /\ keys' = keys /\ forms' = forms /\ UNCHANGED server
    BY DEF ResumeAnswered, Heard
  <1>2. /\ w \in Open /\ wizard \in [Open -> WizardRow] /\ wizard[w] \in WizardRow
        /\ q.row \in DraftRow
    BY <1>1, Working, RequestTypes DEF Shape
  <1>3. CASE wizard' = wizard
    BY <1>1, <1>2, <1>3, StayKeeps
  <1>4. CASE /\ q.row # NoDraft
             /\ wizard' = [wizard EXCEPT ![w].form = q.row.form, ![w].draftId = q.row.id,
                                         ![w].resumed = TRUE]
    <2>1. q.row.form \in 1..FormLimit /\ q.row.id \in {0} \cup DraftId
      BY <1>2, <1>4 DEF DraftRow, NoDraft
    <2>2. /\ wizard' \in [Open -> WizardRow]
          /\ \A v \in Open \ {w} : wizard'[v] = wizard[v]
          /\ wizard'[w].instance = wizard[w].instance /\ wizard'[w].key = wizard[w].key
          /\ wizard'[w].loading = wizard[w].loading
      BY <1>2, <1>4, <2>1 DEF WizardRow
    <2> QED BY <1>1, <2>2, StayKeeps
  <1> QED BY <1>3, <1>4 DEF ResumeAnswered

LEMMA DroppedKeeps == ASSUME NInv, NEW r \in Slot, Dropped(r) PROVE NInv'
  <1>1. /\ Shape /\ Core /\ FormsSuffice /\ TicketsKnown /\ FormsApart
        /\ request \in [Slot -> {Idle} \cup RequestRow] /\ ~request[r].waits
        /\ request' = [request EXCEPT ![r] = Idle]
        /\ scene' = scene /\ wizard' = wizard /\ forms' = forms /\ keys' = keys
        /\ drafts' = drafts /\ tickets' = tickets /\ redeemed' = redeemed /\ promo' = promo
    BY DEF Dropped, NInv, Core, Shape, client, server
  <1>2. /\ request'[r] = Idle /\ \A q \in Slot \ {r} : request'[q] = request[q]
        /\ request' \in [Slot -> {Idle} \cup RequestRow]
    BY <1>1
  <1>3. Shape'
    BY <1>1, <1>2 DEF Shape, Open
  <1>4. \A q \in Slot : /\ Follows(request[q], request'[q])
                        /\ StillHeard(request[q], request'[q])
                        /\ Told(request'[q])
                        /\ Resets(request'[q]) <=> Resets(request[q])
    <2>1. \A q \in Slot : Told(request[q])
      BY <1>1, ToldBefore
    <2>2. /\ Follows(request[r], Idle) /\ StillHeard(request[r], Idle) /\ Told(Idle)
          /\ ~Resets(request[r]) /\ ~Resets(Idle)
      BY <1>1 DEF Follows, StillHeard, Told, Resets
    <2> QED BY <2>1, <2>2, <1>2 DEF Follows, StillHeard
  <1>5. FormsSuffice'
    <2>1. Handlers' = Handlers
      BY <1>4 DEF Handlers, Resets
    <2> QED BY <2>1, <1>1 DEF FormsSuffice
  <1>6. Core'
    BY <1>1, <1>2, <1>4, <1>5, GoesOn, {} \in SUBSET Open DEF SameTickets
  <1>7. PromoWithinLimits' /\ DiscountIsCounted'
    BY <1>1, PromosKept DEF NInv, Shape
  <1> QED BY <1>3, <1>6, <1>7 DEF NInv

-----------------------------------------------------------------------------
\* What happens outside the requests.

\* The Drafts page, the clock, the promo code and stuttering leave requests and forms
\* alone.
LEMMA OthersKeep ==
    ASSUME NInv,
           \/ \E c \in Consumer : DeleteIntakeDraftById(c)
           \/ ThirtySecondsPass
           \/ Promos
           \/ UNCHANGED intakeVars
    PROVE  NInv'
  <1>1. /\ Shape /\ drafts \in [Consumer -> DraftRow] /\ tickets \in Seq(TicketRow)
        /\ wizard \in [Open -> WizardRow] /\ promo \in {"absent", "early", "open", "ended"}
        /\ NoDraft \in DraftRow
    BY DEF NInv, Shape, DraftRow
  <1>2. /\ scene' = scene /\ wizard' = wizard /\ forms' = forms /\ keys' = keys
        /\ request' = request /\ redeemed' = redeemed
    BY DEF DeleteIntakeDraftById, ThirtySecondsPass, Promos, CreatePromo, DeactivatePromo,
           PromoWindowMoves, client, intakeVars
  <1>3. drafts' \in [Consumer -> DraftRow]
    BY <1>1 DEF DeleteIntakeDraftById, ThirtySecondsPass, Promos, CreatePromo,
                DeactivatePromo, PromoWindowMoves, intakeVars
  <1>4. promo' \in {"absent", "early", "open", "ended"}
    BY <1>1 DEF DeleteIntakeDraftById, ThirtySecondsPass, Promos, CreatePromo,
                DeactivatePromo, PromoWindowMoves, intakeVars
  <1>5. /\ tickets' \in Seq(TicketRow) /\ SameTickets
        /\ \A i \in DOMAIN tickets : /\ tickets'[i].consumer = tickets[i].consumer
                                     /\ tickets'[i].promoDiscount = tickets[i].promoDiscount
    <2>1. CASE tickets' = tickets
      BY <2>1, <1>1 DEF SameTickets
    <2>2. CASE tickets' = [i \in DOMAIN tickets |-> [tickets[i] EXCEPT !.recent = FALSE]]
      <3>1. DOMAIN tickets' = DOMAIN tickets
        BY <2>2
      <3>2. \A i \in DOMAIN tickets :
              /\ tickets'[i] \in TicketRow /\ tickets'[i].instance = tickets[i].instance
              /\ tickets'[i].key = tickets[i].key /\ tickets'[i].documents = tickets[i].documents
              /\ tickets'[i].consumer = tickets[i].consumer
              /\ tickets'[i].promoDiscount = tickets[i].promoDiscount
        <4> SUFFICES ASSUME NEW i \in DOMAIN tickets
                     PROVE  LET t == [tickets[i] EXCEPT !.recent = FALSE]
                            IN  /\ t \in TicketRow /\ t.instance = tickets[i].instance
                                /\ t.key = tickets[i].key /\ t.documents = tickets[i].documents
                                /\ t.consumer = tickets[i].consumer
                                /\ t.promoDiscount = tickets[i].promoDiscount
          BY <2>2
        <4>1. tickets[i] \in TicketRow
          BY <1>1
        <4> QED BY <4>1 DEF TicketRow
      <3>3. Len(tickets) \in Nat /\ DOMAIN tickets = 1..Len(tickets)
        BY <1>1
      <3>4. tickets' \in [1..Len(tickets) -> TicketRow]
        BY <2>2, <3>2, <3>3
      <3>5. tickets' \in Seq(TicketRow)
        BY <3>3, <3>4
      <3> QED BY <3>1, <3>2, <3>5 DEF SameTickets
    <2> QED BY <2>1, <2>2 DEF DeleteIntakeDraftById, ThirtySecondsPass, Promos, CreatePromo,
                              DeactivatePromo, PromoWindowMoves, intakeVars
  <1> QED BY <1>1, <1>2, <1>3, <1>4, <1>5, Kept

-----------------------------------------------------------------------------
\* The theorems.

LEMMA StepPreserves == NInv /\ [IntakeNext]_intakeVars => NInv'
  <1> SUFFICES ASSUME NInv, [IntakeNext]_intakeVars PROVE NInv'
    OBVIOUS
  <1>1. CASE UserActs
    BY <1>1, EditKeeps, SubmitKeeps, SaveKeeps, FreshKeeps, ReloadKeeps DEF UserActs
  <1>2. CASE Timers
    BY <1>2, TimerKeeps DEF Timers
  <1>3. ASSUME NEW r \in Slot, ServerActs(r) PROVE NInv'
    BY <1>3, SaveIntakeDraftKeeps, UpsertKeeps, GetDraftKeeps, DeleteDraftKeeps, DeleteRowKeeps,
       PricingKeeps, TransactionKeeps, SubmittedDraftKeeps, UploadKeeps DEF ServerActs
  <1>4. ASSUME NEW r \in Slot, Answers(r) PROVE NInv'
    BY <1>4, SaveAnsweredKeeps, SaveFailedKeeps, DiscardAnsweredKeeps, SubmitAnsweredKeeps,
       UploadAnsweredKeeps, SubmitFailedKeeps, ResumeAnsweredKeeps, DroppedKeeps DEF Answers
  <1>5. ASSUME NEW r \in Slot, ServerFails(r) PROVE NInv'
    BY <1>5, FailureKeeps
  <1>6. CASE \/ \E c \in Consumer : DeleteIntakeDraftById(c)
             \/ ThirtySecondsPass \/ Promos \/ UNCHANGED intakeVars
    BY <1>6, OthersKeep
  <1> QED BY <1>1, <1>2, <1>3, <1>4, <1>5, <1>6 DEF IntakeNext

\* Two tickets of one form have the form's one key, and no two have the same.
LEMMA InvSubmitsOnce == NInv => SubmittedOnce
  <1> SUFFICES ASSUME NInv PROVE SubmittedOnce
    OBVIOUS
  <1>1. Shape /\ KeysMatch /\ UploadsOnce /\ tickets \in Seq(TicketRow)
    BY DEF NInv, Core, Shape
  <1>2. IntakeTypeOK
    BY <1>1 DEF Shape, IntakeTypeOK
  <1>3. OneTicketPerForm
    <2> SUFFICES ASSUME NEW i \in DOMAIN tickets, NEW j \in DOMAIN tickets,
                        tickets[i].instance = tickets[j].instance
                 PROVE  i = j
      BY DEF OneTicketPerForm
    <2>1. /\ tickets[i].instance \in Form /\ tickets[i].key \in Key
          /\ tickets[j].instance \in Form /\ tickets[j].key \in Key
      BY <1>1, TicketTypes
    <2>2. /\ MintedBy(tickets[i].instance, tickets[i].key)
          /\ MintedBy(tickets[j].instance, tickets[j].key)
      BY DEF MintedBy
    <2>3. tickets[i].key = tickets[j].key
      BY <2>1, <2>2, <1>1 DEF KeysMatch
    <2> QED BY <2>3, <1>1 DEF KeysMatch
  <1>4. NoDuplicateUpload
    BY <1>1 DEF UploadsOnce, NoDuplicateUpload
  <1> QED BY <1>2, <1>3, <1>4 DEF SubmittedOnce

LEMMA InvAlways == IntakeSpec => []NInv
  <1>1. IntakeInit => NInv
    BY InitialInv
  <1>2. NInv /\ [IntakeNext]_intakeVars => NInv'
    BY StepPreserves
  <1> QED BY <1>1, <1>2, PTL DEF IntakeSpec

\* For any number of tabs, consumers, requests in flight and forms: a form is submitted
\* once, with each attachment once, whatever answer is lost and whatever is retried
\* (createIntakeTicket's unique key and the wizard's submitRequestIdRef).
THEOREM FormsSubmittedOnce == IntakeSpec => []SubmittedOnce
  <1>1. NInv => SubmittedOnce
    BY InvSubmitsOnce
  <1> QED BY <1>1, InvAlways, PTL

\* For any limits: the promo code stays within them, and every discount of a ticket is a
\* counted redemption (assertWithinLimits under the row lock).
THEOREM PromosCounted == IntakeSpec => []PromosAreCounted
  <1>1. NInv => PromosAreCounted
    BY DEF NInv, PromosAreCounted
  <1> QED BY <1>1, InvAlways, PTL
=============================================================================
