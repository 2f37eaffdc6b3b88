----------------------------- MODULE DeskProofs -----------------------------
(***************************************************************************)
(* The safety of the components that must answer somebody: Sessions, for   *)
(* any tabs, tokens and overlapping guesses; Hearings, for any tickets,    *)
(* dates and crashes; TicketDocuments, for any documents and reviews;      *)
(* IntakePicker, for any cities and courts and any order of answers;       *)
(* TicketBoard, for any tickets, charges, overrides and failures.  That    *)
(* the answers come is liveness, which only TLC checks.                    *)
(***************************************************************************)
EXTENDS Sessions, Hearings, TicketDocuments, IntakePicker, TicketBoard,
        SequenceTheorems, SumTheorems

-----------------------------------------------------------------------------
\* Sessions and codes.

Code == [consumed : BOOLEAN, expired : BOOLEAN, attempts : Nat, guesses : Nat]
OtpRequest == [pc : {"idle", "create", "write"}, code : Nat, right : BOOLEAN]

\* The requests that have compared a wrong code with code i and have not counted it yet.
Comparing(i) == {r \in OtpReq : otpReq[r].pc = "write" /\ otpReq[r].code = i /\ ~otpReq[r].right}

\* Every wrong code compared with a code is counted as an attempt, or will be.
GuessInv ==
    /\ otp \in Seq(Code) /\ otpReq \in [OtpReq -> OtpRequest]
    /\ \A r \in OtpReq : otpReq[r].pc = "write" => otpReq[r].code \in Codes
    /\ \A i \in Codes : otp[i].guesses = otp[i].attempts + Cardinality(Comparing(i))
    /\ GuessesBounded

\* The tokens: what a tab knows of its refresh, and where a call is.
Token == 0..TokenLimit
Refresh == [pc : {"none", "sent", "answered"}, token : Token, answer : Token]
Call == [pc : {"new", "sent", "waiting", "ok", "unauthorized"}, token : Token, retry : BOOLEAN]
User == [hash : Token, isActive : BOOLEAN, issued : 1..TokenLimit]
TokensOK ==
    /\ storage \in [access : Token, refresh : Token]
    /\ userRow \in User
    /\ freshAccess \subseteq 1..TokenLimit
    /\ refreshing \in [BrowserTab -> Refresh]
    /\ fetching \in [Fetch -> Call]

LEMMA ServedSafe == ASSUME TokensOK, NEW b \in BrowserTab, ServeRefresh(b) PROVE TokensOK'
  <1> DEFINE q == refreshing[b]
             n == userRow.issued + 1
             given == [refreshing EXCEPT ![b] = [q EXCEPT !.pc = "answered", !.answer = n]]
             refused == [refreshing EXCEPT ![b] = [q EXCEPT !.pc = "answered"]]
  <1>1. q \in Refresh /\ userRow \in User /\ storage' = storage /\ fetching' = fetching
    BY DEF TokensOK, ServeRefresh
  <1>2. \/ /\ n <= TokenLimit
           /\ userRow' = [userRow EXCEPT !.issued = n, !.hash = n]
           /\ freshAccess' = freshAccess \cup {n}
           /\ refreshing' = given
        \/ refreshing' = refused /\ userRow' = userRow /\ freshAccess' = freshAccess
    <2>1. PICK ok \in BOOLEAN :
             IF ok /\ userRow.issued < TokenLimit
             THEN /\ userRow' = [userRow EXCEPT !.issued = userRow.issued + 1, !.hash = userRow.issued + 1]
                  /\ freshAccess' = freshAccess \cup {userRow.issued + 1}
                  /\ refreshing' = [refreshing EXCEPT ![b].pc = "answered",
                                                      ![b].answer = userRow.issued + 1]
             ELSE /\ refreshing' = [refreshing EXCEPT ![b].pc = "answered"]
                  /\ UNCHANGED <<userRow, freshAccess>>
      BY DEF ServeRefresh, compare
    <2>2. CASE ok /\ userRow.issued < TokenLimit
      <3>1. [refreshing EXCEPT ![b].pc = "answered", ![b].answer = userRow.issued + 1] = given
        BY DEF TokensOK
      <3>2. n <= TokenLimit
        BY <1>1, <2>2, SessionAssumption DEF User
      <3> HIDE DEF given
      <3> QED BY <2>1, <2>2, <3>1, <3>2
    <2>3. CASE ~(ok /\ userRow.issued < TokenLimit)
      <3>1. [refreshing EXCEPT ![b].pc = "answered"] = refused
        OBVIOUS
      <3> HIDE DEF refused
      <3> QED BY <2>1, <2>3, <3>1
    <2> QED BY <2>2, <2>3
  <1>3. CASE refreshing' = refused /\ userRow' = userRow /\ freshAccess' = freshAccess
    <2>1. [q EXCEPT !.pc = "answered"] \in Refresh
      BY <1>1 DEF Refresh
    <2> HIDE DEF q
    <2> QED BY <1>1, <1>3, <2>1 DEF TokensOK
  <1>4. CASE /\ n <= TokenLimit
             /\ userRow' = [userRow EXCEPT !.issued = n, !.hash = n]
             /\ freshAccess' = freshAccess \cup {n}
             /\ refreshing' = given
    <2>1. n \in 1..TokenLimit /\ n \in Token
      BY <1>1, <1>4, SessionAssumption DEF User, Token
    <2> HIDE DEF n
    <2>2. [q EXCEPT !.pc = "answered", !.answer = n] \in Refresh
      BY <1>1, <2>1 DEF Refresh
    <2>3. [userRow EXCEPT !.issued = n, !.hash = n] \in User
      BY <1>1, <2>1 DEF User
    <2> HIDE DEF q
    <2> QED BY <1>1, <1>4, <2>1, <2>2, <2>3 DEF TokensOK
  <1> QED BY <1>2, <1>3, <1>4

LEMMA LostSafe == ASSUME TokensOK, NEW b \in BrowserTab, RefreshLost(b) PROVE TokensOK'
  <1> DEFINE q == [refreshing[b] EXCEPT !.pc = "answered", !.answer = 0]
  <1>1. refreshing' = [refreshing EXCEPT ![b] = q]
    <2>1. [refreshing EXCEPT ![b].pc = "answered", ![b].answer = 0] = [refreshing EXCEPT ![b] = q]
      BY DEF TokensOK
    <2> QED BY <2>1 DEF RefreshLost
  <1>2. q \in Refresh
    <2>1. refreshing[b] \in Refresh /\ 0 \in Token
      BY SessionAssumption DEF TokensOK, Token
    <2> QED BY <2>1 DEF Refresh
  <1> HIDE DEF q
  <1> QED BY <1>1, <1>2 DEF TokensOK, RefreshLost

LEMMA SettledSafe == ASSUME TokensOK, NEW b \in BrowserTab, RefreshSettles(b) PROVE TokensOK'
  <1> DEFINE new == refreshing[b].answer
  <1>1. new \in Token
    BY DEF TokensOK, Refresh
  <1> HIDE DEF new
  <1>2. storage' \in [access : Token, refresh : Token]
    BY <1>1 DEF RefreshSettles, new
  <1>3. NoRefresh \in Refresh
    BY SessionAssumption DEF NoRefresh, Refresh, Token
  <1>4. refreshing' \in [BrowserTab -> Refresh]
    BY <1>3 DEF RefreshSettles, TokensOK
  <1>5. fetching' \in [Fetch -> Call]
    <2>1. \A f \in Fetch : /\ fetching[f] \in Call
                           /\ [fetching[f] EXCEPT !.pc = "unauthorized"] \in Call
                           /\ [fetching[f] EXCEPT !.pc = "sent", !.token = new, !.retry = FALSE] \in Call
      BY <1>1 DEF TokensOK, Call
    <2> DEFINE waiters == {f \in Fetch : TabOf[f] = b /\ fetching[f].pc = "waiting"}
    <2>2. fetching' = [f \in Fetch |->
             IF f \notin waiters THEN fetching[f]
             ELSE IF new = 0 THEN [fetching[f] EXCEPT !.pc = "unauthorized"]
             ELSE [fetching[f] EXCEPT !.pc = "sent", !.token = new, !.retry = FALSE]]
      BY DEF RefreshSettles, new
    <2> HIDE DEF waiters
    <2> QED BY <2>1, <2>2
  <1> QED BY <1>2, <1>4, <1>5 DEF TokensOK, RefreshSettles

LEMMA AnsweredSafe == ASSUME TokensOK, NEW f \in Fetch, FetchAnswered(f) PROVE TokensOK'
  <1> DEFINE b == TabOf[f]
             call(pc) == [fetching EXCEPT ![f] = [fetching[f] EXCEPT !.pc = pc]]
             q == [pc |-> "sent", answer |-> 0, token |-> storage.refresh]
  <1>1. b \in BrowserTab /\ 0 \in Token /\ storage.refresh \in Token
    BY SessionAssumption DEF TokensOK, Token
  <1>2. q \in Refresh /\ [access |-> 0, refresh |-> 0] \in [access : Token, refresh : Token]
    BY <1>1 DEF Refresh
  <1>3. \A pc \in {"ok", "waiting", "unauthorized"} : call(pc) \in [Fetch -> Call]
    <2>1. \A pc \in {"ok", "waiting", "unauthorized"} : [fetching[f] EXCEPT !.pc = pc] \in Call
      BY DEF TokensOK, Call
    <2> QED BY <2>1 DEF TokensOK
  <1>4. /\ fetching' \in {call("ok"), call("waiting"), call("unauthorized")}
        /\ storage' \in {storage, [access |-> 0, refresh |-> 0]}
        /\ refreshing' \in {refreshing, [refreshing EXCEPT ![b] = q]}
        /\ userRow' = userRow /\ freshAccess' = freshAccess
    BY DEF FetchAnswered
  <1> HIDE DEF call, b, q
  <1>5. fetching' \in [Fetch -> Call]
    BY <1>3, <1>4
  <1>6. refreshing' \in [BrowserTab -> Refresh]
    BY <1>1, <1>2, <1>4 DEF TokensOK
  <1> QED BY <1>2, <1>4, <1>5, <1>6 DEF TokensOK

LEMMA TokensSafe == ASSUME TokensOK, TokenNext PROVE TokensOK'
  <1>1. CASE AccessExpires
    BY <1>1 DEF AccessExpires, TokensOK
  <1>2. CASE SignInElsewhere
    <2> DEFINE n == userRow.issued + 1
    <2>1. n \in Token /\ n \in 1..TokenLimit
      BY <1>2, SessionAssumption DEF SignInElsewhere, TokensOK, User, Token
    <2>2. userRow' = [userRow EXCEPT !.issued = n, !.hash = n]
      BY <1>2 DEF SignInElsewhere
    <2> HIDE DEF n
    <2>3. userRow' \in User
      BY <2>1, <2>2 DEF TokensOK, User
    <2> QED BY <1>2, <2>3 DEF SignInElsewhere, TokensOK
  <1>3. CASE Logout
    <2>1. userRow \in User /\ 0 \in Token
      BY SessionAssumption DEF TokensOK, Token
    <2>2. userRow' \in User
      BY <1>3, <2>1 DEF Logout, User
    <2> QED BY <1>3, <2>2 DEF Logout, TokensOK
  <1>4. ASSUME NEW f \in Fetch, SendFetch(f) PROVE TokensOK'
    <2> DEFINE c == [fetching[f] EXCEPT !.pc = "sent", !.token = storage.access]
    <2>1. c \in Call
      BY DEF TokensOK, Call
    <2>2. fetching' = [fetching EXCEPT ![f] = c]
      <3>1. [fetching EXCEPT ![f].pc = "sent", ![f].token = storage.access] = [fetching EXCEPT ![f] = c]
        BY DEF TokensOK
      <3> QED BY <1>4, <3>1 DEF SendFetch
    <2> HIDE DEF c
    <2> QED BY <1>4, <2>1, <2>2 DEF SendFetch, TokensOK
  <1> QED BY <1>1, <1>2, <1>3, <1>4, ServedSafe, LostSafe, SettledSafe, AnsweredSafe DEF TokenNext

\* The code that verify looks up is one of the codes.
LEMMA LatestIs ==
    ASSUME otp \in Seq(Code), NEW j \in Codes, ~otp[j].consumed
    PROVE  latest \in Codes
  <1> DEFINE T == {i \in Codes : ~otp[i].consumed}
  <1>1. Codes = 1..Len(otp) /\ Len(otp) \in Nat
    BY DEF Codes
  <1>2. T \in SUBSET (1..Len(otp)) /\ T # {}
    BY <1>1
  <1> HIDE DEF T
  <1>3. \E m \in T : \A l \in T : l <= m
    BY <1>1, <1>2, HasGreatest
  <1>4. \E i \in Codes : /\ ~otp[i].consumed
                         /\ \A l \in Codes : ~otp[l].consumed => l <= i
    BY <1>3 DEF T
  <1> QED BY <1>4 DEF latest

\* A request that compares nothing before and after its step leaves all counts as they are.
LEMMA SameComparing ==
    ASSUME GuessInv, NEW r \in OtpReq, NEW q, otpReq' = [otpReq EXCEPT ![r] = q],
           NEW i, r \notin Comparing(i), ~(q.pc = "write" /\ q.code = i /\ ~q.right)
    PROVE  Comparing(i)' = Comparing(i)
  BY DEF Comparing, GuessInv

LEMMA CountIs ==
    ASSUME NEW i
    PROVE  /\ Comparing(i) \in SUBSET OtpReq /\ IsFiniteSet(Comparing(i))
           /\ Cardinality(Comparing(i)) \in Nat /\ Cardinality(OtpReq) \in Nat
           /\ \A r \in OtpReq \ Comparing(i) :
                 /\ Cardinality(Comparing(i) \cup {r}) = Cardinality(Comparing(i)) + 1
                 /\ Cardinality(Comparing(i)) + 1 <= Cardinality(OtpReq)
           /\ \A r \in Comparing(i) :
                 Cardinality(Comparing(i) \ {r}) = Cardinality(Comparing(i)) - 1
  <1> DEFINE C == Comparing(i)
  <1>1. C \in SUBSET OtpReq
    BY DEF Comparing
  <1> HIDE DEF C
  <1>2. /\ IsFiniteSet(C) /\ Cardinality(C) \in Nat /\ Cardinality(OtpReq) \in Nat
    BY <1>1, SessionAssumption, FS_Subset, FS_CardinalityType
  <1>3. ASSUME NEW r \in OtpReq \ C
        PROVE  Cardinality(C \cup {r}) = Cardinality(C) + 1 /\ Cardinality(C) + 1 <= Cardinality(OtpReq)
    <2>1. Cardinality(C \cup {r}) = Cardinality(C) + 1
      BY <1>2, FS_AddElement
    <2>2. Cardinality(C \cup {r}) <= Cardinality(OtpReq)
      <3>1. C \cup {r} \in SUBSET OtpReq
        BY <1>1
      <3> QED BY <3>1, SessionAssumption, FS_Subset
    <2> QED BY <2>1, <2>2
  <1>4. ASSUME NEW r \in C PROVE Cardinality(C \ {r}) = Cardinality(C) - 1
    BY <1>2, FS_RemoveElement
  <1> QED BY <1>1, <1>2, <1>3, <1>4 DEF C

LEMMA RequestSafe == ASSUME GuessInv, NEW r \in OtpReq, RequestCode(r) PROVE GuessInv'
  <1> DEFINE q == [otpReq[r] EXCEPT !.pc = "create"]
             used == [i \in Codes |-> [otp[i] EXCEPT !.consumed = TRUE]]
  <1>1. otpReq' = [otpReq EXCEPT ![r] = q] /\ otp' = used /\ otpReq[r].pc = "idle"
    BY DEF RequestCode
  <1>2. q \in OtpRequest /\ q.pc = "create"
    BY DEF GuessInv, OtpRequest
  <1>3. Codes = 1..Len(otp) /\ Len(otp) \in Nat
    BY DEF Codes, GuessInv
  <1>4. \A i \in Codes : /\ used[i] \in Code
                         /\ used[i].guesses = otp[i].guesses /\ used[i].attempts = otp[i].attempts
    <2> SUFFICES ASSUME NEW i \in Codes
                 PROVE  /\ used[i] \in Code
                        /\ used[i].guesses = otp[i].guesses /\ used[i].attempts = otp[i].attempts
      OBVIOUS
    <2>1. otp[i] \in Code
      <3> HIDE DEF used
      <3> QED BY <1>3, ElementOfSeq DEF GuessInv
    <2> QED BY <2>1 DEF Code
  <1>5. DOMAIN used = Codes
    OBVIOUS
  <1> HIDE DEF used, q
  <1>6. used \in [1..Len(otp) -> Code]
    <2>1. used = [i \in Codes |-> used[i]]
      BY DEF used
    <2> QED BY <1>3, <1>4, <2>1
  <1>7. used \in Seq(Code)
    BY <1>3, <1>6, SeqDef
  <1>8. Codes' = Codes
    BY <1>1, <1>5 DEF Codes
  <1>9. \A i \in Codes : Comparing(i)' = Comparing(i)
    <2>1. \A i : r \notin Comparing(i)
      BY <1>1 DEF Comparing
    <2> QED BY <1>1, <1>2, <2>1, SameComparing
  <1>10. otpReq' \in [OtpReq -> OtpRequest]
    BY <1>1, <1>2 DEF GuessInv
  <1>11. \A s \in OtpReq : otpReq'[s].pc = "write" => otpReq'[s].code \in Codes
    BY <1>1, <1>2 DEF GuessInv
  <1> QED BY <1>1, <1>4, <1>7, <1>8, <1>9, <1>10, <1>11 DEF GuessInv, GuessesBounded

LEMMA CreateSafe == ASSUME GuessInv, NEW r \in OtpReq, CreateCode(r) PROVE GuessInv'
  <1> DEFINE q == [otpReq[r] EXCEPT !.pc = "idle"]
             n == Len(otp)
             more == [i \in 1..(n + 1) |-> IF i \in Codes THEN otp[i] ELSE NewCode]
  <1>1. Codes = 1..n /\ n \in Nat
    BY DEF Codes, GuessInv
  <1>2. Cardinality(Codes) = n
    <2> HIDE DEF n
    <2>1. Cardinality(1..n) = n
      BY <1>1, FS_Interval
    <2> QED BY <1>1, <2>1
  <1>3. otpReq' = [otpReq EXCEPT ![r] = q] /\ otp' = more /\ otpReq[r].pc = "create"
    BY <1>2 DEF CreateCode
  <1>4. q \in OtpRequest /\ q.pc = "idle"
    BY DEF GuessInv, OtpRequest
  <1>5. NewCode \in Code /\ NewCode.guesses = 0 /\ NewCode.attempts = 0
    BY DEF NewCode, Code
  <1> HIDE DEF q, n
  <1>6. \A i \in Codes : otp[i] \in Code
    BY <1>1, ElementOfSeq DEF GuessInv, n
  <1>7. more \in [1..(n + 1) -> Code]
    BY <1>5, <1>6
  <1>8. /\ DOMAIN more = 1..(n + 1) /\ \A i \in Codes : more[i] = otp[i]
        /\ n + 1 \notin Codes /\ more[n + 1] = NewCode
    BY <1>1
  <1> HIDE DEF more
  <1>9. more \in Seq(Code)
    BY <1>1, <1>7, SeqDef
  <1>10. Codes' = Codes \cup {n + 1}
    BY <1>1, <1>3, <1>8 DEF Codes
  <1>11. \A i : Comparing(i)' = Comparing(i)
    <2>1. \A i : r \notin Comparing(i)
      BY <1>3 DEF Comparing
    <2> QED BY <1>3, <1>4, <2>1, SameComparing
  <1>12. Cardinality(Comparing(n + 1)) = 0
    <2>1. Comparing(n + 1) = {}
      BY <1>8 DEF Comparing, GuessInv
    <2> QED BY <2>1, FS_EmptySet
  <1>13. otpReq' \in [OtpReq -> OtpRequest]
    BY <1>3, <1>4 DEF GuessInv
  <1>14. \A s \in OtpReq : otpReq'[s].pc = "write" => otpReq'[s].code \in Codes'
    BY <1>3, <1>4, <1>10 DEF GuessInv
  <1>15. 0 <= MAX_ATTEMPTS + Cardinality(OtpReq) - 1
    <2>1. Cardinality(OtpReq) \in Nat /\ Cardinality(OtpReq) # 0
      BY SessionAssumption, FS_CardinalityType, FS_EmptySet
    <2> QED BY <2>1, SessionAssumption
  <1>16. \A i \in Codes' : /\ otp'[i].guesses = otp'[i].attempts + Cardinality(Comparing(i)')
                           /\ otp'[i].guesses <= MAX_ATTEMPTS + Cardinality(OtpReq) - 1
    BY <1>3, <1>5, <1>8, <1>10, <1>11, <1>12, <1>15 DEF GuessInv, GuessesBounded
  <1> QED BY <1>3, <1>9, <1>13, <1>14, <1>16 DEF GuessInv, GuessesBounded

LEMMA VerifySafe == ASSUME GuessInv, NEW r \in OtpReq, VerifyCode(r) PROVE GuessInv'
  <1>0. PICK i : i = latest
    OBVIOUS
  <1>1. i \in Codes /\ attemptsLeft(i) /\ otpReq[r].pc = "idle"
    <2>1. \E j \in Codes : ~otp[j].consumed
      BY DEF VerifyCode
    <2> QED BY <1>0, <2>1, LatestIs DEF VerifyCode, GuessInv
  <1>2. PICK right \in BOOLEAN :
          /\ otpReq' = [otpReq EXCEPT ![r] = [pc |-> "write", code |-> i, right |-> right]]
          /\ otp' = IF right THEN otp ELSE [otp EXCEPT ![i].guesses = @ + 1]
    BY <1>0 DEF VerifyCode
  <1> DEFINE q == [pc |-> "write", code |-> i, right |-> right]
             wrong == [otp[i] EXCEPT !.guesses = otp[i].guesses + 1]
  <1>3. Codes = 1..Len(otp) /\ Len(otp) \in Nat
    BY DEF Codes, GuessInv
  <1>4. otp[i] \in Code
    BY <1>1, <1>3, ElementOfSeq DEF GuessInv
  <1>5. q \in OtpRequest /\ wrong \in Code
    BY <1>1, <1>3, <1>4 DEF OtpRequest, Code
  <1>6. otp' = otp \/ otp' = [otp EXCEPT ![i] = wrong]
    BY <1>2
  <1>7. otp' \in Seq(Code) /\ Codes' = Codes
    <2> HIDE DEF wrong
    <2> QED BY <1>1, <1>3, <1>5, <1>6 DEF Codes, GuessInv
  <1>8. otpReq' \in [OtpReq -> OtpRequest]
    BY <1>2, <1>5 DEF GuessInv
  <1>9. \A s \in OtpReq : otpReq'[s].pc = "write" => otpReq'[s].code \in Codes'
    BY <1>1, <1>2, <1>7 DEF GuessInv
  <1>10. \A j : r \notin Comparing(j)
    BY <1>1 DEF Comparing
  <1>11. \A j \in Codes : otp'[j].attempts = otp[j].attempts
    <2>1. wrong.attempts = otp[i].attempts
      BY <1>4 DEF Code
    <2> HIDE DEF wrong
    <2> QED BY <1>3, <1>6, <2>1 DEF GuessInv
  <1>12. \A j \in Codes : /\ otp'[j].guesses = otp'[j].attempts + Cardinality(Comparing(j)')
                          /\ otp'[j].guesses <= MAX_ATTEMPTS + Cardinality(OtpReq) - 1
    <2> SUFFICES ASSUME NEW j \in Codes
                 PROVE  /\ otp'[j].guesses = otp'[j].attempts + Cardinality(Comparing(j)')
                        /\ otp'[j].guesses <= MAX_ATTEMPTS + Cardinality(OtpReq) - 1
      OBVIOUS
    <2>0. /\ otp[j].guesses = otp[j].attempts + Cardinality(Comparing(j))
          /\ otp[j].guesses <= MAX_ATTEMPTS + Cardinality(OtpReq) - 1
      BY DEF GuessInv, GuessesBounded
    <2>1. CASE right \/ j # i
      <3>1. Comparing(j)' = Comparing(j)
        <4>1. ~(q.pc = "write" /\ q.code = j /\ ~q.right)
          BY <2>1
        <4>2. otpReq' = [otpReq EXCEPT ![r] = q]
          BY <1>2
        <4> HIDE DEF q
        <4> QED BY <1>10, <4>1, <4>2, SameComparing
      <3>2. otp'[j] = otp[j]
        BY <1>2, <1>3, <2>1 DEF GuessInv
      <3> QED BY <2>0, <3>1, <3>2
    <2>2. CASE ~right /\ j = i
      <3>1. Comparing(i)' = Comparing(i) \cup {r}
        <4>1. \A s \in OtpReq : s \in Comparing(i)' <=> s \in Comparing(i) \/ s = r
          BY <1>2, <2>2 DEF Comparing, GuessInv
        <4> QED BY <4>1 DEF Comparing
      <3>2. /\ Cardinality(Comparing(i) \cup {r}) = Cardinality(Comparing(i)) + 1
            /\ Cardinality(Comparing(i)) + 1 <= Cardinality(OtpReq)
            /\ Cardinality(Comparing(i)) \in Nat /\ Cardinality(OtpReq) \in Nat
        BY <1>10, CountIs
      <3>3. otp'[i].guesses = otp[i].guesses + 1 /\ otp'[i].attempts = otp[i].attempts
        BY <1>1, <1>2, <1>3, <1>4, <1>11, <2>2 DEF GuessInv, Code
      <3>4. otp[i].attempts < MAX_ATTEMPTS /\ otp[i].attempts \in Nat /\ otp[i].guesses \in Nat
        BY <1>1, <1>4 DEF attemptsLeft, Code
      <3> QED BY <2>0, <2>2, <3>1, <3>2, <3>3, <3>4, SessionAssumption
    <2> QED BY <2>1, <2>2
  <1> QED BY <1>7, <1>8, <1>9, <1>12 DEF GuessInv, GuessesBounded

LEMMA WriteSafe == ASSUME GuessInv, NEW r \in OtpReq, WriteVerify(r) PROVE GuessInv'
  <1>0. PICK i : i = otpReq[r].code
    OBVIOUS
  <1> DEFINE q == [otpReq[r] EXCEPT !.pc = "idle"]
             closed == [otp[i] EXCEPT !.consumed = TRUE]
             counted == [otp[i] EXCEPT !.attempts = otp[i].attempts + 1]
  <1>1. otpReq[r].pc = "write" /\ i \in Codes
    BY <1>0 DEF WriteVerify, GuessInv
  <1>2. /\ otpReq' = [otpReq EXCEPT ![r] = q]
        /\ otp' = IF otpReq[r].right THEN [otp EXCEPT ![i] = closed] ELSE [otp EXCEPT ![i] = counted]
    BY <1>0 DEF WriteVerify
  <1>3. Codes = 1..Len(otp) /\ Len(otp) \in Nat
    BY DEF Codes, GuessInv
  <1>4. otp[i] \in Code /\ q \in OtpRequest /\ q.pc = "idle"
    BY <1>1, <1>3, ElementOfSeq DEF GuessInv, OtpRequest
  <1>5. /\ closed \in Code /\ closed.guesses = otp[i].guesses /\ closed.attempts = otp[i].attempts
        /\ counted \in Code /\ counted.guesses = otp[i].guesses
        /\ counted.attempts = otp[i].attempts + 1
        /\ otp[i].attempts \in Nat /\ otp[i].guesses \in Nat
    <2>1. PICK c \in Code : c = otp[i]
      BY <1>4
    <2>2. closed = [c EXCEPT !.consumed = TRUE] /\ counted = [c EXCEPT !.attempts = c.attempts + 1]
      BY <2>1
    <2> HIDE DEF closed, counted
    <2>3. closed \in Code /\ closed.guesses = c.guesses /\ closed.attempts = c.attempts
      BY <2>1, <2>2 DEF Code
    <2>4. counted \in Code /\ counted.guesses = c.guesses /\ counted.attempts = c.attempts + 1
      BY <2>1, <2>2 DEF Code
    <2> QED BY <2>1, <2>3, <2>4 DEF Code
  <1> HIDE DEF q, closed, counted
  <1>6. otp' \in Seq(Code) /\ Codes' = Codes
    BY <1>1, <1>2, <1>3, <1>5 DEF Codes, GuessInv
  <1>7. /\ otpReq' \in [OtpReq -> OtpRequest]
        /\ \A s \in OtpReq : otpReq'[s].pc = "write" => otpReq'[s].code \in Codes'
    BY <1>2, <1>4, <1>6 DEF GuessInv
  <1>8. ASSUME NEW j \in Codes
        PROVE  /\ otp'[j].guesses = otp'[j].attempts + Cardinality(Comparing(j)')
               /\ otp'[j].guesses <= MAX_ATTEMPTS + Cardinality(OtpReq) - 1
    <2>0. /\ otp[j].guesses = otp[j].attempts + Cardinality(Comparing(j))
          /\ otp[j].guesses <= MAX_ATTEMPTS + Cardinality(OtpReq) - 1
      BY DEF GuessInv, GuessesBounded
    <2>1. CASE j # i \/ otpReq[r].right
      <3>1. r \notin Comparing(j)
        BY <1>0, <2>1 DEF Comparing
      <3>2. Comparing(j)' = Comparing(j)
        BY <1>2, <1>4, <3>1, SameComparing
      <3>3. otp'[j].guesses = otp[j].guesses /\ otp'[j].attempts = otp[j].attempts
        BY <1>1, <1>2, <1>3, <1>5, <2>1 DEF GuessInv
      <3> QED BY <2>0, <3>2, <3>3
    <2>2. CASE j = i /\ ~otpReq[r].right
      <3>1. r \in Comparing(i)
        BY <1>0, <1>1, <2>2 DEF Comparing
      <3>2. Comparing(i)' = Comparing(i) \ {r}
        <4>1. \A s \in OtpReq : s \in Comparing(i)' <=> s \in Comparing(i) /\ s # r
          BY <1>2, <1>4 DEF Comparing, GuessInv
        <4> QED BY <4>1 DEF Comparing
      <3>3. /\ Cardinality(Comparing(i) \ {r}) = Cardinality(Comparing(i)) - 1
            /\ Cardinality(Comparing(i)) \in Nat
        BY <3>1, CountIs
      <3>4. otp'[i].guesses = otp[i].guesses /\ otp'[i].attempts = otp[i].attempts + 1
        BY <1>1, <1>2, <1>3, <1>5, <2>2 DEF GuessInv
      <3> QED BY <1>5, <2>0, <2>2, <3>2, <3>3, <3>4
    <2> QED BY <2>1, <2>2
  <1> QED BY <1>6, <1>7, <1>8 DEF GuessInv, GuessesBounded

LEMMA ExpirySafe == ASSUME GuessInv, CodeExpires PROVE GuessInv'
  <1>1. PICK i \in Codes : otp' = [otp EXCEPT ![i].expired = TRUE]
    BY DEF CodeExpires
  <1> DEFINE c == [otp[i] EXCEPT !.expired = TRUE]
  <1>2. Codes = 1..Len(otp) /\ Len(otp) \in Nat /\ otpReq' = otpReq
    BY DEF Codes, GuessInv, CodeExpires
  <1>3. otp[i] \in Code
    BY <1>2, ElementOfSeq DEF GuessInv
  <1>4. c \in Code /\ c.guesses = otp[i].guesses /\ c.attempts = otp[i].attempts
    BY <1>3 DEF Code
  <1>5. otp' = [otp EXCEPT ![i] = c]
    BY <1>1
  <1> HIDE DEF c
  <1>6. otp' \in Seq(Code) /\ Codes' = Codes
    BY <1>2, <1>4, <1>5 DEF Codes, GuessInv
  <1>7. \A j \in Codes : otp'[j].guesses = otp[j].guesses /\ otp'[j].attempts = otp[j].attempts
    BY <1>2, <1>4, <1>5 DEF GuessInv
  <1>8. \A j : Comparing(j)' = Comparing(j)
    BY <1>2 DEF Comparing
  <1> QED BY <1>2, <1>6, <1>7, <1>8 DEF GuessInv, GuessesBounded

\* However calls, tabs and guesses overlap, tokens and codes are what they should be, and the
\* wrong codes compared with one code stay within the attempts and the other requests in flight
\* (auth.service.ts, otp.service.ts, api-client.ts).
THEOREM SessionsSafe == SessionSpec => []SessionTypeOK /\ []GuessesBounded
  <1> DEFINE Inv == TokensOK /\ GuessInv
  <1>1. SessionInit => Inv
    <2> SUFFICES ASSUME SessionInit PROVE Inv
      OBVIOUS
    <2>1. TokensOK
      BY SessionAssumption DEF SessionInit, TokensOK, Token, Refresh, Call, User, NoRefresh
    <2>2. otp \in Seq(Code) /\ Codes = {}
      BY DEF SessionInit, Codes
    <2>3. /\ otpReq \in [OtpReq -> OtpRequest]
          /\ \A r \in OtpReq : otpReq[r].pc = "idle"
      BY DEF SessionInit, OtpRequest
    <2> QED BY <2>1, <2>2, <2>3 DEF GuessInv, GuessesBounded
  <1>2. Inv /\ [SessionNext]_sessionVars => Inv'
    <2> SUFFICES ASSUME TokensOK, GuessInv, [SessionNext]_sessionVars PROVE Inv'
      OBVIOUS
    <2>1. CASE UNCHANGED sessionVars
      BY <2>1 DEF sessionVars, tokenVars, otpVars, TokensOK, GuessInv, Codes, Comparing, GuessesBounded
    <2>2. CASE TokenNext
      <3>1. UNCHANGED otpVars
        BY <2>2 DEF TokenNext, AccessExpires, SignInElsewhere, Logout, ServeRefresh, RefreshLost,
                    RefreshSettles, SendFetch, FetchAnswered
      <3>2. GuessInv'
        BY <3>1 DEF otpVars, GuessInv, Codes, Comparing, GuessesBounded
      <3> QED BY <2>2, <3>2, TokensSafe
    <2>3. CASE OtpNext
      <3>1. UNCHANGED tokenVars
        BY <2>3 DEF OtpNext, RequestCode, CreateCode, VerifyCode, WriteVerify, CodeExpires
      <3>2. TokensOK'
        BY <3>1 DEF tokenVars, TokensOK
      <3>3. GuessInv'
        BY <2>3, RequestSafe, CreateSafe, VerifySafe, WriteSafe, ExpirySafe DEF OtpNext
      <3> QED BY <3>2, <3>3
    <2> QED BY <2>1, <2>2, <2>3 DEF SessionNext
  <1>3. Inv => SessionTypeOK /\ GuessesBounded
    <2> SUFFICES ASSUME TokensOK, GuessInv PROVE SessionTypeOK
      BY DEF GuessInv
    <2>1. \A i \in Codes : otp[i].attempts \in Nat /\ otp[i].consumed \in BOOLEAN
      <3>1. \A i \in Codes : otp[i] \in Code
        BY ElementOfSeq DEF GuessInv, Codes
      <3> QED BY <3>1 DEF Code
    <2>2. \A r \in OtpReq : otpReq[r].pc \in {"idle", "create", "write"}
      BY DEF GuessInv, OtpRequest
    <2> QED BY <2>1, <2>2 DEF SessionTypeOK, TokensOK, Token, Refresh, Call, User
  <1> QED BY <1>1, <1>2, <1>3, PTL DEF SessionSpec

-----------------------------------------------------------------------------
\* Hearings.

\* What is about to be written leaves the date that is there, and a ticket has no previous
\* hearing without a next one, nor on the same date.
HearInv ==
    /\ HearingTypeOK
    /\ \A t \in HearingTicket : LET d == docket[t] IN
          /\ d.scheduledDate = 0 => d.previousHearingDate = 0
          /\ d.scheduledDate # 0 => d.scheduledDate # d.previousHearingDate
    /\ clerkCall # NoCall =>
          LET old == docket[clerkCall.ticket].scheduledDate IN
          clerkCall.movedAwayFrom = IF old # clerkCall.date THEN old ELSE 0

CallType == [ticket : HearingTicket, date : HearingDate, movedAwayFrom : DateOrNone]

LEMMA CallIs ==
    ASSUME HearingTypeOK
    PROVE  /\ clerkCall # NoCall =>
                /\ clerkCall \in CallType /\ clerkCall.ticket \in HearingTicket
                /\ clerkCall.date \in HearingDate /\ clerkCall.date # 0
                /\ clerkCall.movedAwayFrom \in DateOrNone
           /\ \A t \in HearingTicket : /\ docket[t] \in DocketRow
                                       /\ docket[t].scheduledDate \in DateOrNone
                                       /\ docket[t].previousHearingDate \in DateOrNone
  BY HearingAssumption DEF HearingTypeOK, CallType, DocketRow

LEMMA ReadSafe == ASSUME HearInv, ReadHearing PROVE HearInv'
  <1>1. PICK t \in HearingTicket, date \in HearingDate :
          clerkCall' = [ticket |-> t, date |-> date,
                        movedAwayFrom |-> IF docket[t].scheduledDate # date
                                          THEN docket[t].scheduledDate ELSE 0]
    BY DEF ReadHearing
  <1>2. docket[t].scheduledDate \in DateOrNone /\ 0 \in DateOrNone
    BY CallIs DEF HearInv, DateOrNone
  <1>3. clerkCall' \in CallType
    BY <1>1, <1>2 DEF CallType
  <1> QED BY <1>1, <1>3 DEF ReadHearing, HearInv, HearingTypeOK, CallType

\* Where the date of a ticket moves, and where it does not.
LEMMA RecordIs ==
    ASSUME HearInv, RecordNextHearing
    PROVE  LET k == clerkCall.ticket
               d == docket[k]
               e == [d EXCEPT !.scheduledDate = clerkCall.date,
                              !.previousHearingDate = IF clerkCall.movedAwayFrom # 0
                                                      THEN clerkCall.movedAwayFrom ELSE d.previousHearingDate]
           IN  /\ k \in HearingTicket /\ docket' = [docket EXCEPT ![k] = e] /\ e \in DocketRow
               /\ e.scheduledDate = clerkCall.date /\ clerkCall.date # 0
               /\ e.scheduledDate # e.previousHearingDate
               /\ d.scheduledDate # 0 /\ clerkCall.date # d.scheduledDate
                    => e.previousHearingDate = d.scheduledDate
  <1> DEFINE k == clerkCall.ticket
             d == docket[k]
             was == IF clerkCall.movedAwayFrom # 0 THEN clerkCall.movedAwayFrom
                    ELSE d.previousHearingDate
             e == [d EXCEPT !.scheduledDate = clerkCall.date, !.previousHearingDate = was]
  <1>1. /\ clerkCall # NoCall /\ k \in HearingTicket /\ d \in DocketRow
        /\ clerkCall.date \in HearingDate /\ clerkCall.date # 0
        /\ clerkCall.movedAwayFrom = IF d.scheduledDate # clerkCall.date THEN d.scheduledDate ELSE 0
        /\ d.scheduledDate = 0 => d.previousHearingDate = 0
        /\ d.scheduledDate # 0 => d.scheduledDate # d.previousHearingDate
        /\ clerkCall.movedAwayFrom \in DateOrNone /\ d.previousHearingDate \in DateOrNone
    BY CallIs DEF RecordNextHearing, HearInv
  <1>2. docket' = [docket EXCEPT ![k] = e]
    <2>1. docket' = [docket EXCEPT
             ![k].scheduledDate = clerkCall.date,
             ![k].previousHearingDate = IF clerkCall.movedAwayFrom # 0
                                        THEN clerkCall.movedAwayFrom ELSE docket[k].previousHearingDate]
      BY DEF RecordNextHearing
    <2>2. docket \in [HearingTicket -> DocketRow]
      BY DEF HearInv, HearingTypeOK
    <2>3. [docket EXCEPT ![k].scheduledDate = clerkCall.date, ![k].previousHearingDate = was]
            = [docket EXCEPT ![k] = e]
      <3> HIDE DEF was
      <3> QED BY <1>1, <2>2
    <2> HIDE DEF e
    <2> QED BY <2>1, <2>3
  <1>3. was \in DateOrNone
    BY <1>1
  <1> HIDE DEF was
  <1>4. e \in DocketRow /\ e.scheduledDate = clerkCall.date /\ e.previousHearingDate = was
    <2> HIDE DEF d
    <2> QED BY <1>1, <1>3 DEF DocketRow, DateOrNone
  <1>5. clerkCall.date # was
    BY <1>1 DEF was
  <1>6. d.scheduledDate # 0 /\ clerkCall.date # d.scheduledDate => was = d.scheduledDate
    BY <1>1 DEF was
  <1> HIDE DEF e
  <1>7. /\ k \in HearingTicket /\ docket' = [docket EXCEPT ![k] = e] /\ e \in DocketRow
        /\ e.scheduledDate = clerkCall.date /\ clerkCall.date # 0
        /\ e.scheduledDate # e.previousHearingDate
        /\ d.scheduledDate # 0 /\ clerkCall.date # d.scheduledDate
             => e.previousHearingDate = d.scheduledDate
    BY <1>1, <1>2, <1>4, <1>5, <1>6
  <1> QED BY <1>7 DEF e, was

\* The other steps leave the dates as they are.
LEMMA DatesStay ==
    ASSUME HearingTypeOK, NEW t \in HearingTicket, DocketMoves(t)
    PROVE  \E d \in DocketRow :
              /\ docket' = [docket EXCEPT ![t] = d]
              /\ d.scheduledDate = docket[t].scheduledDate
              /\ d.previousHearingDate = docket[t].previousHearingDate
  <1>1. PICK d \in docketSteps(docket[t]) : docket' = [docket EXCEPT ![t] = d]
    BY DEF DocketMoves
  <1>2. PICK c \in DocketRow : c = docket[t]
    BY CallIs
  <1>3. \/ d = [c EXCEPT !.archived = TRUE]
        \/ d = [c EXCEPT !.status = "ASSIGNED", !.active = TRUE]
        \/ d = [c EXCEPT !.status = "IN_PROGRESS"]
        \/ d = [c EXCEPT !.status = "WAITING_APPROVAL"]
        \/ d = [c EXCEPT !.status = "COMPLETED", !.active = FALSE]
    BY <1>1, <1>2 DEF docketSteps, DocketRow, DocketStatus
  <1>4. d \in DocketRow /\ d.scheduledDate = c.scheduledDate /\ d.previousHearingDate = c.previousHearingDate
    BY <1>3 DEF DocketRow, DocketStatus
  <1> QED BY <1>1, <1>2, <1>4

\* A list of the tickets that owe a date holds tickets.
LEMMA ListIs == ASSUME HearingTypeOK, ListMissing PROVE reminder' \in Seq(HearingTicket)
  <1>1. PICK S \in SUBSET HearingTicket : S = {t \in HearingTicket : owesDate(t)}
    OBVIOUS
  <1>2. IsFiniteSet(S)
    BY FS_Subset, HearingAssumption
  <1>3. PICK f \in [1..Cardinality(S) -> S] : IsInjective(f)
    <2>1. Cardinality(S) \in Nat
      BY <1>2, FS_CardinalityType
    <2>2. ExistsBijection(1..Cardinality(S), S)
      BY <1>2, FS_CardinalityType
    <2>3. PICK f \in Bijection(1..Cardinality(S), S) : TRUE
      BY <2>2 DEF ExistsBijection
    <2> QED BY <2>3 DEF Bijection, Injection, IsInjective
  <1>4. SetToSeq(S) \in [1..Cardinality(S) -> S]
    BY <1>3 DEF SetToSeq
  <1>5. Cardinality(S) \in Nat
    BY <1>2, FS_CardinalityType
  <1>6. SetToSeq(S) \in Seq(S)
    BY <1>4, <1>5
  <1>7. reminder' = SetToSeq(S)
    BY <1>1 DEF ListMissing
  <1>8. Seq(S) \subseteq Seq(HearingTicket)
    BY <1>1
  <1> QED BY <1>6, <1>7, <1>8

LEMMA ListSafe == ASSUME HearInv, ListMissing PROVE HearInv'
  <1>1. reminder' \in Seq(HearingTicket)
    BY ListIs DEF HearInv
  <1> QED BY <1>1 DEF ListMissing, HearInv, HearingTypeOK

LEMMA RemindSafe == ASSUME HearInv, RemindNext PROVE HearInv'
  <1>1. reminder \in Seq(HearingTicket) /\ reminder # <<>>
    BY DEF HearInv, HearingTypeOK, RemindNext
  <1>2. Head(reminder) \in HearingTicket /\ Tail(reminder) \in Seq(HearingTicket)
    BY <1>1
  <1>3. reminder' \in Seq(HearingTicket) /\ bell' \subseteq HearingTicket
    BY <1>2 DEF RemindNext, HearInv, HearingTypeOK
  <1> QED BY <1>3 DEF RemindNext, HearInv, HearingTypeOK

LEMMA RecordSafe == ASSUME HearInv, RecordNextHearing PROVE HearInv'
  <1>1. PICK k \in HearingTicket, e \in DocketRow :
          /\ docket' = [docket EXCEPT ![k] = e]
          /\ e.scheduledDate # 0 /\ e.scheduledDate # e.previousHearingDate
    BY RecordIs
  <1>2. docket \in [HearingTicket -> DocketRow] /\ docket' \in [HearingTicket -> DocketRow]
    BY <1>1 DEF HearInv, HearingTypeOK
  <1>3. \A t \in HearingTicket : docket'[t] = IF t = k THEN e ELSE docket[t]
    BY <1>1, <1>2
  <1>4. HearingTypeOK'
    BY <1>2 DEF RecordNextHearing, HearInv, HearingTypeOK
  <1>5. (\A t \in HearingTicket : LET d == docket[t] IN
          /\ d.scheduledDate = 0 => d.previousHearingDate = 0
          /\ d.scheduledDate # 0 => d.scheduledDate # d.previousHearingDate)'
    BY <1>1, <1>3 DEF HearInv
  <1>6. clerkCall' = NoCall
    BY DEF RecordNextHearing
  <1> QED BY <1>4, <1>5, <1>6 DEF HearInv

LEMMA DocketSafe ==
    ASSUME HearInv, NEW k \in HearingTicket, DocketMoves(k) PROVE HearInv'
  <1>1. PICK e \in DocketRow :
          /\ docket' = [docket EXCEPT ![k] = e]
          /\ e.scheduledDate = docket[k].scheduledDate
          /\ e.previousHearingDate = docket[k].previousHearingDate
    BY DatesStay DEF HearInv
  <1>2. docket \in [HearingTicket -> DocketRow] /\ docket' \in [HearingTicket -> DocketRow]
    BY <1>1 DEF HearInv, HearingTypeOK
  <1>3. \A t \in HearingTicket : /\ docket'[t].scheduledDate = docket[t].scheduledDate
                                 /\ docket'[t].previousHearingDate = docket[t].previousHearingDate
    BY <1>1, <1>2
  <1>4. /\ clerkCall' = clerkCall /\ reminder' = reminder /\ bell' = bell
        /\ hearingCrashes' = hearingCrashes
    BY DEF DocketMoves
  <1>5. HearingTypeOK'
    BY <1>2, <1>4 DEF HearInv, HearingTypeOK
  <1>6. clerkCall # NoCall => clerkCall.ticket \in HearingTicket
    BY CallIs DEF HearInv
  <1> QED BY <1>3, <1>4, <1>5, <1>6 DEF HearInv

LEMMA HearingStarts == ASSUME HearingInit PROVE HearInv
  <1>1. /\ docket \in [HearingTicket -> DocketRow]
        /\ \A t \in HearingTicket : docket[t].scheduledDate = 0 /\ docket[t].previousHearingDate = 0
    BY DEF HearingInit
  <1>2. reminder \in Seq(HearingTicket)
    BY DEF HearingInit
  <1> QED BY <1>1, <1>2, HearingAssumption DEF HearingInit, HearInv, HearingTypeOK

LEMMA HearingSteps == ASSUME HearInv, [HearingNext]_hearingVars PROVE HearInv'
  <1>1. CASE UNCHANGED hearingVars
    BY <1>1 DEF hearingVars, HearInv, HearingTypeOK, owesDate
  <1>2. CASE ReadHearing
    BY <1>2, ReadSafe
  <1>3. CASE RecordNextHearing
    BY <1>3, RecordSafe
  <1>4. CASE ListMissing
    BY <1>4, ListSafe
  <1>5. CASE RemindNext
    BY <1>5, RemindSafe
  <1>6. CASE HearingProcessDies
    <2>1. reminder' \in Seq(HearingTicket) /\ hearingCrashes' \in 0..HearingCrashLimit
      BY <1>6, HearingAssumption DEF HearingProcessDies, HearInv, HearingTypeOK
    <2> QED BY <1>6, <2>1 DEF HearingProcessDies, HearInv, HearingTypeOK
  <1>7. ASSUME NEW t \in HearingTicket, ReadBell(t) PROVE HearInv'
    BY <1>7 DEF ReadBell, HearInv, HearingTypeOK
  <1>8. ASSUME NEW t \in HearingTicket, DocketMoves(t) PROVE HearInv'
    BY <1>8, DocketSafe
  <1> QED BY <1>1, <1>2, <1>3, <1>4, <1>5, <1>6, <1>7, <1>8 DEF HearingNext

\* One step of the docket, for one ticket.
DateKept(t) ==
    LET old == docket[t].scheduledDate
        new == docket'[t].scheduledDate
    IN  /\ (old # 0 /\ new # old) => docket'[t].previousHearingDate = old
        /\ new # 0 => new # docket'[t].previousHearingDate

LEMMA StayKept ==
    ASSUME HearInv, NEW t \in HearingTicket,
           docket'[t].scheduledDate = docket[t].scheduledDate,
           docket'[t].previousHearingDate = docket[t].previousHearingDate
    PROVE  DateKept(t)
  BY DEF DateKept, HearInv

LEMMA StepKeeps ==
    ASSUME HearInv, [HearingNext]_hearingVars, NEW t \in HearingTicket PROVE DateKept(t)
  <1>0. docket \in [HearingTicket -> DocketRow]
    BY DEF HearInv, HearingTypeOK
  <1>1. CASE RecordNextHearing
    <2>1. PICK k \in HearingTicket, e \in DocketRow :
            /\ docket' = [docket EXCEPT ![k] = e]
            /\ e.scheduledDate # 0 /\ e.scheduledDate # e.previousHearingDate
            /\ docket[k].scheduledDate # 0 /\ e.scheduledDate # docket[k].scheduledDate
                 => e.previousHearingDate = docket[k].scheduledDate
      BY <1>1, RecordIs
    <2>2. CASE t = k
      BY <1>0, <2>1, <2>2 DEF DateKept
    <2>3. CASE t # k
      BY <1>0, <2>1, <2>3, StayKept
    <2> QED BY <2>2, <2>3
  <1>2. ASSUME NEW k \in HearingTicket, DocketMoves(k) PROVE DateKept(t)
    <2>1. PICK e \in DocketRow :
            /\ docket' = [docket EXCEPT ![k] = e]
            /\ e.scheduledDate = docket[k].scheduledDate
            /\ e.previousHearingDate = docket[k].previousHearingDate
      BY <1>2, DatesStay DEF HearInv
    <2> QED BY <1>0, <2>1, StayKept
  <1>3. CASE docket' = docket
    BY <1>3, StayKept
  <1> QED BY <1>1, <1>2, <1>3
        DEF HearingNext, hearingVars, ReadHearing, ListMissing, RemindNext, HearingProcessDies,
            ReadBell

\* The docket keeps the date that a reschedule leaves (recordNextHearing of
\* tickets.service.ts), whatever the clerks, the reminder job and its crashes do meanwhile.
THEOREM HearingsSafe == HearingSpec => HearingsAreKept
  <1>1. HearingSpec => []HearInv
    BY HearingStarts, HearingSteps, PTL DEF HearingSpec
  <1>2. HearInv => HearingTypeOK
    BY DEF HearInv
  <1>3. HearInv /\ [HearingNext]_hearingVars =>
          [\A t \in HearingTicket :
             LET old == docket[t].scheduledDate
                 new == docket'[t].scheduledDate
             IN  /\ (old # 0 /\ new # old) => docket'[t].previousHearingDate = old
                 /\ new # 0 => new # docket'[t].previousHearingDate]_hearingVars
    BY StepKeeps DEF DateKept
  <1> QED BY <1>1, <1>2, <1>3, PTL DEF HearingSpec, HearingsAreKept, PreviousHearingKept

-----------------------------------------------------------------------------
\* Documents.

DocTicketType == [status : DocStatus, archived : BOOLEAN, reopened : BOOLEAN,
                  by : {"nobody", "review", "other"}]
DocRowType == [stored : BOOLEAN, visible : BOOLEAN, excused : BOOLEAN]
UploadType == [pc : {"none", "create", "bell", "done"}, visible : BOOLEAN, status : DocStatus]

\* The ticket: what is completed was completed by somebody, and stays so until it is reopened.
TicketIsTrue(t, rel) ==
    /\ t \in DocTicketType /\ rel \in 0..ReviewLimit
    /\ Done(t.status) => t.by # "nobody"
    /\ t.by # "nobody" /\ ~t.reopened => Done(t.status)
    /\ rel > 0 => t.by # "nobody"

\* A document: a completed status that its upload has read was that of the ticket.
DocIsTrue(row, up, rung, t) ==
    /\ row \in DocRowType /\ up \in UploadType
    /\ up.pc # "none" /\ Done(up.status) => t.by # "nobody"
    /\ row.stored <=> up.pc \in {"bell", "done"}
    /\ rung => row.stored /\ t.by # "nobody"

\* A document that is visible has its bell, or an upload that is about to ring.
Heard(row, up, rung) ==
    row.stored /\ row.visible /\ ~row.excused =>
        rung \/ (up.pc = "bell" /\ up.visible /\ Done(up.status))

MustBeHeard(t, rel) == t.by = "review" /\ rel = 0 /\ Done(t.status)

\* The inductive invariant.
DocInv ==
    /\ doc = [d \in Doc |-> doc[d]] /\ docUpload = [d \in Doc |-> docUpload[d]]
    /\ docBell \subseteq Doc
    /\ TicketIsTrue(docTicket, release)
    /\ \A d \in Doc : /\ DocIsTrue(doc[d], docUpload[d], d \in docBell, docTicket)
                      /\ MustBeHeard(docTicket, release) => Heard(doc[d], docUpload[d], d \in docBell)

\* A step of one document.
LEMMA OneDocument ==
    ASSUME DocInv, NEW d \in Doc, NEW row, NEW up, NEW rung \in BOOLEAN,
           doc' = [doc EXCEPT ![d] = row], docUpload' = [docUpload EXCEPT ![d] = up],
           docBell' = IF rung THEN docBell \cup {d} ELSE docBell,
           UNCHANGED <<docTicket, release>>,
           DocIsTrue(row, up, d \in docBell \/ rung, docTicket),
           MustBeHeard(docTicket, release) => Heard(row, up, d \in docBell \/ rung)
    PROVE  DocInv'
  <1>1. /\ doc' = [e \in Doc |-> doc'[e]] /\ docUpload' = [e \in Doc |-> docUpload'[e]]
        /\ docBell' \subseteq Doc
        /\ \A e \in Doc : /\ doc'[e] = IF e = d THEN row ELSE doc[e]
                          /\ docUpload'[e] = IF e = d THEN up ELSE docUpload[e]
                          /\ (e \in docBell') <=> (e \in docBell \/ (e = d /\ rung))
    BY DEF DocInv
  <1>2. TicketIsTrue(docTicket, release)'
    BY DEF DocInv
  <1>3. ASSUME NEW e \in Doc
        PROVE  /\ DocIsTrue(doc[e], docUpload[e], e \in docBell, docTicket)'
               /\ (MustBeHeard(docTicket, release) => Heard(doc[e], docUpload[e], e \in docBell))'
    <2>1. CASE e = d
      <3>1. /\ doc'[e] = row /\ docUpload'[e] = up /\ docTicket' = docTicket /\ release' = release
            /\ (e \in docBell') = (d \in docBell \/ rung)
        BY <1>1, <2>1
      <3> QED BY <3>1
    <2>2. CASE e # d
      <3>1. /\ doc'[e] = doc[e] /\ docUpload'[e] = docUpload[e] /\ docTicket' = docTicket
            /\ release' = release /\ (e \in docBell') = (e \in docBell)
        BY <1>1, <2>2
      <3> QED BY <3>1 DEF DocInv
    <2> QED BY <2>1, <2>2
  <1> QED BY <1>1, <1>2, <1>3 DEF DocInv

LEMMA UploadsSafe ==
    ASSUME DocInv, NEW d \in Doc, StartUpload(d) \/ CreateDoc(d) \/ UploadBell(d)
    PROVE  DocInv'
  <1> DEFINE row == doc[d]
             up == docUpload[d]
             rings == d \in docBell
  <1>1. /\ doc = [e \in Doc |-> doc[e]] /\ docUpload = [e \in Doc |-> docUpload[e]]
        /\ TicketIsTrue(docTicket, release) /\ DocIsTrue(row, up, rings, docTicket)
        /\ MustBeHeard(docTicket, release) => Heard(row, up, rings)
    BY DEF DocInv
  <1>2. row \in DocRowType /\ up \in UploadType /\ docTicket \in DocTicketType
    BY <1>1 DEF DocIsTrue, TicketIsTrue
  <1>3. row.stored \in BOOLEAN /\ row.visible \in BOOLEAN /\ row.excused \in BOOLEAN
    BY <1>2 DEF DocRowType
  <1>4. up.pc \in {"none", "create", "bell", "done"} /\ up.visible \in BOOLEAN /\ up.status \in DocStatus
    BY <1>2 DEF UploadType
  <1>5. docTicket.status \in DocStatus
    BY <1>2 DEF DocTicketType
  <1>6. CASE StartUpload(d)
    <2>1. PICK v \in BOOLEAN :
            docUpload' = [docUpload EXCEPT ![d] = [pc |-> "create", status |-> docTicket.status,
                                                   visible |-> v]]
      BY <1>6 DEF StartUpload
    <2>2. up.pc = "none" /\ UNCHANGED <<docTicket, doc, release, docBell>>
      BY <1>6 DEF StartUpload
    <2> DEFINE new == [pc |-> "create", status |-> docTicket.status, visible |-> v]
    <2>3. new \in UploadType /\ new.pc = "create" /\ new.status = docTicket.status
      BY <1>5 DEF UploadType
    <2>4. doc' = [doc EXCEPT ![d] = row]
      BY <1>1, <2>2
    <2>5. docUpload' = [docUpload EXCEPT ![d] = new]
      BY <2>1
    <2> HIDE DEF new
    <2>6. DocIsTrue(row, new, rings \/ FALSE, docTicket) /\ Heard(row, new, rings \/ FALSE)
      BY <1>1, <2>2, <2>3 DEF DocIsTrue, TicketIsTrue, Heard
    <2> QED BY <2>2, <2>4, <2>5, <2>6, OneDocument
  <1>7. CASE CreateDoc(d)
    <2> DEFINE e == Done(docTicket.status) /\ ~Done(up.status)
               made == [stored |-> TRUE, visible |-> up.visible, excused |-> e]
               new == [up EXCEPT !.pc = "bell"]
    <2>1. /\ up.pc = "create" /\ doc' = [doc EXCEPT ![d] = made]
          /\ UNCHANGED <<docTicket, release, docBell>>
      BY <1>7 DEF CreateDoc
    <2>2. docUpload' = [docUpload EXCEPT ![d] = new]
      BY <1>1, <1>7 DEF CreateDoc
    <2>3. new \in UploadType /\ new.pc = "bell" /\ new.status = up.status /\ new.visible = up.visible
      BY <1>2 DEF UploadType
    <2>4. e \in BOOLEAN
      BY DEF Done
    <2>5. /\ made \in DocRowType /\ made.stored /\ made.visible = up.visible
          /\ made.excused = (Done(docTicket.status) /\ ~Done(up.status))
      BY <1>4, <2>4 DEF DocRowType
    <2> HIDE DEF made, new
    <2>6. DocIsTrue(made, new, rings \/ FALSE, docTicket)
      BY <1>1, <2>1, <2>3, <2>5 DEF DocIsTrue
    <2>7. MustBeHeard(docTicket, release) => Heard(made, new, rings \/ FALSE)
      BY <2>3, <2>5 DEF MustBeHeard, Heard
    <2> QED BY <2>1, <2>2, <2>6, <2>7, OneDocument
  <1>8. CASE UploadBell(d)
    <2> DEFINE rung == up.visible /\ Done(up.status)
               new == [up EXCEPT !.pc = "done"]
    <2>1. /\ up.pc = "bell" /\ docBell' = IF rung THEN docBell \cup {d} ELSE docBell
          /\ UNCHANGED <<docTicket, doc, release>>
      BY <1>8 DEF UploadBell
    <2>2. docUpload' = [docUpload EXCEPT ![d] = new]
      BY <1>1, <1>8 DEF UploadBell
    <2>3. new \in UploadType /\ new.pc = "done" /\ new.status = up.status
      BY <1>2 DEF UploadType
    <2>4. rung \in BOOLEAN /\ (rung <=> up.visible /\ Done(up.status))
      BY <1>4 DEF Done
    <2>5. doc' = [doc EXCEPT ![d] = row]
      BY <1>1, <2>1
    <2> HIDE DEF rung, new
    <2>6. DocIsTrue(row, new, rings \/ rung, docTicket)
      BY <1>1, <2>1, <2>3, <2>4 DEF DocIsTrue
    <2>7. MustBeHeard(docTicket, release) => Heard(row, new, rings \/ rung)
      BY <1>1, <2>3, <2>4 DEF Heard
    <2> QED BY <2>1, <2>2, <2>4, <2>5, <2>6, <2>7, OneDocument
  <1> QED BY <1>6, <1>7, <1>8

LEMMA PatchSafe == ASSUME DocInv, NEW d \in Doc, PatchDocument(d) PROVE DocInv'
  <1> DEFINE row == doc[d]
             up == docUpload[d]
             rings == d \in docBell
  <1>1. /\ doc = [e \in Doc |-> doc[e]] /\ docUpload = [e \in Doc |-> docUpload[e]]
        /\ DocIsTrue(row, up, rings, docTicket)
        /\ MustBeHeard(docTicket, release) => Heard(row, up, rings)
    BY DEF DocInv
  <1>2. row \in DocRowType
    BY <1>1 DEF DocIsTrue
  <1>3. row.stored \in BOOLEAN /\ row.visible \in BOOLEAN /\ row.excused \in BOOLEAN
    BY <1>2 DEF DocRowType
  <1>4. PICK v \in BOOLEAN :
          doc' = [doc EXCEPT ![d] = [stored |-> TRUE, visible |-> v,
                                     excused |-> row.excused \/ (v /\ ~row.visible)]]
    BY DEF PatchDocument
  <1> DEFINE e == row.excused \/ (v /\ ~row.visible)
             new == [stored |-> TRUE, visible |-> v, excused |-> e]
  <1>e. e \in BOOLEAN
    OBVIOUS
  <1>5. /\ new \in DocRowType /\ new.stored /\ new.visible = v
        /\ new.excused = (row.excused \/ (v /\ ~row.visible))
    BY <1>3, <1>e DEF DocRowType
  <1>6. doc' = [doc EXCEPT ![d] = new]
    BY <1>4
  <1>p. row.stored
    BY DEF PatchDocument
  <1>7. UNCHANGED <<docTicket, docUpload, release, docBell>> /\ docUpload' = [docUpload EXCEPT ![d] = up]
    BY <1>1 DEF PatchDocument
  <1> HIDE DEF new
  <1>8. DocIsTrue(new, up, rings \/ FALSE, docTicket)
    BY <1>1, <1>5, <1>p DEF DocIsTrue
  <1>9. MustBeHeard(docTicket, release) => Heard(new, up, rings \/ FALSE)
    BY <1>1, <1>3, <1>5, <1>p DEF Heard
  <1> QED BY <1>6, <1>7, <1>8, <1>9, OneDocument

\* A move of the ticket keeps what is true of it.
LEMMA MovedIsTrue ==
    ASSUME TicketIsTrue(docTicket, release), NEW s \in DocStatus, NEW by \in {"review", "other"},
           NEW rel \in 0..ReviewLimit, rel <= release \/ Done(s)
    PROVE  /\ TicketIsTrue(Moved(s, by), rel)
           /\ docTicket.by # "nobody" => Moved(s, by).by # "nobody"
           /\ by = "other" /\ MustBeHeard(Moved(s, by), rel) => docTicket.by = "review" /\ Done(docTicket.status)
  <1> DEFINE again == docTicket.reopened \/ (Done(docTicket.status) /\ ~Done(s))
             who == IF Done(s) /\ ~Done(docTicket.status) THEN by ELSE docTicket.by
             new == [docTicket EXCEPT !.status = s, !.reopened = again, !.by = who]
  <1>1. docTicket \in DocTicketType /\ release \in 0..ReviewLimit
    BY DEF TicketIsTrue
  <1>2. docTicket.reopened \in BOOLEAN /\ docTicket.by \in {"nobody", "review", "other"}
    BY <1>1 DEF DocTicketType
  <1>3. again \in BOOLEAN /\ who \in {"nobody", "review", "other"}
    BY <1>2 DEF Done
  <1>4. Moved(s, by) = new
    BY DEF Moved
  <1>5. /\ new \in DocTicketType /\ new.status = s /\ new.by = who
        /\ new.reopened = (docTicket.reopened \/ (Done(docTicket.status) /\ ~Done(s)))
    BY <1>1, <1>3 DEF DocTicketType
  <1>6. who = IF Done(s) /\ ~Done(docTicket.status) THEN by ELSE docTicket.by
    OBVIOUS
  <1> HIDE DEF new, who, again
  <1>7. rel > 0 => who # "nobody"
    BY <1>1, <1>6 DEF TicketIsTrue, DocAssumption
  <1>8. TicketIsTrue(new, rel)
    BY <1>5, <1>6, <1>7 DEF TicketIsTrue
  <1>9. docTicket.by # "nobody" => new.by # "nobody"
    BY <1>5, <1>6
  <1>10. by = "other" /\ MustBeHeard(new, rel) => docTicket.by = "review" /\ Done(docTicket.status)
    BY <1>5, <1>6 DEF MustBeHeard
  <1> QED BY <1>4, <1>8, <1>9, <1>10

\* A step of the ticket that touches no document.
LEMMA TicketStep ==
    ASSUME DocInv, UNCHANGED <<doc, docUpload, docBell>>, TicketIsTrue(docTicket, release)',
           docTicket.by # "nobody" => docTicket'.by # "nobody",
           MustBeHeard(docTicket, release)' => MustBeHeard(docTicket, release)
    PROVE  DocInv'
  BY DEF DocInv, DocIsTrue

LEMMA TicketsMoveSafe ==
    ASSUME DocInv, CompleteReview \/ DocTicketMoves \/ RestoreDocTicket PROVE DocInv'
  <1>1. TicketIsTrue(docTicket, release) /\ UNCHANGED <<doc, docUpload, docBell>>
    BY DEF DocInv, CompleteReview, DocTicketMoves, RestoreDocTicket
  <1>2. release \in 0..ReviewLimit /\ ReviewLimit \in Nat
    BY <1>1, DocAssumption DEF TicketIsTrue
  <1>3. CASE CompleteReview
    <2>1. PICK s \in {"COMPLETED", "DELIVERED"} : docTicket' = Moved(s, "review")
      BY <1>3 DEF CompleteReview
    <2>2. release' \in 0..ReviewLimit /\ release' # 0
      BY <1>2, <1>3 DEF CompleteReview
    <2>3. s \in DocStatus /\ Done(s)
      BY DEF DocStatus, Done
    <2>4. /\ TicketIsTrue(Moved(s, "review"), release')
          /\ docTicket.by # "nobody" => Moved(s, "review").by # "nobody"
      BY <1>1, <2>2, <2>3, MovedIsTrue
    <2>5. ~MustBeHeard(docTicket, release)'
      BY <2>2 DEF MustBeHeard
    <2> QED BY <1>1, <2>1, <2>4, <2>5, TicketStep
  <1>4. CASE DocTicketMoves
    <2>1. PICK s \in DocStatus : docTicket' = Moved(s, "other")
      BY <1>4 DEF DocTicketMoves
    <2>2. release' = release
      BY <1>4 DEF DocTicketMoves
    <2>3. /\ TicketIsTrue(Moved(s, "other"), release)
          /\ docTicket.by # "nobody" => Moved(s, "other").by # "nobody"
          /\ MustBeHeard(Moved(s, "other"), release) => docTicket.by = "review" /\ Done(docTicket.status)
      BY <1>1, <1>2, MovedIsTrue
    <2>4. MustBeHeard(docTicket, release)' => MustBeHeard(docTicket, release)
      BY <2>1, <2>2, <2>3 DEF MustBeHeard
    <2> QED BY <1>1, <2>1, <2>2, <2>3, <2>4, TicketStep
  <1>5. CASE RestoreDocTicket
    <2>1. docTicket \in DocTicketType /\ docTicket' = [docTicket EXCEPT !.archived = FALSE]
          /\ release' = release
      BY <1>1, <1>5 DEF TicketIsTrue, RestoreDocTicket
    <2>2. /\ docTicket' \in DocTicketType /\ docTicket'.status = docTicket.status
          /\ docTicket'.by = docTicket.by /\ docTicket'.reopened = docTicket.reopened
      BY <2>1 DEF DocTicketType
    <2>3. TicketIsTrue(docTicket, release)'
      BY <1>1, <2>1, <2>2 DEF TicketIsTrue
    <2>4. MustBeHeard(docTicket, release)' => MustBeHeard(docTicket, release)
      BY <2>1, <2>2 DEF MustBeHeard
    <2> QED BY <1>1, <2>2, <2>3, <2>4, TicketStep
  <1> QED BY <1>3, <1>4, <1>5

\* A step that writes the history of every document: only whether it is excused.
LEMMA AllDocuments ==
    ASSUME DocInv, NEW excuse \in [Doc -> BOOLEAN],
           doc' = [d \in Doc |-> [doc[d] EXCEPT !.excused = excuse[d]]],
           docUpload' = docUpload, docBell' \subseteq Doc, TicketIsTrue(docTicket, release)',
           docTicket'.by = docTicket.by,
           \A d \in Doc : d \in docBell' => d \in docBell \/ (doc[d].stored /\ docTicket.by # "nobody"),
           MustBeHeard(docTicket, release)' =>
             \A d \in Doc : doc[d].stored /\ doc[d].visible /\ ~excuse[d] =>
               d \in docBell' \/ (/\ docUpload[d].pc = "bell" /\ docUpload[d].visible
                                  /\ Done(docUpload[d].status))
    PROVE  DocInv'
  <1>1. ASSUME NEW d \in Doc
        PROVE  /\ doc'[d] \in DocRowType /\ doc'[d].stored = doc[d].stored
               /\ doc'[d].visible = doc[d].visible /\ doc'[d].excused = excuse[d]
    <2>1. doc[d] \in DocRowType /\ excuse[d] \in BOOLEAN
      BY DEF DocInv, DocIsTrue
    <2>2. doc'[d] = [doc[d] EXCEPT !.excused = excuse[d]]
      OBVIOUS
    <2> QED BY <2>1, <2>2 DEF DocRowType
  <1>2. ASSUME NEW d \in Doc
        PROVE  DocIsTrue(doc[d], docUpload[d], d \in docBell, docTicket)'
    <2>1. DocIsTrue(doc[d], docUpload[d], d \in docBell, docTicket)
      BY DEF DocInv
    <2> QED BY <1>1, <2>1 DEF DocIsTrue
  <1>3. ASSUME NEW d \in Doc, MustBeHeard(docTicket, release)'
        PROVE  Heard(doc[d], docUpload[d], d \in docBell)'
    BY <1>1, <1>3 DEF Heard
  <1>4. doc' = [d \in Doc |-> doc'[d]] /\ docUpload' = [d \in Doc |-> docUpload'[d]]
    BY DEF DocInv
  <1> QED BY <1>2, <1>3, <1>4 DEF DocInv

LEMMA ReleaseSafe == ASSUME DocInv, releaseHeldDocumentNotification PROVE DocInv'
  <1> DEFINE counted == {d \in Doc : doc[d].stored /\ doc[d].visible}
             excuse == [d \in Doc |-> doc[d].excused /\ d \notin counted]
  <1>1. /\ release > 0 /\ release' = release - 1 /\ UNCHANGED <<docTicket, docUpload>>
        /\ docBell' = docBell \cup counted
        /\ doc' = [d \in Doc |-> [doc[d] EXCEPT !.excused = doc[d].excused /\ d \notin counted]]
    BY DEF releaseHeldDocumentNotification
  <1>2. \A d \in Doc : doc[d].excused \in BOOLEAN
    BY DEF DocInv, DocIsTrue, DocRowType
  <1>3. excuse \in [Doc -> BOOLEAN]
    BY <1>2
  <1>4. doc' = [d \in Doc |-> [doc[d] EXCEPT !.excused = excuse[d]]]
    BY <1>1
  <1>5. TicketIsTrue(docTicket, release) /\ docBell \subseteq Doc /\ ReviewLimit \in Nat
    BY DocAssumption DEF DocInv
  <1>6. TicketIsTrue(docTicket, release)' /\ docTicket.by # "nobody"
    BY <1>1, <1>5 DEF TicketIsTrue
  <1>7. /\ docBell' \subseteq Doc
        /\ \A d \in Doc : d \in docBell' => d \in docBell \/ doc[d].stored
        /\ \A d \in Doc : doc[d].stored /\ doc[d].visible => d \in docBell'
    BY <1>1, <1>5
  <1> HIDE DEF excuse
  <1> QED BY <1>1, <1>3, <1>4, <1>6, <1>7, AllDocuments

LEMMA ArchiveSafe == ASSUME DocInv, ArchiveDocTicket PROVE DocInv'
  <1>1. PICK swept \in {{}, docBell} :
          /\ docBell' = docBell \ swept
          /\ doc' = [d \in Doc |-> [doc[d] EXCEPT !.excused = doc[d].excused \/ d \in swept]]
    BY DEF ArchiveDocTicket
  <1> DEFINE excuse == [d \in Doc |-> doc[d].excused \/ d \in swept]
  <1>2. /\ docTicket' = [docTicket EXCEPT !.archived = TRUE] /\ UNCHANGED <<docUpload, release>>
        /\ TicketIsTrue(docTicket, release) /\ docBell \subseteq Doc
    BY DEF ArchiveDocTicket, DocInv
  <1>3. \A d \in Doc : doc[d].excused \in BOOLEAN
    BY DEF DocInv, DocIsTrue, DocRowType
  <1>4. excuse \in [Doc -> BOOLEAN]
    BY <1>3
  <1>5. doc' = [d \in Doc |-> [doc[d] EXCEPT !.excused = excuse[d]]]
    BY <1>1
  <1>6. docTicket \in DocTicketType
    BY <1>2 DEF TicketIsTrue
  <1>7. /\ docTicket' \in DocTicketType /\ docTicket'.status = docTicket.status
        /\ docTicket'.by = docTicket.by /\ docTicket'.reopened = docTicket.reopened
    BY <1>2, <1>6 DEF DocTicketType
  <1>8. TicketIsTrue(docTicket, release)'
    BY <1>2, <1>7 DEF TicketIsTrue
  <1>9. MustBeHeard(docTicket, release)' =>
          \A d \in Doc : Heard(doc[d], docUpload[d], d \in docBell)
    BY <1>2, <1>7 DEF MustBeHeard, DocInv
  <1>10. MustBeHeard(docTicket, release)' =>
           \A d \in Doc : doc[d].stored /\ doc[d].visible /\ ~excuse[d] =>
             d \in docBell' \/ (/\ docUpload[d].pc = "bell" /\ docUpload[d].visible
                                /\ Done(docUpload[d].status))
    BY <1>1, <1>9 DEF Heard
  <1> HIDE DEF excuse
  <1> QED BY <1>1, <1>2, <1>4, <1>5, <1>7, <1>8, <1>10, AllDocuments

LEMMA DocStarts == ASSUME DocInit PROVE DocInv
  <1>1. /\ docTicket \in DocTicketType /\ docTicket.status = "IN_PROGRESS"
        /\ docTicket.by = "nobody" /\ release = 0 /\ docBell = {} /\ release \in 0..ReviewLimit
    BY DocAssumption DEF DocInit, DocTicketType, DocStatus
  <1>2. /\ doc = [d \in Doc |-> doc[d]] /\ docUpload = [d \in Doc |-> docUpload[d]]
        /\ \A d \in Doc : /\ doc[d] \in DocRowType /\ ~doc[d].stored
                          /\ docUpload[d] \in UploadType /\ docUpload[d].pc = "none"
    BY DEF DocInit, NoDoc, DocRowType, UploadType, DocStatus
  <1>3. TicketIsTrue(docTicket, release) /\ ~MustBeHeard(docTicket, release)
    BY <1>1 DEF TicketIsTrue, MustBeHeard, Done
  <1> QED BY <1>1, <1>2, <1>3 DEF DocInv, DocIsTrue

LEMMA DocSteps == ASSUME DocInv, [DocNext]_docVars PROVE DocInv'
  <1>1. CASE UNCHANGED docVars
    BY <1>1 DEF docVars, DocInv
  <1>2. CASE DocNext
    BY <1>2, UploadsSafe, PatchSafe, TicketsMoveSafe, ReleaseSafe, ArchiveSafe DEF DocNext
  <1> QED BY <1>1, <1>2

\* For any documents and any number of reviews under way: a bell leads to a document that the
\* consumer can open, unless it was hidden or the ticket moved back; and what may be read after
\* a review was announced, whatever uploads, overrides, archivings and earlier reviews came
\* between (uploadDocument, releaseHeldDocumentNotification, overrideStatus and bulkAction of
\* tickets.service.ts).
THEOREM DocumentsSafe == DocSpec => []DocumentsAreHeld
  <1>1. DocSpec => []DocInv
    BY DocStarts, DocSteps, PTL DEF DocSpec
  <1>2. ASSUME DocInv PROVE DocTypeOK
    BY <1>2 DEF DocInv, DocTypeOK, TicketIsTrue, DocIsTrue, DocTicketType, DocRowType, UploadType
  <1>3. ASSUME DocInv PROVE BellLeadsToDocument
    <2> SUFFICES ASSUME NEW d \in docBell
                 PROVE  /\ doc[d].stored /\ docTicket.by # "nobody"
                        /\ doc[d].visible /\ ~docTicket.reopened =>
                             listed(d) /\ downloadable(d) /\ (docTicket.archived \/ onTicket(d))
      BY DEF BellLeadsToDocument
    <2>1. d \in Doc /\ doc[d].stored /\ docTicket.by # "nobody"
      BY <1>3 DEF DocInv, DocIsTrue
    <2>2. ~docTicket.reopened => Done(docTicket.status)
      BY <1>3, <2>1 DEF DocInv, TicketIsTrue
    <2> QED BY <2>1, <2>2 DEF listed, downloadable, onTicket
  <1>4. ASSUME DocInv PROVE ReadableIsAnnounced
    BY <1>4 DEF DocInv, ReadableIsAnnounced, MustBeHeard, Heard, listed
  <1>5. DocInv => DocumentsAreHeld
    BY <1>2, <1>3, <1>4 DEF DocumentsAreHeld
  <1> QED BY <1>1, <1>5, PTL

-----------------------------------------------------------------------------
\* The intake form: the picker.

\* The courts listed are those of the city, or none, unless the list of another city is
\* about to be replaced and nothing can be chosen; a court belongs to its type there.
PickerOK(p) ==
    /\ p \in Picker
    /\ p.city = NoneYet => /\ p.groups = NoneYet /\ p.service = NoneYet
                           /\ p.court = NoneYet /\ p.courtType = NoneYet
    /\ ~p.mixed =>
          /\ p.groups \notin {NoneYet, p.city} =>
                p.loading /\ p.service = NoneYet /\ p.courtType = NoneYet
          /\ p.court # NoneYet /\ p.courtType # NoneYet => p.court \in CourtsOf[p.city][p.courtType]
          /\ p.service # NoneYet /\ p.court # NoneYet => p.courtType = p.service

\* The latest request is about the city of the form, and one that would leave the list
\* finds the list of that city.
AnswersFit(p, R) ==
    \A q \in R :
        /\ q.city \in FormCity /\ q.seq \in Nat /\ q.seq <= p.seq
        /\ q.seq = p.seq =>
              /\ q.city = p.city
              /\ q.resume /\ ~p.mixed => p.groups \in {NoneYet, p.city}

PickerInv == PickerOK(picker) /\ AnswersFit(picker, courtReq)

LEMMA PickerFields ==
    ASSUME NEW p \in Picker
    PROVE  /\ p.city \in FormCity \cup {NoneYet} /\ p.service \in CourtType \cup {NoneYet}
           /\ p.court \in FormCourt \cup {NoneYet} /\ p.courtType \in CourtType \cup {NoneYet}
           /\ p.groups \in FormCity \cup {NoneYet} /\ p.loading \in BOOLEAN /\ p.loaded \in BOOLEAN
           /\ p.services \in BOOLEAN /\ p.seq \in 0..PickLimit /\ p.hydrated \in BOOLEAN
           /\ p.mixed \in BOOLEAN
  BY DEF Picker

\* What the effects leave alone.
SameFrame(p, r) ==
    /\ r.city = p.city /\ r.groups = p.groups /\ r.loading = p.loading
    /\ r.seq = p.seq /\ r.mixed = p.mixed

LEMMA ReconcileOK ==
    ASSUME NEW p, PickerOK(p) PROVE PickerOK(reconcile(p)) /\ SameFrame(p, reconcile(p))
  <1>0. p \in Picker
    BY DEF PickerOK
  <1>1. PICK r : r = [p EXCEPT !.service = p.courtType]
    OBVIOUS
  <1>2. /\ r \in Picker /\ r.service = p.courtType /\ r.courtType = p.courtType /\ r.court = p.court
        /\ SameFrame(p, r)
    BY <1>0, <1>1 DEF Picker, SameFrame
  <1>3. CASE p.services /\ p.service = NoneYet /\ p.courtType # NoneYet
    <2>1. reconcile(p) = r
      BY <1>1, <1>3 DEF reconcile
    <2>2. PickerOK(r)
      BY <1>2, <1>3 DEF PickerOK, SameFrame
    <2> QED BY <1>2, <2>1, <2>2
  <1>4. CASE ~(p.services /\ p.service = NoneYet /\ p.courtType # NoneYet)
    BY <1>4 DEF reconcile, SameFrame
  <1> QED BY <1>3, <1>4

LEMMA AutoSelectOK ==
    ASSUME NEW p, PickerOK(p) PROVE PickerOK(autoSelect(p)) /\ SameFrame(p, autoSelect(p))
  <1> DEFINE list == listedCourts(p)
  <1>0. p \in Picker
    BY DEF PickerOK
  <1>1. CASE p.service # NoneYet /\ Cardinality(list) = 1
    <2>1. list # {}
      BY <1>1, FS_EmptySet
    <2>2. PICK c \in list : c = CHOOSE x \in list : TRUE
      BY <2>1
    <2>3. PICK r : r = [p EXCEPT !.court = c, !.courtType = p.service]
      OBVIOUS
    <2>4. p.groups \in FormCity /\ p.service \in CourtType /\ list = CourtsOf[p.groups][p.service]
      BY <1>0, <1>1, <2>1, PickerFields DEF listedCourts
    <2>5. c \in FormCourt
      BY <2>2, <2>4, PickerAssumption
    <2>6. /\ r \in Picker /\ r.service = p.service /\ r.courtType = p.service /\ r.court = c
          /\ SameFrame(p, r)
      BY <1>0, <2>3, <2>4, <2>5 DEF Picker, SameFrame
    <2>7. ~p.mixed => p.groups = p.city
      BY <1>1, <2>4, PickerAssumption DEF PickerOK
    <2>8. p.city # NoneYet
      BY <1>1 DEF PickerOK
    <2>9. PickerOK(r)
      <3> HIDE DEF list
      <3> QED BY <1>1, <2>2, <2>4, <2>6, <2>7, <2>8, PickerAssumption DEF PickerOK, SameFrame
    <2>10. autoSelect(p) = r
      BY <1>1, <2>2, <2>3 DEF autoSelect
    <2> QED BY <2>6, <2>9, <2>10
  <1>2. CASE /\ p.service # NoneYet /\ Cardinality(list) # 1
             /\ list = {} /\ ~p.loading /\ p.groups # NoneYet /\ p.court # NoneYet
    <2>1. PICK r : r = [p EXCEPT !.court = NoneYet, !.courtType = NoneYet]
      OBVIOUS
    <2>2. /\ r \in Picker /\ r.service = p.service /\ r.courtType = NoneYet /\ r.court = NoneYet
          /\ SameFrame(p, r)
      BY <1>0, <2>1 DEF Picker, SameFrame
    <2>3. PickerOK(r)
      BY <2>2 DEF PickerOK, SameFrame
    <2>4. autoSelect(p) = r
      BY <1>2, <2>1 DEF autoSelect
    <2> QED BY <2>2, <2>3, <2>4
  <1>3. CASE ~(p.service # NoneYet /\ Cardinality(list) = 1)
             /\ ~(/\ p.service # NoneYet /\ Cardinality(list) # 1
                  /\ list = {} /\ ~p.loading /\ p.groups # NoneYet /\ p.court # NoneYet)
    <2>1. autoSelect(p) = p
      BY <1>3 DEF autoSelect
    <2> QED BY <2>1 DEF SameFrame
  <1> QED BY <1>1, <1>2, <1>3

\* What is rendered is as sound as what was put there.
LEMMA RenderOK ==
    ASSUME NEW p, PickerOK(p), Render(p) PROVE PickerOK(picker') /\ SameFrame(p, picker')
  <1>1. PickerOK(reconcile(p)) /\ SameFrame(p, reconcile(p))
    BY ReconcileOK
  <1>2. picker' = autoSelect(reconcile(p))
    BY DEF Render
  <1>3. PickerOK(picker') /\ SameFrame(reconcile(p), picker')
    BY <1>1, <1>2, AutoSelectOK
  <1> QED BY <1>1, <1>3 DEF SameFrame

LEMMA UnpickedIs ==
    ASSUME NEW city \in FormCity, PickerInv, picker.seq < PickLimit
    PROVE  /\ Unpicked(city) \in Picker /\ Unpicked(city).city = city
           /\ Unpicked(city).service = NoneYet /\ Unpicked(city).court = NoneYet
           /\ Unpicked(city).courtType = NoneYet /\ Unpicked(city).groups = picker.groups
           /\ Unpicked(city).loading /\ Unpicked(city).seq = picker.seq + 1
           /\ Unpicked(city).mixed = picker.mixed
  <1>1. picker \in Picker
    BY DEF PickerInv, PickerOK
  <1>2. picker.seq \in 0..PickLimit /\ PickLimit \in Nat
    BY <1>1, PickerFields, PickerAssumption
  <1>3. picker.seq + 1 \in 0..PickLimit
    BY <1>2
  <1> QED BY <1>1, <1>3 DEF Unpicked, Picker

\* The request that goes out is the latest one.
LEMMA AskedFits ==
    ASSUME NEW city \in FormCity, NEW resume \in BOOLEAN, PickerInv, AskCourts(city, resume),
           picker'.seq = picker.seq + 1, picker'.city = city,
           resume /\ ~picker'.mixed => picker'.groups \in {NoneYet, city}
    PROVE  AnswersFit(picker', courtReq')
  <1>1. picker.seq \in Nat
    BY PickerFields, PickerAssumption DEF PickerInv, PickerOK
  <1>2. PICK n : n = [seq |-> picker.seq + 1, city |-> city, resume |-> resume]
    OBVIOUS
  <1>3. n.seq = picker.seq + 1 /\ n.city = city /\ n.resume = resume
    BY <1>2
  <1>4. courtReq' = courtReq \cup {n}
    BY <1>2 DEF AskCourts
  <1>5. ASSUME NEW q \in courtReq'
        PROVE  /\ q.city \in FormCity /\ q.seq \in Nat /\ q.seq <= picker'.seq
               /\ q.seq = picker'.seq =>
                     /\ q.city = picker'.city
                     /\ q.resume /\ ~picker'.mixed => picker'.groups \in {NoneYet, picker'.city}
    <2>1. CASE q = n
      BY <1>1, <1>3, <2>1
    <2>2. CASE q \in courtReq
      <3>1. q.city \in FormCity /\ q.seq \in Nat /\ q.seq <= picker.seq
        BY <2>2 DEF PickerInv, AnswersFit
      <3> QED BY <1>1, <3>1
    <2> QED BY <1>4, <2>1, <2>2
  <1> QED BY <1>5 DEF AnswersFit

LEMMA CityChangeSafe ==
    ASSUME PickerInv, NEW city \in FormCity, handleCityChange(city) PROVE PickerInv'
  <1>1. PICK u \in Picker :
          /\ u = Unpicked(city) /\ u.city = city /\ u.service = NoneYet /\ u.court = NoneYet
          /\ u.courtType = NoneYet /\ u.loading /\ u.seq = picker.seq + 1 /\ u.mixed = picker.mixed
    BY UnpickedIs DEF handleCityChange
  <1>2. PICK r : r = [u EXCEPT !.groups = NoneYet]
    OBVIOUS
  <1>3. /\ r \in Picker /\ r.city = city /\ r.service = NoneYet /\ r.court = NoneYet
        /\ r.courtType = NoneYet /\ r.groups = NoneYet /\ r.seq = picker.seq + 1
    BY <1>1, <1>2 DEF Picker
  <1>4. PickerOK(r)
    BY <1>3, PickerAssumption DEF PickerOK
  <1>5. Render(r) /\ AskCourts(city, FALSE)
    BY <1>1, <1>2 DEF handleCityChange
  <1>6. PickerOK(picker') /\ SameFrame(r, picker')
    BY <1>4, <1>5, RenderOK
  <1>7. AnswersFit(picker', courtReq')
    BY <1>3, <1>5, <1>6, AskedFits DEF SameFrame
  <1> QED BY <1>6, <1>7 DEF PickerInv

LEMMA CityBlockSafe ==
    ASSUME PickerInv, NEW city \in FormCity, CityBlockChange(city) PROVE PickerInv'
  <1>1. PICK u \in Picker :
          /\ u = Unpicked(city) /\ u.city = city /\ u.service = NoneYet /\ u.court = NoneYet
          /\ u.courtType = NoneYet /\ u.loading /\ u.seq = picker.seq + 1
    BY UnpickedIs DEF CityBlockChange
  <1>2. PickerOK(u)
    BY <1>1, PickerAssumption DEF PickerOK
  <1>3. Render(u) /\ AskCourts(city, FALSE)
    BY <1>1 DEF CityBlockChange
  <1>4. PickerOK(picker') /\ SameFrame(u, picker')
    BY <1>2, <1>3, RenderOK
  <1>5. AnswersFit(picker', courtReq')
    BY <1>1, <1>3, <1>4, AskedFits DEF SameFrame
  <1> QED BY <1>4, <1>5 DEF PickerInv

\* What arrives, and with what.
HydrateFrom(city, type, from) ==
    \E court \in CourtsOf[city][type] :
        LET service == IF from = "draft" THEN type ELSE picker.service IN
        /\ picker.seq < PickLimit
        /\ Render([Unpicked(city) EXCEPT
                    !.service = service, !.court = court, !.hydrated = TRUE,
                    !.courtType = IF from = "regenerate" THEN NoneYet ELSE type,
                    !.mixed = picker.groups \notin {NoneYet, city}
                                \/ (from # "draft" /\ service # NoneYet)])
        /\ AskCourts(city, from = "draft")

LEMMA HydrateSafe == ASSUME PickerInv, Hydrate PROVE PickerInv'
  <1>a. PICK city \in FormCity, type \in CourtType, from \in {"draft", "edit", "regenerate"} :
          HydrateFrom(city, type, from)
    BY DEF Hydrate, HydrateFrom
  <1>1. PICK court \in CourtsOf[city][type] :
          LET service == IF from = "draft" THEN type ELSE picker.service IN
          /\ picker.seq < PickLimit
          /\ Render([Unpicked(city) EXCEPT
                      !.service = service, !.court = court, !.hydrated = TRUE,
                      !.courtType = IF from = "regenerate" THEN NoneYet ELSE type,
                      !.mixed = picker.groups \notin {NoneYet, city}
                                  \/ (from # "draft" /\ service # NoneYet)])
          /\ AskCourts(city, from = "draft")
    BY <1>a DEF HydrateFrom
  <1>2. PICK u \in Picker :
          /\ u = Unpicked(city) /\ u.city = city /\ u.groups = picker.groups
          /\ u.loading /\ u.seq = picker.seq + 1
    BY <1>1, UnpickedIs
  <1>3. PICK s \in CourtType \cup {NoneYet} : s = IF from = "draft" THEN type ELSE picker.service
    BY PickerFields DEF PickerInv, PickerOK
  <1>4. PICK ct \in CourtType \cup {NoneYet} : ct = IF from = "regenerate" THEN NoneYet ELSE type
    OBVIOUS
  <1>5. PICK m \in BOOLEAN : m = (picker.groups \notin {NoneYet, city} \/ (from # "draft" /\ s # NoneYet))
    OBVIOUS
  <1>6. court \in FormCourt /\ NoneYet \notin FormCity \cup CourtType
    BY PickerAssumption
  <1>7. PICK r : r = [u EXCEPT !.service = s, !.court = court, !.hydrated = TRUE,
                               !.courtType = ct, !.mixed = m]
    OBVIOUS
  <1>8. /\ r \in Picker /\ r.city = city /\ r.service = s /\ r.court = court /\ r.courtType = ct
        /\ r.groups = picker.groups /\ r.loading /\ r.seq = picker.seq + 1 /\ r.mixed = m
    BY <1>2, <1>6, <1>7 DEF Picker
  <1>9. PickerOK(r)
    BY <1>3, <1>4, <1>5, <1>6, <1>8 DEF PickerOK
  <1>10. Render(r)
    BY <1>1, <1>2, <1>3, <1>4, <1>5, <1>7
  <1>11. PickerOK(picker') /\ SameFrame(r, picker')
    BY <1>9, <1>10, RenderOK
  <1>12. PICK resume \in BOOLEAN : resume = (from = "draft")
    OBVIOUS
  <1>13. AskCourts(city, resume)
    BY <1>1, <1>12
  <1>14. AnswersFit(picker', courtReq')
    BY <1>5, <1>8, <1>11, <1>13, AskedFits DEF SameFrame
  <1> QED BY <1>11, <1>14 DEF PickerInv

LEMMA CourtsAnsweredSafe == ASSUME PickerInv, NEW q \in courtReq, CourtsAnswered(q) PROVE PickerInv'
  <1>1. PICK ok \in BOOLEAN :
          LET groups == IF ok THEN q.city ELSE IF q.resume THEN picker.groups ELSE NoneYet
          IN  /\ courtReq' = courtReq \ {q}
              /\ IF isLatest(q)
                   THEN Render([picker EXCEPT !.groups = groups, !.loading = FALSE, !.loaded = TRUE])
                   ELSE UNCHANGED picker
    BY DEF CourtsAnswered
  <1>2. picker \in Picker /\ PickerOK(picker)
    BY DEF PickerInv, PickerOK
  <1>3. CASE ~isLatest(q)
    BY <1>1, <1>3 DEF PickerInv, AnswersFit
  <1>4. CASE isLatest(q)
    <2>1. PICK g : g = IF ok THEN q.city ELSE IF q.resume THEN picker.groups ELSE NoneYet
      OBVIOUS
    <2>2. /\ q.city \in FormCity /\ q.city = picker.city
          /\ q.resume /\ ~picker.mixed => picker.groups \in {NoneYet, picker.city}
      BY <1>4 DEF isLatest, PickerInv, AnswersFit
    <2>3. g \in FormCity \cup {NoneYet} /\ (~picker.mixed => g \in {NoneYet, picker.city})
          /\ picker.city # NoneYet
      BY <1>2, <2>1, <2>2, PickerFields, PickerAssumption
    <2>4. PICK r : r = [picker EXCEPT !.groups = g, !.loading = FALSE, !.loaded = TRUE]
      OBVIOUS
    <2>5. /\ r \in Picker /\ r.city = picker.city /\ r.service = picker.service
          /\ r.court = picker.court /\ r.courtType = picker.courtType /\ r.groups = g
          /\ r.seq = picker.seq /\ r.mixed = picker.mixed
      BY <1>2, <2>3, <2>4 DEF Picker
    <2>6. PickerOK(r)
      BY <1>2, <2>3, <2>5 DEF PickerOK
    <2>7. Render(r) /\ courtReq' = courtReq \ {q}
      BY <1>1, <1>4, <2>1, <2>4
    <2>8. PickerOK(picker') /\ SameFrame(r, picker')
      BY <2>6, <2>7, RenderOK
    <2>9. AnswersFit(picker', courtReq')
      BY <2>3, <2>5, <2>7, <2>8 DEF AnswersFit, SameFrame, PickerInv
    <2> QED BY <2>8, <2>9 DEF PickerInv
  <1> QED BY <1>3, <1>4

\* A step that leaves the frame leaves the requests in order.
LEMMA FrameSafe ==
    ASSUME PickerInv, NEW p, PickerOK(p), SameFrame(picker, p), courtReq' = courtReq,
           Render(p) \/ picker' = p
    PROVE  PickerInv'
  <1>1. PickerOK(picker') /\ SameFrame(p, picker')
    BY RenderOK DEF SameFrame
  <1> QED BY <1>1 DEF PickerInv, AnswersFit, SameFrame

LEMMA ServicesSafe == ASSUME PickerInv, ServicesLoaded PROVE PickerInv'
  <1>1. picker \in Picker /\ PickerOK(picker)
    BY DEF PickerInv, PickerOK
  <1>2. PICK r : r = [picker EXCEPT !.services = TRUE]
    OBVIOUS
  <1>3. /\ r \in Picker /\ r.city = picker.city /\ r.service = picker.service
        /\ r.court = picker.court /\ r.courtType = picker.courtType /\ SameFrame(picker, r)
    BY <1>1, <1>2 DEF Picker, SameFrame
  <1>4. PickerOK(r)
    BY <1>1, <1>3 DEF PickerOK, SameFrame
  <1>5. Render(r) /\ courtReq' = courtReq
    BY <1>2 DEF ServicesLoaded
  <1> QED BY <1>3, <1>4, <1>5, FrameSafe

LEMMA ApplySafe == ASSUME PickerInv, applySelectedService PROVE PickerInv'
  <1>1. picker \in Picker /\ PickerOK(picker)
    BY DEF PickerInv, PickerOK
  <1>2. PICK type \in CourtType :
          /\ picker.city # NoneYet /\ ~picker.loading /\ courtReq' = courtReq
          /\ Render([picker EXCEPT !.service = type, !.courtType = type, !.court = NoneYet])
    BY DEF applySelectedService
  <1>3. PICK r : r = [picker EXCEPT !.service = type, !.courtType = type, !.court = NoneYet]
    OBVIOUS
  <1>4. /\ r \in Picker /\ r.court = NoneYet /\ SameFrame(picker, r)
    BY <1>1, <1>3 DEF Picker, SameFrame
  <1>5. PickerOK(r)
    BY <1>1, <1>2, <1>4 DEF PickerOK, SameFrame
  <1> QED BY <1>2, <1>3, <1>4, <1>5, FrameSafe

LEMMA ChangeSafe == ASSUME PickerInv, ChangeService PROVE PickerInv'
  <1>1. picker \in Picker /\ PickerOK(picker)
    BY DEF PickerInv, PickerOK
  <1>2. PICK r : r = [picker EXCEPT !.service = NoneYet, !.courtType = NoneYet, !.court = NoneYet]
    OBVIOUS
  <1>3. /\ r \in Picker /\ r.service = NoneYet /\ r.courtType = NoneYet /\ r.court = NoneYet
        /\ SameFrame(picker, r)
    BY <1>1, <1>2 DEF Picker, SameFrame
  <1>4. PickerOK(r)
    BY <1>1, <1>3 DEF PickerOK, SameFrame
  <1>5. Render(r) /\ courtReq' = courtReq
    BY <1>2 DEF ChangeService
  <1> QED BY <1>3, <1>4, <1>5, FrameSafe

LEMMA PickSafe == ASSUME PickerInv, PickCourt PROVE PickerInv'
  <1>1. picker \in Picker /\ PickerOK(picker)
    BY DEF PickerInv, PickerOK
  <1>2. PICK c \in listedCourts(picker) :
          picker' = [picker EXCEPT !.court = c, !.courtType = picker.service]
    BY DEF PickCourt
  <1>3. /\ picker.groups \in FormCity /\ picker.service \in CourtType
        /\ c \in CourtsOf[picker.groups][picker.service]
    BY <1>1, <1>2, PickerFields DEF listedCourts
  <1>4. c \in FormCourt /\ picker.groups # NoneYet /\ picker.service # NoneYet
    BY <1>3, PickerAssumption
  <1>5. PICK r : r = [picker EXCEPT !.court = c, !.courtType = picker.service]
    OBVIOUS
  <1>6. /\ r \in Picker /\ r.service = picker.service /\ r.court = c
        /\ r.courtType = picker.service /\ SameFrame(picker, r)
    BY <1>1, <1>3, <1>4, <1>5 DEF Picker, SameFrame
  <1>7. PickerOK(r)
    BY <1>1, <1>3, <1>4, <1>6 DEF PickerOK, SameFrame
  <1>8. picker' = r /\ courtReq' = courtReq
    BY <1>2, <1>5 DEF PickCourt
  <1> QED BY <1>6, <1>7, <1>8, FrameSafe

LEMMA PickerSteps == ASSUME PickerInv, PickerNext PROVE PickerInv'
  BY CityChangeSafe, CityBlockSafe, CourtsAnsweredSafe, ServicesSafe, ApplySafe, ChangeSafe, PickSafe,
     HydrateSafe DEF PickerNext

-----------------------------------------------------------------------------
\* The intake form: the previews.

PreviewType == [edit : Nat, timer : BOOLEAN, shown : Nat \cup {NoneYet},
                offered : SUBSET SetTypes, offeredFor : Nat \cup {NoneYet},
                setType : SetTypes \cup {NoneYet}]

\* The offers known are those of an edit, and the set type chosen is among them.
PreviewInv ==
    /\ preview \in PreviewType
    /\ previewReq \subseteq {"price", "offers"} \X Nat
    /\ preview.offeredFor # NoneYet => preview.offered = Offered(preview.offeredFor)
    /\ preview.setType \in preview.offered \cup {NoneYet}
    /\ PreviewIsCurrent

LEMMA UncheckIs ==
    ASSUME NEW v \in PreviewType
    PROVE  /\ autoUncheck(v) \in PreviewType
           /\ autoUncheck(v).edit = v.edit /\ autoUncheck(v).timer = v.timer
           /\ autoUncheck(v).shown = v.shown /\ autoUncheck(v).offered = v.offered
           /\ autoUncheck(v).offeredFor = v.offeredFor
           /\ autoUncheck(v).setType \in v.offered \cup {NoneYet}
  BY DEF autoUncheck, PreviewType

\* What a step has to leave in order.
LEMMA PreviewKept ==
    ASSUME NEW v \in PreviewType,
           v.offeredFor # NoneYet => v.offered = Offered(v.offeredFor),
           previewReq' \subseteq {"price", "offers"} \X Nat,
           preview' = autoUncheck(v) \/ (preview' = v /\ v.setType \in v.offered \cup {NoneYet}),
           (~v.timer /\ <<"price", v.edit>> \notin previewReq') => v.shown \in {v.edit, NoneYet}
    PROVE  PreviewInv'
  <1>1. /\ preview' \in PreviewType
        /\ preview'.edit = v.edit /\ preview'.timer = v.timer /\ preview'.shown = v.shown
        /\ preview'.offered = v.offered /\ preview'.offeredFor = v.offeredFor
        /\ preview'.setType \in v.offered \cup {NoneYet}
    BY UncheckIs
  <1> QED BY <1>1 DEF PreviewInv, PreviewIsCurrent

LEMMA EditSafe == ASSUME PreviewInv, EditPriced PROVE PreviewInv'
  <1>a. PICK e \in Nat : e = preview.edit + 1
    BY DEF PreviewInv, PreviewType
  <1>1. PICK v : v = [preview EXCEPT !.edit = e, !.timer = TRUE]
    OBVIOUS
  <1>2. /\ v \in PreviewType /\ v.timer /\ v.offered = preview.offered
        /\ v.offeredFor = preview.offeredFor /\ v.setType = preview.setType
    BY <1>1 DEF PreviewInv, PreviewType
  <1>3. preview' = v /\ previewReq' = previewReq
    BY <1>a, <1>1 DEF EditPriced
  <1> QED BY <1>2, <1>3, PreviewKept DEF PreviewInv

LEMMA ChooseSafe == ASSUME PreviewInv, ChooseSetType PROVE PreviewInv'
  <1>1. PICK s \in SetTypes : preview' = autoUncheck([preview EXCEPT !.setType = s])
    BY DEF ChooseSetType
  <1>2. PICK v : v = [preview EXCEPT !.setType = s]
    OBVIOUS
  <1>3. /\ v \in PreviewType /\ v.timer = preview.timer /\ v.offered = preview.offered
        /\ v.offeredFor = preview.offeredFor /\ v.edit = preview.edit /\ v.shown = preview.shown
    BY <1>2 DEF PreviewInv, PreviewType
  <1>4. preview' = autoUncheck(v) /\ previewReq' = previewReq
    BY <1>1, <1>2 DEF ChooseSetType
  <1> QED BY <1>3, <1>4, PreviewKept DEF PreviewInv, PreviewIsCurrent

LEMMA TimerSafe == ASSUME PreviewInv, PreviewTimer PROVE PreviewInv'
  <1>1. PICK v : v = [preview EXCEPT !.timer = FALSE]
    OBVIOUS
  <1>2. /\ v \in PreviewType /\ v.edit = preview.edit /\ v.offered = preview.offered
        /\ v.offeredFor = preview.offeredFor /\ v.setType = preview.setType
    BY <1>1 DEF PreviewInv, PreviewType
  <1>3. preview.edit \in Nat
    BY DEF PreviewInv, PreviewType
  <1>4. preview' = v /\ previewReq' = previewReq \cup {<<"price", preview.edit>>, <<"offers", preview.edit>>}
    BY <1>1 DEF PreviewTimer
  <1>5. previewReq' \subseteq {"price", "offers"} \X Nat /\ <<"price", v.edit>> \in previewReq'
    BY <1>2, <1>3, <1>4 DEF PreviewInv
  <1> QED BY <1>2, <1>4, <1>5, PreviewKept DEF PreviewInv

LEMMA PreviewAnswerSafe ==
    ASSUME PreviewInv, NEW q \in previewReq, PreviewAnswered(q) PROVE PreviewInv'
  <1>0. PICK kind \in {"price", "offers"}, n \in Nat : q = <<kind, n>>
    BY DEF PreviewInv
  <1>1. previewReq' = previewReq \ {q} /\ preview \in PreviewType /\ preview.edit \in Nat
    BY DEF PreviewAnswered, PreviewInv, PreviewType
  <1>2. CASE cancelled(q)
    <2>1. n # preview.edit /\ preview' = preview
      BY <1>0, <1>2 DEF cancelled, PreviewAnswered
    <2>2. <<"price", preview.edit>> # q
      BY <1>0, <2>1
    <2> QED BY <1>1, <2>1, <2>2, PreviewKept DEF PreviewInv, PreviewIsCurrent
  <1>3. CASE ~cancelled(q) /\ kind = "price"
    <2>1. n = preview.edit
      BY <1>0, <1>3 DEF cancelled
    <2>2. PICK s \in {n, NoneYet} : preview' = autoUncheck([preview EXCEPT !.shown = s])
      BY <1>0, <1>3 DEF PreviewAnswered
    <2>3. PICK v : v = [preview EXCEPT !.shown = s]
      OBVIOUS
    <2>4. /\ v \in PreviewType /\ v.shown = s /\ v.edit = preview.edit
          /\ v.offered = preview.offered /\ v.offeredFor = preview.offeredFor
      BY <1>1, <2>2, <2>3 DEF PreviewType
    <2> QED BY <1>1, <2>1, <2>2, <2>3, <2>4, PreviewKept DEF PreviewInv
  <1>4. CASE ~cancelled(q) /\ kind = "offers"
    <2>1. n = preview.edit
      BY <1>0, <1>4 DEF cancelled
    <2>2. PICK ok \in BOOLEAN :
            preview' = autoUncheck([preview EXCEPT
                         !.offered = IF ok THEN Offered(n) ELSE SetTypes,
                         !.offeredFor = IF ok THEN n ELSE NoneYet])
      BY <1>0, <1>4 DEF PreviewAnswered
    <2>3. PICK o : o = IF ok THEN Offered(n) ELSE SetTypes
      OBVIOUS
    <2>4. PICK f : f = IF ok THEN n ELSE NoneYet
      OBVIOUS
    <2>5. o \in SUBSET SetTypes /\ f \in Nat \cup {NoneYet} /\ (f # NoneYet => o = Offered(f))
      BY <2>3, <2>4 DEF Offered, SetTypes
    <2>6. PICK v : v = [preview EXCEPT !.offered = o, !.offeredFor = f]
      OBVIOUS
    <2>7. /\ v \in PreviewType /\ v.shown = preview.shown /\ v.edit = preview.edit
          /\ v.timer = preview.timer /\ v.offered = o /\ v.offeredFor = f
      BY <1>1, <2>5, <2>6 DEF PreviewType
    <2>8. preview' = autoUncheck(v)
      BY <2>2, <2>3, <2>4, <2>6
    <2>9. <<"price", preview.edit>> # q
      BY <1>0, <1>4
    <2>10. (~v.timer /\ <<"price", v.edit>> \notin previewReq') => v.shown \in {v.edit, NoneYet}
      BY <1>1, <2>7, <2>9 DEF PreviewInv, PreviewIsCurrent
    <2>11. previewReq' \subseteq {"price", "offers"} \X Nat
      BY <1>1 DEF PreviewInv
    <2> QED BY <2>5, <2>7, <2>8, <2>10, <2>11, PreviewKept
  <1> QED BY <1>2, <1>3, <1>4

LEMMA PreviewSteps == ASSUME PreviewInv, PreviewNext PROVE PreviewInv'
  BY EditSafe, ChooseSafe, TimerSafe, PreviewAnswerSafe DEF PreviewNext

-----------------------------------------------------------------------------
FormInv == PickerInv /\ PreviewInv

LEMMA FormStarts == ASSUME FormInit PROVE FormInv
  <1>1. EmptyPicker \in Picker
    BY PickerAssumption DEF EmptyPicker, Picker
  <1>2. PickerInv
    BY <1>1 DEF FormInit, PickerInv, PickerOK, AnswersFit, EmptyPicker
  <1>3. EmptyPreview \in PreviewType
    BY DEF EmptyPreview, PreviewType
  <1>4. PreviewInv
    BY <1>3 DEF FormInit, PreviewInv, PreviewIsCurrent, EmptyPreview
  <1> QED BY <1>2, <1>4 DEF FormInv

LEMMA FormSteps == ASSUME FormInv, [FormNext]_formVars PROVE FormInv'
  <1>1. PickerInv /\ PreviewInv
    BY DEF FormInv
  <1>2. CASE PickerNext
    <2>1. UNCHANGED previewVars
      BY <1>2 DEF PickerNext, handleCityChange, CityBlockChange, CourtsAnswered, ServicesLoaded,
         applySelectedService, ChangeService, PickCourt, Hydrate, previewVars
    <2>2. PreviewInv'
      BY <1>1, <2>1 DEF PreviewInv, PreviewIsCurrent, previewVars
    <2> QED BY <1>1, <1>2, <2>2, PickerSteps DEF FormInv
  <1>3. CASE PreviewNext
    <2>1. UNCHANGED pickerVars
      BY <1>3 DEF PreviewNext, EditPriced, ChooseSetType, PreviewTimer, PreviewAnswered
    <2>2. PickerInv'
      BY <1>1, <2>1 DEF PickerInv, pickerVars
    <2> QED BY <1>1, <1>3, <2>2, PreviewSteps DEF FormInv
  <1>4. CASE UNCHANGED formVars
    BY <1>1, <1>4 DEF FormInv, PickerInv, PreviewInv, PreviewIsCurrent, formVars, pickerVars,
       previewVars
  <1> QED BY <1>2, <1>3, <1>4 DEF FormNext

\* Whatever the order of the answers, of a draft that arrives late and of the effects of the
\* page (intake-wizard.tsx), the court chosen is one of its type in the city of the form,
\* the price shown is that of the form, and the set type is one that is offered for it.
THEOREM FormSafe == FormSpec => []FormIsCurrent
  <1>1. FormSpec => []FormInv
    BY FormStarts, FormSteps, PTL DEF FormSpec
  <1>2. FormInv => picker \in Picker /\ PreviewIsCurrent
    BY DEF FormInv, PickerInv, PickerOK, PreviewInv
  <1>3. FormInv => CourtOfCity
    <2>1. SUFFICES ASSUME PickerOK(picker) PROVE CourtOfCity
      BY DEF FormInv, PickerInv
    <2> QED BY <2>1 DEF CourtOfCity, PickerOK
  <1>4. FormInv => SetTypeOffered
    <2>1. SUFFICES ASSUME PreviewInv PROVE SetTypeOffered
      BY DEF FormInv
    <2>2. preview.edit \in Nat /\ preview.edit # NoneYet
      BY <2>1, PickerAssumption DEF PreviewInv, PreviewType
    <2> QED BY <2>1, <2>2 DEF SetTypeOffered, PreviewInv
  <1> QED BY <1>1, <1>2, <1>3, <1>4, PTL DEF FormIsCurrent

-----------------------------------------------------------------------------
\* The ticket board.

CostForm == [ticket : BoardTicket \cup {NoTicket}, pages : {0} \cup PageCharge,
             delivery : {0} \cup DeliveryCharge, with : SUBSET {"hearing", "receipt"}]
FinalizeForm == [ticket : BoardTicket \cup {NoTicket}, pages : {0} \cup PageCharge,
                 delivery : {0} \cup DeliveryCharge, loading : SUBSET BoardTicket, busy : BOOLEAN]
CostStep == {"hearing", "receipt", "costs"}

\* A row that was not overridden is final only at its end, and has somebody to accept it.
Ordered(t) ==
    t.overridden \/ /\ t.final => t.status \in {"COMPLETED", "DELIVERED"}
                    /\ t.status = "ASSIGNED" => t.active # "nobody"

\* The figures of a row have what they were submitted with.
RowComplete(t) ==
    /\ "receipt" \in t.sent => t.receipts > 0
    /\ "hearing" \in t.sent => t.hearing
    /\ Ordered(t)

\* A submission that has come to a step has done the ones before it.
RunFits(r) ==
    /\ r = [form |-> r.form, step |-> r.step, n |-> r.n]
    /\ r.form \in CostForm /\ r.form.ticket \in BoardTicket /\ r.step \in CostStep
    /\ r.step # "hearing" /\ "hearing" \in r.form.with => site[r.form.ticket].hearing
    /\ r.step = "costs" /\ "receipt" \in r.form.with => site[r.form.ticket].receipts > 0

BoardInv ==
    /\ site \in [BoardTicket -> SiteRow]
    /\ finalize \in FinalizeForm /\ (finalize.busy => finalize.ticket \in BoardTicket)
    /\ costs \in CostForm
    /\ \A k \in BoardTicket : RowComplete(site[k])
    /\ \A r \in runs : RunFits(r)

\* What a row never loses.
RowStep(t, u) ==
    /\ u \in SiteRow /\ RowComplete(u)
    /\ t.pages # 0 => u.pages # 0
    /\ t.hearing => u.hearing
    /\ t.receipts > 0 => u.receipts > 0
SiteStep ==
    /\ site' \in [BoardTicket -> SiteRow]
    /\ \A k \in BoardTicket : RowStep(site[k], site'[k])

LEMMA SiteMoves ==
    ASSUME BoardInv, NEW k \in BoardTicket, NEW u, RowStep(site[k], u),
           site' = [site EXCEPT ![k] = u]
    PROVE  SiteStep
  BY DEF SiteStep, RowStep, BoardInv

LEMMA SiteRests == ASSUME BoardInv, site' = site PROVE SiteStep
  BY DEF SiteStep, RowStep, BoardInv

\* The submissions under way go on fitting.
LEMMA RunsRest ==
    ASSUME BoardInv, SiteStep, runs' \subseteq runs PROVE \A r \in runs' : RunFits(r)'
  <1>1. ASSUME NEW r \in runs' PROVE RunFits(r)'
    <2>1. RunFits(r)
      BY DEF BoardInv
    <2> QED BY <2>1 DEF RunFits, SiteStep, RowStep
  <1> QED BY <1>1

\* A step that only moves rows.
LEMMA OnlySite ==
    ASSUME BoardInv, SiteStep, UNCHANGED <<finalize, costs, runs>> PROVE BoardInv'
  <1>1. \A r \in runs' : RunFits(r)'
    BY RunsRest
  <1>2. \A k \in BoardTicket : RowComplete(site'[k])
    BY DEF SiteStep, RowStep
  <1> QED BY <1>1, <1>2 DEF BoardInv, SiteStep, RowComplete

-----------------------------------------------------------------------------
\* Rows.

\* A row that keeps its figures and what they were sent with.
LEMMA KeepsFigures ==
    ASSUME NEW t \in SiteRow, RowComplete(t), NEW u \in SiteRow, Ordered(u), u.sent = t.sent,
           u.pages = t.pages, u.receipts = t.receipts, t.hearing => u.hearing
    PROVE  RowStep(t, u)
  BY DEF RowStep, RowComplete

LEMMA StatusMoves ==
    ASSUME NEW t \in SiteRow, RowComplete(t), NEW s \in BoardStatus,
           s # "ASSIGNED", t.final => t.overridden \/ s \in {"COMPLETED", "DELIVERED"},
           NEW p \in {"NONE", "SUBMITTED", "VERIFIED", "REJECTED"},
           NEW a \in Clerks \cup {"nobody"}, NEW c \in Clerks \cup {"nobody"}
    PROVE  RowStep(t, [t EXCEPT !.status = s, !.approval = p, !.active = a, !.accepted = c])
  <1>1. PICK u : u = [t EXCEPT !.status = s, !.approval = p, !.active = a, !.accepted = c]
    OBVIOUS
  <1>2. u \in SiteRow /\ u.sent = t.sent /\ u.pages = t.pages /\ u.receipts = t.receipts
        /\ u.hearing = t.hearing /\ u.overridden = t.overridden /\ u.final = t.final /\ u.status = s
    BY <1>1 DEF SiteRow
  <1>3. Ordered(u)
    BY <1>2 DEF Ordered
  <1> QED BY <1>1, <1>2, <1>3, KeepsFigures

\* A row that is not where only the end may be has no final costs.
LEMMA NotFinalYet ==
    ASSUME NEW t \in SiteRow, RowComplete(t), t.status \notin {"COMPLETED", "DELIVERED"}
    PROVE  t.final => t.overridden
  BY DEF RowComplete, Ordered

LEMMA AfterIs ==
    ASSUME NEW t \in SiteRow, RowComplete(t), NEW user \in BoardUser, NEW op,
           op # "accept" \/ user \in Clerks, accepts(user, op, t)
    PROVE  RowStep(t, after(user, op, t))
  <1> DEFINE Same(s, p, a, c) == [t EXCEPT !.status = s, !.approval = p, !.active = a, !.accepted = c]
  <1>0. /\ t.status \in BoardStatus /\ t.approval \in {"NONE", "SUBMITTED", "VERIFIED", "REJECTED"}
        /\ t.active \in Clerks \cup {"nobody"} /\ t.accepted \in Clerks \cup {"nobody"}
    BY DEF SiteRow
  <1>1. CASE op = "accept"
    <2>1. after(user, op, t) = [t EXCEPT !.status = "IN_PROGRESS", !.active = "nobody", !.accepted = user]
      BY <1>1 DEF after, BoardStatus
    <2>2. after(user, op, t) = Same("IN_PROGRESS", t.approval, "nobody", user)
      BY <2>1 DEF SiteRow
    <2>3. t.status = "ASSIGNED"
      BY <1>1 DEF accepts, BoardStatus
    <2>4. t.final => t.overridden
      BY <2>3, NotFinalYet
    <2> HIDE DEF Same
    <2>5. RowStep(t, Same("IN_PROGRESS", t.approval, "nobody", user))
      BY <1>0, <1>1, <2>4, StatusMoves DEF BoardStatus, Same
    <2> QED BY <2>2, <2>5
  <1>2. CASE op = "reject"
    <2>1. after(user, op, t) = [t EXCEPT !.status = "PAID", !.active = "nobody"]
      BY <1>2 DEF after, BoardStatus
    <2>2. after(user, op, t) = Same("PAID", t.approval, "nobody", t.accepted)
      BY <2>1 DEF SiteRow
    <2>3. t.status = "ASSIGNED"
      BY <1>2 DEF accepts, BoardStatus
    <2>4. t.final => t.overridden
      BY <2>3, NotFinalYet
    <2> HIDE DEF Same
    <2>5. RowStep(t, Same("PAID", t.approval, "nobody", t.accepted))
      BY <1>0, <1>2, <2>4, StatusMoves DEF BoardStatus, Same
    <2> QED BY <2>2, <2>5
  <1>3. CASE op = "receipt"
    <2>1. after(user, op, t) = [t EXCEPT !.status = "WAITING_APPROVAL", !.approval = "SUBMITTED"]
      BY <1>3 DEF after, BoardStatus
    <2>2. after(user, op, t) = Same("WAITING_APPROVAL", "SUBMITTED", t.active, t.accepted)
      BY <2>1 DEF SiteRow
    <2>3. t.status \in {"IN_PROGRESS", "WAITING_APPROVAL"}
      BY <1>3 DEF accepts, BoardStatus
    <2>4. t.final => t.overridden
      BY <2>3, NotFinalYet
    <2> HIDE DEF Same
    <2>5. RowStep(t, Same("WAITING_APPROVAL", "SUBMITTED", t.active, t.accepted))
      BY <1>0, <1>3, <2>4, StatusMoves DEF BoardStatus, Same
    <2> QED BY <2>2, <2>5
  <1>4. CASE op = "sendBack"
    <2>1. after(user, op, t) = [t EXCEPT !.status = "IN_PROGRESS", !.approval = "REJECTED"]
      BY <1>4 DEF after, BoardStatus
    <2>2. after(user, op, t) = Same("IN_PROGRESS", "REJECTED", t.active, t.accepted)
      BY <2>1 DEF SiteRow
    <2>3. t.status = "WAITING_APPROVAL"
      BY <1>4 DEF accepts, BoardStatus
    <2>4. t.final => t.overridden
      BY <2>3, NotFinalYet
    <2> HIDE DEF Same
    <2>5. RowStep(t, Same("IN_PROGRESS", "REJECTED", t.active, t.accepted))
      BY <1>0, <1>4, <2>4, StatusMoves DEF BoardStatus, Same
    <2> QED BY <2>2, <2>5
  <1>5. CASE op = "complete"
    <2>1. after(user, op, t) = [t EXCEPT !.status = "COMPLETED"]
      BY <1>5 DEF after, BoardStatus
    <2>2. after(user, op, t) = Same("COMPLETED", t.approval, t.active, t.accepted)
      BY <2>1 DEF SiteRow
    <2>3. RowStep(t, Same("COMPLETED", t.approval, t.active, t.accepted))
      BY <1>0, StatusMoves DEF BoardStatus
    <2> QED BY <2>2, <2>3
  <1>6. CASE op = "deliver"
    <2>1. after(user, op, t) = [t EXCEPT !.status = "DELIVERED"]
      BY <1>6 DEF after, BoardStatus
    <2>2. after(user, op, t) = Same("DELIVERED", t.approval, t.active, t.accepted)
      BY <2>1 DEF SiteRow
    <2>3. RowStep(t, Same("DELIVERED", t.approval, t.active, t.accepted))
      BY <1>0, StatusMoves DEF BoardStatus
    <2> QED BY <2>2, <2>3
  <1>7. CASE op \in BoardStatus
    <2>1. PICK u : u = [t EXCEPT !.status = op, !.overridden = TRUE]
      OBVIOUS
    <2>2. u \in SiteRow /\ u.sent = t.sent /\ u.pages = t.pages /\ u.receipts = t.receipts
          /\ u.hearing = t.hearing /\ u.overridden
      BY <1>7, <2>1 DEF SiteRow
    <2>3. RowStep(t, u)
      BY <2>2, KeepsFigures DEF Ordered
    <2>4. op \notin {"accept", "reject", "receipt", "sendBack", "complete", "deliver", "dispatch"}
      BY <1>7 DEF BoardStatus
    <2>5. after(user, op, t) = u
      BY <1>7, <2>1, <2>4 DEF after, BoardStatus
    <2> QED BY <2>3, <2>5
  <1>8. CASE op \in {"dispatch", "archive", "restore", "hearing"}
    <2>1. op \notin BoardStatus
      BY <1>8 DEF BoardStatus
    <2>2. \/ after(user, op, t) = [t EXCEPT !.dispatched = TRUE]
          \/ after(user, op, t) = [t EXCEPT !.archived = TRUE]
          \/ after(user, op, t) = [t EXCEPT !.archived = FALSE]
          \/ after(user, op, t) = [t EXCEPT !.hearing = TRUE]
      BY <1>8 DEF after, BoardStatus
    <2>3. PICK u : u = after(user, op, t)
      OBVIOUS
    <2>4. u \in SiteRow /\ u.sent = t.sent /\ u.pages = t.pages /\ u.receipts = t.receipts
          /\ u.overridden = t.overridden /\ u.final = t.final /\ (t.hearing => u.hearing)
          /\ u.status = t.status /\ u.active = t.active
      BY <2>2, <2>3 DEF SiteRow
    <2>5. Ordered(u)
      BY <2>4 DEF RowComplete, Ordered
    <2> QED BY <2>3, <2>4, <2>5, KeepsFigures
  <1>9. CASE op \notin {"accept", "reject", "receipt", "sendBack", "complete", "deliver", "dispatch",
                        "archive", "restore", "hearing"} \cup BoardStatus
    <2>1. after(user, op, t) = t
      BY <1>9 DEF after
    <2> QED BY <2>1 DEF RowStep
  <1> QED BY <1>1, <1>2, <1>3, <1>4, <1>5, <1>6, <1>7, <1>8, <1>9

LEMMA WithCostsIs ==
    ASSUME NEW t \in SiteRow, NEW form, form.pages \in {0} \cup PageCharge,
           form.delivery \in {0} \cup DeliveryCharge, form.with \subseteq {"hearing", "receipt"},
           "receipt" \in form.with => t.receipts > 0, "hearing" \in form.with => t.hearing, ~t.final
    PROVE  RowStep(t, withCosts(t, form))
  <1>1. PICK p : p = pagePair(form.pages, t.pages)
    OBVIOUS
  <1>2. p \in {0} \cup PageCharge /\ (t.pages # 0 => p # 0)
    BY <1>1 DEF pagePair, SiteRow
  <1>3. PICK d \in {0} \cup DeliveryCharge : d = form.delivery
    OBVIOUS
  <1>4. PICK w \in SUBSET {"hearing", "receipt"} : w = form.with
    OBVIOUS
  <1>5. withCosts(t, form) = [t EXCEPT !.status = "WAITING_APPROVAL", !.approval = "SUBMITTED",
                                       !.pages = p, !.delivery = d, !.sent = w]
    BY <1>1, <1>3, <1>4 DEF withCosts
  <1>6. PICK u : u = [t EXCEPT !.status = "WAITING_APPROVAL", !.approval = "SUBMITTED",
                               !.pages = p, !.delivery = d, !.sent = w]
    OBVIOUS
  <1>7. /\ u \in SiteRow /\ u.pages = p /\ u.sent = w /\ u.hearing = t.hearing
        /\ u.receipts = t.receipts /\ u.final = t.final /\ u.status = "WAITING_APPROVAL"
    BY <1>2, <1>6 DEF SiteRow, BoardStatus
  <1> QED BY <1>2, <1>4, <1>5, <1>6, <1>7 DEF RowStep, RowComplete, Ordered

LEMMA RowActionSafe ==
    ASSUME BoardInv, NEW user \in BoardUser, NEW op, NEW k \in BoardTicket, RowAction(user, op, k)
    PROVE  BoardInv' /\ SiteStep
  <1>1. /\ site' = [site EXCEPT ![k] = after(user, op, site[k])] /\ accepts(user, op, site[k])
        /\ UNCHANGED <<finalize, costs, runs>>
    BY DEF RowAction
  <1>2. op # "accept" \/ user \in Clerks
    BY DEF RowAction
  <1>3. RowStep(site[k], after(user, op, site[k]))
    BY <1>1, <1>2, AfterIs DEF BoardInv
  <1> QED BY <1>1, <1>3, SiteMoves, OnlySite

LEMMA AssignSafe ==
    ASSUME BoardInv, NEW k \in BoardTicket, Assign(k) PROVE BoardInv' /\ SiteStep
  <1>1. PICK t \in SiteRow : t = site[k] /\ RowComplete(t)
    BY DEF BoardInv
  <1>2. PICK c \in Clerks : site' = [site EXCEPT ![k].status = "ASSIGNED", ![k].active = c]
    BY DEF Assign
  <1>3. PICK u : u = [t EXCEPT !.status = "ASSIGNED", !.active = c]
    OBVIOUS
  <1>4. t.status \in {"UNPAID", "PAID"}
    BY <1>1 DEF Assign, accepts
  <1>5. RowStep(t, u)
    <2>1. u \in SiteRow /\ u.sent = t.sent /\ u.pages = t.pages /\ u.receipts = t.receipts
          /\ u.hearing = t.hearing /\ u.overridden = t.overridden /\ u.final = t.final /\ u.active = c
      BY <1>3 DEF SiteRow, BoardStatus
    <2>2. c # "nobody"
      BY DEF Clerks
    <2>3. Ordered(u)
      BY <1>1, <1>4, <2>1, <2>2, NotFinalYet DEF Ordered
    <2> QED BY <1>1, <2>1, <2>3, KeepsFigures
  <1>6. site \in [BoardTicket -> SiteRow]
    BY DEF BoardInv
  <1>7. site' = [site EXCEPT ![k] = u]
    BY <1>1, <1>2, <1>3, <1>6 DEF SiteRow
  <1> QED BY <1>1, <1>5, <1>7, SiteMoves, OnlySite DEF Assign

LEMMA FiguresSafe ==
    ASSUME BoardInv, NEW k \in BoardTicket, Figures(k) PROVE BoardInv' /\ SiteStep
  <1>1. PICK p \in {0} \cup PageCharge, d \in DeliveryCharge :
          site' = [site EXCEPT ![k] = withCosts(site[k], [pages |-> p, delivery |-> d, with |-> {}])]
    BY DEF Figures
  <1>2. ~site[k].final
    BY DEF Figures, accepts
  <1>3. RowStep(site[k], withCosts(site[k], [pages |-> p, delivery |-> d, with |-> {}]))
    BY <1>2, WithCostsIs DEF BoardInv
  <1> QED BY <1>1, <1>3, SiteMoves, OnlySite DEF Figures

LEMMA PaysSafe ==
    ASSUME BoardInv, NEW k \in BoardTicket, ConsumerPays(k) PROVE BoardInv' /\ SiteStep
  <1>1. PICK t \in SiteRow : t = site[k] /\ RowComplete(t)
    BY DEF BoardInv
  <1>2. PICK s \in BoardStatus : s = IF t.status = "UNPAID" THEN "PAID" ELSE t.status
    BY <1>1 DEF SiteRow, BoardStatus
  <1>3. PICK u : u = [t EXCEPT !.paid = TRUE, !.status = s]
    OBVIOUS
  <1>4. RowStep(t, u)
    <2>1. u \in SiteRow /\ u.sent = t.sent /\ u.pages = t.pages /\ u.receipts = t.receipts
          /\ u.hearing = t.hearing /\ u.overridden = t.overridden /\ u.final = t.final
          /\ u.active = t.active /\ u.status = s
      BY <1>3 DEF SiteRow
    <2>2. Ordered(u)
      BY <1>1, <1>2, <2>1 DEF RowComplete, Ordered
    <2> QED BY <1>1, <2>1, <2>2, KeepsFigures
  <1>5. site' = [site EXCEPT ![k].paid = TRUE,
                             ![k].status = IF site[k].status = "UNPAID" THEN "PAID" ELSE site[k].status]
    BY DEF ConsumerPays
  <1>6. site' = [site EXCEPT ![k].paid = TRUE, ![k].status = s]
    BY <1>1, <1>2, <1>5
  <1>7. site \in [BoardTicket -> SiteRow]
    BY DEF BoardInv
  <1>8. [site EXCEPT ![k].paid = TRUE, ![k].status = s] = [site EXCEPT ![k] = u]
    BY <1>1, <1>3, <1>7 DEF SiteRow
  <1> QED BY <1>1, <1>4, <1>6, <1>8, SiteMoves, OnlySite DEF ConsumerPays

-----------------------------------------------------------------------------
\* Review & Complete.

FinalizeOK(f) == f \in FinalizeForm /\ (f.busy => f.ticket \in BoardTicket)

LEMMA OnlyFinalize ==
    ASSUME BoardInv, FinalizeOK(finalize'), UNCHANGED <<site, costs, runs>>
    PROVE  BoardInv' /\ SiteStep
  <1>1. SiteStep
    BY SiteRests
  <1>2. \A r \in runs' : RunFits(r)'
    BY <1>1, RunsRest
  <1> QED BY <1>1, <1>2 DEF BoardInv, FinalizeOK, RowComplete

LEMMA OpenFinalizeSafe ==
    ASSUME BoardInv, NEW k \in BoardTicket, openFinalizeModal(k) PROVE BoardInv' /\ SiteStep
  <1>1. PICK f \in FinalizeForm : f = finalize
    BY DEF BoardInv
  <1>2. PICK l \in SUBSET BoardTicket : l = f.loading \cup {k}
    BY <1>1 DEF FinalizeForm
  <1>3. PICK old \in {0} \cup DeliveryCharge :
          finalize' = [f EXCEPT !.ticket = k, !.pages = 0, !.delivery = old, !.loading = l]
    BY <1>1, <1>2 DEF openFinalizeModal
  <1>4. FinalizeOK(finalize')
    BY <1>1, <1>3 DEF FinalizeForm, FinalizeOK
  <1> QED BY <1>4, OnlyFinalize DEF openFinalizeModal

LEMMA DetailSafe ==
    ASSUME BoardInv, NEW k \in BoardTicket, DetailAnswered(k) PROVE BoardInv' /\ SiteStep
  <1>1. PICK f \in FinalizeForm : f = finalize /\ FinalizeOK(f)
    BY DEF BoardInv, FinalizeOK
  <1>2. PICK l \in SUBSET BoardTicket : l = f.loading \ {k}
    BY <1>1 DEF FinalizeForm
  <1>3. PICK t \in SiteRow : t = site[k]
    BY DEF BoardInv
  <1>4. PICK p \in {0} \cup PageCharge : p = IF t.pages # 0 THEN t.pages ELSE f.pages
    BY <1>1 DEF SiteRow, FinalizeForm
  <1>5. PICK d \in {0} \cup DeliveryCharge : d = IF t.delivery # 0 THEN t.delivery ELSE f.delivery
    BY <1>1 DEF SiteRow, FinalizeForm
  <1>6. \/ finalize' = [f EXCEPT !.loading = l]
        \/ finalize' = [f EXCEPT !.loading = l, !.pages = p, !.delivery = d]
    BY <1>1, <1>2, <1>3, <1>4, <1>5 DEF DetailAnswered
  <1>7. FinalizeOK(finalize')
    BY <1>1, <1>6 DEF FinalizeForm, FinalizeOK
  <1> QED BY <1>7, OnlyFinalize DEF DetailAnswered

LEMMA EditFinalizeSafe == ASSUME BoardInv, EditFinalize PROVE BoardInv' /\ SiteStep
  <1>1. PICK f \in FinalizeForm : f = finalize /\ FinalizeOK(f)
    BY DEF BoardInv, FinalizeOK
  <1>2. PICK p \in PageCharge, d \in {0} \cup DeliveryCharge :
          finalize' = [f EXCEPT !.pages = p, !.delivery = d]
    BY <1>1 DEF EditFinalize
  <1>3. FinalizeOK(finalize')
    BY <1>1, <1>2 DEF FinalizeForm, FinalizeOK
  <1> QED BY <1>3, OnlyFinalize DEF EditFinalize

\* The dialog that is closed goes on waiting for what it has asked for.
LEMMA ClosedIs ==
    ASSUME BoardInv PROVE FinalizeOK([NoFinalize EXCEPT !.loading = finalize.loading])
  <1>1. PICK l \in SUBSET BoardTicket : l = finalize.loading
    BY DEF BoardInv, FinalizeForm
  <1>2. PICK f : f = [NoFinalize EXCEPT !.loading = l]
    OBVIOUS
  <1>3. f = [ticket |-> NoTicket, pages |-> 0, delivery |-> 0, loading |-> l, busy |-> FALSE]
    BY <1>2 DEF NoFinalize
  <1>4. FinalizeOK(f)
    BY <1>3 DEF FinalizeForm, FinalizeOK
  <1> QED BY <1>1, <1>2, <1>4

LEMMA CancelFinalizeSafe == ASSUME BoardInv, CancelFinalize PROVE BoardInv' /\ SiteStep
  BY ClosedIs, OnlyFinalize DEF CancelFinalize

LEMMA SubmitFinalizeSafe == ASSUME BoardInv, submitFinalize PROVE BoardInv' /\ SiteStep
  <1>1. PICK f \in FinalizeForm : f = finalize /\ f.ticket # NoTicket
    BY DEF BoardInv, submitFinalize
  <1>2. finalize' = [f EXCEPT !.busy = TRUE]
    BY <1>1 DEF submitFinalize
  <1>3. FinalizeOK(finalize')
    BY <1>1, <1>2 DEF FinalizeForm, FinalizeOK
  <1> QED BY <1>3, OnlyFinalize DEF submitFinalize

\* The row that a completed review leaves.
LEMMA ReviewedIs ==
    ASSUME BoardInv, NEW t \in SiteRow, RowComplete(t), NEW paid \in BOOLEAN
    PROVE  RowStep(t, Reviewed(t, paid))
  <1>1. PICK a \in {"NONE", "SUBMITTED", "VERIFIED", "REJECTED"} :
          a = IF t.approval = "SUBMITTED" THEN "VERIFIED" ELSE t.approval
    BY DEF SiteRow
  <1>2. PICK p \in {0} \cup PageCharge : p = IF t.final THEN t.pages ELSE pagePair(finalize.pages, t.pages)
    BY DEF SiteRow, BoardInv, FinalizeForm, pagePair
  <1>3. t.pages # 0 => p # 0
    BY <1>2 DEF pagePair
  <1>4. PICK d \in {0} \cup DeliveryCharge : d = IF t.final THEN t.delivery ELSE finalize.delivery
    BY DEF BoardInv, FinalizeForm, SiteRow
  <1>5. PICK u : u = [t EXCEPT !.status = "COMPLETED", !.approval = a, !.final = TRUE, !.paid = paid,
                               !.pages = p, !.delivery = d]
    OBVIOUS
  <1>6. /\ u \in SiteRow /\ u.pages = p /\ u.sent = t.sent /\ u.hearing = t.hearing
        /\ u.receipts = t.receipts /\ u.status = "COMPLETED"
    BY <1>5 DEF SiteRow, BoardStatus
  <1>7. RowStep(t, u)
    BY <1>3, <1>6 DEF RowStep, RowComplete, Ordered
  <1>8. Reviewed(t, paid) = u
    BY <1>1, <1>2, <1>4, <1>5 DEF Reviewed
  <1> QED BY <1>7, <1>8

LEMMA FinalizeAnsweredSafe == ASSUME BoardInv, FinalizeAnswered PROVE BoardInv' /\ SiteStep
  <1> DEFINE k == finalize.ticket
  <1>1. k \in BoardTicket
    BY DEF FinalizeAnswered, BoardInv
  <1>2. SiteStep
    <2>1. PICK paid \in BOOLEAN : site' = site \/ site' = [site EXCEPT ![k] = Reviewed(site[k], paid)]
      BY DEF FinalizeAnswered
    <2>2. RowStep(site[k], Reviewed(site[k], paid))
      BY <1>1, ReviewedIs DEF BoardInv
    <2> HIDE DEF k
    <2> QED BY <1>1, <2>1, <2>2, SiteMoves, SiteRests
  <1>3. FinalizeOK(finalize')
    <2>1. PICK f \in FinalizeForm : f = finalize
      BY DEF BoardInv
    <2>2. FinalizeOK([f EXCEPT !.busy = FALSE])
      BY <2>1 DEF FinalizeForm, FinalizeOK
    <2>3. \/ finalize' = [NoFinalize EXCEPT !.loading = finalize.loading]
          \/ finalize' = [f EXCEPT !.busy = FALSE]
      BY <2>1 DEF FinalizeAnswered
    <2> QED BY <2>2, <2>3, ClosedIs
  <1>4. UNCHANGED <<costs, runs>>
    BY DEF FinalizeAnswered
  <1>5. \A r \in runs' : RunFits(r)'
    BY <1>2, <1>4, RunsRest
  <1>6. \A j \in BoardTicket : RowComplete(site'[j])
    BY <1>2 DEF SiteStep, RowStep
  <1> QED BY <1>2, <1>3, <1>4, <1>5, <1>6 DEF BoardInv, SiteStep, FinalizeOK, RowComplete

-----------------------------------------------------------------------------
\* The costs.

LEMMA OpenCostsSafe ==
    ASSUME BoardInv, NEW k \in BoardTicket, openCostsModal(k) PROVE BoardInv' /\ SiteStep
  <1>1. costs' \in CostForm /\ UNCHANGED <<site, finalize, runs>>
    BY DEF openCostsModal, CostForm
  <1>2. SiteStep
    BY <1>1, SiteRests
  <1>3. \A r \in runs' : RunFits(r)'
    BY <1>1, <1>2, RunsRest
  <1> QED BY <1>1, <1>2, <1>3 DEF BoardInv, RowComplete

LEMMA CancelCostsSafe == ASSUME BoardInv, CancelCosts PROVE BoardInv' /\ SiteStep
  <1>1. costs' \in CostForm /\ UNCHANGED <<site, finalize, runs>>
    BY DEF CancelCosts, CostForm, NoCosts
  <1>2. SiteStep
    BY <1>1, SiteRests
  <1>3. \A r \in runs' : RunFits(r)'
    BY <1>1, <1>2, RunsRest
  <1> QED BY <1>1, <1>2, <1>3 DEF BoardInv, RowComplete

\* Submissions change by one that is taken out and perhaps one that is put in.
LEMMA RunsMove ==
    ASSUME BoardInv, SiteStep, costs' \in CostForm, finalize' = finalize,
           NEW n, RunFits(n)', runs' \subseteq runs \cup {n}
    PROVE  BoardInv'
  <1>1. ASSUME NEW r \in runs' PROVE RunFits(r)'
    <2>1. CASE r = n
      BY <2>1
    <2>2. CASE r \in runs
      <3>1. RunFits(r)
        BY <2>2 DEF BoardInv
      <3> QED BY <3>1 DEF RunFits, SiteStep, RowStep
    <2> QED BY <2>1, <2>2
  <1>2. \A k \in BoardTicket : RowComplete(site'[k])
    BY DEF SiteStep, RowStep
  <1> QED BY <1>1, <1>2 DEF BoardInv, SiteStep, RowComplete

LEMMA RunsEnd ==
    ASSUME BoardInv, SiteStep, costs' \in CostForm, finalize' = finalize, runs' \subseteq runs
    PROVE  BoardInv'
  <1>1. \A r \in runs' : RunFits(r)'
    BY RunsRest
  <1>2. \A k \in BoardTicket : RowComplete(site'[k])
    BY DEF SiteStep, RowStep
  <1> QED BY <1>1, <1>2 DEF BoardInv, SiteStep, RowComplete

LEMMA ClickSafe == ASSUME BoardInv, ClickSubmitCosts PROVE BoardInv' /\ SiteStep
  <1>1. PICK n : n = [form |-> costs, step |-> firstStep(costs.with), n |-> 1 + Cardinality(runs)]
    OBVIOUS
  <1>2. /\ n.form = costs /\ n.step = firstStep(costs.with)
        /\ n = [form |-> n.form, step |-> n.step, n |-> n.n]
    BY <1>1
  <1>3. costs \in CostForm /\ costs.ticket \in BoardTicket
    BY DEF BoardInv, ClickSubmitCosts, CostForm
  <1>4. /\ UNCHANGED <<site, finalize, costs>> /\ runs' = runs \cup {n}
    BY <1>1 DEF ClickSubmitCosts
  <1>5. SiteStep
    BY <1>4, SiteRests
  <1>6. RunFits(n)'
    <2>1. /\ n.step \in CostStep /\ (n.step # "hearing" => "hearing" \notin costs.with)
          /\ (n.step = "costs" => "receipt" \notin costs.with)
      BY <1>2 DEF firstStep, CostStep
    <2> QED BY <1>2, <1>3, <2>1 DEF RunFits
  <1> QED BY <1>3, <1>4, <1>5, <1>6, RunsMove

\* A submission that goes on keeps its form.
LEMMA GoesOnIs ==
    ASSUME BoardInv, NEW r \in runs, NEW step \in CostStep, RunGoesOn(r, step)
    PROVE  \E n : /\ n = [form |-> n.form, step |-> n.step, n |-> n.n]
                  /\ n.form = r.form /\ n.step = step /\ runs' \subseteq runs \cup {n}
  <1>1. PICK f, m : r = [form |-> f, step |-> r.step, n |-> m]
    BY DEF BoardInv, RunFits
  <1>2. PICK s : s = r.step
    OBVIOUS
  <1>3. PICK n : n = [form |-> f, step |-> step, n |-> m]
    OBVIOUS
  <1>4. [r EXCEPT !.step = step] = n
    BY <1>1, <1>2, <1>3
  <1>5. runs' \subseteq runs \cup {n}
    BY <1>4 DEF RunGoesOn
  <1>6. n.form = r.form /\ n.step = step /\ n = [form |-> n.form, step |-> n.step, n |-> n.n]
    BY <1>1, <1>2, <1>3
  <1> QED BY <1>5, <1>6

LEMMA GoesOnFits ==
    ASSUME BoardInv, SiteStep, NEW r \in runs, NEW step \in CostStep, RunGoesOn(r, step),
           costs' \in CostForm, finalize' = finalize,
           step # "hearing" /\ "hearing" \in r.form.with => site'[r.form.ticket].hearing,
           step = "costs" /\ "receipt" \in r.form.with => site'[r.form.ticket].receipts > 0
    PROVE  BoardInv'
  <1>1. PICK n : /\ n = [form |-> n.form, step |-> n.step, n |-> n.n]
                 /\ n.form = r.form /\ n.step = step /\ runs' \subseteq runs \cup {n}
    BY GoesOnIs
  <1>2. RunFits(r)
    BY DEF BoardInv
  <1>3. RunFits(n)'
    BY <1>1, <1>2 DEF RunFits
  <1> QED BY <1>1, <1>3, RunsMove

LEMMA RunIs ==
    ASSUME BoardInv, NEW r \in runs
    PROVE  /\ RunFits(r) /\ r.form.ticket \in BoardTicket /\ r.form \in CostForm
           /\ r.form.with \subseteq {"hearing", "receipt"}
           /\ site[r.form.ticket] \in SiteRow /\ RowComplete(site[r.form.ticket])
  <1>1. RunFits(r)
    BY DEF BoardInv
  <1> QED BY <1>1 DEF BoardInv, RunFits, CostForm

LEMMA HearingMoves ==
    ASSUME BoardInv, NEW k \in BoardTicket, site' \in Dated(k)
    PROVE  SiteStep /\ site'[k].hearing
  <1>1. PICK t \in SiteRow : t = site[k] /\ RowComplete(t)
    BY DEF BoardInv
  <1>2. PICK u : u = [t EXCEPT !.hearing = TRUE]
    OBVIOUS
  <1>3. RowStep(t, u) /\ u.hearing
    BY <1>1, <1>2 DEF RowStep, RowComplete, Ordered, SiteRow
  <1>4. site \in [BoardTicket -> SiteRow]
    BY DEF BoardInv
  <1>5. site' = [site EXCEPT ![k] = u]
    BY <1>1, <1>2, <1>4 DEF Dated
  <1>6. site'[k] = u
    BY <1>4, <1>5
  <1> QED BY <1>1, <1>3, <1>5, <1>6, SiteMoves

LEMMA StoredMoves ==
    ASSUME BoardInv, NEW k \in BoardTicket, site' \in Stored(k)
    PROVE  SiteStep /\ site'[k].receipts > 0 /\ (site[k].hearing => site'[k].hearing)
  <1>1. PICK t \in SiteRow : t = site[k] /\ RowComplete(t)
    BY DEF BoardInv
  <1>2. t.receipts \in 0..ReceiptLimit
    BY <1>1 DEF SiteRow
  <1>3. PICK n \in 0..ReceiptLimit : n = IF t.receipts < ReceiptLimit THEN t.receipts + 1 ELSE t.receipts
    BY <1>2, BoardAssumption
  <1>4. n > 0
    BY <1>2, <1>3, BoardAssumption
  <1>5. PICK u : u = [t EXCEPT !.receipts = n]
    OBVIOUS
  <1>6. /\ u \in SiteRow /\ u.pages = t.pages /\ u.sent = t.sent /\ u.hearing = t.hearing
        /\ u.receipts = n /\ Ordered(u)
    BY <1>1, <1>5 DEF SiteRow, RowComplete, Ordered
  <1>7. RowStep(t, u)
    BY <1>1, <1>4, <1>6 DEF RowStep, RowComplete
  <1>8. site \in [BoardTicket -> SiteRow]
    BY DEF BoardInv
  <1>9. site' = [site EXCEPT ![k].receipts = n]
    BY <1>1, <1>3 DEF Stored
  <1>10. site' = [site EXCEPT ![k] = u]
    BY <1>1, <1>5, <1>8, <1>9
  <1>11. site'[k] = u
    BY <1>8, <1>10
  <1> QED BY <1>1, <1>4, <1>6, <1>7, <1>10, <1>11, SiteMoves

LEMMA HearingAnswerSafe ==
    ASSUME BoardInv, NEW r \in runs, HearingAnswered(r) PROVE BoardInv' /\ SiteStep
  <1>1. PICK k \in BoardTicket : k = r.form.ticket
    BY RunIs
  <1>2. finalize' = finalize
    BY DEF HearingAnswered
  <1>3. CASE /\ site' \in Dated(k)
             /\ costs' = [costs EXCEPT !.with = costs.with \ {"hearing"}]
             /\ RunGoesOn(r, firstStep(r.form.with \ {"hearing"}))
    <2>1. SiteStep /\ site'[k].hearing
      BY <1>3, HearingMoves
    <2>2. costs' \in CostForm
      <3>1. PICK c \in CostForm : c = costs
        BY DEF BoardInv
      <3>2. PICK w \in SUBSET {"hearing", "receipt"} : w = c.with \ {"hearing"}
        BY <3>1 DEF CostForm
      <3>3. costs' = [c EXCEPT !.with = w]
        BY <1>3, <3>1, <3>2
      <3> QED BY <3>1, <3>3 DEF CostForm
    <2>3. PICK step \in CostStep : step = firstStep(r.form.with \ {"hearing"})
      BY DEF firstStep, CostStep
    <2>4. step = "costs" => "receipt" \notin r.form.with
      BY <2>3 DEF firstStep
    <2>5. RunGoesOn(r, step)
      BY <1>3, <2>3
    <2> QED BY <1>1, <1>2, <2>1, <2>2, <2>4, <2>5, GoesOnFits
  <1>4. CASE site' \in {site} \cup Dated(k) /\ RunEnds(r) /\ UNCHANGED costs
    <2>1. SiteStep
      BY <1>4, HearingMoves, SiteRests
    <2> QED BY <1>2, <1>4, <2>1, RunsEnd DEF RunEnds, BoardInv
  <1> QED BY <1>1, <1>3, <1>4 DEF HearingAnswered

LEMMA ReceiptAnswerSafe ==
    ASSUME BoardInv, NEW r \in runs, ReceiptAnswered(r) PROVE BoardInv' /\ SiteStep
  <1>1. PICK k \in BoardTicket : k = r.form.ticket
    BY RunIs
  <1>2. finalize' = finalize /\ costs' = costs /\ costs \in CostForm /\ r.step = "receipt"
    BY DEF ReceiptAnswered, BoardInv
  <1>3. CASE site' \in Stored(k) /\ RunGoesOn(r, "costs")
    <2>1. SiteStep /\ site'[k].receipts > 0 /\ (site[k].hearing => site'[k].hearing)
      BY <1>3, StoredMoves
    <2>2. "hearing" \in r.form.with => site[k].hearing
      BY <1>1, <1>2, RunIs DEF RunFits
    <2>3. "costs" \in CostStep
      BY DEF CostStep
    <2> QED BY <1>1, <1>2, <1>3, <2>1, <2>2, <2>3, GoesOnFits
  <1>4. CASE site' \in {site} \cup Stored(k) /\ RunEnds(r)
    <2>1. SiteStep
      BY <1>4, StoredMoves, SiteRests
    <2> QED BY <1>2, <1>4, <2>1, RunsEnd DEF RunEnds
  <1> QED BY <1>1, <1>3, <1>4 DEF ReceiptAnswered

LEMMA CostsAnswerSafe ==
    ASSUME BoardInv, NEW r \in runs, CostsAnswered(r) PROVE BoardInv' /\ SiteStep
  <1>1. PICK k \in BoardTicket : k = r.form.ticket
    BY RunIs
  <1>2. /\ finalize' = finalize /\ r.step = "costs" /\ runs' \subseteq runs
        /\ costs' \in {costs, NoCosts}
        /\ \/ site' = site
           \/ ~site[k].final /\ site' = [site EXCEPT ![k] = withCosts(site[k], r.form)]
    BY <1>1 DEF CostsAnswered, RunEnds, accepts
  <1>3. costs' \in CostForm
    BY <1>2 DEF BoardInv, NoCosts, CostForm
  <1>4. ~site[k].final => RowStep(site[k], withCosts(site[k], r.form))
    <2>1. /\ "receipt" \in r.form.with => site[k].receipts > 0
          /\ "hearing" \in r.form.with => site[k].hearing
      BY <1>1, <1>2, RunIs DEF RunFits
    <2>2. /\ r.form.pages \in {0} \cup PageCharge /\ r.form.delivery \in {0} \cup DeliveryCharge
          /\ r.form.with \subseteq {"hearing", "receipt"}
      BY RunIs DEF CostForm
    <2>3. site[k] \in SiteRow
      BY DEF BoardInv
    <2> QED BY <2>1, <2>2, <2>3, WithCostsIs
  <1>5. SiteStep
    BY <1>2, <1>4, SiteMoves, SiteRests
  <1> QED BY <1>2, <1>3, <1>5, RunsEnd

-----------------------------------------------------------------------------
LEMMA BoardStarts == ASSUME BoardInit PROVE BoardInv
  <1>1. PICK status \in {"UNPAID", "IN_PROGRESS"}, c \in Clerks \cup {"nobody"} :
          site = [k \in BoardTicket |-> NewTicket(status, c)]
    BY DEF BoardInit
  <1>2. PICK t : t = NewTicket(status, c)
    OBVIOUS
  <1>3. t \in SiteRow /\ RowComplete(t)
    BY <1>2, BoardAssumption DEF NewTicket, SiteRow, BoardStatus, RowComplete, Ordered
  <1>4. site \in [BoardTicket -> SiteRow] /\ \A k \in BoardTicket : RowComplete(site[k])
    BY <1>1, <1>2, <1>3
  <1>5. NoFinalize \in FinalizeForm /\ ~NoFinalize.busy /\ NoCosts \in CostForm
    BY DEF NoFinalize, FinalizeForm, NoCosts, CostForm
  <1> QED BY <1>4, <1>5 DEF BoardInit, BoardInv

LEMMA BoardSteps == ASSUME BoardInv, [BoardNext]_boardVars PROVE BoardInv' /\ SiteStep
  <1>1. CASE UNCHANGED boardVars
    <2>1. SiteStep
      BY <1>1, SiteRests DEF boardVars
    <2> QED BY <1>1, <2>1, OnlySite DEF boardVars
  <1>2. CASE \E user \in BoardUser, op \in buttons \ {"assign", "finalize", "costs", "figures", "pay"},
               k \in BoardTicket : RowAction(user, op, k)
    BY <1>2, RowActionSafe
  <1>3. CASE \E k \in BoardTicket :
               Assign(k) \/ Figures(k) \/ ConsumerPays(k) \/ openFinalizeModal(k) \/ DetailAnswered(k)
                 \/ openCostsModal(k)
    BY <1>3, AssignSafe, FiguresSafe, PaysSafe, OpenFinalizeSafe, DetailSafe, OpenCostsSafe
  <1>4. CASE EditFinalize \/ CancelFinalize \/ submitFinalize \/ FinalizeAnswered
    BY <1>4, EditFinalizeSafe, CancelFinalizeSafe, SubmitFinalizeSafe, FinalizeAnsweredSafe
  <1>5. CASE CancelCosts \/ ClickSubmitCosts
    BY <1>5, CancelCostsSafe, ClickSafe
  <1>6. CASE \E r \in runs : RunStep(r)
    BY <1>6, HearingAnswerSafe, ReceiptAnswerSafe, CostsAnswerSafe DEF RunStep
  <1> QED BY <1>1, <1>2, <1>3, <1>4, <1>5, <1>6 DEF BoardNext

\* The conditions of the buttons and those of the server, for one row.
Excepted(user, op, t) ==
    \/ op = "deliver" /\ ~t.paid
    \/ op = "DELIVERED" /\ user = "staff" /\ ~(t.paid /\ t.dispatched)
    \/ user \in Clerks /\ holder(t) # user
    \/ /\ t.overridden
       /\ \/ op = "costs" /\ t.final
          \/ op = "accept" /\ t.active = "nobody"

LEMMA OfferedRow ==
    ASSUME NEW t \in SiteRow, Ordered(t), NEW user \in BoardUser, NEW op \in offered(user, t)
    PROVE  accepts(user, op, t) \/ Excepted(user, op, t)
  <1>0. t.status \in BoardStatus
    BY DEF SiteRow
  <1>1. CASE user \in Clerks
    <2>1. op \in clerkActions(t)
      BY <1>1 DEF offered
    <2>2. \/ t.status = "ASSIGNED" /\ op \in {"accept", "reject"}
          \/ t.status \in {"IN_PROGRESS", "WAITING_APPROVAL"} /\ op \in {"document", "costs", "receipt"}
          \/ t.status = "COMPLETED" /\ ~t.dispatched /\ op = "dispatch"
      BY <1>0, <2>1 DEF clerkActions, BoardStatus
    <2>3. SUFFICES ASSUME holder(t) = user PROVE accepts(user, op, t) \/ Excepted(user, op, t)
      BY <1>1 DEF Excepted
    <2>4. CASE op = "accept"
      <3>1. t.status = "ASSIGNED"
        BY <2>2, <2>4
      <3>2. t.active = user \/ t.active = "nobody"
        BY <2>3 DEF holder
      <3>3. t.active = user => accepts(user, op, t)
        BY <2>4, <3>1 DEF accepts
      <3>4. t.active = "nobody" => t.overridden
        BY <3>1 DEF Ordered
      <3> QED BY <2>4, <3>2, <3>3, <3>4 DEF Excepted
    <2>5. CASE op = "costs"
      <3>1. t.status \in {"IN_PROGRESS", "WAITING_APPROVAL"}
        BY <2>2, <2>5
      <3>2. t.final => t.overridden
        BY <3>1 DEF Ordered
      <3>3. ~t.final => accepts(user, op, t)
        BY <2>3, <2>5, <3>1 DEF accepts, mayAct
      <3> QED BY <2>5, <3>2, <3>3 DEF Excepted
    <2>6. CASE op \notin {"accept", "costs"}
      BY <2>2, <2>3, <2>6 DEF accepts, mayAct
    <2> QED BY <2>4, <2>5, <2>6
  <1>2. CASE user \in Staff /\ op \in overrides(t)
    <2>1. op \in BoardStatus /\ user \in {"staff", "super-admin"}
      BY <1>2 DEF overrides, Staff
    <2>2. CASE op = "DELIVERED"
      <3>1. accepts(user, op, t) <=> (user = "super-admin" \/ (t.paid /\ t.dispatched))
        BY <2>2 DEF accepts
      <3> QED BY <2>1, <2>2, <3>1 DEF Excepted
    <2>3. CASE op # "DELIVERED"
      BY <2>1, <2>3 DEF accepts, BoardStatus
    <2> QED BY <2>2, <2>3
  <1>3. CASE user \in Staff /\ op \in staffActions(t) /\ t.archived
    BY <1>3 DEF staffActions, accepts
  <1>4. CASE user \in Staff /\ op \in staffActions(t) /\ ~t.archived
    <2>1. \/ op \in {"archive", "editCost"}
          \/ t.status # "DELIVERED" /\ op = "edit"
          \/ t.status \in {"UNPAID", "PAID"} /\ op = "assign"
          \/ t.status = "WAITING_APPROVAL" /\ op \in {"finalize", "sendBack"}
          \/ t.status = "COMPLETED" /\ t.dispatched /\ op = "deliver"
          \/ t.status = "COMPLETED" /\ t.hearing /\ op = "nextHearing"
      BY <1>0, <1>4 DEF staffActions, BoardStatus
    <2>2. op = "deliver" => accepts(user, op, t) \/ Excepted(user, op, t)
      BY <2>1 DEF accepts, Excepted
    <2>3. op # "deliver" => accepts(user, op, t)
      BY <2>1 DEF accepts, BoardStatus
    <2> QED BY <2>2, <2>3
  <1>5. user \in Clerks \/ (user \in Staff /\ user \notin Clerks)
    BY DEF BoardUser, Clerks, Staff
  <1>6. user \notin Clerks => op \in staffActions(t) \cup overrides(t)
    BY DEF offered
  <1> QED BY <1>1, <1>2, <1>3, <1>4, <1>5, <1>6

\* Whichever buttons are pressed in whichever order, of rows however old, whichever statuses
\* are overridden and whichever of the requests fail (ticket-board.tsx): what a board offers
\* on a fresh row the server accepts, but for the four refusals OfferedIsAccepted names; no
\* figures stand without the receipt and the date they were sent with, and no page charge is
\* zeroed by a form whose prefill failed.
THEOREM BoardSafe == BoardSpec => BoardIsReliable
  <1>1. BoardSpec => []BoardInv
    BY BoardStarts, BoardSteps, PTL DEF BoardSpec
  <1>2. BoardInv => site \in [BoardTicket -> SiteRow]
    BY DEF BoardInv
  <1>3. BoardInv => OfferedIsAccepted
    <2>1. SUFFICES ASSUME BoardInv, NEW user \in BoardUser, NEW k \in BoardTicket,
                          NEW op \in offered(user, site[k])
                   PROVE  accepts(user, op, site[k]) \/ Excepted(user, op, site[k])
      BY DEF OfferedIsAccepted, Excepted
    <2>2. site[k] \in SiteRow /\ Ordered(site[k])
      BY <2>1 DEF BoardInv, RowComplete
    <2> QED BY <2>2, OfferedRow
  <1>4. BoardInv => CostsComplete
    BY DEF BoardInv, CostsComplete, RowComplete
  <1>5. BoardInv /\ [BoardNext]_boardVars =>
          [\A k \in BoardTicket : site[k].pages # 0 => site'[k].pages # 0]_boardVars
    BY BoardSteps DEF SiteStep, RowStep
  <1> QED BY <1>1, <1>2, <1>3, <1>4, <1>5, PTL DEF BoardSpec, BoardIsReliable, PagesNeverZeroed
=============================================================================
