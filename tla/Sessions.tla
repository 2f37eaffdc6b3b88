------------------------------ MODULE Sessions ------------------------------
(***************************************************************************)
(* Signing in and staying signed in: the one-time codes of OtpService, the *)
(* refresh tokens of AuthService, and in the browser refreshAccessToken    *)
(* and apiClient.fetch (api-client.ts) with the auth guards.  The tabs of  *)
(* a browser share localStorage but not the promise of a refresh under way.*)
(* Tokens are numbered in the order they are issued; 0 is none.            *)
(***************************************************************************)
EXTENDS Integers, FiniteSets

CONSTANTS
    BrowserTab,
    Fetch,              \* calls of apiClient.fetch, each made once
    TabOf,              \* the tab of each
    OtpReq,             \* requests to OtpService that overlap
    TokenLimit, CodeLimit,
    MAX_ATTEMPTS

ASSUME SessionAssumption ==
    /\ TabOf \in [Fetch -> BrowserTab]
    /\ IsFiniteSet(OtpReq)
    /\ TokenLimit \in Nat \ {0} /\ CodeLimit \in Nat /\ MAX_ATTEMPTS \in Nat

VARIABLES
    storage,            \* localStorage: the pair of tokens
    userRow,            \* the user row: hashedRefreshToken, isActive; tokens issued so far
    freshAccess,        \* access tokens that have not expired
    refreshing,         \* per tab: refreshPromise, and where its request is
    fetching,           \* per call: where it is, and whether it may still retry
    otp,                \* the codes of one phone
    otpReq

tokenVars == <<storage, userRow, freshAccess, refreshing, fetching>>
otpVars == <<otp, otpReq>>
sessionVars == <<tokenVars, otpVars>>

NoRefresh == [pc |-> "none", token |-> 0, answer |-> 0]
SessionInit ==
    /\ storage = [access |-> 1, refresh |-> 1]
    /\ userRow = [hash |-> 1, isActive |-> TRUE, issued |-> 1]
    /\ freshAccess = {1}
    /\ refreshing = [b \in BrowserTab |-> NoRefresh]
    /\ fetching = [f \in Fetch |-> [pc |-> "new", token |-> 0, retry |-> TRUE]]
    /\ otp = <<>>
    /\ otpReq = [r \in OtpReq |-> [pc |-> "idle", code |-> 0, right |-> FALSE]]

-----------------------------------------------------------------------------
\* The server.

AccessExpires ==
    /\ freshAccess # {}
    /\ freshAccess' = {}
    /\ UNCHANGED <<storage, userRow, refreshing, fetching, otpVars>>

\* login, OTP sign-in and impersonation of the account elsewhere replace the hash;
\* logout clears it; an administrator deactivates the user.
SignInElsewhere ==
    /\ userRow.isActive /\ userRow.issued < TokenLimit
    /\ userRow' = [userRow EXCEPT !.issued = userRow.issued + 1, !.hash = userRow.issued + 1]
    /\ UNCHANGED <<storage, freshAccess, refreshing, fetching, otpVars>>
Logout ==
    /\ userRow' \in {[userRow EXCEPT !.hash = 0], [userRow EXCEPT !.isActive = FALSE]}
    /\ userRow' # userRow
    /\ UNCHANGED <<storage, freshAccess, refreshing, fetching, otpVars>>

\* bcrypt looks at the first 72 bytes: whether they tell two tokens of an account apart
\* depends on its id, so a token other than the last may match or not.
compare(token) == IF token = userRow.hash THEN {TRUE} ELSE {TRUE, FALSE}

\* AuthService.refresh: the checks, and the new pair when they pass.
ServeRefresh(b) ==
    LET q == refreshing[b] IN
    /\ q.pc = "sent"
    /\ \E ok \in IF userRow.isActive /\ userRow.hash # 0 THEN compare(q.token) ELSE {FALSE} :
         IF ok /\ userRow.issued < TokenLimit
           THEN /\ userRow' = [userRow EXCEPT !.issued = userRow.issued + 1, !.hash = userRow.issued + 1]
                /\ freshAccess' = freshAccess \cup {userRow.issued + 1}
                /\ refreshing' = [refreshing EXCEPT ![b].pc = "answered",
                                                    ![b].answer = userRow.issued + 1]
           ELSE /\ refreshing' = [refreshing EXCEPT ![b].pc = "answered"]
                /\ UNCHANGED <<userRow, freshAccess>>
    /\ UNCHANGED <<storage, fetching, otpVars>>

\* The connection drops before or after the server has acted.
RefreshLost(b) ==
    /\ refreshing[b].pc \in {"sent", "answered"}
    /\ refreshing' = [refreshing EXCEPT ![b].pc = "answered", ![b].answer = 0]
    /\ refreshing' # refreshing
    /\ UNCHANGED <<storage, userRow, freshAccess, fetching, otpVars>>

-----------------------------------------------------------------------------
\* The browser.

SendFetch(f) ==
    /\ fetching[f].pc = "new"
    /\ fetching' = [fetching EXCEPT ![f].pc = "sent", ![f].token = storage.access]
    /\ UNCHANGED <<storage, userRow, freshAccess, refreshing, otpVars>>

joinOrStart(b) == refreshing[b] = NoRefresh

retryOnAuthFailure(f) == fetching[f].retry

\* The answer: success, or 401 and then the refresh, one per tab.
FetchAnswered(f) ==
    LET b == TabOf[f] IN
    /\ fetching[f].pc = "sent"
    /\ IF fetching[f].token \in freshAccess /\ userRow.isActive
         THEN fetching' = [fetching EXCEPT ![f].pc = "ok"] /\ UNCHANGED <<storage, refreshing>>
       ELSE IF retryOnAuthFailure(f) /\ storage.refresh # 0
         THEN /\ fetching' = [fetching EXCEPT ![f].pc = "waiting"]
              /\ refreshing' = IF joinOrStart(b)
                                 THEN [refreshing EXCEPT ![b] = [pc |-> "sent", answer |-> 0,
                                                                 token |-> storage.refresh]]
                                 ELSE refreshing
              /\ UNCHANGED storage
       ELSE /\ fetching' = [fetching EXCEPT ![f].pc = "unauthorized"]
            /\ storage' = [access |-> 0, refresh |-> 0]
            /\ UNCHANGED refreshing
    /\ UNCHANGED <<userRow, freshAccess, otpVars>>

\* Mutant: a refresh that fails is never settled.
RefreshSettles_OnSuccess(b) ==
    LET new == refreshing[b].answer
        waiters == {f \in Fetch : TabOf[f] = b /\ fetching[f].pc = "waiting"}
    IN  /\ refreshing[b].pc = "answered" /\ new # 0
        /\ storage' = [access |-> new, refresh |-> new]
        /\ refreshing' = [refreshing EXCEPT ![b] = NoRefresh]
        /\ fetching' = [f \in Fetch |-> IF f \notin waiters THEN fetching[f]
             ELSE [fetching[f] EXCEPT !.pc = "sent", !.token = new, !.retry = FALSE]]
        /\ UNCHANGED <<userRow, freshAccess, otpVars>>

\* The refresh settles: the pair is stored or everything is removed, the promise is
\* cleared, and the calls of the tab go on; a null answer ends them at the login page.
RefreshSettles(b) ==
    LET new == refreshing[b].answer
        waiters == {f \in Fetch : TabOf[f] = b /\ fetching[f].pc = "waiting"}
    IN  /\ refreshing[b].pc = "answered"
        /\ storage' = [access |-> new, refresh |-> new]
        /\ refreshing' = [refreshing EXCEPT ![b] = NoRefresh]
        /\ fetching' = [f \in Fetch |->
             IF f \notin waiters THEN fetching[f]
             ELSE IF new = 0 THEN [fetching[f] EXCEPT !.pc = "unauthorized"]
             ELSE [fetching[f] EXCEPT !.pc = "sent", !.token = new, !.retry = FALSE]]
        /\ UNCHANGED <<userRow, freshAccess, otpVars>>

-----------------------------------------------------------------------------
\* One-time codes: rows [consumed, expired, attempts, guesses]; guesses is history,
\* how many wrong codes were compared with this one.

NewCode == [consumed |-> FALSE, expired |-> FALSE, attempts |-> 0, guesses |-> 0]
Codes == DOMAIN otp
latest == CHOOSE i \in Codes : /\ ~otp[i].consumed
                               /\ \A j \in Codes : ~otp[j].consumed => j <= i

\* request: cooldown and hourly limit passed; the older codes are consumed ...
RequestCode(r) ==
    /\ otpReq[r].pc = "idle"
    /\ otpReq' = [otpReq EXCEPT ![r].pc = "create"]
    /\ otp' = [i \in Codes |-> [otp[i] EXCEPT !.consumed = TRUE]]
    /\ UNCHANGED tokenVars
\* ... and then the new one is created.
CreateCode(r) ==
    /\ otpReq[r].pc = "create"
    /\ Cardinality(Codes) < CodeLimit
    /\ otp' = [i \in 1..(Cardinality(Codes) + 1) |-> IF i \in Codes THEN otp[i] ELSE NewCode]
    /\ otpReq' = [otpReq EXCEPT ![r].pc = "idle"]
    /\ UNCHANGED tokenVars

attemptsLeft(i) == otp[i].attempts < MAX_ATTEMPTS

\* verify: the latest open code, its expiry and its attempts, then the comparison.
VerifyCode(r) ==
    /\ otpReq[r].pc = "idle"
    /\ \E i \in Codes : ~otp[i].consumed
    /\ ~otp[latest].expired /\ attemptsLeft(latest)
    /\ \E right \in BOOLEAN :
         /\ otpReq' = [otpReq EXCEPT ![r] = [pc |-> "write", code |-> latest, right |-> right]]
         /\ otp' = IF right THEN otp ELSE [otp EXCEPT ![latest].guesses = @ + 1]
    /\ UNCHANGED tokenVars
WriteVerify(r) ==
    LET q == otpReq[r] IN
    /\ q.pc = "write"
    /\ otp' = IF q.right THEN [otp EXCEPT ![q.code].consumed = TRUE]
                         ELSE [otp EXCEPT ![q.code].attempts = @ + 1]
    /\ otpReq' = [otpReq EXCEPT ![r].pc = "idle"]
    /\ UNCHANGED tokenVars
CodeExpires ==
    /\ \E i \in Codes : ~otp[i].expired /\ otp' = [otp EXCEPT ![i].expired = TRUE]
    /\ UNCHANGED <<tokenVars, otpReq>>

TokenNext ==
    \/ AccessExpires \/ SignInElsewhere \/ Logout
    \/ \E b \in BrowserTab : ServeRefresh(b) \/ RefreshLost(b) \/ RefreshSettles(b)
    \/ \E f \in Fetch : SendFetch(f) \/ FetchAnswered(f)
OtpNext ==
    \/ \E r \in OtpReq : RequestCode(r) \/ CreateCode(r) \/ VerifyCode(r) \/ WriteVerify(r)
    \/ CodeExpires
SessionNext == TokenNext \/ OtpNext
SessionSpec == SessionInit /\ [][SessionNext]_sessionVars

\* Every request is answered or fails, and the browser runs its continuations.
SessionFairness ==
    /\ \A b \in BrowserTab : WF_sessionVars(ServeRefresh(b)) /\ WF_sessionVars(RefreshSettles(b))
    /\ \A f \in Fetch : WF_sessionVars(FetchAnswered(f))

-----------------------------------------------------------------------------
\* Properties.

\* Type correctness of the tokens, the calls and the codes.
SessionTypeOK ==
    /\ storage \in [access : 0..TokenLimit, refresh : 0..TokenLimit]
    /\ userRow \in [hash : 0..TokenLimit, isActive : BOOLEAN, issued : 1..TokenLimit]
    /\ freshAccess \subseteq 1..TokenLimit
    /\ refreshing \in [BrowserTab -> [pc : {"none", "sent", "answered"}, token : 0..TokenLimit,
                                      answer : 0..TokenLimit]]
    /\ fetching \in [Fetch -> [pc : {"new", "sent", "waiting", "ok", "unauthorized"},
                               token : 0..TokenLimit, retry : BOOLEAN]]
    /\ \A i \in Codes : otp[i].attempts \in Nat /\ otp[i].consumed \in BOOLEAN
    /\ \A r \in OtpReq : otpReq[r].pc \in {"idle", "create", "write"}

\* Every call comes to an end, whatever expires, is revoked or is lost on the way: a
\* call never waits for a refresh that has settled, and never refreshes forever.
FetchEnds == \A f \in Fetch : (fetching[f].pc = "sent") ~> (fetching[f].pc \in {"ok", "unauthorized"})

\* However many guesses overlap, the number of wrong codes compared with one code stays
\* within the attempts allowed and one for every other request in flight.
GuessesBounded ==
    \A i \in Codes : otp[i].guesses <= MAX_ATTEMPTS + Cardinality(OtpReq) - 1

\* Sessions neither hang nor give way: a call always ends although calls and tabs share one
\* refresh that may be lost, and overlapping guesses of a code stay bounded.
SessionsHold == []SessionTypeOK /\ []GuessesBounded /\ FetchEnds
=============================================================================
