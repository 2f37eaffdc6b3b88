----------------------------- MODULE Elections -----------------------------
(***************************************************************************)
(* One election (ElectionsService) and its cabinet seats (CabinetService). *)
(* A vote is checked in three reads and written in one transaction; the    *)
(* finalisation reads all candidates and writes winners and seats in one   *)
(* transaction later.  Both may run many times and across each other.      *)
(***************************************************************************)
EXTENDS Integers, FiniteSets

CONSTANTS
    Candidate, Position, Voter,
    PollReq,            \* calls of castVote and finalize that overlap
    Votes               \* vote counts an administrator may enter

ASSUME ElectionAssumption == Votes \subseteq Nat

VARIABLES
    election,           \* its status
    candidate,          \* Candidate rows; base is history: votes entered by hand
    vote,               \* Vote rows
    seat,               \* CabinetSeat rows
    pollReq

electionVars == <<election, candidate, vote, seat, pollReq>>

CandidateRow == [listed : BOOLEAN, position : Position, votes : Int, isWinner : BOOLEAN, base : Int]
VoteRow == [voter : Voter, position : Position, candidate : Candidate]
SeatRow == [candidate : Candidate, position : Position, votes : Int]
IdlePoll == [op |-> "idle"]

ElectionInit ==
    /\ election = "ACTIVE"
    /\ \E p \in [Candidate -> Position] :
         candidate = [c \in Candidate |-> [listed |-> FALSE, position |-> p[c], votes |-> 0,
                                           isWinner |-> FALSE, base |-> 0]]
    /\ vote = {} /\ seat = {}
    /\ pollReq = [r \in PollReq |-> IdlePoll]

Listed == {c \in Candidate : candidate[c].listed}

AddCandidate(c) ==
    /\ ~candidate[c].listed
    /\ \E n \in Votes : candidate' = [candidate EXCEPT ![c].listed = TRUE, ![c].votes = n,
                                                       ![c].base = n]
    /\ UNCHANGED <<election, vote, seat, pollReq>>

\* updateCandidate may overwrite the count and move the candidate.
UpdateCandidate(c) ==
    /\ candidate[c].listed
    /\ \E n \in Votes, p \in Position :
         candidate' = [candidate EXCEPT ![c].votes = n, ![c].position = p,
                          ![c].base = n - Cardinality({v \in vote : v.candidate = c})]
    /\ UNCHANGED <<election, vote, seat, pollReq>>

\* castVote: active election, candidate of that position, no vote yet ...
CastVote(r) ==
    \E c \in Listed, w \in Voter :
        /\ pollReq[r] = IdlePoll
        /\ election = "ACTIVE"
        /\ ~\E v \in vote : v.voter = w /\ v.position = candidate[c].position
        /\ pollReq' = [pollReq EXCEPT ![r] = [op |-> "vote", row |->
                          [voter |-> w, position |-> candidate[c].position, candidate |-> c]]]
        /\ UNCHANGED <<election, candidate, vote, seat>>

\* Mutant: the count is incremented outside the transaction of the vote row.
WriteVote_Apart(r) ==
    LET v == pollReq[r].row IN
    /\ pollReq[r].op = "vote"
    /\ candidate' = [candidate EXCEPT ![v.candidate].votes = @ + 1]
    /\ vote' = IF \E o \in vote : o.voter = v.voter /\ o.position = v.position
                 THEN vote ELSE vote \cup {v}
    /\ pollReq' = [pollReq EXCEPT ![r] = IdlePoll]
    /\ UNCHANGED <<election, seat>>

\* ... and the transaction, which the unique key undoes as a whole.
WriteVote(r) ==
    LET v == pollReq[r].row
        taken == \E o \in vote : o.voter = v.voter /\ o.position = v.position
    IN  /\ pollReq[r].op = "vote"
        /\ candidate' = IF taken THEN candidate
                        ELSE [candidate EXCEPT ![v.candidate].votes = @ + 1]
        /\ vote' = IF taken THEN vote ELSE vote \cup {v}
        /\ pollReq' = [pollReq EXCEPT ![r] = IdlePoll]
        /\ UNCHANGED <<election, seat>>

\* The rows of one pass over the candidates: the first of the greatest count wins a
\* position, and the query names no order.
winnersByPosition ==
    {W \in SUBSET Listed :
        /\ \A c \in W : \A d \in Listed :
              candidate[d].position = candidate[c].position => candidate[d].votes <= candidate[c].votes
        /\ \A c, d \in W : candidate[c].position = candidate[d].position => c = d
        /\ \A d \in Listed : \E c \in W : candidate[c].position = candidate[d].position}

\* finalize asks for no status: it may be called again.
Finalize(r) ==
    /\ pollReq[r] = IdlePoll
    /\ \E W \in winnersByPosition :
         pollReq' = [pollReq EXCEPT ![r] = [op |-> "finalize", seats |->
            {[candidate |-> c, position |-> candidate[c].position, votes |-> candidate[c].votes] : c \in W}]]
    /\ UNCHANGED <<election, candidate, vote, seat>>

WriteResult(r) ==
    LET seats == pollReq[r].seats
        winners == {s.candidate : s \in seats}
    IN  /\ pollReq[r].op = "finalize"
        /\ candidate' = [c \in Candidate |-> [candidate[c] EXCEPT !.isWinner = c \in winners]]
        /\ seat' = seats
        /\ election' = "FINALIZED"
        /\ pollReq' = [pollReq EXCEPT ![r] = IdlePoll]
        /\ UNCHANGED vote

PollReqDies(r) ==
    /\ pollReq[r] # IdlePoll
    /\ pollReq' = [pollReq EXCEPT ![r] = IdlePoll]
    /\ UNCHANGED <<election, candidate, vote, seat>>

ElectionNext ==
    \/ \E c \in Candidate : AddCandidate(c) \/ UpdateCandidate(c)
    \/ \E r \in PollReq : \/ CastVote(r) \/ WriteVote(r) \/ Finalize(r) \/ WriteResult(r)
                          \/ PollReqDies(r)

ElectionSpec == ElectionInit /\ [][ElectionNext]_electionVars

-----------------------------------------------------------------------------
\* Properties.

\* Type correctness of the rows.
ElectionTypeOK ==
    /\ election \in {"ACTIVE", "FINALIZED"}
    /\ candidate \in [Candidate -> CandidateRow]
    /\ vote \subseteq VoteRow /\ seat \subseteq SeatRow
    /\ \A r \in PollReq : pollReq[r].op \in {"idle", "vote", "finalize"}

\* A candidate's count is what was entered by hand plus one for each vote row: a vote
\* that loses the race against the voter's other vote leaves no trace in the count.
TallyMatchesVotes ==
    \A c \in Candidate :
        candidate[c].votes = candidate[c].base + Cardinality({v \in vote : v.candidate = c})

\* Nobody has two votes for a position, however many requests passed the check.
OneVotePerPosition ==
    \A v, o \in vote : v.voter = o.voter /\ v.position = o.position => v = o

\* The cabinet of a finalised election seats exactly the declared winners, one for each
\* position, also after a second finalisation that overlapped with the first.
SeatsAreWinners ==
    election = "FINALIZED" =>
        /\ {s.candidate : s \in seat} = {c \in Candidate : candidate[c].isWinner}
        /\ \A s, o \in seat : s.position = o.position => s = o

\* The result is what was voted: one vote for each voter and position, counts that match
\* the votes, and seats that match the declared winners (elections.service.ts:180-320).
BallotIsSound == ElectionTypeOK /\ TallyMatchesVotes /\ OneVotePerPosition /\ SeatsAreWinners
=============================================================================
