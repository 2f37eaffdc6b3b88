------------------------------- MODULE BellTab ------------------------------
(***************************************************************************)
(* The bell of one user in one tab.  Its number is asked for when the page *)
(* is mounted and then kept by the tab: plus one for each message of the   *)
(* event stream, minus one for each click, zero for "Read all" and "Clear  *)
(* all".  The rows of the user are in the database.  Requests and their    *)
(* answers, the stream and the user's clicks interleave freely; a request  *)
(* may fail, and all but the two reads are treated as done anyway.  The    *)
(* link of a message is in its metadata, which the stream does not carry.  *)
(***************************************************************************)
EXTENDS Naturals, Sequences, FiniteSets

CONSTANTS
    RowsShown,      \* how many notifications the menu shows (15)
    RowsWritten,    \* bound on the notifications
    AskLimit,       \* bound on the requests under way
    ActionLimit,    \* bound on the requests of a behaviour
    MountLimit      \* bound on page loads

\* The menu shows something: take is at least one.
ASSUME TabAssumption == RowsShown \in Nat \ {0}

VARIABLES
    rows,       \* the notifications of the user, by number: isRead
    written,    \* how many were written
    stream,     \* whether the API holds the tab's response, /notifications/stream
    wire,       \* the messages of the stream that have not arrived, by number
    badge,      \* unread
    shown,      \* notifications: number, isRead and whether its link is known
    asks,       \* requests under way
    asked,      \* how many were sent
    mounts,
    crossed     \* since the page was mounted, something of Crossing happened

tabVars == <<rows, written, stream, wire, badge, shown, asks, asked, mounts, crossed>>

New(kind, n) == [kind |-> kind, number |-> asked, row |-> n, stage |-> "sent", value |-> 0]

unreadRows == {n \in DOMAIN rows : ~rows[n]}

\* The order of findAll: unread first, then the newest first.
before(a, b) == (~rows[a] /\ rows[b]) \/ (rows[a] = rows[b] /\ a > b)

\* The first RowsShown of the rows, of which place gives the order.
Sorted(place) ==
    LET all == Cardinality(DOMAIN rows)
    IN  [i \in 1..(IF all > RowsShown THEN RowsShown ELSE all) |->
            CHOOSE n \in DOMAIN rows : place[n] = i]

\* Mutant: the newest first.
findAll_Newest == Sorted([n \in DOMAIN rows |-> 1 + Cardinality({m \in DOMAIN rows : m > n})])

findAll == Sorted([n \in DOMAIN rows |-> 1 + Cardinality({m \in DOMAIN rows : before(m, n)})])

-----------------------------------------------------------------------------
\* The page.

\* What makes the number of the badge unreliable until the next page load: a row or a
\* message that meets a request of the tab, a row the stream did not carry, a click before
\* the number has come, one whose request failed, and one on a row that is not unread (the
\* tab counts it all the same).
Crossing == asks' # {} /\ wire' # <<>>

Mounted ==
    /\ stream' = FALSE /\ wire' = <<>>
    /\ badge' = 0 /\ shown' = <<>>
    /\ asked' = asked + 1
    /\ asks' = {New("count", 0)}
    /\ crossed' = FALSE

TabInit ==
    /\ rows = <<>> /\ written = 0 /\ mounts = 1
    /\ stream = FALSE /\ wire = <<>>
    /\ badge = 0 /\ shown = <<>>
    /\ asked = 1
    /\ asks = {[kind |-> "count", number |-> 0, row |-> 0, stage |-> "sent", value |-> 0]}
    /\ crossed = FALSE

\* The page is loaded again: the old one takes its answers and its stream with it.
Mount ==
    /\ mounts < MountLimit
    /\ mounts' = mounts + 1
    /\ Mounted
    /\ UNCHANGED <<rows, written>>

\* sse.service.addClient.  The browser opens the stream, and again when it is closed.
addClient ==
    /\ ~stream
    /\ stream' = TRUE
    /\ UNCHANGED <<rows, written, wire, badge, shown, asks, asked, mounts, crossed>>

\* The connection is lost, and what was on it.
StreamCloses ==
    /\ stream
    /\ stream' = FALSE /\ wire' = <<>>
    /\ crossed' = (crossed \/ wire # <<>>)
    /\ UNCHANGED <<rows, written, badge, shown, asks, asked, mounts>>

\* notifications.create: the row, then the push to the streams of the user.
create ==
    /\ written < RowsWritten
    /\ written' = written + 1
    /\ rows' = [n \in DOMAIN rows \cup {written + 1} |-> IF n = written + 1 THEN FALSE ELSE rows[n]]
    /\ wire' = IF stream THEN Append(wire, written + 1) ELSE wire
    /\ UNCHANGED <<stream, badge, shown, asks, asked, mounts>>
    /\ crossed' = (crossed \/ Crossing
                   \/ (~stream /\ ~\E a \in asks : a.kind = "count" /\ a.stage = "sent"))

onmessage ==
    /\ wire # <<>>
    /\ wire' = Tail(wire)
    /\ LET s == <<[row |-> Head(wire), read |-> FALSE, link |-> FALSE]>> \o shown
       IN  shown' = SubSeq(s, 1, IF Len(s) > RowsShown THEN RowsShown ELSE Len(s))
    /\ badge' = badge + 1
    /\ UNCHANGED <<rows, written, stream, asks, asked, mounts, crossed>>

Send(kind, n) ==
    /\ Cardinality(asks) < AskLimit /\ asked < ActionLimit
    /\ asks' = asks \cup {New(kind, n)}
    /\ asked' = asked + 1
    /\ UNCHANGED <<rows, written, stream, wire, badge, shown, mounts>>
    /\ crossed' = (crossed \/ Crossing \/ (kind # "list" /\ \E a \in asks : a.kind = "count"))

\* The menu is opened; its buttons, and a click on one of its lines.
loadNotifications == Send("list", 0)
markAllRead == badge > 0 /\ Send("markAllRead", 0)
clearAll == shown # <<>> /\ Send("clearAll", 0)
markOne == \E i \in 1..Len(shown) : Send("markOne", shown[i].row)

-----------------------------------------------------------------------------
\* The API.

Serve(a) ==
    LET done == [a EXCEPT !.stage = "done"] IN
    /\ a \in asks /\ a.stage = "sent"
    /\ CASE a.kind = "count" ->
              /\ asks' = (asks \ {a}) \cup {[done EXCEPT !.value = Cardinality(unreadRows)]}
              /\ UNCHANGED <<rows, crossed>>
         [] a.kind = "list" ->
              /\ asks' = (asks \ {a}) \cup
                   {[done EXCEPT !.value = [i \in 1..Len(findAll) |->
                        [row |-> findAll[i], read |-> rows[findAll[i]], link |-> TRUE]]]}
              /\ UNCHANGED <<rows, crossed>>
         [] a.kind = "markAllRead" ->
              /\ asks' = (asks \ {a}) \cup {done}
              /\ rows' = [n \in DOMAIN rows |-> TRUE]
              /\ UNCHANGED crossed
         [] a.kind = "clearAll" ->
              /\ asks' = (asks \ {a}) \cup {done}
              /\ rows' = <<>>
              /\ UNCHANGED crossed
         [] a.kind = "markOne" ->
              /\ asks' = (asks \ {a}) \cup {done}
              /\ rows' = [n \in DOMAIN rows |-> rows[n] \/ n = a.row]
              /\ crossed' = (crossed \/ a.row \notin unreadRows)
    /\ UNCHANGED <<written, stream, wire, badge, shown, asked, mounts>>

\* The request is lost or refused.
AskFails(a) ==
    /\ a \in asks /\ a.stage = "sent"
    /\ asks' = (asks \ {a}) \cup {[a EXCEPT !.stage = "failed"]}
    /\ crossed' = (crossed \/ a.kind # "list")
    /\ UNCHANGED <<rows, written, stream, wire, badge, shown, asked, mounts>>

-----------------------------------------------------------------------------
\* The answers.

Answered(a) ==
    /\ a \in asks /\ a.stage # "sent"
    /\ asks' = asks \ {a}
    /\ badge' = CASE a.kind = "count" /\ a.stage = "done" -> a.value
                  [] a.kind \in {"markAllRead", "clearAll"} -> 0
                  [] a.kind = "markOne" -> IF badge = 0 THEN 0 ELSE badge - 1
                  [] OTHER -> badge
    /\ shown' = CASE a.kind = "list" /\ a.stage = "done" -> a.value
                  [] a.kind = "markAllRead" ->
                        [i \in 1..Len(shown) |-> [shown[i] EXCEPT !.read = TRUE]]
                  [] a.kind = "markOne" ->
                        [i \in 1..Len(shown) |->
                            [shown[i] EXCEPT !.read = @ \/ shown[i].row = a.row]]
                  [] a.kind = "clearAll" -> <<>>
                  [] OTHER -> shown
    /\ UNCHANGED <<rows, written, stream, wire, asked, mounts, crossed>>

TabNext ==
    \/ Mount \/ addClient \/ StreamCloses \/ create \/ onmessage
    \/ loadNotifications \/ markAllRead \/ clearAll \/ markOne
    \/ \E a \in asks : Serve(a) \/ AskFails(a) \/ Answered(a)

TabSpec == TabInit /\ [][TabNext]_tabVars

-----------------------------------------------------------------------------
\* Properties.

\* The badge counts: when nothing is under way and nothing crossed since the page was
\* loaded, the tab's own arithmetic has kept the number of unread rows, whatever the user
\* clicked and in whatever order the answers came.
BadgeIsCount == asks = {} /\ wire = <<>> /\ ~crossed => badge = Cardinality(unreadRows)

\* What the badge announces is seen: the list that is read for the menu, when nothing else
\* is under way, has an unread notification if the badge shows a number, however many
\* newer ones have been read.
UnreadIsSeen ==
    \A a \in asks, b \in asks' :
        a.kind = "list" /\ a.stage = "sent" /\ b = [a EXCEPT !.stage = "done", !.value = b.value]
        /\ asks = {a} /\ wire = <<>> /\ ~crossed /\ badge > 0
        => \E i \in 1..Len(b.value) : ~b.value[i].read

\* The badge and the menu tell what the database holds: the number the tab has counted
\* itself is right when nothing crossed, and what it announces is among the rows read.
BadgeIsTrue == [][BadgeIsCount' /\ UnreadIsSeen]_tabVars
=============================================================================
