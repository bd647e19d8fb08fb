----------------------------- MODULE IssuesBoard ----------------------------
(***************************************************************************)
(* The page of the issues (src/apps/web/features/issues, issues-page.tsx   *)
(* and what it draws): the board with its drag and drop, the list with its *)
(* selection and batch toolbar, the filters and the order of the two view  *)
(* stores, over the store of the issues, which the events write as well.   *)
(***************************************************************************)
EXTENDS Sublists
LOCAL INSTANCE SequencesExt

CONSTANTS
    Card,          \* issues, numbered in the order of their creation; one list has them all
    MyCards,       \* those the user created
    StartRows,     \* rows the server may hold at first: functions of Card
    Unit,          \* the distance 1 between positions, divisible by what the halvings ask
    Slots,         \* bound: requests in flight
    MaxWire,       \* bound: events on their way
    MaxSteps       \* bound: clicks, background changes and failures, together

VARIABLES
    store,     \* issue store: its issues, in its order
    loading,   \* issue store: the first fetch has not ended
    page,      \* pageMode: "my" or "workspace"
    views,     \* the two view stores, with the scope of each page
    selected,  \* selection store
    toolbar,   \* BatchActionToolbar: loading and deleteOpen
    call,      \* requests in flight
    wire,      \* events on their way to this client
    row,       \* server: the issues
    astray,    \* bookkeeping for BoardAgrees
    left       \* what is left of MaxSteps

vars == <<store, loading, page, views, selected, toolbar, call, wire, row, astray, left>>

Status == {"todo", "done", "cancelled"}
BoardStatus == Status \ {"cancelled"}
Who == {"me", "member", "agent", "nobody"}

NoCard == 0    \* dropped on a column
NoBar  == [loading |-> FALSE, dialog |-> FALSE]
NewView == [mode |-> "board", manual |-> TRUE, asc |-> TRUE, scope |-> "first",
            status |-> {}, who |-> {}, folded |-> {}]

Idle == [kind |-> "idle", status |-> "idle", ids |-> {}, to |-> "todo", pos |-> 0,
         over |-> NoCard, rows |-> <<>>, old |-> FALSE]
Request(kind, ids) == [Idle EXCEPT !.kind = kind, !.status = "sent", !.ids = ids]
Free == {n \in Slots : call[n].kind = "idle" /\ \A m \in Slots : m < n => call[m].kind # "idle"}
Send(n, r) == n \in Free /\ call' = [call EXCEPT ![n] = r]
Spend == left > 0 /\ left' = left - 1

-----------------------------------------------------------------------------
(* What is drawn.                                                          *)

view == views[page]

\* The tabs of the two pages: assigned to me, to agents, created by me; all, to
\* members, to agents.
InScope(i) ==
    CASE page = "my" /\ view.scope = "first"         -> i.who = "me"
      [] page = "my" /\ view.scope = "second"        -> i.who = "agent"
      [] page = "my" /\ view.scope = "third"         -> i.id \in MyCards
      [] page = "workspace" /\ view.scope = "first"  -> TRUE
      [] page = "workspace" /\ view.scope = "second" -> i.who \in {"me", "member"}
      [] page = "workspace" /\ view.scope = "third"  -> i.who = "agent"

\* filterIssues: an empty filter lets everything through.  The assignees stand for
\* the priorities and the creators as well; "my" page has no filter of this kind.
FilterIssues(i) ==
    /\ view.status # {} => i.status \in view.status
    /\ page = "workspace" /\ view.who # {} => i.who \in view.who

VisibleStatuses == IF view.status = {} THEN BoardStatus ELSE BoardStatus \cap view.status
HiddenStatuses  == BoardStatus \ VisibleStatuses

Drawn(mode) == ~loading /\ view.mode = mode /\ \E k \in DOMAIN store : InScope(store[k])

Issue(c) == store[CHOOSE k \in DOMAIN store : store[k].id = c]
Shown(s) == {k \in DOMAIN store : /\ store[k].status = s /\ s \in VisibleStatuses
                                  /\ InScope(store[k]) /\ FilterIssues(store[k])}
ListedIn(s) == {store[k].id : k \in Shown(s)}
Listed(c) == c \in ListedIn(Issue(c).status)

\* issuesByStatus of BoardView: by position, the order of the store among equals.
Column(s) ==
    LET Before(j, k) == \/ store[j].pos < store[k].pos
                        \/ store[j].pos = store[k].pos /\ j < k
        order == SetToSortSeq(Shown(s), Before)
    IN  [k \in DOMAIN order |-> store[order[k]].id]

IndexOf(seq, x) == SelectInSeq(seq, LAMBDA y : y = x)
Held     == {store[k].id : k \in DOMAIN store}

\* computePosition(siblings, targetIndex), the index from 0.
ComputePosition(siblings, at) ==
    LET Pos(k) == Issue(siblings[k]).pos IN
    IF siblings = <<>> THEN 0
    ELSE IF at <= 0 THEN Pos(1) - Unit
    ELSE IF at >= Len(siblings) THEN Pos(Len(siblings)) + Unit
    ELSE (Pos(at) + Pos(at + 1)) \div 2

\* Mutation: a card that moves down is put before the card it is dropped on.
BeforeAlways(c, over, siblings) == IndexOf(siblings, over) - 1

\* handleDragEnd: before the card it is dropped on, or after it when it moves down.
TargetIndex(c, over, siblings) ==
    LET at == IndexOf(siblings, over) - 1
        down == Issue(c).status = Issue(over).status /\ Issue(c).pos < Issue(over).pos
    IN  IF down THEN at + 1 ELSE at

\* The toolbar is drawn while anything is selected, in the list of either page; its
\* dialog is modal.
Toolbar == ~loading /\ view.mode = "list" /\ selected # {}
Click   == ~(Toolbar /\ toolbar.dialog) /\ Spend

-----------------------------------------------------------------------------
(* The view stores.                                                        *)

\* The effect that clears the selection; the toolbar is mounted with a list, be it
\* of the one page or of the other, and the answers to an unmounted one find no flag.
ShowView(p, vs, clears) ==
    /\ page' = p /\ views' = vs
    /\ selected' = (IF clears THEN {} ELSE selected)
    /\ IF vs[p].mode = "list" THEN UNCHANGED <<toolbar, call>>
       ELSE /\ toolbar' = NoBar
            /\ call' = [n \in Slots |-> [call[n] EXCEPT !.old = call[n].kind # "idle"]]
    /\ UNCHANGED <<store, loading, wire, row, astray>>

SetPageMode(p) == ~loading /\ p # page /\ Click /\ ShowView(p, views, TRUE)

Set(v, clears) ==
    ~loading /\ v # view /\ Click /\ ShowView(page, [views EXCEPT ![page] = v], clears)

SetScope(s)    == Set([view EXCEPT !.scope = s], TRUE)
SetViewMode(m) == Set([view EXCEPT !.mode = m], TRUE)

Toggled(set, x) == IF x \in set THEN set \ {x} ELSE set \cup {x}

ToggleStatusFilter(s) == Set([view EXCEPT !.status = Toggled(@, s)], FALSE)
ToggleWhoFilter(w)    == page = "workspace" /\ Set([view EXCEPT !.who = Toggled(@, w)], FALSE)
ClearFilters          == Set([view EXCEPT !.status = {}, !.who = {}], FALSE)

\* The menu of a column; to hide the last one shows them all.
HideStatus(s) ==
    /\ Drawn("board") /\ s \in VisibleStatuses
    /\ Set([view EXCEPT !.status = (IF @ = {} THEN Status ELSE @) \ {s}], FALSE)

ShowStatus(s) ==
    /\ Drawn("board") /\ s \in HiddenStatuses
    /\ Set([view EXCEPT !.status = IF @ = {} THEN @ ELSE @ \cup {s}], FALSE)

SetSortBy(manual)     == Set([view EXCEPT !.manual = manual], FALSE)
SetSortDirection(asc) == Set([view EXCEPT !.asc = asc], FALSE)

\* The two headers; each is bound to the view store of its page.
Filters ==
    \/ \E s \in {"first", "second", "third"} : SetScope(s)
    \/ \E s \in Status : ToggleStatusFilter(s)
    \/ \E w \in Who : ToggleWhoFilter(w)
    \/ ClearFilters
Display ==
    \/ \E m \in {"board", "list"} : SetViewMode(m)
    \/ \E b \in BOOLEAN : SetSortBy(b) \/ SetSortDirection(b)

IssuesHeader    == page = "workspace" /\ (Filters \/ Display)
MyIssuesFilters == page = "my" /\ Filters
MyIssuesDisplay == page = "my" /\ Display

ToggleListCollapsed(s) ==
    /\ Drawn("list") /\ s \in VisibleStatuses
    /\ Set([view EXCEPT !.folded = Toggled(@, s)], FALSE)

-----------------------------------------------------------------------------
(* The board.                                                              *)

UpdateIssue(s, c, i) == [k \in DOMAIN s |-> IF s[k].id = c THEN i ELSE s[k]]
RemoveAll(s, set)    == Kept(s, {k \in DOMAIN s : s[k].id \notin set})

\* handleDragEnd and handleMoveIssue: the store first, then the server; a board in
\* another order goes back to the manual one.
Drop(n, c, to, over) ==
    LET siblings == SelectSeq(Column(to), LAMBDA x : x # c)
        at  == IF over = NoCard THEN Len(siblings) ELSE TargetIndex(c, over, siblings)
        pos == ComputePosition(siblings, at)
        i   == [Issue(c) EXCEPT !.status = to, !.pos = pos]
    IN
    /\ i # Issue(c)
    /\ views' = [views EXCEPT ![page] =
                   IF @.manual THEN @ ELSE [@ EXCEPT !.manual = TRUE, !.asc = TRUE]]
    /\ store' = UpdateIssue(store, c, i)
    /\ Send(n, [Request("move", {c}) EXCEPT !.to = to, !.pos = pos, !.over = over])
    /\ UNCHANGED <<loading, page, selected, toolbar, wire, row, astray>>

DropOnCard(n, c, d) ==
    /\ c # d /\ Click /\ Drawn("board") /\ Listed(c) /\ Listed(d)
    /\ Drop(n, c, Issue(d).status, d)

DropOnColumn(n, c, s) ==
    /\ Click /\ Drawn("board") /\ s \in VisibleStatuses /\ Listed(c)
    /\ Drop(n, c, s, NoCard)

\* handleUpdate of a card: its pickers are there while it has an assignee.
PickOnCard(n, c, w) ==
    /\ Click /\ Drawn("board") /\ Listed(c) /\ Issue(c).who \notin {w, "nobody"}
    /\ store' = UpdateIssue(store, c, [Issue(c) EXCEPT !.who = w])
    /\ Send(n, [Request("card", {c}) EXCEPT !.to = w, !.rows = <<Issue(c)>>])
    /\ UNCHANGED <<loading, page, views, selected, toolbar, wire, row, astray>>

-----------------------------------------------------------------------------
(* The list.                                                               *)

Select(set) ==
    /\ selected' = set /\ Click
    /\ UNCHANGED <<store, loading, page, views, toolbar, call, wire, row, astray>>

\* A row that is drawn is checked or unchecked; so is the header of a status.
ToggleRow(c) ==
    /\ Drawn("list") /\ \E s \in VisibleStatuses \ view.folded : c \in ListedIn(s)
    /\ Select(Toggled(selected, c))

ToggleHeader(s) ==
    /\ Drawn("list") /\ ListedIn(s) # {}
    /\ Select(IF ListedIn(s) \subseteq selected THEN selected \ ListedIn(s)
              ELSE selected \cup ListedIn(s))

ClearSelection == Toolbar /\ Select({})

\* handleBatchUpdate: the ids as they were when the toolbar was drawn.
BatchUpdate(n, s) ==
    /\ Toolbar /\ ~toolbar.loading /\ Click
    /\ toolbar' = [toolbar EXCEPT !.loading = TRUE]
    /\ Send(n, [Request("batch", selected) EXCEPT !.to = s])
    /\ UNCHANGED <<store, loading, page, views, selected, wire, row, astray>>

DeleteDialog(open) ==
    /\ Toolbar /\ toolbar.dialog # open /\ (open => ~toolbar.loading)
    /\ toolbar' = [toolbar EXCEPT !.dialog = open]
    /\ UNCHANGED <<store, loading, page, views, selected, call, wire, row, astray, left>>

\* handleBatchDelete: nothing keeps the button of the dialog from a second click.
BatchDelete(n) ==
    /\ Toolbar /\ toolbar.dialog /\ Spend
    /\ toolbar' = [toolbar EXCEPT !.loading = TRUE]
    /\ Send(n, Request("delete", selected))
    /\ UNCHANGED <<store, loading, page, views, selected, wire, row, astray>>

-----------------------------------------------------------------------------
(* The server and the others.                                              *)

Present == {c \in Card : row[c].status # "absent"}
Event(kind, i) == [kind |-> kind, issue |-> i]
Publish(events) == Len(wire) + Len(events) <= MaxWire /\ wire' = wire \o events

\* ListIssues: by position, the younger one first among equals.
Sorted(ids) ==
    \A j, k \in DOMAIN ids :
      j < k => \/ row[ids[j]].pos < row[ids[k]].pos
               \/ row[ids[j]].pos = row[ids[k]].pos /\ ids[j] > ids[k]

SomeoneWrites(c, i) ==
    /\ i # row[c] /\ Spend
    /\ row' = [row EXCEPT ![c] = i]
    /\ Publish(<<Event(IF row[c].status = "absent" THEN "created"
                       ELSE IF i.status = "absent" THEN "deleted" ELSE "updated", i)>>)
    /\ UNCHANGED <<store, loading, page, views, selected, toolbar, call, astray>>

SomeoneMoves(c, s) == c \in Present /\ SomeoneWrites(c, [row[c] EXCEPT !.status = s])
SomeoneDeletes(c)  == c \in Present /\ SomeoneWrites(c, [row[c] EXCEPT !.status = "absent"])
SomeoneCreates(c)  == c \notin Present /\ SomeoneWrites(c, [row[c] EXCEPT !.status = "todo"])

\* What a request makes of an issue.
Applied(r, c) ==
    CASE r.kind = "move"   -> [row[c] EXCEPT !.status = r.to, !.pos = r.pos]
      [] r.kind = "card"   -> [row[c] EXCEPT !.who = r.to]
      [] r.kind = "batch"  -> [row[c] EXCEPT !.status = r.to]
      [] r.kind = "delete" -> [row[c] EXCEPT !.status = "absent"]

\* UpdateIssue, BatchUpdateIssues and BatchDeleteIssues; a batch leaves out what it
\* fails at and still answers 200.
Answer(n) ==
    LET r == call[n] IN
    /\ r.status = "sent"
    /\ \/ /\ r.kind = "list"
          /\ \E ids \in Orders(Present) :
               /\ Sorted(ids)
               /\ call' = [call EXCEPT ![n].status = "ok",
                                      ![n].rows = [k \in DOMAIN ids |-> row[ids[k]]]]
          /\ UNCHANGED <<row, wire, left>>
       \/ /\ r.kind # "list" /\ (r.kind \in {"move", "card"} => r.ids \subseteq Present)
          /\ \E done \in SUBSET (r.ids \cap Present), status \in {"ok", "error"} :
               /\ r.kind \in {"move", "card"} => done = r.ids
               /\ row' = [c \in Card |-> IF c \in done THEN Applied(r, c) ELSE row[c]]
               /\ \E ids \in Orders(done) :   \* a batch, in the order of the selection
                    Publish([k \in DOMAIN ids |->
                               Event(IF r.kind = "delete" THEN "deleted" ELSE "updated",
                                     row'[ids[k]])])
               /\ call' = [call EXCEPT ![n].status = status]
               /\ IF r.kind \in {"batch", "delete"} \/ status = "ok" THEN UNCHANGED left ELSE Spend
       \/ /\ call' = [call EXCEPT ![n].status = "error"]
          /\ IF r.kind \in {"batch", "delete"} \/ ~(r.ids \subseteq Present)
             THEN UNCHANGED left ELSE Spend
          /\ UNCHANGED <<row, wire>>
    /\ UNCHANGED <<store, loading, page, views, selected, toolbar, astray>>

-----------------------------------------------------------------------------
(* Answers and events.                                                     *)

Ended(n, kind, status) == call[n].kind = kind /\ call[n].status = status
Freed(n) == call' = [call EXCEPT ![n] = Idle]

\* updateIssue, addIssue and removeIssue, whoever the actor is.
Heard(s, e) ==
    CASE e.kind = "updated" -> UpdateIssue(s, e.issue.id, e.issue)
      [] e.kind = "created" -> IF \E k \in DOMAIN s : s[k].id = e.issue.id THEN s
                               ELSE Append(s, e.issue)
      [] e.kind = "deleted" -> RemoveAll(s, {e.issue.id})

\* What the store will be when every event has been heard.
Told(s) ==
    LET told[k \in 0..Len(wire)] == IF k = 0 THEN s ELSE Heard(told[k - 1], wire[k])
    IN  told[Len(wire)]
Agrees(s) == {Told(s)[k] : k \in DOMAIN Told(s)} = {row[c] : c \in Present}

\* A write of c in the store that no event still to come will correct: the creation of
\* an issue that is in the store corrects nothing.
Missed(c) ==
    /\ \A k \in DOMAIN wire : wire[k].issue.id # c \/ wire[k].kind = "created"
    /\ \E k \in DOMAIN store' : store'[k].id = c /\ store'[k] # row[c]

Deliver ==
    /\ wire # <<>> /\ wire' = Tail(wire)
    /\ store' = Heard(store, Head(wire))
    /\ UNCHANGED <<loading, page, views, selected, toolbar, call, row, astray, left>>

\* Mutation: a move that fails is not read back from the server.
MovedKept(n) ==
    /\ Ended(n, "move", "ok") \/ Ended(n, "move", "error")
    /\ Freed(n)
    /\ UNCHANGED <<store, loading, page, views, selected, toolbar, wire, row, astray, left>>

\* A move that fails is undone by a fetch of all the issues.
Moved(n) ==
    /\ Ended(n, "move", "ok") \/ Ended(n, "move", "error")
    /\ call' = [call EXCEPT ![n] = IF call[n].status = "ok" THEN Idle ELSE Request("list", {})]
    /\ UNCHANGED <<store, loading, page, views, selected, toolbar, wire, row, astray, left>>

\* setIssues; the fetch that a failure asks for only logs a failure of its own.
IssuesArrive(n) ==
    /\ Ended(n, "list", "ok") \/ Ended(n, "list", "error")
    /\ loading' = FALSE /\ Freed(n)
    /\ IF call[n].status = "ok"
       THEN store' = call[n].rows /\ astray' = ~Agrees(call[n].rows)
       ELSE UNCHANGED store /\ astray' = TRUE
    /\ UNCHANGED <<page, views, selected, toolbar, wire, row, left>>

\* The whole issue as it was goes back.
CardUpdated(n) ==
    /\ Ended(n, "card", "ok") \/ Ended(n, "card", "error")
    /\ LET prev == call[n].rows[1] IN
         store' = (IF call[n].status = "ok" THEN store ELSE UpdateIssue(store, prev.id, prev))
    /\ astray' = (astray \/ (call[n].status = "error" /\ \E c \in call[n].ids : Missed(c)))
    /\ Freed(n)
    /\ UNCHANGED <<loading, page, views, selected, toolbar, wire, row, left>>

\* The store is written after the answer, over what was heard meanwhile.
BatchUpdated(n) ==
    /\ Ended(n, "batch", "ok") \/ Ended(n, "batch", "error")
    /\ toolbar' = [toolbar EXCEPT !.loading = @ /\ call[n].old]
    /\ IF call[n].status = "ok"
       THEN /\ store' = [k \in DOMAIN store |->
                           IF store[k].id \in call[n].ids
                           THEN [store[k] EXCEPT !.status = call[n].to] ELSE store[k]]
            /\ astray' = (astray \/ \E c \in call[n].ids : Missed(c))
            /\ Freed(n)
       ELSE /\ call' = [call EXCEPT ![n] = Request("list", {})]
            /\ UNCHANGED <<store, astray>>
    /\ UNCHANGED <<loading, page, views, selected, wire, row, left>>

\* The selection that is cleared is the one of now.
BatchDeleted(n) ==
    /\ Ended(n, "delete", "ok") \/ Ended(n, "delete", "error")
    /\ toolbar' = (IF call[n].old THEN toolbar ELSE NoBar)
    /\ IF call[n].status = "ok"
       THEN /\ store' = RemoveAll(store, call[n].ids)
            /\ selected' = {}
            /\ astray' = (astray \/ call[n].ids \cap Present # {})
            /\ Freed(n)
       ELSE /\ call' = [call EXCEPT ![n] = Request("list", {})]
            /\ UNCHANGED <<store, selected, astray>>
    /\ UNCHANGED <<loading, page, views, wire, row, left>>

-----------------------------------------------------------------------------
Init ==
    /\ store = <<>> /\ loading = TRUE /\ page = "my"
    /\ \E m \in {"board", "list"} :    \* the view stores are persisted
         views = [p \in {"my", "workspace"} |-> [NewView EXCEPT !.mode = m]]
    /\ selected = {} /\ toolbar = NoBar
    /\ call = [n \in Slots |-> IF n = 1 THEN Request("list", {}) ELSE Idle]
    /\ wire = <<>> /\ row \in StartRows /\ astray = FALSE /\ left = MaxSteps

Next ==
    \/ \E p \in {"my", "workspace"} : SetPageMode(p)
    \/ IssuesHeader \/ MyIssuesFilters \/ MyIssuesDisplay
    \/ \E s \in BoardStatus : HideStatus(s) \/ ShowStatus(s) \/ ToggleListCollapsed(s)
                              \/ ToggleHeader(s)
    \/ ClearSelection \/ Deliver
    \/ \E b \in BOOLEAN : DeleteDialog(b)
    \/ \E c \in Card : \/ ToggleRow(c) \/ SomeoneDeletes(c) \/ SomeoneCreates(c)
                       \/ \E s \in Status : SomeoneMoves(c, s)
    \/ \E n \in Free :
         \/ \E c \in Held : \/ \E d \in Held : DropOnCard(n, c, d)
                            \/ \E s \in BoardStatus : DropOnColumn(n, c, s)
                            \/ \E w \in Who : PickOnCard(n, c, w)
         \/ \E s \in Status : BatchUpdate(n, s)
         \/ BatchDelete(n)
    \/ \E n \in Slots :
         \/ Answer(n) \/ Moved(n) \/ IssuesArrive(n) \/ CardUpdated(n)
         \/ BatchUpdated(n) \/ BatchDeleted(n)

Spec == Init /\ [][Next]_vars

-----------------------------------------------------------------------------
\* When nothing is asked any more, the events on their way will bring the store to
\* the issues of the server, whatever moves, batches and events crossed.  The
\* exceptions: an answer that overwrote what had been heard, and a fetch that failed.
BoardAgrees ==
    (\A n \in Slots : call[n].kind = "idle") /\ ~astray => Agrees(store)

\* The column that a drop on d should show: what the board previews while c is
\* dragged, that is c at the place of d.
Previewed(c, d) ==
    LET column == Column(Issue(d).status)
        others == SelectSeq(column, LAMBDA x : x # c)
        at     == IndexOf(column, d)
    IN  SubSeq(others, 1, at - 1) \o <<c>> \o SubSeq(others, at, Len(others))

\* A card that is dropped on another shows up where the board showed it during the
\* drag: for issues at different positions on a board in its manual order.
DropLands ==
    \A n \in Slots, c \in Card, d \in Held :
      /\ call[n].kind = "idle" /\ call'[n].kind = "move" /\ call'[n].ids = {c}
      /\ call'[n].over = d /\ view.manual /\ view.asc
      /\ \A j, k \in DOMAIN store :
           j # k /\ store[j].status = Issue(d).status /\ store[k].status = Issue(d).status
             => store[j].pos # store[k].pos
      => Column(Issue(d).status)' = Previewed(c, d)
=============================================================================
