----------------------------- MODULE IssueThread ----------------------------
(***************************************************************************)
(* The thread of an issue (src/apps/web/features/issues): the timeline     *)
(* hook with its list, its events and its optimistic edits and deletions   *)
(* (hooks/use-issue-timeline.ts), the inputs (comment-input.tsx,           *)
(* reply-input.tsx) and the cards (comment-card.tsx).                      *)
(***************************************************************************)
EXTENDS Sublists

CONSTANTS
    Entry,     \* ids of comments and activities: 1, 2, ...
    Own,       \* the comments of this user
    Activity,  \* the entries that are activities
    Parent,    \* Parent[e]: the comment it replies to, or 0
    Slots,     \* bound: requests in flight
    MaxWire,   \* bound: events on their way
    MaxSteps   \* bound: clicks, background changes and failures, together

VARIABLES
    timeline,  \* entries shown: a sequence of [id, text]
    loading,   \* the first list is not there yet
    input,     \* inputs, by the comment they reply to (0: the one at the bottom)
    card,      \* comments being edited, the one a dialog asks about, folded threads
    call,      \* requests in flight
    wire,      \* events on their way to this client
    row,       \* server: new, live or gone, and the text
    restored,  \* bookkeeping: entries that a failed deletion put back
    lost,      \* bookkeeping: entries whose news did not reach the timeline
    left       \* what is left of MaxSteps

vars == <<timeline, loading, input, card, call, wire, row, restored, lost, left>>

Thread == {0} \cup {e \in Entry \ Activity : Parent[e] = 0}
Live   == {e \in Entry : row[e].state = "live"}
Ids(tl) == {tl[k].id : k \in DOMAIN tl}
Shown(e) ==
    /\ e \in Ids(timeline) /\ ~loading
    /\ Parent[e] # 0 => Parent[e] \in Ids(timeline) \ card.folded
Line(e, t) == [id |-> e, text |-> t]

\* What a deletion of e takes along, here and (by a cascade) on the server.
Below(e) == {d \in Entry : d = e \/ Parent[d] = e}
Without(tl, S) == Kept(tl, {k \in DOMAIN tl : tl[k].id \notin S})
Retexted(tl, e, t) == [k \in DOMAIN tl |-> IF tl[k].id = e THEN Line(e, t) ELSE tl[k]]

\* Mutation: no look at what is there.
AppendedAlways(tl, e, t) == Append(tl, Line(e, t))

\* What every source of a new entry does: by id, once.
Appended(tl, e, t) == IF e \in Ids(tl) THEN tl ELSE Append(tl, Line(e, t))

\* mounted: the input or the row that asked is still there.
Idle == [kind |-> "idle", status |-> "idle", entry |-> 0, text |-> 0, items |-> <<>>,
         mounted |-> FALSE]
Request(kind, e) == [Idle EXCEPT !.kind = kind, !.entry = e, !.status = "sent",
                                 !.mounted = TRUE]
Free(n) == call[n].kind = "idle" /\ \A m \in Slots : m < n => call[m].kind # "idle"
Send(n, r) == Free(n) /\ call' = [call EXCEPT ![n] = r]
Spend == left > 0 /\ left' = left - 1
Event(kind, e) == [kind |-> kind, entry |-> e, text |-> row'[e].text]
Publish(e) == Len(wire) < MaxWire /\ wire' = Append(wire, e)

\* An input is there for the bottom and for every thread that is open.
InputShown(p) == p = 0 \/ (Shown(p) /\ p \notin card.folded)

\* A row that leaves the screen takes its state along, what was typed included.
Blank == [filled |-> FALSE, submitting |-> FALSE]
Emptied(P) == [p \in Thread |-> IF p \in P THEN Blank ELSE input[p]]
Unmounted(c, S) == [n \in Slots |-> IF c[n].entry \in S
                                    THEN [c[n] EXCEPT !.mounted = FALSE] ELSE c[n]]
Render(tl, c) ==
    LET left_out == Ids(timeline) \ Ids(tl) IN
    /\ timeline' = tl /\ call' = Unmounted(c, left_out) /\ input' = Emptied(left_out)
    /\ card' = [editing |-> card.editing \ left_out, folded |-> card.folded \ left_out,
                asking |-> IF card.asking \in left_out THEN 0 ELSE card.asking]

-----------------------------------------------------------------------------
(* The user.                                                               *)

Type(p) ==
    /\ InputShown(p) /\ ~input[p].filled
    /\ input' = [input EXCEPT ![p].filled = TRUE]
    /\ UNCHANGED <<timeline, loading, card, call, wire, row, restored, lost, left>>

\* handleSubmit; the flag of the hook is never seen by its own closure.
Submit(p, n) ==
    /\ InputShown(p) /\ input[p].filled /\ ~input[p].submitting /\ Spend
    /\ input' = [input EXCEPT ![p].submitting = TRUE]
    /\ Send(n, Request("create", p))
    /\ UNCHANGED <<timeline, loading, card, wire, row, restored, lost>>

\* A thread is folded: its input and the rows of its replies go, that of its first
\* comment stays.
ToggleThread(p) ==
    /\ p # 0 /\ Shown(p) /\ card.asking = 0
    /\ IF p \in card.folded
       THEN card' = [card EXCEPT !.folded = @ \ {p}] /\ UNCHANGED <<input, call>>
       ELSE /\ card' = [card EXCEPT !.folded = @ \cup {p}, !.editing = @ \ (Below(p) \ {p})]
            /\ input' = Emptied({p})
            /\ call' = [n \in Slots |->
                 IF (call[n].kind = "create" /\ call[n].entry = p)
                      \/ (call[n].kind = "edit" /\ call[n].entry \in Below(p) \ {p})
                 THEN [call[n] EXCEPT !.mounted = FALSE] ELSE call[n]]
    /\ UNCHANGED <<timeline, loading, wire, row, restored, lost, left>>

\* The menu of a row; that of a first comment only while its thread is open.
StartEdit(e) ==
    /\ Shown(e) /\ e \in Own \ (card.editing \cup card.folded)
    /\ card' = [card EXCEPT !.editing = @ \cup {e}]
    /\ UNCHANGED <<timeline, loading, input, call, wire, row, restored, lost, left>>

CancelEdit(e) ==
    /\ Shown(e) /\ e \in card.editing \ card.folded
    /\ card' = [card EXCEPT !.editing = @ \ {e}]
    /\ UNCHANGED <<timeline, loading, input, call, wire, row, restored, lost, left>>

LastAt(e) == CHOOSE k \in DOMAIN timeline :
               /\ timeline[k].id = e
               /\ \A j \in DOMAIN timeline : timeline[j].id = e => j <= k

\* saveEdit and editComment: the new text at once, the old one kept.
SaveEdit(n, e, t) ==
    /\ Shown(e) /\ e \in card.editing \ card.folded /\ Spend
    /\ LET old == timeline[LastAt(e)].text
       IN  /\ t # old
           /\ timeline' = Retexted(timeline, e, t)
           /\ Send(n, [Request("edit", e) EXCEPT !.text = t,
                                                 !.items = <<Line(e, old)>>])
    /\ UNCHANGED <<loading, input, card, wire, row, restored, lost>>

AskDelete(e) ==
    /\ Shown(e) /\ e \in Own \ card.folded /\ card.asking = 0
    /\ card' = [card EXCEPT !.asking = e]
    /\ UNCHANGED <<timeline, loading, input, call, wire, row, restored, lost, left>>

CancelDelete ==
    /\ card.asking # 0
    /\ card' = [card EXCEPT !.asking = 0]
    /\ UNCHANGED <<timeline, loading, input, call, wire, row, restored, lost, left>>

\* deleteComment: the replies go with it, and all are kept for the rollback.
ConfirmDelete(n) ==
    /\ Shown(card.asking) /\ Spend
    /\ Free(n)
    /\ Render(Without(timeline, Below(card.asking)),
              [call EXCEPT ![n] = [Request("delete", card.asking) EXCEPT
                 !.items = Without(timeline, Entry \ Below(card.asking))]])
    /\ UNCHANGED <<loading, wire, row, restored, lost>>

-----------------------------------------------------------------------------
(* The server and the others.                                              *)

Fresh(e) == row[e].state = "new" /\ (Parent[e] # 0 => Parent[e] \in Live)

SomeonePosts(e) ==
    /\ e \notin Own /\ Fresh(e) /\ Spend
    /\ row' = [row EXCEPT ![e].state = "live"] /\ Publish(Event("created", e))
    /\ UNCHANGED <<timeline, loading, input, card, call, restored, lost>>

\* Its author, or an admin for any comment.
SomeoneDeletes(e) ==
    /\ e \in Live \ Activity /\ Spend
    /\ row' = [d \in Entry |-> IF d \in Below(e) /\ d \in Live
                               THEN [row[d] EXCEPT !.state = "gone"] ELSE row[d]]
    /\ Publish(Event("deleted", e))
    /\ UNCHANGED <<timeline, loading, input, card, call, restored, lost>>

\* ListTimeline; the order of the entries is of no matter here.
Listing == Kept([e \in Entry |-> Line(e, row[e].text)], Live)

\* The server takes a request; the answer may get lost on the way.
Answer(n) ==
    LET r == call[n]  done == [call EXCEPT ![n].status = "ok"]
        failed == [call EXCEPT ![n].status = "error"] IN
    /\ r.status = "sent"
    /\ \/ /\ r.kind = "create"
          /\ \E e \in Own : /\ Parent[e] = r.entry /\ Fresh(e)
                            /\ row' = [row EXCEPT ![e].state = "live"]
                            /\ Publish(Event("created", e))
                            /\ \/ call' = [done EXCEPT ![n].items = <<Line(e, row'[e].text)>>]
                                  /\ UNCHANGED <<lost, left>>
                               \/ call' = failed /\ lost' = lost \cup {e} /\ Spend
       \/ /\ r.kind = "edit" /\ r.entry \in Live
          /\ row' = [row EXCEPT ![r.entry].text = r.text]
          /\ Publish(Event("updated", r.entry))
          /\ call' = done /\ UNCHANGED <<lost, left>>
       \/ /\ r.kind = "delete" /\ r.entry \in Live
          /\ row' = [d \in Entry |-> IF d \in Below(r.entry) /\ d \in Live
                                     THEN [row[d] EXCEPT !.state = "gone"] ELSE row[d]]
          /\ Publish(Event("deleted", r.entry))
          /\ call' = done /\ UNCHANGED <<lost, left>>
       \/ /\ r.kind = "list"
          /\ call' = [done EXCEPT ![n].items = Listing]
          /\ UNCHANGED <<row, wire, lost, left>>
       \/ /\ IF r.kind \in {"edit", "delete"} /\ r.entry \notin Live THEN UNCHANGED left
                                                                     ELSE Spend
          /\ call' = failed /\ UNCHANGED <<row, wire, lost>>
    /\ UNCHANGED <<timeline, loading, input, card, restored>>

-----------------------------------------------------------------------------
(* Answers.                                                                *)

Ended(n, kind, status) == call[n].kind = kind /\ call[n].status = status
Freed(n) == call' = [call EXCEPT ![n] = Idle]

\* The list replaces the timeline, with the events that were faster than it.
ListArrives(n) ==
    /\ Ended(n, "list", "ok")
    /\ Render(call[n].items, [call EXCEPT ![n] = Idle]) /\ loading' = FALSE
    /\ lost' = lost \cup (Ids(timeline) \ Ids(timeline'))
    /\ UNCHANGED <<wire, row, restored, left>>

ListFails(n) ==
    /\ Ended(n, "list", "error") /\ Freed(n)
    /\ loading' = FALSE /\ lost' = lost \cup Live
    /\ UNCHANGED <<timeline, input, card, wire, row, restored, left>>

\* submitComment and submitReply catch the failure: the input is emptied anyway.
Created(n) ==
    /\ Ended(n, "create", "ok") \/ Ended(n, "create", "error")
    /\ Freed(n)
    /\ timeline' = (IF call[n].status = "error" THEN timeline
                    ELSE Appended(timeline, call[n].items[1].id, call[n].items[1].text))
    /\ input' = (IF call[n].mounted THEN Emptied({call[n].entry}) ELSE input)
    /\ UNCHANGED <<loading, card, wire, row, restored, lost, left>>

\* Either way the card leaves the editor.
Edited(n) ==
    /\ Ended(n, "edit", "ok") \/ Ended(n, "edit", "error")
    /\ Freed(n)
    /\ timeline' = Retexted(timeline, call[n].entry,
                            IF call[n].status = "ok" THEN call[n].text
                                                     ELSE call[n].items[1].text)
    /\ card' = (IF call[n].mounted
                THEN [card EXCEPT !.editing = @ \ {call[n].entry}] ELSE card)
    /\ UNCHANGED <<loading, input, wire, row, restored, lost, left>>

\* The rollback appends what it kept.
DeleteEnds(n) ==
    /\ Ended(n, "delete", "ok") \/ Ended(n, "delete", "error")
    /\ Freed(n)
    /\ IF call[n].status = "ok" THEN UNCHANGED <<timeline, restored>>
       ELSE /\ timeline' = timeline \o call[n].items
            /\ restored' = restored \cup Ids(call[n].items)
    /\ UNCHANGED <<loading, input, card, wire, row, lost, left>>

-----------------------------------------------------------------------------
(* Events.                                                                 *)

\* comment:created skips the user's own, activity:created skips none.
Deliver ==
    /\ wire # <<>> /\ wire' = Tail(wire)
    /\ LET e == Head(wire) IN
         Render(CASE e.kind = "created" -> (IF e.entry \in Own THEN timeline
                                         ELSE Appended(timeline, e.entry, e.text))
                  [] e.kind = "updated" -> Retexted(timeline, e.entry, e.text)
                  [] e.kind = "deleted" -> Without(timeline, Below(e.entry)),
                call)
    /\ UNCHANGED <<loading, row, restored, lost, left>>

\* The connection was down: what was on its way is lost, the list is fetched.
Reconnect(n) ==
    /\ Spend /\ wire' = <<>> /\ Send(n, Request("list", 0))
    /\ UNCHANGED <<timeline, loading, input, card, row, restored, lost>>

-----------------------------------------------------------------------------
Init ==
    /\ \E S \in SUBSET (Entry \ Activity) :
         /\ \A e \in S : Parent[e] = 0 \/ Parent[e] \in S
         /\ row = [e \in Entry |-> [state |-> IF e \in S THEN "live" ELSE "new", text |-> 0]]
    /\ timeline = <<>> /\ loading = TRUE /\ wire = <<>>
    /\ input = [p \in Thread |-> Blank]
    /\ card = [editing |-> {}, asking |-> 0, folded |-> {}]
    /\ call = [n \in Slots |-> IF n = 1 THEN Request("list", 0) ELSE Idle]
    /\ restored = {} /\ lost = {} /\ left = MaxSteps

Next ==
    \/ \E p \in Thread : Type(p) \/ ToggleThread(p)
    \/ \E e \in Entry : \/ StartEdit(e) \/ CancelEdit(e) \/ AskDelete(e)
                      \/ SomeonePosts(e) \/ SomeoneDeletes(e)
    \/ CancelDelete \/ Deliver
    \/ \E n \in Slots :
         \/ \E p \in Thread : Submit(p, n)
         \/ \E e \in Own : SaveEdit(n, e, 1)
         \/ ConfirmDelete(n) \/ Answer(n) \/ ListArrives(n)
         \/ ListFails(n) \/ Created(n) \/ Edited(n) \/ DeleteEnds(n) \/ Reconnect(n)

Spec == Init /\ [][Next]_vars

-----------------------------------------------------------------------------
\* An entry is listed twice only after a deletion of it failed: then the rollback
\* appends it although a list fetched meanwhile already holds it.
ListedOnce ==
    \A j, k \in DOMAIN timeline :
      j < k /\ timeline[j].id = timeline[k].id => timeline[j].id \in restored

\* When nothing is on its way, a comment that exists is on the screen, unless its
\* event was overtaken by an older list or its answer got lost: own comments are
\* not taken from events.
NothingMissing ==
    wire = <<>> /\ (\A n \in Slots : call[n].kind = "idle") =>
      Live \subseteq Ids(timeline) \cup lost
=============================================================================
