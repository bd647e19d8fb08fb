----------------------------- MODULE IssueSets ------------------------------
(***************************************************************************)
(* Who reacted to an issue or to a comment, and who subscribes to an issue *)
(* (src/apps/web/features/issues/hooks): lists that a click changes at     *)
(* once, a failure changes back, and events and fetches write as well.     *)
(* The lists do not touch each other: a behaviour follows one of them.     *)
(***************************************************************************)
EXTENDS Sublists, FiniteSetsExt

CONSTANTS
    Slots,     \* bound: requests in flight
    MaxWire,   \* bound: events on their way
    MaxSteps   \* bound: clicks, background changes and failures, together

VARIABLES
    of,        \* which list: "issue", "comment" or "subscribers"
    list,      \* what is shown: a sequence of [who, id], one emoji standing for all
    loading,   \* the first fetch has not ended
    call,      \* requests in flight
    wire,      \* events on their way to this client
    row,       \* server: the id of each actor's row, 0 when there is none
    ids,       \* server: rows inserted so far
    astray,    \* bookkeeping for SetsAgree
    left       \* what is left of MaxSteps

vars == <<of, list, loading, call, wire, row, ids, astray, left>>

Who == {"me", "other"}
Reacting == of # "subscribers"

\* The id of a reaction is that of its row, so it tells the actor as well; of a subscriber
\* the lists know the reason.
Manual == 1
Other  == 2
Temp(n) == -n

Element(w, i) == [who |-> w, id |-> i]
Of(l, w) == {k \in DOMAIN l : l[k].who = w}
Mentions(l, w) == Of(l, w) # {}
First(l, w) == l[Min(Of(l, w))]
Without(l, w) == Kept(l, DOMAIN l \ Of(l, w))
Lacking(l, e) == Kept(l, {k \in DOMAIN l : l[k] # e})

\* before: requests about the same entry that were sent earlier and are in flight.
Idle == [kind |-> "idle", status |-> "idle", entry |-> Element("me", 0), rows |-> <<>>,
         before |-> {}]
Request(kind, e) ==
    [Idle EXCEPT !.kind = kind, !.status = "sent", !.entry = e,
                 !.before = {m \in Slots : call[m].kind \in {"add", "remove"}
                                           /\ call[m].entry.who = e.who}]
Free(n) == call[n].kind = "idle" /\ \A m \in Slots : m < n => call[m].kind # "idle"
Send(n, r) == Free(n) /\ call' = [call EXCEPT ![n] = r]
Freed(n) == call' = [m \in Slots |-> IF m = n THEN Idle
                                     ELSE [call[m] EXCEPT !.before = @ \ {n}]]
Ended(n, kind) == call[n].kind = kind /\ call[n].status \in {"ok", "error"}
Spend == left > 0 /\ left' = left - 1
Publish(kind, e) == Len(wire) < MaxWire /\ wire' = Append(wire, [kind |-> kind, entry |-> e])

-----------------------------------------------------------------------------
(* The user.                                                               *)

\* toggleReaction of the two hooks: the entry that is removed is remembered, the one
\* that is added has an id of its own until the answer.
ToggleReaction(n) ==
    /\ ~loading /\ Spend
    /\ IF Mentions(list, "me")
       THEN LET mine == First(list, "me") IN
            list' = Lacking(list, mine) /\ Send(n, Request("remove", mine))
       ELSE LET mine == Element("me", Temp(n)) IN
            list' = Append(list, mine) /\ Send(n, Request("add", mine))
    /\ UNCHANGED <<of, loading, wire, row, ids, astray>>

ToggleIssueReaction(n)   == of = "issue" /\ ToggleReaction(n)
ToggleCommentReaction(n) == of = "comment" /\ ToggleReaction(n)

\* toggleSubscriber, of oneself with the button, of anyone in the menu.
ToggleSubscriber(n, w) ==
    /\ of = "subscribers" /\ ~loading /\ Spend
    /\ IF Mentions(list, w)
       THEN list' = Without(list, w) /\ Send(n, Request("remove", First(list, w)))
       ELSE /\ list' = Append(list, Element(w, Manual))
            /\ Send(n, Request("add", Element(w, Manual)))
    /\ UNCHANGED <<of, loading, wire, row, ids, astray>>

-----------------------------------------------------------------------------
(* The server.                                                             *)

RowOf(w) == IF row[w] = 0 THEN <<>> ELSE <<Element(w, row[w])>>
Rows == RowOf("me") \o RowOf("other")

\* The inserts do nothing on a conflict; every call publishes.
Insert(w, reason) ==
    /\ row' = [row EXCEPT ![w] = IF @ # 0 THEN @ ELSE IF Reacting THEN ids + 1 ELSE reason]
    /\ ids' = (IF Reacting /\ row[w] = 0 THEN ids + 1 ELSE ids)
    /\ Publish("added", Element(w, IF Reacting THEN row'[w] ELSE reason))
Delete(w) ==
    /\ row' = [row EXCEPT ![w] = 0] /\ UNCHANGED ids
    /\ Publish("removed", Element(w, 0))

\* Another member, an agent, or this user in another tab; a comment or an assignment
\* subscribes its actor.  A tab does not take its user's own reactions from events.
ChangedElsewhere(w) ==
    /\ Spend
    /\ (IF row[w] # 0 THEN Delete(w) ELSE \E r \in {Manual, Other} : Insert(w, r))
    /\ astray' = (astray \/ (Reacting /\ w = "me"))
    /\ UNCHANGED <<of, list, loading, call>>

\* The handlers; an error may have been preceded by the change.  Reactions that the
\* server takes in another order than they were sent end where nobody asked.
Answer(n) ==
    LET r == call[n]  w == r.entry.who IN
    /\ r.status = "sent"
    /\ \/ /\ r.kind = "fetch" /\ UNCHANGED <<wire, row, ids, astray, left>>
          /\ call' = [call EXCEPT ![n].status = "ok", ![n].rows = Rows]
       \/ /\ IF r.kind = "add" THEN Insert(w, Manual) ELSE r.kind = "remove" /\ Delete(w)
          /\ \/ /\ call' = [call EXCEPT ![n].status = "ok",
                                        ![n].rows = <<Element(w, row'[w])>>]
                /\ astray' = (astray \/ (Reacting /\ \E m \in r.before : call[m].status = "sent"))
                /\ UNCHANGED left
             \/ call' = [call EXCEPT ![n].status = "error"] /\ astray' = TRUE /\ Spend
       \/ /\ call' = [call EXCEPT ![n].status = "error"] /\ Spend
          /\ UNCHANGED <<wire, row, ids, astray>>
    /\ UNCHANGED <<of, list, loading>>

-----------------------------------------------------------------------------
(* Events.                                                                 *)

\* Mutation: the own reactions are taken from the events as well.
ReactionHeardOwn(l, e) ==
    IF e.kind = "removed" THEN Without(l, e.entry.who)
    ELSE IF \E k \in DOMAIN l : l[k] = e.entry THEN l ELSE Append(l, e.entry)

\* reaction:added and reaction:removed, issue_reaction:added and :removed.
ReactionHeard(l, e) ==
    IF e.entry.who = "me" THEN l
    ELSE IF e.kind = "removed" THEN Without(l, e.entry.who)
    ELSE IF \E k \in DOMAIN l : l[k] = e.entry THEN l ELSE Append(l, e.entry)

\* subscriber:added and subscriber:removed, whoever caused them.
SubscriberHeard(l, e) ==
    IF e.kind = "removed" THEN Without(l, e.entry.who)
    ELSE IF Mentions(l, e.entry.who) THEN l ELSE Append(l, e.entry)

Heard(l, e) == IF Reacting THEN ReactionHeard(l, e) ELSE SubscriberHeard(l, e)

Deliver ==
    /\ wire # <<>> /\ wire' = Tail(wire) /\ list' = Heard(list, Head(wire))
    /\ UNCHANGED <<of, loading, call, row, ids, astray, left>>

\* The connection is lost with what was on its way; the hooks fetch when it is back.
Reconnect(n) ==
    /\ Spend /\ wire' = <<>> /\ Send(n, [Idle EXCEPT !.kind = "fetch", !.status = "sent"])
    /\ astray' = TRUE
    /\ UNCHANGED <<of, list, loading, row, ids>>

-----------------------------------------------------------------------------
(* Answers.                                                                *)

\* The list after the events on their way.
Told(l) ==
    LET told[k \in 0..Len(wire)] == IF k = 0 THEN l ELSE Heard(told[k - 1], wire[k])
    IN  told[Len(wire)]

\* The events on their way lead from l to what the server has, each actor once.
Once(l, w) == \E k \in DOMAIN l : Of(l, w) = {k}
Agrees(l) == \A w \in Who : IF row[w] # 0 THEN Once(Told(l), w) ELSE ~Mentions(Told(l), w)

\* A list that arrives while a toggle is under way lacks it, or has it twice.
FetchArrives(n) ==
    /\ Ended(n, "fetch") /\ Freed(n) /\ loading' = FALSE
    /\ IF call[n].status = "error" THEN list' = list /\ astray' = TRUE
       ELSE /\ list' = call[n].rows
            /\ astray' = (~Agrees(call[n].rows)
                          \/ \E m \in Slots \ {n} : call[m].kind \in {"add", "remove"})
    /\ UNCHANGED <<of, wire, row, ids, left>>

\* Another toggle of the same entry is under way.
Crossed(n) == \E m \in Slots \ {n} : /\ call[m].kind \in {"add", "remove"}
                                     /\ call[m].entry.who = call[n].entry.who

\* An added reaction gets its id; a failure takes the entry away: that of the temporary
\* id, or whatever subscription of the actor is manual by now.
Added(n) ==
    LET mine == call[n].entry IN
    /\ Ended(n, "add") /\ Freed(n)
    /\ IF call[n].status = "ok"
       THEN /\ list' = (IF ~Reacting THEN list
                        ELSE [k \in DOMAIN list |-> IF list[k] = mine THEN call[n].rows[1]
                                                    ELSE list[k]])
            /\ UNCHANGED astray
       ELSE /\ list' = Lacking(list, mine)
            /\ astray' = (astray \/ Crossed(n) \/ ~Agrees(list'))
    /\ UNCHANGED <<of, loading, wire, row, ids, left>>

\* A failure puts the entry back, without a look at what is there by now.
Removed(n) ==
    /\ Ended(n, "remove") /\ Freed(n)
    /\ IF call[n].status = "ok" THEN UNCHANGED <<list, astray>>
       ELSE /\ list' = Append(list, call[n].entry)
            /\ astray' = (astray \/ Crossed(n) \/ ~Agrees(list'))
    /\ UNCHANGED <<of, loading, wire, row, ids, left>>

-----------------------------------------------------------------------------
Init ==
    /\ of \in {"issue", "comment", "subscribers"}
    /\ list = <<>> /\ loading = TRUE /\ wire = <<>> /\ ids = 2 /\ astray = FALSE
    /\ \E mine, others \in {0, 1, 2} :
         /\ of # "subscribers" => {mine, others} \in {{0}, {0, 2}, {1, 2}}
         /\ row = [w \in Who |-> IF w = "me" THEN mine ELSE others]
    /\ call = [n \in Slots |-> IF n = 1 THEN [Idle EXCEPT !.kind = "fetch", !.status = "sent"]
                               ELSE Idle]
    /\ left = MaxSteps

Next ==
    \/ Deliver
    \/ \E w \in Who : ChangedElsewhere(w) \/ \E n \in Slots : ToggleSubscriber(n, w)
    \/ \E n \in Slots :
         \/ ToggleIssueReaction(n) \/ ToggleCommentReaction(n) \/ Reconnect(n)
         \/ Answer(n) \/ FetchArrives(n) \/ Added(n) \/ Removed(n)

Spec == Init /\ [][Next]_vars

-----------------------------------------------------------------------------
\* When nothing is asked any more, the events on their way will bring the list to the
\* rows of the server, each actor once, however toggles and events crossed.  The
\* exceptions: an answer that got lost, a rollback or a list that crossed another
\* change, reactions taken in another order than sent, and reactions of another tab.
SetsAgree ==
    (\A n \in Slots : call[n].kind = "idle") /\ ~astray => Agrees(list)
=============================================================================
