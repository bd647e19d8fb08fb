----------------------------- MODULE InboxPage ------------------------------
(***************************************************************************)
(* The inbox (src/apps/web/app/(dashboard)/inbox/page.tsx with             *)
(* features/inbox/store.ts): the list with one entry per issue, the        *)
(* selection in the URL, the optimistic operations and the batch ones.     *)
(***************************************************************************)
EXTENDS Integers, FiniteSets

CONSTANTS
    Item,      \* inbox items, numbered by age: the greater, the later; at most
               \* one of them is still to come
    IssueOf,   \* IssueOf[i]: its issue, or None
    None,      \* no issue, no selection
    Slots,     \* bound: requests in flight
    MaxSteps   \* bound: clicks, background changes and failures, together

VARIABLES
    store,     \* inbox store: items (each absent, unread, read or archived)
    loading,   \* inbox store: loading
    selected,  \* selectedKey, in the URL
    panel,     \* mobilePanel
    mobile,    \* useIsMobile
    call,      \* requests in flight
    row,       \* server: table inbox_item
    done,      \* server: the issues with status done or cancelled
    clean,     \* bookkeeping: nothing has overlapped since the last true list
    left       \* what is left of MaxSteps

vars == <<store, loading, selected, panel, mobile, call, row, done, clean, left>>

Live(x) == x \in {"unread", "read"}
Key(i)  == IF IssueOf[i] # None THEN IssueOf[i] ELSE i

\* deduplicateInboxItems: the latest of every issue; archived ones are left out.
Deduped(st) == {i \in Item : Live(st[i]) /\
                  \A j \in Item : Live(st[j]) /\ Key(j) = Key(i) => j <= i}

\* The pane of the list is drawn; the detail that is drawn is that of Shown.
ListShown   == ~loading /\ (~mobile \/ panel = "list")
DetailShown == ~loading /\ (~mobile \/ panel = "detail")
Shown       == {i \in Deduped(store) : Key(i) = selected}

Idle == [kind |-> "idle", item |-> None, status |-> "idle", deselect |-> FALSE,
         first |-> FALSE, seen |-> [i \in Item |-> "absent"]]
Request(kind, i) == [Idle EXCEPT !.kind = kind, !.item = i, !.status = "sent"]
ListRequest == [Request("list", None) EXCEPT !.first = \A i \in Item : store[i] = "absent"]
Quiet       == \A n \in Slots : call[n].kind = "idle"
Others(n)   == \E m \in Slots \ {n} : call[m].kind # "idle"
Send(n, r)  == /\ call[n].kind = "idle" /\ \A m \in Slots : m < n => call[m].kind # "idle"
               /\ call' = [call EXCEPT ![n] = r]
               /\ clean' = (clean /\ Quiet)
Spend       == left > 0 /\ left' = left - 1

\* The panel is only read on a narrow screen.
Select(k) == /\ selected' = k
             /\ panel' = IF k = None \/ ~mobile THEN "list" ELSE "detail"

-----------------------------------------------------------------------------
(* The operations of the store.                                            *)

Archived(st, i) == [j \in Item |->
    IF st[j] # "absent" /\ (j = i \/ (IssueOf[i] # None /\ IssueOf[j] = IssueOf[i]))
      THEN "archived" ELSE st[j]]
MarkedRead(st, i)   == [st EXCEPT ![i] = IF @ = "unread" THEN "read" ELSE @]
AllRead(st)         == [i \in Item |-> IF Live(st[i]) THEN "read" ELSE st[i]]
AllArchived(st)     == [i \in Item |-> IF Live(st[i]) THEN "archived" ELSE st[i]]
AllReadArchived(st) == [i \in Item |-> IF st[i] = "read" THEN "archived" ELSE st[i]]

\* The same operations on the table.
Applied(r) ==
    CASE r.kind = "mark"     -> MarkedRead(row, r.item)
      [] r.kind = "archive"  -> Archived(row, r.item)
      [] r.kind = "markAll"  -> AllRead(row)
      [] r.kind = "all"      -> AllArchived(row)
      [] r.kind = "allRead"  -> AllReadArchived(row)
      [] r.kind = "finished" ->
           [i \in Item |-> IF Live(row[i]) /\ IssueOf[i] \in done THEN "archived" ELSE row[i]]
      [] r.kind = "issue"    ->
           [i \in Item |-> IF IssueOf[i] = IssueOf[r.item] THEN "absent" ELSE row[i]]
      [] OTHER -> row

-----------------------------------------------------------------------------
(* The list.                                                               *)

SelectItem(i, n) ==
    /\ ListShown /\ i \in Deduped(store) /\ Spend
    /\ Select(Key(i))
    /\ IF store[i] = "unread"
         THEN store' = MarkedRead(store, i) /\ Send(n, Request("mark", i))
         ELSE UNCHANGED <<store, call, clean>>
    /\ UNCHANGED <<loading, mobile, row, done>>

\* handleArchive, from the list or from the detail of an item without issue.
Archive(i, n) ==
    /\ \/ ListShown /\ i \in Deduped(store)
       \/ DetailShown /\ i \in Shown /\ IssueOf[i] = None
    /\ Spend
    /\ Send(n, [Request("archive", i) EXCEPT !.deselect = (Key(i) = selected)])
    /\ UNCHANGED <<store, loading, selected, panel, mobile, row, done>>

\* The batch operations of the menu change the store, then ask.
MarkAllRead(n) ==
    /\ ListShown /\ Spend
    /\ store' = AllRead(store) /\ Send(n, Request("markAll", None))
    /\ UNCHANGED <<loading, selected, panel, mobile, row, done>>

ArchiveAll(n) ==
    /\ ListShown /\ Spend
    /\ store' = AllArchived(store) /\ Send(n, Request("all", None))
    /\ Select(None)
    /\ UNCHANGED <<loading, mobile, row, done>>

\* What leaves the list is decided on the entries, what is archived on the items.
ArchiveAllRead(n) ==
    /\ ListShown /\ Spend
    /\ store' = AllReadArchived(store) /\ Send(n, Request("allRead", None))
    /\ IF selected \in {Key(i) : i \in {j \in Deduped(store) : store[j] = "read"}}
         THEN Select(None) ELSE UNCHANGED <<selected, panel>>
    /\ UNCHANGED <<loading, mobile, row, done>>

\* This one asks first.
ArchiveCompleted(n) ==
    /\ ListShown /\ Spend
    /\ Send(n, Request("finished", None))
    /\ UNCHANGED <<store, loading, selected, panel, mobile, row, done>>

\* Focus content and the back button, on a narrow screen.
ShowPanel(p) ==
    /\ ~loading /\ mobile /\ panel # p
    /\ p = "detail" => Shown # {}
    /\ panel' = p
    /\ UNCHANGED <<store, loading, selected, mobile, call, row, done, clean, left>>

\* The delete of the issue in the detail.
DeleteIssue(n) ==
    /\ DetailShown /\ Spend
    /\ \E i \in Shown : IssueOf[i] # None /\ Send(n, [Request("issue", i) EXCEPT !.deselect = TRUE])
    /\ UNCHANGED <<store, loading, selected, panel, mobile, row, done>>

-----------------------------------------------------------------------------
(* Lists and what others do.                                               *)

StartsLoading(r) == loading' = (loading \/ r.first)

\* A notification arrives, and so does the event that makes the store fetch.
ItemArrives(i, n) ==
    /\ row[i] = "absent" /\ Spend
    /\ row' = [row EXCEPT ![i] = "unread"]
    /\ \/ Send(n, ListRequest) /\ StartsLoading(ListRequest)
       \/ clean' = FALSE /\ UNCHANGED <<call, loading>>
    /\ UNCHANGED <<store, selected, panel, mobile, done>>

\* Another tab of the same user: its event carries this user as its actor.
OtherTab(i) ==
    /\ Live(row[i]) /\ Spend
    /\ row' = Archived(row, i) /\ clean' = FALSE
    /\ UNCHANGED <<store, loading, selected, panel, mobile, call, done>>

\* The server answers; a call on an item that is gone is refused; an answer may
\* be lost, and then archive and finished do not ask for the list.
Answer(n) ==
    LET r == call[n]
        gone == r.kind \in {"mark", "archive"} /\ row[r.item] = "absent"
        list == [i \in Item |-> IF Live(row[i]) THEN row[i] ELSE "absent"]
    IN
    /\ r.status = "sent"
    /\ \/ /\ ~gone /\ row' = Applied(r)
          /\ call' = [call EXCEPT ![n].status = "ok",
                                  ![n].seen = IF r.kind = "list" THEN list ELSE @]
          /\ UNCHANGED <<left, clean>>
       \/ /\ IF gone THEN UNCHANGED left ELSE Spend
          /\ row' \in {row, IF gone THEN row ELSE Applied(r)}
          /\ call' = [call EXCEPT ![n].status = "error"]
          /\ clean' = (clean /\ (r.kind \in {"archive", "finished"} => row' = row))
    /\ UNCHANGED <<store, loading, selected, panel, mobile, done>>

Listed(n) ==
    /\ call[n].kind = "list" /\ call[n].status = "ok"
    /\ store' = call[n].seen /\ loading' = FALSE
    /\ call' = [call EXCEPT ![n] = Idle]
    /\ clean' = (~Others(n) /\ \A i \in Item : Live(row[i]) \/ Live(store'[i])
                                                 => store'[i] = row[i])
    /\ UNCHANGED <<selected, panel, mobile, row, done, left>>

\* Only a fetch that began with an empty store ends loading when it fails.
ListFailed(n) ==
    /\ call[n].kind = "list" /\ call[n].status = "error"
    /\ loading' = (loading /\ ~call[n].first)
    /\ call' = [call EXCEPT ![n] = Idle] /\ clean' = FALSE
    /\ UNCHANGED <<store, selected, panel, mobile, row, done, left>>

ArchiveDone(n) ==
    /\ call[n].kind = "archive" /\ call[n].status = "ok"
    /\ store' = Archived(store, call[n].item)
    /\ IF call[n].deselect THEN Select(None) ELSE UNCHANGED <<selected, panel>>
    /\ call' = [call EXCEPT ![n] = Idle]
    /\ UNCHANGED <<loading, mobile, row, done, clean, left>>

\* The notification of a deleted issue is archived next, if it is still there.
IssueDeleted(n) ==
    /\ call[n].kind = "issue" /\ call[n].status = "ok"
    /\ call' = [call EXCEPT ![n] = [Request("archive", call[n].item)
                                      EXCEPT !.deselect = TRUE]]
    /\ panel' = "list"
    /\ UNCHANGED <<store, loading, selected, mobile, row, done, clean, left>>

CompletedArchived(n) ==
    /\ call[n].kind = "finished" /\ call[n].status = "ok"
    /\ Select(None)
    /\ call' = [call EXCEPT ![n] = ListRequest] /\ StartsLoading(ListRequest)
    /\ UNCHANGED <<store, mobile, row, done, clean, left>>

Kept(n) ==
    /\ call[n].kind \in {"mark", "markAll", "all", "allRead"} /\ call[n].status = "ok"
    /\ call' = [call EXCEPT ![n] = Idle]
    /\ UNCHANGED <<store, loading, selected, panel, mobile, row, done, clean, left>>

\* Mutation: only a toast.
RefusedToast(n) ==
    /\ call[n].kind # "list" /\ call[n].status = "error"
    /\ call' = [call EXCEPT ![n] = Idle]
    /\ UNCHANGED <<store, loading, selected, panel, mobile, row, done, clean, left>>

\* The optimistic operations fetch the truth.
Refused(n) ==
    /\ call[n].kind # "list" /\ call[n].status = "error"
    /\ IF call[n].kind \in {"mark", "markAll", "all", "allRead"}
         THEN call' = [call EXCEPT ![n] = ListRequest] /\ StartsLoading(ListRequest)
         ELSE call' = [call EXCEPT ![n] = Idle] /\ UNCHANGED loading
    /\ UNCHANGED <<store, selected, panel, mobile, row, done, clean, left>>

-----------------------------------------------------------------------------
Init ==
    /\ row \in [Item -> {"absent", "unread", "read"}]
    /\ Cardinality({i \in Item : row[i] = "absent"}) <= 1
    /\ done = {IssueOf[i] : i \in Item} \ {None}
    /\ store = row /\ loading = FALSE /\ selected = None /\ panel = "list"
    /\ mobile \in BOOLEAN /\ call = [n \in Slots |-> Idle]
    /\ clean = TRUE /\ left = MaxSteps

Next ==
    \/ \E p \in {"list", "detail"} : ShowPanel(p)
    \/ \E i \in Item : OtherTab(i)
    \/ \E n \in Slots :
         \/ \E i \in Item : SelectItem(i, n) \/ Archive(i, n) \/ ItemArrives(i, n)
         \/ MarkAllRead(n) \/ ArchiveAll(n) \/ ArchiveAllRead(n) \/ ArchiveCompleted(n)
         \/ DeleteIssue(n) \/ Answer(n) \/ Listed(n) \/ ListFailed(n)
         \/ ArchiveDone(n) \/ IssueDeleted(n) \/ CompletedArchived(n) \/ Kept(n)
         \/ Refused(n)

Spec == Init /\ [][Next]_vars

-----------------------------------------------------------------------------
\* When the calls are over and none of them overlapped another or a change made
\* elsewhere, the list shows what the server has: every optimistic operation that
\* failed was followed by a fetch.  The notifications of a deleted issue are
\* left out: the server deletes them with it and the list keeps them.
SettledAgrees ==
    Quiet /\ clean =>
      \A i \in Item : row[i] # "absent" /\ (Live(row[i]) \/ Live(store[i]))
                        => store[i] = row[i]
=============================================================================
