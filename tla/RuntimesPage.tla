---------------------------- MODULE RuntimesPage ----------------------------
(***************************************************************************)
(* The page of the runtimes (src/apps/web/features/runtimes): its store,   *)
(* the selection in the URL (components/runtimes-page.tsx), the detail     *)
(* (runtime-detail.tsx), and the two sections that start a request of the  *)
(* daemon and poll for its result: the connection test (ping-section.tsx)  *)
(* and the update (update-section.tsx).                                    *)
(***************************************************************************)
EXTENDS Integers, FiniteSets

CONSTANTS
    Runtime,   \* runtimes of the workspace
    None,      \* no runtime
    Slots,     \* bound: requests in flight
    Jobs,      \* bound: pings and updates the server keeps, numbered
    MaxSteps   \* bound: clicks, background changes and failures, together

VARIABLES
    page,    \* the store (list, selected, fetching), the URL, is it a phone
    inst,    \* which mounting of the detail is on the screen
    sec,     \* the two sections of the detail
    usage,   \* the usage section: loading, or done
    ticking, \* intervals that are set: [inst, kind, job]
    call,    \* requests in flight
    row,     \* server: the runtimes
    job,     \* server: PingStore and UpdateStore
    left     \* what is left of MaxSteps

vars == <<page, inst, sec, usage, ticking, call, row, job, left>>

Kind  == {"ping", "update"}
Final == {"completed", "failed", "timeout"}
Poll  == [ping |-> "pollping", update |-> "pollupdate"]
Online(r) == row[r] \in {"old", "new"}

Idle == [kind |-> "idle", status |-> "idle", rt |-> None, inst |-> 0, job |-> 0,
         rows |-> <<>>]
Request(kind, r) == [Idle EXCEPT !.kind = kind, !.status = "sent", !.rt = r, !.inst = inst]
Send(n, r) == /\ call[n].kind = "idle" /\ \A m \in Slots : m < n => call[m].kind # "idle"
              /\ call' = [call EXCEPT ![n] = r]
Spend == left > 0 /\ left' = left - 1
Freed(n) == call' = [call EXCEPT ![n] = Idle]

In(list) == {r \in Runtime : list[r] # "absent"}

\* data.find: the first one when the selected one is gone.
Chosen(list, sel) ==
    IF sel \in In(list) THEN sel
    ELSE IF In(list) = {} THEN None ELSE CHOOSE r \in In(list) : TRUE

\* The effects on the URL: the store follows it, and a runtime that is not in the
\* list is taken out of it, which the list before the first answer is not in either.
Settled(p) ==
    [p EXCEPT !.sel = IF p.url # None THEN p.url ELSE @,
              !.url = IF p.url \in In(p.list) THEN @ ELSE None]

\* effectiveSelectedId and the detail that is mounted.
Selected(p) ==
    LET e == IF p.url # None THEN p.url ELSE IF p.mobile THEN None ELSE p.sel
    IN  IF ~p.fetching /\ e \in In(p.list) THEN e ELSE None

Shut == [status |-> "null", busy |-> FALSE, poll |-> 0, latest |-> FALSE, clears |-> FALSE]

\* The detail is keyed by its runtime: another one is a new mounting, and the
\* cleanup of the old one ends the interval its pollRef holds.
Show(p) ==
    LET q == Settled(p) IN
    /\ page' = q
    /\ IF Selected(q) = Selected(page) THEN UNCHANGED <<inst, sec, usage, ticking>>
       ELSE /\ inst' = inst + 1
            /\ sec' = [k \in Kind |-> Shut]
            /\ usage' = "loading"
            /\ ticking' = {t \in ticking : t.inst # inst \/ t.job # sec[t.kind].poll}

Here == Selected(page)

-----------------------------------------------------------------------------
(* The user.                                                               *)

\* onSelect of RuntimeList.
Select(r) ==
    /\ ~page.fetching /\ r \in In(page.list) /\ (page.mobile => Here = None) /\ Spend
    /\ Show([page EXCEPT !.sel = r, !.url = r])
    /\ UNCHANGED <<call, row, job>>

\* onBack, on a small screen only.
Back ==
    /\ page.mobile /\ Here # None /\ Spend
    /\ Show([page EXCEPT !.url = None])
    /\ UNCHANGED <<call, row, job>>

\* Another page and back, perhaps by a link to a runtime; the store outlives it.
Revisit(u, n) ==
    /\ Spend /\ page' = Settled([page EXCEPT !.url = u])
    /\ inst' = inst + 1 /\ sec' = [k \in Kind |-> Shut] /\ usage' = "loading"
    /\ ticking' = {t \in ticking : t.inst # inst \/ t.job # sec[t.kind].poll}
    /\ Send(n, Request("list", None))
    /\ UNCHANGED <<row, job>>

\* The button of the section: Test Connection while no test runs; Update while an
\* update is known and nothing is shown, or Retry after a failure.
TestOffered == ~sec["ping"].busy

\* isNewer: the latest version is newer than the one the list tells of.
Outdated(r) == page.list[r] = "old"

UpdateOffered ==
    /\ sec["update"].latest
    /\ \/ sec["update"].status = "null" /\ Outdated(Here) /\ ~sec["update"].busy
       \/ sec["update"].status = "failed"

Offered(k) == Here # None /\ IF k = "ping" THEN TestOffered ELSE UpdateOffered

\* handleTest and handleUpdate.
Start(k, n) ==
    /\ Offered(k) /\ Spend
    /\ sec' = [sec EXCEPT ![k].status = "pending", ![k].busy = TRUE, ![k].poll = 0]
    /\ ticking' = {t \in ticking : t.inst # inst \/ t.kind # k \/ t.job # sec[k].poll}
    /\ Send(n, Request(k, Here))
    /\ UNCHANGED <<page, inst, usage, row, job>>

-----------------------------------------------------------------------------
(* The server, the daemons, GitHub.                                        *)

\* A daemon comes, goes or is replaced; the page hears of it and fetches.
DaemonChanges(r, s, n) ==
    /\ row[r] # s /\ Spend
    /\ row' = [row EXCEPT ![r] = s]
    /\ Send(n, Request("list", None))
    /\ UNCHANGED <<page, inst, sec, usage, ticking, job>>

\* fetchLatestVersion on mount; a failure is no version.
LatestKnown ==
    /\ Here # None /\ ~sec["update"].latest
    /\ sec' = [sec EXCEPT !["update"].latest = TRUE]
    /\ UNCHANGED <<page, inst, usage, ticking, call, row, job, left>>

Active(r) == {j \in Jobs : job[j].rt = r /\ job[j].kind = "update"
                            /\ job[j].status \in {"pending", "running"}}

\* InitiatePing and InitiateUpdate (one at a time), GetPing and GetUpdate, the list.
Answer(n) ==
    LET r == call[n] IN
    /\ r.status = "sent"
    /\ \/ /\ r.kind \in Kind /\ (r.kind = "update" => Active(r.rt) = {})
          /\ \E j \in Jobs : /\ job[j].status = "none"
                             /\ \A i \in Jobs : i < j => job[i].status # "none"
                             /\ job' = [job EXCEPT ![j] = [kind |-> r.kind, rt |-> r.rt,
                                                           status |-> "pending"]]
                             /\ call' = [call EXCEPT ![n].status = "ok", ![n].job = j]
          /\ UNCHANGED left
       \/ /\ r.kind \in {Poll[k] : k \in Kind}
          /\ call' = [call EXCEPT ![n].status = job[r.job].status] /\ UNCHANGED <<job, left>>
       \/ /\ r.kind = "list"
          /\ call' = [call EXCEPT ![n].status = "ok", ![n].rows = row] /\ UNCHANGED <<job, left>>
       \/ /\ IF r.kind = "update" /\ Active(r.rt) # {} THEN UNCHANGED left ELSE Spend
          /\ call' = [call EXCEPT ![n].status = "error"] /\ UNCHANGED job
    /\ UNCHANGED <<page, inst, sec, usage, ticking, row>>

\* The daemon takes a pending one and reports, perhaps after the timeout, which
\* spares a running ping.
JobStep(j, s) ==
    /\ CASE s = "running"   -> job[j].status = "pending" /\ Online(job[j].rt)
         [] s = "timeout"   -> \/ job[j].status = "pending"
                               \/ job[j].status = "running" /\ job[j].kind = "update"
         [] s = "completed" -> job[j].status \in {"running", "timeout"}
         [] s = "failed"    -> job[j].status \in {"running", "timeout"}
    /\ job' = [job EXCEPT ![j].status = s]
    /\ UNCHANGED <<page, inst, sec, usage, ticking, call, row, left>>

-----------------------------------------------------------------------------
(* Answers.                                                                *)

Mine(n) == call[n].inst = inst /\ Here # None

\* Mutation: the failure to start leaves the flag.
StartedSpins(n) ==
    /\ call[n].kind \in Kind /\ call[n].status \in {"ok", "error"} /\ Freed(n)
    /\ LET k == call[n].kind IN
         IF call[n].status = "error"
         THEN /\ sec' = (IF Mine(n) THEN [sec EXCEPT ![k].status = "failed"] ELSE sec)
              /\ UNCHANGED ticking
         ELSE /\ ticking' = ticking \cup {[inst |-> call[n].inst, kind |-> k, job |-> call[n].job]}
              /\ sec' = (IF Mine(n) THEN [sec EXCEPT ![k].poll = call[n].job] ELSE sec)
    /\ UNCHANGED <<page, inst, usage, row, job, left>>

\* The interval is set whether or not the section is still there, and the one that
\* pollRef may hold is not ended.
Started(n) ==
    /\ call[n].kind \in Kind /\ call[n].status \in {"ok", "error"} /\ Freed(n)
    /\ LET k == call[n].kind IN
         IF call[n].status = "error"
         THEN /\ sec' = (IF Mine(n) THEN [sec EXCEPT ![k].status = "failed", ![k].busy = FALSE]
                         ELSE sec)
              /\ UNCHANGED ticking
         ELSE /\ ticking' = ticking \cup {[inst |-> call[n].inst, kind |-> k, job |-> call[n].job]}
              /\ sec' = (IF Mine(n) THEN [sec EXCEPT ![k].poll = call[n].job] ELSE sec)
    /\ UNCHANGED <<page, inst, usage, row, job, left>>

\* Every 2 seconds, whatever became of the poll before.
Tick(t, n) ==
    /\ t \in ticking
    /\ Send(n, [Idle EXCEPT !.kind = Poll[t.kind], !.status = "sent", !.inst = t.inst,
                            !.job = t.job])
    /\ UNCHANGED <<page, inst, sec, usage, ticking, row, job, left>>

\* A result ends the interval pollRef holds now, be it of this request or not; a
\* failed poll is ignored.  Of a completed update the line goes after 5 seconds.
Polled(n) ==
    /\ call[n].status \notin {"sent", "idle"} /\ Freed(n)
    /\ \E k \in Kind :
         /\ call[n].kind = Poll[k]
         /\ LET s == call[n].status
                next == IF s \in Final
                        THEN [sec[k] EXCEPT !.status = s, !.busy = FALSE, !.poll = 0,
                                            !.clears = @ \/ (k = "update" /\ s = "completed")]
                        ELSE [sec[k] EXCEPT !.status = s]
            IN  /\ sec' = (IF Mine(n) /\ s # "error" THEN [sec EXCEPT ![k] = next] ELSE sec)
                /\ ticking' = (IF s \notin Final THEN ticking
                               ELSE IF Mine(n) THEN {t \in ticking : t.inst # inst \/ t.kind # k
                                                                     \/ t.job # sec[k].poll}
                               ELSE {t \in ticking : t.inst # call[n].inst \/ t.job # call[n].job})
    /\ UNCHANGED <<page, inst, usage, row, job, left>>

\* setStatus(null), even of an update that was started meanwhile.
StatusClears ==
    /\ sec["update"].clears
    /\ sec' = [sec EXCEPT !["update"].clears = FALSE, !["update"].status = "null"]
    /\ UNCHANGED <<page, inst, usage, ticking, call, row, job, left>>

\* fetchRuntimes.
Listed(n) ==
    /\ call[n].kind = "list" /\ call[n].status \in {"ok", "error"} /\ Freed(n)
    /\ IF call[n].status = "error" THEN Show([page EXCEPT !.fetching = FALSE])
       ELSE Show([page EXCEPT !.list = call[n].rows, !.fetching = FALSE,
                              !.sel = Chosen(call[n].rows, @)])
    /\ UNCHANGED <<row, job, left>>

\* getRuntimeUsage, of 90 days; a failure is no usage.
UsageArrives ==
    /\ Here # None /\ usage = "loading" /\ usage' = "done"
    /\ UNCHANGED <<page, inst, sec, ticking, call, row, job, left>>

-----------------------------------------------------------------------------
Init ==
    /\ row \in [Runtime -> {"absent", "old"}]
    /\ \E u \in Runtime \cup {None}, m \in BOOLEAN :
         page = Settled([list |-> [r \in Runtime |-> "absent"], sel |-> None, url |-> u,
                         fetching |-> TRUE, mobile |-> m])
    /\ inst = 0 /\ sec = [k \in Kind |-> Shut] /\ usage = "loading" /\ ticking = {}
    /\ call = [n \in Slots |-> IF n = 1 THEN Request("list", None) ELSE Idle]
    /\ \E r \in Runtime \cup {None} :    \* an update that another member has started
         job = [j \in Jobs |-> IF j = 1 /\ r # None
                               THEN [kind |-> "update", rt |-> r, status |-> "pending"]
                               ELSE [kind |-> "ping", rt |-> None, status |-> "none"]]
    /\ left = MaxSteps

Next ==
    \/ \E r \in Runtime : Select(r)
    \/ Back \/ LatestKnown \/ StatusClears \/ UsageArrives
    \/ \E j \in Jobs, s \in {"running"} \cup Final : JobStep(j, s)
    \/ \E n \in Slots :
         \/ \E u \in Runtime \cup {None} : Revisit(u, n)
         \/ \E k \in Kind : Start(k, n)
         \/ \E r \in Runtime, s \in {"absent", "offline", "old", "new"} : DaemonChanges(r, s, n)
         \/ \E t \in ticking : Tick(t, n)
         \/ Answer(n) \/ Started(n) \/ Polled(n) \/ Listed(n)

Spec == Init /\ [][Next]_vars

-----------------------------------------------------------------------------
\* A section that says it is testing or updating has asked, or is asking every two
\* seconds: then a result that the server has will be shown.
BusyIsPolled ==
    \A k \in Kind :
      Here # None /\ sec[k].busy =>
        \/ \E n \in Slots : call[n].kind = k /\ call[n].inst = inst
        \/ \E t \in ticking : t.inst = inst /\ t.kind = k /\ t.job = sec[k].poll
=============================================================================
