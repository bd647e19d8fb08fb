------------------------------- MODULE WebSync -------------------------------
(***************************************************************************)
(* The web client's shared state: session and workspace stores, the issue  *)
(* store, the API client's identity, the WebSocket client and the events   *)
(* that keep the stores up to date (src/apps/web/features/{auth,workspace, *)
(* issues,realtime}, shared/api, the dashboard's layout and sidebar).      *)
(* A store update and the effects it triggers are one step; a request is   *)
(* sent, answered from the rows of that moment, and delivered later.       *)
(***************************************************************************)
EXTENDS Integers, Sequences, FiniteSets

CONSTANTS
    Workspace,  \* workspace ids, positive; the list of the server is sorted
    Issue,      \* issue ids
    Home,       \* Home[i]: the workspace of issue i
    MaxRev,     \* bound: revisions of an issue
    MaxCalls,   \* bound: requests in flight
    MaxQueue,   \* bound: events on their way to the client
    MaxSteps    \* bound: clicks, changes at the server and failures, together

ASSUME WebSyncAssumption ==
    /\ Workspace \subseteq Nat \ {0} /\ Issue # {}
    /\ Home \in [Issue -> Workspace]
    /\ MaxRev \in Nat \ {0}
    /\ MaxCalls \in Nat /\ MaxQueue \in Nat
    /\ MaxSteps \in Nat

VARIABLES
    session,    \* [user, token, booting]: auth store and multica_token
    apiWs,      \* ApiClient.workspaceId, 0 for null
    storedWs,   \* localStorage multica_workspace_id, 0 when absent
    current,    \* workspace store: workspace, 0 for null
    known,      \* workspace store: workspaces
    list,       \* issue store: the revision shown of each issue, 0: not listed
    loading,    \* issue store: loading
    roster,     \* workspace whose members, agents and skills are shown
    sock,       \* [state, ws, registered, before] of the WSClient
    queue,      \* events sent to the registered client
    timers,     \* prefixes with a debounce timer running
    heard,      \* whether the mounted page listens on the present WSClient
    call,       \* requests in flight
    row,        \* server: revision of each issue; 0 not created yet
    member,     \* server: workspaces the user belongs to
    left        \* what is left of MaxSteps

identity == <<session, apiWs, storedWs, current, known>>
stores   == <<list, loading, roster>>
socket   == <<sock, queue, timers, heard>>
server   == <<row, member>>
syncVars == <<identity, stores, socket, call, server, left>>

Gone  == MaxRev + 1
Slots == 1..MaxCalls
Lowest(S)  == CHOOSE x \in S : \A y \in S : x <= y

Idle   == [kind |-> "idle", ws |-> 0, initial |-> FALSE, joins |-> FALSE,
           status |-> "idle", rows |-> [i \in Issue |-> 0], found |-> {}]
NoSock == [state |-> "none", ws |-> 0, registered |-> FALSE, before |-> FALSE]
Empty  == [i \in Issue |-> 0]

Spend == left > 0 /\ left' = left - 1

FreeSlots == {n \in Slots : call[n].kind = "idle"}

\* A request names the workspace the API client holds (authHeaders).
Request(kind, ws) == [Idle EXCEPT !.kind = kind, !.ws = ws, !.status = "sent"]

\* fetch of the issue store: loading is raised when the list is empty.
IssueRequest(ws, listed, joins) ==
    [Request("issues", ws) EXCEPT !.initial = (listed = Empty), !.joins = joins]

-----------------------------------------------------------------------------
(* Effects of WSProvider, useRealtimeSync and DashboardLayout on [user,     *)
(* workspace]: the old client is closed with its handlers and timers, a new *)
(* one connects; the effects of the page run first, when there is no client.*)

\* Mutation: the client of the previous workspace is kept.
KeptClient(user, ws) ==
    IF user /\ ws # 0 /\ sock.state # "none"
      THEN UNCHANGED socket
      ELSE /\ sock' = IF user /\ ws # 0
                        THEN [NoSock EXCEPT !.state = "connecting", !.ws = ws]
                        ELSE NoSock
           /\ queue' = <<>> /\ timers' = {} /\ heard' = FALSE

Reconnect(user, ws) ==
    /\ sock' = IF user /\ ws # 0
                 THEN [NoSock EXCEPT !.state = "connecting", !.ws = ws]
                 ELSE NoSock
    /\ queue' = <<>> /\ timers' = {} /\ heard' = FALSE

\* hydrateWorkspace in slot n, the stores holding listed when it starts.
NextWorkspace(found, preferred) ==
    IF preferred \in found THEN preferred
    ELSE IF found = {} THEN 0 ELSE Lowest(found)

Identify(ws) == apiWs' = ws /\ storedWs' = ws /\ current' = ws

Hydrate(n, found, preferred, listed) ==
    LET ws == NextWorkspace(found, preferred) IN
    /\ known' = found
    /\ Identify(ws)
    /\ IF ws = 0
         THEN /\ roster' = 0
              /\ call' = [call EXCEPT ![n] = Idle]
              /\ UNCHANGED loading
         ELSE /\ call' = [call EXCEPT ![n] = IssueRequest(ws, listed, TRUE)]
              /\ loading' = (loading \/ listed = Empty)
              /\ UNCHANGED roster

-----------------------------------------------------------------------------
(* Sessions.                                                               *)

\* A page load: AuthInitializer with what localStorage holds.
Booting(token, stored) ==
    /\ session' = [user |-> FALSE, token |-> token, booting |-> token]
    /\ apiWs' = 0 /\ storedWs' = stored /\ current' = 0 /\ known' = {}
    /\ list' = Empty /\ loading' = TRUE /\ roster' = 0
    /\ sock' = NoSock /\ queue' = <<>> /\ timers' = {} /\ heard' = FALSE
    /\ call' = [n \in Slots |->
                 IF n = 1 /\ token THEN Request("boot", stored) ELSE Idle]

Reload == Spend /\ Booting(session.token, storedWs) /\ UNCHANGED server

\* Promise.all of getMe and listWorkspaces, then hydrate with the stored id.
InitializerDone(n) ==
    /\ call[n].kind = "boot" /\ call[n].status = "ok"
    /\ session' = [session EXCEPT !.user = TRUE, !.booting = FALSE]
    /\ Hydrate(n, call[n].found, call[n].ws, list)
    /\ Reconnect(TRUE, NextWorkspace(call[n].found, call[n].ws))
    /\ UNCHANGED <<list, server, left>>

\* Any failure of the two, a passing one too, ends the session.
InitializerFailed(n) ==
    /\ call[n].kind = "boot" /\ call[n].status = "error"
    /\ session' = [user |-> FALSE, token |-> FALSE, booting |-> FALSE]
    /\ apiWs' = 0 /\ storedWs' = 0
    /\ call' = [call EXCEPT ![n] = Idle]
    /\ UNCHANGED <<current, known, stores, socket, server, left>>

\* verifyCode or loginWithPassword: the user is set, the workspaces follow.
\* The form is used once the session check of the page load has ended.
Login ==
    /\ Spend
    /\ ~session.user /\ ~session.booting /\ FreeSlots # {}
    /\ session' = [session EXCEPT !.user = TRUE, !.token = TRUE]
    /\ Reconnect(TRUE, current)
    /\ call' = [call EXCEPT ![Lowest(FreeSlots)] = Request("login", 0)]
    /\ UNCHANGED <<apiWs, storedWs, current, known, stores, server>>

\* logout of the sidebar: authLogout, then clearWorkspace.
Logout ==
    /\ Spend
    /\ session.user
    /\ session' = [session EXCEPT !.user = FALSE, !.token = FALSE]
    /\ Identify(0) /\ known' = {} /\ roster' = 0
    /\ Reconnect(FALSE, 0)
    /\ UNCHANGED <<list, loading, call, server>>

\* handleUnauthorized: the page is left when it is not the landing page, where
\* the request goes on to fail.
Unauthorized(n) ==
    /\ call[n].status = "unauthorized"
    /\ IF session.user
         THEN Booting(FALSE, 0)
         ELSE /\ session' = [session EXCEPT !.token = FALSE]
              /\ apiWs' = 0 /\ storedWs' = 0
              /\ call' = [call EXCEPT ![n].status = "error"]
              /\ UNCHANGED <<current, known, stores, socket>>
    /\ UNCHANGED <<server, left>>

-----------------------------------------------------------------------------
(* Workspaces.                                                             *)

\* Mutation: the issues of the old workspace stay listed.
SwitchKeepsIssues(ws) ==
    /\ Spend
    /\ session.user /\ current # 0 /\ ws \in known \ {current} /\ FreeSlots # {}
    /\ Identify(ws) /\ UNCHANGED <<known, list, loading>> /\ roster' = 0
    /\ Reconnect(TRUE, ws)
    /\ call' = [call EXCEPT ![Lowest(FreeSlots)] = IssueRequest(ws, list, TRUE)]
    /\ UNCHANGED <<session, server>>

\* A click in the sidebar's menu: identity, cleared stores, hydrate.
SwitchWorkspace(ws) ==
    /\ Spend
    /\ session.user /\ current # 0 /\ ws \in known \ {current} /\ FreeSlots # {}
    /\ Identify(ws) /\ UNCHANGED known
    /\ list' = Empty /\ loading' = TRUE /\ roster' = 0
    /\ Reconnect(TRUE, ws)
    /\ call' = [call EXCEPT ![Lowest(FreeSlots)] = IssueRequest(ws, Empty, TRUE)]
    /\ UNCHANGED <<session, server>>

\* refreshWorkspaces reads the preferred workspace before it asks.
Preferred == IF current # 0 THEN current ELSE storedWs

\* The list of workspaces arrives: hydrate, whatever was chosen since.
WorkspacesArrive(n) ==
    /\ call[n].kind \in {"workspaces", "login"} /\ call[n].status = "ok"
    /\ Hydrate(n, call[n].found, call[n].ws, list)
    /\ Reconnect(session.user, NextWorkspace(call[n].found, call[n].ws))
    /\ UNCHANGED <<session, list, server, left>>

\* deleteWorkspace and leaveWorkspace: the request, then the list.
Leave(ws) ==
    /\ Spend
    /\ session.user /\ ws \in known /\ ws = current /\ FreeSlots # {}
    /\ call' = [call EXCEPT ![Lowest(FreeSlots)] = Request("leave", ws)]
    /\ UNCHANGED <<identity, stores, socket, server>>

LeaveDone(n) ==
    /\ call[n].kind = "leave" /\ call[n].status = "ok"
    /\ call' = [call EXCEPT ![n] = Request("workspaces",
                                 IF current = call[n].ws THEN 0 ELSE current)]
    /\ UNCHANGED <<identity, stores, socket, server, left>>

-----------------------------------------------------------------------------
(* Refreshes.                                                              *)

IssuesArrive(n) ==
    /\ call[n].kind = "issues" /\ call[n].status = "ok"
    /\ list' = call[n].rows /\ loading' = FALSE
    /\ call' = [call EXCEPT ![n] = IF @.joins THEN Request("roster", @.ws)
                                              ELSE Idle]
    /\ UNCHANGED <<identity, roster, socket, server, left>>

\* Mutation: the failure looks at the list instead of at the flag it captured.
IssuesFailedLate(n) ==
    /\ call[n].kind = "issues" /\ call[n].status = "error"
    /\ loading' = (loading /\ list # Empty)
    /\ call' = [call EXCEPT ![n] = IF @.joins THEN Request("roster", @.ws)
                                              ELSE Idle]
    /\ UNCHANGED <<identity, list, roster, socket, server, left>>

\* The fetch fails; hydrate goes on, its other answers are already there.
IssuesFailed(n) ==
    /\ call[n].kind = "issues" /\ call[n].status = "error"
    /\ loading' = (loading /\ ~call[n].initial)
    /\ call' = [call EXCEPT ![n] = IF @.joins THEN Request("roster", @.ws)
                                              ELSE Idle]
    /\ UNCHANGED <<identity, list, roster, socket, server, left>>

\* refreshAgents, refreshMembers, and the end of hydrateWorkspace.
RosterArrives(n) ==
    /\ call[n].kind = "roster" /\ call[n].status = "ok"
    /\ roster' = call[n].ws
    /\ call' = [call EXCEPT ![n] = Idle]
    /\ UNCHANGED <<identity, list, loading, socket, server, left>>

\* The light refresh after a workspace event: updateWorkspace makes a new
\* workspace object, and the provider a new client, when still a member.
WorkspaceUpdated(n) ==
    /\ call[n].kind = "light" /\ call[n].status = "ok"
    /\ IF current # 0 /\ current \in call[n].found
         THEN Reconnect(session.user, current)
         ELSE UNCHANGED socket
    /\ call' = [call EXCEPT ![n] = Idle]
    /\ UNCHANGED <<identity, stores, server, left>>

\* A failed request of another kind leaves the stores alone (catch, toast).
Failed(n) ==
    /\ call[n].kind \in {"workspaces", "login", "light", "roster", "leave"}
    /\ call[n].status = "error"
    /\ call' = [call EXCEPT ![n] = Idle]
    /\ UNCHANGED <<identity, stores, socket, server, left>>

-----------------------------------------------------------------------------
(* The WebSocket client.                                                   *)

SockOpens ==
    /\ sock.state = "connecting" /\ sock.ws \in member
    /\ sock' = [sock EXCEPT !.state = "open", !.before = TRUE]
    /\ IF sock.before
         THEN /\ Cardinality(FreeSlots) >= 2
              /\ LET a == Lowest(FreeSlots)
                     b == Lowest(FreeSlots \ {a})
                 IN  call' = [call EXCEPT
                         ![a] = IssueRequest(apiWs, list, FALSE),
                         ![b] = Request("roster", current)]
              /\ loading' = (loading \/ list = Empty)
         ELSE UNCHANGED <<call, loading>>
    /\ UNCHANGED <<identity, list, roster, queue, timers, heard, server, left>>

\* onclose: the network, or a handshake the server refuses; retry in 3 s.
SockCloses ==
    /\ Spend
    /\ sock.state \in {"connecting", "open"}
    /\ sock' = [sock EXCEPT !.state = "down", !.registered = FALSE]
    /\ queue' = <<>>
    /\ UNCHANGED <<identity, stores, timers, heard, call, server>>

SockRetries ==
    /\ sock.state = "down"
    /\ sock' = [sock EXCEPT !.state = "connecting"]
    /\ UNCHANGED <<identity, stores, queue, timers, heard, call, server, left>>

Head1 == Head(queue)
Drop1 == queue' = Tail(queue)

\* Mutation: a deleted issue is written like an update.
DeletedWritten ==
    /\ queue # <<>> /\ Head1.type \in {"created", "updated", "deleted"} /\ Drop1
    /\ list' = [list EXCEPT ![Head1.issue] = Head1.rev]
    /\ UNCHANGED <<identity, loading, roster, sock, timers, heard, call, server, left>>

\* issue:created, issue:updated, issue:deleted go straight to the store.
OnIssueEvent ==
    /\ queue # <<>> /\ Head1.type \in {"created", "updated", "deleted"} /\ Drop1
    /\ list' = [list EXCEPT ![Head1.issue] =
                 CASE Head1.type = "created" -> IF @ = 0 THEN Head1.rev ELSE @
                   [] Head1.type = "updated" -> IF @ = 0 THEN 0 ELSE Head1.rev
                   [] OTHER -> 0]
    /\ UNCHANGED <<identity, loading, roster, sock, timers, heard, call, server, left>>

\* onAny: an event of somebody else arms the timer of its prefix (100 ms).
OnPrefixEvent ==
    /\ queue # <<>> /\ Head1.type \in {"roster", "workspace"} /\ Drop1
    /\ timers' = IF Head1.self THEN timers ELSE timers \cup {Head1.type}
    /\ UNCHANGED <<identity, stores, sock, heard, call, server, left>>

\* member:added or member:removed of this user, workspace:deleted.
OnMembershipEvent ==
    /\ queue # <<>> /\ Head1.type = "membership" /\ Drop1 /\ FreeSlots # {}
    /\ timers' = timers \cup {"roster"}
    /\ call' = [call EXCEPT ![Lowest(FreeSlots)] = Request("workspaces", Preferred)]
    /\ UNCHANGED <<identity, stores, sock, heard, server, left>>

TimerFires(p) ==
    /\ p \in timers /\ FreeSlots # {}
    /\ timers' = timers \ {p}
    /\ call' = [call EXCEPT ![Lowest(FreeSlots)] =
                 Request(IF p = "roster" THEN "roster" ELSE "light", current)]
    /\ UNCHANGED <<identity, stores, sock, queue, heard, server, left>>

\* The user opens another page: its handlers subscribe to the client of then.
Navigate ==
    /\ session.user /\ current # 0
    /\ heard' = (sock.state # "none")
    /\ UNCHANGED <<identity, stores, sock, queue, timers, call, server, left>>

-----------------------------------------------------------------------------
(* The server, as far as the client can tell.                              *)

Send(w, e) ==
    queue' = IF sock.registered /\ sock.ws = w THEN Append(queue, e) ELSE queue

Room(w) == ~(sock.registered /\ sock.ws = w) \/ Len(queue) < MaxQueue

Event(type, i, rev, self) == [type |-> type, issue |-> i, rev |-> rev, self |-> self]

\* The hub adds the client after the upgrade; what happens between is missed.
Register ==
    /\ sock.state = "open" /\ ~sock.registered
    /\ sock' = [sock EXCEPT !.registered = TRUE]
    /\ UNCHANGED <<identity, stores, queue, timers, heard, call, server, left>>

ServerChangesIssue(i) ==
    /\ Spend
    /\ row[i] < Gone /\ Room(Home[i])
    /\ \E r \in {row[i] + 1, Gone} :
         /\ r = Gone => row[i] > 0
         /\ r <= MaxRev \/ r = Gone
         /\ row' = [row EXCEPT ![i] = r]
         /\ Send(Home[i], Event(IF r = Gone THEN "deleted"
                                ELSE IF r = 1 THEN "created" ELSE "updated",
                                i, r, FALSE))
    /\ UNCHANGED <<identity, stores, sock, timers, heard, call, member>>

ServerChangesPrefix(w) ==
    /\ Spend
    /\ sock.registered /\ sock.ws = w /\ Len(queue) < MaxQueue
    /\ \E p \in {"roster", "workspace"}, self \in BOOLEAN :
         Send(w, Event(p, CHOOSE i \in Issue : TRUE, 0, self))
    /\ UNCHANGED <<identity, stores, sock, timers, heard, call, server>>

ServerChangesMembership(w) ==
    /\ Spend
    /\ ~sock.registered \/ Len(queue) < MaxQueue
    /\ member' = IF w \in member THEN member \ {w} ELSE member \cup {w}
    /\ queue' = IF sock.registered /\ (w \notin member \/ sock.ws = w)
                  THEN Append(queue, Event("membership", CHOOSE i \in Issue : TRUE,
                                           0, FALSE))
                  ELSE queue
    /\ UNCHANGED <<identity, stores, sock, timers, heard, call, row>>

\* The server answers request n from its rows, or the request fails.
Answer(n) ==
    /\ call[n].status = "sent"
    /\ \E s \in {"ok", "error", "unauthorized"} :
         /\ IF s = "ok" THEN UNCHANGED left ELSE Spend
         /\ s = "ok" /\ call[n].kind \in {"issues", "roster"} => call[n].ws \in member
         /\ call' = [call EXCEPT
              ![n].status = s,
              ![n].rows = [i \in Issue |->
                  IF /\ s = "ok" /\ call[n].kind = "issues"
                     /\ Home[i] = call[n].ws /\ row[i] < Gone
                    THEN row[i] ELSE 0],
              ![n].found = IF s = "ok" /\ call[n].kind \in
                                {"boot", "login", "workspaces", "light"}
                             THEN member ELSE {}]
         /\ member' = IF s = "ok" /\ call[n].kind = "leave"
                        THEN member \ {call[n].ws} ELSE member
    /\ UNCHANGED <<identity, stores, socket, row>>

-----------------------------------------------------------------------------
SyncInit ==
    /\ \E token \in BOOLEAN, stored \in Workspace \cup {0} :
         /\ token \/ stored = 0
         /\ session = [user |-> FALSE, token |-> token, booting |-> token]
         /\ storedWs = stored
         /\ call = [n \in Slots |->
                     IF n = 1 /\ token THEN Request("boot", stored) ELSE Idle]
    /\ apiWs = 0 /\ current = 0 /\ known = {}
    /\ list = Empty /\ loading = TRUE /\ roster = 0
    /\ sock = NoSock /\ queue = <<>> /\ timers = {} /\ heard = FALSE
    /\ row = Empty /\ member \in SUBSET Workspace /\ left = MaxSteps

SyncNext ==
    \/ Reload \/ Login \/ Logout \/ Navigate
    \/ \E w \in Workspace :
         \/ SwitchWorkspace(w) \/ Leave(w)
         \/ ServerChangesPrefix(w) \/ ServerChangesMembership(w)
    \/ \E n \in Slots :
         \/ InitializerDone(n) \/ InitializerFailed(n) \/ Unauthorized(n)
         \/ WorkspacesArrive(n) \/ LeaveDone(n) \/ Failed(n)
         \/ IssuesArrive(n) \/ IssuesFailed(n) \/ RosterArrives(n)
         \/ WorkspaceUpdated(n) \/ Answer(n)
    \/ SockOpens \/ SockCloses \/ SockRetries \/ Register
    \/ OnIssueEvent \/ OnPrefixEvent \/ OnMembershipEvent
    \/ \E p \in timers : TimerFires(p)
    \/ \E i \in Issue : ServerChangesIssue(i)

SyncSpec == SyncInit /\ [][SyncNext]_syncVars

-----------------------------------------------------------------------------
(* Properties.                                                             *)

Kind == {"idle", "boot", "login", "workspaces", "light", "issues", "roster", "leave"}

\* Types of the client's stores, the requests and the server's rows.
SyncTypeOK ==
    /\ session \in [user : BOOLEAN, token : BOOLEAN, booting : BOOLEAN]
    /\ {apiWs, storedWs, current, roster} \subseteq Workspace \cup {0}
    /\ known \subseteq Workspace /\ member \subseteq Workspace
    /\ list \in [Issue -> 0..MaxRev] /\ row \in [Issue -> 0..Gone]
    /\ loading \in BOOLEAN /\ heard \in BOOLEAN
    /\ sock \in [state : {"none", "connecting", "open", "down"},
                 ws : Workspace \cup {0}, registered : BOOLEAN, before : BOOLEAN]
    /\ left \in 0..MaxSteps
    /\ Len(queue) <= MaxQueue /\ timers \subseteq {"roster", "workspace"}
    /\ \A n \in Slots : call[n] \in
          [kind : Kind, ws : Workspace \cup {0}, initial : BOOLEAN, joins : BOOLEAN,
           status : {"idle", "sent", "ok", "error", "unauthorized"},
           rows : [Issue -> 0..MaxRev], found : SUBSET Workspace]

\* The workspace in the request header is the one on the screen, the one that
\* a reload restores, and the one whose events arrive: hydrateWorkspace and
\* switchWorkspace move all of them together, however answers interleave.
OneWorkspace ==
    /\ apiWs # 0 => apiWs = current /\ apiWs = storedWs
    /\ sock.state # "none" => sock.ws = current

Foreign == {i \in Issue : list[i] # 0 /\ Home[i] # current}

\* An answer to a fetch of another workspace is applied in this step.
LateAnswer == \E n \in Slots :
    call[n].kind = "issues" /\ call[n].ws # current /\ call'[n] # call[n]
        /\ call[n].status = "ok"

\* A list of workspaces moves the screen in this step (hydrate clears nothing).
Rehydrated == \E n \in Slots :
    call[n].kind \in {"workspaces", "login", "boot"} /\ call[n].status = "ok"
        /\ call'[n] # call[n]

\* Issues of another workspace reach the list by a late answer or when a list
\* of workspaces moves the screen, never by an event or a switch: the provider
\* replaces the client and switchWorkspace clears the stores.
ForeignOnlyLate ==
    [][(Foreign' \ Foreign # {} /\ current' # 0) => LateAnswer \/ Rehydrated]_syncVars

\* The skeleton of the issue pages ends: while it shows in a workspace, the
\* fetch that takes it down is on its way (isInitialLoad is captured).
LoadingEnds ==
    loading /\ current # 0 =>
        \E n \in Slots : call[n].kind = "issues"

\* use-realtime-sync.ts:32 -- events of a page are handled by the page's own
\* subscriptions: while events arrive, the page on the screen hears them.
PageHears == sock.registered /\ current # 0 => heard
=============================================================================
