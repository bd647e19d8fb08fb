---------------------------- MODULE WebSyncProofs ----------------------------
(***************************************************************************)
(* Theorems about WebSync for every number of workspaces, issues, requests *)
(* and events.  The inductive invariant is SyncInv.  OneWorkspace needs    *)
(* nothing but types; LoadingEnds needs to know that a fetch which takes   *)
(* the skeleton down remembers so (FirstLoad), and that nothing is listed  *)
(* by an event before a workspace is chosen (SocketQuiet); ForeignOnlyLate *)
(* that events and answers belong to the workspace they were asked of.     *)
(***************************************************************************)
EXTENDS WebSync, WellFoundedInduction, SequenceTheorems,
        FiniteSetTheorems, TLAPS

CallOK == [kind : Kind, ws : Workspace \cup {0}, initial : BOOLEAN, joins : BOOLEAN,
           status : {"idle", "sent", "ok", "error", "unauthorized"},
           rows : [Issue -> 0..MaxRev], found : SUBSET Workspace]

SockOK == [state : {"none", "connecting", "open", "down"},
           ws : Workspace \cup {0}, registered : BOOLEAN, before : BOOLEAN]

\* A deleted issue carries the revision after the last.
EventOK == {e \in [type : {"created", "updated", "deleted", "roster", "workspace", "membership"},
                   issue : Issue, rev : 0..Gone, self : BOOLEAN] :
              e.type \in {"created", "updated"} => e.rev \in 0..MaxRev}

SessionOK == [user : BOOLEAN, token : BOOLEAN, booting : BOOLEAN]

Typed ==
    /\ session \in SessionOK
    /\ apiWs \in Workspace \cup {0} /\ storedWs \in Workspace \cup {0}
    /\ current \in Workspace \cup {0} /\ roster \in Workspace \cup {0}
    /\ known \in SUBSET Workspace /\ member \in SUBSET Workspace
    /\ list \in [Issue -> 0..MaxRev] /\ row \in [Issue -> 0..Gone]
    /\ loading \in BOOLEAN /\ heard \in BOOLEAN
    /\ sock \in SockOK
    /\ left \in 0..MaxSteps
    /\ queue \in Seq(EventOK) /\ Len(queue) <= MaxQueue
    /\ timers \in SUBSET {"roster", "workspace"}
    /\ call \in [Slots -> CallOK]

\* Events only come over an open socket, and a socket has a workspace.
SocketQuiet ==
    /\ sock.state # "open" => ~sock.registered /\ queue = <<>>
    /\ sock.state # "none" => sock.ws # 0
    /\ \A k \in 1 .. Len(queue) : queue[k].type = "created" => Home[queue[k].issue] = sock.ws

\* While the skeleton shows, a fetch that will take it down is under way, or no
\* workspace was ever hydrated.
FirstLoad ==
    loading => \/ current = 0 /\ list = Empty
               \/ \E n \in Slots : call[n].kind = "issues" /\ call[n].initial

\* The server answers a fetch with issues of the workspace it was asked for.
RowsBelong ==
    \A n \in Slots, i \in Issue :
        call[n].kind = "issues" /\ call[n].rows[i] # 0 => Home[i] = call[n].ws

SyncInv == Typed /\ OneWorkspace /\ SocketQuiet /\ FirstLoad /\ RowsBelong

-----------------------------------------------------------------------------
LEMMA LowestIn ==
    ASSUME NEW S \in SUBSET Nat, S # {}
    PROVE  Lowest(S) \in S
  <1>1. \E n \in S : \A m \in S : n <= m
    <2> DEFINE R == OpToRel(<, Nat)
    <2>1. \A m, n \in Nat : m < n => <<m, n>> \in R
      BY DEF OpToRel
    <2>2. IsWellFoundedOn(R, Nat)
      BY NatLessThanWellFounded
    <2> HIDE DEF R
    <2>3. \E n \in S : \A m \in S : ~ (<<m, n>> \in R)
      BY <2>2, WFMin
    <2>4. PICK n \in S : \A m \in S : ~ (<<m, n>> \in R)
      BY <2>3
    <2>5. \A m \in S : ~ (m < n)
      BY <2>1, <2>4, Zenon
    <2> QED BY <2>5, SMT
  <1> QED BY <1>1 DEF Lowest

LEMMA FreeSlot ==
    ASSUME NEW S \in SUBSET FreeSlots, S # {}
    PROVE  Lowest(S) \in S /\ Lowest(S) \in Slots /\ call[Lowest(S)].kind = "idle"
  <1>1. S \in SUBSET Nat
    BY WebSyncAssumption DEF FreeSlots, Slots
  <1>2. Lowest(S) \in S
    BY <1>1, LowestIn
  <1> QED BY <1>2 DEF FreeSlots

LEMMA NextWorkspaceOK ==
    ASSUME NEW found \in SUBSET Workspace, NEW preferred
    PROVE  /\ NextWorkspace(found, preferred) \in Workspace \cup {0}
           /\ found # {} => NextWorkspace(found, preferred) \in Workspace
  <1>1. found # {} => Lowest(found) \in found
    BY LowestIn, WebSyncAssumption
  <1> QED BY <1>1 DEF NextWorkspace

LEMMA RequestOK ==
    ASSUME NEW kind \in Kind, NEW ws \in Workspace \cup {0}
    PROVE  /\ Request(kind, ws) \in CallOK
           /\ Request(kind, ws).kind = kind /\ Request(kind, ws).ws = ws
           /\ Request(kind, ws).status = "sent"
           /\ Request(kind, ws).rows = Empty
  <1>1. Idle \in CallOK
    BY WebSyncAssumption DEF Idle, CallOK, Kind
  <1>2. Request(kind, ws) \in CallOK
    BY <1>1 DEF Request, CallOK
  <1> QED BY <1>2 DEF Request, Idle, Empty

LEMMA IdleOK == /\ Idle \in CallOK /\ Idle.kind = "idle" /\ Idle.rows = Empty
                /\ Idle.status = "idle"
  BY WebSyncAssumption DEF Idle, CallOK, Kind, Empty

LEMMA IssueRequestOK ==
    ASSUME NEW ws \in Workspace \cup {0}, NEW listed, NEW joins \in BOOLEAN
    PROVE  /\ IssueRequest(ws, listed, joins) \in CallOK
           /\ IssueRequest(ws, listed, joins).kind = "issues"
           /\ IssueRequest(ws, listed, joins).rows = Empty
           /\ IssueRequest(ws, listed, joins).initial <=> listed = Empty
  <1> DEFINE q == Request("issues", ws)
  <1>1. q \in CallOK /\ q.kind = "issues" /\ q.ws = ws /\ q.status = "sent" /\ q.rows = Empty
    BY RequestOK DEF Kind
  <1> HIDE DEF q
  <1>2. \A b \in BOOLEAN : LET r == [q EXCEPT !.initial = b, !.joins = joins]
                           IN  /\ r \in CallOK /\ r.kind = q.kind /\ r.ws = q.ws
                               /\ r.status = q.status /\ r.rows = q.rows /\ r.initial = b
    BY <1>1 DEF CallOK
  <1>3. (listed = Empty) \in BOOLEAN
    OBVIOUS
  <1> QED BY <1>1, <1>2, <1>3 DEF IssueRequest, q

LEMMA NoSockOK == NoSock \in SockOK /\ NoSock.state = "none" /\ NoSock.registered = FALSE
  BY DEF NoSock, SockOK

LEMMA EmptyOK == Empty \in [Issue -> 0..MaxRev] /\ Empty \in [Issue -> 0..Gone]
  BY WebSyncAssumption DEF Empty, Gone

\* The state of the socket and its queue after Reconnect.
LEMMA Reconnected ==
    ASSUME NEW user \in BOOLEAN, NEW ws \in Workspace \cup {0}, Reconnect(user, ws)
    PROVE  /\ sock' \in SockOK
           /\ sock'.state # "none" => sock'.ws = ws /\ ws # 0
           /\ sock'.state # "open" /\ sock'.registered = FALSE
           /\ queue' = <<>> /\ timers' = {} /\ heard' = FALSE
  BY NoSockOK DEF Reconnect, NoSock, SockOK

LEMMA Facts ==
    ASSUME SyncInv
    PROVE  /\ Typed /\ OneWorkspace /\ SocketQuiet /\ FirstLoad /\ RowsBelong
           /\ \A n \in Slots : call[n] \in CallOK
           /\ session.user \in BOOLEAN
           /\ 1 .. Len(<<>>) = {} /\ <<>> \in Seq(EventOK) /\ Len(<<>>) <= MaxQueue
           /\ MaxSteps \in Nat /\ MaxQueue \in Nat
  BY WebSyncAssumption DEF SyncInv, Typed, SessionOK

\* One request changes: it is sent, answered, or over.
LEMMA CallChanges ==
    ASSUME SyncInv, NEW n \in Slots, NEW r \in CallOK, call' = [call EXCEPT ![n] = r],
           r.kind = "issues" => r.rows = Empty
    PROVE  /\ call' \in [Slots -> CallOK] /\ call'[n] = r
           /\ \A m \in Slots : m # n => call'[m] = call[m]
           /\ RowsBelong'
  <1>1. /\ call' \in [Slots -> CallOK] /\ call'[n] = r
        /\ \A m \in Slots : m # n => call'[m] = call[m]
    BY Facts DEF Typed
  <1>2. \A i \in Issue : Empty[i] = 0
    BY DEF Empty
  <1>3. RowsBelong'
    BY <1>1, <1>2, Facts DEF RowsBelong
  <1> QED BY <1>1, <1>3

\* Nothing listed, nothing raised: a fetch that takes the skeleton down stays on its way.
LEMMA StillLoading ==
    ASSUME SyncInv, loading' => loading, UNCHANGED list,
           current' = current \/ current' = 0,
           \A m \in Slots : call[m].kind = "issues" /\ call[m].initial =>
                call'[m].kind = "issues" /\ call'[m].initial
    PROVE  FirstLoad'
  BY Facts DEF FirstLoad

\* The socket is replaced, for the workspace that is then on the screen.
LEMMA SocketReplaced ==
    ASSUME SyncInv, NEW user \in BOOLEAN, Reconnect(user, current'),
           current' \in Workspace \cup {0}
    PROVE  /\ sock' \in SockOK /\ queue' \in Seq(EventOK) /\ Len(queue') <= MaxQueue
           /\ timers' \in SUBSET {"roster", "workspace"} /\ heard' \in BOOLEAN
           /\ SocketQuiet'
           /\ sock'.state # "none" => sock'.ws = current'
  <1>1. /\ sock' \in SockOK
        /\ sock'.state # "none" => sock'.ws = current' /\ current' # 0
        /\ sock'.state # "open" /\ sock'.registered = FALSE
        /\ queue' = <<>> /\ timers' = {} /\ heard' = FALSE
    BY Reconnected
  <1>2. SocketQuiet'
    BY <1>1, Facts DEF SocketQuiet
  <1>3. <<>> \in Seq(EventOK) /\ Len(<<>>) <= MaxQueue
    BY Facts
  <1> QED BY <1>1, <1>2, <1>3

LEMMA SpendOK == ASSUME SyncInv, Spend PROVE left' \in 0..MaxSteps
  BY Facts DEF Typed, Spend

-----------------------------------------------------------------------------
LEMMA BootingOK ==
    ASSUME SyncInv, NEW token \in BOOLEAN, NEW stored \in Workspace \cup {0},
           Booting(token, stored), UNCHANGED server, left' \in 0..MaxSteps
    PROVE  SyncInv'
  <1>1. call' = [n \in Slots |-> IF n = 1 /\ token THEN Request("boot", stored) ELSE Idle]
    BY DEF Booting
  <1>2. Request("boot", stored) \in CallOK /\ Request("boot", stored).kind = "boot"
    BY RequestOK DEF Kind
  <1>3. call' \in [Slots -> CallOK] /\ \A n \in Slots : call'[n].kind # "issues"
    BY <1>1, <1>2, IdleOK
  <1>4. /\ sock' \in SockOK /\ sock'.state = "none" /\ sock'.registered = FALSE
        /\ queue' = <<>>
    BY NoSockOK DEF Booting
  <1>5. Typed'
    <2>1. session' \in SessionOK
      BY DEF Booting, SessionOK
    <2>2. /\ apiWs' = 0 /\ storedWs' = stored /\ current' = 0 /\ known' = {}
          /\ list' = Empty /\ loading' = TRUE /\ roster' = 0
          /\ timers' = {} /\ heard' = FALSE
      BY DEF Booting
    <2> QED BY <1>3, <1>4, <2>1, <2>2, Facts, EmptyOK DEF Typed, server
  <1>6. OneWorkspace' /\ FirstLoad'
    BY <1>4 DEF OneWorkspace, FirstLoad, Booting
  <1>7. SocketQuiet'
    BY <1>4, Facts DEF SocketQuiet
  <1>8. RowsBelong'
    BY <1>3 DEF RowsBelong
  <1> QED BY <1>5, <1>6, <1>7, <1>8 DEF SyncInv

\* The end of an answer with a list of workspaces.
LEMMA HydrateOK ==
    ASSUME SyncInv, NEW n \in Slots, call[n].kind # "issues",
           NEW found \in SUBSET Workspace, NEW preferred \in Workspace \cup {0},
           Hydrate(n, found, preferred, list), NEW user \in BOOLEAN,
           Reconnect(user, NextWorkspace(found, preferred)),
           session' \in SessionOK, UNCHANGED <<list, server, left>>
    PROVE  SyncInv'
  <1> DEFINE ws == NextWorkspace(found, preferred)
  <1>1. ws \in Workspace \cup {0}
    BY NextWorkspaceOK
  <1>2. /\ apiWs' = ws /\ storedWs' = ws /\ current' = ws /\ known' = found
    BY DEF Hydrate, Identify
  <1>3. /\ sock' \in SockOK /\ queue' \in Seq(EventOK) /\ Len(queue') <= MaxQueue
        /\ timers' \in SUBSET {"roster", "workspace"} /\ heard' \in BOOLEAN
        /\ SocketQuiet'
        /\ sock'.state # "none" => sock'.ws = current'
    BY <1>1, <1>2, SocketReplaced
  <1>4. /\ call' \in [Slots -> CallOK] /\ RowsBelong'
        /\ \A m \in Slots : m # n => call'[m] = call[m]
        /\ loading' \in BOOLEAN /\ roster' \in Workspace \cup {0}
        /\ FirstLoad'
    <2>1. CASE ws = 0
      <3>1. /\ call' = [call EXCEPT ![n] = Idle] /\ roster' = 0 /\ UNCHANGED loading
        BY <2>1 DEF Hydrate
      <3>2. /\ call' \in [Slots -> CallOK] /\ RowsBelong'
            /\ \A m \in Slots : m # n => call'[m] = call[m]
        BY <3>1, IdleOK, CallChanges
      <3>3. FirstLoad'
        BY <1>2, <2>1, <3>1, <3>2, StillLoading
      <3> QED BY <3>1, <3>2, <3>3, Facts DEF Typed
    <2>2. CASE ws # 0
      <3> DEFINE r == IssueRequest(ws, list, TRUE)
      <3>1. /\ call' = [call EXCEPT ![n] = r] /\ UNCHANGED roster
            /\ loading' = (loading \/ list = Empty)
        BY <2>2 DEF Hydrate
      <3>2. /\ r \in CallOK /\ r.kind = "issues" /\ r.rows = Empty
            /\ r.initial <=> list = Empty
        <4> HIDE DEF ws
        <4> QED BY <1>1, IssueRequestOK
      <3> HIDE DEF r
      <3>3. /\ call' \in [Slots -> CallOK] /\ RowsBelong' /\ call'[n] = r
            /\ \A m \in Slots : m # n => call'[m] = call[m]
        BY <3>1, <3>2, CallChanges
      <3>4. FirstLoad'
        BY <3>1, <3>2, <3>3, Facts DEF FirstLoad
      <3> QED BY <3>1, <3>3, <3>4, Facts DEF Typed
    <2> QED BY <2>1, <2>2
  <1> HIDE DEF ws
  <1>5. Typed'
    BY <1>1, <1>2, <1>3, <1>4, Facts DEF Typed, server
  <1>6. OneWorkspace'
    BY <1>2, <1>3 DEF OneWorkspace
  <1> QED BY <1>3, <1>4, <1>5, <1>6 DEF SyncInv

-----------------------------------------------------------------------------
(* Steps that leave the screen's workspace and the list alone.             *)

LEMMA Steady ==
    ASSUME SyncInv, UNCHANGED <<identity, list, row>>, loading' \in BOOLEAN,
           roster' \in Workspace \cup {0}, member' \in SUBSET Workspace,
           left' \in 0..MaxSteps, timers' \in SUBSET {"roster", "workspace"},
           heard' \in BOOLEAN, call' \in [Slots -> CallOK], RowsBelong',
           sock' \in SockOK, queue' \in Seq(EventOK), Len(queue') <= MaxQueue,
           SocketQuiet', sock'.state # "none" => sock'.ws = current, FirstLoad'
    PROVE  SyncInv'
  <1>1. /\ session' = session /\ apiWs' = apiWs /\ storedWs' = storedWs
        /\ current' = current /\ known' = known /\ list' = list /\ row' = row
    BY DEF identity
  <1>2. Typed'
    BY <1>1, Facts DEF Typed
  <1>3. OneWorkspace'
    BY <1>1, Facts DEF OneWorkspace
  <1> QED BY <1>2, <1>3 DEF SyncInv

\* Of the slots only n changes, and not from or to a fetch of the issues.
LEMMA OtherCall ==
    ASSUME SyncInv, NEW n \in Slots, NEW r \in CallOK, r.kind # "issues",
           call[n].kind # "issues", call' = [call EXCEPT ![n] = r],
           UNCHANGED <<list, current, loading>>
    PROVE  call' \in [Slots -> CallOK] /\ RowsBelong' /\ FirstLoad'
  <1>1. /\ call' \in [Slots -> CallOK] /\ RowsBelong'
        /\ \A m \in Slots : m # n => call'[m] = call[m]
    BY CallChanges
  <1>2. FirstLoad'
    BY <1>1, StillLoading
  <1> QED BY <1>1, <1>2

LEMMA SameCalls ==
    ASSUME SyncInv, UNCHANGED <<call, list, current, loading>>
    PROVE  call' \in [Slots -> CallOK] /\ RowsBelong' /\ FirstLoad'
  <1>1. FirstLoad'
    BY StillLoading
  <1>2. RowsBelong'
    BY Facts DEF RowsBelong
  <1> QED BY <1>1, <1>2, Facts DEF Typed

LEMMA SameSocket ==
    ASSUME SyncInv, UNCHANGED <<sock, queue>>
    PROVE  /\ sock' \in SockOK /\ queue' \in Seq(EventOK) /\ Len(queue') <= MaxQueue
           /\ SocketQuiet'
           /\ sock'.state # "none" => sock'.ws = current
  <1>1. SocketQuiet'
    BY Facts DEF SocketQuiet
  <1> QED BY <1>1, Facts DEF Typed, OneWorkspace

\* The handlers of an event take it from the queue.
LEMMA Dropped ==
    ASSUME SyncInv, queue # <<>>, Drop1, UNCHANGED sock
    PROVE  /\ Head1 \in EventOK /\ sock.state = "open" /\ sock.ws = current /\ sock.ws # 0
           /\ Head1.type = "created" => Home[Head1.issue] = current
           /\ sock' \in SockOK /\ queue' \in Seq(EventOK) /\ Len(queue') <= MaxQueue
           /\ SocketQuiet'
           /\ sock'.state # "none" => sock'.ws = current
  <1>1. queue \in Seq(EventOK) /\ Len(queue) <= MaxQueue /\ MaxQueue \in Nat
    BY Facts DEF Typed
  <1>2. /\ Head(queue) \in EventOK /\ Head(queue) = queue[1] /\ 1 \in 1 .. Len(queue)
        /\ Tail(queue) \in Seq(EventOK) /\ Len(Tail(queue)) = Len(queue) - 1
        /\ \A k \in 1 .. Len(Tail(queue)) : Tail(queue)[k] = queue[k + 1]
    BY <1>1, HeadTailProperties
  <1>3. /\ sock.state = "open" /\ sock.ws = current /\ sock.ws # 0
    BY Facts DEF SocketQuiet, OneWorkspace
  <1>4. Head1.type = "created" => Home[Head1.issue] = current
    BY <1>2, <1>3, Facts DEF SocketQuiet, Head1
  <1>5. SocketQuiet'
    <2>1. \A k \in 1 .. Len(Tail(queue)) : k + 1 \in 1 .. Len(queue)
      BY <1>1, <1>2
    <2> QED BY <1>2, <1>3, <2>1, Facts DEF SocketQuiet, Drop1
  <1>6. Len(Tail(queue)) <= MaxQueue
    BY <1>1, <1>2, LenProperties
  <1> QED BY <1>2, <1>3, <1>4, <1>5, <1>6, Facts DEF Typed, Head1, Drop1

\* An event is added to the queue of a registered client.
LEMMA Appended ==
    ASSUME SyncInv, UNCHANGED sock, NEW e \in EventOK, sock.registered,
           Len(queue) < MaxQueue, queue' = Append(queue, e),
           e.type = "created" => Home[e.issue] = sock.ws
    PROVE  /\ sock' \in SockOK /\ queue' \in Seq(EventOK) /\ Len(queue') <= MaxQueue
           /\ SocketQuiet'
           /\ sock'.state # "none" => sock'.ws = current
  <1>1. queue \in Seq(EventOK) /\ MaxQueue \in Nat /\ Len(queue) \in Nat
    BY Facts, LenProperties DEF Typed
  <1>2. /\ queue' \in Seq(EventOK) /\ Len(queue') = Len(queue) + 1
        /\ queue'[Len(queue) + 1] = e
        /\ \A k \in 1 .. Len(queue) : queue'[k] = queue[k]
    BY <1>1, AppendProperties
  <1>3. \A k \in 1 .. Len(queue') : k \in 1 .. Len(queue) \/ k = Len(queue) + 1
    BY <1>1, <1>2
  <1>4. sock.state = "open"
    BY Facts DEF SocketQuiet
  <1>5. SocketQuiet'
    BY <1>2, <1>3, <1>4, Facts DEF SocketQuiet
  <1>6. Len(queue') <= MaxQueue
    BY <1>1, <1>2
  <1> QED BY <1>2, <1>5, <1>6, Facts DEF Typed, OneWorkspace

-----------------------------------------------------------------------------
(* Sessions and workspaces.                                                *)

LEMMA ReloadKeeps == ASSUME SyncInv, Reload PROVE SyncInv'
  BY BootingOK, SpendOK, Facts DEF Reload, Typed, SessionOK

LEMMA InitializerDoneKeeps ==
    ASSUME SyncInv, NEW n \in Slots, InitializerDone(n) PROVE SyncInv'
  <1>1. call[n] \in CallOK
    BY Facts
  <1>2. /\ call[n].kind # "issues" /\ call[n].found \in SUBSET Workspace
        /\ call[n].ws \in Workspace \cup {0}
    BY <1>1 DEF CallOK, InitializerDone
  <1>3. session' \in SessionOK
    BY Facts DEF InitializerDone, Typed, SessionOK
  <1>4. /\ Hydrate(n, call[n].found, call[n].ws, list)
        /\ Reconnect(TRUE, NextWorkspace(call[n].found, call[n].ws))
        /\ UNCHANGED <<list, server, left>>
    BY DEF InitializerDone
  <1> QED BY <1>2, <1>3, <1>4, HydrateOK

LEMMA WorkspacesArriveKeeps ==
    ASSUME SyncInv, NEW n \in Slots, WorkspacesArrive(n) PROVE SyncInv'
  <1>1. call[n] \in CallOK /\ session.user \in BOOLEAN
    BY Facts
  <1>2. /\ call[n].kind # "issues" /\ call[n].found \in SUBSET Workspace
        /\ call[n].ws \in Workspace \cup {0}
    BY <1>1 DEF CallOK, WorkspacesArrive
  <1>3. session' \in SessionOK
    BY Facts DEF WorkspacesArrive, Typed
  <1>4. /\ Hydrate(n, call[n].found, call[n].ws, list)
        /\ Reconnect(session.user, NextWorkspace(call[n].found, call[n].ws))
        /\ UNCHANGED <<list, server, left>>
    BY DEF WorkspacesArrive
  <1> QED BY <1>1, <1>2, <1>3, <1>4, HydrateOK

LEMMA InitializerFailedKeeps ==
    ASSUME SyncInv, NEW n \in Slots, InitializerFailed(n) PROVE SyncInv'
  <1>1. /\ call[n].kind = "boot" /\ call' = [call EXCEPT ![n] = Idle]
        /\ session' \in SessionOK /\ apiWs' = 0 /\ storedWs' = 0
        /\ UNCHANGED <<current, known, stores, socket, server, left>>
    BY DEF InitializerFailed, SessionOK
  <1>2. call' \in [Slots -> CallOK] /\ RowsBelong' /\ FirstLoad'
    BY <1>1, IdleOK, OtherCall DEF stores
  <1>3. SocketQuiet'
    BY <1>1, SameSocket DEF socket
  <1>4. Typed'
    BY <1>1, <1>2, Facts DEF Typed, stores, socket, server
  <1>5. OneWorkspace'
    BY <1>1, Facts DEF OneWorkspace, socket
  <1> QED BY <1>2, <1>3, <1>4, <1>5 DEF SyncInv

LEMMA LoginKeeps == ASSUME SyncInv, Login PROVE SyncInv'
  <1> DEFINE n == Lowest(FreeSlots)
             r == Request("login", 0)
  <1>1. n \in Slots /\ call[n].kind = "idle"
    BY FreeSlot DEF Login
  <1>2. r \in CallOK /\ r.kind = "login"
    BY RequestOK DEF Kind
  <1>3. /\ call' = [call EXCEPT ![n] = r] /\ Reconnect(TRUE, current)
        /\ UNCHANGED <<apiWs, storedWs, current, known, stores, server>> /\ Spend
    BY DEF Login
  <1>4. session' \in SessionOK
    BY Facts DEF Login, Typed, SessionOK
  <1> HIDE DEF n, r
  <1>5. call' \in [Slots -> CallOK] /\ RowsBelong' /\ FirstLoad'
    BY <1>1, <1>2, <1>3, OtherCall DEF stores
  <1>6. current' = current /\ current \in Workspace \cup {0}
    BY <1>3, Facts DEF Typed
  <1>7. /\ sock' \in SockOK /\ queue' \in Seq(EventOK) /\ Len(queue') <= MaxQueue
        /\ timers' \in SUBSET {"roster", "workspace"} /\ heard' \in BOOLEAN
        /\ SocketQuiet'
        /\ sock'.state # "none" => sock'.ws = current'
    BY <1>3, <1>6, SocketReplaced
  <1>8. Typed'
    BY <1>3, <1>4, <1>5, <1>6, <1>7, SpendOK, Facts DEF Typed, stores, server
  <1>9. OneWorkspace'
    BY <1>3, <1>7, Facts DEF OneWorkspace
  <1> QED BY <1>5, <1>7, <1>8, <1>9 DEF SyncInv

LEMMA LogoutKeeps == ASSUME SyncInv, Logout PROVE SyncInv'
  <1>1. /\ apiWs' = 0 /\ storedWs' = 0 /\ current' = 0 /\ known' = {} /\ roster' = 0
        /\ Reconnect(FALSE, 0) /\ UNCHANGED <<list, loading, call, server>> /\ Spend
    BY DEF Logout, Identify
  <1>2. session' \in SessionOK
    BY Facts DEF Logout, Typed, SessionOK
  <1>3. FirstLoad' /\ RowsBelong'
    <2>1. FirstLoad'
      BY <1>1, StillLoading
    <2> QED BY <1>1, <2>1, Facts DEF RowsBelong
  <1>4. /\ sock' \in SockOK /\ queue' \in Seq(EventOK) /\ Len(queue') <= MaxQueue
        /\ timers' \in SUBSET {"roster", "workspace"} /\ heard' \in BOOLEAN
        /\ SocketQuiet'
        /\ sock'.state # "none" => sock'.ws = current'
    BY <1>1, SocketReplaced
  <1>5. Typed'
    BY <1>1, <1>2, <1>4, SpendOK, Facts DEF Typed, server
  <1>6. OneWorkspace'
    BY <1>1, <1>4 DEF OneWorkspace
  <1> QED BY <1>3, <1>4, <1>5, <1>6 DEF SyncInv

LEMMA SwitchWorkspaceKeeps ==
    ASSUME SyncInv, NEW ws \in Workspace, SwitchWorkspace(ws) PROVE SyncInv'
  <1> DEFINE n == Lowest(FreeSlots)
             r == IssueRequest(ws, Empty, TRUE)
  <1>1. n \in Slots /\ call[n].kind = "idle"
    BY FreeSlot DEF SwitchWorkspace
  <1>2. r \in CallOK /\ r.kind = "issues" /\ r.rows = Empty /\ r.initial
    BY IssueRequestOK
  <1>3. /\ apiWs' = ws /\ storedWs' = ws /\ current' = ws /\ known' = known
        /\ list' = Empty /\ loading' = TRUE /\ roster' = 0
        /\ Reconnect(TRUE, ws) /\ call' = [call EXCEPT ![n] = r]
        /\ UNCHANGED <<session, server>> /\ Spend
    BY DEF SwitchWorkspace, Identify
  <1> HIDE DEF n, r
  <1>4. call' \in [Slots -> CallOK] /\ RowsBelong' /\ call'[n] = r
    BY <1>1, <1>2, <1>3, CallChanges
  <1>5. /\ sock' \in SockOK /\ queue' \in Seq(EventOK) /\ Len(queue') <= MaxQueue
        /\ timers' \in SUBSET {"roster", "workspace"} /\ heard' \in BOOLEAN
        /\ SocketQuiet'
        /\ sock'.state # "none" => sock'.ws = current'
    BY <1>3, SocketReplaced
  <1>6. Typed'
    BY <1>3, <1>4, <1>5, SpendOK, EmptyOK, Facts DEF Typed, server
  <1>7. OneWorkspace' /\ FirstLoad'
    BY <1>1, <1>2, <1>3, <1>4, <1>5 DEF OneWorkspace, FirstLoad
  <1> QED BY <1>4, <1>5, <1>6, <1>7 DEF SyncInv

LEMMA UnauthorizedKeeps ==
    ASSUME SyncInv, NEW n \in Slots, Unauthorized(n) PROVE SyncInv'
  <1>1. CASE session.user
    BY <1>1, BootingOK, Facts DEF Unauthorized, Typed
  <1>2. CASE ~session.user
    <2>1. /\ apiWs' = 0 /\ storedWs' = 0
          /\ call' = [call EXCEPT ![n] = [call[n] EXCEPT !.status = "error"]]
          /\ UNCHANGED <<current, known, stores, socket, server, left>>
      BY <1>2 DEF Unauthorized
    <2>2. session' \in SessionOK
      BY <1>2, Facts DEF Unauthorized, Typed, SessionOK
    <2> DEFINE r == [call[n] EXCEPT !.status = "error"]
    <2>3. /\ r \in CallOK /\ r.kind = call[n].kind /\ r.initial = call[n].initial
          /\ r.rows = call[n].rows /\ r.ws = call[n].ws
      BY Facts DEF CallOK
    <2>4. call' = [call EXCEPT ![n] = r]
      BY <2>1
    <2> HIDE DEF r
    <2>5. /\ call' \in [Slots -> CallOK] /\ call'[n] = r
          /\ \A m \in Slots : m # n => call'[m] = call[m]
      BY <2>3, <2>4, Facts DEF Typed
    <2>6. RowsBelong'
      BY <2>3, <2>5, Facts DEF RowsBelong
    <2>7. FirstLoad'
      BY <2>1, <2>3, <2>5, StillLoading DEF stores
    <2>8. SocketQuiet'
      BY <2>1, SameSocket DEF socket
    <2>9. Typed'
      BY <2>1, <2>2, <2>5, Facts DEF Typed, stores, socket, server
    <2>10. OneWorkspace'
      BY <2>1, Facts DEF OneWorkspace, socket
    <2> QED BY <2>6, <2>7, <2>8, <2>9, <2>10 DEF SyncInv
  <1> QED BY <1>1, <1>2

-----------------------------------------------------------------------------
(* Requests, refreshes and their answers.                                  *)

LEMMA LeaveKeeps == ASSUME SyncInv, NEW ws \in Workspace, Leave(ws) PROVE SyncInv'
  <1> DEFINE n == Lowest(FreeSlots)
             r == Request("leave", ws)
  <1>1. n \in Slots /\ call[n].kind = "idle"
    BY FreeSlot DEF Leave
  <1>2. r \in CallOK /\ r.kind = "leave"
    BY RequestOK DEF Kind
  <1>3. /\ call' = [call EXCEPT ![n] = r] /\ Spend
        /\ UNCHANGED <<identity, stores, socket, server>>
    BY DEF Leave
  <1> HIDE DEF n, r
  <1>4. call' \in [Slots -> CallOK] /\ RowsBelong' /\ FirstLoad'
    BY <1>1, <1>2, <1>3, OtherCall DEF stores, identity
  <1> QED BY <1>3, <1>4, Steady, SameSocket, SpendOK, Facts DEF Typed, stores, socket, server

LEMMA LeaveDoneKeeps ==
    ASSUME SyncInv, NEW n \in Slots, LeaveDone(n) PROVE SyncInv'
  <1> DEFINE r == Request("workspaces", IF current = call[n].ws THEN 0 ELSE current)
  <1>1. r \in CallOK /\ r.kind = "workspaces"
    <2>1. (IF current = call[n].ws THEN 0 ELSE current) \in Workspace \cup {0}
      BY Facts DEF Typed
    <2> QED BY <2>1, RequestOK DEF Kind
  <1>2. /\ call[n].kind = "leave" /\ call' = [call EXCEPT ![n] = r]
        /\ UNCHANGED <<identity, stores, socket, server, left>>
    BY DEF LeaveDone
  <1> HIDE DEF r
  <1>3. call' \in [Slots -> CallOK] /\ RowsBelong' /\ FirstLoad'
    BY <1>1, <1>2, OtherCall DEF stores, identity
  <1> QED BY <1>2, <1>3, Steady, SameSocket, Facts DEF Typed, stores, socket, server

LEMMA FailedKeeps ==
    ASSUME SyncInv, NEW n \in Slots, Failed(n) PROVE SyncInv'
  <1>1. /\ call[n].kind # "issues" /\ call' = [call EXCEPT ![n] = Idle]
        /\ UNCHANGED <<identity, stores, socket, server, left>>
    BY DEF Failed
  <1>2. call' \in [Slots -> CallOK] /\ RowsBelong' /\ FirstLoad'
    BY <1>1, IdleOK, OtherCall DEF stores, identity
  <1> QED BY <1>1, <1>2, Steady, SameSocket, Facts DEF Typed, stores, socket, server

LEMMA RosterArrivesKeeps ==
    ASSUME SyncInv, NEW n \in Slots, RosterArrives(n) PROVE SyncInv'
  <1>1. /\ call[n].kind = "roster" /\ call' = [call EXCEPT ![n] = Idle]
        /\ roster' = call[n].ws
        /\ UNCHANGED <<identity, list, loading, socket, server, left>>
    BY DEF RosterArrives
  <1>2. call' \in [Slots -> CallOK] /\ RowsBelong' /\ FirstLoad'
    BY <1>1, IdleOK, OtherCall DEF identity
  <1>3. call[n].ws \in Workspace \cup {0}
    BY Facts DEF CallOK
  <1> QED BY <1>1, <1>2, <1>3, Steady, SameSocket, Facts DEF Typed, socket, server

LEMMA WorkspaceUpdatedKeeps ==
    ASSUME SyncInv, NEW n \in Slots, WorkspaceUpdated(n) PROVE SyncInv'
  <1>1. /\ call[n].kind = "light" /\ call' = [call EXCEPT ![n] = Idle]
        /\ UNCHANGED <<identity, stores, server, left>>
    BY DEF WorkspaceUpdated
  <1>2. call' \in [Slots -> CallOK] /\ RowsBelong' /\ FirstLoad'
    BY <1>1, IdleOK, OtherCall DEF stores, identity
  <1>3. /\ sock' \in SockOK /\ queue' \in Seq(EventOK) /\ Len(queue') <= MaxQueue
        /\ timers' \in SUBSET {"roster", "workspace"} /\ heard' \in BOOLEAN
        /\ SocketQuiet'
        /\ sock'.state # "none" => sock'.ws = current
    <2>1. CASE Reconnect(session.user, current)
      <3>1. current' = current /\ current \in Workspace \cup {0}
        BY <1>1, Facts DEF identity, Typed
      <3> QED BY <2>1, <3>1, SocketReplaced, Facts
    <2>2. CASE UNCHANGED socket
      BY <2>2, SameSocket, Facts DEF socket, Typed
    <2> QED BY <2>1, <2>2 DEF WorkspaceUpdated
  <1> QED BY <1>1, <1>2, <1>3, Steady, Facts DEF Typed, stores, server

\* What follows the answer to a fetch of the issues.
LEMMA AfterFetch ==
    ASSUME SyncInv, NEW n \in Slots, call[n].kind = "issues",
           call' = [call EXCEPT ![n] = IF @.joins THEN Request("roster", @.ws) ELSE Idle]
    PROVE  /\ call' \in [Slots -> CallOK] /\ RowsBelong'
           /\ call'[n].kind # "issues"
           /\ \A m \in Slots : m # n => call'[m] = call[m]
  <1> DEFINE r == IF call[n].joins THEN Request("roster", call[n].ws) ELSE Idle
  <1>1. r \in CallOK /\ r.kind # "issues"
    <2>1. call[n].ws \in Workspace \cup {0}
      BY Facts DEF CallOK
    <2>2. /\ Request("roster", call[n].ws) \in CallOK
          /\ Request("roster", call[n].ws).kind = "roster"
      BY <2>1, RequestOK DEF Kind
    <2> QED BY <2>2, IdleOK
  <1>2. call' = [call EXCEPT ![n] = r]
    OBVIOUS
  <1> HIDE DEF r
  <1> QED BY <1>1, <1>2, CallChanges

LEMMA IssuesArriveKeeps ==
    ASSUME SyncInv, NEW n \in Slots, IssuesArrive(n) PROVE SyncInv'
  <1>1. /\ call[n].kind = "issues" /\ list' = call[n].rows /\ loading' = FALSE
        /\ UNCHANGED <<identity, roster, socket, server, left>>
    BY DEF IssuesArrive
  <1>2. call' \in [Slots -> CallOK] /\ RowsBelong'
    BY AfterFetch DEF IssuesArrive
  <1>3. call[n].rows \in [Issue -> 0..MaxRev]
    BY Facts DEF CallOK
  <1>4. SocketQuiet'
    BY <1>1, SameSocket DEF socket
  <1>5. Typed'
    BY <1>1, <1>2, <1>3, Facts DEF Typed, identity, socket, server
  <1>6. OneWorkspace' /\ FirstLoad'
    BY <1>1, Facts DEF OneWorkspace, FirstLoad, identity, socket
  <1> QED BY <1>2, <1>4, <1>5, <1>6 DEF SyncInv

LEMMA IssuesFailedKeeps ==
    ASSUME SyncInv, NEW n \in Slots, IssuesFailed(n) PROVE SyncInv'
  <1>1. /\ call[n].kind = "issues" /\ loading' = (loading /\ ~call[n].initial)
        /\ UNCHANGED <<identity, list, roster, socket, server, left>>
    BY DEF IssuesFailed
  <1>2. /\ call' \in [Slots -> CallOK] /\ RowsBelong'
        /\ \A m \in Slots : m # n => call'[m] = call[m]
    BY AfterFetch DEF IssuesFailed
  <1>3. FirstLoad'
    BY <1>1, <1>2, Facts DEF FirstLoad, identity
  <1>4. loading' \in BOOLEAN
    BY <1>1, Facts DEF Typed, CallOK
  <1> QED BY <1>1, <1>2, <1>3, <1>4, Steady, SameSocket, Facts DEF Typed, socket, server

LEMMA AnswerKeeps ==
    ASSUME SyncInv, NEW n \in Slots, Answer(n) PROVE SyncInv'
  <1>1. PICK s \in {"ok", "error", "unauthorized"} :
         /\ IF s = "ok" THEN UNCHANGED left ELSE Spend
         /\ call' = [call EXCEPT
              ![n].status = s,
              ![n].rows = [i \in Issue |->
                  IF /\ s = "ok" /\ call[n].kind = "issues"
                     /\ Home[i] = call[n].ws /\ row[i] < Gone
                    THEN row[i] ELSE 0],
              ![n].found = IF s = "ok" /\ call[n].kind \in
                                {"boot", "login", "workspaces", "light"}
                             THEN member ELSE {}]
         /\ member' = IF s = "ok" /\ call[n].kind = "leave"
                        THEN member \ {call[n].ws} ELSE member
    BY DEF Answer
  <1>2. UNCHANGED <<identity, stores, socket, row>>
    BY DEF Answer
  <1> DEFINE rows == [i \in Issue |->
                  IF /\ s = "ok" /\ call[n].kind = "issues"
                     /\ Home[i] = call[n].ws /\ row[i] < Gone
                    THEN row[i] ELSE 0]
             found == IF s = "ok" /\ call[n].kind \in
                                {"boot", "login", "workspaces", "light"}
                             THEN member ELSE {}
             r == [call[n] EXCEPT !.status = s, !.rows = rows, !.found = found]
  <1>3. rows \in [Issue -> 0..MaxRev] /\ \A i \in Issue : rows[i] # 0 => Home[i] = call[n].ws
    <2>1. \A i \in Issue : row[i] \in 0..Gone
      BY Facts DEF Typed
    <2>2. \A i \in Issue : row[i] < Gone => row[i] \in 0..MaxRev
      BY <2>1, WebSyncAssumption DEF Gone
    <2>3. 0 \in 0..MaxRev
      BY WebSyncAssumption
    <2> QED BY <2>2, <2>3
  <1>4. found \in SUBSET Workspace
    BY Facts DEF Typed
  <1>5. call' = [call EXCEPT ![n] = r]
    BY <1>1, Facts DEF Typed
  <1> HIDE DEF rows, found
  <1>6. /\ r \in CallOK /\ r.kind = call[n].kind /\ r.initial = call[n].initial
        /\ r.rows = rows /\ r.ws = call[n].ws
    BY <1>3, <1>4, Facts DEF CallOK
  <1> HIDE DEF r
  <1>7. /\ call' \in [Slots -> CallOK] /\ call'[n] = r
        /\ \A m \in Slots : m # n => call'[m] = call[m]
    BY <1>5, <1>6, Facts DEF Typed
  <1>8. RowsBelong'
    BY <1>3, <1>6, <1>7, Facts DEF RowsBelong
  <1>9. FirstLoad'
    BY <1>2, <1>6, <1>7, StillLoading DEF stores, identity
  <1>10. left' \in 0..MaxSteps
    BY <1>1, SpendOK, Facts DEF Typed
  <1>11. member' \in SUBSET Workspace
    BY <1>1, Facts DEF Typed
  <1>12. /\ UNCHANGED <<identity, list, row>> /\ UNCHANGED <<sock, queue>>
         /\ loading' = loading /\ roster' = roster /\ timers' = timers /\ heard' = heard
    BY <1>2 DEF stores, socket
  <1> QED BY <1>7, <1>8, <1>9, <1>10, <1>11, <1>12, Steady, SameSocket, Facts DEF Typed

-----------------------------------------------------------------------------
(* The socket, its events and the server.                                  *)

LEMMA SockOpensKeeps == ASSUME SyncInv, SockOpens PROVE SyncInv'
  <1>1. /\ sock.state = "connecting" /\ sock' = [sock EXCEPT !.state = "open", !.before = TRUE]
        /\ UNCHANGED <<identity, list, roster, queue, timers, heard, server, left>>
    BY DEF SockOpens
  <1>2. /\ sock' \in SockOK /\ sock'.ws = sock.ws /\ sock'.state = "open"
        /\ queue' = <<>>
    BY <1>1, Facts DEF Typed, SockOK, SocketQuiet
  <1>3. /\ sock'.ws = current /\ SocketQuiet'
    BY <1>1, <1>2, Facts DEF SocketQuiet, OneWorkspace
  <1>4. /\ call' \in [Slots -> CallOK] /\ RowsBelong' /\ FirstLoad' /\ loading' \in BOOLEAN
    <2>1. CASE UNCHANGED <<call, loading>>
      BY <1>1, <2>1, SameCalls, Facts DEF identity, Typed
    <2>2. CASE /\ Cardinality(FreeSlots) >= 2
               /\ LET a == Lowest(FreeSlots)
                      b == Lowest(FreeSlots \ {a})
                  IN  call' = [call EXCEPT ![a] = IssueRequest(apiWs, list, FALSE),
                                           ![b] = Request("roster", current)]
               /\ loading' = (loading \/ list = Empty)
      <3> DEFINE a == Lowest(FreeSlots)
                 b == Lowest(FreeSlots \ {a})
                 p == IssueRequest(apiWs, list, FALSE)
                 r == Request("roster", current)
      <3>1. a \in FreeSlots /\ a \in Slots /\ call[a].kind = "idle"
        <4>1. FreeSlots # {}
          BY <2>2, FS_EmptySet
        <4> QED BY <4>1, FreeSlot
      <3>2. b \in FreeSlots \ {a} /\ b \in Slots /\ call[b].kind = "idle"
        <4>1. FreeSlots \ {a} # {}
          <5>1. SUFFICES ASSUME FreeSlots = {a} PROVE FALSE
            BY <3>1
          <5> HIDE DEF a
          <5>2. Cardinality({a}) = 1
            BY FS_Singleton
          <5> QED BY <2>2, <5>1, <5>2
        <4> HIDE DEF a
        <4> QED BY <4>1, FreeSlot
      <3>3. /\ p \in CallOK /\ p.kind = "issues" /\ p.rows = Empty
            /\ p.initial <=> list = Empty
        <4>1. apiWs \in Workspace \cup {0} /\ FALSE \in BOOLEAN
          BY Facts DEF Typed
        <4> QED BY <4>1, IssueRequestOK
      <3>4. r \in CallOK /\ r.kind = "roster"
        BY RequestOK, Facts DEF Typed, Kind
      <3>5. call' = [call EXCEPT ![a] = p, ![b] = r] /\ loading' = (loading \/ list = Empty)
        BY <2>2
      <3> HIDE DEF a, b, p, r
      <3>6. /\ call' \in [Slots -> CallOK] /\ call'[a] = p /\ call'[b] = r
            /\ \A m \in Slots : m # a /\ m # b => call'[m] = call[m]
        BY <3>1, <3>2, <3>3, <3>4, <3>5, Facts DEF Typed
      <3>7. \A i \in Issue : Empty[i] = 0
        BY DEF Empty
      <3>8. RowsBelong'
        BY <3>3, <3>4, <3>6, <3>7, Facts DEF RowsBelong
      <3>9. FirstLoad'
        BY <1>1, <3>1, <3>2, <3>3, <3>5, <3>6, Facts DEF FirstLoad, identity
      <3> QED BY <3>5, <3>6, <3>8, <3>9, Facts DEF Typed
    <2> QED BY <2>1, <2>2 DEF SockOpens
  <1> QED BY <1>1, <1>2, <1>3, <1>4, Steady, Facts DEF Typed, server

LEMMA SockClosesKeeps == ASSUME SyncInv, SockCloses PROVE SyncInv'
  <1>1. /\ sock' = [sock EXCEPT !.state = "down", !.registered = FALSE] /\ queue' = <<>>
        /\ sock.state # "none" /\ Spend
        /\ UNCHANGED <<identity, stores, timers, heard, call, server>>
    BY DEF SockCloses
  <1>2. /\ sock' \in SockOK /\ sock'.ws = sock.ws /\ sock'.state = "down" /\ ~sock'.registered
    BY <1>1, Facts DEF Typed, SockOK
  <1>3. sock'.ws = current /\ SocketQuiet'
    BY <1>1, <1>2, Facts DEF SocketQuiet, OneWorkspace
  <1>4. call' \in [Slots -> CallOK] /\ RowsBelong' /\ FirstLoad'
    BY <1>1, SameCalls DEF stores, identity
  <1> QED BY <1>1, <1>2, <1>3, <1>4, SpendOK, Steady, Facts DEF Typed, stores, server

LEMMA SockRetriesKeeps == ASSUME SyncInv, SockRetries PROVE SyncInv'
  <1>1. /\ sock' = [sock EXCEPT !.state = "connecting"] /\ sock.state = "down"
        /\ UNCHANGED <<identity, stores, queue, timers, heard, call, server, left>>
    BY DEF SockRetries
  <1>2. /\ sock' \in SockOK /\ sock'.ws = sock.ws /\ sock'.state = "connecting"
        /\ sock'.registered = sock.registered
    BY <1>1, Facts DEF Typed, SockOK
  <1>3. sock'.ws = current /\ SocketQuiet'
    BY <1>1, <1>2, Facts DEF SocketQuiet, OneWorkspace
  <1>4. call' \in [Slots -> CallOK] /\ RowsBelong' /\ FirstLoad'
    BY <1>1, SameCalls DEF stores, identity
  <1> QED BY <1>1, <1>2, <1>3, <1>4, Steady, Facts DEF Typed, stores, server

LEMMA RegisterKeeps == ASSUME SyncInv, Register PROVE SyncInv'
  <1>1. /\ sock' = [sock EXCEPT !.registered = TRUE] /\ sock.state = "open"
        /\ UNCHANGED <<identity, stores, queue, timers, heard, call, server, left>>
    BY DEF Register
  <1>2. /\ sock' \in SockOK /\ sock'.ws = sock.ws /\ sock'.state = "open"
    BY <1>1, Facts DEF Typed, SockOK
  <1>3. sock'.ws = current /\ SocketQuiet'
    BY <1>1, <1>2, Facts DEF SocketQuiet, OneWorkspace
  <1>4. call' \in [Slots -> CallOK] /\ RowsBelong' /\ FirstLoad'
    BY <1>1, SameCalls DEF stores, identity
  <1> QED BY <1>1, <1>2, <1>3, <1>4, Steady, Facts DEF Typed, stores, server

LEMMA NavigateKeeps == ASSUME SyncInv, Navigate PROVE SyncInv'
  <1>1. /\ heard' \in BOOLEAN
        /\ UNCHANGED <<identity, stores, sock, queue, timers, call, server, left>>
    BY DEF Navigate
  <1>2. call' \in [Slots -> CallOK] /\ RowsBelong' /\ FirstLoad'
    BY <1>1, SameCalls DEF stores, identity
  <1> QED BY <1>1, <1>2, SameSocket, Steady, Facts DEF Typed, stores, server

LEMMA OnIssueEventKeeps == ASSUME SyncInv, OnIssueEvent PROVE SyncInv'
  <1>1. /\ queue # <<>> /\ Head1.type \in {"created", "updated", "deleted"} /\ Drop1
        /\ UNCHANGED <<identity, loading, roster, sock, timers, heard, call, server, left>>
        /\ list' = [list EXCEPT ![Head1.issue] =
                 CASE Head1.type = "created" -> IF @ = 0 THEN Head1.rev ELSE @
                   [] Head1.type = "updated" -> IF @ = 0 THEN 0 ELSE Head1.rev
                   [] OTHER -> 0]
    BY DEF OnIssueEvent
  <1>2. /\ Head1 \in EventOK /\ sock.state = "open" /\ sock.ws = current /\ sock.ws # 0
        /\ sock' \in SockOK /\ queue' \in Seq(EventOK) /\ Len(queue') <= MaxQueue
        /\ SocketQuiet'
        /\ sock'.state # "none" => sock'.ws = current
    BY <1>1, Dropped
  <1> DEFINE v == CASE Head1.type = "created" -> IF list[Head1.issue] = 0 THEN Head1.rev ELSE list[Head1.issue]
                    [] Head1.type = "updated" -> IF list[Head1.issue] = 0 THEN 0 ELSE Head1.rev
                    [] OTHER -> 0
  <1>3. v \in 0..MaxRev
    <2>1. list[Head1.issue] \in 0..MaxRev /\ 0 \in 0..MaxRev
      BY <1>2, Facts, WebSyncAssumption DEF Typed, EventOK
    <2>2. Head1.type \in {"created", "updated"} => Head1.rev \in 0..MaxRev
      BY <1>2 DEF EventOK
    <2> QED BY <1>1, <2>1, <2>2
  <1>4. list' = [list EXCEPT ![Head1.issue] = v]
    BY <1>1
  <1> HIDE DEF v
  <1>5. list' \in [Issue -> 0..MaxRev]
    BY <1>3, <1>4, Facts DEF Typed
  <1>6. FirstLoad' /\ RowsBelong'
    BY <1>1, <1>2, Facts DEF FirstLoad, RowsBelong, identity
  <1>7. Typed'
    BY <1>1, <1>2, <1>5, Facts DEF Typed, identity, server
  <1>8. OneWorkspace'
    BY <1>1, <1>2, Facts DEF OneWorkspace, identity
  <1> QED BY <1>2, <1>6, <1>7, <1>8 DEF SyncInv

LEMMA OnPrefixEventKeeps == ASSUME SyncInv, OnPrefixEvent PROVE SyncInv'
  <1>1. /\ queue # <<>> /\ Drop1 /\ Head1.type \in {"roster", "workspace"}
        /\ timers' = IF Head1.self THEN timers ELSE timers \cup {Head1.type}
        /\ UNCHANGED <<identity, stores, sock, heard, call, server, left>>
    BY DEF OnPrefixEvent
  <1>2. call' \in [Slots -> CallOK] /\ RowsBelong' /\ FirstLoad'
    BY <1>1, SameCalls DEF stores, identity
  <1>3. timers' \in SUBSET {"roster", "workspace"}
    BY <1>1, Facts DEF Typed
  <1> QED BY <1>1, <1>2, <1>3, Dropped, Steady, Facts DEF Typed, stores, server

LEMMA OnMembershipEventKeeps == ASSUME SyncInv, OnMembershipEvent PROVE SyncInv'
  <1> DEFINE n == Lowest(FreeSlots)
             r == Request("workspaces", Preferred)
  <1>1. n \in Slots /\ call[n].kind = "idle"
    BY FreeSlot DEF OnMembershipEvent
  <1>2. r \in CallOK /\ r.kind = "workspaces"
    <2>1. Preferred \in Workspace \cup {0}
      BY Facts DEF Preferred, Typed
    <2> QED BY <2>1, RequestOK DEF Kind
  <1>3. /\ queue # <<>> /\ Drop1 /\ timers' = timers \cup {"roster"}
        /\ call' = [call EXCEPT ![n] = r]
        /\ UNCHANGED <<identity, stores, sock, heard, server, left>>
    BY DEF OnMembershipEvent
  <1> HIDE DEF n, r
  <1>4. call' \in [Slots -> CallOK] /\ RowsBelong' /\ FirstLoad'
    BY <1>1, <1>2, <1>3, OtherCall DEF stores, identity
  <1>5. timers' \in SUBSET {"roster", "workspace"}
    BY <1>3, Facts DEF Typed
  <1> QED BY <1>3, <1>4, <1>5, Dropped, Steady, Facts DEF Typed, stores, server

LEMMA TimerFiresKeeps == ASSUME SyncInv, NEW p \in timers, TimerFires(p) PROVE SyncInv'
  <1> DEFINE n == Lowest(FreeSlots)
             r == Request(IF p = "roster" THEN "roster" ELSE "light", current)
  <1>1. n \in Slots /\ call[n].kind = "idle"
    BY FreeSlot DEF TimerFires
  <1>2. r \in CallOK /\ r.kind # "issues"
    <2>1. (IF p = "roster" THEN "roster" ELSE "light") \in Kind \ {"issues"}
      BY DEF Kind
    <2> QED BY <2>1, RequestOK, Facts DEF Typed
  <1>3. /\ timers' = timers \ {p} /\ call' = [call EXCEPT ![n] = r]
        /\ UNCHANGED <<identity, stores, sock, queue, heard, server, left>>
    BY DEF TimerFires
  <1> HIDE DEF n, r
  <1>4. call' \in [Slots -> CallOK] /\ RowsBelong' /\ FirstLoad'
    BY <1>1, <1>2, <1>3, OtherCall DEF stores, identity
  <1>5. timers' \in SUBSET {"roster", "workspace"}
    BY <1>3, Facts DEF Typed
  <1> QED BY <1>3, <1>4, <1>5, SameSocket, Steady, Facts DEF Typed, stores, server

\* What an event does to the queue of the client, who may not be registered.
LEMMA Sent ==
    ASSUME SyncInv, UNCHANGED sock, NEW w \in Workspace, Room(w), NEW e \in EventOK,
           e.type = "created" => Home[e.issue] = w, Send(w, e)
    PROVE  /\ sock' \in SockOK /\ queue' \in Seq(EventOK) /\ Len(queue') <= MaxQueue
           /\ SocketQuiet'
           /\ sock'.state # "none" => sock'.ws = current
  <1>1. CASE sock.registered /\ sock.ws = w
    BY <1>1, Appended DEF Send, Room
  <1>2. CASE ~(sock.registered /\ sock.ws = w)
    BY <1>2, SameSocket DEF Send
  <1> QED BY <1>1, <1>2

LEMMA ServerChangesIssueKeeps ==
    ASSUME SyncInv, NEW i \in Issue, ServerChangesIssue(i) PROVE SyncInv'
  <1>1. PICK r \in {row[i] + 1, Gone} :
         /\ r = Gone => row[i] > 0
         /\ r <= MaxRev \/ r = Gone
         /\ row' = [row EXCEPT ![i] = r]
         /\ Send(Home[i], Event(IF r = Gone THEN "deleted"
                                ELSE IF r = 1 THEN "created" ELSE "updated", i, r, FALSE))
    BY DEF ServerChangesIssue
  <1>2. /\ Spend /\ Room(Home[i]) /\ UNCHANGED <<identity, stores, sock, timers, heard, call, member>>
    BY DEF ServerChangesIssue
  <1>3. /\ r \in 0..Gone /\ (r # Gone => r \in 0..MaxRev)
    <2>1. row[i] \in 0..Gone
      BY Facts DEF Typed
    <2> QED BY <1>1, <2>1, WebSyncAssumption DEF Gone
  <1> DEFINE e == Event(IF r = Gone THEN "deleted"
                        ELSE IF r = 1 THEN "created" ELSE "updated", i, r, FALSE)
  <1>4. e \in EventOK /\ e.issue = i
    BY <1>3 DEF Event, EventOK
  <1>5. Home[i] \in Workspace
    BY WebSyncAssumption
  <1>6. Send(Home[i], e)
    BY <1>1
  <1> HIDE DEF e
  <1>7. /\ sock' \in SockOK /\ queue' \in Seq(EventOK) /\ Len(queue') <= MaxQueue
        /\ SocketQuiet'
        /\ sock'.state # "none" => sock'.ws = current
    BY <1>2, <1>4, <1>5, <1>6, Sent
  <1>8. call' \in [Slots -> CallOK] /\ RowsBelong' /\ FirstLoad'
    BY <1>2, SameCalls DEF stores, identity
  <1>9. row' \in [Issue -> 0..Gone]
    BY <1>1, <1>3, Facts DEF Typed
  <1>10. Typed'
    BY <1>2, <1>7, <1>8, <1>9, SpendOK, Facts DEF Typed, identity, stores
  <1>11. OneWorkspace'
    BY <1>2, <1>7, Facts DEF OneWorkspace, identity
  <1> QED BY <1>7, <1>8, <1>10, <1>11 DEF SyncInv

\* An event that names no issue carries one all the same.
LEMMA NoIssueEvent ==
    ASSUME NEW t \in {"roster", "workspace", "membership"}, NEW self \in BOOLEAN
    PROVE  LET e == Event(t, CHOOSE i \in Issue : TRUE, 0, self)
           IN  e \in EventOK /\ e.type = t
  <1>1. (CHOOSE i \in Issue : TRUE) \in Issue
    BY WebSyncAssumption
  <1>2. 0 \in 0..Gone
    BY WebSyncAssumption DEF Gone
  <1> QED BY <1>1, <1>2 DEF Event, EventOK

LEMMA ServerChangesPrefixKeeps ==
    ASSUME SyncInv, NEW w \in Workspace, ServerChangesPrefix(w) PROVE SyncInv'
  <1>1. PICK p \in {"roster", "workspace"}, self \in BOOLEAN :
            Send(w, Event(p, CHOOSE i \in Issue : TRUE, 0, self))
    BY DEF ServerChangesPrefix
  <1>2. /\ Spend /\ Len(queue) < MaxQueue
        /\ UNCHANGED <<identity, stores, sock, timers, heard, call, server>>
    BY DEF ServerChangesPrefix
  <1> DEFINE e == Event(p, CHOOSE i \in Issue : TRUE, 0, self)
  <1>3. e \in EventOK /\ e.type = p
    BY NoIssueEvent
  <1>4. Send(w, e) /\ Room(w)
    BY <1>1, <1>2 DEF Room
  <1> HIDE DEF e
  <1>5. /\ sock' \in SockOK /\ queue' \in Seq(EventOK) /\ Len(queue') <= MaxQueue
        /\ SocketQuiet'
        /\ sock'.state # "none" => sock'.ws = current
    BY <1>2, <1>3, <1>4, Sent
  <1>6. call' \in [Slots -> CallOK] /\ RowsBelong' /\ FirstLoad'
    BY <1>2, SameCalls DEF stores, identity
  <1> QED BY <1>2, <1>5, <1>6, SpendOK, Steady, Facts DEF Typed, stores, server

LEMMA ServerChangesMembershipKeeps ==
    ASSUME SyncInv, NEW w \in Workspace, ServerChangesMembership(w) PROVE SyncInv'
  <1> DEFINE e == Event("membership", CHOOSE i \in Issue : TRUE, 0, FALSE)
  <1>1. e \in EventOK /\ e.type = "membership"
    BY NoIssueEvent
  <1>2. /\ Spend /\ (~sock.registered \/ Len(queue) < MaxQueue)
        /\ queue' = IF sock.registered /\ (w \notin member \/ sock.ws = w)
                      THEN Append(queue, e) ELSE queue
        /\ UNCHANGED <<identity, stores, sock, timers, heard, call, row>>
    BY DEF ServerChangesMembership
  <1>3. member' \in SUBSET Workspace
    BY Facts DEF ServerChangesMembership, Typed
  <1> HIDE DEF e
  <1>4. /\ sock' \in SockOK /\ queue' \in Seq(EventOK) /\ Len(queue') <= MaxQueue
        /\ SocketQuiet'
        /\ sock'.state # "none" => sock'.ws = current
    <2>1. CASE queue' = Append(queue, e) /\ sock.registered /\ Len(queue) < MaxQueue
      BY <1>1, <1>2, <2>1, Appended
    <2>2. CASE queue' = queue
      BY <1>2, <2>2, SameSocket
    <2> QED BY <1>2, <2>1, <2>2
  <1>5. call' \in [Slots -> CallOK] /\ RowsBelong' /\ FirstLoad'
    BY <1>2, SameCalls DEF stores, identity
  <1> QED BY <1>2, <1>3, <1>4, <1>5, SpendOK, Steady, Facts DEF Typed, stores

-----------------------------------------------------------------------------
(* The invariant and the theorems.                                         *)

LEMMA InitOK == ASSUME SyncInit PROVE SyncInv
  <1>1. PICK token \in BOOLEAN, stored \in Workspace \cup {0} :
         /\ session = [user |-> FALSE, token |-> token, booting |-> token]
         /\ storedWs = stored
         /\ call = [n \in Slots |-> IF n = 1 /\ token THEN Request("boot", stored) ELSE Idle]
    BY DEF SyncInit
  <1>2. /\ apiWs = 0 /\ current = 0 /\ known = {}
        /\ list = Empty /\ loading = TRUE /\ roster = 0
        /\ sock = NoSock /\ queue = <<>> /\ timers = {} /\ heard = FALSE
        /\ row = Empty /\ member \in SUBSET Workspace /\ left = MaxSteps
    BY DEF SyncInit
  <1>3. call \in [Slots -> CallOK] /\ \A n \in Slots : call[n].kind # "issues"
    <2>1. Request("boot", stored) \in CallOK /\ Request("boot", stored).kind = "boot"
      BY RequestOK DEF Kind
    <2> QED BY <1>1, <2>1, IdleOK
  <1>4. /\ 1 .. Len(<<>>) = {} /\ <<>> \in Seq(EventOK) /\ Len(<<>>) <= MaxQueue
        /\ MaxSteps \in 0..MaxSteps
    BY WebSyncAssumption
  <1>5. session \in SessionOK
    BY <1>1 DEF SessionOK
  <1>6. Typed
    BY <1>1, <1>2, <1>3, <1>4, <1>5, NoSockOK, EmptyOK DEF Typed
  <1>7. OneWorkspace /\ SocketQuiet /\ FirstLoad
    BY <1>2, <1>4, NoSockOK DEF OneWorkspace, SocketQuiet, FirstLoad
  <1>8. RowsBelong
    BY <1>3 DEF RowsBelong
  <1> QED BY <1>6, <1>7, <1>8 DEF SyncInv

LEMMA StepKeeps == ASSUME SyncInv, [SyncNext]_syncVars PROVE SyncInv'
  <1>1. CASE UNCHANGED syncVars
    <2>1. call' \in [Slots -> CallOK] /\ RowsBelong' /\ FirstLoad'
      BY <1>1, SameCalls DEF syncVars, identity, stores
    <2> QED BY <1>1, <2>1, SameSocket, Steady, Facts
        DEF syncVars, stores, socket, server, Typed
  <1>2. CASE Reload \/ Login \/ Logout \/ Navigate
    BY <1>2, ReloadKeeps, LoginKeeps, LogoutKeeps, NavigateKeeps
  <1>3. CASE \E w \in Workspace :
                 \/ SwitchWorkspace(w) \/ Leave(w)
                 \/ ServerChangesPrefix(w) \/ ServerChangesMembership(w)
    BY <1>3, SwitchWorkspaceKeeps, LeaveKeeps, ServerChangesPrefixKeeps,
       ServerChangesMembershipKeeps
  <1>4. CASE \E n \in Slots :
                 \/ InitializerDone(n) \/ InitializerFailed(n) \/ Unauthorized(n)
                 \/ WorkspacesArrive(n) \/ LeaveDone(n) \/ Failed(n)
                 \/ IssuesArrive(n) \/ IssuesFailed(n) \/ RosterArrives(n)
                 \/ WorkspaceUpdated(n) \/ Answer(n)
    BY <1>4, InitializerDoneKeeps, InitializerFailedKeeps, UnauthorizedKeeps,
       WorkspacesArriveKeeps, LeaveDoneKeeps, FailedKeeps, IssuesArriveKeeps,
       IssuesFailedKeeps, RosterArrivesKeeps, WorkspaceUpdatedKeeps, AnswerKeeps
  <1>5. CASE \/ SockOpens \/ SockCloses \/ SockRetries \/ Register
             \/ OnIssueEvent \/ OnPrefixEvent \/ OnMembershipEvent
    BY <1>5, SockOpensKeeps, SockClosesKeeps, SockRetriesKeeps, RegisterKeeps,
       OnIssueEventKeeps, OnPrefixEventKeeps, OnMembershipEventKeeps
  <1>6. CASE \/ \E p \in timers : TimerFires(p)
             \/ \E i \in Issue : ServerChangesIssue(i)
    BY <1>6, TimerFiresKeeps, ServerChangesIssueKeeps
  <1> QED BY <1>1, <1>2, <1>3, <1>4, <1>5, <1>6 DEF SyncNext

LEMMA SyncInvariant == SyncSpec => []SyncInv
  BY InitOK, StepKeeps, PTL DEF SyncSpec

\* The types of the client's stores, requests and sockets are right for every
\* number of workspaces, issues, requests and events.
THEOREM SyncTypeCorrect == SyncSpec => []SyncTypeOK
  <1>1. SyncInv => SyncTypeOK
    <2> SUFFICES ASSUME SyncInv PROVE SyncTypeOK
      OBVIOUS
    <2>1. \A n \in Slots : call[n] \in CallOK
      BY Facts
    <2> QED BY <2>1, Facts DEF SyncTypeOK, Typed, SessionOK, SockOK, CallOK
  <1> QED BY <1>1, SyncInvariant, PTL

\* The API client, the screen, localStorage and the socket name one workspace,
\* however the answers of hydrateWorkspace and the clicks interleave.
THEOREM ClientHasOneWorkspace == SyncSpec => []OneWorkspace
  <1>1. SyncInv => OneWorkspace
    BY DEF SyncInv
  <1> QED BY <1>1, SyncInvariant, PTL

\* The skeleton of the issue pages never stays up without a fetch under way
\* that takes it down (fetch captures isInitialLoad before it asks).
THEOREM SkeletonHasAFetch == SyncSpec => []LoadingEnds
  <1>1. SyncInv => LoadingEnds
    BY DEF SyncInv, FirstLoad, LoadingEnds
  <1> QED BY <1>1, SyncInvariant, PTL

\* A step that does not touch the list brings no foreign issue to a workspace
\* that stays, or was left for none.
LEMMA NoneComes ==
    ASSUME UNCHANGED <<list, current>>
    PROVE  Foreign' \ Foreign = {}
  BY DEF Foreign

\* Issues of another workspace reach the list by a late answer or a rehydration
\* only: not by an event (the socket is of the workspace on the screen) and not
\* by a switch (switchWorkspace clears the stores).
THEOREM ForeignIssuesComeLate == SyncSpec => ForeignOnlyLate
  <1> DEFINE Arrives == Foreign' \ Foreign # {} /\ current' # 0
  <1>1. ASSUME SyncInv, [SyncNext]_syncVars, Arrives
        PROVE  LateAnswer \/ Rehydrated
    <2>1. ~UNCHANGED <<list, current>>
      BY <1>1, NoneComes
    <2>2. ASSUME list' = Empty PROVE FALSE
      <3>1. Foreign' = {}
        BY <2>2 DEF Foreign, Empty
      <3> QED BY <1>1, <3>1
    <2>3. CASE \E n \in Slots : IssuesArrive(n)
      <3>1. PICK n \in Slots : IssuesArrive(n)
        BY <2>3
      <3>2. /\ call[n].kind = "issues" /\ call[n].status = "ok" /\ list' = call[n].rows
            /\ current' = current
        BY <3>1 DEF IssuesArrive, identity
      <3>3. call'[n].kind # "issues"
        BY <1>1, <3>1, <3>2, AfterFetch DEF IssuesArrive
      <3>4. call[n].ws # current
        BY <1>1, <3>2, Facts DEF Foreign, RowsBelong
      <3> QED BY <3>2, <3>3, <3>4 DEF LateAnswer
    <2>4. CASE OnIssueEvent
      <3>1. /\ queue # <<>> /\ Drop1 /\ UNCHANGED sock /\ current' = current
            /\ Head1.type \in {"created", "updated", "deleted"}
            /\ list' = [list EXCEPT ![Head1.issue] =
                 CASE Head1.type = "created" -> IF @ = 0 THEN Head1.rev ELSE @
                   [] Head1.type = "updated" -> IF @ = 0 THEN 0 ELSE Head1.rev
                   [] OTHER -> 0]
        BY <2>4 DEF OnIssueEvent, identity
      <3>2. Head1.type = "created" => Home[Head1.issue] = current
        BY <1>1, <3>1, Dropped
      <3>3. \A i \in Issue : list'[i] # 0 => list[i] # 0 \/ Home[i] = current
        BY <1>1, <3>1, <3>2, Facts DEF Typed
      <3> QED BY <1>1, <3>1, <3>3 DEF Foreign
    <2>5. CASE \E n \in Slots : InitializerDone(n) \/ WorkspacesArrive(n)
      <3>1. PICK n \in Slots : InitializerDone(n) \/ WorkspacesArrive(n)
        BY <2>5
      <3>2. /\ call[n].kind \in {"workspaces", "login", "boot"} /\ call[n].status = "ok"
            /\ \/ call' = [call EXCEPT ![n] = Idle]
               \/ \E ws : call' = [call EXCEPT ![n] = IssueRequest(ws, list, TRUE)]
        BY <3>1 DEF InitializerDone, WorkspacesArrive, Hydrate
      <3>3. IssueRequest(0, list, TRUE).status = "sent" /\ Idle.status = "idle"
            /\ \A ws : IssueRequest(ws, list, TRUE).status = "sent"
        BY DEF IssueRequest, Request, Idle
      <3>4. call'[n] # call[n]
        BY <1>1, <3>2, <3>3, Facts DEF Typed
      <3> QED BY <3>2, <3>4 DEF Rehydrated
    <2>6. CASE Reload \/ \E w \in Workspace : SwitchWorkspace(w)
      BY <2>2, <2>6 DEF Reload, Booting, SwitchWorkspace
    <2>7. CASE \E n \in Slots : Unauthorized(n)
      BY <2>1, <2>2, <2>7 DEF Unauthorized, Booting, stores
    <2>8. CASE Logout
      BY <1>1, <2>8 DEF Logout, Identify
    <2>9. CASE \/ Login \/ Navigate
               \/ \E w \in Workspace : Leave(w) \/ ServerChangesPrefix(w)
                                       \/ ServerChangesMembership(w)
      BY <2>1, <2>9 DEF Login, Navigate, Leave, ServerChangesPrefix,
         ServerChangesMembership, stores, identity
    <2>10. CASE \E n \in Slots :
                  \/ InitializerFailed(n) \/ LeaveDone(n) \/ Failed(n)
                  \/ IssuesFailed(n) \/ RosterArrives(n) \/ WorkspaceUpdated(n) \/ Answer(n)
      BY <2>1, <2>10 DEF InitializerFailed, LeaveDone, Failed, IssuesFailed,
         RosterArrives, WorkspaceUpdated, Answer, stores, identity
    <2>11. CASE \/ SockOpens \/ SockCloses \/ SockRetries \/ Register
                \/ OnPrefixEvent \/ OnMembershipEvent
                \/ \E p \in timers : TimerFires(p)
                \/ \E i \in Issue : ServerChangesIssue(i)
      BY <2>1, <2>11 DEF SockOpens, SockCloses, SockRetries, Register, OnPrefixEvent,
         OnMembershipEvent, TimerFires, ServerChangesIssue, stores, identity
    <2>12. CASE UNCHANGED syncVars
      BY <2>1, <2>12 DEF syncVars, identity, stores
    <2> QED BY <1>1, <2>3, <2>4, <2>5, <2>6, <2>7, <2>8, <2>9, <2>10, <2>11, <2>12
        DEF SyncNext
  <1>2. ASSUME SyncInv, [SyncNext]_syncVars
        PROVE  [Arrives => LateAnswer \/ Rehydrated]_syncVars
    BY <1>1, <1>2
  <1> QED BY <1>2, SyncInvariant, PTL DEF SyncSpec, ForeignOnlyLate
=============================================================================
