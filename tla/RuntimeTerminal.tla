--------------------------- MODULE RuntimeTerminal --------------------------
(***************************************************************************)
(* The admin's terminal in the detail of a runtime (src/apps/web/features/ *)
(* runtimes/components/runtime-ssh-terminal.tsx, ../ssh.ts): a session the *)
(* server keeps, a WebSocket that attaches to it, and the id of the session*)
(* in localStorage, by which the terminal is restored.  The user is a      *)
(* super admin and stays logged in.                                        *)
(***************************************************************************)
EXTENDS Integers, FiniteSets

CONSTANTS
    Session,   \* sessions the server may create: 1..k, in this order
    Slots,     \* bound: requests in flight
    MaxSteps   \* bound: clicks, background changes and failures, together

VARIABLES
    term,   \* the terminal: ready or not, full screen, a fit is scheduled
    view,   \* connectionState, restoring, session (0: null) and its can_reconnect
    stored, \* localStorage: the id of the session, or 0
    sock,   \* socketRef: the session and the phase of the socket, or none
    adrift, \* sockets that no socketRef holds
    call,   \* requests in flight
    rt,     \* the runtime: its status and its metadata
    ses,    \* server: the sessions
    left    \* what is left of MaxSteps

vars == <<term, view, stored, sock, adrift, call, rt, ses, left>>

NoSock == [id |-> 0, phase |-> "none"]
Idle == [kind |-> "idle", status |-> "idle", id |-> 0, as |-> "none", old |-> FALSE]
Request(kind, s) == [Idle EXCEPT !.kind = kind, !.status = "sent", !.id = s]
Send(n, r) == /\ call[n].kind = "idle" /\ \A m \in Slots : m < n => call[m].kind # "idle"
              /\ call' = [call EXCEPT ![n] = r]
Spend == left > 0 /\ left' = left - 1
Ended(n, kind) == call[n].kind = kind /\ call[n].status \in {"ok", "error"}
Freed(n) == call' = [call EXCEPT ![n] = Idle]

Running(s) == ses[s] = "connected"
Over(s)    == ses[s] \in {"closed", "expired", "exited"}
Open       == sock.phase = "open"

\* readRuntimeSSHConfig: enabled, with a host and a user; any port will do.
Configured == rt.meta = "complete"
SshReason  == CASE rt.meta = "disabled"   -> "not enabled"
                [] rt.meta = "incomplete" -> "incomplete"
                [] rt.meta = "complete"   -> ""

\* The buttons of the toolbar.
ConnectOffered ==
    /\ ~(view.state = "disconnected" /\ view.session # 0)
    /\ ~view.restoring /\ term.ready /\ SshReason = "" /\ rt.online
    /\ view.state \notin {"connecting", "connected"}
ReconnectOffered == view.state = "disconnected" /\ view.session # 0
CloseOffered     == view.session # 0 /\ view.state # "connecting"

\* connectSocket: the socket before is closed first, and its close is not heard.
Attach(s) == sock' = [id |-> s, phase |-> "opening"]

-----------------------------------------------------------------------------
(* The terminal and its user.                                              *)

\* setup, then the effect that restores the session whose id was kept.
TerminalReady(n) ==
    /\ ~term.ready /\ term' = [term EXCEPT !.ready = TRUE, !.fit = TRUE]
    /\ IF stored = 0 THEN /\ view' = [view EXCEPT !.session = 0, !.state = "idle"]
                          /\ UNCHANGED call
       ELSE /\ view' = [view EXCEPT !.restoring = TRUE]
            /\ Send(n, Request("restore", stored))
    /\ UNCHANGED <<stored, sock, adrift, rt, ses, left>>

\* scheduleTerminalFit, 60 ms later: the size is sent if the socket is open.
FitTimer ==
    /\ term.fit /\ term' = [term EXCEPT !.fit = FALSE]
    /\ UNCHANGED <<view, stored, sock, adrift, call, rt, ses, left>>

\* The buttons, and Escape, which only ends it.
Fullscreen(on) ==
    /\ term.full # on /\ Spend
    /\ term' = [term EXCEPT !.full = on, !.fit = term.ready]
    /\ UNCHANGED <<view, stored, sock, adrift, call, rt, ses>>

\* handleConnect.
Connect(n) ==
    /\ ConnectOffered /\ Spend
    /\ view' = [view EXCEPT !.state = "connecting"]
    /\ Send(n, Request("connect", 0))
    /\ UNCHANGED <<term, stored, sock, adrift, rt, ses>>

\* handleReconnect.
Reconnect(n) ==
    /\ ReconnectOffered /\ Spend
    /\ view' = [view EXCEPT !.state = "connecting"]
    /\ Send(n, Request("reconnect", view.session))
    /\ UNCHANGED <<term, stored, sock, adrift, rt, ses>>

\* handleClose, with a session: nothing says that it is under way.
Close(n) ==
    /\ CloseOffered /\ Spend /\ Send(n, Request("close", view.session))
    /\ UNCHANGED <<term, view, stored, sock, adrift, rt, ses>>

Fresh == [state |-> "idle", restoring |-> FALSE, session |-> 0, can |-> FALSE]

\* Another runtime or page, and back: the cleanups close the socket; answers to the
\* requests of before still run their handlers.
Remount ==
    /\ Spend
    /\ term' = [ready |-> FALSE, full |-> FALSE, fit |-> FALSE]
    /\ view' = Fresh /\ sock' = NoSock
    /\ call' = [n \in Slots |-> [call[n] EXCEPT !.old = call[n].kind # "idle"]]
    /\ UNCHANGED <<stored, adrift, rt, ses>>

-----------------------------------------------------------------------------
(* The server.                                                             *)

Answer(n) ==
    LET r == call[n]
        with(s) == [call EXCEPT ![n].status = "ok", ![n].id = s, ![n].as = ses'[s]]
    IN
    /\ r.status = "sent"
    /\ \/ /\ r.kind = "connect" /\ rt.online /\ Configured
          /\ IF \E s \in Session : Running(s)
             THEN /\ UNCHANGED ses
                  /\ call' = with(CHOOSE s \in Session : Running(s))
             ELSE \E s \in Session :
                    /\ ses[s] = "none" /\ \A t \in Session : t < s => ses[t] # "none"
                    /\ ses' = [ses EXCEPT ![s] = "connected"] /\ call' = with(s)
          /\ UNCHANGED left
       \/ /\ r.kind \in {"restore", "reconnect"} /\ ses[r.id] # "deleted"
          /\ UNCHANGED <<ses, left>> /\ call' = with(r.id)
       \/ /\ r.kind = "close" /\ ses[r.id] # "deleted"
          /\ ses' = [ses EXCEPT ![r.id] = IF @ = "connected" THEN "closed" ELSE @]
          /\ call' = with(r.id) /\ UNCHANGED left
       \/ /\ IF r.kind # "connect" /\ ses[r.id] = "deleted" THEN UNCHANGED left ELSE Spend
          /\ call' = [call EXCEPT ![n].status = "error"] /\ UNCHANGED ses
    /\ UNCHANGED <<term, view, stored, sock, adrift, rt>>

Attached(s) == (sock.id = s /\ Open) \/ s \in adrift

\* The shell ends; a session nobody is attached to expires; one that is over is
\* forgotten; the runtime goes offline or its metadata change.
SessionStep(s, to) ==
    /\ \/ to = "exited" /\ Running(s)
       \/ to = "expired" /\ Running(s) /\ ~Attached(s)
       \/ to = "deleted" /\ Over(s)
    /\ Spend /\ ses' = [ses EXCEPT ![s] = to]
    /\ UNCHANGED <<term, view, stored, sock, adrift, call, rt>>

RuntimeChanges(r) ==
    /\ rt # r /\ Spend /\ rt' = r
    /\ UNCHANGED <<term, view, stored, sock, adrift, call, ses>>

-----------------------------------------------------------------------------
(* The socket.                                                             *)

SockOpens ==
    /\ sock.phase = "opening" /\ ses[sock.id] # "deleted"
    /\ sock' = [sock EXCEPT !.phase = "open"]
    /\ view' = [view EXCEPT !.state = "connected"] /\ term' = [term EXCEPT !.fit = TRUE]
    /\ UNCHANGED <<stored, adrift, call, rt, ses, left>>

\* Mutation: a close is heard only of a socket that was open.
SockClosesOpened ==
    /\ sock.phase # "none"
    /\ IF sock.phase = "opening" /\ ses[sock.id] = "deleted" THEN UNCHANGED left ELSE Spend
    /\ sock' = NoSock
    /\ view' = [view EXCEPT !.state =
                  IF @ \in {"closed", "exited"} \/ ~Open THEN @
                  ELSE IF view.can THEN "disconnected" ELSE "idle"]
    /\ UNCHANGED <<term, stored, adrift, call, rt, ses>>

\* onclose: the connection is lost, or was refused.
SockCloses ==
    /\ sock.phase # "none"
    /\ IF sock.phase = "opening" /\ ses[sock.id] = "deleted" THEN UNCHANGED left ELSE Spend
    /\ sock' = NoSock
    /\ view' = [view EXCEPT !.state =
                  IF @ \in {"closed", "exited"} THEN @
                  ELSE IF view.can THEN "disconnected" ELSE "idle"]
    /\ UNCHANGED <<term, stored, adrift, call, rt, ses>>

\* onmessage "exit", also of a session that was over when the socket attached;
\* the word "closed" in the reason decides, so an expired one is called exited.
ExitArrives ==
    /\ Open /\ Over(sock.id)
    /\ view' = [view EXCEPT !.state = IF ses[sock.id] = "closed" THEN "closed" ELSE "exited",
                            !.can = FALSE]
    /\ stored' = 0 /\ sock' = NoSock
    /\ UNCHANGED <<term, adrift, call, rt, ses, left>>

-----------------------------------------------------------------------------
(* Answers.                                                                *)

\* Cancelled with the mounting; a session that cannot be reconnected is only shown.
Restored(n) ==
    /\ Ended(n, "restore") /\ Freed(n)
    /\ LET r == call[n]  can == r.as = "connected" IN
         IF r.old THEN UNCHANGED <<view, stored, sock>>
         ELSE IF r.status = "error"
         THEN view' = Fresh /\ stored' = 0 /\ UNCHANGED sock
         ELSE /\ view' = [state |-> IF can THEN "connecting"
                                    ELSE IF r.as = "exited" THEN "exited" ELSE "closed",
                          restoring |-> FALSE, session |-> r.id, can |-> can]
              /\ IF can THEN Attach(r.id) /\ UNCHANGED stored
                        ELSE stored' = 0 /\ UNCHANGED sock
    /\ UNCHANGED <<term, adrift, rt, ses, left>>

\* handleConnect and handleReconnect after the await: connectToSession, be the
\* terminal still there or not, whatever was done meanwhile, and, on a reconnect,
\* whatever became of the session.
Connected(n) ==
    /\ Ended(n, "connect") \/ Ended(n, "reconnect")
    /\ Freed(n)
    /\ LET r == call[n] IN
         IF r.status = "ok"
         THEN /\ stored' = r.id
              /\ IF r.old
                 THEN adrift' = adrift \cup {r.id} /\ UNCHANGED <<view, sock>>
                 ELSE /\ view' = [view EXCEPT !.session = r.id, !.can = r.as = "connected"]
                      /\ Attach(r.id) /\ UNCHANGED adrift
         ELSE /\ view' = (IF r.old THEN view ELSE [view EXCEPT !.state = "idle"])
              /\ stored' = (IF r.kind = "reconnect" THEN 0 ELSE stored)
              /\ UNCHANGED <<sock, adrift>>
    /\ UNCHANGED <<term, rt, ses, left>>

\* handleClose after the await: it disconnects the socket that is there now.
Closed(n) ==
    /\ Ended(n, "close") /\ Freed(n)
    /\ IF call[n].status = "error" THEN UNCHANGED <<view, stored, sock>>
       ELSE /\ stored' = 0
            /\ IF call[n].old THEN UNCHANGED <<view, sock>>
               ELSE /\ view' = [view EXCEPT !.session = call[n].id, !.can = FALSE,
                                            !.state = "closed"]
                    /\ sock' = NoSock
    /\ UNCHANGED <<term, adrift, rt, ses, left>>

-----------------------------------------------------------------------------
Meta == {"disabled", "incomplete", "complete"}

Init ==
    /\ term = [ready |-> FALSE, full |-> FALSE, fit |-> FALSE]
    /\ view = Fresh /\ sock = NoSock /\ adrift = {}
    /\ \E s \in {0, 1} :      \* nothing kept, or a session of an earlier visit
         /\ stored = s
         /\ ses = [t \in Session |-> IF t = s THEN "connected" ELSE "none"]
    /\ call = [n \in Slots |-> Idle]
    /\ rt = [online |-> TRUE, meta |-> "complete"]
    /\ left = MaxSteps

Next ==
    \/ \E on \in BOOLEAN : Fullscreen(on)
    \/ \E b \in BOOLEAN, m \in Meta : RuntimeChanges([online |-> b, meta |-> m])
    \/ \E s \in Session, to \in {"exited", "expired", "deleted"} : SessionStep(s, to)
    \/ FitTimer \/ Remount \/ SockOpens \/ SockCloses \/ ExitArrives
    \/ \E n \in Slots :
         TerminalReady(n) \/ Connect(n) \/ Reconnect(n) \/ Close(n) \/ Answer(n)
           \/ Restored(n) \/ Connected(n) \/ Closed(n)

Spec == Init /\ [][Next]_vars

-----------------------------------------------------------------------------
\* "Live" is shown only while there is a socket, "Connecting" only while a request or a
\* socket that has not opened yet will end it, "Restoring" only while a session is asked
\* for: nothing else enables the button again.
ConnectionShown ==
    /\ view.state = "connected" => sock # NoSock
    /\ view.state = "connecting" =>
         \/ sock.phase = "opening"
         \/ \E n \in Slots : ~call[n].old /\ call[n].kind \in {"connect", "reconnect"}
    /\ view.restoring => \E n \in Slots : ~call[n].old /\ call[n].kind = "restore"
=============================================================================
