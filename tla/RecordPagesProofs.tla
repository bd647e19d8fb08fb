------------------------- MODULE RecordPagesProofs -------------------------
(***************************************************************************)
(* What the pages that know the server's rows by their ids keep true, for  *)
(* any agents, runtimes, sessions and tasks and any bounds on requests,    *)
(* events and clicks.  Each page has an invariant of its own, which begins *)
(* with the shapes of its records: that is all the typing the arguments    *)
(* need.  The last lemma of a page is what WebPagesProofs takes from it.   *)
(***************************************************************************)
EXTENDS RecordPages, Sequences, SequenceTheorems, TLAPS

-----------------------------------------------------------------------------
(* The terminal of a runtime.                                              *)

TSlots == Slots["terminal"]

\* The records of the terminal have the fields the page reads and changes.
TerminalShape ==
    /\ view = [state |-> view.state, restoring |-> view.restoring,
               session |-> view.session, can |-> view.can]
    /\ part2 = [id |-> part2.id, phase |-> part2.phase]
    /\ call = [n \in TSlots |-> call[n]]
    /\ \A n \in TSlots : call[n] = [kind |-> call[n].kind, status |-> call[n].status,
                                    id |-> call[n].id, as |-> call[n].as,
                                    old |-> call[n].old]

TerminalInv == TerminalShape /\ Terminal!ConnectionShown

\* The terminal starts disconnected and asks nothing.
LEMMA TerminalStarts == TerminalMounted => TerminalInv
  <1> SUFFICES ASSUME Terminal!Init PROVE TerminalInv  BY DEF TerminalMounted
  <1> USE DEF Terminal!Init, Terminal!Fresh, Terminal!NoSock, Terminal!Idle, TSlots
  <1>1. view = [state |-> view.state, restoring |-> view.restoring,
                session |-> view.session, can |-> view.can]
    OBVIOUS
  <1>2. part2 = [id |-> part2.id, phase |-> part2.phase]
    OBVIOUS
  <1>3. call = [n \in TSlots |-> call[n]]
    OBVIOUS
  <1>4. ASSUME NEW n \in TSlots
        PROVE  call[n] = [kind |-> call[n].kind, status |-> call[n].status,
                          id |-> call[n].id, as |-> call[n].as, old |-> call[n].old]
    OBVIOUS
  <1>5. Terminal!ConnectionShown
    BY DEF Terminal!ConnectionShown
  <1> QED  BY <1>1, <1>2, <1>3, <1>4, <1>5 DEF TerminalInv, TerminalShape

\* No step of the terminal changes the fields of its records.
LEMMA TerminalKeepsShape ==
  ASSUME TerminalShape, Terminal!Next
  PROVE  TerminalShape'
  <1> USE DEF TerminalShape, TSlots, Terminal!Send, Terminal!Request, Terminal!Idle,
              Terminal!Spend, Terminal!Freed
  <1>1. ASSUME NEW on \in BOOLEAN, Terminal!Fullscreen(on) PROVE TerminalShape'
    BY <1>1 DEF Terminal!Fullscreen
  <1>2. ASSUME NEW r, Terminal!RuntimeChanges(r) PROVE TerminalShape'
    BY <1>2 DEF Terminal!RuntimeChanges
  <1>3. ASSUME NEW s \in Session, NEW to, Terminal!SessionStep(s, to) PROVE TerminalShape'
    BY <1>3 DEF Terminal!SessionStep
  <1>4. CASE Terminal!FitTimer
    BY <1>4 DEF Terminal!FitTimer
  <1>5. CASE Terminal!Remount
    BY <1>5 DEF Terminal!Remount, Terminal!Fresh, Terminal!NoSock
  <1>6. CASE Terminal!SockOpens
    BY <1>6 DEF Terminal!SockOpens
  <1>7. CASE Terminal!SockCloses
    BY <1>7 DEF Terminal!SockCloses, Terminal!NoSock
  <1>8. CASE Terminal!ExitArrives
    BY <1>8 DEF Terminal!ExitArrives, Terminal!NoSock
  <1>9. ASSUME NEW n \in TSlots, Terminal!TerminalReady(n) PROVE TerminalShape'
    BY <1>9 DEF Terminal!TerminalReady
  <1>10. ASSUME NEW n \in TSlots, Terminal!Connect(n) PROVE TerminalShape'
    BY <1>10 DEF Terminal!Connect
  <1>11. ASSUME NEW n \in TSlots, Terminal!Reconnect(n) PROVE TerminalShape'
    BY <1>11 DEF Terminal!Reconnect
  <1>12. ASSUME NEW n \in TSlots, Terminal!Close(n) PROVE TerminalShape'
    BY <1>12 DEF Terminal!Close
  <1>13. ASSUME NEW n \in TSlots, Terminal!Answer(n) PROVE TerminalShape'
    BY <1>13 DEF Terminal!Answer
  <1>14. ASSUME NEW n \in TSlots, Terminal!Restored(n) PROVE TerminalShape'
    <2>1. view' = [state |-> view'.state, restoring |-> view'.restoring,
                   session |-> view'.session, can |-> view'.can]
      BY <1>14 DEF Terminal!Restored, Terminal!Attach, Terminal!Fresh
    <2>2. part2' = [id |-> part2'.id, phase |-> part2'.phase]
      BY <1>14 DEF Terminal!Restored, Terminal!Attach, Terminal!Fresh
    <2>3. call' = [call EXCEPT ![n] = Terminal!Idle]
      BY <1>14 DEF Terminal!Restored
    <2> QED  BY <2>1, <2>2, <2>3
  <1>15. ASSUME NEW n \in TSlots, Terminal!Connected(n) PROVE TerminalShape'
    <2>1. view' = [state |-> view'.state, restoring |-> view'.restoring,
                   session |-> view'.session, can |-> view'.can]
      BY <1>15 DEF Terminal!Connected, Terminal!Attach
    <2>2. part2' = [id |-> part2'.id, phase |-> part2'.phase]
      BY <1>15 DEF Terminal!Connected, Terminal!Attach
    <2>3. call' = [call EXCEPT ![n] = Terminal!Idle]
      BY <1>15 DEF Terminal!Connected
    <2> QED  BY <2>1, <2>2, <2>3
  <1>16. ASSUME NEW n \in TSlots, Terminal!Closed(n) PROVE TerminalShape'
    <2>1. view' = [state |-> view'.state, restoring |-> view'.restoring,
                   session |-> view'.session, can |-> view'.can]
      BY <1>16 DEF Terminal!Closed, Terminal!NoSock
    <2>2. part2' = [id |-> part2'.id, phase |-> part2'.phase]
      BY <1>16 DEF Terminal!Closed, Terminal!NoSock
    <2>3. call' = [call EXCEPT ![n] = Terminal!Idle]
      BY <1>16 DEF Terminal!Closed
    <2> QED  BY <2>1, <2>2, <2>3
  <1> QED
    BY <1>1, <1>2, <1>3, <1>4, <1>5, <1>6, <1>7, <1>8, <1>9, <1>10, <1>11, <1>12, <1>13,
       <1>14, <1>15, <1>16 DEF Terminal!Next

\* An answer of the server leaves what the request is, and whose.
LEMMA TerminalAnswers ==
  ASSUME TerminalShape, NEW n \in TSlots, Terminal!Answer(n), NEW m \in TSlots
  PROVE  call'[m].kind = call[m].kind /\ call'[m].old = call[m].old
  <1>1. \/ \E s : call' = [call EXCEPT ![n].status = "ok", ![n].id = s, ![n].as = row'[s]]
        \/ call' = [call EXCEPT ![n].status = "error"]
    BY DEF Terminal!Answer
  <1>2. call[n] = [kind |-> call[n].kind, status |-> call[n].status, id |-> call[n].id,
                   as |-> call[n].as, old |-> call[n].old]
    BY DEF TerminalShape
  <1>3. call = [k \in TSlots |-> call[k]]
    BY DEF TerminalShape
  <1>4. CASE \E s : call' = [call EXCEPT ![n].status = "ok", ![n].id = s, ![n].as = row'[s]]
    <2>1. PICK s : call' = [call EXCEPT ![n].status = "ok", ![n].id = s, ![n].as = row'[s]]
      BY <1>4
    <2>2. /\ m # n => call'[m] = call[m]
          /\ call'[n] = [call[n] EXCEPT !.status = "ok", !.id = s, !.as = row'[s]]
      BY <1>3, <2>1
    <2> QED  BY <1>2, <2>2
  <1>5. CASE call' = [call EXCEPT ![n].status = "error"]
    BY <1>2, <1>3, <1>5
  <1> QED  BY <1>1, <1>4, <1>5

\* What the toolbar shows is awaited: a state that disables the button is entered with a
\* request or a socket, and no step takes the last of them without leaving the state.
LEMMA TerminalKeepsShown ==
  ASSUME TerminalInv, Terminal!Next
  PROVE  Terminal!ConnectionShown'
  <1> USE DEF TerminalInv, TerminalShape, Terminal!ConnectionShown, TSlots, Terminal!Send,
              Terminal!Request, Terminal!Idle, Terminal!Freed
  <1>1. ASSUME NEW on \in BOOLEAN, Terminal!Fullscreen(on)
        PROVE  Terminal!ConnectionShown'
    BY <1>1 DEF Terminal!Fullscreen
  <1>2. ASSUME NEW r, Terminal!RuntimeChanges(r)
        PROVE  Terminal!ConnectionShown'
    BY <1>2 DEF Terminal!RuntimeChanges
  <1>3. ASSUME NEW s \in Session, NEW to, Terminal!SessionStep(s, to)
        PROVE  Terminal!ConnectionShown'
    BY <1>3 DEF Terminal!SessionStep
  <1>4. CASE Terminal!FitTimer
    BY <1>4 DEF Terminal!FitTimer
  <1>5. CASE Terminal!Remount
    BY <1>5 DEF Terminal!Remount, Terminal!Fresh, Terminal!NoSock
  <1>6. CASE Terminal!SockOpens
    BY <1>6 DEF Terminal!SockOpens, Terminal!NoSock
  <1>7. CASE Terminal!SockCloses
    BY <1>7 DEF Terminal!SockCloses, Terminal!NoSock
  <1>8. CASE Terminal!ExitArrives
    BY <1>8 DEF Terminal!ExitArrives, Terminal!NoSock
  <1>9. ASSUME NEW n \in TSlots, Terminal!TerminalReady(n)
        PROVE  Terminal!ConnectionShown'
    BY <1>9 DEF Terminal!TerminalReady
  <1>10. ASSUME NEW n \in TSlots, Terminal!Connect(n)
        PROVE  Terminal!ConnectionShown'
    BY <1>10 DEF Terminal!Connect
  <1>11. ASSUME NEW n \in TSlots, Terminal!Reconnect(n)
        PROVE  Terminal!ConnectionShown'
    BY <1>11 DEF Terminal!Reconnect
  <1>12. ASSUME NEW n \in TSlots, Terminal!Close(n)
        PROVE  Terminal!ConnectionShown'
    BY <1>12 DEF Terminal!Close
  <1>13. ASSUME NEW n \in TSlots, Terminal!Answer(n)
        PROVE  Terminal!ConnectionShown'
    <2>1. ASSUME NEW m \in TSlots
          PROVE  call'[m].kind = call[m].kind /\ call'[m].old = call[m].old
      BY <1>13, TerminalAnswers
    <2>2. view' = view /\ part2' = part2
      BY <1>13 DEF Terminal!Answer
    <2> QED  BY <2>1, <2>2
  <1>14. ASSUME NEW n \in TSlots, Terminal!Restored(n)
        PROVE  Terminal!ConnectionShown'
    <2>1. call[n].kind = "restore" /\ call' = [call EXCEPT ![n] = Terminal!Idle]
      BY <1>14 DEF Terminal!Restored, Terminal!Ended
    <2>2. CASE call[n].old
      <3>1. view' = view /\ part2' = part2
        BY <1>14, <2>2 DEF Terminal!Restored
      <3> QED  BY <2>1, <2>2, <3>1
    <2>3. CASE ~call[n].old /\ call[n].status = "error"
      <3>1. view' = Terminal!Fresh
        BY <1>14, <2>3 DEF Terminal!Restored
      <3> QED  BY <3>1 DEF Terminal!Fresh
    <2>4. CASE ~call[n].old /\ call[n].status # "error"
      <3>1. ~view'.restoring /\ view'.state # "connected"
        BY <1>14, <2>4 DEF Terminal!Restored
      <3>2. view'.state = "connecting" => part2'.phase = "opening"
        BY <1>14, <2>4 DEF Terminal!Restored, Terminal!Attach
      <3> QED  BY <3>1, <3>2
    <2> QED  BY <2>2, <2>3, <2>4
  <1>15. ASSUME NEW n \in TSlots, Terminal!Connected(n)
        PROVE  Terminal!ConnectionShown'
    <2>1. call[n].kind \in {"connect", "reconnect"} /\ call' = [call EXCEPT ![n] = Terminal!Idle]
      BY <1>15 DEF Terminal!Connected, Terminal!Ended
    <2>2. CASE call[n].old
      <3>1. view' = view /\ part2' = part2
        BY <1>15, <2>2 DEF Terminal!Connected
      <3> QED  BY <2>1, <2>2, <3>1
    <2>3. CASE ~call[n].old /\ call[n].status = "ok"
      <3>1. view'.restoring = view.restoring
        BY <1>15, <2>3 DEF Terminal!Connected
      <3>2. part2' = [id |-> call[n].id, phase |-> "opening"]
        BY <1>15, <2>3 DEF Terminal!Connected, Terminal!Attach
      <3>3. part2'.phase = "opening" /\ part2' # Terminal!NoSock
        BY <3>2 DEF Terminal!NoSock
      <3> QED  BY <2>1, <3>1, <3>3
    <2>4. CASE ~call[n].old /\ call[n].status # "ok"
      <3>1. view'.restoring = view.restoring /\ view'.state = "idle"
        BY <1>15, <2>4 DEF Terminal!Connected
      <3> QED  BY <2>1, <3>1
    <2> QED  BY <2>2, <2>3, <2>4
  <1>16. ASSUME NEW n \in TSlots, Terminal!Closed(n)
        PROVE  Terminal!ConnectionShown'
    BY <1>16 DEF Terminal!Closed, Terminal!NoSock, Terminal!Ended
  <1> QED
    BY <1>1, <1>2, <1>3, <1>4, <1>5, <1>6, <1>7, <1>8, <1>9, <1>10, <1>11, <1>12, <1>13, <1>14, <1>15, <1>16 DEF Terminal!Next

\* The terminal is mounted in its invariant, every step keeps it, and it says what the page
\* shows of the connection.
LEMMA TerminalSafe ==
  /\ TerminalMounted => TerminalInv
  /\ TerminalInv /\ Terminal!Next => TerminalInv'
  /\ TerminalInv /\ UNCHANGED pageVars => TerminalInv'
  /\ TerminalInv => Terminal!ConnectionShown
  <1>1. TerminalMounted => TerminalInv
    BY TerminalStarts
  <1>2. ASSUME TerminalInv, Terminal!Next PROVE TerminalInv'
    BY <1>2, TerminalKeepsShape, TerminalKeepsShown DEF TerminalInv
  <1>3. ASSUME TerminalInv, UNCHANGED pageVars PROVE TerminalInv'
    BY <1>3 DEF TerminalInv, TerminalShape, pageVars, Terminal!ConnectionShown, Terminal!NoSock
  <1>4. TerminalInv => Terminal!ConnectionShown
    BY DEF TerminalInv
  <1> QED  BY <1>1, <1>2, <1>3, <1>4

-----------------------------------------------------------------------------
(* The page of the runtimes: in view, which mounting of the detail; in     *)
(* part1 the sections, in part3 the intervals that are set.                *)

RSlots == Slots["runtimes"]

SectionShape ==
    /\ part1 = [k \in Runtimes!Kind |-> part1[k]]
    /\ \A k \in Runtimes!Kind :
         part1[k] = [status |-> part1[k].status, busy |-> part1[k].busy,
                     poll |-> part1[k].poll, latest |-> part1[k].latest,
                     clears |-> part1[k].clears]

JobCallShape ==
    /\ call = [n \in RSlots |-> call[n]]
    /\ \A n \in RSlots : call[n] = [kind |-> call[n].kind, status |-> call[n].status,
                                    rt |-> call[n].rt, inst |-> call[n].inst,
                                    job |-> call[n].job, rows |-> call[n].rows]

RuntimesInv == SectionShape /\ JobCallShape /\ Runtimes!BusyIsPolled

LEMMA RuntimesStarts == RuntimesMounted => RuntimesInv
  <1> SUFFICES ASSUME Runtimes!Init PROVE RuntimesInv  BY DEF RuntimesMounted
  <1> USE DEF Runtimes!Init, Runtimes!Shut, Runtimes!Request, Runtimes!Idle, RSlots
  <1>1. SectionShape
    BY DEF SectionShape
  <1>2. JobCallShape
    <2>1. call = [n \in RSlots |-> call[n]]
      OBVIOUS
    <2>2. ASSUME NEW n \in RSlots
          PROVE  call[n] = [kind |-> call[n].kind, status |-> call[n].status,
                            rt |-> call[n].rt, inst |-> call[n].inst,
                            job |-> call[n].job, rows |-> call[n].rows]
      OBVIOUS
    <2> QED  BY <2>1, <2>2 DEF JobCallShape
  <1>3. Runtimes!BusyIsPolled
    BY DEF Runtimes!BusyIsPolled
  <1> QED  BY <1>1, <1>2, <1>3 DEF RuntimesInv

\* What is rendered changes only through Show, which either keeps the detail or mounts
\* another one, whose sections are at rest.
LEMMA ShowKeepsPolled ==
  ASSUME Runtimes!BusyIsPolled, NEW p, Runtimes!Show(p),
         \A n \in RSlots : call[n].kind \in Runtimes!Kind => call'[n] = call[n]
  PROVE  Runtimes!BusyIsPolled'
  <1>1. CASE Runtimes!Selected(Runtimes!Settled(p)) = Runtimes!Selected(store)
    <2>1. Runtimes!Here' = Runtimes!Here
      BY <1>1 DEF Runtimes!Show, Runtimes!Here
    <2>2. UNCHANGED <<view, part1, part3>>
      BY <1>1 DEF Runtimes!Show
    <2> QED  BY <2>1, <2>2 DEF Runtimes!BusyIsPolled, RSlots
  <1>2. CASE Runtimes!Selected(Runtimes!Settled(p)) # Runtimes!Selected(store)
    <2>1. part1' = [k \in Runtimes!Kind |-> Runtimes!Shut]
      BY <1>2 DEF Runtimes!Show
    <2> QED  BY <2>1 DEF Runtimes!BusyIsPolled, Runtimes!Shut
  <1> QED  BY <1>1, <1>2

\* A step that leaves the requests to start a job, the intervals, the mounting and the
\* flags of the sections alone.
LEMMA SameIsPolled ==
  ASSUME Runtimes!BusyIsPolled, UNCHANGED <<store, view, part3>>,
         \A k \in Runtimes!Kind : part1'[k].busy = part1[k].busy /\ part1'[k].poll = part1[k].poll,
         \A n \in RSlots : call[n].kind \in Runtimes!Kind =>
           call'[n].kind = call[n].kind /\ call'[n].inst = call[n].inst
  PROVE  Runtimes!BusyIsPolled'
  <1>1. Runtimes!Here' = Runtimes!Here
    BY DEF Runtimes!Here
  <1> QED  BY <1>1 DEF Runtimes!BusyIsPolled, RSlots

\* No step of the page changes the fields of the sections.
LEMMA RuntimesKeepSections ==
  ASSUME SectionShape, Runtimes!Next
  PROVE  SectionShape'
  <1> USE DEF SectionShape, Runtimes!Kind
  <1>1. ASSUME NEW r \in Runtime, Runtimes!Select(r)
        PROVE  SectionShape'
    BY <1>1 DEF Runtimes!Select, Runtimes!Show, Runtimes!Shut
  <1>2. CASE Runtimes!Back
    BY <1>2 DEF Runtimes!Back, Runtimes!Show, Runtimes!Shut
  <1>3. CASE Runtimes!LatestKnown
    BY <1>3 DEF Runtimes!LatestKnown
  <1>4. CASE Runtimes!StatusClears
    BY <1>4 DEF Runtimes!StatusClears
  <1>5. CASE Runtimes!UsageArrives
    BY <1>5 DEF Runtimes!UsageArrives
  <1>6. ASSUME NEW j \in Jobs, NEW s, Runtimes!JobStep(j, s)
        PROVE  SectionShape'
    BY <1>6 DEF Runtimes!JobStep
  <1>7. ASSUME NEW n \in RSlots, NEW u, Runtimes!Revisit(u, n)
        PROVE  SectionShape'
    BY <1>7 DEF Runtimes!Revisit, Runtimes!Shut
  <1>8. ASSUME NEW n \in RSlots, NEW k \in Runtimes!Kind, Runtimes!Start(k, n)
        PROVE  SectionShape'
    BY <1>8 DEF Runtimes!Start
  <1>9. ASSUME NEW n \in RSlots, NEW r, NEW s, Runtimes!DaemonChanges(r, s, n)
        PROVE  SectionShape'
    BY <1>9 DEF Runtimes!DaemonChanges
  <1>10. ASSUME NEW n \in RSlots, NEW t \in part3, Runtimes!Tick(t, n)
        PROVE  SectionShape'
    BY <1>10 DEF Runtimes!Tick
  <1>11. ASSUME NEW n \in RSlots, Runtimes!Answer(n)
        PROVE  SectionShape'
    BY <1>11 DEF Runtimes!Answer
  <1>12. ASSUME NEW n \in RSlots, Runtimes!Started(n)
        PROVE  SectionShape'
    BY <1>12 DEF Runtimes!Started
  <1>13. ASSUME NEW n \in RSlots, Runtimes!Polled(n)
        PROVE  SectionShape'
    BY <1>13 DEF Runtimes!Polled
  <1>14. ASSUME NEW n \in RSlots, Runtimes!Listed(n)
        PROVE  SectionShape'
    BY <1>14 DEF Runtimes!Listed, Runtimes!Show, Runtimes!Shut
  <1> QED
    BY <1>1, <1>2, <1>3, <1>4, <1>5, <1>6, <1>7, <1>8, <1>9, <1>10, <1>11, <1>12, <1>13, <1>14 DEF Runtimes!Next, RSlots

\* No step of the page changes the fields of its requests.
LEMMA RuntimesKeepCalls ==
  ASSUME JobCallShape, Runtimes!Next
  PROVE  JobCallShape'
  <1> USE DEF JobCallShape, RSlots, Runtimes!Send, Runtimes!Request, Runtimes!Idle, Runtimes!Freed
  <1>1. ASSUME NEW r \in Runtime, Runtimes!Select(r)
        PROVE  JobCallShape'
    BY <1>1 DEF Runtimes!Select
  <1>2. CASE Runtimes!Back
    BY <1>2 DEF Runtimes!Back
  <1>3. CASE Runtimes!LatestKnown
    BY <1>3 DEF Runtimes!LatestKnown
  <1>4. CASE Runtimes!StatusClears
    BY <1>4 DEF Runtimes!StatusClears
  <1>5. CASE Runtimes!UsageArrives
    BY <1>5 DEF Runtimes!UsageArrives
  <1>6. ASSUME NEW j \in Jobs, NEW s, Runtimes!JobStep(j, s)
        PROVE  JobCallShape'
    BY <1>6 DEF Runtimes!JobStep
  <1>7. ASSUME NEW n \in RSlots, NEW u, Runtimes!Revisit(u, n)
        PROVE  JobCallShape'
    BY <1>7 DEF Runtimes!Revisit
  <1>8. ASSUME NEW n \in RSlots, NEW k \in Runtimes!Kind, Runtimes!Start(k, n)
        PROVE  JobCallShape'
    BY <1>8 DEF Runtimes!Start
  <1>9. ASSUME NEW n \in RSlots, NEW r, NEW s, Runtimes!DaemonChanges(r, s, n)
        PROVE  JobCallShape'
    BY <1>9 DEF Runtimes!DaemonChanges
  <1>10. ASSUME NEW n \in RSlots, NEW t \in part3, Runtimes!Tick(t, n)
        PROVE  JobCallShape'
    BY <1>10 DEF Runtimes!Tick
  <1>11. ASSUME NEW n \in RSlots, Runtimes!Answer(n)
        PROVE  JobCallShape'
    BY <1>11 DEF Runtimes!Answer
  <1>12. ASSUME NEW n \in RSlots, Runtimes!Started(n)
        PROVE  JobCallShape'
    BY <1>12 DEF Runtimes!Started
  <1>13. ASSUME NEW n \in RSlots, Runtimes!Polled(n)
        PROVE  JobCallShape'
    BY <1>13 DEF Runtimes!Polled
  <1>14. ASSUME NEW n \in RSlots, Runtimes!Listed(n)
        PROVE  JobCallShape'
    BY <1>14 DEF Runtimes!Listed
  <1> QED
    BY <1>1, <1>2, <1>3, <1>4, <1>5, <1>6, <1>7, <1>8, <1>9, <1>10, <1>11, <1>12, <1>13, <1>14 DEF Runtimes!Next, RSlots

\* A section is set busy with a request, the request is replaced by the interval that
\* pollRef then holds, and the interval ends when the section is no longer busy.
LEMMA RuntimesKeepPolled ==
  ASSUME RuntimesInv, Runtimes!Next
  PROVE  Runtimes!BusyIsPolled'
  <1> USE DEF RuntimesInv
  <1>s. ASSUME NEW n \in RSlots, NEW r, Runtimes!Send(n, r)
        PROVE  \A m \in RSlots : call[m].kind \in Runtimes!Kind => call'[m] = call[m]
    BY <1>s DEF Runtimes!Send, Runtimes!Kind, JobCallShape, RSlots
  <1>1. ASSUME NEW r \in Runtime, Runtimes!Select(r)
        PROVE  Runtimes!BusyIsPolled'
    BY <1>1, ShowKeepsPolled DEF Runtimes!Select
  <1>2. CASE Runtimes!Back
    BY <1>2, ShowKeepsPolled DEF Runtimes!Back
  <1>3. CASE Runtimes!LatestKnown
    BY <1>3, SameIsPolled DEF Runtimes!LatestKnown, SectionShape
  <1>4. CASE Runtimes!StatusClears
    BY <1>4, SameIsPolled DEF Runtimes!StatusClears, SectionShape
  <1>5. CASE Runtimes!UsageArrives
    BY <1>5, SameIsPolled DEF Runtimes!UsageArrives
  <1>6. ASSUME NEW j \in Jobs, NEW s, Runtimes!JobStep(j, s)
        PROVE  Runtimes!BusyIsPolled'
    BY <1>6, SameIsPolled DEF Runtimes!JobStep
  <1>7. ASSUME NEW n \in RSlots, NEW u, Runtimes!Revisit(u, n)
        PROVE  Runtimes!BusyIsPolled'
    BY <1>7 DEF Runtimes!Revisit, Runtimes!BusyIsPolled, Runtimes!Shut
  <1>8. ASSUME NEW n \in RSlots, NEW k \in Runtimes!Kind, Runtimes!Start(k, n)
        PROVE  Runtimes!BusyIsPolled'
    <2>1. call'[n].kind = k /\ call'[n].inst = view
      BY <1>8 DEF Runtimes!Start, Runtimes!Send, Runtimes!Request, Runtimes!Idle, JobCallShape,
                  RSlots
    <2>2. \A m \in RSlots : call[m].kind \in Runtimes!Kind => call'[m] = call[m]
      BY <1>8, <1>s DEF Runtimes!Start
    <2>3. \A l \in Runtimes!Kind : l # k => part1'[l] = part1[l]
      BY <1>8 DEF Runtimes!Start, SectionShape
    <2>4. \A t \in part3 : t.kind # k => t \in part3'
      BY <1>8 DEF Runtimes!Start
    <2>5. view' = view /\ Runtimes!Here' = Runtimes!Here
      BY <1>8 DEF Runtimes!Start, Runtimes!Here
    <2> QED  BY <2>1, <2>2, <2>3, <2>4, <2>5 DEF Runtimes!BusyIsPolled, RSlots
  <1>9. ASSUME NEW n \in RSlots, NEW r, NEW s, Runtimes!DaemonChanges(r, s, n)
        PROVE  Runtimes!BusyIsPolled'
    <2>1. \A m \in RSlots : call[m].kind \in Runtimes!Kind => call'[m] = call[m]
      BY <1>9, <1>s DEF Runtimes!DaemonChanges
    <2> QED  BY <1>9, <2>1, SameIsPolled DEF Runtimes!DaemonChanges
  <1>10. ASSUME NEW n \in RSlots, NEW t \in part3, Runtimes!Tick(t, n)
        PROVE  Runtimes!BusyIsPolled'
    <2>1. \A m \in RSlots : call[m].kind \in Runtimes!Kind => call'[m] = call[m]
      BY <1>10, <1>s DEF Runtimes!Tick
    <2> QED  BY <1>10, <2>1, SameIsPolled DEF Runtimes!Tick
  <1>11. ASSUME NEW n \in RSlots, Runtimes!Answer(n)
        PROVE  Runtimes!BusyIsPolled'
    <2>1. ASSUME NEW m \in RSlots
          PROVE  call'[m].kind = call[m].kind /\ call'[m].inst = call[m].inst
      <3>1. \/ \E j : call' = [call EXCEPT ![n].status = "ok", ![n].job = j]
            \/ \E s : call' = [call EXCEPT ![n].status = s]
            \/ \E l : call' = [call EXCEPT ![n].status = "ok", ![n].rows = l]
        BY <1>11 DEF Runtimes!Answer
      <3>2. CASE \E j : call' = [call EXCEPT ![n].status = "ok", ![n].job = j]
        BY <3>2 DEF JobCallShape
      <3>3. CASE \E s : call' = [call EXCEPT ![n].status = s]
        BY <3>3 DEF JobCallShape
      <3>4. CASE \E l : call' = [call EXCEPT ![n].status = "ok", ![n].rows = l]
        BY <3>4 DEF JobCallShape
      <3> QED  BY <3>1, <3>2, <3>3, <3>4
    <2> QED  BY <1>11, <2>1, SameIsPolled DEF Runtimes!Answer
  <1>12. ASSUME NEW n \in RSlots, Runtimes!Started(n)
        PROVE  Runtimes!BusyIsPolled'
    <2> DEFINE k == call[n].kind
               i == [inst |-> call[n].inst, kind |-> k, job |-> call[n].job]
    <2>1. k \in Runtimes!Kind /\ view' = view /\ Runtimes!Here' = Runtimes!Here
      BY <1>12 DEF Runtimes!Started, Runtimes!Here
    <2>2. \A m \in RSlots : m # n => call'[m] = call[m]
      BY <1>12 DEF Runtimes!Started, Runtimes!Freed, JobCallShape
    <2>3. \A l \in Runtimes!Kind : l # k => part1'[l] = part1[l]
      BY <1>12 DEF Runtimes!Started, SectionShape
    <2>4. \A t \in part3 : t \in part3'
      BY <1>12 DEF Runtimes!Started
    <2>5. CASE ~Runtimes!Mine(n)
      <3>1. part1' = part1
        BY <1>12, <2>5 DEF Runtimes!Started
      <3> QED
        BY <2>1, <2>2, <2>4, <2>5, <3>1 DEF Runtimes!BusyIsPolled, Runtimes!Mine, RSlots
    <2>6. CASE Runtimes!Mine(n) /\ call[n].status = "error"
      <3>1. ~part1'[k].busy
        BY <1>12, <2>1, <2>6 DEF Runtimes!Started, SectionShape
      <3> QED  BY <2>1, <2>2, <2>3, <2>4, <3>1 DEF Runtimes!BusyIsPolled, RSlots
    <2>7. CASE Runtimes!Mine(n) /\ call[n].status # "error"
      <3>1. part1'[k].poll = call[n].job
        BY <1>12, <2>1, <2>7 DEF Runtimes!Started, SectionShape
      <3>2. i \in part3'
        BY <1>12, <2>7 DEF Runtimes!Started
      <3>3. i.inst = view' /\ i.kind = k /\ i.job = part1'[k].poll
        BY <2>1, <2>7, <3>1 DEF Runtimes!Mine
      <3> HIDE DEF i
      <3> QED
        BY <2>1, <2>2, <2>3, <2>4, <3>2, <3>3 DEF Runtimes!BusyIsPolled, RSlots
    <2> QED  BY <2>5, <2>6, <2>7
  <1>13. ASSUME NEW n \in RSlots, Runtimes!Polled(n)
        PROVE  Runtimes!BusyIsPolled'
    <2>1. PICK k \in Runtimes!Kind :
            /\ call[n].kind = Runtimes!Poll[k]
            /\ LET s == call[n].status
                   next == IF s \in Runtimes!Final
                           THEN [part1[k] EXCEPT !.status = s, !.busy = FALSE, !.poll = 0,
                                                 !.clears = @ \/ (k = "update" /\ s = "completed")]
                           ELSE [part1[k] EXCEPT !.status = s]
               IN  /\ part1' = (IF Runtimes!Mine(n) /\ s # "error"
                                THEN [part1 EXCEPT ![k] = next] ELSE part1)
                   /\ part3' = (IF s \notin Runtimes!Final THEN part3
                                ELSE IF Runtimes!Mine(n)
                                THEN {t \in part3 : t.inst # view \/ t.kind # k
                                                    \/ t.job # part1[k].poll}
                                ELSE {t \in part3 : t.inst # call[n].inst \/ t.job # call[n].job})
      BY <1>13 DEF Runtimes!Polled
    <2>2. \A m \in RSlots : call[m].kind \in Runtimes!Kind => call'[m] = call[m]
      BY <1>13, <2>1 DEF Runtimes!Polled, Runtimes!Freed, Runtimes!Poll, Runtimes!Kind, JobCallShape
    <2>3. view' = view /\ Runtimes!Here' = Runtimes!Here
      BY <1>13 DEF Runtimes!Polled, Runtimes!Here
    <2>4. \A l \in Runtimes!Kind : l # k => part1'[l] = part1[l]
      BY <2>1 DEF SectionShape
    <2>5. CASE call[n].status \notin Runtimes!Final
      <3>1. \A l \in Runtimes!Kind : part1'[l].busy = part1[l].busy /\ part1'[l].poll = part1[l].poll
        BY <2>1, <2>5 DEF SectionShape
      <3>2. UNCHANGED <<store, view, part3>>
        BY <1>13, <2>1, <2>5 DEF Runtimes!Polled
      <3> QED  BY <2>2, <3>1, <3>2, SameIsPolled
    <2>6. CASE call[n].status \in Runtimes!Final /\ Runtimes!Mine(n)
      <3>1. ~part1'[k].busy
        BY <2>1, <2>6 DEF SectionShape, Runtimes!Final
      <3>2. \A t \in part3 : t.kind # k => t \in part3'
        BY <2>1, <2>6
      <3> QED  BY <2>2, <2>3, <2>4, <3>1, <3>2 DEF Runtimes!BusyIsPolled, RSlots
    <2>7. CASE call[n].status \in Runtimes!Final /\ ~Runtimes!Mine(n)
      <3>1. part1' = part1
        BY <2>1, <2>7
      <3>2. \A t \in part3 : t.inst # call[n].inst => t \in part3'
        BY <2>1, <2>7
      <3> QED  BY <2>2, <2>3, <2>7, <3>1, <3>2 DEF Runtimes!BusyIsPolled, Runtimes!Mine, RSlots
    <2> QED  BY <2>5, <2>6, <2>7
  <1>14. ASSUME NEW n \in RSlots, Runtimes!Listed(n)
        PROVE  Runtimes!BusyIsPolled'
    <2>1. \A m \in RSlots : call[m].kind \in Runtimes!Kind => call'[m] = call[m]
      BY <1>14 DEF Runtimes!Listed, Runtimes!Freed, Runtimes!Kind, JobCallShape
    <2>2. \E p : Runtimes!Show(p)
      BY <1>14 DEF Runtimes!Listed
    <2> QED  BY <2>1, <2>2, ShowKeepsPolled
  <1> QED
    BY <1>1, <1>2, <1>3, <1>4, <1>5, <1>6, <1>7, <1>8, <1>9, <1>10, <1>11, <1>12, <1>13, <1>14
    DEF Runtimes!Next, RSlots

\* The page of the runtimes is mounted in its invariant, every step keeps it, and it says
\* that a busy section asks.
LEMMA RuntimesSafe ==
  /\ RuntimesMounted => RuntimesInv
  /\ RuntimesInv /\ Runtimes!Next => RuntimesInv'
  /\ RuntimesInv /\ UNCHANGED pageVars => RuntimesInv'
  /\ RuntimesInv => Runtimes!BusyIsPolled
  <1>1. RuntimesMounted => RuntimesInv
    BY RuntimesStarts
  <1>2. ASSUME RuntimesInv, Runtimes!Next PROVE RuntimesInv'
    BY <1>2, RuntimesKeepSections, RuntimesKeepCalls, RuntimesKeepPolled DEF RuntimesInv
  <1>3. ASSUME RuntimesInv, UNCHANGED pageVars PROVE RuntimesInv'
    BY <1>3 DEF RuntimesInv, SectionShape, JobCallShape, pageVars, Runtimes!BusyIsPolled,
                Runtimes!Here, Runtimes!Selected, Runtimes!In
  <1>4. RuntimesInv => Runtimes!BusyIsPolled
    BY DEF RuntimesInv
  <1> QED  BY <1>1, <1>2, <1>3, <1>4

-----------------------------------------------------------------------------
(* The dialog of a new issue: in view, its form; in part1, whether it is   *)
(* open; in part2, the draft; in part3, what was typed last; in part4,     *)
(* what of it the dialog is known to lose.                                 *)

DSlots == Slots["dialog"]

\* Titles and descriptions, those of a draft kept from before with them.
Typing == Text \cup {0, 1}
Issues == [title : Typing, desc : Typing]

FormShape ==
    /\ view = [title |-> view.title, desc |-> view.desc, pic |-> view.pic, idea |-> view.idea,
               status |-> view.status, rest |-> view.rest, ideas |-> view.ideas,
               loading |-> view.loading, submitting |-> view.submitting,
               timer |-> view.timer, made |-> view.made]
    /\ view.title \in Typing /\ view.desc \in Typing

DraftShape ==
    /\ part2 = [title |-> part2.title, desc |-> part2.desc, pic |-> part2.pic,
                idea |-> part2.idea, status |-> part2.status, rest |-> part2.rest]
    /\ part2.title \in Typing /\ part2.desc \in Typing
    /\ part3 = [title |-> part3.title, desc |-> part3.desc]

IssueCall(r) ==
    /\ r = [kind |-> r.kind, status |-> r.status, old |-> r.old, title |-> r.title,
            desc |-> r.desc, issue |-> r.issue]
    /\ r.title \in Typing /\ r.desc \in Typing

IssueCallShape ==
    /\ call = [n \in DSlots |-> call[n]]
    /\ \A n \in DSlots : IssueCall(call[n])

DialogShape == FormShape /\ DraftShape /\ IssueCallShape /\ row \in Seq(Issues)

\* No step of the dialog changes the fields of its form.
LEMMA DialogKeepsForm ==
  ASSUME DialogShape, Dialog!Next
  PROVE  FormShape'
  <1> USE DEF DialogShape, FormShape
  <1>1. CASE Dialog!Close
    BY <1>1 DEF Dialog!Close, Dialog!Shut, Dialog!NoForm, Typing
  <1>2. CASE Dialog!Reload
    BY <1>2 DEF Dialog!Reload, Dialog!Shut, Dialog!NoForm, Typing
  <1>3. CASE Dialog!DescriptionTimer
    BY <1>3 DEF Dialog!DescriptionTimer
  <1>4. ASSUME NEW t \in Text, Dialog!UpdateTitle(t)
        PROVE  FormShape'
    BY <1>4 DEF Dialog!UpdateTitle, Typing
  <1>5. ASSUME NEW t \in Text, Dialog!Describe(t)
        PROVE  FormShape'
    BY <1>5 DEF Dialog!Describe, Typing
  <1>6. ASSUME NEW i \in Idea, Dialog!UpdateIdea(i)
        PROVE  FormShape'
    BY <1>6 DEF Dialog!UpdateIdea
  <1>7. ASSUME NEW s, Dialog!UpdateStatus(s)
        PROVE  FormShape'
    BY <1>7 DEF Dialog!UpdateStatus
  <1>8. ASSUME NEW v, Dialog!UpdateRest(v)
        PROVE  FormShape'
    BY <1>8 DEF Dialog!UpdateRest
  <1>9. ASSUME NEW n \in DSlots, NEW d \in Dialog!Data, Dialog!Open(d, n)
        PROVE  FormShape'
    BY <1>9 DEF Dialog!Open, Dialog!Mounted, Dialog!NoForm, DraftShape
  <1>10. ASSUME NEW n \in DSlots, Dialog!UploadFile(n)
        PROVE  FormShape'
    BY <1>10 DEF Dialog!UploadFile
  <1>11. ASSUME NEW n \in DSlots, Dialog!Submit(n)
        PROVE  FormShape'
    BY <1>11 DEF Dialog!Submit
  <1>12. ASSUME NEW n \in DSlots, Dialog!CreateIssue(n)
        PROVE  FormShape'
    BY <1>12 DEF Dialog!CreateIssue
  <1>13. ASSUME NEW n \in DSlots, Dialog!Answer(n)
        PROVE  FormShape'
    BY <1>13 DEF Dialog!Answer
  <1>14. ASSUME NEW n \in DSlots, Dialog!IdeasArrive(n)
        PROVE  FormShape'
    BY <1>14 DEF Dialog!IdeasArrive
  <1>15. ASSUME NEW n \in DSlots, Dialog!Uploaded(n)
        PROVE  FormShape'
    BY <1>15 DEF Dialog!Uploaded
  <1>16. ASSUME NEW n \in DSlots, Dialog!Created(n)
        PROVE  FormShape'
    BY <1>16 DEF Dialog!Created, Dialog!Shut, Dialog!NoForm, Typing
  <1>17. ASSUME NEW n \in DSlots, Dialog!CreateFailed(n)
        PROVE  FormShape'
    BY <1>17 DEF Dialog!CreateFailed
  <1> QED
    BY <1>1, <1>2, <1>3, <1>4, <1>5, <1>6, <1>7, <1>8, <1>9,
       <1>10, <1>11, <1>12, <1>13, <1>14, <1>15, <1>16, <1>17 DEF Dialog!Next, DSlots

\* No step of the dialog changes the fields of the draft and of what was typed.
LEMMA DialogKeepsDraft ==
  ASSUME DialogShape, Dialog!Next
  PROVE  DraftShape'
  <1> USE DEF DialogShape, DraftShape
  <1>1. CASE Dialog!Close
    BY <1>1 DEF Dialog!Close
  <1>2. CASE Dialog!Reload
    BY <1>2 DEF Dialog!Reload
  <1>3. CASE Dialog!DescriptionTimer
    BY <1>3 DEF Dialog!DescriptionTimer, FormShape
  <1>4. ASSUME NEW t \in Text, Dialog!UpdateTitle(t)
        PROVE  DraftShape'
    BY <1>4 DEF Dialog!UpdateTitle, Typing
  <1>5. ASSUME NEW t \in Text, Dialog!Describe(t)
        PROVE  DraftShape'
    BY <1>5 DEF Dialog!Describe, Typing
  <1>6. ASSUME NEW i \in Idea, Dialog!UpdateIdea(i)
        PROVE  DraftShape'
    BY <1>6 DEF Dialog!UpdateIdea
  <1>7. ASSUME NEW s, Dialog!UpdateStatus(s)
        PROVE  DraftShape'
    BY <1>7 DEF Dialog!UpdateStatus
  <1>8. ASSUME NEW v, Dialog!UpdateRest(v)
        PROVE  DraftShape'
    BY <1>8 DEF Dialog!UpdateRest
  <1>9. ASSUME NEW n \in DSlots, NEW d \in Dialog!Data, Dialog!Open(d, n)
        PROVE  DraftShape'
    BY <1>9 DEF Dialog!Open
  <1>10. ASSUME NEW n \in DSlots, Dialog!UploadFile(n)
        PROVE  DraftShape'
    BY <1>10 DEF Dialog!UploadFile
  <1>11. ASSUME NEW n \in DSlots, Dialog!Submit(n)
        PROVE  DraftShape'
    BY <1>11 DEF Dialog!Submit
  <1>12. ASSUME NEW n \in DSlots, Dialog!CreateIssue(n)
        PROVE  DraftShape'
    BY <1>12 DEF Dialog!CreateIssue
  <1>13. ASSUME NEW n \in DSlots, Dialog!Answer(n)
        PROVE  DraftShape'
    BY <1>13 DEF Dialog!Answer
  <1>14. ASSUME NEW n \in DSlots, Dialog!IdeasArrive(n)
        PROVE  DraftShape'
    BY <1>14 DEF Dialog!IdeasArrive
  <1>15. ASSUME NEW n \in DSlots, Dialog!Uploaded(n)
        PROVE  DraftShape'
    BY <1>15 DEF Dialog!Uploaded
  <1>16. ASSUME NEW n \in DSlots, Dialog!Created(n)
        PROVE  DraftShape'
    BY <1>16 DEF Dialog!Created, Dialog!Empty, Typing
  <1>17. ASSUME NEW n \in DSlots, Dialog!CreateFailed(n)
        PROVE  DraftShape'
    BY <1>17 DEF Dialog!CreateFailed
  <1> QED
    BY <1>1, <1>2, <1>3, <1>4, <1>5, <1>6, <1>7, <1>8, <1>9,
       <1>10, <1>11, <1>12, <1>13, <1>14, <1>15, <1>16, <1>17 DEF Dialog!Next, DSlots

\* A request with another kind, status, mount or issue is a request.
LEMMA IssueCallField ==
  ASSUME NEW r, IssueCall(r), NEW v
  PROVE  /\ IssueCall([r EXCEPT !.kind = v])
         /\ IssueCall([r EXCEPT !.status = v])
         /\ IssueCall([r EXCEPT !.old = v])
         /\ IssueCall([r EXCEPT !.issue = v])
  <1>1. IssueCall([r EXCEPT !.kind = v])
    <2>1. [r EXCEPT !.kind = v] =
            [kind |-> v, status |-> r.status, old |-> r.old, title |-> r.title,
             desc |-> r.desc, issue |-> r.issue]
      BY DEF IssueCall
    <2> QED  BY <2>1 DEF IssueCall
  <1>2. IssueCall([r EXCEPT !.status = v])
    <2>1. [r EXCEPT !.status = v] =
            [kind |-> r.kind, status |-> v, old |-> r.old, title |-> r.title,
             desc |-> r.desc, issue |-> r.issue]
      BY DEF IssueCall
    <2> QED  BY <2>1 DEF IssueCall
  <1>3. IssueCall([r EXCEPT !.old = v])
    <2>1. [r EXCEPT !.old = v] =
            [kind |-> r.kind, status |-> r.status, old |-> v, title |-> r.title,
             desc |-> r.desc, issue |-> r.issue]
      BY DEF IssueCall
    <2> QED  BY <2>1 DEF IssueCall
  <1>4. IssueCall([r EXCEPT !.issue = v])
    <2>1. [r EXCEPT !.issue = v] =
            [kind |-> r.kind, status |-> r.status, old |-> r.old, title |-> r.title,
             desc |-> r.desc, issue |-> v]
      BY DEF IssueCall
    <2> QED  BY <2>1 DEF IssueCall
  <1> QED  BY <1>1, <1>2, <1>3, <1>4

\* What the steps make of a request.
LEMMA IssueCallChanges ==
  ASSUME NEW r, IssueCall(r)
  PROVE  /\ IssueCall(Dialog!Idle)
         /\ IssueCall([r EXCEPT !.old = r.kind # "idle"])
         /\ IssueCall([r EXCEPT !.kind = "orphan", !.old = TRUE])
         /\ \A i : IssueCall([r EXCEPT !.status = "ok", !.issue = i])
         /\ IssueCall([r EXCEPT !.status = "ok"])
         /\ IssueCall([r EXCEPT !.status = "error"])
  <1>1. IssueCall(Dialog!Idle)
    BY DEF Dialog!Idle, Typing, IssueCall
  <1>2. \A q, v : IssueCall(q) => IssueCall([q EXCEPT !.kind = v])
    BY IssueCallField
  <1>3. \A q, v : IssueCall(q) => IssueCall([q EXCEPT !.status = v])
    BY IssueCallField
  <1>4. \A q, v : IssueCall(q) => IssueCall([q EXCEPT !.old = v])
    BY IssueCallField
  <1>5. \A q, v : IssueCall(q) => IssueCall([q EXCEPT !.issue = v])
    BY IssueCallField
  <1> QED  BY <1>1, <1>2, <1>3, <1>4, <1>5, Zenon

\* No step of the dialog changes the fields of its requests.
LEMMA DialogKeepsCalls ==
  ASSUME DialogShape, Dialog!Next
  PROVE  IssueCallShape'
  <1> USE DEF DialogShape, IssueCallShape, DSlots
  <1>1. CASE Dialog!Close
    <2>1. ASSUME NEW m \in DSlots
          PROVE  IssueCall(call'[m])
      <3>1. IssueCall(call[m])
        OBVIOUS
      <3>2. call'[m] = [call[m] EXCEPT !.old = call[m].kind # "idle"]
        BY <1>1 DEF Dialog!Close
      <3> QED  BY <3>1, <3>2, IssueCallChanges
    <2>2. call' = [m \in DSlots |-> call'[m]]
      BY <1>1 DEF Dialog!Close
    <2> QED  BY <2>1, <2>2
  <1>2. CASE Dialog!Reload
    <2>1. ASSUME NEW m \in DSlots
          PROVE  IssueCall(call'[m])
      <3>1. IssueCall(call[m])
        OBVIOUS
      <3>2. call'[m] = [call[m] EXCEPT !.kind = "orphan", !.old = TRUE] \/ call'[m] = Dialog!Idle
        BY <1>2 DEF Dialog!Reload
      <3> QED  BY <3>1, <3>2, IssueCallChanges
    <2>2. call' = [m \in DSlots |-> call'[m]]
      BY <1>2 DEF Dialog!Reload
    <2> QED  BY <2>1, <2>2
  <1>3. CASE Dialog!DescriptionTimer
    BY <1>3 DEF Dialog!DescriptionTimer
  <1>4. ASSUME NEW t \in Text, Dialog!UpdateTitle(t)
        PROVE  IssueCallShape'
    BY <1>4 DEF Dialog!UpdateTitle
  <1>5. ASSUME NEW t \in Text, Dialog!Describe(t)
        PROVE  IssueCallShape'
    BY <1>5 DEF Dialog!Describe
  <1>6. ASSUME NEW i \in Idea, Dialog!UpdateIdea(i)
        PROVE  IssueCallShape'
    BY <1>6 DEF Dialog!UpdateIdea
  <1>7. ASSUME NEW s, Dialog!UpdateStatus(s)
        PROVE  IssueCallShape'
    BY <1>7 DEF Dialog!UpdateStatus
  <1>8. ASSUME NEW v, Dialog!UpdateRest(v)
        PROVE  IssueCallShape'
    BY <1>8 DEF Dialog!UpdateRest
  <1>9. ASSUME NEW n \in DSlots, NEW d \in Dialog!Data, Dialog!Open(d, n)
        PROVE  IssueCallShape'
    BY <1>9 DEF Dialog!Open, Dialog!Send, Dialog!Request, Dialog!Idle, IssueCall, Typing
  <1>10. ASSUME NEW n \in DSlots, Dialog!UploadFile(n)
        PROVE  IssueCallShape'
    BY <1>10 DEF Dialog!UploadFile, Dialog!Send, Dialog!Request, Dialog!Idle, IssueCall, Typing
  <1>11. ASSUME NEW n \in DSlots, Dialog!Submit(n)
        PROVE  IssueCallShape'
    BY <1>11 DEF Dialog!Submit, Dialog!Send, Dialog!Request, Dialog!Idle, IssueCall, Typing, FormShape
  <1>12. ASSUME NEW n \in DSlots, Dialog!CreateIssue(n)
        PROVE  IssueCallShape'
    <2>1. IssueCall(call[n])
      OBVIOUS
    <2>2. \E r : call' = [call EXCEPT ![n] = r]
            /\ \/ r = Dialog!Idle
               \/ \E i : r = [call[n] EXCEPT !.status = "ok", !.issue = i]
               \/ r = [call[n] EXCEPT !.status = "error"]
      BY <1>12 DEF Dialog!CreateIssue
    <2>3. PICK r : call' = [call EXCEPT ![n] = r] /\ IssueCall(r)
      BY <2>1, <2>2, IssueCallChanges
    <2> QED  BY <2>3
  <1>13. ASSUME NEW n \in DSlots, Dialog!Answer(n)
        PROVE  IssueCallShape'
    <2>1. IssueCall(call[n])
      OBVIOUS
    <2>2. \E r : call' = [call EXCEPT ![n] = r]
            /\ \/ r = [call[n] EXCEPT !.status = "ok"]
               \/ r = [call[n] EXCEPT !.status = "error"]
      BY <1>13 DEF Dialog!Answer
    <2>3. PICK r : call' = [call EXCEPT ![n] = r] /\ IssueCall(r)
      BY <2>1, <2>2, IssueCallChanges
    <2> QED  BY <2>3
  <1>14. ASSUME NEW n \in DSlots, Dialog!IdeasArrive(n)
        PROVE  IssueCallShape'
    BY <1>14 DEF Dialog!IdeasArrive, Dialog!Freed, Dialog!Idle, IssueCall, Typing
  <1>15. ASSUME NEW n \in DSlots, Dialog!Uploaded(n)
        PROVE  IssueCallShape'
    BY <1>15 DEF Dialog!Uploaded, Dialog!Freed, Dialog!Idle, IssueCall, Typing
  <1>16. ASSUME NEW n \in DSlots, Dialog!Created(n)
        PROVE  IssueCallShape'
    <2>1. ASSUME NEW m \in DSlots
          PROVE  IssueCall(call'[m])
      <3>1. IssueCall(call[m])
        OBVIOUS
      <3>2. call'[m] = [call[m] EXCEPT !.old = call[m].kind # "idle"] \/ call'[m] = Dialog!Idle
        BY <1>16 DEF Dialog!Created
      <3> QED  BY <3>1, <3>2, IssueCallChanges
    <2>2. call' = [m \in DSlots |-> call'[m]]
      BY <1>16 DEF Dialog!Created
    <2> QED  BY <2>1, <2>2
  <1>17. ASSUME NEW n \in DSlots, Dialog!CreateFailed(n)
        PROVE  IssueCallShape'
    BY <1>17 DEF Dialog!CreateFailed, Dialog!Freed, Dialog!Idle, IssueCall, Typing
  <1> QED
    BY <1>1, <1>2, <1>3, <1>4, <1>5, <1>6, <1>7, <1>8, <1>9,
       <1>10, <1>11, <1>12, <1>13, <1>14, <1>15, <1>16, <1>17 DEF Dialog!Next, DSlots

\* The issues of the server are a sequence of titles and descriptions.
LEMMA DialogKeepsRows ==
  ASSUME DialogShape, Dialog!Next
  PROVE  row' \in Seq(Issues)
  <1> USE DEF DialogShape
  <1>1. CASE Dialog!Close
    BY <1>1 DEF Dialog!Close
  <1>2. CASE Dialog!Reload
    BY <1>2 DEF Dialog!Reload
  <1>3. CASE Dialog!DescriptionTimer
    BY <1>3 DEF Dialog!DescriptionTimer
  <1>4. ASSUME NEW t \in Text, Dialog!UpdateTitle(t)
        PROVE  row' \in Seq(Issues)
    BY <1>4 DEF Dialog!UpdateTitle
  <1>5. ASSUME NEW t \in Text, Dialog!Describe(t)
        PROVE  row' \in Seq(Issues)
    BY <1>5 DEF Dialog!Describe
  <1>6. ASSUME NEW i \in Idea, Dialog!UpdateIdea(i)
        PROVE  row' \in Seq(Issues)
    BY <1>6 DEF Dialog!UpdateIdea
  <1>7. ASSUME NEW s, Dialog!UpdateStatus(s)
        PROVE  row' \in Seq(Issues)
    BY <1>7 DEF Dialog!UpdateStatus
  <1>8. ASSUME NEW v, Dialog!UpdateRest(v)
        PROVE  row' \in Seq(Issues)
    BY <1>8 DEF Dialog!UpdateRest
  <1>9. ASSUME NEW n \in DSlots, NEW d \in Dialog!Data, Dialog!Open(d, n)
        PROVE  row' \in Seq(Issues)
    BY <1>9 DEF Dialog!Open
  <1>10. ASSUME NEW n \in DSlots, Dialog!UploadFile(n)
        PROVE  row' \in Seq(Issues)
    BY <1>10 DEF Dialog!UploadFile
  <1>11. ASSUME NEW n \in DSlots, Dialog!Submit(n)
        PROVE  row' \in Seq(Issues)
    BY <1>11 DEF Dialog!Submit
  <1>12. ASSUME NEW n \in DSlots, Dialog!CreateIssue(n)
        PROVE  row' \in Seq(Issues)
    <2>1. [title |-> call[n].title, desc |-> call[n].desc] \in Issues
      BY DEF IssueCallShape, IssueCall, Issues
    <2>2. \/ row' = Append(row, [title |-> call[n].title, desc |-> call[n].desc])
          \/ row' = row
      BY <1>12 DEF Dialog!CreateIssue
    <2> QED  BY <2>1, <2>2, AppendProperties
  <1>13. ASSUME NEW n \in DSlots, Dialog!Answer(n)
        PROVE  row' \in Seq(Issues)
    BY <1>13 DEF Dialog!Answer
  <1>14. ASSUME NEW n \in DSlots, Dialog!IdeasArrive(n)
        PROVE  row' \in Seq(Issues)
    BY <1>14 DEF Dialog!IdeasArrive
  <1>15. ASSUME NEW n \in DSlots, Dialog!Uploaded(n)
        PROVE  row' \in Seq(Issues)
    BY <1>15 DEF Dialog!Uploaded
  <1>16. ASSUME NEW n \in DSlots, Dialog!Created(n)
        PROVE  row' \in Seq(Issues)
    BY <1>16 DEF Dialog!Created
  <1>17. ASSUME NEW n \in DSlots, Dialog!CreateFailed(n)
        PROVE  row' \in Seq(Issues)
    BY <1>17 DEF Dialog!CreateFailed
  <1> QED
    BY <1>1, <1>2, <1>3, <1>4, <1>5, <1>6, <1>7, <1>8, <1>9,
       <1>10, <1>11, <1>12, <1>13, <1>14, <1>15, <1>16, <1>17 DEF Dialog!Next, DSlots

\* What was typed last as the title, or as the description, is in an issue, or is empty, or
\* is known to be lost.
TitleHad == \/ \E k \in DOMAIN row : row[k].title = part3.title
            \/ part3.title = 0 \/ "title" \in part4
DescHad  == \/ \E k \in DOMAIN row : row[k].desc = part3.desc
            \/ part3.desc = 0 \/ "desc" \in part4

\* A dialog that is closed has no form, and no request that it still waits for.
FormsClose == ~part1.open => view = Dialog!NoForm
CallsClose == ~part1.open => \A n \in DSlots : call[n].kind # "idle" => call[n].old

\* A request that was answered with an issue is answered with what it sent.
IssuesAreSent ==
    \A n \in DSlots :
      call[n].kind = "create" /\ call[n].status = "ok" =>
        \E k \in DOMAIN row : row[k].title = call[n].title /\ row[k].desc = call[n].desc

TitleKept == part2.title = part3.title \/ TitleHad
DescKept  == part2.desc = part3.desc \/ (view.timer /\ view.desc = part3.desc) \/ DescHad

\* The timer may fire late: what the form holds then is what was typed last.
DescShown == part1.open => view.desc = part3.desc \/ DescHad

TextInv == FormsClose /\ CallsClose /\ IssuesAreSent /\ TitleKept /\ DescKept /\ DescShown

\* No issue of the server is changed.
LEMMA DialogRowsStay ==
  ASSUME DialogShape, Dialog!Next
  PROVE  \A k \in DOMAIN row : k \in DOMAIN row' /\ row'[k] = row[k]
  <1> USE DEF DialogShape
  <1>1. CASE Dialog!Close
    BY <1>1 DEF Dialog!Close
  <1>2. CASE Dialog!Reload
    BY <1>2 DEF Dialog!Reload
  <1>3. CASE Dialog!DescriptionTimer
    BY <1>3 DEF Dialog!DescriptionTimer
  <1>4. ASSUME NEW t \in Text, Dialog!UpdateTitle(t)
        PROVE  \A k \in DOMAIN row : k \in DOMAIN row' /\ row'[k] = row[k]
    BY <1>4 DEF Dialog!UpdateTitle
  <1>5. ASSUME NEW t \in Text, Dialog!Describe(t)
        PROVE  \A k \in DOMAIN row : k \in DOMAIN row' /\ row'[k] = row[k]
    BY <1>5 DEF Dialog!Describe
  <1>6. ASSUME NEW i \in Idea, Dialog!UpdateIdea(i)
        PROVE  \A k \in DOMAIN row : k \in DOMAIN row' /\ row'[k] = row[k]
    BY <1>6 DEF Dialog!UpdateIdea
  <1>7. ASSUME NEW s, Dialog!UpdateStatus(s)
        PROVE  \A k \in DOMAIN row : k \in DOMAIN row' /\ row'[k] = row[k]
    BY <1>7 DEF Dialog!UpdateStatus
  <1>8. ASSUME NEW v, Dialog!UpdateRest(v)
        PROVE  \A k \in DOMAIN row : k \in DOMAIN row' /\ row'[k] = row[k]
    BY <1>8 DEF Dialog!UpdateRest
  <1>9. ASSUME NEW n \in DSlots, NEW d \in Dialog!Data, Dialog!Open(d, n)
        PROVE  \A k \in DOMAIN row : k \in DOMAIN row' /\ row'[k] = row[k]
    BY <1>9 DEF Dialog!Open
  <1>10. ASSUME NEW n \in DSlots, Dialog!UploadFile(n)
        PROVE  \A k \in DOMAIN row : k \in DOMAIN row' /\ row'[k] = row[k]
    BY <1>10 DEF Dialog!UploadFile
  <1>11. ASSUME NEW n \in DSlots, Dialog!Submit(n)
        PROVE  \A k \in DOMAIN row : k \in DOMAIN row' /\ row'[k] = row[k]
    BY <1>11 DEF Dialog!Submit
  <1>12. ASSUME NEW n \in DSlots, Dialog!CreateIssue(n)
        PROVE  \A k \in DOMAIN row : k \in DOMAIN row' /\ row'[k] = row[k]
    <2>1. [title |-> call[n].title, desc |-> call[n].desc] \in Issues
      BY DEF IssueCallShape, IssueCall, Issues
    <2>2. \/ row' = Append(row, [title |-> call[n].title, desc |-> call[n].desc])
          \/ row' = row
      BY <1>12 DEF Dialog!CreateIssue
    <2> QED  BY <2>1, <2>2, AppendProperties
  <1>13. ASSUME NEW n \in DSlots, Dialog!Answer(n)
        PROVE  \A k \in DOMAIN row : k \in DOMAIN row' /\ row'[k] = row[k]
    BY <1>13 DEF Dialog!Answer
  <1>14. ASSUME NEW n \in DSlots, Dialog!IdeasArrive(n)
        PROVE  \A k \in DOMAIN row : k \in DOMAIN row' /\ row'[k] = row[k]
    BY <1>14 DEF Dialog!IdeasArrive
  <1>15. ASSUME NEW n \in DSlots, Dialog!Uploaded(n)
        PROVE  \A k \in DOMAIN row : k \in DOMAIN row' /\ row'[k] = row[k]
    BY <1>15 DEF Dialog!Uploaded
  <1>16. ASSUME NEW n \in DSlots, Dialog!Created(n)
        PROVE  \A k \in DOMAIN row : k \in DOMAIN row' /\ row'[k] = row[k]
    BY <1>16 DEF Dialog!Created
  <1>17. ASSUME NEW n \in DSlots, Dialog!CreateFailed(n)
        PROVE  \A k \in DOMAIN row : k \in DOMAIN row' /\ row'[k] = row[k]
    BY <1>17 DEF Dialog!CreateFailed
  <1> QED
    BY <1>1, <1>2, <1>3, <1>4, <1>5, <1>6, <1>7, <1>8, <1>9,
       <1>10, <1>11, <1>12, <1>13, <1>14, <1>15, <1>16, <1>17 DEF Dialog!Next, DSlots

\* Whatever it is opened with, the dialog is open.
LEMMA DataOpen == \A d \in Dialog!Data : d.open
  <1> SUFFICES ASSUME NEW d \in Dialog!Data PROVE d.open  OBVIOUS
  <1>1. CASE d = [Dialog!Closed EXCEPT !.open = TRUE]
    BY <1>1 DEF Dialog!Closed
  <1>2. CASE d = [Dialog!Closed EXCEPT !.open = TRUE, !.status = "done"]
    BY <1>2 DEF Dialog!Closed
  <1>3. CASE \E i \in Idea : d = [open |-> TRUE, idea |-> i, status |-> "todo"]
    BY <1>3
  <1> QED  BY <1>1, <1>2, <1>3 DEF Dialog!Data

\* An answer of the server leaves what the request is, what it sent, and whose it is.
LEMMA DialogAnswers ==
  ASSUME DialogShape, NEW n \in DSlots, Dialog!CreateIssue(n) \/ Dialog!Answer(n)
  PROVE  \E r : /\ call' = [call EXCEPT ![n] = r]
                /\ \/ r = Dialog!Idle
                   \/ /\ r.kind = call[n].kind /\ r.old = call[n].old
                      /\ r.title = call[n].title /\ r.desc = call[n].desc
  <1>1. IssueCall(call[n]) /\ call = [m \in DSlots |-> call[m]]
    BY DEF DialogShape, IssueCallShape
  <1>2. \E r : call' = [call EXCEPT ![n] = r]
          /\ \/ r = Dialog!Idle
             \/ \E i : r = [call[n] EXCEPT !.status = "ok", !.issue = i]
             \/ r = [call[n] EXCEPT !.status = "ok"]
             \/ r = [call[n] EXCEPT !.status = "error"]
    BY <1>1 DEF Dialog!CreateIssue, Dialog!Answer
  <1>3. PICK r : /\ call' = [call EXCEPT ![n] = r]
                 /\ \/ r = Dialog!Idle
                    \/ \E i : r = [call[n] EXCEPT !.status = "ok", !.issue = i]
                    \/ r = [call[n] EXCEPT !.status = "ok"]
                    \/ r = [call[n] EXCEPT !.status = "error"]
    BY <1>2
  <1>4. \/ r = Dialog!Idle
        \/ /\ r.kind = call[n].kind /\ r.old = call[n].old
           /\ r.title = call[n].title /\ r.desc = call[n].desc
    <2>1. CASE \E i : r = [call[n] EXCEPT !.status = "ok", !.issue = i]
      BY <1>1, <2>1 DEF IssueCall
    <2>2. CASE r = [call[n] EXCEPT !.status = "ok"]
      BY <1>1, <2>2 DEF IssueCall
    <2>3. CASE r = [call[n] EXCEPT !.status = "error"]
      BY <1>1, <2>3 DEF IssueCall
    <2> QED  BY <1>3, <2>1, <2>2, <2>3
  <1> QED  BY <1>3, <1>4

\* A request that is made old is old, unless there is none, and keeps what it sent.
LEMMA IssueCallOld ==
  ASSUME NEW r, IssueCall(r), NEW q,
         \/ q = [r EXCEPT !.old = r.kind # "idle"]
         \/ q = [r EXCEPT !.kind = "orphan", !.old = TRUE]
         \/ q = Dialog!Idle
  PROVE  /\ q.kind # "idle" => q.old
         /\ q.kind = "create" => /\ r.kind = "create" /\ q.status = r.status
                                 /\ q.title = r.title /\ q.desc = r.desc
  <1>1. CASE q = [r EXCEPT !.old = r.kind # "idle"]
    <2>1. /\ q.kind = r.kind /\ q.status = r.status
          /\ q.title = r.title /\ q.desc = r.desc
      BY <1>1 DEF IssueCall
    <2>2. ASSUME r.kind # "idle" PROVE q.old
      <3>1. q = [r EXCEPT !.old = TRUE]
        BY <1>1, <2>2
      <3> QED  BY <3>1 DEF IssueCall
    <2> QED  BY <2>1, <2>2
  <1>2. CASE q = [r EXCEPT !.kind = "orphan", !.old = TRUE]
    <2>1. q.kind = "orphan" /\ q.old
      BY <1>2 DEF IssueCall
    <2> QED  BY <2>1
  <1>3. CASE q = Dialog!Idle
    BY <1>3 DEF Dialog!Idle
  <1> QED  BY <1>1, <1>2, <1>3

\* What was asked for a dialog is old when it closes.
LEMMA DialogKeepsCallsClosed ==
  ASSUME DialogShape, CallsClose, Dialog!Next
  PROVE  CallsClose'
  <1> USE DEF CallsClose, DialogShape, DSlots
  <1>1. CASE Dialog!Close
    <2>1. ASSUME NEW m \in DSlots
          PROVE  call'[m].kind # "idle" => call'[m].old
      <3>1. call'[m] = [call[m] EXCEPT !.old = call[m].kind # "idle"]
        BY <1>1 DEF Dialog!Close, IssueCallShape
      <3>2. IssueCall(call[m])
        BY DEF IssueCallShape
      <3> QED  BY <3>1, <3>2, IssueCallOld
    <2> QED  BY <2>1
  <1>2. CASE Dialog!Reload
    <2>1. ASSUME NEW m \in DSlots
          PROVE  call'[m].kind # "idle" => call'[m].old
      <3>1. call'[m] = [call[m] EXCEPT !.kind = "orphan", !.old = TRUE] \/ call'[m] = Dialog!Idle
        BY <1>2 DEF Dialog!Reload, IssueCallShape
      <3>2. IssueCall(call[m])
        BY DEF IssueCallShape
      <3> QED  BY <3>1, <3>2, IssueCallOld
    <2> QED  BY <2>1
  <1>3. CASE Dialog!DescriptionTimer
    BY <1>3 DEF Dialog!DescriptionTimer
  <1>4. ASSUME NEW t \in Text, Dialog!UpdateTitle(t)
        PROVE  CallsClose'
    BY <1>4 DEF Dialog!UpdateTitle
  <1>5. ASSUME NEW t \in Text, Dialog!Describe(t)
        PROVE  CallsClose'
    BY <1>5 DEF Dialog!Describe
  <1>6. ASSUME NEW i \in Idea, Dialog!UpdateIdea(i)
        PROVE  CallsClose'
    BY <1>6 DEF Dialog!UpdateIdea
  <1>7. ASSUME NEW s, Dialog!UpdateStatus(s)
        PROVE  CallsClose'
    BY <1>7 DEF Dialog!UpdateStatus
  <1>8. ASSUME NEW v, Dialog!UpdateRest(v)
        PROVE  CallsClose'
    BY <1>8 DEF Dialog!UpdateRest
  <1>9. ASSUME NEW n \in DSlots, NEW d \in Dialog!Data, Dialog!Open(d, n)
        PROVE  CallsClose'
    <2> QED  BY <1>9, DataOpen DEF Dialog!Open
  <1>10. ASSUME NEW n \in DSlots, Dialog!UploadFile(n)
        PROVE  CallsClose'
    BY <1>10 DEF Dialog!UploadFile
  <1>11. ASSUME NEW n \in DSlots, Dialog!Submit(n)
        PROVE  CallsClose'
    BY <1>11 DEF Dialog!Submit
  <1>12. ASSUME NEW n \in DSlots, Dialog!CreateIssue(n)
        PROVE  CallsClose'
    <2>1. CASE part1.open
      BY <1>12, <2>1 DEF Dialog!CreateIssue
    <2>2. CASE ~part1.open
      <3>1. ASSUME NEW m \in DSlots, call'[m].kind # "idle"
            PROVE  call[m].kind # "idle" /\ call'[m].old = call[m].old
        <4>1. PICK r : /\ call' = [call EXCEPT ![n] = r]
                       /\ r = Dialog!Idle \/ (r.kind = call[n].kind /\ r.old = call[n].old)
          BY <1>12, DialogAnswers
        <4> QED  BY <3>1, <4>1 DEF Dialog!Idle, IssueCallShape
      <3> QED  BY <1>12, <2>2, <3>1 DEF Dialog!CreateIssue
    <2> QED  BY <2>1, <2>2
  <1>13. ASSUME NEW n \in DSlots, Dialog!Answer(n)
        PROVE  CallsClose'
    <2>1. CASE part1.open
      BY <1>13, <2>1 DEF Dialog!Answer
    <2>2. CASE ~part1.open
      <3>1. ASSUME NEW m \in DSlots, call'[m].kind # "idle"
            PROVE  call[m].kind # "idle" /\ call'[m].old = call[m].old
        <4>1. PICK r : /\ call' = [call EXCEPT ![n] = r]
                       /\ r = Dialog!Idle \/ (r.kind = call[n].kind /\ r.old = call[n].old)
          BY <1>13, DialogAnswers
        <4> QED  BY <3>1, <4>1 DEF Dialog!Idle, IssueCallShape
      <3> QED  BY <1>13, <2>2, <3>1 DEF Dialog!Answer
    <2> QED  BY <2>1, <2>2
  <1>14. ASSUME NEW n \in DSlots, Dialog!IdeasArrive(n)
        PROVE  CallsClose'
    <2>1. CASE part1.open
      BY <1>14, <2>1 DEF Dialog!IdeasArrive
    <2>2. CASE ~part1.open
      <3>1. ASSUME NEW m \in DSlots, call'[m].kind # "idle"
            PROVE  call[m].kind # "idle" /\ call'[m].old = call[m].old
        BY <1>14, <3>1 DEF Dialog!IdeasArrive, Dialog!Freed, Dialog!Idle, IssueCallShape, IssueCall
      <3> QED  BY <2>2, <3>1
    <2> QED  BY <2>1, <2>2
  <1>15. ASSUME NEW n \in DSlots, Dialog!Uploaded(n)
        PROVE  CallsClose'
    <2>1. CASE part1.open
      BY <1>15, <2>1 DEF Dialog!Uploaded
    <2>2. CASE ~part1.open
      <3>1. ASSUME NEW m \in DSlots, call'[m].kind # "idle"
            PROVE  call[m].kind # "idle" /\ call'[m].old = call[m].old
        BY <1>15, <3>1 DEF Dialog!Uploaded, Dialog!Freed, Dialog!Idle, IssueCallShape, IssueCall
      <3> QED  BY <2>2, <3>1
    <2> QED  BY <2>1, <2>2
  <1>16. ASSUME NEW n \in DSlots, Dialog!Created(n)
        PROVE  CallsClose'
    <2>1. ASSUME NEW m \in DSlots
          PROVE  call'[m].kind # "idle" => call'[m].old
      <3>1. call'[m] = [call[m] EXCEPT !.old = call[m].kind # "idle"] \/ call'[m] = Dialog!Idle
        BY <1>16 DEF Dialog!Created, IssueCallShape
      <3>2. IssueCall(call[m])
        BY DEF IssueCallShape
      <3> QED  BY <3>1, <3>2, IssueCallOld
    <2> QED  BY <2>1
  <1>17. ASSUME NEW n \in DSlots, Dialog!CreateFailed(n)
        PROVE  CallsClose'
    <2>1. CASE part1.open
      BY <1>17, <2>1 DEF Dialog!CreateFailed
    <2>2. CASE ~part1.open
      <3>1. ASSUME NEW m \in DSlots, call'[m].kind # "idle"
            PROVE  call[m].kind # "idle" /\ call'[m].old = call[m].old
        BY <1>17, <3>1 DEF Dialog!CreateFailed, Dialog!Freed, Dialog!Idle, IssueCallShape, IssueCall
      <3> QED  BY <2>2, <3>1
    <2> QED  BY <2>1, <2>2
  <1> QED
    BY <1>1, <1>2, <1>3, <1>4, <1>5, <1>6, <1>7, <1>8, <1>9,
       <1>10, <1>11, <1>12, <1>13, <1>14, <1>15, <1>16, <1>17 DEF Dialog!Next, DSlots

\* The form is made when the dialog opens, and goes when it closes.
LEMMA DialogKeepsFormClosed ==
  ASSUME DialogShape, FormsClose, CallsClose, Dialog!Next
  PROVE  FormsClose'
  <1> USE DEF FormsClose, DialogShape, DSlots
  <1>1. CASE Dialog!Close
    BY <1>1 DEF Dialog!Close, Dialog!Shut
  <1>2. CASE Dialog!Reload
    BY <1>2 DEF Dialog!Reload, Dialog!Shut
  <1>3. CASE Dialog!DescriptionTimer
    BY <1>3 DEF Dialog!DescriptionTimer, Dialog!NoForm
  <1>4. ASSUME NEW t \in Text, Dialog!UpdateTitle(t)
        PROVE  FormsClose'
    BY <1>4 DEF Dialog!UpdateTitle
  <1>5. ASSUME NEW t \in Text, Dialog!Describe(t)
        PROVE  FormsClose'
    BY <1>5 DEF Dialog!Describe
  <1>6. ASSUME NEW i \in Idea, Dialog!UpdateIdea(i)
        PROVE  FormsClose'
    BY <1>6 DEF Dialog!UpdateIdea
  <1>7. ASSUME NEW s, Dialog!UpdateStatus(s)
        PROVE  FormsClose'
    BY <1>7 DEF Dialog!UpdateStatus
  <1>8. ASSUME NEW v, Dialog!UpdateRest(v)
        PROVE  FormsClose'
    BY <1>8 DEF Dialog!UpdateRest
  <1>9. ASSUME NEW n \in DSlots, NEW d \in Dialog!Data, Dialog!Open(d, n)
        PROVE  FormsClose'
    <2> QED  BY <1>9, DataOpen DEF Dialog!Open
  <1>10. ASSUME NEW n \in DSlots, Dialog!UploadFile(n)
        PROVE  FormsClose'
    BY <1>10 DEF Dialog!UploadFile
  <1>11. ASSUME NEW n \in DSlots, Dialog!Submit(n)
        PROVE  FormsClose'
    BY <1>11 DEF Dialog!Submit
  <1>12. ASSUME NEW n \in DSlots, Dialog!CreateIssue(n)
        PROVE  FormsClose'
    <2>1. ASSUME ~part1.open PROVE view' = view
      <3>1. call[n].old
        BY <1>12, <2>1 DEF Dialog!CreateIssue, CallsClose
      <3>2. view' = view \/ view' = [view EXCEPT !.made = view.made]
        BY <1>12, <3>1 DEF Dialog!CreateIssue
      <3> QED  BY <3>2 DEF FormShape
    <2> QED  BY <1>12, <2>1 DEF Dialog!CreateIssue
  <1>13. ASSUME NEW n \in DSlots, Dialog!Answer(n)
        PROVE  FormsClose'
    BY <1>13 DEF Dialog!Answer
  <1>14. ASSUME NEW n \in DSlots, Dialog!IdeasArrive(n)
        PROVE  FormsClose'
    BY <1>14 DEF Dialog!IdeasArrive, CallsClose, Dialog!Ended
  <1>15. ASSUME NEW n \in DSlots, Dialog!Uploaded(n)
        PROVE  FormsClose'
    BY <1>15 DEF Dialog!Uploaded, CallsClose, Dialog!Ended
  <1>16. ASSUME NEW n \in DSlots, Dialog!Created(n)
        PROVE  FormsClose'
    BY <1>16 DEF Dialog!Created, Dialog!Shut
  <1>17. ASSUME NEW n \in DSlots, Dialog!CreateFailed(n)
        PROVE  FormsClose'
    BY <1>17 DEF Dialog!CreateFailed, CallsClose, Dialog!Ended
  <1> QED
    BY <1>1, <1>2, <1>3, <1>4, <1>5, <1>6, <1>7, <1>8, <1>9,
       <1>10, <1>11, <1>12, <1>13, <1>14, <1>15, <1>16, <1>17 DEF Dialog!Next, DSlots

\* A request is answered with an issue when its issue is on the server.
LEMMA DialogKeepsSent ==
  ASSUME DialogShape, IssuesAreSent, Dialog!Next
  PROVE  IssuesAreSent'
  <1> USE DEF DialogShape, IssuesAreSent, DSlots, IssueCallShape
  <1>1. CASE Dialog!Close
    <2>1. ASSUME NEW m \in DSlots, call'[m].kind = "create", call'[m].status = "ok"
          PROVE  /\ call[m].kind = "create" /\ call[m].status = "ok"
                 /\ call'[m].title = call[m].title /\ call'[m].desc = call[m].desc
      <3>1. IssueCall(call[m])
        BY DEF IssueCallShape
      <3>2. call'[m] = [call[m] EXCEPT !.old = call[m].kind # "idle"]
        BY <1>1 DEF Dialog!Close, IssueCallShape
      <3>3. call'[m].kind = "create" =>
              /\ call[m].kind = "create" /\ call'[m].status = call[m].status
              /\ call'[m].title = call[m].title /\ call'[m].desc = call[m].desc
        <4> HIDE DEF DialogShape, IssuesAreSent, IssueCallShape
        <4> QED  BY <3>1, <3>2, IssueCallOld, Zenon
      <3> QED  BY <2>1, <3>3
    <2>2. row' = row
      BY <1>1 DEF Dialog!Close
    <2> QED  BY <2>1, <2>2
  <1>2. CASE Dialog!Reload
    <2>1. ASSUME NEW m \in DSlots, call'[m].kind = "create", call'[m].status = "ok"
          PROVE  /\ call[m].kind = "create" /\ call[m].status = "ok"
                 /\ call'[m].title = call[m].title /\ call'[m].desc = call[m].desc
      <3>1. IssueCall(call[m])
        BY DEF IssueCallShape
      <3>2. call'[m] = [call[m] EXCEPT !.kind = "orphan", !.old = TRUE] \/ call'[m] = Dialog!Idle
        BY <1>2 DEF Dialog!Reload, IssueCallShape
      <3>3. call'[m].kind = "create" =>
              /\ call[m].kind = "create" /\ call'[m].status = call[m].status
              /\ call'[m].title = call[m].title /\ call'[m].desc = call[m].desc
        <4> HIDE DEF DialogShape, IssuesAreSent, IssueCallShape
        <4> QED  BY <3>1, <3>2, IssueCallOld, Zenon
      <3> QED  BY <2>1, <3>3
    <2>2. row' = row
      BY <1>2 DEF Dialog!Reload
    <2> QED  BY <2>1, <2>2
  <1>3. CASE Dialog!DescriptionTimer
    BY <1>3 DEF Dialog!DescriptionTimer
  <1>4. ASSUME NEW t \in Text, Dialog!UpdateTitle(t)
        PROVE  IssuesAreSent'
    BY <1>4 DEF Dialog!UpdateTitle
  <1>5. ASSUME NEW t \in Text, Dialog!Describe(t)
        PROVE  IssuesAreSent'
    BY <1>5 DEF Dialog!Describe
  <1>6. ASSUME NEW i \in Idea, Dialog!UpdateIdea(i)
        PROVE  IssuesAreSent'
    BY <1>6 DEF Dialog!UpdateIdea
  <1>7. ASSUME NEW s, Dialog!UpdateStatus(s)
        PROVE  IssuesAreSent'
    BY <1>7 DEF Dialog!UpdateStatus
  <1>8. ASSUME NEW v, Dialog!UpdateRest(v)
        PROVE  IssuesAreSent'
    BY <1>8 DEF Dialog!UpdateRest
  <1>9. ASSUME NEW n \in DSlots, NEW d \in Dialog!Data, Dialog!Open(d, n)
        PROVE  IssuesAreSent'
    BY <1>9 DEF Dialog!Open, Dialog!Send, Dialog!Request, Dialog!Idle
  <1>10. ASSUME NEW n \in DSlots, Dialog!UploadFile(n)
        PROVE  IssuesAreSent'
    BY <1>10 DEF Dialog!UploadFile, Dialog!Send, Dialog!Request, Dialog!Idle
  <1>11. ASSUME NEW n \in DSlots, Dialog!Submit(n)
        PROVE  IssuesAreSent'
    BY <1>11 DEF Dialog!Submit, Dialog!Send, Dialog!Request, Dialog!Idle
  <1>12. ASSUME NEW n \in DSlots, Dialog!CreateIssue(n)
        PROVE  IssuesAreSent'
    <2>1. \A m \in DSlots : m # n => call'[m] = call[m]
      BY <1>12 DEF Dialog!CreateIssue, IssueCallShape
    <2>2. \A k \in DOMAIN row : k \in DOMAIN row' /\ row'[k] = row[k]
      BY DialogRowsStay, <1>12 DEF Dialog!Next, DSlots
    <2>3. IssueCall(call[n]) /\ [title |-> call[n].title, desc |-> call[n].desc] \in Issues
      BY DEF IssueCallShape, IssueCall, Issues
    <2>4. CASE row' = Append(row, [title |-> call[n].title, desc |-> call[n].desc])
      <3>1. /\ Len(row') \in DOMAIN row'
            /\ row'[Len(row')] = [title |-> call[n].title, desc |-> call[n].desc]
        BY <2>3, <2>4, AppendProperties
      <3>2. ASSUME call'[n].kind = "create"
            PROVE  call'[n].title = call[n].title /\ call'[n].desc = call[n].desc
        <4>1. PICK r : /\ call' = [call EXCEPT ![n] = r]
                       /\ \/ r = Dialog!Idle
                          \/ /\ r.kind = call[n].kind /\ r.old = call[n].old
                             /\ r.title = call[n].title /\ r.desc = call[n].desc
          BY <1>12, DialogAnswers
        <4> QED  BY <3>2, <4>1 DEF IssueCallShape, Dialog!Idle
      <3>3. ASSUME NEW m \in DSlots, call'[m].kind = "create", call'[m].status = "ok"
            PROVE  \E k \in DOMAIN row' : row'[k].title = call'[m].title
                                         /\ row'[k].desc = call'[m].desc
        <4>1. CASE m = n
          BY <3>1, <3>2, <3>3, <4>1
        <4>2. CASE m # n
          BY <2>1, <2>2, <3>3, <4>2
        <4> QED  BY <4>1, <4>2
      <3> QED  BY <3>3
    <2>5. CASE row' = row /\ call'[n].status # "ok"
      BY <2>1, <2>5
    <2>6. \/ row' = Append(row, [title |-> call[n].title, desc |-> call[n].desc])
          \/ row' = row /\ call'[n].status # "ok"
      BY <1>12, <2>3 DEF Dialog!CreateIssue, IssueCallShape, IssueCall, Dialog!Idle
    <2> QED  BY <2>4, <2>5, <2>6
  <1>13. ASSUME NEW n \in DSlots, Dialog!Answer(n)
        PROVE  IssuesAreSent'
    <2>1. \A m \in DSlots : m # n => call'[m] = call[m]
      BY <1>13 DEF Dialog!Answer, IssueCallShape
    <2>2. call[n].kind # "create" /\ row' = row
      BY <1>13 DEF Dialog!Answer
    <2>3. call'[n].kind = call[n].kind
      <3>1. PICK r : /\ call' = [call EXCEPT ![n] = r]
                     /\ r = Dialog!Idle \/ r.kind = call[n].kind
        BY <1>13, DialogAnswers
      <3>2. \E s : call'[n] = [call[n] EXCEPT !.status = s]
        BY <1>13 DEF Dialog!Answer, IssueCallShape
      <3> QED  BY <3>2 DEF IssueCallShape, IssueCall
    <2> QED  BY <2>1, <2>2, <2>3
  <1>14. ASSUME NEW n \in DSlots, Dialog!IdeasArrive(n)
        PROVE  IssuesAreSent'
    BY <1>14 DEF Dialog!IdeasArrive, Dialog!Freed, Dialog!Idle
  <1>15. ASSUME NEW n \in DSlots, Dialog!Uploaded(n)
        PROVE  IssuesAreSent'
    BY <1>15 DEF Dialog!Uploaded, Dialog!Freed, Dialog!Idle
  <1>16. ASSUME NEW n \in DSlots, Dialog!Created(n)
        PROVE  IssuesAreSent'
    <2>1. ASSUME NEW m \in DSlots, call'[m].kind = "create", call'[m].status = "ok"
          PROVE  /\ call[m].kind = "create" /\ call[m].status = "ok"
                 /\ call'[m].title = call[m].title /\ call'[m].desc = call[m].desc
      <3>1. IssueCall(call[m])
        BY DEF IssueCallShape
      <3>2. call'[m] = [call[m] EXCEPT !.old = call[m].kind # "idle"] \/ call'[m] = Dialog!Idle
        BY <1>16 DEF Dialog!Created, IssueCallShape
      <3>3. call'[m].kind = "create" =>
              /\ call[m].kind = "create" /\ call'[m].status = call[m].status
              /\ call'[m].title = call[m].title /\ call'[m].desc = call[m].desc
        <4> HIDE DEF DialogShape, IssuesAreSent, IssueCallShape
        <4> QED  BY <3>1, <3>2, IssueCallOld, Zenon
      <3> QED  BY <2>1, <3>3
    <2>2. row' = row
      BY <1>16 DEF Dialog!Created
    <2> QED  BY <2>1, <2>2
  <1>17. ASSUME NEW n \in DSlots, Dialog!CreateFailed(n)
        PROVE  IssuesAreSent'
    BY <1>17 DEF Dialog!CreateFailed, Dialog!Freed, Dialog!Idle
  <1> QED
    BY <1>1, <1>2, <1>3, <1>4, <1>5, <1>6, <1>7, <1>8, <1>9,
       <1>10, <1>11, <1>12, <1>13, <1>14, <1>15, <1>16, <1>17 DEF Dialog!Next, DSlots

\* What is in an issue, empty, or known to be lost, stays so until the user types again.
LEMMA TitleHadStays ==
  ASSUME TitleHad, \A k \in DOMAIN row : k \in DOMAIN row' /\ row'[k] = row[k],
         part3'.title = part3.title, part4 \subseteq part4' \cup {"desc"}
  PROVE  TitleHad'
  BY DEF TitleHad

LEMMA DescHadStays ==
  ASSUME DescHad, \A k \in DOMAIN row : k \in DOMAIN row' /\ row'[k] = row[k],
         part3'.desc = part3.desc, part4 \subseteq part4' \cup {"title"}
  PROVE  DescHad'
  BY DEF DescHad

\* What was typed last stays somewhere: a step that does not type leaves what is had, and
\* what leaves the form leaves it to the draft, to an issue, or to what is known to be lost.
LEMMA DialogKeepsTyped ==
  ASSUME DialogShape, TextInv, Dialog!Next
  PROVE  TitleKept' /\ DescKept' /\ DescShown'
  <1> USE DEF TextInv
  <1>r. \A k \in DOMAIN row : k \in DOMAIN row' /\ row'[k] = row[k]
    BY DialogRowsStay
  <1>u. ASSUME part3' = part3, part4 \subseteq part4'
        PROVE  (TitleHad => TitleHad') /\ (DescHad => DescHad')
    BY <1>r, <1>u, TitleHadStays, DescHadStays
  <1>s. ASSUME part3' = part3, part4 \subseteq part4', part2'.title = part2.title,
               part2'.desc = part2.desc, part1'.open => part1.open,
               view'.desc = view.desc, view.timer => view'.timer
        PROVE  TitleKept' /\ DescKept' /\ DescShown'
    BY <1>s, <1>u DEF TitleKept, DescKept, DescShown
  <1>1. CASE Dialog!Close
    <2>1. part3' = part3 /\ part2' = part2 /\ part4 \subseteq part4'
      BY <1>1 DEF Dialog!Close
    <2>2. view.timer => DescHad'
      BY <1>1 DEF Dialog!Close, Dialog!Unsaved, DescHad
    <2>3. ~part1'.open
      BY <1>1 DEF Dialog!Close, Dialog!Shut, Dialog!Closed
    <2> QED  BY <1>u, <2>1, <2>2, <2>3 DEF TitleKept, DescKept, DescShown
  <1>2. CASE Dialog!Reload
    <2>1. part3' = part3 /\ part2' = part2 /\ part4 \subseteq part4'
      BY <1>2 DEF Dialog!Reload
    <2>2. view.timer => DescHad'
      BY <1>2 DEF Dialog!Reload, Dialog!Unsaved, DescHad
    <2>3. ~part1'.open
      BY <1>2 DEF Dialog!Reload, Dialog!Shut, Dialog!Closed
    <2> QED  BY <1>u, <2>1, <2>2, <2>3 DEF TitleKept, DescKept, DescShown
  <1>3. CASE Dialog!DescriptionTimer
    <2>1. part3' = part3 /\ part4' = part4 /\ part1' = part1
      BY <1>3 DEF Dialog!DescriptionTimer
    <2>2. part2'.title = part2.title /\ part2'.desc = view.desc /\ view'.desc = view.desc
      BY <1>3 DEF Dialog!DescriptionTimer, DialogShape, DraftShape, FormShape
    <2>3. part1.open
      BY <1>3 DEF Dialog!DescriptionTimer, FormsClose, Dialog!NoForm
    <2> QED  BY <1>u, <2>1, <2>2, <2>3 DEF TitleKept, DescKept, DescShown
  <1>4. ASSUME NEW t \in Text, Dialog!UpdateTitle(t)
        PROVE  TitleKept' /\ DescKept' /\ DescShown'
    <2>1. part3'.title = t /\ part3'.desc = part3.desc /\ part4 \subseteq part4' \cup {"title"}
      BY <1>4 DEF Dialog!UpdateTitle, DialogShape, DraftShape
    <2>2. part2'.title = t /\ part2'.desc = part2.desc
      BY <1>4 DEF Dialog!UpdateTitle, DialogShape, DraftShape
    <2>3. view'.desc = view.desc /\ view'.timer = view.timer /\ part1' = part1
      BY <1>4 DEF Dialog!UpdateTitle, DialogShape, FormShape
    <2>4. DescHad => DescHad'
      BY <1>r, <2>1, DescHadStays
    <2> QED  BY <2>1, <2>2, <2>3, <2>4 DEF TitleKept, DescKept, DescShown
  <1>5. ASSUME NEW t \in Text, Dialog!Describe(t)
        PROVE  TitleKept' /\ DescKept' /\ DescShown'
    <2>1. part3'.desc = t /\ part3'.title = part3.title /\ part4 \subseteq part4' \cup {"desc"}
      BY <1>5 DEF Dialog!Describe, DialogShape, DraftShape
    <2>2. view'.desc = t /\ view'.timer /\ part2' = part2
      BY <1>5 DEF Dialog!Describe, DialogShape, FormShape
    <2>3. TitleHad => TitleHad'
      BY <1>r, <2>1, TitleHadStays
    <2> QED  BY <2>1, <2>2, <2>3 DEF TitleKept, DescKept, DescShown
  <1>6. ASSUME NEW i \in Idea, Dialog!UpdateIdea(i)
        PROVE  TitleKept' /\ DescKept' /\ DescShown'
    <2>1. part3' = part3 /\ part4' = part4 /\ part1' = part1
      BY <1>6 DEF Dialog!UpdateIdea
    <2>2. part2'.title = part2.title /\ part2'.desc = part2.desc
      BY <1>6 DEF Dialog!UpdateIdea, DialogShape, DraftShape
    <2>3. view'.desc = view.desc /\ (view.timer => view'.timer)
      BY <1>6 DEF Dialog!UpdateIdea, DialogShape, FormShape
    <2> QED  BY <1>s, <2>1, <2>2, <2>3
  <1>7. ASSUME NEW s, Dialog!UpdateStatus(s)
        PROVE  TitleKept' /\ DescKept' /\ DescShown'
    <2>1. part3' = part3 /\ part4' = part4 /\ part1' = part1
      BY <1>7 DEF Dialog!UpdateStatus
    <2>2. part2'.title = part2.title /\ part2'.desc = part2.desc
      BY <1>7 DEF Dialog!UpdateStatus, DialogShape, DraftShape
    <2>3. view'.desc = view.desc /\ (view.timer => view'.timer)
      BY <1>7 DEF Dialog!UpdateStatus, DialogShape, FormShape
    <2> QED  BY <1>s, <2>1, <2>2, <2>3
  <1>8. ASSUME NEW v, Dialog!UpdateRest(v)
        PROVE  TitleKept' /\ DescKept' /\ DescShown'
    <2>1. part3' = part3 /\ part4' = part4 /\ part1' = part1
      BY <1>8 DEF Dialog!UpdateRest
    <2>2. part2'.title = part2.title /\ part2'.desc = part2.desc
      BY <1>8 DEF Dialog!UpdateRest, DialogShape, DraftShape
    <2>3. view'.desc = view.desc /\ (view.timer => view'.timer)
      BY <1>8 DEF Dialog!UpdateRest, DialogShape, FormShape
    <2> QED  BY <1>s, <2>1, <2>2, <2>3
  <1>9. ASSUME NEW n \in DSlots, NEW d \in Dialog!Data, Dialog!Open(d, n)
        PROVE  TitleKept' /\ DescKept' /\ DescShown'
    <2>1. part3' = part3 /\ part4' = part4 /\ part2' = part2
      BY <1>9 DEF Dialog!Open
    <2>2. ~view.timer
      BY <1>9 DEF Dialog!Open, FormsClose, Dialog!NoForm
    <2>3. view'.desc = part2.desc
      BY <1>9 DEF Dialog!Open, Dialog!Mounted, Dialog!NoForm
    <2> QED  BY <1>u, <2>1, <2>2, <2>3 DEF TitleKept, DescKept, DescShown
  <1>10. ASSUME NEW n \in DSlots, Dialog!UploadFile(n)
        PROVE  TitleKept' /\ DescKept' /\ DescShown'
    <2>1. part3' = part3 /\ part4' = part4 /\ part1' = part1
      BY <1>10 DEF Dialog!UploadFile
    <2>2. part2'.title = part2.title /\ part2'.desc = part2.desc
      BY <1>10 DEF Dialog!UploadFile, DialogShape, DraftShape
    <2>3. view'.desc = view.desc /\ (view.timer => view'.timer)
      BY <1>10 DEF Dialog!UploadFile, DialogShape, FormShape
    <2> QED  BY <1>s, <2>1, <2>2, <2>3
  <1>11. ASSUME NEW n \in DSlots, Dialog!Submit(n)
        PROVE  TitleKept' /\ DescKept' /\ DescShown'
    <2>1. part3' = part3 /\ part4' = part4 /\ part1' = part1
      BY <1>11 DEF Dialog!Submit
    <2>2. part2'.title = part2.title /\ part2'.desc = part2.desc
      BY <1>11 DEF Dialog!Submit, DialogShape, DraftShape
    <2>3. view'.desc = view.desc /\ (view.timer => view'.timer)
      BY <1>11 DEF Dialog!Submit, DialogShape, FormShape
    <2> QED  BY <1>s, <2>1, <2>2, <2>3
  <1>12. ASSUME NEW n \in DSlots, Dialog!CreateIssue(n)
        PROVE  TitleKept' /\ DescKept' /\ DescShown'
    <2>1. part3' = part3 /\ part4' = part4 /\ part1' = part1
      BY <1>12 DEF Dialog!CreateIssue
    <2>2. part2'.title = part2.title /\ part2'.desc = part2.desc
      BY <1>12 DEF Dialog!CreateIssue, DialogShape, DraftShape
    <2>3. view'.desc = view.desc /\ (view.timer => view'.timer)
      BY <1>12 DEF Dialog!CreateIssue, DialogShape, FormShape
    <2> QED  BY <1>s, <2>1, <2>2, <2>3
  <1>13. ASSUME NEW n \in DSlots, Dialog!Answer(n)
        PROVE  TitleKept' /\ DescKept' /\ DescShown'
    <2>1. part3' = part3 /\ part4' = part4 /\ part1' = part1
      BY <1>13 DEF Dialog!Answer
    <2>2. part2'.title = part2.title /\ part2'.desc = part2.desc
      BY <1>13 DEF Dialog!Answer, DialogShape, DraftShape
    <2>3. view'.desc = view.desc /\ (view.timer => view'.timer)
      BY <1>13 DEF Dialog!Answer, DialogShape, FormShape
    <2> QED  BY <1>s, <2>1, <2>2, <2>3
  <1>14. ASSUME NEW n \in DSlots, Dialog!IdeasArrive(n)
        PROVE  TitleKept' /\ DescKept' /\ DescShown'
    <2>1. part3' = part3 /\ part4' = part4 /\ part1' = part1
      BY <1>14 DEF Dialog!IdeasArrive
    <2>2. part2'.title = part2.title /\ part2'.desc = part2.desc
      BY <1>14 DEF Dialog!IdeasArrive, DialogShape, DraftShape
    <2>3. view'.desc = view.desc /\ (view.timer => view'.timer)
      BY <1>14 DEF Dialog!IdeasArrive, DialogShape, FormShape
    <2> QED  BY <1>s, <2>1, <2>2, <2>3
  <1>15. ASSUME NEW n \in DSlots, Dialog!Uploaded(n)
        PROVE  TitleKept' /\ DescKept' /\ DescShown'
    <2>1. part3' = part3 /\ part4' = part4 /\ part1' = part1
      BY <1>15 DEF Dialog!Uploaded
    <2>2. part2'.title = part2.title /\ part2'.desc = part2.desc
      BY <1>15 DEF Dialog!Uploaded, DialogShape, DraftShape
    <2>3. view'.desc = view.desc /\ (view.timer => view'.timer)
      BY <1>15 DEF Dialog!Uploaded, DialogShape, FormShape
    <2> QED  BY <1>s, <2>1, <2>2, <2>3
  <1>16. ASSUME NEW n \in DSlots, Dialog!Created(n)
        PROVE  TitleKept' /\ DescKept' /\ DescShown'
    <2>1. part3' = part3 /\ row' = row /\ part4 \subseteq part4' /\ ~part1'.open
      BY <1>16 DEF Dialog!Created, Dialog!Shut, Dialog!Closed
    <2>2. PICK k \in DOMAIN row : row[k].title = call[n].title /\ row[k].desc = call[n].desc
      BY <1>16 DEF Dialog!Created, Dialog!Ended, IssuesAreSent
    <2>3. call[n].title # part3.title => "title" \in part4'
      BY <1>16 DEF Dialog!Created
    <2>4. call[n].desc # part3.desc => "desc" \in part4'
      BY <1>16 DEF Dialog!Created
    <2>5. TitleHad' /\ DescHad'
      BY <2>1, <2>2, <2>3, <2>4 DEF TitleHad, DescHad
    <2> QED  BY <2>1, <2>5 DEF TitleKept, DescKept, DescShown
  <1>17. ASSUME NEW n \in DSlots, Dialog!CreateFailed(n)
        PROVE  TitleKept' /\ DescKept' /\ DescShown'
    <2>1. part3' = part3 /\ part4' = part4 /\ part1' = part1
      BY <1>17 DEF Dialog!CreateFailed
    <2>2. part2'.title = part2.title /\ part2'.desc = part2.desc
      BY <1>17 DEF Dialog!CreateFailed, DialogShape, DraftShape
    <2>3. view'.desc = view.desc /\ (view.timer => view'.timer)
      BY <1>17 DEF Dialog!CreateFailed, DialogShape, FormShape
    <2> QED  BY <1>s, <2>1, <2>2, <2>3
  <1> QED
    BY <1>1, <1>2, <1>3, <1>4, <1>5, <1>6, <1>7, <1>8, <1>9, <1>10, <1>11, <1>12, <1>13,
       <1>14, <1>15, <1>16, <1>17 DEF Dialog!Next, DSlots

\* The request of the dialog that is open.
Asks(n) == call[n].kind = "create" /\ ~call[n].old

\* The dialog waits for one request at a time; one that counts as made an issue waits for
\* the answer that closes it.
OneAsks    == \A n, m \in DSlots : Asks(n) /\ Asks(m) => n = m
AskSubmits == \A n \in DSlots : Asks(n) => view.submitting
MadeOnce   == \/ view.made = 0
              \/ view.made = 1 /\ \E n \in DSlots : Asks(n) /\ call[n].status = "ok"
OrphansOld == \A n \in DSlots : call[n].kind = "orphan" => call[n].old

AskInv == OneAsks /\ AskSubmits /\ MadeOnce /\ OrphansOld

\* A dialog comes and goes with no request of its own.
LEMMA NoneAsks ==
  ASSUME view'.made = 0, \A n \in DSlots : call'[n].kind \in {"create", "orphan"} => call'[n].old
  PROVE  AskInv'
  BY DEF AskInv, OneAsks, AskSubmits, MadeOnce, OrphansOld, Asks

\* Steps that have nothing to do with submitting.
LEMMA SameAsks ==
  ASSUME AskInv, view'.made = view.made, view'.submitting = view.submitting,
         \A n \in DSlots : \/ call'[n] = call[n]
                           \/ /\ call[n].kind \notin {"create", "orphan"}
                              /\ call'[n].kind \notin {"create", "orphan"}
  PROVE  AskInv'
  <1>1. \A n \in DSlots : Asks(n)' <=> Asks(n)
    BY DEF Asks
  <1>2. OneAsks' /\ AskSubmits'
    BY <1>1 DEF AskInv, OneAsks, AskSubmits
  <1>3. MadeOnce'
    BY <1>1 DEF AskInv, MadeOnce, Asks
  <1>4. OrphansOld'
    BY DEF AskInv, OrphansOld
  <1> QED  BY <1>2, <1>3, <1>4 DEF AskInv

\* The dialog asks for one issue at a time: it can be submitted again only when the request
\* before it failed.
LEMMA DialogKeepsAsks ==
  ASSUME DialogShape, TextInv, AskInv, Dialog!Next
  PROVE  AskInv'
  <1>1. CASE Dialog!Close
    <2>1. ASSUME NEW m \in DSlots, call'[m].kind \in {"create", "orphan"}
          PROVE  call'[m].old
      <3>1. IssueCall(call[m])
        BY DEF DialogShape, IssueCallShape
      <3>2. call'[m] = [call[m] EXCEPT !.old = call[m].kind # "idle"]
        BY <1>1 DEF Dialog!Close, DialogShape, IssueCallShape, DSlots
      <3>3. call'[m].kind # "idle" => call'[m].old
        BY <3>1, <3>2, IssueCallOld, Zenon
      <3> QED  BY <2>1, <3>3
    <2>2. view'.made = 0
      BY <1>1 DEF Dialog!Close, Dialog!Shut, Dialog!NoForm
    <2> QED  BY <2>1, <2>2, NoneAsks
  <1>2. CASE Dialog!Reload
    <2>1. ASSUME NEW m \in DSlots, call'[m].kind \in {"create", "orphan"}
          PROVE  call'[m].old
      <3>1. IssueCall(call[m])
        BY DEF DialogShape, IssueCallShape
      <3>2. call'[m] = [call[m] EXCEPT !.kind = "orphan", !.old = TRUE]
            \/ call'[m] = Dialog!Idle
        BY <1>2 DEF Dialog!Reload, DialogShape, IssueCallShape, DSlots
      <3>3. call'[m].kind # "idle" => call'[m].old
        BY <3>1, <3>2, IssueCallOld, Zenon
      <3> QED  BY <2>1, <3>3
    <2>2. view'.made = 0
      BY <1>2 DEF Dialog!Reload, Dialog!Shut, Dialog!NoForm
    <2> QED  BY <2>1, <2>2, NoneAsks
  <1>3. CASE Dialog!DescriptionTimer
    <2>1. view'.made = view.made /\ view'.submitting = view.submitting
      BY <1>3 DEF Dialog!DescriptionTimer, DialogShape, FormShape
    <2>2. \A m \in DSlots : \/ call'[m] = call[m]
                            \/ /\ call[m].kind \notin {"create", "orphan"}
                               /\ call'[m].kind \notin {"create", "orphan"}
      BY <1>3 DEF Dialog!DescriptionTimer
    <2> QED  BY <2>1, <2>2, SameAsks
  <1>4. ASSUME NEW t \in Text, Dialog!UpdateTitle(t)
        PROVE  AskInv'
    <2>1. view'.made = view.made /\ view'.submitting = view.submitting
      BY <1>4 DEF Dialog!UpdateTitle, DialogShape, FormShape
    <2>2. \A m \in DSlots : \/ call'[m] = call[m]
                            \/ /\ call[m].kind \notin {"create", "orphan"}
                               /\ call'[m].kind \notin {"create", "orphan"}
      BY <1>4 DEF Dialog!UpdateTitle
    <2> QED  BY <2>1, <2>2, SameAsks
  <1>5. ASSUME NEW t \in Text, Dialog!Describe(t)
        PROVE  AskInv'
    <2>1. view'.made = view.made /\ view'.submitting = view.submitting
      BY <1>5 DEF Dialog!Describe, DialogShape, FormShape
    <2>2. \A m \in DSlots : \/ call'[m] = call[m]
                            \/ /\ call[m].kind \notin {"create", "orphan"}
                               /\ call'[m].kind \notin {"create", "orphan"}
      BY <1>5 DEF Dialog!Describe
    <2> QED  BY <2>1, <2>2, SameAsks
  <1>6. ASSUME NEW i \in Idea, Dialog!UpdateIdea(i)
        PROVE  AskInv'
    <2>1. view'.made = view.made /\ view'.submitting = view.submitting
      BY <1>6 DEF Dialog!UpdateIdea, DialogShape, FormShape
    <2>2. \A m \in DSlots : \/ call'[m] = call[m]
                            \/ /\ call[m].kind \notin {"create", "orphan"}
                               /\ call'[m].kind \notin {"create", "orphan"}
      BY <1>6 DEF Dialog!UpdateIdea
    <2> QED  BY <2>1, <2>2, SameAsks
  <1>7. ASSUME NEW s, Dialog!UpdateStatus(s)
        PROVE  AskInv'
    <2>1. view'.made = view.made /\ view'.submitting = view.submitting
      BY <1>7 DEF Dialog!UpdateStatus, DialogShape, FormShape
    <2>2. \A m \in DSlots : \/ call'[m] = call[m]
                            \/ /\ call[m].kind \notin {"create", "orphan"}
                               /\ call'[m].kind \notin {"create", "orphan"}
      BY <1>7 DEF Dialog!UpdateStatus
    <2> QED  BY <2>1, <2>2, SameAsks
  <1>8. ASSUME NEW v, Dialog!UpdateRest(v)
        PROVE  AskInv'
    <2>1. view'.made = view.made /\ view'.submitting = view.submitting
      BY <1>8 DEF Dialog!UpdateRest, DialogShape, FormShape
    <2>2. \A m \in DSlots : \/ call'[m] = call[m]
                            \/ /\ call[m].kind \notin {"create", "orphan"}
                               /\ call'[m].kind \notin {"create", "orphan"}
      BY <1>8 DEF Dialog!UpdateRest
    <2> QED  BY <2>1, <2>2, SameAsks
  <1>9. ASSUME NEW n \in DSlots, NEW d \in Dialog!Data, Dialog!Open(d, n)
        PROVE  AskInv'
    <2>1. ASSUME NEW m \in DSlots, call'[m].kind \in {"create", "orphan"}
          PROVE  call'[m].old
      BY <1>9, <2>1 DEF Dialog!Open, Dialog!Send, Dialog!Request, Dialog!Idle, TextInv, CallsClose,
                     DialogShape, IssueCallShape
    <2>2. view'.made = 0
      BY <1>9 DEF Dialog!Open, Dialog!Mounted, Dialog!NoForm
    <2> QED  BY <2>1, <2>2, NoneAsks
  <1>10. ASSUME NEW n \in DSlots, Dialog!UploadFile(n)
        PROVE  AskInv'
    <2>1. view'.made = view.made /\ view'.submitting = view.submitting
      BY <1>10 DEF Dialog!UploadFile, DialogShape, FormShape
    <2>2. \A m \in DSlots : \/ call'[m] = call[m]
                            \/ /\ call[m].kind \notin {"create", "orphan"}
                               /\ call'[m].kind \notin {"create", "orphan"}
      BY <1>10 DEF Dialog!UploadFile, Dialog!Send, Dialog!Request, Dialog!Idle,
                  DialogShape, IssueCallShape
    <2> QED  BY <2>1, <2>2, SameAsks
  <1>11. ASSUME NEW n \in DSlots, Dialog!Submit(n)
        PROVE  AskInv'
    <2>1. \A m \in DSlots : ~Asks(m)
      BY <1>11 DEF Dialog!Submit, AskInv, AskSubmits
    <2>2. view'.made = 0 /\ view'.submitting
      BY <1>11, <2>1 DEF Dialog!Submit, AskInv, MadeOnce, DialogShape, FormShape
    <2>3. /\ \A m \in DSlots : m # n => call'[m] = call[m]
          /\ call'[n].kind = "create"
      BY <1>11 DEF Dialog!Submit, Dialog!Send, Dialog!Request, Dialog!Idle, DialogShape,
               IssueCallShape
    <2> QED
      BY <2>1, <2>2, <2>3 DEF AskInv, OneAsks, AskSubmits, MadeOnce, OrphansOld, Asks
  <1>12. ASSUME NEW n \in DSlots, Dialog!CreateIssue(n)
        PROVE  AskInv'
    <2>1. \A m \in DSlots : m # n => call'[m] = call[m]
      BY <1>12 DEF Dialog!CreateIssue, DialogShape, IssueCallShape
    <2>2. \/ call'[n].kind = "idle"
          \/ call'[n].kind = call[n].kind /\ call'[n].old = call[n].old
      <3>1. PICK r : /\ call' = [call EXCEPT ![n] = r]
                     /\ \/ r = Dialog!Idle
                        \/ r.kind = call[n].kind /\ r.old = call[n].old
        BY <1>12, DialogAnswers
      <3> QED  BY <3>1 DEF Dialog!Idle, DialogShape, IssueCallShape
    <2>3. call[n].status = "sent" /\ view'.submitting = view.submitting
      BY <1>12 DEF Dialog!CreateIssue, DialogShape, FormShape
    <2>4. CASE view'.made = view.made
      BY <2>1, <2>2, <2>3, <2>4
         DEF AskInv, OneAsks, AskSubmits, MadeOnce, OrphansOld, Asks
    <2>5. CASE view'.made # view.made
      <3>1. ~call[n].old /\ view'.made = view.made + 1
        BY <1>12, <2>5 DEF Dialog!CreateIssue, DialogShape, FormShape
      <3>2. Asks(n)
        BY <1>12, <3>1 DEF Dialog!CreateIssue, AskInv, OrphansOld, Asks
      <3>3. \A m \in DSlots : m # n => ~Asks(m)
        BY <3>2 DEF AskInv, OneAsks
      <3>4. view.made = 0
        BY <2>3, <3>3 DEF AskInv, MadeOnce
      <3>5. view' = [view EXCEPT !.made = IF call[n].old THEN view.made ELSE view.made + 1]
            /\ call' = [call EXCEPT ![n] = IF call[n].kind = "orphan" THEN Dialog!Idle
                          ELSE [call[n] EXCEPT !.status = "ok", !.issue = Len(row')]]
        BY <1>12, <2>5 DEF Dialog!CreateIssue
      <3>6. call'[n] = [call[n] EXCEPT !.status = "ok", !.issue = Len(row')]
        BY <3>2, <3>5 DEF Asks, DialogShape, IssueCallShape
      <3>7. call'[n].status = "ok" /\ call'[n].kind = "create" /\ ~call'[n].old
        BY <3>2, <3>6 DEF Asks, DialogShape, IssueCallShape, IssueCall
      <3> QED
        BY <2>1, <2>3, <3>1, <3>2, <3>3, <3>4, <3>7
        DEF AskInv, OneAsks, AskSubmits, MadeOnce, OrphansOld, Asks
    <2> QED  BY <2>4, <2>5
  <1>13. ASSUME NEW n \in DSlots, Dialog!Answer(n)
        PROVE  AskInv'
    <2>1. view'.made = view.made /\ view'.submitting = view.submitting
      BY <1>13 DEF Dialog!Answer, DialogShape, FormShape
    <2>2. \A m \in DSlots : \/ call'[m] = call[m]
                            \/ /\ call[m].kind \notin {"create", "orphan"}
                               /\ call'[m].kind \notin {"create", "orphan"}
      <3>1. PICK r : /\ call' = [call EXCEPT ![n] = r]
                     /\ r = Dialog!Idle \/ r.kind = call[n].kind
        BY <1>13, DialogAnswers
      <3>2. call[n].kind \in {"ideas", "upload"}
        BY <1>13 DEF Dialog!Answer
      <3> QED  BY <3>1, <3>2 DEF Dialog!Idle, DialogShape, IssueCallShape
    <2> QED  BY <2>1, <2>2, SameAsks
  <1>14. ASSUME NEW n \in DSlots, Dialog!IdeasArrive(n)
        PROVE  AskInv'
    <2>1. view'.made = view.made /\ view'.submitting = view.submitting
      BY <1>14 DEF Dialog!IdeasArrive, DialogShape, FormShape
    <2>2. \A m \in DSlots : \/ call'[m] = call[m]
                            \/ /\ call[m].kind \notin {"create", "orphan"}
                               /\ call'[m].kind \notin {"create", "orphan"}
      BY <1>14 DEF Dialog!IdeasArrive, Dialog!Freed, Dialog!Ended, Dialog!Idle,
                  DialogShape, IssueCallShape
    <2> QED  BY <2>1, <2>2, SameAsks
  <1>15. ASSUME NEW n \in DSlots, Dialog!Uploaded(n)
        PROVE  AskInv'
    <2>1. view'.made = view.made /\ view'.submitting = view.submitting
      BY <1>15 DEF Dialog!Uploaded, DialogShape, FormShape
    <2>2. \A m \in DSlots : \/ call'[m] = call[m]
                            \/ /\ call[m].kind \notin {"create", "orphan"}
                               /\ call'[m].kind \notin {"create", "orphan"}
      BY <1>15 DEF Dialog!Uploaded, Dialog!Freed, Dialog!Ended, Dialog!Idle,
                  DialogShape, IssueCallShape
    <2> QED  BY <2>1, <2>2, SameAsks
  <1>16. ASSUME NEW n \in DSlots, Dialog!Created(n)
        PROVE  AskInv'
    <2>1. ASSUME NEW m \in DSlots, call'[m].kind \in {"create", "orphan"}
          PROVE  call'[m].old
      <3>1. IssueCall(call[m])
        BY DEF DialogShape, IssueCallShape
      <3>2. call'[m] = [call[m] EXCEPT !.old = call[m].kind # "idle"]
            \/ call'[m] = Dialog!Idle
        BY <1>16 DEF Dialog!Created, DialogShape, IssueCallShape, DSlots
      <3>3. call'[m].kind # "idle" => call'[m].old
        BY <3>1, <3>2, IssueCallOld, Zenon
      <3> QED  BY <2>1, <3>3
    <2>2. view'.made = 0
      BY <1>16 DEF Dialog!Created, Dialog!Shut, Dialog!NoForm
    <2> QED  BY <2>1, <2>2, NoneAsks
  <1>17. ASSUME NEW n \in DSlots, Dialog!CreateFailed(n)
        PROVE  AskInv'
    <2>1. /\ \A m \in DSlots : m # n => call'[m] = call[m]
          /\ call'[n].kind = "idle" /\ call[n].kind = "create" /\ call[n].status = "error"
      BY <1>17 DEF Dialog!CreateFailed, Dialog!Freed, Dialog!Ended, Dialog!Idle, DialogShape,
               IssueCallShape
    <2>2. view'.made = view.made
      BY <1>17 DEF Dialog!CreateFailed, DialogShape, FormShape
    <2>3. CASE call[n].old
      <3>1. view' = view
        BY <1>17, <2>3 DEF Dialog!CreateFailed
      <3> QED
        BY <2>1, <2>3, <3>1 DEF AskInv, OneAsks, AskSubmits, MadeOnce, OrphansOld, Asks
    <2>4. CASE ~call[n].old
      <3>1. \A m \in DSlots : m # n => ~Asks(m)
        BY <2>1, <2>4 DEF AskInv, OneAsks, Asks
      <3>2. view.made = 0
        BY <2>1, <3>1 DEF AskInv, MadeOnce, Asks
      <3> QED
        BY <2>1, <2>2, <3>1, <3>2 DEF AskInv, OneAsks, AskSubmits, MadeOnce, OrphansOld, Asks
    <2> QED  BY <2>3, <2>4
  <1> QED
    BY <1>1, <1>2, <1>3, <1>4, <1>5, <1>6, <1>7, <1>8, <1>9,
       <1>10, <1>11, <1>12, <1>13, <1>14, <1>15, <1>16, <1>17 DEF Dialog!Next, DSlots

DialogInv == DialogShape /\ TextInv /\ AskInv

LEMMA DialogStarts == DialogMounted => DialogInv
  <1> SUFFICES ASSUME Dialog!Init PROVE DialogInv  BY DEF DialogMounted
  <1>1. part1 = Dialog!Closed /\ view = Dialog!NoForm /\ row = <<>> /\ part4 = {}
    BY DEF Dialog!Init
  <1>2. call = [n \in DSlots |-> Dialog!Idle]
    BY DEF Dialog!Init, DSlots
  <1>3. part3 = [title |-> part2.title, desc |-> part2.desc]
    BY DEF Dialog!Init
  <1>4. FormShape
    BY <1>1 DEF FormShape, Dialog!NoForm, Typing
  <1>5. DraftShape
    <2>1. /\ part2 = [title |-> part2.title, desc |-> part2.desc, pic |-> part2.pic,
                      idea |-> part2.idea, status |-> part2.status, rest |-> part2.rest]
          /\ part2.title \in {0, 1} /\ part2.desc \in {0, 1}
      <3>1. CASE part2 = Dialog!Empty
        BY <3>1 DEF Dialog!Empty
      <3>2. CASE \E i \in Idea : part2 = [Dialog!Empty EXCEPT !.title = 1, !.desc = 1, !.idea = i]
        BY <3>2 DEF Dialog!Empty
      <3> QED  BY <3>1, <3>2 DEF Dialog!Init
    <2> QED  BY <1>3, <2>1 DEF DraftShape, Typing
  <1>6. IssueCallShape
    BY <1>2 DEF IssueCallShape, IssueCall, Dialog!Idle, Typing
  <1>7. row \in Seq(Issues)
    BY <1>1
  <1>8. TextInv
    BY <1>1, <1>2, <1>3 DEF TextInv, FormsClose, CallsClose, IssuesAreSent, TitleKept, DescKept,
       DescShown, Dialog!Closed, Dialog!Idle
  <1>9. AskInv
    BY <1>1, <1>2 DEF AskInv, OneAsks, AskSubmits, MadeOnce, OrphansOld, Asks, Dialog!NoForm,
       Dialog!Idle
  <1> QED  BY <1>4, <1>5, <1>6, <1>7, <1>8, <1>9 DEF DialogInv, DialogShape

\* The dialog is mounted in its invariant, every step keeps it, and it says that what was
\* typed is kept, in one issue at most.
LEMMA DialogSafe ==
  /\ DialogMounted => DialogInv
  /\ DialogInv /\ Dialog!Next => DialogInv'
  /\ DialogInv /\ UNCHANGED pageVars => DialogInv'
  /\ DialogInv => Dialog!TypedIsKept /\ Dialog!OneIssue
  <1>1. DialogMounted => DialogInv
    BY DialogStarts
  <1>2. ASSUME DialogInv, Dialog!Next PROVE DialogInv'
    <2>1. DialogShape'
      BY <1>2, DialogKeepsForm, DialogKeepsDraft, DialogKeepsCalls, DialogKeepsRows
      DEF DialogInv, DialogShape
    <2>2. TextInv'
      BY <1>2, DialogKeepsFormClosed, DialogKeepsCallsClosed, DialogKeepsSent,
         DialogKeepsTyped DEF DialogInv, TextInv
    <2>3. AskInv'
      BY <1>2, DialogKeepsAsks DEF DialogInv
    <2> QED  BY <2>1, <2>2, <2>3 DEF DialogInv
  <1>3. ASSUME DialogInv, UNCHANGED pageVars PROVE DialogInv'
    BY <1>3 DEF DialogInv, DialogShape, FormShape, DraftShape, IssueCallShape, IssueCall,
       TextInv, FormsClose, CallsClose, IssuesAreSent, TitleKept, DescKept, DescShown,
       TitleHad, DescHad, AskInv, OneAsks, AskSubmits, MadeOnce, OrphansOld, Asks, pageVars
  <1>4. DialogInv => Dialog!TypedIsKept /\ Dialog!OneIssue
    <2> SUFFICES ASSUME DialogInv PROVE Dialog!TypedIsKept /\ Dialog!OneIssue
      OBVIOUS
    <2>1. Dialog!OneIssue
      BY DEF DialogInv, AskInv, MadeOnce, Dialog!OneIssue
    <2>2. Dialog!TypedIsKept
      BY DEF DialogInv, TextInv, TitleKept, DescKept, TitleHad, DescHad, Dialog!TypedIsKept
    <2> QED  BY <2>1, <2>2
  <1> QED  BY <1>1, <1>2, <1>3, <1>4

-----------------------------------------------------------------------------
(* The live card of an issue: in view, the card; in row, the tasks; in     *)
(* part2, the tasks whose end the card could not learn.                    *)

LSlots == Slots["live"]

TaskOrNone == Task \cup {0}
TaskEvents == [kind : {"dispatch", "message"} \cup Live!Over, task : TaskOrNone, seq : Nat]

CardShape ==
    /\ view = [task |-> view.task, items |-> view.items, cancelling |-> view.cancelling,
               stuck |-> view.stuck, scroll |-> view.scroll]
    /\ view.task \in TaskOrNone

TaskCall(r) ==
    /\ r = [kind |-> r.kind, status |-> r.status, task |-> r.task, msgs |-> r.msgs,
            list |-> r.list]
    /\ r.task \in TaskOrNone /\ (r.kind = "cancel" => r.task \in Task)

TaskCallShape ==
    /\ call = [n \in LSlots |-> call[n]]
    /\ \A n \in LSlots : TaskCall(call[n])

TaskShape ==
    /\ row = [t \in Task |-> row[t]]
    /\ \A t \in Task : row[t] = [status |-> row[t].status, msgs |-> row[t].msgs]
    /\ \A t \in Task : row[t].msgs \in Nat

LiveShape == CardShape /\ TaskCallShape /\ TaskShape /\ wire \in Seq(TaskEvents)

\* The task of an answer is the newest active one, or there is none.
LEMMA ActiveTaskActive == Live!ActiveTask \in Live!Active \cup {0}
  <1>1. CASE Live!Active = {}
    BY <1>1 DEF Live!ActiveTask
  <1>2. CASE Live!Active # {}
    <2>1. \E t \in Live!Active : \A u \in Live!Active : u <= t
      BY <1>2, TasksInOrder DEF Live!Active
    <2> QED  BY <1>2, <2>1 DEF Live!ActiveTask
  <1> QED  BY <1>1, <1>2

\* A request with another status or answer is a request.
LEMMA TaskCallField ==
  ASSUME NEW r, TaskCall(r), NEW v
  PROVE  /\ TaskCall([r EXCEPT !.status = v])
         /\ TaskCall([r EXCEPT !.msgs = v])
         /\ TaskCall([r EXCEPT !.list = v])
         /\ v \in TaskOrNone /\ r.kind # "cancel" => TaskCall([r EXCEPT !.task = v])
         /\ [r EXCEPT !.status = v].kind = r.kind
  <1>1. TaskCall([r EXCEPT !.status = v])
    <2>1. [r EXCEPT !.status = v] =
            [kind |-> r.kind, status |-> v, task |-> r.task, msgs |-> r.msgs, list |-> r.list]
      BY DEF TaskCall
    <2> QED  BY <2>1 DEF TaskCall
  <1>2. TaskCall([r EXCEPT !.msgs = v])
    <2>1. [r EXCEPT !.msgs = v] =
            [kind |-> r.kind, status |-> r.status, task |-> r.task, msgs |-> v, list |-> r.list]
      BY DEF TaskCall
    <2> QED  BY <2>1 DEF TaskCall
  <1>3. TaskCall([r EXCEPT !.list = v])
    <2>1. [r EXCEPT !.list = v] =
            [kind |-> r.kind, status |-> r.status, task |-> r.task, msgs |-> r.msgs, list |-> v]
      BY DEF TaskCall
    <2> QED  BY <2>1 DEF TaskCall
  <1>4. v \in TaskOrNone /\ r.kind # "cancel" => TaskCall([r EXCEPT !.task = v])
    <2>1. [r EXCEPT !.task = v] =
            [kind |-> r.kind, status |-> r.status, task |-> v, msgs |-> r.msgs, list |-> r.list]
      BY DEF TaskCall
    <2> QED  BY <2>1 DEF TaskCall
  <1>5. [r EXCEPT !.status = v].kind = r.kind
    BY DEF TaskCall
  <1> QED  BY <1>1, <1>2, <1>3, <1>4, <1>5

\* What the steps make of a request.
LEMMA TaskCallChanges ==
  ASSUME NEW r, TaskCall(r), NEW v
  PROVE  /\ TaskCall([r EXCEPT !.status = v])
         /\ TaskCall([r EXCEPT !.status = "ok", !.msgs = v])
         /\ TaskCall([r EXCEPT !.status = "ok", !.list = v])
         /\ v \in TaskOrNone /\ r.kind # "cancel" =>
              TaskCall([r EXCEPT !.status = "ok", !.task = v])
  <1>1. \A q, w : TaskCall(q) => /\ TaskCall([q EXCEPT !.status = w])
                                 /\ [q EXCEPT !.status = w].kind = q.kind
    BY TaskCallField
  <1>2. \A q, w : TaskCall(q) => TaskCall([q EXCEPT !.msgs = w])
    BY TaskCallField
  <1>3. \A q, w : TaskCall(q) => TaskCall([q EXCEPT !.list = w])
    BY TaskCallField
  <1>4. \A q, w : TaskCall(q) /\ w \in TaskOrNone /\ q.kind # "cancel" =>
                   TaskCall([q EXCEPT !.task = w])
    BY TaskCallField
  <1> QED  BY <1>1, <1>2, <1>3, <1>4, Zenon

LEMMA TaskCallIdle == TaskCall(Live!Idle)
  BY DEF TaskCall, Live!Idle, TaskOrNone

LEMMA TaskCallStarts ==
  ASSUME NEW k, NEW t \in TaskOrNone, k = "cancel" => t \in Task
  PROVE  TaskCall(Live!Request(k, t))
  <1> DEFINE a == [Live!Idle EXCEPT !.kind = k]
             b == [a EXCEPT !.status = "sent"]
             c == [b EXCEPT !.task = t]
  <1>1. Live!Request(k, t) = c
    BY DEF Live!Request
  <1>2. a = [kind |-> k, status |-> "idle", task |-> 0, msgs |-> {}, list |-> {}]
    BY DEF Live!Idle
  <1> HIDE DEF a
  <1>3. b = [kind |-> k, status |-> "sent", task |-> 0, msgs |-> {}, list |-> {}]
    BY <1>2
  <1> HIDE DEF b
  <1>4. c = [kind |-> k, status |-> "sent", task |-> t, msgs |-> {}, list |-> {}]
    BY <1>3
  <1> HIDE DEF c
  <1> QED  BY <1>1, <1>4 DEF TaskCall

\* An answer of the server to a request.
TaskAnswer(q, r) ==
    \/ /\ q.kind \in {"mount", "dispatch"} /\ row' = row
       /\ r = [q EXCEPT !.status = "ok", !.task = Live!ActiveTask]
    \/ /\ q.kind \notin {"mount", "dispatch"}
       /\ \/ \E v : r = [q EXCEPT !.status = "ok", !.msgs = v]
          \/ \E v : r = [q EXCEPT !.status = "ok", !.list = v]
          \/ r = [q EXCEPT !.status = "ok"]
    \/ r = [q EXCEPT !.status = "error"]

LEMMA TaskAnswers ==
  ASSUME TaskCallShape, NEW n \in LSlots, Live!Answer(n)
  PROVE  call' = [call EXCEPT ![n] = call'[n]] /\ TaskAnswer(call[n], call'[n])
  <1> DEFINE ok == [call EXCEPT ![n].status = "ok"]
  <1>1. /\ call = [m \in LSlots |-> call[m]]
        /\ ok = [m \in LSlots |-> ok[m]] /\ ok[n] = [call[n] EXCEPT !.status = "ok"]
        /\ \A m \in LSlots : m # n => ok[m] = call[m]
    BY DEF TaskCallShape
  <1>2. \/ /\ call[n].kind \in {"mount", "dispatch"} /\ row' = row
           /\ call' = [ok EXCEPT ![n].task = Live!ActiveTask]
        \/ /\ call[n].kind \notin {"mount", "dispatch"}
           /\ \/ \E v : call' = [ok EXCEPT ![n].msgs = v]
              \/ \E v : call' = [ok EXCEPT ![n].list = v]
              \/ call' = ok
        \/ call' = [call EXCEPT ![n].status = "error"]
    BY DEF Live!Answer
  <1> HIDE DEF ok
  <1>3. CASE call[n].kind \in {"mount", "dispatch"} /\ row' = row
               /\ call' = [ok EXCEPT ![n].task = Live!ActiveTask]
    BY <1>1, <1>3 DEF TaskAnswer
  <1>4. CASE call[n].kind \notin {"mount", "dispatch"}
               /\ \E v : call' = [ok EXCEPT ![n].msgs = v]
    <2>1. PICK v : call' = [ok EXCEPT ![n].msgs = v]
      BY <1>4
    <2>2. /\ call'[n] = [ok[n] EXCEPT !.msgs = v]
          /\ call' = [call EXCEPT ![n] = call'[n]]
      BY <1>1, <2>1
    <2>3. call'[n] = [call[n] EXCEPT !.status = "ok", !.msgs = v]
      BY <1>1, <2>2
    <2> QED  BY <1>4, <2>2, <2>3 DEF TaskAnswer
  <1>5. CASE call[n].kind \notin {"mount", "dispatch"}
               /\ \E v : call' = [ok EXCEPT ![n].list = v]
    <2>1. PICK v : call' = [ok EXCEPT ![n].list = v]
      BY <1>5
    <2>2. /\ call'[n] = [ok[n] EXCEPT !.list = v]
          /\ call' = [call EXCEPT ![n] = call'[n]]
      BY <1>1, <2>1
    <2>3. call'[n] = [call[n] EXCEPT !.status = "ok", !.list = v]
      BY <1>1, <2>2
    <2> QED  BY <1>5, <2>2, <2>3 DEF TaskAnswer
  <1>6. CASE call[n].kind \notin {"mount", "dispatch"} /\ call' = ok
    BY <1>1, <1>6 DEF TaskAnswer
  <1>7. CASE call' = [call EXCEPT ![n].status = "error"]
    BY <1>1, <1>7 DEF TaskAnswer
  <1> QED  BY <1>2, <1>3, <1>4, <1>5, <1>6, <1>7

\* No step of the card changes the fields of its requests.
LEMMA LiveKeepsCalls ==
  ASSUME LiveShape, Live!Next
  PROVE  TaskCallShape'
  <1> USE DEF LiveShape
  <1>1. CASE Live!ScrollPage
    BY <1>1 DEF Live!ScrollPage, TaskCallShape
  <1>2. CASE Live!ScrollItems
    BY <1>2 DEF Live!ScrollItems, TaskCallShape
  <1>3. CASE Live!OpenHistory
    BY <1>3 DEF Live!OpenHistory, TaskCallShape
  <1>4. CASE Live!ConnectionDrops
    BY <1>4 DEF Live!ConnectionDrops, TaskCallShape
  <1>5. CASE Live!OnMessage
    BY <1>5 DEF Live!OnMessage, TaskCallShape
  <1>6. ASSUME NEW t \in Task, Live!Dispatch(t)
        PROVE  TaskCallShape'
    BY <1>6 DEF Live!Dispatch, TaskCallShape
  <1>7. ASSUME NEW t \in Task, Live!Report(t)
        PROVE  TaskCallShape'
    BY <1>7 DEF Live!Report, TaskCallShape
  <1>8. ASSUME NEW t \in Task, Live!ShutEntry(t)
        PROVE  TaskCallShape'
    BY <1>8 DEF Live!ShutEntry, TaskCallShape
  <1>9. ASSUME NEW t \in Task, NEW s \in Live!Over, Live!Finish(t, s)
        PROVE  TaskCallShape'
    BY <1>9 DEF Live!Finish, TaskCallShape
  <1>10. ASSUME NEW n \in LSlots, NEW t \in Task, Live!OpenEntry(t, n)
        PROVE  TaskCallShape'
    <2>1. call' = call \/ \E r : call' = [call EXCEPT ![n] = r] /\ TaskCall(r)
      BY <1>10, TaskCallStarts DEF Live!OpenEntry, Live!Send, TaskOrNone
    <2> QED  BY <2>1 DEF TaskCallShape
  <1>11. ASSUME NEW n \in LSlots, Live!Cancel(n)
        PROVE  TaskCallShape'
    <2>1. \E r : call' = [call EXCEPT ![n] = r] /\ TaskCall(r)
      BY <1>11, TaskCallStarts DEF Live!Cancel, Live!Send, CardShape, TaskOrNone
    <2> QED  BY <2>1 DEF TaskCallShape
  <1>12. ASSUME NEW n \in LSlots, Live!Answer(n)
        PROVE  TaskCallShape'
    <2>1. TaskCall(call[n]) /\ Live!ActiveTask \in TaskOrNone
      BY ActiveTaskActive DEF TaskCallShape, Live!Active, TaskOrNone
    <2>2. TaskCall(call'[n])
      <3>1. TaskAnswer(call[n], call'[n])
        BY <1>12, TaskAnswers
      <3>2. \A v : /\ TaskCall([call[n] EXCEPT !.status = v])
                   /\ TaskCall([call[n] EXCEPT !.status = "ok", !.msgs = v])
                   /\ TaskCall([call[n] EXCEPT !.status = "ok", !.list = v])
                   /\ v \in TaskOrNone /\ call[n].kind # "cancel" =>
                        TaskCall([call[n] EXCEPT !.status = "ok", !.task = v])
        BY <2>1, TaskCallChanges
      <3>3. call[n].kind \in {"mount", "dispatch"} => call[n].kind # "cancel"
        OBVIOUS
      <3> QED  BY <2>1, <3>1, <3>2, <3>3, Zenon DEF TaskAnswer
    <2> QED  BY <1>12, <2>2, TaskAnswers DEF TaskCallShape
  <1>13. ASSUME NEW n \in LSlots, Live!OnEnd(n)
        PROVE  TaskCallShape'
    <2>1. \E r : call' = [call EXCEPT ![n] = r] /\ TaskCall(r)
      BY <1>13, TaskCallStarts DEF Live!OnEnd, Live!Send, TaskOrNone
    <2> QED  BY <2>1 DEF TaskCallShape
  <1>14. ASSUME NEW n \in LSlots, Live!OnDispatch(n)
        PROVE  TaskCallShape'
    <2>1. call' = call \/ \E r : call' = [call EXCEPT ![n] = r] /\ TaskCall(r)
      BY <1>14, TaskCallStarts DEF Live!OnDispatch, Live!Send, TaskOrNone
    <2> QED  BY <2>1 DEF TaskCallShape
  <1>15. ASSUME NEW n \in LSlots, Live!Mounted(n)
        PROVE  TaskCallShape'
    <2>1. call[n].task \in TaskOrNone /\ 0 \in TaskOrNone
      BY DEF TaskCallShape, TaskCall, TaskOrNone
    <2>2. \E r : call' = [call EXCEPT ![n] = r] /\ TaskCall(r)
      BY <1>15, <2>1, TaskCallStarts, TaskCallIdle DEF Live!Mounted, Live!Freed
    <2> QED  BY <2>2 DEF TaskCallShape
  <1>16. ASSUME NEW n \in LSlots, Live!ItemsArrive(n)
        PROVE  TaskCallShape'
    <2>1. call' = [call EXCEPT ![n] = Live!Idle]
      BY <1>16 DEF Live!ItemsArrive, Live!Freed
    <2>2. TaskCall(Live!Idle)
      BY TaskCallIdle
    <2> QED  BY <2>1, <2>2 DEF TaskCallShape
  <1>17. ASSUME NEW n \in LSlots, Live!Dispatched(n)
        PROVE  TaskCallShape'
    <2>1. call' = [call EXCEPT ![n] = Live!Idle]
      BY <1>17 DEF Live!Dispatched, Live!Freed
    <2>2. TaskCall(Live!Idle)
      BY TaskCallIdle
    <2> QED  BY <2>1, <2>2 DEF TaskCallShape
  <1>18. ASSUME NEW n \in LSlots, Live!Cancelled(n)
        PROVE  TaskCallShape'
    <2>1. call' = [call EXCEPT ![n] = Live!Idle]
      BY <1>18 DEF Live!Cancelled, Live!Freed
    <2>2. TaskCall(Live!Idle)
      BY TaskCallIdle
    <2> QED  BY <2>1, <2>2 DEF TaskCallShape
  <1>19. ASSUME NEW n \in LSlots, Live!HistoryArrives(n)
        PROVE  TaskCallShape'
    <2>1. call' = [call EXCEPT ![n] = Live!Idle]
      BY <1>19 DEF Live!HistoryArrives, Live!Freed
    <2>2. TaskCall(Live!Idle)
      BY TaskCallIdle
    <2> QED  BY <2>1, <2>2 DEF TaskCallShape
  <1>20. ASSUME NEW n \in LSlots, Live!MessagesArrive(n)
        PROVE  TaskCallShape'
    <2>1. call' = [call EXCEPT ![n] = Live!Idle]
      BY <1>20 DEF Live!MessagesArrive, Live!Freed
    <2>2. TaskCall(Live!Idle)
      BY TaskCallIdle
    <2> QED  BY <2>1, <2>2 DEF TaskCallShape
  <1> QED
    BY <1>1, <1>2, <1>3, <1>4, <1>5, <1>6, <1>7, <1>8, <1>9, <1>10,
       <1>11, <1>12, <1>13, <1>14, <1>15, <1>16, <1>17, <1>18, <1>19, <1>20
    DEF Live!Next, LSlots

\* The card shows a task or none.
LEMMA LiveKeepsCard ==
  ASSUME LiveShape, Live!Next
  PROVE  CardShape'
  <1> USE DEF LiveShape, CardShape
  <1>1. CASE Live!ScrollPage
    BY <1>1 DEF Live!ScrollPage
  <1>2. CASE Live!ScrollItems
    BY <1>2 DEF Live!ScrollItems
  <1>3. CASE Live!OpenHistory
    BY <1>3 DEF Live!OpenHistory
  <1>4. CASE Live!ConnectionDrops
    BY <1>4 DEF Live!ConnectionDrops
  <1>5. CASE Live!OnMessage
    BY <1>5 DEF Live!OnMessage
  <1>6. ASSUME NEW t \in Task, Live!Dispatch(t)
        PROVE  CardShape'
    BY <1>6 DEF Live!Dispatch
  <1>7. ASSUME NEW t \in Task, Live!Report(t)
        PROVE  CardShape'
    BY <1>7 DEF Live!Report
  <1>8. ASSUME NEW t \in Task, Live!ShutEntry(t)
        PROVE  CardShape'
    BY <1>8 DEF Live!ShutEntry
  <1>9. ASSUME NEW t \in Task, NEW s \in Live!Over, Live!Finish(t, s)
        PROVE  CardShape'
    BY <1>9 DEF Live!Finish
  <1>10. ASSUME NEW n \in LSlots, NEW t \in Task, Live!OpenEntry(t, n)
        PROVE  CardShape'
    BY <1>10 DEF Live!OpenEntry
  <1>11. ASSUME NEW n \in LSlots, Live!Cancel(n)
        PROVE  CardShape'
    BY <1>11 DEF Live!Cancel
  <1>12. ASSUME NEW n \in LSlots, Live!Answer(n)
        PROVE  CardShape'
    BY <1>12 DEF Live!Answer
  <1>13. ASSUME NEW n \in LSlots, Live!OnEnd(n)
        PROVE  CardShape'
    BY <1>13 DEF Live!OnEnd, TaskOrNone
  <1>14. ASSUME NEW n \in LSlots, Live!OnDispatch(n)
        PROVE  CardShape'
    BY <1>14 DEF Live!OnDispatch
  <1>15. ASSUME NEW n \in LSlots, Live!Mounted(n)
        PROVE  CardShape'
    BY <1>15 DEF Live!Mounted, TaskCallShape, TaskCall
  <1>16. ASSUME NEW n \in LSlots, Live!ItemsArrive(n)
        PROVE  CardShape'
    BY <1>16 DEF Live!ItemsArrive
  <1>17. ASSUME NEW n \in LSlots, Live!Dispatched(n)
        PROVE  CardShape'
    BY <1>17 DEF Live!Dispatched, TaskCallShape, TaskCall
  <1>18. ASSUME NEW n \in LSlots, Live!Cancelled(n)
        PROVE  CardShape'
    BY <1>18 DEF Live!Cancelled
  <1>19. ASSUME NEW n \in LSlots, Live!HistoryArrives(n)
        PROVE  CardShape'
    BY <1>19 DEF Live!HistoryArrives
  <1>20. ASSUME NEW n \in LSlots, Live!MessagesArrive(n)
        PROVE  CardShape'
    BY <1>20 DEF Live!MessagesArrive
  <1> QED
    BY <1>1, <1>2, <1>3, <1>4, <1>5, <1>6, <1>7, <1>8, <1>9, <1>10,
       <1>11, <1>12, <1>13, <1>14, <1>15, <1>16, <1>17, <1>18, <1>19, <1>20
    DEF Live!Next, LSlots

\* No step of the server changes the fields of its tasks.
LEMMA LiveKeepsTasks ==
  ASSUME LiveShape, Live!Next
  PROVE  TaskShape'
  <1> USE DEF LiveShape, TaskShape
  <1>1. CASE Live!ScrollPage
    BY <1>1 DEF Live!ScrollPage
  <1>2. CASE Live!ScrollItems
    BY <1>2 DEF Live!ScrollItems
  <1>3. CASE Live!OpenHistory
    BY <1>3 DEF Live!OpenHistory
  <1>4. CASE Live!ConnectionDrops
    BY <1>4 DEF Live!ConnectionDrops
  <1>5. CASE Live!OnMessage
    BY <1>5 DEF Live!OnMessage
  <1>6. ASSUME NEW t \in Task, Live!Dispatch(t)
        PROVE  TaskShape'
    BY <1>6 DEF Live!Dispatch
  <1>7. ASSUME NEW t \in Task, Live!Report(t)
        PROVE  TaskShape'
    BY <1>7 DEF Live!Report
  <1>8. ASSUME NEW t \in Task, Live!ShutEntry(t)
        PROVE  TaskShape'
    BY <1>8 DEF Live!ShutEntry
  <1>9. ASSUME NEW t \in Task, NEW s \in Live!Over, Live!Finish(t, s)
        PROVE  TaskShape'
    BY <1>9 DEF Live!Finish
  <1>10. ASSUME NEW n \in LSlots, NEW t \in Task, Live!OpenEntry(t, n)
        PROVE  TaskShape'
    BY <1>10 DEF Live!OpenEntry
  <1>11. ASSUME NEW n \in LSlots, Live!Cancel(n)
        PROVE  TaskShape'
    BY <1>11 DEF Live!Cancel
  <1>12. ASSUME NEW n \in LSlots, Live!Answer(n)
        PROVE  TaskShape'
    <2>1. row' = row \/ row' = [row EXCEPT ![call[n].task].status = "cancelled"]
      BY <1>12 DEF Live!Answer
    <2>2. CASE call[n].task \notin Task /\ row' # row
      BY <2>1, <2>2
    <2>3. CASE call[n].task \in Task /\ row' # row
      BY <2>1, <2>3
    <2> QED  BY <2>2, <2>3
  <1>13. ASSUME NEW n \in LSlots, Live!OnEnd(n)
        PROVE  TaskShape'
    BY <1>13 DEF Live!OnEnd
  <1>14. ASSUME NEW n \in LSlots, Live!OnDispatch(n)
        PROVE  TaskShape'
    BY <1>14 DEF Live!OnDispatch
  <1>15. ASSUME NEW n \in LSlots, Live!Mounted(n)
        PROVE  TaskShape'
    BY <1>15 DEF Live!Mounted
  <1>16. ASSUME NEW n \in LSlots, Live!ItemsArrive(n)
        PROVE  TaskShape'
    BY <1>16 DEF Live!ItemsArrive
  <1>17. ASSUME NEW n \in LSlots, Live!Dispatched(n)
        PROVE  TaskShape'
    BY <1>17 DEF Live!Dispatched
  <1>18. ASSUME NEW n \in LSlots, Live!Cancelled(n)
        PROVE  TaskShape'
    BY <1>18 DEF Live!Cancelled
  <1>19. ASSUME NEW n \in LSlots, Live!HistoryArrives(n)
        PROVE  TaskShape'
    BY <1>19 DEF Live!HistoryArrives
  <1>20. ASSUME NEW n \in LSlots, Live!MessagesArrive(n)
        PROVE  TaskShape'
    BY <1>20 DEF Live!MessagesArrive
  <1> QED
    BY <1>1, <1>2, <1>3, <1>4, <1>5, <1>6, <1>7, <1>8, <1>9, <1>10,
       <1>11, <1>12, <1>13, <1>14, <1>15, <1>16, <1>17, <1>18, <1>19, <1>20
    DEF Live!Next, LSlots

\* The end of a task, on its way.
EndComes(t) == \E i \in DOMAIN wire : wire[i].kind \in Live!Over /\ wire[i].task = t

\* The task works, or its end is on its way, or it is one whose end the card could not learn.
Told(t) == t \in Live!Active \cup part2 \/ EndComes(t)

\* The card, and the answers that still name a task, are told of its end.
CardTold  == view.task # 0 => Told(view.task)
Names(n)  == call[n].kind \in {"mount", "dispatch"} /\ call[n].status = "ok" /\ call[n].task # 0
CallsTold == \A n \in LSlots : Names(n) => Told(call[n].task)

LiveInv == LiveShape /\ CardTold /\ CallsTold

LEMMA WireAppended ==
  ASSUME wire \in Seq(TaskEvents), NEW e \in TaskEvents, wire' = Append(wire, e)
  PROVE  /\ wire' \in Seq(TaskEvents)
         /\ \A i \in DOMAIN wire : i \in DOMAIN wire' /\ wire'[i] = wire[i]
         /\ \E i \in DOMAIN wire' : wire'[i] = e
  <1>1. /\ wire' \in Seq(TaskEvents) /\ Len(wire') = Len(wire) + 1
        /\ \A i \in 1..Len(wire) : wire'[i] = wire[i]
        /\ wire'[Len(wire) + 1] = e
    BY AppendProperties
  <1>2. Len(wire) \in Nat /\ DOMAIN wire = 1..Len(wire) /\ DOMAIN wire' = 1..Len(wire')
    BY <1>1, LenProperties
  <1>3. Len(wire) + 1 \in DOMAIN wire'
    BY <1>1, <1>2
  <1> QED  BY <1>1, <1>2, <1>3

LEMMA WireHeard ==
  ASSUME wire \in Seq(TaskEvents), wire # <<>>, wire' = Tail(wire)
  PROVE  /\ wire' \in Seq(TaskEvents)
         /\ Head(wire) = wire[1] /\ Head(wire) \in TaskEvents
         /\ \A i \in DOMAIN wire : i # 1 => \E j \in DOMAIN wire' : wire'[j] = wire[i]
  <1>1. /\ wire' \in Seq(TaskEvents) /\ Head(wire) \in TaskEvents
        /\ Len(wire') = Len(wire) - 1
        /\ \A j \in 1..Len(wire') : wire'[j] = wire[j + 1]
    BY HeadTailProperties
  <1>2. Len(wire) \in Nat /\ DOMAIN wire = 1..Len(wire) /\ DOMAIN wire' = 1..Len(wire')
    BY <1>1, LenProperties
  <1>3. ASSUME NEW i \in DOMAIN wire, i # 1
        PROVE  \E j \in DOMAIN wire' : wire'[j] = wire[i]
    <2>1. i - 1 \in 1..Len(wire') /\ (i - 1) + 1 = i
      BY <1>1, <1>2, <1>3
    <2> QED  BY <1>1, <1>2, <2>1
  <1> QED  BY <1>1, <1>3

\* An event that is published can be told from the events before it.
LEMMA EventTyped ==
  ASSUME TaskShape, NEW k \in {"dispatch", "message"} \cup Live!Over, NEW t \in Task
  PROVE  Live!Event(k, t) \in TaskEvents
  BY DEF TaskShape, Live!Event, TaskEvents, TaskOrNone

\* What is on its way are events of tasks.
LEMMA LiveKeepsWire ==
  ASSUME LiveShape, Live!Next
  PROVE  wire' \in Seq(TaskEvents)
  <1>1. CASE Live!ScrollPage
    BY <1>1 DEF Live!ScrollPage, LiveShape
  <1>2. CASE Live!ScrollItems
    BY <1>2 DEF Live!ScrollItems, LiveShape
  <1>3. CASE Live!OpenHistory
    BY <1>3 DEF Live!OpenHistory, LiveShape
  <1>4. CASE Live!ConnectionDrops
    BY <1>4 DEF Live!ConnectionDrops, LiveShape
  <1>5. CASE Live!OnMessage
    <2> QED  BY <1>5, WireHeard DEF Live!OnMessage, LiveShape
  <1>6. ASSUME NEW t \in Task, Live!Dispatch(t)
        PROVE  wire' \in Seq(TaskEvents)
    <2>1. Live!Event("dispatch", t) \in TaskEvents
      BY EventTyped DEF LiveShape
    <2> QED  BY <1>6, <2>1, WireAppended DEF Live!Dispatch, Live!Publish, LiveShape
  <1>7. ASSUME NEW t \in Task, Live!Report(t)
        PROVE  wire' \in Seq(TaskEvents)
    <2>1. Live!Event("message", t) \in TaskEvents
      BY EventTyped DEF LiveShape
    <2> QED  BY <1>7, <2>1, WireAppended DEF Live!Report, Live!Publish, LiveShape
  <1>8. ASSUME NEW t \in Task, Live!ShutEntry(t)
        PROVE  wire' \in Seq(TaskEvents)
    BY <1>8 DEF Live!ShutEntry, LiveShape
  <1>9. ASSUME NEW t \in Task, NEW s \in Live!Over, Live!Finish(t, s)
        PROVE  wire' \in Seq(TaskEvents)
    <2>1. Live!Event(s, t) \in TaskEvents
      BY EventTyped DEF LiveShape
    <2> QED  BY <1>9, <2>1, WireAppended DEF Live!Finish, Live!Publish, LiveShape
  <1>10. ASSUME NEW n \in LSlots, NEW t \in Task, Live!OpenEntry(t, n)
        PROVE  wire' \in Seq(TaskEvents)
    BY <1>10 DEF Live!OpenEntry, LiveShape
  <1>11. ASSUME NEW n \in LSlots, Live!Cancel(n)
        PROVE  wire' \in Seq(TaskEvents)
    BY <1>11 DEF Live!Cancel, LiveShape
  <1>12. ASSUME NEW n \in LSlots, Live!Answer(n)
        PROVE  wire' \in Seq(TaskEvents)
    <2>1. call[n].kind = "cancel" => Live!Event("cancelled", call[n].task) \in TaskEvents
      BY EventTyped DEF LiveShape, TaskCallShape, TaskCall, Live!Over
    <2>2. wire' = wire \/ \E e \in TaskEvents : wire' = Append(wire, e)
      BY <1>12, <2>1 DEF Live!Answer, Live!Publish
    <2> QED  BY <2>2, WireAppended DEF LiveShape
  <1>13. ASSUME NEW n \in LSlots, Live!OnEnd(n)
        PROVE  wire' \in Seq(TaskEvents)
    <2> QED  BY <1>13, WireHeard DEF Live!OnEnd, LiveShape
  <1>14. ASSUME NEW n \in LSlots, Live!OnDispatch(n)
        PROVE  wire' \in Seq(TaskEvents)
    <2> QED  BY <1>14, WireHeard DEF Live!OnDispatch, LiveShape
  <1>15. ASSUME NEW n \in LSlots, Live!Mounted(n)
        PROVE  wire' \in Seq(TaskEvents)
    BY <1>15 DEF Live!Mounted, LiveShape
  <1>16. ASSUME NEW n \in LSlots, Live!ItemsArrive(n)
        PROVE  wire' \in Seq(TaskEvents)
    BY <1>16 DEF Live!ItemsArrive, LiveShape
  <1>17. ASSUME NEW n \in LSlots, Live!Dispatched(n)
        PROVE  wire' \in Seq(TaskEvents)
    BY <1>17 DEF Live!Dispatched, LiveShape
  <1>18. ASSUME NEW n \in LSlots, Live!Cancelled(n)
        PROVE  wire' \in Seq(TaskEvents)
    BY <1>18 DEF Live!Cancelled, LiveShape
  <1>19. ASSUME NEW n \in LSlots, Live!HistoryArrives(n)
        PROVE  wire' \in Seq(TaskEvents)
    BY <1>19 DEF Live!HistoryArrives, LiveShape
  <1>20. ASSUME NEW n \in LSlots, Live!MessagesArrive(n)
        PROVE  wire' \in Seq(TaskEvents)
    BY <1>20 DEF Live!MessagesArrive, LiveShape
  <1> QED
    BY <1>1, <1>2, <1>3, <1>4, <1>5, <1>6, <1>7, <1>8, <1>9, <1>10,
       <1>11, <1>12, <1>13, <1>14, <1>15, <1>16, <1>17, <1>18, <1>19, <1>20
    DEF Live!Next, LSlots

\* A task that is told of stays so while tasks, wire and what was missed only grow.
LEMMA ToldOn ==
  ASSUME NEW u, Told(u), part2 \subseteq part2',
         \A i \in DOMAIN wire : i \in DOMAIN wire' /\ wire'[i] = wire[i],
         row'[u].status = "active" \/ row[u].status # "active" \/ EndComes(u)' \/ u \in part2'
  PROVE  Told(u)'
  BY DEF Told, EndComes, Live!Active

LEMMA ToldHeard ==
  ASSUME NEW u, Told(u), wire \in Seq(TaskEvents), wire # <<>>, wire' = Tail(wire), row' = row,
         part2 \subseteq part2', Head(wire).kind \notin Live!Over \/ Head(wire).task # u
  PROVE  Told(u)'
  BY WireHeard DEF Told, EndComes, Live!Active

\* Only hearing the end of a task takes its end off the wire.
LEMMA ToldStays ==
  ASSUME LiveShape, NEW u, Told(u), Live!Next
  PROVE  Told(u)' \/ \E m \in LSlots : Live!OnEnd(m)
  <1>1. CASE Live!ScrollPage
    <2>1. wire' = wire /\ row' = row /\ part2' = part2
      BY <1>1 DEF Live!ScrollPage
    <2> QED  BY <2>1 DEF Told, EndComes, Live!Active
  <1>2. CASE Live!ScrollItems
    <2>1. wire' = wire /\ row' = row /\ part2' = part2
      BY <1>2 DEF Live!ScrollItems
    <2> QED  BY <2>1 DEF Told, EndComes, Live!Active
  <1>3. CASE Live!OpenHistory
    <2>1. wire' = wire /\ row' = row /\ part2' = part2
      BY <1>3 DEF Live!OpenHistory
    <2> QED  BY <2>1 DEF Told, EndComes, Live!Active
  <1>4. CASE Live!ConnectionDrops
    <2>1. row' = row /\ part2' = part2 \cup {wire[i].task : i \in DOMAIN wire}
      BY <1>4 DEF Live!ConnectionDrops
    <2>2. CASE EndComes(u)
      <3>1. PICK i \in DOMAIN wire : wire[i].task = u
        BY <2>2 DEF EndComes
      <3> QED  BY <2>1, <3>1 DEF Told
    <2>3. CASE u \in Live!Active \cup part2
      BY <2>1, <2>3 DEF Told, Live!Active
    <2> QED  BY <2>2, <2>3 DEF Told
  <1>5. CASE Live!OnMessage
    <2> QED  BY <1>5, ToldHeard DEF Live!OnMessage, Live!Over, LiveShape
  <1>6. ASSUME NEW t \in Task, Live!Dispatch(t)
        PROVE  Told(u)' \/ \E m \in LSlots : Live!OnEnd(m)
    <2>1. Live!Event("dispatch", t) \in TaskEvents
      BY EventTyped DEF LiveShape
    <2>2. \A i \in DOMAIN wire : i \in DOMAIN wire' /\ wire'[i] = wire[i]
      BY <1>6, <2>1, WireAppended DEF Live!Dispatch, Live!Publish, LiveShape
    <2>3. part2' = part2 /\ (row'[u].status = "active" \/ row[u].status # "active")
      BY <1>6 DEF Live!Dispatch, LiveShape, TaskShape
    <2> QED  BY <2>2, <2>3, ToldOn
  <1>7. ASSUME NEW t \in Task, Live!Report(t)
        PROVE  Told(u)' \/ \E m \in LSlots : Live!OnEnd(m)
    <2>1. Live!Event("message", t) \in TaskEvents
      BY EventTyped DEF LiveShape
    <2>2. \A i \in DOMAIN wire : i \in DOMAIN wire' /\ wire'[i] = wire[i]
      BY <1>7, <2>1, WireAppended DEF Live!Report, Live!Publish, LiveShape
    <2>3. part2' = part2 /\ row'[u].status = row[u].status
      BY <1>7 DEF Live!Report, LiveShape, TaskShape
    <2> QED  BY <2>2, <2>3, ToldOn
  <1>8. ASSUME NEW t \in Task, Live!ShutEntry(t)
        PROVE  Told(u)' \/ \E m \in LSlots : Live!OnEnd(m)
    <2>1. wire' = wire /\ row' = row /\ part2' = part2
      BY <1>8 DEF Live!ShutEntry
    <2> QED  BY <2>1 DEF Told, EndComes, Live!Active
  <1>9. ASSUME NEW t \in Task, NEW s \in Live!Over, Live!Finish(t, s)
        PROVE  Told(u)' \/ \E m \in LSlots : Live!OnEnd(m)
    <2>1. Live!Event(s, t) \in TaskEvents
      BY EventTyped DEF LiveShape
    <2>2. row' = [row EXCEPT ![t].status = s]
      BY <1>9 DEF Live!Finish
    <2>3. CASE wire' = Append(wire, Live!Event(s, t)) /\ part2' = part2
      <3>1. /\ \A i \in DOMAIN wire : i \in DOMAIN wire' /\ wire'[i] = wire[i]
            /\ \E i \in DOMAIN wire' : wire'[i] = Live!Event(s, t)
        BY <2>1, <2>3, WireAppended DEF LiveShape
      <3>2. EndComes(t)'
        BY <3>1 DEF EndComes, Live!Event
      <3>3. u # t => row'[u] = row[u]
        BY <2>2 DEF LiveShape, TaskShape
      <3> QED  BY <2>3, <3>1, <3>2, <3>3, ToldOn
    <2>4. CASE wire' = wire /\ part2' = part2 \cup {t}
      <3>1. u # t => row'[u] = row[u]
        BY <2>2 DEF LiveShape, TaskShape
      <3> QED  BY <2>4, <3>1, ToldOn
    <2> QED  BY <1>9, <2>3, <2>4 DEF Live!Finish, Live!Publish
  <1>10. ASSUME NEW n \in LSlots, NEW t \in Task, Live!OpenEntry(t, n)
        PROVE  Told(u)' \/ \E m \in LSlots : Live!OnEnd(m)
    <2>1. wire' = wire /\ row' = row /\ part2' = part2
      BY <1>10 DEF Live!OpenEntry
    <2> QED  BY <2>1 DEF Told, EndComes, Live!Active
  <1>11. ASSUME NEW n \in LSlots, Live!Cancel(n)
        PROVE  Told(u)' \/ \E m \in LSlots : Live!OnEnd(m)
    <2>1. wire' = wire /\ row' = row /\ part2' = part2
      BY <1>11 DEF Live!Cancel
    <2> QED  BY <2>1 DEF Told, EndComes, Live!Active
  <1>12. ASSUME NEW n \in LSlots, Live!Answer(n)
        PROVE  Told(u)' \/ \E m \in LSlots : Live!OnEnd(m)
    <2>1. CASE wire' = wire /\ row' = row
      BY <1>12, <2>1 DEF Live!Answer, Told, EndComes, Live!Active
    <2>2. CASE ~(wire' = wire /\ row' = row)
      <3>0. PICK t : t = call[n].task
        OBVIOUS
      <3>1. /\ call[n].kind = "cancel" /\ part2' = part2
            /\ row' = [row EXCEPT ![t].status = "cancelled"]
            /\ wire' = Append(wire, Live!Event("cancelled", t))
        BY <1>12, <2>2, <3>0 DEF Live!Answer, Live!Publish
      <3>2. t \in Task
        BY <3>0, <3>1 DEF LiveShape, TaskCallShape, TaskCall
      <3>3. Live!Event("cancelled", t) \in TaskEvents
        BY <3>2, EventTyped DEF LiveShape, Live!Over
      <3>4. /\ \A i \in DOMAIN wire : i \in DOMAIN wire' /\ wire'[i] = wire[i]
            /\ \E i \in DOMAIN wire' : wire'[i] = Live!Event("cancelled", t)
        BY <3>1, <3>3, WireAppended DEF LiveShape
      <3>5. EndComes(t)'
        BY <3>4 DEF EndComes, Live!Event, Live!Over
      <3>6. u # t => row'[u] = row[u]
        BY <3>1, <3>2 DEF LiveShape, TaskShape
      <3> QED  BY <3>1, <3>4, <3>5, <3>6, ToldOn
    <2> QED  BY <2>1, <2>2
  <1>13. ASSUME NEW n \in LSlots, Live!OnEnd(n)
        PROVE  Told(u)' \/ \E m \in LSlots : Live!OnEnd(m)
    <2> QED  BY <1>13
  <1>14. ASSUME NEW n \in LSlots, Live!OnDispatch(n)
        PROVE  Told(u)' \/ \E m \in LSlots : Live!OnEnd(m)
    <2> QED  BY <1>14, ToldHeard DEF Live!OnDispatch, Live!Over, LiveShape
  <1>15. ASSUME NEW n \in LSlots, Live!Mounted(n)
        PROVE  Told(u)' \/ \E m \in LSlots : Live!OnEnd(m)
    <2>1. wire' = wire /\ row' = row /\ part2' = part2
      BY <1>15 DEF Live!Mounted
    <2> QED  BY <2>1 DEF Told, EndComes, Live!Active
  <1>16. ASSUME NEW n \in LSlots, Live!ItemsArrive(n)
        PROVE  Told(u)' \/ \E m \in LSlots : Live!OnEnd(m)
    <2>1. wire' = wire /\ row' = row /\ part2' = part2
      BY <1>16 DEF Live!ItemsArrive
    <2> QED  BY <2>1 DEF Told, EndComes, Live!Active
  <1>17. ASSUME NEW n \in LSlots, Live!Dispatched(n)
        PROVE  Told(u)' \/ \E m \in LSlots : Live!OnEnd(m)
    <2>1. wire' = wire /\ row' = row /\ part2' = part2
      BY <1>17 DEF Live!Dispatched
    <2> QED  BY <2>1 DEF Told, EndComes, Live!Active
  <1>18. ASSUME NEW n \in LSlots, Live!Cancelled(n)
        PROVE  Told(u)' \/ \E m \in LSlots : Live!OnEnd(m)
    <2>1. wire' = wire /\ row' = row /\ part2' = part2
      BY <1>18 DEF Live!Cancelled
    <2> QED  BY <2>1 DEF Told, EndComes, Live!Active
  <1>19. ASSUME NEW n \in LSlots, Live!HistoryArrives(n)
        PROVE  Told(u)' \/ \E m \in LSlots : Live!OnEnd(m)
    <2>1. wire' = wire /\ row' = row /\ part2' = part2
      BY <1>19 DEF Live!HistoryArrives
    <2> QED  BY <2>1 DEF Told, EndComes, Live!Active
  <1>20. ASSUME NEW n \in LSlots, Live!MessagesArrive(n)
        PROVE  Told(u)' \/ \E m \in LSlots : Live!OnEnd(m)
    <2>1. wire' = wire /\ row' = row /\ part2' = part2
      BY <1>20 DEF Live!MessagesArrive
    <2> QED  BY <2>1 DEF Told, EndComes, Live!Active
  <1> QED
    BY <1>1, <1>2, <1>3, <1>4, <1>5, <1>6, <1>7, <1>8, <1>9, <1>10,
       <1>11, <1>12, <1>13, <1>14, <1>15, <1>16, <1>17, <1>18, <1>19, <1>20
    DEF Live!Next, LSlots

\* The card shows another task only when an answer named it.
LEMMA CardShows ==
  ASSUME LiveShape, Live!Next
  PROVE  view'.task # 0 => view'.task = view.task \/ \E m \in LSlots : Names(m) /\ view'.task = call[m].task
  <1>1. CASE Live!ScrollPage
    BY <1>1 DEF Live!ScrollPage, LiveShape, CardShape
  <1>2. CASE Live!ScrollItems
    BY <1>2 DEF Live!ScrollItems, LiveShape, CardShape
  <1>3. CASE Live!OpenHistory
    BY <1>3 DEF Live!OpenHistory, LiveShape, CardShape
  <1>4. CASE Live!ConnectionDrops
    BY <1>4 DEF Live!ConnectionDrops, LiveShape, CardShape
  <1>5. CASE Live!OnMessage
    BY <1>5 DEF Live!OnMessage, LiveShape, CardShape
  <1>6. ASSUME NEW t \in Task, Live!Dispatch(t)
        PROVE  view'.task # 0 => view'.task = view.task \/ \E m \in LSlots : Names(m) /\ view'.task = call[m].task
    BY <1>6 DEF Live!Dispatch, LiveShape, CardShape
  <1>7. ASSUME NEW t \in Task, Live!Report(t)
        PROVE  view'.task # 0 => view'.task = view.task \/ \E m \in LSlots : Names(m) /\ view'.task = call[m].task
    BY <1>7 DEF Live!Report, LiveShape, CardShape
  <1>8. ASSUME NEW t \in Task, Live!ShutEntry(t)
        PROVE  view'.task # 0 => view'.task = view.task \/ \E m \in LSlots : Names(m) /\ view'.task = call[m].task
    BY <1>8 DEF Live!ShutEntry, LiveShape, CardShape
  <1>9. ASSUME NEW t \in Task, NEW s \in Live!Over, Live!Finish(t, s)
        PROVE  view'.task # 0 => view'.task = view.task \/ \E m \in LSlots : Names(m) /\ view'.task = call[m].task
    BY <1>9 DEF Live!Finish, LiveShape, CardShape
  <1>10. ASSUME NEW n \in LSlots, NEW t \in Task, Live!OpenEntry(t, n)
        PROVE  view'.task # 0 => view'.task = view.task \/ \E m \in LSlots : Names(m) /\ view'.task = call[m].task
    BY <1>10 DEF Live!OpenEntry, LiveShape, CardShape
  <1>11. ASSUME NEW n \in LSlots, Live!Cancel(n)
        PROVE  view'.task # 0 => view'.task = view.task \/ \E m \in LSlots : Names(m) /\ view'.task = call[m].task
    BY <1>11 DEF Live!Cancel, LiveShape, CardShape
  <1>12. ASSUME NEW n \in LSlots, Live!Answer(n)
        PROVE  view'.task # 0 => view'.task = view.task \/ \E m \in LSlots : Names(m) /\ view'.task = call[m].task
    BY <1>12 DEF Live!Answer, LiveShape, CardShape
  <1>13. ASSUME NEW n \in LSlots, Live!OnEnd(n)
        PROVE  view'.task # 0 => view'.task = view.task \/ \E m \in LSlots : Names(m) /\ view'.task = call[m].task
    BY <1>13 DEF Live!OnEnd, LiveShape, CardShape
  <1>14. ASSUME NEW n \in LSlots, Live!OnDispatch(n)
        PROVE  view'.task # 0 => view'.task = view.task \/ \E m \in LSlots : Names(m) /\ view'.task = call[m].task
    BY <1>14 DEF Live!OnDispatch, LiveShape, CardShape
  <1>15. ASSUME NEW n \in LSlots, Live!Mounted(n)
        PROVE  view'.task # 0 => view'.task = view.task \/ \E m \in LSlots : Names(m) /\ view'.task = call[m].task
    <2>1. CASE view' = view
      BY <2>1
    <2>2. CASE view' # view
      <3>1. call[n].status = "ok" /\ call[n].kind \in {"mount", "dispatch"}
        BY <1>15, <2>2 DEF Live!Mounted, Live!Ended
      <3>2. view'.task = call[n].task
        BY <1>15, <2>2 DEF Live!Mounted, LiveShape, CardShape
      <3> QED  BY <3>1, <3>2 DEF Names
    <2> QED  BY <2>1, <2>2
  <1>16. ASSUME NEW n \in LSlots, Live!ItemsArrive(n)
        PROVE  view'.task # 0 => view'.task = view.task \/ \E m \in LSlots : Names(m) /\ view'.task = call[m].task
    BY <1>16 DEF Live!ItemsArrive, LiveShape, CardShape
  <1>17. ASSUME NEW n \in LSlots, Live!Dispatched(n)
        PROVE  view'.task # 0 => view'.task = view.task \/ \E m \in LSlots : Names(m) /\ view'.task = call[m].task
    <2>1. CASE view' = view
      BY <2>1
    <2>2. CASE view' # view
      <3>1. call[n].status = "ok" /\ call[n].kind \in {"mount", "dispatch"}
        BY <1>17, <2>2 DEF Live!Dispatched, Live!Ended
      <3>2. view'.task = call[n].task
        BY <1>17, <2>2 DEF Live!Dispatched, LiveShape, CardShape
      <3> QED  BY <3>1, <3>2 DEF Names
    <2> QED  BY <2>1, <2>2
  <1>18. ASSUME NEW n \in LSlots, Live!Cancelled(n)
        PROVE  view'.task # 0 => view'.task = view.task \/ \E m \in LSlots : Names(m) /\ view'.task = call[m].task
    BY <1>18 DEF Live!Cancelled, LiveShape, CardShape
  <1>19. ASSUME NEW n \in LSlots, Live!HistoryArrives(n)
        PROVE  view'.task # 0 => view'.task = view.task \/ \E m \in LSlots : Names(m) /\ view'.task = call[m].task
    BY <1>19 DEF Live!HistoryArrives, LiveShape, CardShape
  <1>20. ASSUME NEW n \in LSlots, Live!MessagesArrive(n)
        PROVE  view'.task # 0 => view'.task = view.task \/ \E m \in LSlots : Names(m) /\ view'.task = call[m].task
    BY <1>20 DEF Live!MessagesArrive, LiveShape, CardShape
  <1> QED
    BY <1>1, <1>2, <1>3, <1>4, <1>5, <1>6, <1>7, <1>8, <1>9, <1>10,
       <1>11, <1>12, <1>13, <1>14, <1>15, <1>16, <1>17, <1>18, <1>19, <1>20
    DEF Live!Next, LSlots

\* What a request names after a step, it named before, or it is active.
NamedBefore(m) ==
    \/ Names(m) /\ call'[m].task = call[m].task
    \/ row' = row /\ call'[m].task \in Live!Active

LEMMA RequestSent == \A k, t : Live!Request(k, t).status = "sent" /\ Live!Idle.status = "idle"
  BY DEF Live!Request, Live!Idle

\* A request names a task because the server answered that it is active.
LEMMA CallsName ==
  ASSUME LiveShape, NEW m \in LSlots, Live!Next
  PROVE  Names(m)' => NamedBefore(m)
  <1>1. CASE Live!ScrollPage
    <2> QED  BY <1>1 DEF Live!ScrollPage, Names, NamedBefore
  <1>2. CASE Live!ScrollItems
    <2> QED  BY <1>2 DEF Live!ScrollItems, Names, NamedBefore
  <1>3. CASE Live!OpenHistory
    <2> QED  BY <1>3 DEF Live!OpenHistory, Names, NamedBefore
  <1>4. CASE Live!ConnectionDrops
    <2> QED  BY <1>4 DEF Live!ConnectionDrops, Names, NamedBefore
  <1>5. CASE Live!OnMessage
    <2> QED  BY <1>5 DEF Live!OnMessage, Names, NamedBefore
  <1>6. ASSUME NEW t \in Task, Live!Dispatch(t)
        PROVE  Names(m)' => NamedBefore(m)
    <2> QED  BY <1>6 DEF Live!Dispatch, Names, NamedBefore
  <1>7. ASSUME NEW t \in Task, Live!Report(t)
        PROVE  Names(m)' => NamedBefore(m)
    <2> QED  BY <1>7 DEF Live!Report, Names, NamedBefore
  <1>8. ASSUME NEW t \in Task, Live!ShutEntry(t)
        PROVE  Names(m)' => NamedBefore(m)
    <2> QED  BY <1>8 DEF Live!ShutEntry, Names, NamedBefore
  <1>9. ASSUME NEW t \in Task, NEW s \in Live!Over, Live!Finish(t, s)
        PROVE  Names(m)' => NamedBefore(m)
    <2> QED  BY <1>9 DEF Live!Finish, Names, NamedBefore
  <1>10. ASSUME NEW n \in LSlots, NEW t \in Task, Live!OpenEntry(t, n)
        PROVE  Names(m)' => NamedBefore(m)
    <2>1. \A k \in LSlots : k # n => call'[k] = call[k]
      BY <1>10 DEF Live!OpenEntry, Live!Send, Live!Freed, LiveShape, TaskCallShape
    <2>2. call'[n] = call[n] \/ call'[n].status # "ok"
      BY <1>10, RequestSent DEF Live!OpenEntry, Live!Send, Live!Freed, LiveShape, TaskCallShape
    <2> QED  BY <2>1, <2>2 DEF Names, NamedBefore
  <1>11. ASSUME NEW n \in LSlots, Live!Cancel(n)
        PROVE  Names(m)' => NamedBefore(m)
    <2>1. \A k \in LSlots : k # n => call'[k] = call[k]
      BY <1>11 DEF Live!Cancel, Live!Send, Live!Freed, LiveShape, TaskCallShape
    <2>2. call'[n] = call[n] \/ call'[n].status # "ok"
      BY <1>11, RequestSent DEF Live!Cancel, Live!Send, Live!Freed, LiveShape, TaskCallShape
    <2> QED  BY <2>1, <2>2 DEF Names, NamedBefore
  <1>12. ASSUME NEW n \in LSlots, Live!Answer(n)
        PROVE  Names(m)' => NamedBefore(m)
    <2>1. /\ TaskCall(call[n]) /\ TaskAnswer(call[n], call'[n])
          /\ \A k \in LSlots : k # n => call'[k] = call[k]
      BY <1>12, TaskAnswers DEF LiveShape, TaskCallShape
    <2>2. CASE m # n
      BY <2>1, <2>2 DEF Names, NamedBefore
    <2>3. CASE /\ call[n].kind \in {"mount", "dispatch"} /\ row' = row
               /\ call'[n] = [call[n] EXCEPT !.status = "ok", !.task = Live!ActiveTask]
      <3>1. call'[n].task = Live!ActiveTask
        BY <2>1, <2>3 DEF TaskCall
      <3> QED  BY <2>1, <2>3, <3>1, ActiveTaskActive DEF Names, NamedBefore
    <2>4. CASE /\ call[n].kind \notin {"mount", "dispatch"}
               /\ \/ \E v : call'[n] = [call[n] EXCEPT !.status = "ok", !.msgs = v]
                  \/ \E v : call'[n] = [call[n] EXCEPT !.status = "ok", !.list = v]
                  \/ call'[n] = [call[n] EXCEPT !.status = "ok"]
      <3>1. call'[n].kind = call[n].kind
        BY <2>1, <2>4 DEF TaskCall
      <3> QED  BY <2>1, <2>4, <3>1 DEF Names, NamedBefore
    <2>5. CASE call'[n] = [call[n] EXCEPT !.status = "error"]
      <3>1. call'[n].status = "error"
        BY <2>1, <2>5 DEF TaskCall
      <3> QED  BY <2>1, <3>1 DEF Names, NamedBefore
    <2> QED  BY <2>1, <2>2, <2>3, <2>4, <2>5 DEF TaskAnswer
  <1>13. ASSUME NEW n \in LSlots, Live!OnEnd(n)
        PROVE  Names(m)' => NamedBefore(m)
    <2>1. \A k \in LSlots : k # n => call'[k] = call[k]
      BY <1>13 DEF Live!OnEnd, Live!Send, Live!Freed, LiveShape, TaskCallShape
    <2>2. call'[n] = call[n] \/ call'[n].status # "ok"
      BY <1>13, RequestSent DEF Live!OnEnd, Live!Send, Live!Freed, LiveShape, TaskCallShape
    <2> QED  BY <2>1, <2>2 DEF Names, NamedBefore
  <1>14. ASSUME NEW n \in LSlots, Live!OnDispatch(n)
        PROVE  Names(m)' => NamedBefore(m)
    <2>1. \A k \in LSlots : k # n => call'[k] = call[k]
      BY <1>14 DEF Live!OnDispatch, Live!Send, Live!Freed, LiveShape, TaskCallShape
    <2>2. call'[n] = call[n] \/ call'[n].status # "ok"
      BY <1>14, RequestSent DEF Live!OnDispatch, Live!Send, Live!Freed, LiveShape, TaskCallShape
    <2> QED  BY <2>1, <2>2 DEF Names, NamedBefore
  <1>15. ASSUME NEW n \in LSlots, Live!Mounted(n)
        PROVE  Names(m)' => NamedBefore(m)
    <2>1. \A k \in LSlots : k # n => call'[k] = call[k]
      BY <1>15 DEF Live!Mounted, Live!Send, Live!Freed, LiveShape, TaskCallShape
    <2>2. call'[n] = call[n] \/ call'[n].status # "ok"
      BY <1>15, RequestSent DEF Live!Mounted, Live!Send, Live!Freed, LiveShape, TaskCallShape
    <2> QED  BY <2>1, <2>2 DEF Names, NamedBefore
  <1>16. ASSUME NEW n \in LSlots, Live!ItemsArrive(n)
        PROVE  Names(m)' => NamedBefore(m)
    <2>1. \A k \in LSlots : k # n => call'[k] = call[k]
      BY <1>16 DEF Live!ItemsArrive, Live!Send, Live!Freed, LiveShape, TaskCallShape
    <2>2. call'[n] = call[n] \/ call'[n].status # "ok"
      BY <1>16, RequestSent DEF Live!ItemsArrive, Live!Send, Live!Freed, LiveShape, TaskCallShape
    <2> QED  BY <2>1, <2>2 DEF Names, NamedBefore
  <1>17. ASSUME NEW n \in LSlots, Live!Dispatched(n)
        PROVE  Names(m)' => NamedBefore(m)
    <2>1. \A k \in LSlots : k # n => call'[k] = call[k]
      BY <1>17 DEF Live!Dispatched, Live!Send, Live!Freed, LiveShape, TaskCallShape
    <2>2. call'[n] = call[n] \/ call'[n].status # "ok"
      BY <1>17, RequestSent DEF Live!Dispatched, Live!Send, Live!Freed, LiveShape, TaskCallShape
    <2> QED  BY <2>1, <2>2 DEF Names, NamedBefore
  <1>18. ASSUME NEW n \in LSlots, Live!Cancelled(n)
        PROVE  Names(m)' => NamedBefore(m)
    <2>1. \A k \in LSlots : k # n => call'[k] = call[k]
      BY <1>18 DEF Live!Cancelled, Live!Send, Live!Freed, LiveShape, TaskCallShape
    <2>2. call'[n] = call[n] \/ call'[n].status # "ok"
      BY <1>18, RequestSent DEF Live!Cancelled, Live!Send, Live!Freed, LiveShape, TaskCallShape
    <2> QED  BY <2>1, <2>2 DEF Names, NamedBefore
  <1>19. ASSUME NEW n \in LSlots, Live!HistoryArrives(n)
        PROVE  Names(m)' => NamedBefore(m)
    <2>1. \A k \in LSlots : k # n => call'[k] = call[k]
      BY <1>19 DEF Live!HistoryArrives, Live!Send, Live!Freed, LiveShape, TaskCallShape
    <2>2. call'[n] = call[n] \/ call'[n].status # "ok"
      BY <1>19, RequestSent DEF Live!HistoryArrives, Live!Send, Live!Freed, LiveShape, TaskCallShape
    <2> QED  BY <2>1, <2>2 DEF Names, NamedBefore
  <1>20. ASSUME NEW n \in LSlots, Live!MessagesArrive(n)
        PROVE  Names(m)' => NamedBefore(m)
    <2>1. \A k \in LSlots : k # n => call'[k] = call[k]
      BY <1>20 DEF Live!MessagesArrive, Live!Send, Live!Freed, LiveShape, TaskCallShape
    <2>2. call'[n] = call[n] \/ call'[n].status # "ok"
      BY <1>20, RequestSent DEF Live!MessagesArrive, Live!Send, Live!Freed, LiveShape, TaskCallShape
    <2> QED  BY <2>1, <2>2 DEF Names, NamedBefore
  <1> QED
    BY <1>1, <1>2, <1>3, <1>4, <1>5, <1>6, <1>7, <1>8, <1>9, <1>10,
       <1>11, <1>12, <1>13, <1>14, <1>15, <1>16, <1>17, <1>18, <1>19, <1>20
    DEF Live!Next, LSlots

\* When the end of a task is heard, the card shows none, and the answers that still name the
\* task are remembered.
LEMMA EndHeard ==
  ASSUME LiveInv, NEW n \in LSlots, Live!OnEnd(n)
  PROVE  view'.task = 0 /\ \A u : \A m \in LSlots : Names(m) /\ u = call[m].task => Told(u)'
  <1>1. view'.task = 0 /\ row' = row /\ wire # <<>> /\ wire' = Tail(wire)
    BY DEF Live!OnEnd, LiveInv, LiveShape, CardShape
  <1>2. part2' = part2 \cup {t \in {Head(wire).task} : Live!Naming(t)}
    BY DEF Live!OnEnd
  <1>3. ASSUME NEW m \in LSlots, NEW u, Names(m), u = call[m].task
        PROVE  Told(u)'
    <2>1. CASE Head(wire).task = u
      <3>1. Live!Naming(u)
        BY <1>3 DEF Live!Naming, Names, LSlots
      <3> QED  BY <1>2, <2>1, <3>1 DEF Told
    <2>2. CASE Head(wire).task # u
      BY <1>1, <1>2, <1>3, <2>2, ToldHeard DEF LiveInv, LiveShape, CallsTold
    <2> QED  BY <2>1, <2>2
  <1> QED  BY <1>1, <1>3

LEMMA LiveKeepsTold ==
  ASSUME LiveInv, Live!Next
  PROVE  CardTold' /\ CallsTold'
  <1>1. CASE \E m \in LSlots : Live!OnEnd(m)
    <2>1. PICK n \in LSlots : Live!OnEnd(n)
      BY <1>1
    <2>2. CardTold'
      BY <2>1, EndHeard DEF CardTold
    <2>3. ASSUME NEW m \in LSlots, Names(m)'
          PROVE  Told(call[m].task)'
      <3>1. PICK u : u = call'[m].task
        OBVIOUS
      <3>2. Told(u)'
        <4>1. CASE Names(m) /\ call'[m].task = call[m].task
          BY <2>1, <3>1, <4>1, EndHeard
        <4>2. CASE row' = row /\ call'[m].task \in Live!Active
          BY <3>1, <4>2 DEF Told, Live!Active
        <4>3. NamedBefore(m)
          BY <2>3, CallsName DEF LiveInv
        <4> QED  BY <4>1, <4>2, <4>3 DEF NamedBefore
      <3> QED  BY <3>1, <3>2
    <2> QED  BY <2>2, <2>3 DEF CallsTold
  <1>2. CASE ~\E m \in LSlots : Live!OnEnd(m)
    <2>1. ASSUME NEW u, Told(u) PROVE Told(u)'
      BY <1>2, <2>1, ToldStays DEF LiveInv
    <2>2. CardTold'
      <3>1. PICK u : u = view'.task
        OBVIOUS
      <3>2. u # 0 => Told(u)
        BY <3>1, CardShows DEF LiveInv, CardTold, CallsTold
      <3>3. u # 0 => Told(u)'
        BY <2>1, <3>2
      <3> QED  BY <3>1, <3>3 DEF CardTold
    <2>3. ASSUME NEW m \in LSlots, Names(m)'
          PROVE  Told(call[m].task)'
      <3>1. PICK u : u = call'[m].task
        OBVIOUS
      <3>2. Told(u)'
        <4>1. CASE Names(m) /\ call'[m].task = call[m].task
          <5>1. Told(u)
            BY <3>1, <4>1 DEF LiveInv, CallsTold
          <5> QED  BY <2>1, <5>1
        <4>2. CASE row' = row /\ call'[m].task \in Live!Active
          BY <3>1, <4>2 DEF Told, Live!Active
        <4>3. NamedBefore(m)
          BY <2>3, CallsName DEF LiveInv
        <4> QED  BY <4>1, <4>2, <4>3 DEF NamedBefore
      <3> QED  BY <3>1, <3>2
    <2> QED  BY <2>2, <2>3 DEF CallsTold
  <1> QED  BY <1>1, <1>2

LEMMA LiveStarts == LiveMounted => LiveInv
  <1> SUFFICES ASSUME Live!Init PROVE LiveInv  BY DEF LiveMounted
  <1>1. CardShape /\ view.task = 0
    BY DEF Live!Init, Live!NoCard, CardShape, TaskOrNone
  <1>2. call = [n \in LSlots |-> IF n = 1 THEN Live!Request("mount", 0)
                                 ELSE IF n = 2 THEN Live!Request("history", 0) ELSE Live!Idle]
    BY DEF Live!Init, LSlots
  <1>3. TaskCallShape
    <2>1. TaskCall(Live!Request("mount", 0)) /\ TaskCall(Live!Request("history", 0))
      BY TaskCallStarts DEF TaskOrNone
    <2> QED  BY <1>2, <2>1, TaskCallIdle DEF TaskCallShape
  <1>4. \A n \in LSlots : ~Names(n)
    BY <1>2, RequestSent DEF Names
  <1>5. TaskShape
    <2>1. PICK s : row = [t \in Task |-> [status |-> IF t = 1 THEN s ELSE "queued", msgs |-> 0]]
      BY DEF Live!Init
    <2> QED  BY <2>1 DEF TaskShape
  <1>6. wire = <<>> /\ wire \in Seq(TaskEvents)
    BY DEF Live!Init
  <1> QED  BY <1>1, <1>3, <1>4, <1>5, <1>6 DEF LiveInv, LiveShape, CardTold, CallsTold

\* The live card is mounted in its invariant, every step keeps it, and it says that the card
\* names a task at work only.
LEMMA LiveSafe ==
  /\ LiveMounted => LiveInv
  /\ LiveInv /\ Live!Next => LiveInv'
  /\ LiveInv /\ UNCHANGED pageVars => LiveInv'
  /\ LiveInv => Live!LiveMeansLive
  <1>1. LiveMounted => LiveInv
    BY LiveStarts
  <1>2. ASSUME LiveInv, Live!Next PROVE LiveInv'
    <2>1. LiveShape'
      BY <1>2, LiveKeepsCard, LiveKeepsCalls, LiveKeepsTasks, LiveKeepsWire
      DEF LiveInv, LiveShape
    <2> QED  BY <1>2, <2>1, LiveKeepsTold DEF LiveInv
  <1>3. ASSUME LiveInv, UNCHANGED pageVars PROVE LiveInv'
    BY <1>3 DEF LiveInv, LiveShape, CardShape, TaskCallShape, TaskShape,
       CardTold, CallsTold, Names, Told, EndComes, Live!Active, pageVars
  <1>4. LiveInv => Live!LiveMeansLive
    BY DEF LiveInv, CardTold, Told, EndComes, Live!LiveMeansLive
  <1> QED  BY <1>1, <1>2, <1>3, <1>4

-----------------------------------------------------------------------------
(* The page of the agents: in view, the agent of the URL; in part1, the    *)
(* detail with its draft; in row, the agents of the server.                *)

ASlots == Slots["agents"]
AgentOrNone == Agent \cup {None}

\* Every text of these agents was written for the agent that has it.
OwnTexts(st) == \A a \in Agent : \A d \in Agents!Drafts : st[a].field[d].of = a

DetailShape ==
    /\ part1 = [tab |-> part1.tab, saving |-> part1.saving, confirm |-> part1.confirm,
                picker |-> part1.picker, loading |-> part1.loading, draft |-> part1.draft]
    /\ view = [chosen |-> view.chosen, archived |-> view.archived, mobile |-> view.mobile]
    /\ view.chosen \in AgentOrNone

\* What is saved was written for the agent it is saved with.
AgentCall(r) ==
    /\ r = [kind |-> r.kind, agent |-> r.agent, tab |-> r.tab, value |-> r.value,
            skills |-> r.skills, mine |-> r.mine, then |-> r.then, status |-> r.status,
            rows |-> r.rows]
    /\ r.agent \in AgentOrNone /\ OwnTexts(r.rows)
    /\ r.kind = "save" => r.value.of = r.agent

AgentCalls(c) == c = [n \in ASlots |-> c[n]] /\ \A n \in ASlots : AgentCall(c[n])

AgentCallShape == AgentCalls(call)

AgentRowShape ==
    /\ row = [a \in Agent |-> row[a]]
    /\ \A a \in Agent : row[a] = [exists |-> row[a].exists, archived |-> row[a].archived,
                                  skills |-> row[a].skills, field |-> row[a].field]
    /\ \A a \in Agent : row[a].field = [d \in Agents!Drafts |-> row[a].field[d]]

AgentsShape == DetailShape /\ AgentCallShape /\ AgentRowShape

Selected == Agents!Selected(store, view)

\* The draft in the detail was written for the agent that is shown.
DraftOwn == Selected # None /\ part1.tab \in Agents!Drafts => part1.draft.of = Selected

AgentsInv == AgentsShape /\ OwnTexts(row) /\ OwnTexts(store) /\ DraftOwn

LEMMA NewRowsOwn ==
  /\ \A a : \A d \in Agents!Drafts : Agents!NewRow(a).field[d].of = a
  /\ OwnTexts([a \in Agent |-> Agents!NoRow(a)])
  <1>1. ASSUME NEW a PROVE \A d \in Agents!Drafts : Agents!NewRow(a).field[d].of = a
    BY DEF Agents!NewRow, Agents!Written
  <1>2. ASSUME NEW a PROVE Agents!NoRow(a).field = Agents!NewRow(a).field
    BY DEF Agents!NoRow, Agents!NewRow
  <1> QED  BY <1>1, <1>2 DEF OwnTexts

\* The agent that is shown, whatever the rows and the URL.
LEMMA SelectedIsAgent ==
  ASSUME NEW st, NEW v, v.chosen \in AgentOrNone
  PROVE  Agents!Selected(st, v) \in AgentOrNone
  BY DEF Agents!Selected, Agents!Effective, Agents!First, Agents!Filtered, AgentOrNone

LEMMA ReselectedIsAgent ==
  ASSUME NEW st, NEW v, v.chosen \in AgentOrNone,
         v = [chosen |-> v.chosen, archived |-> v.archived, mobile |-> v.mobile]
  PROVE  LET w == Agents!Reselected(st, v)
         IN  /\ w.chosen \in AgentOrNone
             /\ w = [chosen |-> w.chosen, archived |-> w.archived, mobile |-> w.mobile]
  BY DEF Agents!Reselected, Agents!First, Agents!Filtered, AgentOrNone

\* A fresh tab, and one that follows the store, show what is the agent's own.
LEMMA TabOwn ==
  ASSUME NEW st, OwnTexts(st), NEW a \in AgentOrNone, a # None, NEW tab
  PROVE  tab \in Agents!Drafts => Agents!OpenTab(st, a, tab).draft.of = a
  BY DEF Agents!OpenTab, OwnTexts, AgentOrNone

LEMMA SyncedOwn ==
  ASSUME NEW st, OwnTexts(st), DraftOwn, DetailShape, Selected # None
  PROVE  LET d == Agents!Synced(st, Selected)
         IN  d.tab \in Agents!Drafts => d.draft.of = Selected
  <1>1. Selected \in Agent
    BY SelectedIsAgent DEF DetailShape, Selected, AgentOrNone
  <1>2. CASE Agents!Synced(st, Selected) = part1
    BY <1>2 DEF DraftOwn
  <1>3. CASE /\ Agents!Synced(st, Selected) = [part1 EXCEPT !.draft = st[Selected].field[part1.tab]]
             /\ part1.tab \in Agents!Drafts
    BY <1>1, <1>3 DEF DetailShape, OwnTexts
  <1> QED  BY <1>2, <1>3 DEF Agents!Synced, Agents!Drafts

\* A request with another status, answer or list is a request.
LEMMA AgentCallField ==
  ASSUME NEW r, AgentCall(r), NEW v
  PROVE  /\ AgentCall([r EXCEPT !.status = v])
         /\ [r EXCEPT !.status = v].kind = r.kind /\ [r EXCEPT !.status = v].agent = r.agent
         /\ AgentCall([r EXCEPT !.mine = v])
         /\ AgentCall([r EXCEPT !.then = v])
         /\ AgentCall([r EXCEPT !.skills = v])
         /\ OwnTexts(v) => AgentCall([r EXCEPT !.rows = v])
         /\ v \in AgentOrNone /\ (r.kind = "save" => v = r.agent) =>
              AgentCall([r EXCEPT !.agent = v])
  <1>1. /\ AgentCall([r EXCEPT !.status = v])
        /\ [r EXCEPT !.status = v].kind = r.kind /\ [r EXCEPT !.status = v].agent = r.agent
    <2>1. [r EXCEPT !.status = v] =
            [kind |-> r.kind, agent |-> r.agent, tab |-> r.tab, value |-> r.value,
             skills |-> r.skills, mine |-> r.mine, then |-> r.then, status |-> v,
             rows |-> r.rows]
      BY DEF AgentCall
    <2> QED  BY <2>1 DEF AgentCall
  <1>2. AgentCall([r EXCEPT !.mine = v])
    <2>1. [r EXCEPT !.mine = v] =
            [kind |-> r.kind, agent |-> r.agent, tab |-> r.tab, value |-> r.value,
             skills |-> r.skills, mine |-> v, then |-> r.then, status |-> r.status,
             rows |-> r.rows]
      BY DEF AgentCall
    <2> QED  BY <2>1 DEF AgentCall
  <1>3. AgentCall([r EXCEPT !.then = v])
    <2>1. [r EXCEPT !.then = v] =
            [kind |-> r.kind, agent |-> r.agent, tab |-> r.tab, value |-> r.value,
             skills |-> r.skills, mine |-> r.mine, then |-> v, status |-> r.status,
             rows |-> r.rows]
      BY DEF AgentCall
    <2> QED  BY <2>1 DEF AgentCall
  <1>4. AgentCall([r EXCEPT !.skills = v])
    <2>1. [r EXCEPT !.skills = v] =
            [kind |-> r.kind, agent |-> r.agent, tab |-> r.tab, value |-> r.value,
             skills |-> v, mine |-> r.mine, then |-> r.then, status |-> r.status,
             rows |-> r.rows]
      BY DEF AgentCall
    <2> QED  BY <2>1 DEF AgentCall
  <1>5. OwnTexts(v) => AgentCall([r EXCEPT !.rows = v])
    <2>1. [r EXCEPT !.rows = v] =
            [kind |-> r.kind, agent |-> r.agent, tab |-> r.tab, value |-> r.value,
             skills |-> r.skills, mine |-> r.mine, then |-> r.then, status |-> r.status,
             rows |-> v]
      BY DEF AgentCall
    <2> QED  BY <2>1 DEF AgentCall
  <1>6. v \in AgentOrNone /\ (r.kind = "save" => v = r.agent) =>
          AgentCall([r EXCEPT !.agent = v])
    <2>1. [r EXCEPT !.agent = v] =
            [kind |-> r.kind, agent |-> v, tab |-> r.tab, value |-> r.value,
             skills |-> r.skills, mine |-> r.mine, then |-> r.then, status |-> r.status,
             rows |-> r.rows]
      BY DEF AgentCall
    <2> QED  BY <2>1 DEF AgentCall
  <1> QED  BY <1>1, <1>2, <1>3, <1>4, <1>5, <1>6

LEMMA AgentCallIdle == AgentCall(Agents!Idle)
  BY NewRowsOwn DEF AgentCall, Agents!Idle, AgentOrNone

\* A change of one field leaves the others alone.
AgentRecord(r) ==
    r = [kind |-> r.kind, agent |-> r.agent, tab |-> r.tab, value |-> r.value,
         skills |-> r.skills, mine |-> r.mine, then |-> r.then, status |-> r.status,
         rows |-> r.rows]

LEMMA AgentField ==
  ASSUME NEW r, AgentRecord(r), NEW v
  PROVE  /\ LET q == [r EXCEPT !.kind = v]
            IN  AgentRecord(q) /\ q.kind = v /\ q.agent = r.agent /\ q.rows = r.rows
         /\ LET q == [r EXCEPT !.agent = v]
            IN  AgentRecord(q) /\ q.kind = r.kind /\ q.agent = v /\ q.rows = r.rows
         /\ LET q == [r EXCEPT !.status = v]
            IN  AgentRecord(q) /\ q.kind = r.kind /\ q.agent = r.agent /\ q.rows = r.rows
         /\ LET q == [r EXCEPT !.mine = v]
            IN  AgentRecord(q) /\ q.kind = r.kind /\ q.agent = r.agent /\ q.rows = r.rows
         /\ LET q == [r EXCEPT !.tab = v]
            IN  AgentRecord(q) /\ q.kind = r.kind /\ q.agent = r.agent /\ q.rows = r.rows
         /\ LET q == [r EXCEPT !.value = v]
            IN  AgentRecord(q) /\ q.kind = r.kind /\ q.agent = r.agent /\ q.rows = r.rows
                /\ q.value = v
  <1>1. [r EXCEPT !.kind = v] =
         [kind |-> v, agent |-> r.agent, tab |-> r.tab, value |-> r.value,
          skills |-> r.skills, mine |-> r.mine, then |-> r.then, status |-> r.status,
          rows |-> r.rows]
    BY DEF AgentRecord
  <1>2. [r EXCEPT !.agent = v] =
         [kind |-> r.kind, agent |-> v, tab |-> r.tab, value |-> r.value,
          skills |-> r.skills, mine |-> r.mine, then |-> r.then, status |-> r.status,
          rows |-> r.rows]
    BY DEF AgentRecord
  <1>3. [r EXCEPT !.status = v] =
         [kind |-> r.kind, agent |-> r.agent, tab |-> r.tab, value |-> r.value,
          skills |-> r.skills, mine |-> r.mine, then |-> r.then, status |-> v,
          rows |-> r.rows]
    BY DEF AgentRecord
  <1>4. [r EXCEPT !.mine = v] =
         [kind |-> r.kind, agent |-> r.agent, tab |-> r.tab, value |-> r.value,
          skills |-> r.skills, mine |-> v, then |-> r.then, status |-> r.status,
          rows |-> r.rows]
    BY DEF AgentRecord
  <1>5. [r EXCEPT !.tab = v] =
         [kind |-> r.kind, agent |-> r.agent, tab |-> v, value |-> r.value,
          skills |-> r.skills, mine |-> r.mine, then |-> r.then, status |-> r.status,
          rows |-> r.rows]
    BY DEF AgentRecord
  <1>6. [r EXCEPT !.value = v] =
         [kind |-> r.kind, agent |-> r.agent, tab |-> r.tab, value |-> v,
          skills |-> r.skills, mine |-> r.mine, then |-> r.then, status |-> r.status,
          rows |-> r.rows]
    BY DEF AgentRecord
  <1> QED  BY <1>1, <1>2, <1>3, <1>4, <1>5, <1>6 DEF AgentRecord

LEMMA AgentRequest ==
  ASSUME NEW k, NEW a
  PROVE  LET q == Agents!Request(k, a)
         IN  AgentRecord(q) /\ q.kind = k /\ q.agent = a /\ OwnTexts(q.rows)
  <1> DEFINE p == [Agents!Idle EXCEPT !.kind = k]
             q == [p EXCEPT !.agent = a]
             s == [q EXCEPT !.status = "sent"]
             t == [s EXCEPT !.mine = TRUE]
  <1>1. Agents!Request(k, a) = t
    BY DEF Agents!Request
  <1>2. AgentRecord(Agents!Idle) /\ OwnTexts(Agents!Idle.rows)
    BY NewRowsOwn DEF Agents!Idle, AgentRecord
  <1>3. AgentRecord(p) /\ p.kind = k /\ p.rows = Agents!Idle.rows
    BY <1>2, AgentField
  <1> HIDE DEF p
  <1>4. AgentRecord(q) /\ q.kind = k /\ q.agent = a /\ q.rows = p.rows
    BY <1>3, AgentField
  <1> HIDE DEF q
  <1>5. AgentRecord(s) /\ s.kind = k /\ s.agent = a /\ s.rows = q.rows
    BY <1>4, AgentField
  <1> HIDE DEF s
  <1>6. AgentRecord(t) /\ t.kind = k /\ t.agent = a /\ t.rows = s.rows
    BY <1>5, AgentField
  <1> HIDE DEF t
  <1> QED  BY <1>1, <1>2, <1>3, <1>4, <1>5, <1>6

\* What the steps ask: only a save carries a text, that of its agent.
LEMMA AgentCallStarts ==
  ASSUME NEW k, NEW a \in AgentOrNone, NEW v, NEW w
  PROVE  /\ k # "save" => /\ AgentCall(Agents!Request(k, a))
                          /\ AgentCall([Agents!Request(k, a) EXCEPT !.then = v])
                          /\ AgentCall([Agents!Request(k, a) EXCEPT !.skills = v])
                          /\ AgentCall([Agents!Request(k, a) EXCEPT !.mine = v])
                          /\ AgentCall([Agents!Request(k, a) EXCEPT !.mine = v, !.then = w])
         /\ v.of = a => AgentCall([Agents!Request(k, a) EXCEPT !.tab = w, !.value = v])
  <1> DEFINE q == Agents!Request(k, a)
  <1>1. AgentRecord(q) /\ q.kind = k /\ q.agent = a /\ OwnTexts(q.rows)
    BY AgentRequest
  <1> HIDE DEF q
  <1>2. k # "save" => AgentCall(q)
    BY <1>1 DEF AgentCall, AgentRecord
  <1>3. \A r, u : AgentCall(r) => /\ AgentCall([r EXCEPT !.then = u])
                                  /\ AgentCall([r EXCEPT !.skills = u])
                                  /\ AgentCall([r EXCEPT !.mine = u])
    BY AgentCallField
  <1>4. k # "save" => AgentCall([q EXCEPT !.mine = v, !.then = w])
    BY <1>2, <1>3, Zenon
  <1>5. ASSUME v.of = a PROVE AgentCall([q EXCEPT !.tab = w, !.value = v])
    <2> DEFINE s == [q EXCEPT !.tab = w]
               t == [s EXCEPT !.value = v]
    <2>1. AgentRecord(s) /\ s.kind = k /\ s.agent = a /\ s.rows = q.rows
      BY <1>1, AgentField
    <2> HIDE DEF s
    <2>2. AgentRecord(t) /\ t.agent = a /\ t.rows = q.rows /\ t.value = v
      <3>1. \A r, u : AgentRecord(r) =>
              LET z == [r EXCEPT !.value = u]
              IN  AgentRecord(z) /\ z.agent = r.agent /\ z.rows = r.rows /\ z.value = u
        BY AgentField
      <3> QED  BY <2>1, <3>1
    <2> HIDE DEF t
    <2>3. AgentCall(t)
      BY <1>1, <1>5, <2>2 DEF AgentCall, AgentRecord
    <2> QED  BY <2>3 DEF s, t
  <1>6. k # "save" => /\ AgentCall([q EXCEPT !.then = v])
                      /\ AgentCall([q EXCEPT !.skills = v])
                      /\ AgentCall([q EXCEPT !.mine = v])
    BY <1>2, <1>3
  <1> QED  BY <1>2, <1>4, <1>5, <1>6 DEF q

LEMMA AgentSendsAgain ==
  ASSUME NEW c, AgentCalls(c)
  PROVE  /\ AgentCalls(Agents!Orphaned(c))
         /\ \A r : \A n \in ASlots : AgentCall(r) => AgentCalls([c EXCEPT ![n] = r])
  <1>1. \A n \in ASlots : AgentCall([c[n] EXCEPT !.mine = FALSE])
    BY AgentCallField DEF AgentCalls
  <1> QED  BY <1>1 DEF AgentCalls, Agents!Orphaned, ASlots

\* An answer of the server to a request: it is about the agent of the request, or about the
\* agent that was created.
AgentAnswer(q, r) ==
    \/ \E a \in AgentOrNone : \E v :
         /\ OwnTexts(v) /\ (q.kind = "save" => a = q.agent)
         /\ r = [q EXCEPT !.status = "ok", !.agent = a, !.rows = v]
    \/ r = [q EXCEPT !.status = "error"]

LEMMA AgentAnswers ==
  ASSUME AgentCallShape, OwnTexts(row), NEW n \in ASlots, Agents!Answer(n)
  PROVE  call' = [call EXCEPT ![n] = call'[n]] /\ AgentAnswer(call[n], call'[n])
  <1> DEFINE ok == [call EXCEPT ![n].status = "ok"]
             on(a) == [ok EXCEPT ![n].agent = a]
  <1>1. /\ call = [m \in ASlots |-> call[m]] /\ AgentCall(call[n])
        /\ ok = [m \in ASlots |-> ok[m]] /\ ok[n] = [call[n] EXCEPT !.status = "ok"]
        /\ \A m \in ASlots : m # n => ok[m] = call[m]
    BY DEF AgentCallShape, AgentCalls
  <1>2. \/ \E a \in IF call[n].kind = "create" THEN {b \in Agent : ~row[b].exists}
                                               ELSE {call[n].agent} :
             call' = [on(a) EXCEPT ![n].rows = IF call[n].kind = "refresh" THEN row
                                                                  ELSE call[n].rows]
        \/ call' = [call EXCEPT ![n].status = "error"]
    BY DEF Agents!Answer
  <1> HIDE DEF ok
  <1>3. ASSUME NEW a \in IF call[n].kind = "create" THEN {b \in Agent : ~row[b].exists}
                                                      ELSE {call[n].agent},
               call' = [on(a) EXCEPT ![n].rows = IF call[n].kind = "refresh" THEN row
                                                                    ELSE call[n].rows]
        PROVE  call' = [call EXCEPT ![n] = call'[n]] /\ AgentAnswer(call[n], call'[n])
    <2>0. a \in AgentOrNone /\ (call[n].kind = "save" => a = call[n].agent)
      BY <1>1, <1>3 DEF AgentCall, AgentOrNone
    <2>1. /\ on(a) = [m \in ASlots |-> on(a)[m]] /\ on(a)[n] = [ok[n] EXCEPT !.agent = a]
          /\ \A m \in ASlots : m # n => on(a)[m] = call[m]
      BY <1>1
    <2>2. AgentCall(ok[n]) /\ ok[n].kind = call[n].kind /\ ok[n].agent = call[n].agent
      <3>1. \A v : /\ AgentCall([call[n] EXCEPT !.status = v])
                   /\ [call[n] EXCEPT !.status = v].kind = call[n].kind
                   /\ [call[n] EXCEPT !.status = v].agent = call[n].agent
        BY <1>1, AgentCallField
      <3>2. ok[n] = [call[n] EXCEPT !.status = "ok"]
        BY <1>1
      <3> QED  BY <3>1, <3>2, Zenon
    <2>3. AgentCall(on(a)[n])
      BY <2>0, <2>1, <2>2, AgentCallField
    <2>4. PICK v : /\ v = (IF call[n].kind = "refresh" THEN row ELSE call[n].rows)
                   /\ call' = [on(a) EXCEPT ![n].rows = v]
      BY <1>3
    <2> HIDE DEF on
    <2>7. OwnTexts(v)
      BY <1>1, <2>4 DEF AgentCall
    <2>5. call'[n] = [on(a)[n] EXCEPT !.rows = v] /\ call' = [call EXCEPT ![n] = call'[n]]
      BY <1>1, <2>1, <2>4
    <2>6. call'[n] = [call[n] EXCEPT !.status = "ok", !.agent = a, !.rows = v]
      BY <1>1, <2>1, <2>5
    <2>8. AgentAnswer(call[n], call'[n])
      BY <2>0, <2>6, <2>7, Zenon DEF AgentAnswer
    <2> QED  BY <2>5, <2>8
  <1>4. CASE call' = [call EXCEPT ![n].status = "error"]
    BY <1>1, <1>4 DEF AgentAnswer
  <1> QED  BY <1>2, <1>3, <1>4

LEMMA AgentAnswered ==
  ASSUME NEW q, AgentCall(q), NEW r, AgentAnswer(q, r)
  PROVE  AgentCall(r)
  <1>1. \A p, w : AgentCall(p) => /\ AgentCall([p EXCEPT !.status = w])
                                  /\ [p EXCEPT !.status = w].kind = p.kind
                                  /\ [p EXCEPT !.status = w].agent = p.agent
    BY AgentCallField
  <1>2. \A p, w : AgentCall(p) /\ OwnTexts(w) => AgentCall([p EXCEPT !.rows = w])
    BY AgentCallField
  <1>3. \A p : \A w \in AgentOrNone :
          AgentCall(p) /\ (p.kind = "save" => w = p.agent) => AgentCall([p EXCEPT !.agent = w])
    BY AgentCallField
  <1>4. CASE r = [q EXCEPT !.status = "error"]
    BY <1>1, <1>4
  <1>5. ASSUME NEW a \in AgentOrNone, NEW v, OwnTexts(v), q.kind = "save" => a = q.agent,
               r = [q EXCEPT !.status = "ok", !.agent = a, !.rows = v]
        PROVE  AgentCall(r)
    <2> DEFINE s == [q EXCEPT !.status = "ok"]
               t == [s EXCEPT !.agent = a]
    <2>1. AgentCall(s) /\ s.kind = q.kind /\ s.agent = q.agent
      BY <1>1, Zenon
    <2> HIDE DEF s
    <2>2. AgentCall(t)
      BY <1>3, <1>5, <2>1, Zenon
    <2> HIDE DEF t
    <2>3. AgentCall([t EXCEPT !.rows = v])
      BY <1>2, <1>5, <2>2, Zenon
    <2> QED  BY <1>5, <2>3, Zenon DEF s, t
  <1> QED  BY <1>4, <1>5 DEF AgentAnswer

\* Only a save carries a text, and it is the text of the agent that is shown.
LEMMA AgentsKeepCalls ==
  ASSUME AgentsInv, Agents!Next
  PROVE  AgentCallShape'
  <1> USE DEF AgentsInv, AgentsShape, DetailShape, AgentCallShape, ASlots
  <1>1. ASSUME NEW a \in Agent, Agents!SelectAgent(a)
        PROVE  AgentCallShape'
    <2>1. call' = call \/ call' = Agents!Orphaned(call)
      BY <1>1 DEF Agents!SelectAgent, Agents!Render
    <2> QED  BY <2>1, AgentSendsAgain DEF AgentCalls
  <1>2. CASE Agents!ToggleArchived
    <2>1. call' = call \/ call' = Agents!Orphaned(call)
      BY <1>2 DEF Agents!ToggleArchived, Agents!Render
    <2> QED  BY <2>1, AgentSendsAgain DEF AgentCalls
  <1>3. CASE Agents!Back
    <2>1. call' = call \/ call' = Agents!Orphaned(call)
      BY <1>3 DEF Agents!Back, Agents!Render
    <2> QED  BY <2>1, AgentSendsAgain DEF AgentCalls
  <1>4. CASE Agents!OpenCreate
    BY <1>4 DEF Agents!OpenCreate
  <1>5. CASE Agents!FillDialog
    BY <1>5 DEF Agents!FillDialog
  <1>6. CASE Agents!CancelCreate
    BY <1>6 DEF Agents!CancelCreate
  <1>7. CASE Agents!RuntimesArrive
    BY <1>7 DEF Agents!RuntimesArrive
  <1>8. ASSUME NEW tab \in Agents!Tabs, Agents!ChooseTab(tab)
        PROVE  AgentCallShape'
    <2>1. call' = Agents!Orphaned(call)
      BY <1>8 DEF Agents!ChooseTab
    <2> QED  BY <2>1, AgentSendsAgain DEF AgentCalls
  <1>9. ASSUME NEW k, Agents!TypeInstructions(k)
        PROVE  AgentCallShape'
    BY <1>9 DEF Agents!TypeInstructions, Agents!Edit
  <1>10. ASSUME NEW k, Agents!EditTools(k)
        PROVE  AgentCallShape'
    BY <1>10 DEF Agents!EditTools, Agents!Edit
  <1>11. ASSUME NEW k, Agents!EditTriggers(k)
        PROVE  AgentCallShape'
    BY <1>11 DEF Agents!EditTriggers, Agents!Edit
  <1>12. ASSUME NEW k, Agents!EditSettings(k)
        PROVE  AgentCallShape'
    BY <1>12 DEF Agents!EditSettings, Agents!Edit
  <1>13. CASE Agents!TasksArrive
    BY <1>13 DEF Agents!TasksArrive
  <1>14. CASE Agents!OpenPicker
    BY <1>14 DEF Agents!OpenPicker
  <1>15. CASE Agents!ClosePicker
    BY <1>15 DEF Agents!ClosePicker
  <1>16. CASE Agents!AskArchive
    BY <1>16 DEF Agents!AskArchive
  <1>17. CASE Agents!CancelArchive
    BY <1>17 DEF Agents!CancelArchive
  <1>18. ASSUME NEW n \in ASlots, Agents!SubmitCreate(n)
        PROVE  AgentCallShape'
    <2>1. \E r : AgentCall(r) /\ call' = [call EXCEPT ![n] = r]
      BY <1>18, AgentCallStarts DEF Agents!SubmitCreate, Agents!Send, AgentOrNone
    <2> QED  BY <2>1, AgentSendsAgain DEF AgentCalls
  <1>19. ASSUME NEW n \in ASlots, Agents!SaveDraft(n)
        PROVE  AgentCallShape'
    <2>1. Selected \in AgentOrNone
      BY SelectedIsAgent DEF Selected
    <2>2. part1.draft.of = Selected
      BY <1>19 DEF DraftOwn, Agents!SaveDraft, Agents!DetailShown, Selected
    <2>3. call' = [call EXCEPT ![n] = [Agents!Request("save", Selected) EXCEPT
                                         !.tab = part1.tab, !.value = part1.draft]]
      BY <1>19 DEF Agents!SaveDraft, Agents!Send, Selected
    <2>4. AgentCall([Agents!Request("save", Selected) EXCEPT
                       !.tab = part1.tab, !.value = part1.draft])
      BY <2>1, <2>2, AgentCallStarts
    <2> QED  BY <2>3, <2>4, AgentSendsAgain DEF AgentCalls
  <1>20. ASSUME NEW n \in ASlots, Agents!ConfirmArchive(n)
        PROVE  AgentCallShape'
    <2>1. Selected \in AgentOrNone
      BY SelectedIsAgent DEF Selected
    <2>2. \E r : AgentCall(r) /\ call' = [call EXCEPT ![n] = r]
      BY <1>20, <2>1, AgentCallStarts DEF Agents!ConfirmArchive, Agents!Send, Selected
    <2> QED  BY <2>2, AgentSendsAgain DEF AgentCalls
  <1>21. ASSUME NEW n \in ASlots, Agents!Restore(n)
        PROVE  AgentCallShape'
    <2>1. Selected \in AgentOrNone
      BY SelectedIsAgent DEF Selected
    <2>2. \E r : AgentCall(r) /\ call' = [call EXCEPT ![n] = r]
      BY <1>21, <2>1, AgentCallStarts DEF Agents!Restore, Agents!Send, Selected
    <2> QED  BY <2>2, AgentSendsAgain DEF AgentCalls
  <1>22. ASSUME NEW n \in ASlots, Agents!Answer(n)
        PROVE  AgentCallShape'
    <2>1. AgentCall(call'[n])
      BY <1>22, AgentAnswers, AgentAnswered DEF AgentCallShape, AgentCalls
    <2>2. \E r : AgentCall(r) /\ call' = [call EXCEPT ![n] = r]
      BY <1>22, <2>1, AgentAnswers
    <2> QED  BY <2>2, AgentSendsAgain DEF AgentCalls
  <1>23. ASSUME NEW n \in ASlots, Agents!Accepted(n)
        PROVE  AgentCallShape'
    <2>1. call[n].agent \in AgentOrNone
      BY DEF AgentCallShape, AgentCalls, AgentCall
    <2>2. \E r : AgentCall(r) /\ call' = [call EXCEPT ![n] = r]
      BY <1>23, <2>1, AgentCallStarts DEF Agents!Accepted
    <2> QED  BY <2>2, AgentSendsAgain DEF AgentCalls
  <1>24. ASSUME NEW n \in ASlots, Agents!Refreshed(n)
        PROVE  AgentCallShape'
    <2>1. \E c : c = [call EXCEPT ![n] = Agents!Idle]
                 /\ (call' = c \/ call' = Agents!Orphaned(c))
      BY <1>24 DEF Agents!Refreshed
    <2>2. AgentCalls([call EXCEPT ![n] = Agents!Idle])
      BY AgentCallIdle, AgentSendsAgain DEF AgentCalls
    <2>3. \E c : AgentCalls(c) /\ call' = c
      <3>1. \A c : AgentCalls(c) => AgentCalls(Agents!Orphaned(c))
        BY AgentSendsAgain
      <3> QED  BY <2>1, <2>2, <3>1, Zenon
    <2> QED  BY <2>3 DEF AgentCalls
  <1>25. ASSUME NEW n \in ASlots, Agents!Refused(n)
        PROVE  AgentCallShape'
    <2>1. call' = [call EXCEPT ![n] = Agents!Idle]
      BY <1>25 DEF Agents!Refused
    <2> QED  BY <2>1, AgentCallIdle, AgentSendsAgain DEF AgentCalls
  <1>26. ASSUME NEW n \in ASlots, Agents!BackgroundRefresh(n)
        PROVE  AgentCallShape'
    <2>1. \E r : AgentCall(r) /\ call' = [call EXCEPT ![n] = r]
      BY <1>26, AgentCallStarts DEF Agents!BackgroundRefresh, Agents!Send, AgentOrNone
    <2> QED  BY <2>1, AgentSendsAgain DEF AgentCalls
  <1>27. ASSUME NEW n \in ASlots, NEW s \in Skill, Agents!AddSkill(n, s)
        PROVE  AgentCallShape'
    <2>1. Selected \in AgentOrNone
      BY SelectedIsAgent DEF Selected
    <2>2. \E r : AgentCall(r) /\ call' = [call EXCEPT ![n] = r]
      BY <1>27, <2>1, AgentCallStarts DEF Agents!AddSkill, Agents!Send, Selected
    <2> QED  BY <2>2, AgentSendsAgain DEF AgentCalls
  <1>28. ASSUME NEW n \in ASlots, NEW s \in Skill, Agents!RemoveSkill(n, s)
        PROVE  AgentCallShape'
    <2>1. Selected \in AgentOrNone
      BY SelectedIsAgent DEF Selected
    <2>2. \E r : AgentCall(r) /\ call' = [call EXCEPT ![n] = r]
      BY <1>28, <2>1, AgentCallStarts DEF Agents!RemoveSkill, Agents!Send, Selected
    <2> QED  BY <2>2, AgentSendsAgain DEF AgentCalls
  <1> QED
    BY <1>1, <1>2, <1>3, <1>4, <1>5, <1>6, <1>7, <1>8, <1>9, <1>10, <1>11,
       <1>12, <1>13, <1>14, <1>15, <1>16, <1>17, <1>18, <1>19, <1>20, <1>21,
       <1>22, <1>23, <1>24, <1>25, <1>26, <1>27, <1>28
    DEF Agents!Next, ASlots

\* A render shows what is the agent's own, in the tab that stays or in a fresh one.
DetailRecord(d) ==
    d = [tab |-> d.tab, saving |-> d.saving, confirm |-> d.confirm, picker |-> d.picker,
         loading |-> d.loading, draft |-> d.draft]

LEMMA TabsAreRecords ==
  ASSUME DetailShape, NEW st, NEW a, NEW tab
  PROVE  DetailRecord(Agents!OpenTab(st, a, tab)) /\ DetailRecord(Agents!Synced(st, a))
  <1>1. DetailRecord(Agents!OpenTab(st, a, tab))
    BY DEF Agents!OpenTab, DetailRecord
  <1>2. DetailRecord(Agents!Synced(st, a))
    <2>1. \/ Agents!Synced(st, a) = part1
          \/ Agents!Synced(st, a) = [part1 EXCEPT !.draft = st[a].field[part1.tab]]
      BY DEF Agents!Synced
    <2> QED  BY <2>1 DEF DetailShape, DetailRecord
  <1> QED  BY <1>1, <1>2

LEMMA RenderKeeps ==
  ASSUME DetailShape, DraftOwn, NEW st, OwnTexts(st), NEW v, v.chosen \in AgentOrNone,
         v = [chosen |-> v.chosen, archived |-> v.archived, mobile |-> v.mobile],
         NEW c, Agents!Render(st, v, c)
  PROVE  DetailShape' /\ DraftOwn'
  <1> DEFINE w == Agents!Reselected(st, v)
             a == Agents!Selected(st, w)
  <1>1. /\ store' = st /\ view' = w
        /\ part1' = IF a # None /\ a = Selected THEN Agents!Synced(st, a)
                                                ELSE Agents!OpenTab(st, a, "instructions")
    BY DEF Agents!Render, Selected
  <1>2. /\ w.chosen \in AgentOrNone
        /\ w = [chosen |-> w.chosen, archived |-> w.archived, mobile |-> w.mobile]
    BY ReselectedIsAgent
  <1>3. a \in AgentOrNone
    BY <1>2, SelectedIsAgent
  <1>4. Selected' = a
    BY <1>1 DEF Selected
  <1> HIDE DEF w, a
  <1>5. DetailShape'
    <2>1. DetailRecord(part1')
      BY <1>1, TabsAreRecords
    <2> QED  BY <1>1, <1>2, <2>1 DEF DetailShape, DetailRecord
  <1>6. DraftOwn'
    <2>1. CASE a # None /\ a = Selected
      BY <1>1, <1>4, <2>1, SyncedOwn DEF DraftOwn
    <2>2. CASE a # None /\ a # Selected
      <3>1. Agents!OpenTab(st, a, "instructions").draft.of = a
        BY <1>3, <2>2, TabOwn DEF Agents!Drafts
      <3> QED  BY <1>1, <1>4, <2>2, <3>1 DEF DraftOwn
    <2>3. CASE a = None
      BY <1>4, <2>3 DEF DraftOwn
    <2> QED  BY <2>1, <2>2, <2>3
  <1> QED  BY <1>5, <1>6

LEMMA DetailStays ==
  ASSUME DetailShape, DraftOwn, view' = view, store' = store, DetailRecord(part1'),
         \/ part1'.tab = part1.tab /\ part1'.draft = part1.draft
         \/ part1'.tab \in Agents!Drafts => part1'.draft.of = Selected
  PROVE  DetailShape' /\ DraftOwn'
  <1>1. Selected' = Selected
    BY DEF Selected
  <1>2. DetailShape'
    BY DEF DetailShape, DetailRecord
  <1>3. DraftOwn'
    BY <1>1 DEF DraftOwn
  <1> QED  BY <1>2, <1>3

\* What is shown keeps its fields, and its draft stays the text of the agent that is shown.
LEMMA AgentsKeepDetail ==
  ASSUME AgentsInv, Agents!Next
  PROVE  DetailShape' /\ DraftOwn'
  <1> USE DEF AgentsInv, AgentsShape, ASlots
  <1>1. ASSUME NEW a \in Agent, Agents!SelectAgent(a)
        PROVE  DetailShape' /\ DraftOwn'
    <2>1. Agents!Render(store, [view EXCEPT !.chosen = a], call)
      BY <1>1 DEF Agents!SelectAgent
    <2>2. PICK v : v = [view EXCEPT !.chosen = a]
      OBVIOUS
    <2>3. /\ v.chosen \in AgentOrNone
          /\ v = [chosen |-> v.chosen, archived |-> v.archived, mobile |-> v.mobile]
      BY <2>2 DEF DetailShape, AgentOrNone
    <2> QED  BY <2>1, <2>2, <2>3, RenderKeeps
  <1>2. CASE Agents!ToggleArchived
    <2>1. Agents!Render(store, [view EXCEPT !.archived = ~view.archived], call)
      BY <1>2 DEF Agents!ToggleArchived
    <2>2. PICK v : v = [view EXCEPT !.archived = ~view.archived]
      OBVIOUS
    <2>3. /\ v.chosen \in AgentOrNone
          /\ v = [chosen |-> v.chosen, archived |-> v.archived, mobile |-> v.mobile]
      BY <2>2 DEF DetailShape, AgentOrNone
    <2> QED  BY <2>1, <2>2, <2>3, RenderKeeps
  <1>3. CASE Agents!Back
    <2>1. Agents!Render(store, [view EXCEPT !.chosen = None], call)
      BY <1>3 DEF Agents!Back
    <2>2. PICK v : v = [view EXCEPT !.chosen = None]
      OBVIOUS
    <2>3. /\ v.chosen \in AgentOrNone
          /\ v = [chosen |-> v.chosen, archived |-> v.archived, mobile |-> v.mobile]
      BY <2>2 DEF DetailShape, AgentOrNone
    <2> QED  BY <2>1, <2>2, <2>3, RenderKeeps
  <1>4. CASE Agents!OpenCreate
    <2>1. part1' = part1 /\ view' = view /\ store' = store
      BY <1>4 DEF Agents!OpenCreate
    <2> QED  BY <2>1, DetailStays DEF DetailShape, DetailRecord
  <1>5. CASE Agents!FillDialog
    <2>1. part1' = part1 /\ view' = view /\ store' = store
      BY <1>5 DEF Agents!FillDialog
    <2> QED  BY <2>1, DetailStays DEF DetailShape, DetailRecord
  <1>6. CASE Agents!CancelCreate
    <2>1. part1' = part1 /\ view' = view /\ store' = store
      BY <1>6 DEF Agents!CancelCreate
    <2> QED  BY <2>1, DetailStays DEF DetailShape, DetailRecord
  <1>7. CASE Agents!RuntimesArrive
    <2>1. part1' = part1 /\ view' = view /\ store' = store
      BY <1>7 DEF Agents!RuntimesArrive
    <2> QED  BY <2>1, DetailStays DEF DetailShape, DetailRecord
  <1>8. ASSUME NEW tab \in Agents!Tabs, Agents!ChooseTab(tab)
        PROVE  DetailShape' /\ DraftOwn'
    <2> DEFINE d == Agents!OpenTab(store, Selected, tab)
    <2>1. view' = view /\ store' = store /\ Selected # None
      BY <1>8 DEF Agents!ChooseTab, Agents!DetailShown, Selected
    <2>2. part1' = [d EXCEPT !.confirm = part1.confirm]
      BY <1>8 DEF Agents!ChooseTab, Selected
    <2>3. DetailRecord(d) /\ d.tab = tab
      BY TabsAreRecords DEF Agents!OpenTab
    <2>4. tab \in Agents!Drafts => d.draft.of = Selected
      BY <2>1, TabOwn, SelectedIsAgent DEF DetailShape, Selected
    <2> HIDE DEF d
    <2>5. DetailRecord(part1') /\ part1'.tab = tab /\ part1'.draft = d.draft
      BY <2>2, <2>3 DEF DetailRecord
    <2> QED  BY <2>1, <2>3, <2>4, <2>5, DetailStays
  <1>9. ASSUME NEW k, Agents!TypeInstructions(k)
        PROVE  DetailShape' /\ DraftOwn'
    <2>1. view' = view /\ store' = store
      BY <1>9 DEF Agents!TypeInstructions, Agents!Edit
    <2>2. part1' = [part1 EXCEPT !.draft = Agents!Written(Selected, k)]
      BY <1>9 DEF Agents!TypeInstructions, Agents!Edit, Selected
    <2>3. DetailRecord(part1') /\ part1'.draft.of = Selected
      BY <2>2 DEF Agents!Written, DetailShape, DetailRecord
    <2> QED  BY <2>1, <2>3, DetailStays
  <1>10. ASSUME NEW k, Agents!EditTools(k)
        PROVE  DetailShape' /\ DraftOwn'
    <2>1. view' = view /\ store' = store
      BY <1>10 DEF Agents!EditTools, Agents!Edit
    <2>2. part1' = [part1 EXCEPT !.draft = Agents!Written(Selected, k)]
      BY <1>10 DEF Agents!EditTools, Agents!Edit, Selected
    <2>3. DetailRecord(part1') /\ part1'.draft.of = Selected
      BY <2>2 DEF Agents!Written, DetailShape, DetailRecord
    <2> QED  BY <2>1, <2>3, DetailStays
  <1>11. ASSUME NEW k, Agents!EditTriggers(k)
        PROVE  DetailShape' /\ DraftOwn'
    <2>1. view' = view /\ store' = store
      BY <1>11 DEF Agents!EditTriggers, Agents!Edit
    <2>2. part1' = [part1 EXCEPT !.draft = Agents!Written(Selected, k)]
      BY <1>11 DEF Agents!EditTriggers, Agents!Edit, Selected
    <2>3. DetailRecord(part1') /\ part1'.draft.of = Selected
      BY <2>2 DEF Agents!Written, DetailShape, DetailRecord
    <2> QED  BY <2>1, <2>3, DetailStays
  <1>12. ASSUME NEW k, Agents!EditSettings(k)
        PROVE  DetailShape' /\ DraftOwn'
    <2>1. view' = view /\ store' = store
      BY <1>12 DEF Agents!EditSettings, Agents!Edit
    <2>2. part1' = [part1 EXCEPT !.draft = Agents!Written(Selected, k)]
      BY <1>12 DEF Agents!EditSettings, Agents!Edit, Selected
    <2>3. DetailRecord(part1') /\ part1'.draft.of = Selected
      BY <2>2 DEF Agents!Written, DetailShape, DetailRecord
    <2> QED  BY <2>1, <2>3, DetailStays
  <1>13. CASE Agents!TasksArrive
    <2>1. view' = view /\ store' = store
      BY <1>13 DEF Agents!TasksArrive
    <2>2. DetailRecord(part1') /\ part1'.tab = part1.tab /\ part1'.draft = part1.draft
      BY <1>13 DEF Agents!TasksArrive, DetailShape, DetailRecord
    <2> QED  BY <2>1, <2>2, DetailStays
  <1>14. CASE Agents!OpenPicker
    <2>1. view' = view /\ store' = store
      BY <1>14 DEF Agents!OpenPicker
    <2>2. DetailRecord(part1') /\ part1'.tab = part1.tab /\ part1'.draft = part1.draft
      BY <1>14 DEF Agents!OpenPicker, DetailShape, DetailRecord
    <2> QED  BY <2>1, <2>2, DetailStays
  <1>15. CASE Agents!ClosePicker
    <2>1. view' = view /\ store' = store
      BY <1>15 DEF Agents!ClosePicker
    <2>2. DetailRecord(part1') /\ part1'.tab = part1.tab /\ part1'.draft = part1.draft
      BY <1>15 DEF Agents!ClosePicker, DetailShape, DetailRecord
    <2> QED  BY <2>1, <2>2, DetailStays
  <1>16. CASE Agents!AskArchive
    <2>1. view' = view /\ store' = store
      BY <1>16 DEF Agents!AskArchive
    <2>2. DetailRecord(part1') /\ part1'.tab = part1.tab /\ part1'.draft = part1.draft
      BY <1>16 DEF Agents!AskArchive, DetailShape, DetailRecord
    <2> QED  BY <2>1, <2>2, DetailStays
  <1>17. CASE Agents!CancelArchive
    <2>1. view' = view /\ store' = store
      BY <1>17 DEF Agents!CancelArchive
    <2>2. DetailRecord(part1') /\ part1'.tab = part1.tab /\ part1'.draft = part1.draft
      BY <1>17 DEF Agents!CancelArchive, DetailShape, DetailRecord
    <2> QED  BY <2>1, <2>2, DetailStays
  <1>18. ASSUME NEW n \in ASlots, Agents!SubmitCreate(n)
        PROVE  DetailShape' /\ DraftOwn'
    <2>1. part1' = part1 /\ view' = view /\ store' = store
      BY <1>18 DEF Agents!SubmitCreate
    <2> QED  BY <2>1, DetailStays DEF DetailShape, DetailRecord
  <1>19. ASSUME NEW n \in ASlots, Agents!SaveDraft(n)
        PROVE  DetailShape' /\ DraftOwn'
    <2>1. view' = view /\ store' = store
      BY <1>19 DEF Agents!SaveDraft
    <2>2. DetailRecord(part1') /\ part1'.tab = part1.tab /\ part1'.draft = part1.draft
      BY <1>19 DEF Agents!SaveDraft, DetailShape, DetailRecord
    <2> QED  BY <2>1, <2>2, DetailStays
  <1>20. ASSUME NEW n \in ASlots, Agents!ConfirmArchive(n)
        PROVE  DetailShape' /\ DraftOwn'
    <2>1. view' = view /\ store' = store
      BY <1>20 DEF Agents!ConfirmArchive
    <2>2. DetailRecord(part1') /\ part1'.tab = part1.tab /\ part1'.draft = part1.draft
      BY <1>20 DEF Agents!ConfirmArchive, DetailShape, DetailRecord
    <2> QED  BY <2>1, <2>2, DetailStays
  <1>21. ASSUME NEW n \in ASlots, Agents!Restore(n)
        PROVE  DetailShape' /\ DraftOwn'
    <2>1. part1' = part1 /\ view' = view /\ store' = store
      BY <1>21 DEF Agents!Restore
    <2> QED  BY <2>1, DetailStays DEF DetailShape, DetailRecord
  <1>22. ASSUME NEW n \in ASlots, Agents!Answer(n)
        PROVE  DetailShape' /\ DraftOwn'
    <2>1. part1' = part1 /\ view' = view /\ store' = store
      BY <1>22 DEF Agents!Answer
    <2> QED  BY <2>1, DetailStays DEF DetailShape, DetailRecord
  <1>23. ASSUME NEW n \in ASlots, Agents!Accepted(n)
        PROVE  DetailShape' /\ DraftOwn'
    <2>1. part1' = part1 /\ view' = view /\ store' = store
      BY <1>23 DEF Agents!Accepted
    <2> QED  BY <2>1, DetailStays DEF DetailShape, DetailRecord
  <1>24. ASSUME NEW n \in ASlots, Agents!Refreshed(n)
        PROVE  DetailShape' /\ DraftOwn'
    <2> DEFINE st == IF call[n].status = "ok" THEN call[n].rows ELSE store
               w == IF call[n].then = "select" THEN [view EXCEPT !.chosen = call[n].agent]
                                               ELSE view
               v == Agents!Reselected(st, w)
               a == Agents!Selected(st, v)
               d == IF call[n].status = "ok" THEN Agents!Synced(st, a) ELSE part1
    <2>1. /\ store' = st /\ view' = v
          /\ part1' = IF a # None /\ a = Selected THEN Agents!Unsaved(d, call[n])
                      ELSE Agents!OpenTab(st, a, "instructions")
      BY <1>24 DEF Agents!Refreshed, Selected
    <2>2. AgentCall(call[n])
      BY DEF AgentCallShape, AgentCalls
    <2>3. OwnTexts(st)
      BY <2>2 DEF AgentCall
    <2>4. /\ w.chosen \in AgentOrNone
          /\ w = [chosen |-> w.chosen, archived |-> w.archived, mobile |-> w.mobile]
      BY <2>2 DEF AgentCall, DetailShape
    <2> HIDE DEF st, w
    <2>5. /\ v.chosen \in AgentOrNone
          /\ v = [chosen |-> v.chosen, archived |-> v.archived, mobile |-> v.mobile]
      BY <2>4, ReselectedIsAgent
    <2> HIDE DEF v
    <2>6. a \in AgentOrNone
      BY <2>5, SelectedIsAgent
    <2>7. Selected' = a
      BY <2>1 DEF Selected
    <2> HIDE DEF a
    <2>8. CASE a # None /\ a = Selected
      <3>1. DetailRecord(d) /\ (d.tab \in Agents!Drafts => d.draft.of = Selected)
        BY <2>3, <2>8, TabsAreRecords, SyncedOwn DEF DraftOwn, DetailShape, DetailRecord
      <3>2. part1' = Agents!Unsaved(d, call[n])
        BY <2>1, <2>8
      <3> HIDE DEF d
      <3>3. /\ DetailRecord(Agents!Unsaved(d, call[n]))
            /\ Agents!Unsaved(d, call[n]).tab = d.tab
            /\ Agents!Unsaved(d, call[n]).draft = d.draft
        BY <3>1 DEF Agents!Unsaved, DetailRecord
      <3> QED  BY <2>1, <2>5, <2>7, <2>8, <3>1, <3>2, <3>3 DEF DetailShape, DetailRecord, DraftOwn
    <2>9. CASE ~(a # None /\ a = Selected)
      <3>1. part1' = Agents!OpenTab(st, a, "instructions")
        BY <2>1, <2>9
      <3>2. DetailRecord(part1')
        BY <3>1, TabsAreRecords
      <3>3. DraftOwn'
        <4>1. a # None => Agents!OpenTab(st, a, "instructions").draft.of = a
          BY <2>3, <2>6, TabOwn DEF Agents!Drafts
        <4> QED  BY <2>7, <3>1, <4>1 DEF DraftOwn
      <3> QED  BY <2>1, <2>5, <3>2, <3>3 DEF DetailShape, DetailRecord
    <2> QED  BY <2>8, <2>9
  <1>25. ASSUME NEW n \in ASlots, Agents!Refused(n)
        PROVE  DetailShape' /\ DraftOwn'
    <2>1. view' = view /\ store' = store
      BY <1>25 DEF Agents!Refused
    <2>2. \/ part1' = part1
          \/ \E p : part1' = [part1 EXCEPT !.saving = FALSE, !.picker = p]
      BY <1>25 DEF Agents!Refused
    <2>3. DetailRecord(part1') /\ part1'.tab = part1.tab /\ part1'.draft = part1.draft
      BY <2>2 DEF DetailShape, DetailRecord
    <2> QED  BY <2>1, <2>3, DetailStays
  <1>26. ASSUME NEW n \in ASlots, Agents!BackgroundRefresh(n)
        PROVE  DetailShape' /\ DraftOwn'
    <2>1. part1' = part1 /\ view' = view /\ store' = store
      BY <1>26 DEF Agents!BackgroundRefresh
    <2> QED  BY <2>1, DetailStays DEF DetailShape, DetailRecord
  <1>27. ASSUME NEW n \in ASlots, NEW s \in Skill, Agents!AddSkill(n, s)
        PROVE  DetailShape' /\ DraftOwn'
    <2>1. view' = view /\ store' = store
      BY <1>27 DEF Agents!AddSkill
    <2>2. DetailRecord(part1') /\ part1'.tab = part1.tab /\ part1'.draft = part1.draft
      BY <1>27 DEF Agents!AddSkill, DetailShape, DetailRecord
    <2> QED  BY <2>1, <2>2, DetailStays
  <1>28. ASSUME NEW n \in ASlots, NEW s \in Skill, Agents!RemoveSkill(n, s)
        PROVE  DetailShape' /\ DraftOwn'
    <2>1. view' = view /\ store' = store
      BY <1>28 DEF Agents!RemoveSkill
    <2>2. DetailRecord(part1') /\ part1'.tab = part1.tab /\ part1'.draft = part1.draft
      BY <1>28 DEF Agents!RemoveSkill, DetailShape, DetailRecord
    <2> QED  BY <2>1, <2>2, DetailStays
  <1> QED
    BY <1>1, <1>2, <1>3, <1>4, <1>5, <1>6, <1>7, <1>8, <1>9, <1>10, <1>11,
       <1>12, <1>13, <1>14, <1>15, <1>16, <1>17, <1>18, <1>19, <1>20, <1>21,
       <1>22, <1>23, <1>24, <1>25, <1>26, <1>27, <1>28
    DEF Agents!Next, ASlots

\* The fields of a new agent, and of one that is not there.
LEMMA NewRowMade ==
  ASSUME NEW a
  PROVE  LET q == Agents!NewRow(a)
             r == Agents!NoRow(a)
         IN  /\ q = [exists |-> q.exists, archived |-> q.archived, skills |-> q.skills,
                     field |-> q.field]
             /\ q.field = [d \in Agents!Drafts |-> q.field[d]]
             /\ r = [exists |-> r.exists, archived |-> r.archived, skills |-> r.skills,
                     field |-> r.field]
             /\ r.field = q.field
  <1> DEFINE q == Agents!NewRow(a)
  <1>1. /\ q = [exists |-> q.exists, archived |-> q.archived, skills |-> q.skills,
                field |-> q.field]
        /\ q.field = [d \in Agents!Drafts |-> q.field[d]]
    BY DEF Agents!NewRow
  <1>2. Agents!NoRow(a) = [q EXCEPT !.exists = FALSE]
    BY DEF Agents!NoRow
  <1> HIDE DEF q
  <1>3. Agents!NoRow(a) = [exists |-> FALSE, archived |-> q.archived, skills |-> q.skills,
                           field |-> q.field]
    BY <1>1, <1>2
  <1> QED  BY <1>1, <1>3 DEF q

\* A change of one agent that leaves its texts its own.
LEMMA RowGiven ==
  ASSUME AgentRowShape, OwnTexts(row), NEW a, NEW v,
         \/ row' = [row EXCEPT ![a] = [row[a] EXCEPT !.skills = v]]
         \/ row' = [row EXCEPT ![a] = [row[a] EXCEPT !.archived = v]]
         \/ /\ row' = [row EXCEPT ![a] = [row[a] EXCEPT !.field = v]]
            /\ a \in Agent => /\ v = [d \in Agents!Drafts |-> v[d]]
                              /\ \A d \in Agents!Drafts : v[d].of = a
  PROVE  AgentRowShape' /\ OwnTexts(row)'
  <1>1. CASE a \notin Agent
    <2>1. row' = row
      BY <1>1 DEF AgentRowShape
    <2> QED  BY <2>1 DEF AgentRowShape, OwnTexts
  <1>2. CASE a \in Agent
    <2>1. row' = [b \in Agent |-> IF b = a THEN row'[a] ELSE row[b]]
      BY <1>2 DEF AgentRowShape
    <2>2. /\ row'[a] = [exists |-> row'[a].exists, archived |-> row'[a].archived,
                        skills |-> row'[a].skills, field |-> row'[a].field]
          /\ \/ row'[a].field = row[a].field
             \/ /\ row'[a].field = [d \in Agents!Drafts |-> row'[a].field[d]]
                /\ \A d \in Agents!Drafts : row'[a].field[d].of = a
      <3>1. CASE row' = [row EXCEPT ![a] = [row[a] EXCEPT !.skills = v]]
        BY <1>2, <3>1 DEF AgentRowShape
      <3>2. CASE row' = [row EXCEPT ![a] = [row[a] EXCEPT !.archived = v]]
        BY <1>2, <3>2 DEF AgentRowShape
      <3>3. CASE /\ row' = [row EXCEPT ![a] = [row[a] EXCEPT !.field = v]]
                 /\ v = [d \in Agents!Drafts |-> v[d]]
                 /\ \A d \in Agents!Drafts : v[d].of = a
        BY <1>2, <3>3 DEF AgentRowShape
      <3> QED  BY <1>2, <3>1, <3>2, <3>3
    <2> QED  BY <1>2, <2>1, <2>2 DEF AgentRowShape, OwnTexts
  <1> QED  BY <1>1, <1>2

\* What an accepted request does to the agents of the server.
LEMMA AppliedOwn ==
  ASSUME AgentRowShape, OwnTexts(row), NEW q, AgentCall(q), NEW a \in AgentOrNone,
         q.kind = "save" => a = q.agent, q.kind = "create" => a \in Agent,
         row' = Agents!Applied([q EXCEPT !.agent = a])
  PROVE  AgentRowShape' /\ OwnTexts(row)'
  <1> DEFINE r == [q EXCEPT !.agent = a]
  <1>1. r.kind = q.kind /\ r.agent = a /\ r.tab = q.tab /\ r.value = q.value
        /\ r.skills = q.skills
    BY DEF AgentCall
  <1>2. row' = Agents!Applied(r)
    OBVIOUS
  <1> HIDE DEF r
  <1>3. CASE q.kind = "save"
    <2>1. row' = [row EXCEPT ![a] = [row[a] EXCEPT
                                       !.field = [row[a].field EXCEPT ![q.tab] = q.value]]]
      BY <1>1, <1>2, <1>3 DEF Agents!Applied
    <2>2. q.value.of = a
      BY <1>3 DEF AgentCall
    <2>3. CASE a \in Agent
      <3> DEFINE f == [row[a].field EXCEPT ![q.tab] = q.value]
      <3>1. f = [d \in Agents!Drafts |-> f[d]]
        BY <2>3 DEF AgentRowShape
      <3>2. \A d \in Agents!Drafts : f[d].of = a
        BY <2>2, <2>3 DEF AgentRowShape, OwnTexts
      <3>3. row' = [row EXCEPT ![a] = [row[a] EXCEPT !.field = f]]
        BY <2>1
      <3> HIDE DEF f
      <3> QED  BY <2>3, <3>1, <3>2, <3>3, RowGiven
    <2>4. CASE a \notin Agent
      BY <2>1, <2>4, RowGiven
    <2> QED  BY <2>3, <2>4
  <1>4. CASE q.kind = "skills"
    <2>1. row' = [row EXCEPT ![a] = [row[a] EXCEPT !.skills = q.skills]]
      BY <1>1, <1>2, <1>4 DEF Agents!Applied
    <2> QED  BY <2>1, RowGiven
  <1>5. CASE q.kind = "archive"
    <2>1. row' = [row EXCEPT ![a] = [row[a] EXCEPT !.archived = TRUE]]
      BY <1>1, <1>2, <1>5 DEF Agents!Applied
    <2> QED  BY <2>1, RowGiven
  <1>6. CASE q.kind = "restore"
    <2>1. row' = [row EXCEPT ![a] = [row[a] EXCEPT !.archived = FALSE]]
      BY <1>1, <1>2, <1>6 DEF Agents!Applied
    <2> QED  BY <2>1, RowGiven
  <1>7. CASE q.kind = "create"
    <2>1. row' = [row EXCEPT ![a] = Agents!NewRow(a)]
      BY <1>1, <1>2, <1>7 DEF Agents!Applied
    <2>2. row' = [b \in Agent |-> IF b = a THEN Agents!NewRow(a) ELSE row[b]]
      BY <1>7, <2>1 DEF AgentRowShape
    <2>3. PICK u : u = Agents!NewRow(a)
      OBVIOUS
    <2>4. /\ u = [exists |-> u.exists, archived |-> u.archived, skills |-> u.skills,
                  field |-> u.field]
          /\ u.field = [d \in Agents!Drafts |-> u.field[d]]
          /\ \A d \in Agents!Drafts : u.field[d].of = a
      BY <2>3, NewRowMade, NewRowsOwn
    <2>5. row' = [b \in Agent |-> IF b = a THEN u ELSE row[b]]
      BY <2>2, <2>3
    <2>6. /\ row' = [b \in Agent |-> row'[b]]
          /\ \A b \in Agent : (b = a /\ row'[b] = u) \/ row'[b] = row[b]
      BY <2>5
    <2>7. OwnTexts(row)'
      BY <2>4, <2>6 DEF OwnTexts
    <2>8. \A b \in Agent : row'[b].field = [d \in Agents!Drafts |-> row'[b].field[d]]
      BY <2>4, <2>6 DEF AgentRowShape
    <2>9. \A b \in Agent :
            row'[b] = [exists |-> row'[b].exists, archived |-> row'[b].archived,
                       skills |-> row'[b].skills, field |-> row'[b].field]
      <3>1. ASSUME NEW b \in Agent, b = a, row'[b] = u
            PROVE  row'[b] = [exists |-> row'[b].exists, archived |-> row'[b].archived,
                              skills |-> row'[b].skills, field |-> row'[b].field]
        BY <2>4, <3>1
      <3>2. ASSUME NEW b \in Agent, row'[b] = row[b]
            PROVE  row'[b] = [exists |-> row'[b].exists, archived |-> row'[b].archived,
                              skills |-> row'[b].skills, field |-> row'[b].field]
        BY <3>2 DEF AgentRowShape
      <3> QED  BY <2>6, <3>1, <3>2
    <2> QED  BY <2>6, <2>7, <2>8, <2>9 DEF AgentRowShape
  <1>8. CASE q.kind \notin {"save", "skills", "archive", "restore", "create"}
    <2>1. row' = row
      BY <1>1, <1>2, <1>8 DEF Agents!Applied
    <2> QED  BY <2>1 DEF AgentRowShape, OwnTexts
  <1> QED  BY <1>3, <1>4, <1>5, <1>6, <1>7, <1>8

\* The server stores with an agent only texts written for it.
LEMMA AgentsKeepRows ==
  ASSUME AgentsInv, Agents!Next
  PROVE  AgentRowShape' /\ OwnTexts(row)'
  <1> USE DEF AgentsInv, AgentsShape, ASlots
  <1>1. ASSUME NEW a \in Agent, Agents!SelectAgent(a)
        PROVE  AgentRowShape' /\ OwnTexts(row)'
    BY <1>1 DEF Agents!SelectAgent, AgentRowShape, OwnTexts
  <1>2. CASE Agents!ToggleArchived
    BY <1>2 DEF Agents!ToggleArchived, AgentRowShape, OwnTexts
  <1>3. CASE Agents!Back
    BY <1>3 DEF Agents!Back, AgentRowShape, OwnTexts
  <1>4. CASE Agents!OpenCreate
    BY <1>4 DEF Agents!OpenCreate, AgentRowShape, OwnTexts
  <1>5. CASE Agents!FillDialog
    BY <1>5 DEF Agents!FillDialog, AgentRowShape, OwnTexts
  <1>6. CASE Agents!CancelCreate
    BY <1>6 DEF Agents!CancelCreate, AgentRowShape, OwnTexts
  <1>7. CASE Agents!RuntimesArrive
    BY <1>7 DEF Agents!RuntimesArrive, AgentRowShape, OwnTexts
  <1>8. ASSUME NEW tab \in Agents!Tabs, Agents!ChooseTab(tab)
        PROVE  AgentRowShape' /\ OwnTexts(row)'
    BY <1>8 DEF Agents!ChooseTab, AgentRowShape, OwnTexts
  <1>9. ASSUME NEW k, Agents!TypeInstructions(k)
        PROVE  AgentRowShape' /\ OwnTexts(row)'
    BY <1>9 DEF Agents!TypeInstructions, Agents!Edit, AgentRowShape, OwnTexts
  <1>10. ASSUME NEW k, Agents!EditTools(k)
        PROVE  AgentRowShape' /\ OwnTexts(row)'
    BY <1>10 DEF Agents!EditTools, Agents!Edit, AgentRowShape, OwnTexts
  <1>11. ASSUME NEW k, Agents!EditTriggers(k)
        PROVE  AgentRowShape' /\ OwnTexts(row)'
    BY <1>11 DEF Agents!EditTriggers, Agents!Edit, AgentRowShape, OwnTexts
  <1>12. ASSUME NEW k, Agents!EditSettings(k)
        PROVE  AgentRowShape' /\ OwnTexts(row)'
    BY <1>12 DEF Agents!EditSettings, Agents!Edit, AgentRowShape, OwnTexts
  <1>13. CASE Agents!TasksArrive
    BY <1>13 DEF Agents!TasksArrive, AgentRowShape, OwnTexts
  <1>14. CASE Agents!OpenPicker
    BY <1>14 DEF Agents!OpenPicker, AgentRowShape, OwnTexts
  <1>15. CASE Agents!ClosePicker
    BY <1>15 DEF Agents!ClosePicker, AgentRowShape, OwnTexts
  <1>16. CASE Agents!AskArchive
    BY <1>16 DEF Agents!AskArchive, AgentRowShape, OwnTexts
  <1>17. CASE Agents!CancelArchive
    BY <1>17 DEF Agents!CancelArchive, AgentRowShape, OwnTexts
  <1>18. ASSUME NEW n \in ASlots, Agents!SubmitCreate(n)
        PROVE  AgentRowShape' /\ OwnTexts(row)'
    BY <1>18 DEF Agents!SubmitCreate, AgentRowShape, OwnTexts
  <1>19. ASSUME NEW n \in ASlots, Agents!SaveDraft(n)
        PROVE  AgentRowShape' /\ OwnTexts(row)'
    BY <1>19 DEF Agents!SaveDraft, AgentRowShape, OwnTexts
  <1>20. ASSUME NEW n \in ASlots, Agents!ConfirmArchive(n)
        PROVE  AgentRowShape' /\ OwnTexts(row)'
    BY <1>20 DEF Agents!ConfirmArchive, AgentRowShape, OwnTexts
  <1>21. ASSUME NEW n \in ASlots, Agents!Restore(n)
        PROVE  AgentRowShape' /\ OwnTexts(row)'
    BY <1>21 DEF Agents!Restore, AgentRowShape, OwnTexts
  <1>22. ASSUME NEW n \in ASlots, Agents!Answer(n)
        PROVE  AgentRowShape' /\ OwnTexts(row)'
    <2>1. AgentCall(call[n])
      BY DEF AgentCallShape, AgentCalls
    <2>2. \/ row' = row
          \/ \E a \in AgentOrNone :
               /\ call[n].kind = "save" => a = call[n].agent
               /\ call[n].kind = "create" => a \in Agent
               /\ row' = Agents!Applied([call[n] EXCEPT !.agent = a])
      BY <1>22, <2>1 DEF Agents!Answer, AgentCall, AgentOrNone
    <2>3. CASE row' = row
      BY <2>3 DEF AgentRowShape, OwnTexts
    <2>4. ASSUME NEW a \in AgentOrNone, call[n].kind = "save" => a = call[n].agent,
                 call[n].kind = "create" => a \in Agent,
                 row' = Agents!Applied([call[n] EXCEPT !.agent = a])
          PROVE  AgentRowShape' /\ OwnTexts(row)'
      BY <2>1, <2>4, AppliedOwn
    <2> QED  BY <2>2, <2>3, <2>4
  <1>23. ASSUME NEW n \in ASlots, Agents!Accepted(n)
        PROVE  AgentRowShape' /\ OwnTexts(row)'
    BY <1>23 DEF Agents!Accepted, AgentRowShape, OwnTexts
  <1>24. ASSUME NEW n \in ASlots, Agents!Refreshed(n)
        PROVE  AgentRowShape' /\ OwnTexts(row)'
    BY <1>24 DEF Agents!Refreshed, AgentRowShape, OwnTexts
  <1>25. ASSUME NEW n \in ASlots, Agents!Refused(n)
        PROVE  AgentRowShape' /\ OwnTexts(row)'
    BY <1>25 DEF Agents!Refused, AgentRowShape, OwnTexts
  <1>26. ASSUME NEW n \in ASlots, Agents!BackgroundRefresh(n)
        PROVE  AgentRowShape' /\ OwnTexts(row)'
    BY <1>26 DEF Agents!BackgroundRefresh, AgentRowShape, OwnTexts
  <1>27. ASSUME NEW n \in ASlots, NEW s \in Skill, Agents!AddSkill(n, s)
        PROVE  AgentRowShape' /\ OwnTexts(row)'
    BY <1>27 DEF Agents!AddSkill, AgentRowShape, OwnTexts
  <1>28. ASSUME NEW n \in ASlots, NEW s \in Skill, Agents!RemoveSkill(n, s)
        PROVE  AgentRowShape' /\ OwnTexts(row)'
    BY <1>28 DEF Agents!RemoveSkill, AgentRowShape, OwnTexts
  <1> QED
    BY <1>1, <1>2, <1>3, <1>4, <1>5, <1>6, <1>7, <1>8, <1>9, <1>10, <1>11,
       <1>12, <1>13, <1>14, <1>15, <1>16, <1>17, <1>18, <1>19, <1>20, <1>21,
       <1>22, <1>23, <1>24, <1>25, <1>26, <1>27, <1>28
    DEF Agents!Next, ASlots

\* The store of the page has, with an agent, only texts written for it.
LEMMA AgentsKeepStore ==
  ASSUME AgentsInv, Agents!Next
  PROVE  OwnTexts(store)'
  <1> USE DEF AgentsInv, AgentsShape, ASlots
  <1>1. ASSUME NEW a \in Agent, Agents!SelectAgent(a)
        PROVE  OwnTexts(store)'
    BY <1>1 DEF Agents!SelectAgent, Agents!Render, OwnTexts
  <1>2. CASE Agents!ToggleArchived
    BY <1>2 DEF Agents!ToggleArchived, Agents!Render, OwnTexts
  <1>3. CASE Agents!Back
    BY <1>3 DEF Agents!Back, Agents!Render, OwnTexts
  <1>4. CASE Agents!OpenCreate
    BY <1>4 DEF Agents!OpenCreate, OwnTexts
  <1>5. CASE Agents!FillDialog
    BY <1>5 DEF Agents!FillDialog, OwnTexts
  <1>6. CASE Agents!CancelCreate
    BY <1>6 DEF Agents!CancelCreate, OwnTexts
  <1>7. CASE Agents!RuntimesArrive
    BY <1>7 DEF Agents!RuntimesArrive, OwnTexts
  <1>8. ASSUME NEW tab \in Agents!Tabs, Agents!ChooseTab(tab)
        PROVE  OwnTexts(store)'
    BY <1>8 DEF Agents!ChooseTab, OwnTexts
  <1>9. ASSUME NEW k, Agents!TypeInstructions(k)
        PROVE  OwnTexts(store)'
    BY <1>9 DEF Agents!TypeInstructions, Agents!Edit, OwnTexts
  <1>10. ASSUME NEW k, Agents!EditTools(k)
        PROVE  OwnTexts(store)'
    BY <1>10 DEF Agents!EditTools, Agents!Edit, OwnTexts
  <1>11. ASSUME NEW k, Agents!EditTriggers(k)
        PROVE  OwnTexts(store)'
    BY <1>11 DEF Agents!EditTriggers, Agents!Edit, OwnTexts
  <1>12. ASSUME NEW k, Agents!EditSettings(k)
        PROVE  OwnTexts(store)'
    BY <1>12 DEF Agents!EditSettings, Agents!Edit, OwnTexts
  <1>13. CASE Agents!TasksArrive
    BY <1>13 DEF Agents!TasksArrive, OwnTexts
  <1>14. CASE Agents!OpenPicker
    BY <1>14 DEF Agents!OpenPicker, OwnTexts
  <1>15. CASE Agents!ClosePicker
    BY <1>15 DEF Agents!ClosePicker, OwnTexts
  <1>16. CASE Agents!AskArchive
    BY <1>16 DEF Agents!AskArchive, OwnTexts
  <1>17. CASE Agents!CancelArchive
    BY <1>17 DEF Agents!CancelArchive, OwnTexts
  <1>18. ASSUME NEW n \in ASlots, Agents!SubmitCreate(n)
        PROVE  OwnTexts(store)'
    BY <1>18 DEF Agents!SubmitCreate, OwnTexts
  <1>19. ASSUME NEW n \in ASlots, Agents!SaveDraft(n)
        PROVE  OwnTexts(store)'
    BY <1>19 DEF Agents!SaveDraft, OwnTexts
  <1>20. ASSUME NEW n \in ASlots, Agents!ConfirmArchive(n)
        PROVE  OwnTexts(store)'
    BY <1>20 DEF Agents!ConfirmArchive, OwnTexts
  <1>21. ASSUME NEW n \in ASlots, Agents!Restore(n)
        PROVE  OwnTexts(store)'
    BY <1>21 DEF Agents!Restore, OwnTexts
  <1>22. ASSUME NEW n \in ASlots, Agents!Answer(n)
        PROVE  OwnTexts(store)'
    BY <1>22 DEF Agents!Answer, OwnTexts
  <1>23. ASSUME NEW n \in ASlots, Agents!Accepted(n)
        PROVE  OwnTexts(store)'
    BY <1>23 DEF Agents!Accepted, OwnTexts
  <1>24. ASSUME NEW n \in ASlots, Agents!Refreshed(n)
        PROVE  OwnTexts(store)'
    <2>1. store' = store \/ store' = call[n].rows
      BY <1>24 DEF Agents!Refreshed
    <2>2. OwnTexts(call[n].rows)
      BY DEF AgentCallShape, AgentCalls, AgentCall
    <2> QED  BY <2>1, <2>2 DEF OwnTexts
  <1>25. ASSUME NEW n \in ASlots, Agents!Refused(n)
        PROVE  OwnTexts(store)'
    BY <1>25 DEF Agents!Refused, OwnTexts
  <1>26. ASSUME NEW n \in ASlots, Agents!BackgroundRefresh(n)
        PROVE  OwnTexts(store)'
    BY <1>26 DEF Agents!BackgroundRefresh, OwnTexts
  <1>27. ASSUME NEW n \in ASlots, NEW s \in Skill, Agents!AddSkill(n, s)
        PROVE  OwnTexts(store)'
    BY <1>27 DEF Agents!AddSkill, OwnTexts
  <1>28. ASSUME NEW n \in ASlots, NEW s \in Skill, Agents!RemoveSkill(n, s)
        PROVE  OwnTexts(store)'
    BY <1>28 DEF Agents!RemoveSkill, OwnTexts
  <1> QED
    BY <1>1, <1>2, <1>3, <1>4, <1>5, <1>6, <1>7, <1>8, <1>9, <1>10, <1>11,
       <1>12, <1>13, <1>14, <1>15, <1>16, <1>17, <1>18, <1>19, <1>20, <1>21,
       <1>22, <1>23, <1>24, <1>25, <1>26, <1>27, <1>28
    DEF Agents!Next, ASlots

LEMMA AgentsStart == AgentsMounted => AgentsInv
  <1> SUFFICES ASSUME Agents!Init PROVE AgentsInv  BY DEF AgentsMounted
  <1>1. /\ view = [chosen |-> None, archived |-> FALSE, mobile |-> view.mobile]
        /\ store = row /\ call = [n \in ASlots |-> Agents!Idle]
        /\ part1 = Agents!OpenTab(row, Agents!Selected(row, view), "instructions")
    BY DEF Agents!Init, ASlots
  <1>2. AgentRowShape /\ OwnTexts(row)
    <2>1. PICK S : row = [a \in Agent |-> IF a \in S THEN Agents!NewRow(a) ELSE Agents!NoRow(a)]
      BY DEF Agents!Init
    <2>2. \A a \in Agent : row[a] = Agents!NewRow(a) \/ row[a] = Agents!NoRow(a)
      BY <2>1
    <2>3. /\ row = [a \in Agent |-> row[a]]
          /\ \A a \in Agent : row[a].field = Agents!NewRow(a).field
      BY <2>1, <2>2, NewRowMade
    <2>4. \A a \in Agent : row[a] = [exists |-> row[a].exists, archived |-> row[a].archived,
                                     skills |-> row[a].skills, field |-> row[a].field]
      BY <2>2, NewRowMade
    <2> QED  BY <2>3, <2>4, NewRowMade, NewRowsOwn DEF AgentRowShape, OwnTexts
  <1>3. AgentCallShape
    BY <1>1, AgentCallIdle DEF AgentCallShape, AgentCalls
  <1>4. DetailShape
    <2>1. DetailRecord(part1)
      BY <1>1 DEF Agents!OpenTab, DetailRecord
    <2> QED  BY <1>1, <2>1 DEF DetailShape, DetailRecord, AgentOrNone
  <1>5. DraftOwn
    <2>1. Selected \in AgentOrNone
      BY <1>4, SelectedIsAgent DEF Selected, DetailShape
    <2>2. Selected # None => Agents!OpenTab(row, Selected, "instructions").draft.of = Selected
      BY <1>2, <2>1, TabOwn DEF Agents!Drafts
    <2> QED  BY <1>1, <2>2 DEF DraftOwn, Selected
  <1> QED  BY <1>1, <1>2, <1>3, <1>4, <1>5 DEF AgentsInv, AgentsShape

\* The page of the agents is mounted in its invariant, every step keeps it, and it says that
\* an agent has its own texts.
LEMMA AgentsSafe ==
  /\ AgentsMounted => AgentsInv
  /\ AgentsInv /\ Agents!Next => AgentsInv'
  /\ AgentsInv /\ UNCHANGED pageVars => AgentsInv'
  /\ AgentsInv => Agents!NoCrossWrite
  <1>1. AgentsMounted => AgentsInv
    BY AgentsStart
  <1>2. ASSUME AgentsInv, Agents!Next PROVE AgentsInv'
    BY <1>2, AgentsKeepDetail, AgentsKeepCalls, AgentsKeepRows, AgentsKeepStore
    DEF AgentsInv, AgentsShape
  <1>3. ASSUME AgentsInv, UNCHANGED pageVars PROVE AgentsInv'
    BY <1>3 DEF AgentsInv, AgentsShape, DetailShape, AgentCallShape, AgentCalls,
       AgentRowShape, OwnTexts, DraftOwn, Selected, pageVars
  <1>4. AgentsInv => Agents!NoCrossWrite
    BY DEF AgentsInv, OwnTexts, Agents!NoCrossWrite
  <1> QED  BY <1>1, <1>2, <1>3, <1>4

-----------------------------------------------------------------------------
(* The inbox: in view, what is selected; in part1, whether it loads; in    *)
(* part5, that nothing has overlapped since the last true list.            *)

NSlots == Slots["inbox"]

InboxRecord(r) ==
    /\ r = [kind |-> r.kind, item |-> r.item, status |-> r.status, deselect |-> r.deselect,
            first |-> r.first, seen |-> r.seen]
    /\ r.seen = [i \in Item |-> r.seen[i]]

\* The operations that change the store and then ask, and those that only ask.
Optimistic == {"mark", "markAll", "all", "allRead"}
Asking == Optimistic \cup {"archive", "finished", "issue", "list"}

InboxCall(r) ==
    /\ InboxRecord(r)
    /\ r.kind \in Asking \/ (r.kind = "idle" /\ r.status = "idle")

InboxShape ==
    /\ store = [i \in Item |-> store[i]]
    /\ row = [i \in Item |-> row[i]]
    /\ call = [n \in NSlots |-> call[n]] /\ \A n \in NSlots : InboxCall(call[n])

\* What a list of items shows of a table, but for items that the table has lost.
Agree(st, rw) ==
    \A i \in Item : rw[i] # "absent" /\ (Inbox!Live(rw[i]) \/ Inbox!Live(st[i])) => st[i] = rw[i]

\* What a request under way will make of the store and of the table, they agree on.
WillAgree(r) ==
    /\ r.kind \in Optimistic /\ r.status = "sent" => Agree(store, Inbox!Applied(r))
    /\ r.kind \in Optimistic /\ r.status = "ok" => Agree(store, row)
    /\ r.kind = "archive" /\ r.status = "ok" => Agree(Inbox!Archived(store, r.item), row)
    /\ r.kind \in {"archive", "finished"} /\ r.status # "ok" => Agree(store, row)
    /\ r.kind \in {"idle", "issue"} => Agree(store, row)

OneOut == \A m, n \in NSlots : call[m].kind # "idle" /\ call[n].kind # "idle" => m = n

\* While nothing overlaps, one request is under way at most.
Settling ==
    part5 => /\ OneOut
             /\ Inbox!Quiet => Agree(store, row)
             /\ \A n \in NSlots : call[n].kind # "idle" => WillAgree(call[n])

InboxInv == InboxShape /\ Settling

\* The operations of the store are those of the table.
LEMMA OperationsAgree ==
  ASSUME NEW st, NEW rw, st = [i \in Item |-> st[i]], rw = [i \in Item |-> rw[i]],
         Agree(st, rw), NEW k
  PROVE  /\ Agree(Inbox!Archived(st, k), Inbox!Archived(rw, k))
         /\ Agree(Inbox!MarkedRead(st, k), Inbox!MarkedRead(rw, k))
         /\ Agree(Inbox!AllRead(st), Inbox!AllRead(rw))
         /\ Agree(Inbox!AllArchived(st), Inbox!AllArchived(rw))
         /\ Agree(Inbox!AllReadArchived(st), Inbox!AllReadArchived(rw))
  <1> USE DEF Agree, Inbox!Live
  <1>1. Agree(Inbox!Archived(st, k), Inbox!Archived(rw, k))
    BY DEF Inbox!Archived
  <1>2. Agree(Inbox!MarkedRead(st, k), Inbox!MarkedRead(rw, k))
    BY DEF Inbox!MarkedRead
  <1>3. Agree(Inbox!AllRead(st), Inbox!AllRead(rw))
    BY DEF Inbox!AllRead
  <1>4. Agree(Inbox!AllArchived(st), Inbox!AllArchived(rw))
    BY DEF Inbox!AllArchived
  <1>5. Agree(Inbox!AllReadArchived(st), Inbox!AllReadArchived(rw))
    BY DEF Inbox!AllReadArchived
  <1> QED  BY <1>1, <1>2, <1>3, <1>4, <1>5

\* So are their shapes.
LEMMA OperationsShaped ==
  ASSUME NEW st, st = [i \in Item |-> st[i]], NEW k
  PROVE  /\ Inbox!Archived(st, k) = [i \in Item |-> Inbox!Archived(st, k)[i]]
         /\ Inbox!MarkedRead(st, k) = [i \in Item |-> Inbox!MarkedRead(st, k)[i]]
         /\ Inbox!AllRead(st) = [i \in Item |-> Inbox!AllRead(st)[i]]
         /\ Inbox!AllArchived(st) = [i \in Item |-> Inbox!AllArchived(st)[i]]
         /\ Inbox!AllReadArchived(st) = [i \in Item |-> Inbox!AllReadArchived(st)[i]]
  <1>1. Inbox!MarkedRead(st, k) = [i \in Item |-> Inbox!MarkedRead(st, k)[i]]
    BY DEF Inbox!MarkedRead
  <1> QED
    BY <1>1 DEF Inbox!Archived, Inbox!AllRead, Inbox!AllArchived, Inbox!AllReadArchived

\* A request with one field written, field by field.
LEMMA InboxField ==
  ASSUME NEW r, InboxRecord(r), NEW v
  PROVE  /\ LET q == [r EXCEPT !.kind = v] IN
           InboxRecord(q) /\ q.kind = v /\ q.item = r.item /\ q.status = r.status
         /\ LET q == [r EXCEPT !.item = v] IN
           InboxRecord(q) /\ q.kind = r.kind /\ q.item = v /\ q.status = r.status
         /\ LET q == [r EXCEPT !.status = v] IN
           InboxRecord(q) /\ q.kind = r.kind /\ q.item = r.item /\ q.status = v
         /\ LET q == [r EXCEPT !.deselect = v] IN
           InboxRecord(q) /\ q.kind = r.kind /\ q.item = r.item /\ q.status = r.status /\ q.deselect = v
         /\ LET q == [r EXCEPT !.first = v] IN
           InboxRecord(q) /\ q.kind = r.kind /\ q.item = r.item /\ q.status = r.status
  <1>1. [r EXCEPT !.kind = v] =
         [kind |-> v, item |-> r.item, status |-> r.status,
          deselect |-> r.deselect, first |-> r.first, seen |-> r.seen]
    BY DEF InboxRecord
  <1>2. [r EXCEPT !.item = v] =
         [kind |-> r.kind, item |-> v, status |-> r.status,
          deselect |-> r.deselect, first |-> r.first, seen |-> r.seen]
    BY DEF InboxRecord
  <1>3. [r EXCEPT !.status = v] =
         [kind |-> r.kind, item |-> r.item, status |-> v,
          deselect |-> r.deselect, first |-> r.first, seen |-> r.seen]
    BY DEF InboxRecord
  <1>4. [r EXCEPT !.deselect = v] =
         [kind |-> r.kind, item |-> r.item, status |-> r.status,
          deselect |-> v, first |-> r.first, seen |-> r.seen]
    BY DEF InboxRecord
  <1>5. [r EXCEPT !.first = v] =
         [kind |-> r.kind, item |-> r.item, status |-> r.status,
          deselect |-> r.deselect, first |-> v, seen |-> r.seen]
    BY DEF InboxRecord
  <1> QED  BY <1>1, <1>2, <1>3, <1>4, <1>5 DEF InboxRecord

\* The requests the page sends.
LEMMA InboxIdle ==
  InboxCall(Inbox!Idle) /\ Inbox!Idle.kind = "idle" /\ Inbox!Idle.status = "idle"
  <1>1. PICK s : s = [j \in Item |-> "absent"]
    OBVIOUS
  <1>2. Inbox!Idle = [kind |-> "idle", item |-> None, status |-> "idle", deselect |-> FALSE,
                      first |-> FALSE, seen |-> s]
    BY <1>1 DEF Inbox!Idle
  <1> QED  BY <1>1, <1>2 DEF InboxCall, InboxRecord

LEMMA InboxRequest ==
  ASSUME NEW k \in Asking, NEW i, NEW b, NEW q,
         \/ q = Inbox!Request(k, i)
         \/ q = [Inbox!Request(k, i) EXCEPT !.deselect = b]
         \/ q = [Inbox!Request(k, i) EXCEPT !.first = b]
  PROVE  InboxCall(q) /\ q.kind = k /\ q.item = i /\ q.status = "sent"
  <1> DEFINE one == [Inbox!Idle EXCEPT !.kind = k]
             two == [one EXCEPT !.item = i]
             three == [two EXCEPT !.status = "sent"]
  <1>1. InboxRecord(one) /\ one.kind = k
    BY InboxIdle, InboxField DEF InboxCall
  <1> HIDE DEF one
  <1>2. InboxRecord(two) /\ two.kind = k /\ two.item = i
    BY <1>1, InboxField
  <1> HIDE DEF two
  <1>3. InboxRecord(three) /\ three.kind = k /\ three.item = i /\ three.status = "sent"
    <2>1. PICK c : c = "sent"
      OBVIOUS
    <2>2. LET p == [two EXCEPT !.status = c]
          IN  InboxRecord(p) /\ p.kind = k /\ p.item = i /\ p.status = c
      BY <1>2, InboxField
    <2> QED  BY <2>1, <2>2
  <1>4. Inbox!Request(k, i) = three
    BY DEF Inbox!Request, one, two
  <1>5. PICK r : r = Inbox!Request(k, i)
    OBVIOUS
  <1>6. InboxRecord(r) /\ r.kind = k /\ r.item = i /\ r.status = "sent"
    BY <1>3, <1>4, <1>5
  <1> HIDE DEF three
  <1>7. LET p == [r EXCEPT !.deselect = b]
        IN  InboxRecord(p) /\ p.kind = k /\ p.item = i /\ p.status = "sent"
    BY <1>6, InboxField
  <1>8. LET p == [r EXCEPT !.first = b]
        IN  InboxRecord(p) /\ p.kind = k /\ p.item = i /\ p.status = "sent"
    BY <1>6, InboxField
  <1> QED  BY <1>5, <1>6, <1>7, <1>8 DEF InboxCall

LEMMA InboxListRequest == InboxCall(Inbox!ListRequest) /\ Inbox!ListRequest.kind = "list"
  <1>1. PICK k, i, b, q : /\ k = "list" /\ i = None /\ q = Inbox!ListRequest
                          /\ q = [Inbox!Request(k, i) EXCEPT !.first = b]
    BY DEF Inbox!ListRequest
  <1>2. k \in Asking
    BY <1>1 DEF Asking
  <1>3. q = [Inbox!Request(k, i) EXCEPT !.first = b]
    BY <1>1
  <1>4. InboxCall(q) /\ q.kind = k
    BY <1>2, <1>3, InboxRequest
  <1> QED  BY <1>1, <1>4

\* What is sent is the one request under way, if nothing overlaps.
LEMMA InboxSends ==
  ASSUME InboxInv, NEW n \in NSlots, NEW r, InboxCall(r), Inbox!Send(n, r)
  PROVE  /\ call' = [m \in NSlots |-> call'[m]] /\ \A m \in NSlots : InboxCall(call'[m])
         /\ call'[n] = r
         /\ part5' => part5 /\ Agree(store, row)
                      /\ \A m \in NSlots \ {n} : call'[m].kind = "idle"
  BY DEF InboxInv, InboxShape, Settling, Inbox!Send, Inbox!Quiet, NSlots

\* An answer is that of the one request under way.
LEMMA InboxTurns ==
  ASSUME InboxInv, NEW n \in NSlots, NEW r, InboxCall(r), call' = [call EXCEPT ![n] = r]
  PROVE  /\ call' = [m \in NSlots |-> call'[m]] /\ \A m \in NSlots : InboxCall(call'[m])
         /\ call'[n] = r
         /\ part5 /\ call[n].kind # "idle" =>
              WillAgree(call[n]) /\ \A m \in NSlots \ {n} : call'[m].kind = "idle"
  BY DEF InboxInv, InboxShape, Settling, OneOut, NSlots

\* So it is enough to look at that one.
LEMMA OneToSettle ==
  ASSUME NEW n \in NSlots,
         part5' => /\ \A m \in NSlots \ {n} : call'[m].kind = "idle"
                   /\ WillAgree(call[n])'
  PROVE  Settling'
  BY DEF Settling, OneOut, Inbox!Quiet, WillAgree, NSlots

LEMMA InboxAlone ==
  ASSUME InboxInv, UNCHANGED <<store, row, call, part5, part4>>
  PROVE  InboxInv'
  BY DEF InboxInv, InboxShape, Settling, OneOut, WillAgree, Inbox!Quiet, Inbox!Applied

\* What the server makes of a request.
LEMMA AppliedAgrees ==
  ASSUME InboxShape, NEW r
  PROVE  /\ Inbox!Applied(r) = [i \in Item |-> Inbox!Applied(r)[i]]
         /\ Agree(store, row) /\ r.kind = "archive" =>
              Agree(Inbox!Archived(store, r.item), Inbox!Applied(r))
         /\ Agree(store, row) /\ r.kind = "issue" => Agree(store, Inbox!Applied(r))
  <1>1. Inbox!Applied(r) = [i \in Item |-> Inbox!Applied(r)[i]]
    <2>1. PICK k : k = r.item
      OBVIOUS
    <2>2. row = [i \in Item |-> row[i]]
      BY DEF InboxShape
    <2>3. /\ Inbox!Archived(row, k) = [i \in Item |-> Inbox!Archived(row, k)[i]]
          /\ Inbox!MarkedRead(row, k) = [i \in Item |-> Inbox!MarkedRead(row, k)[i]]
          /\ Inbox!AllRead(row) = [i \in Item |-> Inbox!AllRead(row)[i]]
          /\ Inbox!AllArchived(row) = [i \in Item |-> Inbox!AllArchived(row)[i]]
          /\ Inbox!AllReadArchived(row) = [i \in Item |-> Inbox!AllReadArchived(row)[i]]
      BY <2>2, OperationsShaped
    <2>4. ASSUME NEW st, st = [i \in Item |-> IF Inbox!Live(row[i]) /\ IssueOf[i] \in part4
                                              THEN "archived" ELSE row[i]]
          PROVE  st = [i \in Item |-> st[i]]
      BY <2>4
    <2>5. ASSUME NEW st, st = [i \in Item |-> IF IssueOf[i] = IssueOf[r.item]
                                              THEN "absent" ELSE row[i]]
          PROVE  st = [i \in Item |-> st[i]]
      BY <2>5
    <2>6. Inbox!Applied(r) \in
            {Inbox!Archived(row, k), Inbox!MarkedRead(row, k), Inbox!AllRead(row),
             Inbox!AllArchived(row), Inbox!AllReadArchived(row), row,
             [i \in Item |-> IF Inbox!Live(row[i]) /\ IssueOf[i] \in part4
                             THEN "archived" ELSE row[i]],
             [i \in Item |-> IF IssueOf[i] = IssueOf[r.item] THEN "absent" ELSE row[i]]}
      BY <2>1 DEF Inbox!Applied
    <2> QED  BY <2>2, <2>3, <2>4, <2>5, <2>6
  <1>2. ASSUME Agree(store, row), r.kind = "archive"
        PROVE  Agree(Inbox!Archived(store, r.item), Inbox!Applied(r))
    <2>1. Inbox!Applied(r) = Inbox!Archived(row, r.item)
      BY <1>2 DEF Inbox!Applied
    <2>2. Agree(Inbox!Archived(store, r.item), Inbox!Archived(row, r.item))
      BY <1>2, OperationsAgree DEF InboxShape
    <2> QED  BY <2>1, <2>2
  <1>3. ASSUME Agree(store, row), r.kind = "issue" PROVE Agree(store, Inbox!Applied(r))
    BY <1>3 DEF Inbox!Applied, Agree
  <1> QED  BY <1>1, <1>2, <1>3

\* All items are marked as read.
LEMMA MarkAllSettles ==
  ASSUME InboxInv, NEW n \in NSlots, Inbox!MarkAllRead(n)
  PROVE  InboxInv'
  <1> USE DEF NSlots
  <1>1. InboxShape /\ store' = Inbox!AllRead(store) /\ row' = row
    BY DEF InboxInv, Inbox!MarkAllRead
  <1>2. PICK k, j, r : k = "markAll" /\ j = None /\ r = Inbox!Request(k, j) /\ Inbox!Send(n, r)
    BY DEF Inbox!MarkAllRead
  <1>3. InboxCall(r) /\ r.kind = k /\ r.item = j /\ r.status = "sent"
    <2>1. k \in Asking
      BY <1>2 DEF Asking, Optimistic
    <2> QED  BY <1>2, <2>1, InboxRequest
  <1>4. part5' => Agree(store', Inbox!AllRead(row))
    BY <1>1, <1>2, <1>3, InboxSends, OperationsAgree DEF InboxShape
  <1>5. part5' => WillAgree(call[n])'
    BY <1>1, <1>2, <1>3, <1>4, InboxSends DEF WillAgree, Optimistic, Inbox!Applied
  <1>6. store' = [x \in Item |-> store'[x]]
    BY <1>1, OperationsShaped DEF InboxShape
  <1> QED
    BY <1>1, <1>2, <1>3, <1>5, <1>6, InboxSends, OneToSettle DEF InboxInv, InboxShape

\* All items are archived.
LEMMA ArchiveAllSettles ==
  ASSUME InboxInv, NEW n \in NSlots, Inbox!ArchiveAll(n)
  PROVE  InboxInv'
  <1> USE DEF NSlots
  <1>1. InboxShape /\ store' = Inbox!AllArchived(store) /\ row' = row
    BY DEF InboxInv, Inbox!ArchiveAll
  <1>2. PICK k, j, r : k = "all" /\ j = None /\ r = Inbox!Request(k, j) /\ Inbox!Send(n, r)
    BY DEF Inbox!ArchiveAll
  <1>3. InboxCall(r) /\ r.kind = k /\ r.item = j /\ r.status = "sent"
    <2>1. k \in Asking
      BY <1>2 DEF Asking, Optimistic
    <2> QED  BY <1>2, <2>1, InboxRequest
  <1>4. part5' => Agree(store', Inbox!AllArchived(row))
    BY <1>1, <1>2, <1>3, InboxSends, OperationsAgree DEF InboxShape
  <1>5. part5' => WillAgree(call[n])'
    BY <1>1, <1>2, <1>3, <1>4, InboxSends DEF WillAgree, Optimistic, Inbox!Applied
  <1>6. store' = [x \in Item |-> store'[x]]
    BY <1>1, OperationsShaped DEF InboxShape
  <1> QED
    BY <1>1, <1>2, <1>3, <1>5, <1>6, InboxSends, OneToSettle DEF InboxInv, InboxShape

\* All items that were read are archived.
LEMMA ArchiveReadSettles ==
  ASSUME InboxInv, NEW n \in NSlots, Inbox!ArchiveAllRead(n)
  PROVE  InboxInv'
  <1> USE DEF NSlots
  <1>1. InboxShape /\ store' = Inbox!AllReadArchived(store) /\ row' = row
    BY DEF InboxInv, Inbox!ArchiveAllRead
  <1>2. PICK k, j, r : k = "allRead" /\ j = None /\ r = Inbox!Request(k, j) /\ Inbox!Send(n, r)
    BY DEF Inbox!ArchiveAllRead
  <1>3. InboxCall(r) /\ r.kind = k /\ r.item = j /\ r.status = "sent"
    <2>1. k \in Asking
      BY <1>2 DEF Asking, Optimistic
    <2> QED  BY <1>2, <2>1, InboxRequest
  <1>4. part5' => Agree(store', Inbox!AllReadArchived(row))
    BY <1>1, <1>2, <1>3, InboxSends, OperationsAgree DEF InboxShape
  <1>5. part5' => WillAgree(call[n])'
    BY <1>1, <1>2, <1>3, <1>4, InboxSends DEF WillAgree, Optimistic, Inbox!Applied
  <1>6. store' = [x \in Item |-> store'[x]]
    BY <1>1, OperationsShaped DEF InboxShape
  <1> QED
    BY <1>1, <1>2, <1>3, <1>5, <1>6, InboxSends, OneToSettle DEF InboxInv, InboxShape

\* An item is archived.
LEMMA ArchiveSettles ==
  ASSUME InboxInv, NEW n \in NSlots, NEW i \in Item, Inbox!Archive(i, n)
  PROVE  InboxInv'
  <1> USE DEF NSlots
  <1>1. InboxShape /\ store' = store /\ row' = row
    BY DEF InboxInv, Inbox!Archive
  <1>2. PICK k, j, b, r : k = "archive" /\ r = [Inbox!Request(k, j) EXCEPT !.deselect = b] /\ Inbox!Send(n, r)
    BY DEF Inbox!Archive
  <1>3. InboxCall(r) /\ r.kind = k /\ r.status = "sent"
    <2>1. k \in Asking
      BY <1>2 DEF Asking, Optimistic
    <2> QED  BY <1>2, <2>1, InboxRequest
  <1>4. part5' => WillAgree(call[n])'
    BY <1>1, <1>2, <1>3, InboxSends DEF WillAgree, Optimistic
  <1> QED
    BY <1>1, <1>2, <1>3, <1>4, InboxSends, OneToSettle DEF InboxInv, InboxShape

\* What is completed is archived.
LEMMA CompletedSettles ==
  ASSUME InboxInv, NEW n \in NSlots, Inbox!ArchiveCompleted(n)
  PROVE  InboxInv'
  <1> USE DEF NSlots
  <1>1. InboxShape /\ store' = store /\ row' = row
    BY DEF InboxInv, Inbox!ArchiveCompleted
  <1>2. PICK k, j, b, r : k = "finished" /\ r = Inbox!Request(k, j) /\ Inbox!Send(n, r)
    BY DEF Inbox!ArchiveCompleted
  <1>3. InboxCall(r) /\ r.kind = k /\ r.status = "sent"
    <2>1. k \in Asking
      BY <1>2 DEF Asking, Optimistic
    <2> QED  BY <1>2, <2>1, InboxRequest
  <1>4. part5' => WillAgree(call[n])'
    BY <1>1, <1>2, <1>3, InboxSends DEF WillAgree, Optimistic
  <1> QED
    BY <1>1, <1>2, <1>3, <1>4, InboxSends, OneToSettle DEF InboxInv, InboxShape

\* The issue of an item is deleted.
LEMMA DeleteSettles ==
  ASSUME InboxInv, NEW n \in NSlots, Inbox!DeleteIssue(n)
  PROVE  InboxInv'
  <1> USE DEF NSlots
  <1>1. InboxShape /\ store' = store /\ row' = row
    BY DEF InboxInv, Inbox!DeleteIssue
  <1>2. PICK k, j, b, r : k = "issue" /\ r = [Inbox!Request(k, j) EXCEPT !.deselect = b] /\ Inbox!Send(n, r)
    BY DEF Inbox!DeleteIssue
  <1>3. InboxCall(r) /\ r.kind = k /\ r.status = "sent"
    <2>1. k \in Asking
      BY <1>2 DEF Asking, Optimistic
    <2> QED  BY <1>2, <2>1, InboxRequest
  <1>4. part5' => WillAgree(call[n])'
    BY <1>1, <1>2, <1>3, InboxSends DEF WillAgree, Optimistic
  <1> QED
    BY <1>1, <1>2, <1>3, <1>4, InboxSends, OneToSettle DEF InboxInv, InboxShape

\* An unread item is marked as read when it is selected.
LEMMA SelectSettles ==
  ASSUME InboxInv, NEW n \in NSlots, NEW i \in Item, Inbox!SelectItem(i, n)
  PROVE  InboxInv'
  <1> USE DEF NSlots
  <1>1. InboxShape /\ row' = row /\ part4' = part4
    BY DEF InboxInv, Inbox!SelectItem
  <1>2. CASE UNCHANGED <<store, call, part5>>
    BY <1>1, <1>2, InboxAlone
  <1>3. CASE store' = Inbox!MarkedRead(store, i) /\ Inbox!Send(n, Inbox!Request("mark", i))
    <2>1. PICK k, r : k = "mark" /\ r = Inbox!Request(k, i) /\ Inbox!Send(n, r)
      BY <1>3
    <2>2. InboxCall(r) /\ r.kind = k /\ r.item = i /\ r.status = "sent"
      BY <2>1, InboxRequest DEF Asking, Optimistic
    <2>3. part5' => Agree(store', Inbox!MarkedRead(row, i))
      BY <1>1, <1>3, <2>1, <2>2, InboxSends, OperationsAgree DEF InboxShape
    <2>4. part5' => WillAgree(call[n])'
      BY <1>1, <2>1, <2>2, <2>3, InboxSends DEF WillAgree, Optimistic, Inbox!Applied
    <2>5. store' = [x \in Item |-> store'[x]]
      <3>1. PICK st : st = store
        OBVIOUS
      <3>2. st = [x \in Item |-> st[x]]
        BY <1>1, <3>1 DEF InboxShape
      <3>3. Inbox!MarkedRead(st, i) = [x \in Item |-> Inbox!MarkedRead(st, i)[x]]
        BY <3>2, OperationsShaped
      <3> QED  BY <1>3, <3>1, <3>3
    <2> QED
      BY <1>1, <2>1, <2>2, <2>4, <2>5, InboxSends, OneToSettle DEF InboxInv, InboxShape
  <1> QED  BY <1>2, <1>3 DEF Inbox!SelectItem

\* A notification arrives, and perhaps its event.
LEMMA ArrivalSettles ==
  ASSUME InboxInv, NEW n \in NSlots, NEW i \in Item, Inbox!ItemArrives(i, n)
  PROVE  InboxInv'
  <1> USE DEF NSlots
  <1>1. InboxShape /\ store' = store /\ row' = [x \in Item |-> row'[x]]
    BY DEF InboxInv, InboxShape, Inbox!ItemArrives
  <1>2. CASE Inbox!Send(n, Inbox!ListRequest)
    <2>1. PICK r : r = Inbox!ListRequest
      OBVIOUS
    <2>2. InboxCall(r) /\ r.kind = "list" /\ Inbox!Send(n, r)
      BY <1>2, <2>1, InboxListRequest
    <2>3. WillAgree(call[n])'
      BY <2>2, InboxSends DEF WillAgree, Optimistic
    <2> QED
      BY <1>1, <2>2, <2>3, InboxSends, OneToSettle DEF InboxInv, InboxShape
  <1>3. CASE part5' = FALSE /\ call' = call
    BY <1>1, <1>3 DEF InboxInv, InboxShape, Settling
  <1> QED  BY <1>2, <1>3 DEF Inbox!ItemArrives

\* The server has applied a request, or has not, and this is what its answer says.
LEMMA AnswerSaid ==
  ASSUME InboxInv, NEW n \in NSlots, UNCHANGED <<store, part4>>, call[n].status = "sent",
         NEW s \in {"ok", "error"}, NEW v, v = [x \in Item |-> v[x]],
         call' = [call EXCEPT ![n] = [call[n] EXCEPT !.status = s, !.seen = v]],
         s = "ok" => row' = Inbox!Applied(call[n]) /\ part5' = part5,
         s = "error" => /\ row' \in {row, Inbox!Applied(call[n])}
                        /\ part5' = (part5 /\ (call[n].kind \in {"archive", "finished"}
                                                 => row' = row))
  PROVE  InboxInv'
  <1> USE DEF NSlots
  <1>1. InboxShape /\ InboxCall(call[n])
    BY DEF InboxInv, InboxShape
  <1>2. PICK p, r : p = call[n] /\ r = [p EXCEPT !.status = s, !.seen = v]
    OBVIOUS
  <1>3. InboxCall(r) /\ r.kind = call[n].kind /\ r.item = call[n].item /\ r.status = s
    <2>1. InboxCall(p) /\ p.status = "sent" /\ r = [p EXCEPT !.status = s, !.seen = v]
      BY <1>1, <1>2
    <2>2. p = [kind |-> p.kind, item |-> p.item, status |-> p.status, deselect |-> p.deselect,
               first |-> p.first, seen |-> p.seen]
      BY <2>1 DEF InboxCall, InboxRecord
    <2>3. r = [kind |-> p.kind, item |-> p.item, status |-> s, deselect |-> p.deselect,
               first |-> p.first, seen |-> v]
      BY <1>2, <2>2
    <2>4. p.kind \in Asking
      BY <2>1 DEF InboxCall
    <2>5. InboxCall(r)
      BY <2>1, <2>3, <2>4 DEF InboxCall, InboxRecord
    <2> QED  BY <1>2, <2>3, <2>5
  <1>4. call[n].kind # "idle"
    BY <1>1 DEF InboxCall, Asking, Optimistic
  <1>5. /\ InboxShape'
        /\ part5' => /\ WillAgree(call[n])
                     /\ \A m \in NSlots \ {n} : call'[m].kind = "idle"
                     /\ call'[n] = r
    <2>1. Inbox!Applied(call[n]) = [x \in Item |-> Inbox!Applied(call[n])[x]]
      BY <1>1, AppliedAgrees
    <2>2. row' = [x \in Item |-> row'[x]]
      BY <1>1, <2>1 DEF InboxShape
    <2>3. call' = [call EXCEPT ![n] = r]
      BY <1>2
    <2>4. /\ call' = [m \in NSlots |-> call'[m]] /\ \A m \in NSlots : InboxCall(call'[m])
          /\ call'[n] = r
          /\ part5 => WillAgree(call[n]) /\ \A m \in NSlots \ {n} : call'[m].kind = "idle"
      BY <1>3, <1>4, <2>3, InboxTurns
    <2>5. part5' => part5
      OBVIOUS
    <2> QED  BY <1>1, <2>2, <2>4, <2>5 DEF InboxShape
  <1>6. ASSUME part5', s = "ok" PROVE WillAgree(r)'
    <2>1. WillAgree(call[n]) /\ row' = Inbox!Applied(call[n])
      BY <1>5, <1>6
    <2>2. call[n].kind \in Optimistic => Agree(store', row')
      BY <2>1 DEF WillAgree
    <2>3. call[n].kind = "archive" => Agree(Inbox!Archived(store', call[n].item), row')
      <3> SUFFICES ASSUME call[n].kind = "archive"
                   PROVE  Agree(Inbox!Archived(store, call[n].item), Inbox!Applied(call[n]))
        BY <2>1
      <3>1. Agree(store, row)
        BY <2>1 DEF WillAgree
      <3> QED  BY <1>1, <3>1, AppliedAgrees
    <2>4. call[n].kind = "issue" => Agree(store', row')
      <3> SUFFICES ASSUME call[n].kind = "issue" PROVE Agree(store, Inbox!Applied(call[n]))
        BY <2>1
      <3>1. Agree(store, row)
        BY <2>1 DEF WillAgree
      <3> QED  BY <1>1, <3>1, AppliedAgrees
    <2> QED  BY <1>3, <1>4, <1>6, <2>2, <2>3, <2>4 DEF WillAgree
  <1>7. ASSUME part5', s = "error" PROVE WillAgree(r)'
    <2>1. WillAgree(call[n]) /\ (call[n].kind \in {"archive", "finished"} => row' = row)
      BY <1>5, <1>7
    <2>2. call[n].kind \in {"archive", "finished"} => Agree(store', row')
      BY <2>1 DEF WillAgree
    <2>3. call[n].kind = "issue" => Agree(store', row')
      <3>1. call[n].kind = "issue" => Agree(store, row)
        BY <2>1 DEF WillAgree
      <3>2. call[n].kind = "issue" => Agree(store, Inbox!Applied(call[n]))
        BY <1>1, <3>1, AppliedAgrees
      <3> QED  BY <1>7, <3>1, <3>2
    <2> QED  BY <1>3, <1>4, <1>7, <2>2, <2>3 DEF WillAgree
  <1>8. part5' => WillAgree(call[n])'
    BY <1>5, <1>6, <1>7
  <1> QED  BY <1>5, <1>8, OneToSettle DEF InboxInv

\* The server answers, refuses, or its answer is lost.
LEMMA AnswerSettles ==
  ASSUME InboxInv, NEW n \in NSlots, Inbox!Answer(n)
  PROVE  InboxInv'
  <1> USE DEF NSlots
  <1>1. /\ InboxShape /\ UNCHANGED <<store, part4>> /\ call[n].status = "sent"
        /\ InboxCall(call[n])
    BY DEF InboxInv, InboxShape, Inbox!Answer
  <1>2. PICK list : list = [i \in Item |-> IF Inbox!Live(row[i]) THEN row[i] ELSE "absent"]
    OBVIOUS
  <1>3. list = [x \in Item |-> list[x]] /\ call[n].seen = [x \in Item |-> call[n].seen[x]]
    BY <1>1, <1>2 DEF InboxCall, InboxRecord
  <1>4. CASE /\ row' = Inbox!Applied(call[n]) /\ part5' = part5
             /\ call' = [call EXCEPT ![n].status = "ok",
                                     ![n].seen = IF call[n].kind = "list" THEN list ELSE @]
    <2>1. PICK s, v : s = "ok" /\ v = IF call[n].kind = "list" THEN list ELSE call[n].seen
      OBVIOUS
    <2>2. call' = [call EXCEPT ![n] = [call[n] EXCEPT !.status = s, !.seen = v]]
      BY <1>1, <1>4, <2>1 DEF InboxShape
    <2>3. v = [x \in Item |-> v[x]] /\ s \in {"ok", "error"} /\ s # "error"
      BY <1>3, <2>1
    <2> QED  BY <1>1, <1>4, <2>2, <2>3, AnswerSaid
  <1>5. CASE /\ row' \in {row, Inbox!Applied(call[n])}
             /\ part5' = (part5 /\ (call[n].kind \in {"archive", "finished"} => row' = row))
             /\ call' = [call EXCEPT ![n].status = "error"]
    <2>1. PICK s, v : s = "error" /\ v = call[n].seen
      OBVIOUS
    <2>2. [call[n] EXCEPT !.status = s] = [call[n] EXCEPT !.status = s, !.seen = v]
      BY <1>1, <2>1 DEF InboxCall, InboxRecord
    <2>3. call' = [call EXCEPT ![n] = [call[n] EXCEPT !.status = s, !.seen = v]]
      BY <1>1, <1>5, <2>1, <2>2 DEF InboxShape
    <2>4. v = [x \in Item |-> v[x]] /\ s \in {"ok", "error"} /\ s # "ok"
      BY <1>3, <2>1
    <2> QED  BY <1>1, <1>5, <2>3, <2>4, AnswerSaid
  <1> QED  BY <1>2, <1>4, <1>5 DEF Inbox!Answer

\* A list replaces the store, and is compared.
LEMMA ListSettles ==
  ASSUME InboxInv, NEW n \in NSlots, Inbox!Listed(n)
  PROVE  InboxInv'
  <1> USE DEF NSlots
  <1>1. /\ InboxShape /\ row' = row /\ store' = call[n].seen /\ InboxCall(call[n])
        /\ call' = [call EXCEPT ![n] = Inbox!Idle]
    BY DEF InboxInv, InboxShape, Inbox!Listed
  <1>2. part5' => /\ \A m \in NSlots \ {n} : call[m].kind = "idle"
                  /\ \A i \in Item : Inbox!Live(row[i]) \/ Inbox!Live(store'[i])
                                       => store'[i] = row[i]
    BY DEF Inbox!Listed, Inbox!Others
  <1>3. InboxShape'
    BY <1>1, InboxTurns, InboxIdle DEF InboxShape, InboxCall, InboxRecord
  <1>4. part5' => WillAgree(call[n])'
    BY <1>1, <1>2, InboxTurns, InboxIdle DEF WillAgree, Optimistic, Agree
  <1>5. \A m \in NSlots \ {n} : call'[m] = call[m]
    BY <1>1 DEF InboxShape
  <1> QED  BY <1>2, <1>3, <1>4, <1>5, OneToSettle DEF InboxInv

\* An item was archived, and leaves the list.
LEMMA ArchivedSettles ==
  ASSUME InboxInv, NEW n \in NSlots, Inbox!ArchiveDone(n)
  PROVE  InboxInv'
  <1> USE DEF NSlots
  <1>1. /\ InboxShape /\ row' = row /\ part5' = part5
        /\ store' = Inbox!Archived(store, call[n].item)
        /\ call[n].kind = "archive" /\ call[n].status = "ok"
        /\ call' = [call EXCEPT ![n] = Inbox!Idle]
    BY DEF InboxInv, InboxShape, Inbox!ArchiveDone
  <1>2. InboxShape'
    <2>1. PICK st, i : st = store /\ i = call[n].item
      OBVIOUS
    <2>2. st = [x \in Item |-> st[x]]
      BY <1>1, <2>1 DEF InboxShape
    <2>3. Inbox!Archived(st, i) = [x \in Item |-> Inbox!Archived(st, i)[x]]
      BY <2>2, OperationsShaped
    <2> QED  BY <1>1, <2>1, <2>3, InboxTurns, InboxIdle DEF InboxShape
  <1>3. part5' => Agree(store', row')
    BY <1>1, InboxTurns, InboxIdle DEF WillAgree
  <1>4. part5' => WillAgree(call[n])'
    BY <1>1, <1>3, InboxTurns, InboxIdle DEF WillAgree, Optimistic
  <1> QED  BY <1>1, <1>2, <1>4, InboxTurns, InboxIdle, OneToSettle DEF InboxInv

\* The other answers leave the store alone: the request is over, or asks for a list or
\* for an archive.
LEMMA TurnSettles ==
  ASSUME InboxInv, NEW n \in NSlots, UNCHANGED <<store, row>>, part5' => part5,
         call[n].kind # "idle",
         NEW r, InboxCall(r), call' = [call EXCEPT ![n] = r],
         \/ r.kind = "list"
         \/ r.kind \in {"idle", "archive"} /\ r.status # "ok" /\ (part5' => Agree(store, row))
  PROVE  InboxInv'
  <1>1. part5' => WillAgree(call[n])'
    BY InboxTurns DEF WillAgree, Optimistic
  <1>2. InboxShape'
    BY InboxTurns DEF InboxInv, InboxShape
  <1> QED  BY <1>1, <1>2, InboxTurns, OneToSettle DEF InboxInv

LEMMA AnswersSettle ==
  ASSUME InboxInv, NEW n \in NSlots,
         Inbox!ListFailed(n) \/ Inbox!IssueDeleted(n) \/ Inbox!CompletedArchived(n)
           \/ Inbox!Kept(n) \/ Inbox!Refused(n)
  PROVE  InboxInv'
  <1> USE DEF NSlots
  <1>0. Inbox!Idle.kind = "idle" /\ Inbox!Idle.status # "ok" /\ InboxCall(Inbox!Idle)
    BY InboxIdle
  <1>1. part5 /\ call[n].kind # "idle" => WillAgree(call[n])
    BY DEF InboxInv, Settling
  <1>2. CASE Inbox!ListFailed(n)
    BY <1>0, <1>2, TurnSettles DEF Inbox!ListFailed
  <1>3. CASE Inbox!IssueDeleted(n)
    <2>1. PICK k, j, b, r : /\ k = "archive" /\ r = [Inbox!Request(k, j) EXCEPT !.deselect = b]
                            /\ call' = [call EXCEPT ![n] = r]
      BY <1>3 DEF Inbox!IssueDeleted
    <2>2. InboxCall(r) /\ r.kind = k /\ r.status = "sent"
      <3>1. k \in Asking /\ r = [Inbox!Request(k, j) EXCEPT !.deselect = b]
        BY <2>1 DEF Asking
      <3> QED  BY ONLY <3>1, InboxRequest
    <2>3. call[n].kind = "issue" /\ UNCHANGED <<store, row>> /\ part5' = part5
      BY <1>3 DEF Inbox!IssueDeleted
    <2> QED  BY <1>1, <2>1, <2>2, <2>3, TurnSettles DEF WillAgree
  <1>4. CASE Inbox!CompletedArchived(n)
    <2>1. PICK r : r = Inbox!ListRequest
      OBVIOUS
    <2>2. /\ call[n].kind = "finished" /\ UNCHANGED <<store, row>> /\ part5' = part5
          /\ call' = [call EXCEPT ![n] = r]
      BY <1>4, <2>1 DEF Inbox!CompletedArchived
    <2> QED  BY <2>1, <2>2, InboxListRequest, TurnSettles
  <1>5. CASE Inbox!Kept(n)
    <2>1. /\ call[n].kind \in Optimistic /\ call[n].status = "ok" /\ part5' = part5
          /\ UNCHANGED <<store, row>> /\ call' = [call EXCEPT ![n] = Inbox!Idle]
      BY <1>5 DEF Inbox!Kept, Optimistic
    <2>2. part5' => Agree(store, row)
      BY <1>1, <2>1 DEF WillAgree, Optimistic
    <2>3. call[n].kind # "idle"
      BY <2>1 DEF Optimistic
    <2> QED  BY <1>0, <2>1, <2>2, <2>3, TurnSettles
  <1>6. CASE Inbox!Refused(n)
    <2>1. /\ call[n].kind # "list" /\ call[n].status = "error" /\ part5' = part5
          /\ UNCHANGED <<store, row>>
      BY <1>6 DEF Inbox!Refused
    <2>2. CASE call' = [call EXCEPT ![n] = Inbox!ListRequest] /\ call[n].kind \in Optimistic
      <3>1. PICK r : r = Inbox!ListRequest
        OBVIOUS
      <3>2. call[n].kind # "idle" /\ call' = [call EXCEPT ![n] = r]
        BY <2>2, <3>1 DEF Optimistic
      <3> QED  BY <2>1, <3>1, <3>2, InboxListRequest, TurnSettles
    <2>3. CASE call' = [call EXCEPT ![n] = Inbox!Idle] /\ call[n].kind \notin Optimistic
      <3>1. call[n].kind \in {"archive", "finished", "issue"}
        BY <2>1, <2>3 DEF InboxInv, InboxShape, InboxCall, Asking
      <3>2. part5' => Agree(store, row)
        BY <1>1, <2>1, <3>1 DEF WillAgree
      <3> QED  BY <1>0, <2>1, <2>3, <3>1, <3>2, TurnSettles
    <2> QED  BY <1>6, <2>2, <2>3 DEF Inbox!Refused, Optimistic
  <1> QED  BY <1>2, <1>3, <1>4, <1>5, <1>6

\* The inbox keeps its invariant.
LEMMA InboxKeeps ==
  ASSUME InboxInv, Inbox!Next
  PROVE  InboxInv'
  <1>1. ASSUME NEW p \in {"list", "detail"}, Inbox!ShowPanel(p)
        PROVE  InboxInv'
    <2>1. UNCHANGED <<store, row, call, part5, part4>>
      BY <1>1 DEF Inbox!ShowPanel
    <2> QED  BY <2>1, InboxAlone
  <1>2. ASSUME NEW i \in Item, Inbox!OtherTab(i)
        PROVE  InboxInv'
    <2>1. /\ UNCHANGED <<store, call>> /\ part5' = FALSE
          /\ row' = Inbox!Archived(row, i)
      BY <1>2 DEF Inbox!OtherTab
    <2>2. row' = [x \in Item |-> row'[x]]
      BY <2>1 DEF InboxInv, InboxShape, Inbox!Archived
    <2> QED  BY <2>1, <2>2 DEF InboxInv, InboxShape, Settling
  <1>3. ASSUME NEW n \in NSlots, NEW i \in Item,
               Inbox!SelectItem(i, n) \/ Inbox!Archive(i, n) \/ Inbox!ItemArrives(i, n)
        PROVE  InboxInv'
    BY <1>3, SelectSettles, ArchiveSettles, ArrivalSettles
  <1>4. ASSUME NEW n \in NSlots,
               Inbox!MarkAllRead(n) \/ Inbox!ArchiveAll(n) \/ Inbox!ArchiveAllRead(n)
                 \/ Inbox!ArchiveCompleted(n) \/ Inbox!DeleteIssue(n)
        PROVE  InboxInv'
    BY <1>4, MarkAllSettles, ArchiveAllSettles, ArchiveReadSettles, CompletedSettles,
       DeleteSettles
  <1>5. ASSUME NEW n \in NSlots,
               Inbox!Answer(n) \/ Inbox!Listed(n) \/ Inbox!ListFailed(n)
                 \/ Inbox!ArchiveDone(n) \/ Inbox!IssueDeleted(n)
                 \/ Inbox!CompletedArchived(n) \/ Inbox!Kept(n) \/ Inbox!Refused(n)
        PROVE  InboxInv'
    BY <1>5, AnswerSettles, ListSettles, ArchivedSettles, AnswersSettle
  <1> QED  BY <1>1, <1>2, <1>3, <1>4, <1>5 DEF Inbox!Next, NSlots

\* The inbox is mounted in its invariant, every step keeps it, and it says that the list
\* and the table agree once nothing is under way.
LEMMA InboxSafe ==
  /\ InboxMounted => InboxInv
  /\ InboxInv /\ Inbox!Next => InboxInv'
  /\ InboxInv /\ UNCHANGED pageVars => InboxInv'
  /\ InboxInv => Inbox!SettledAgrees
  <1>1. ASSUME InboxMounted PROVE InboxInv
    <2>1. /\ store = row /\ call = [n \in NSlots |-> Inbox!Idle]
          /\ row \in [Item -> {"absent", "unread", "read"}]
      BY <1>1 DEF InboxMounted, Inbox!Init, NSlots
    <2>2. row = [i \in Item |-> row[i]]
      BY <2>1
    <2>3. \A n \in NSlots : call[n].kind = "idle" /\ InboxCall(call[n])
      BY <2>1, InboxIdle
    <2>4. call = [n \in NSlots |-> call[n]]
      BY <2>1
    <2> QED
      BY <2>1, <2>2, <2>3, <2>4 DEF InboxInv, InboxShape, Settling, OneOut, Agree
  <1>2. InboxInv /\ Inbox!Next => InboxInv'
    BY InboxKeeps
  <1>3. InboxInv /\ UNCHANGED pageVars => InboxInv'
    BY InboxAlone DEF pageVars
  <1>4. InboxInv => Inbox!SettledAgrees
    BY DEF InboxInv, Settling, Agree, Inbox!SettledAgrees
  <1> QED  BY <1>1, <1>2, <1>3, <1>4

-----------------------------------------------------------------------------
(* The fields of an issue: in store and row, the issue; in part3, that     *)
(* something older than the issue of the server was written to the store.  *)

FSlots == Slots["fields"]

IssueRows == [present : BOOLEAN, stage : {"planning", "plan_ready", "building"},
              fields : [Fields!Field -> Fields!Value]]
FieldEvents == [kind : {"updated", "deleted", "task"}, row : IssueRows, own : BOOLEAN]

\* The calls that carry a row: for a rollback, or from the server.
Carries(r) == \/ r.kind \in {"update", "nothing"}
              \/ r.kind \in {"load", "confirm"} /\ r.status = "ok"

FieldCall(r) ==
    /\ r = [kind |-> r.kind, status |-> r.status, field |-> r.field, value |-> r.value,
            seen |-> r.seen, mine |-> r.mine]
    /\ r.value \in Fields!Value
    /\ Carries(r) => r.seen \in IssueRows

FieldCalls(c) == c = [n \in FSlots |-> c[n]] /\ \A n \in FSlots : FieldCall(c[n])

FieldView(v) ==
    /\ v = [loading |-> v.loading, dialog |-> v.dialog, deleting |-> v.deleting,
            confirming |-> v.confirming, typed |-> v.typed, draft |-> v.draft,
            sidebar |-> v.sidebar, gone |-> v.gone]
    /\ v.draft \in Fields!Value

FieldsShape ==
    /\ store \in IssueRows /\ row \in IssueRows
    /\ wire \in Seq(FieldEvents)
    /\ FieldView(view) /\ FieldCalls(call)

\* The last update on its way carries this row.
LastTells(w, r) ==
    \A i \in DOMAIN w : w[i].kind = "updated" /\ (\A j \in DOMAIN w : j > i => w[j].kind # "updated")
                          => w[i].row = r

UpdateComes(w) == \E i \in DOMAIN w : w[i].kind = "updated"

\* A field was written before the server was asked, and no answer has arrived.
Writes(r) == r.kind \in {"update", "nothing"} /\ r.status \in {"sent", "error"}
Ahead(c) == \E n \in FSlots : Writes(c[n])

\* The last update tells the row; a store that differs is yet to be told.
EventsTell == row.present => LastTells(wire, row)
StoreTold  == row.present /\ store.present /\ ~part3
                => store = row \/ UpdateComes(wire) \/ Ahead(call)

FieldsInv == FieldsShape /\ EventsTell /\ StoreTold

\* What an event does to the queue when it is published, and when it is delivered.
LEMMA UpdatePublished ==
  ASSUME NEW w \in Seq(FieldEvents), NEW e \in FieldEvents
  PROVE  /\ Append(w, e) \in Seq(FieldEvents)
         /\ e.kind = "updated" => LastTells(Append(w, e), e.row) /\ UpdateComes(Append(w, e))
         /\ e.kind # "updated" =>
              /\ \A r : LastTells(w, r) => LastTells(Append(w, e), r)
              /\ UpdateComes(w) => UpdateComes(Append(w, e))
  <1>1. /\ Append(w, e) \in Seq(FieldEvents) /\ Len(w) \in Nat
        /\ DOMAIN w = 1..Len(w) /\ DOMAIN Append(w, e) = 1..Len(w)+1
        /\ \A i \in 1..Len(w) : Append(w, e)[i] = w[i]
        /\ Append(w, e)[Len(w)+1] = e
    BY AppendProperties
  <1>2. ASSUME e.kind = "updated"
        PROVE  LastTells(Append(w, e), e.row) /\ UpdateComes(Append(w, e))
    BY <1>1, <1>2 DEF LastTells, UpdateComes
  <1>3. ASSUME e.kind # "updated"
        PROVE  /\ \A r : LastTells(w, r) => LastTells(Append(w, e), r)
               /\ UpdateComes(w) => UpdateComes(Append(w, e))
    <2>1. UpdateComes(w) => UpdateComes(Append(w, e))
      BY <1>1 DEF UpdateComes
    <2>2. ASSUME NEW r, LastTells(w, r), NEW i \in 1..Len(w)+1,
                 Append(w, e)[i].kind = "updated",
                 \A j \in 1..Len(w)+1 : j > i => Append(w, e)[j].kind # "updated"
          PROVE  Append(w, e)[i].row = r
      <3>1. i \in 1..Len(w)
        BY <1>1, <1>3, <2>2
      <3>2. \A j \in 1..Len(w) : j > i => w[j].kind # "updated"
        BY <1>1, <2>2
      <3> QED  BY <1>1, <2>2, <3>1, <3>2 DEF LastTells
    <2> QED  BY <1>1, <2>1, <2>2 DEF LastTells
  <1> QED  BY <1>1, <1>2, <1>3

LEMMA UpdateDelivered ==
  ASSUME NEW w \in Seq(FieldEvents), w # <<>>, NEW r, LastTells(w, r)
  PROVE  /\ Tail(w) \in Seq(FieldEvents) /\ Head(w) \in FieldEvents
         /\ LastTells(Tail(w), r)
         /\ Head(w).kind = "updated" => UpdateComes(Tail(w)) \/ Head(w).row = r
  <1>1. /\ Tail(w) \in Seq(FieldEvents) /\ Head(w) \in FieldEvents /\ Head(w) = w[1]
        /\ Len(w) \in Nat /\ Len(w) > 0 /\ DOMAIN w = 1..Len(w)
        /\ DOMAIN Tail(w) = 1..Len(w)-1 /\ \A i \in 1..Len(w)-1 : Tail(w)[i] = w[i+1]
    BY HeadTailProperties, EmptySeq
  <1>2. LastTells(Tail(w), r)
    <2> SUFFICES ASSUME NEW i \in 1..Len(w)-1, Tail(w)[i].kind = "updated",
                        \A j \in 1..Len(w)-1 : j > i => Tail(w)[j].kind # "updated"
                 PROVE  Tail(w)[i].row = r
      BY <1>1 DEF LastTells
    <2>1. i+1 \in 1..Len(w) /\ w[i+1].kind = "updated" /\ Tail(w)[i].row = w[i+1].row
      BY <1>1
    <2>2. ASSUME NEW j \in 1..Len(w), j > i+1 PROVE w[j].kind # "updated"
      <3>1. j-1 \in 1..Len(w)-1 /\ j-1 > i /\ (j-1)+1 = j
        BY <1>1, <2>2
      <3> QED  BY <1>1, <3>1
    <2> QED  BY <1>1, <2>1, <2>2 DEF LastTells
  <1>3. ASSUME NEW i \in 1..Len(w), i # 1, w[i].kind = "updated"
        PROVE  UpdateComes(Tail(w))
    <2>1. i-1 \in 1..Len(w)-1 /\ (i-1)+1 = i
      BY <1>1, <1>3
    <2> QED  BY <1>1, <1>3, <2>1 DEF UpdateComes
  <1>4. Head(w).kind = "updated" => UpdateComes(Tail(w)) \/ Head(w).row = r
    <2> SUFFICES ASSUME w[1].kind = "updated", ~UpdateComes(Tail(w)) PROVE w[1].row = r
      BY <1>1
    <2>1. \A j \in 1..Len(w) : j > 1 => w[j].kind # "updated"
      BY <1>3
    <2> QED  BY <1>1, <2>1 DEF LastTells
  <1> QED  BY <1>1, <1>2, <1>4

LEMMA UpdateSkipped ==
  ASSUME NEW w \in Seq(FieldEvents), w # <<>>, Head(w).kind # "updated", UpdateComes(w)
  PROVE  UpdateComes(Tail(w))
  <1>1. /\ Head(w) = w[1] /\ Len(w) \in Nat /\ DOMAIN w = 1..Len(w)
        /\ DOMAIN Tail(w) = 1..Len(w)-1 /\ \A i \in 1..Len(w)-1 : Tail(w)[i] = w[i+1]
    BY HeadTailProperties, EmptySeq
  <1>2. PICK i \in 1..Len(w) : w[i].kind = "updated"
    BY <1>1 DEF UpdateComes
  <1>3. i-1 \in 1..Len(w)-1 /\ (i-1)+1 = i
    BY <1>1, <1>2
  <1> QED  BY <1>1, <1>2, <1>3 DEF UpdateComes

\* What is asked, and what is answered, keeps the form of the calls.
LEMMA FieldRequest ==
  ASSUME NEW k
  PROVE  /\ Fields!Request(k) = [kind |-> k, status |-> "sent", field |-> "title",
                                 value |-> 0, seen |-> <<>>, mine |-> TRUE]
         /\ k \notin {"update", "nothing"} => FieldCall(Fields!Request(k))
         /\ FieldCall(Fields!Idle) /\ ~Writes(Fields!Idle)
  <1>1. Fields!Request(k) = [kind |-> k, status |-> "sent", field |-> "title",
                             value |-> 0, seen |-> <<>>, mine |-> TRUE]
    <2>1. PICK a : a = [Fields!Idle EXCEPT !.kind = k]
      OBVIOUS
    <2>2. a = [kind |-> k, status |-> "idle", field |-> "title", value |-> 0,
               seen |-> <<>>, mine |-> TRUE]
      BY <2>1 DEF Fields!Idle
    <2>3. PICK c : c = "sent"
      OBVIOUS
    <2>4. Fields!Request(k) = [a EXCEPT !.status = c]
      BY <2>1, <2>3 DEF Fields!Request
    <2>5. a = [kind |-> a.kind, status |-> a.status, field |-> a.field, value |-> a.value,
               seen |-> a.seen, mine |-> a.mine]
      BY ONLY <2>2
    <2>6. [a EXCEPT !.status = c] = [kind |-> a.kind, status |-> c, field |-> a.field,
                                     value |-> a.value, seen |-> a.seen, mine |-> a.mine]
      BY ONLY <2>5
    <2> QED  BY <2>2, <2>3, <2>4, <2>6
  <1>2. 0 \in Fields!Value
    BY DEF Fields!Value
  <1>3. k \notin {"update", "nothing"} => FieldCall(Fields!Request(k))
    BY <1>1, <1>2 DEF FieldCall, Carries
  <1>4. FieldCall(Fields!Idle) /\ ~Writes(Fields!Idle)
    BY <1>2 DEF Fields!Idle, FieldCall, Carries, Writes
  <1> QED  BY <1>1, <1>3, <1>4

LEMMA FieldWrite ==
  ASSUME NEW k \in {"update", "nothing"}, NEW f, NEW v \in Fields!Value, NEW s \in IssueRows,
         NEW q, q = [Fields!Request(k) EXCEPT !.field = f, !.value = v, !.seen = s]
  PROVE  FieldCall(q) /\ Writes(q)
  <1>1. q = [kind |-> k, status |-> "sent", field |-> f, value |-> v, seen |-> s,
             mine |-> TRUE]
    <2>1. PICK a : a = Fields!Request(k)
      OBVIOUS
    <2>2. a = [kind |-> k, status |-> "sent", field |-> "title", value |-> 0,
               seen |-> <<>>, mine |-> TRUE]
      BY <2>1, FieldRequest
    <2>3. q = [a EXCEPT !.field = f, !.value = v, !.seen = s]
      BY <2>1
    <2> QED  BY ONLY <2>2, <2>3
  <1>2. FieldCall(q)
    BY <1>1 DEF FieldCall
  <1>3. q.kind = k /\ q.status = "sent"
    BY ONLY <1>1
  <1> QED  BY <1>2, <1>3 DEF Writes

\* One call changes.
LEMMA CallTurns ==
  ASSUME NEW c, FieldCalls(c), NEW n \in FSlots, NEW r, FieldCall(r)
  PROVE  /\ FieldCalls([c EXCEPT ![n] = r]) /\ [c EXCEPT ![n] = r][n] = r
         /\ Writes(r) => Ahead([c EXCEPT ![n] = r])
         /\ Ahead(c) /\ ~Writes(c[n]) => Ahead([c EXCEPT ![n] = r])
  <1>1. PICK d : d = [c EXCEPT ![n] = r]
    OBVIOUS
  <1>2. d = [m \in FSlots |-> d[m]] /\ d[n] = r /\ \A m \in FSlots : m # n => d[m] = c[m]
    BY <1>1 DEF FieldCalls
  <1>3. FieldCalls(d)
    BY <1>2 DEF FieldCalls
  <1>4. /\ Writes(r) => Ahead(d)
        /\ Ahead(c) /\ ~Writes(c[n]) => Ahead(d)
    BY <1>2 DEF Ahead
  <1> QED  BY <1>1, <1>2, <1>3, <1>4

LEMMA CallSent ==
  ASSUME FieldsInv, NEW n \in FSlots, NEW r, FieldCall(r), Fields!Send(n, r)
  PROVE  FieldCalls(call') /\ (Ahead(call) => Ahead(call')) /\ (Writes(r) => Ahead(call'))
  <1>1. call[n].kind = "idle" /\ call' = [call EXCEPT ![n] = r]
    BY DEF Fields!Send, Fields!Free, FSlots
  <1>2. ~Writes(call[n])
    BY <1>1 DEF Writes
  <1>3. FieldCalls(call)
    BY DEF FieldsInv, FieldsShape
  <1> QED  BY <1>1, <1>2, <1>3, CallTurns

\* The rows and the events that the server makes of a row.
LEMMA IssueTurns ==
  ASSUME NEW r \in IssueRows
  PROVE  /\ \A f, v : v \in Fields!Value => [r EXCEPT !.fields[f] = v] \in IssueRows
         /\ \A s \in {"planning", "plan_ready", "building"} : [r EXCEPT !.stage = s] \in IssueRows
         /\ \A b \in BOOLEAN : [r EXCEPT !.present = b] \in IssueRows
                               /\ [r EXCEPT !.present = b].present = b
  BY DEF IssueRows

LEMMA EventsTyped ==
  ASSUME NEW r \in IssueRows, NEW e, e = [Fields!Updated(r) EXCEPT !.own = TRUE]
  PROVE  e \in FieldEvents /\ e.kind = "updated" /\ e.row = r
  <1>1. PICK k : k = "updated" /\ k \in {"updated", "deleted", "task"}
    OBVIOUS
  <1>2. Fields!Updated(r) = [kind |-> k, row |-> r, own |-> FALSE]
    BY <1>1 DEF Fields!Updated
  <1>3. PICK u, b : u = Fields!Updated(r) /\ b = TRUE /\ b \in BOOLEAN
    OBVIOUS
  <1>4. u = [kind |-> u.kind, row |-> u.row, own |-> u.own] /\ u.row = r /\ u.kind = k
    BY <1>2, <1>3
  <1>5. e = [u EXCEPT !.own = b]
    BY <1>3
  <1>6. e = [kind |-> u.kind, row |-> u.row, own |-> b]
    BY ONLY <1>4, <1>5
  <1>7. e.kind = "updated" /\ e.row = r
    BY <1>1, <1>4, <1>6
  <1>8. e \in FieldEvents
    BY <1>1, <1>3, <1>4, <1>6 DEF FieldEvents
  <1> QED  BY <1>7, <1>8

LEMMA UpdateTyped ==
  ASSUME NEW r \in IssueRows
  PROVE  Fields!Updated(r) \in FieldEvents /\ Fields!Updated(r).kind = "updated"
         /\ Fields!Updated(r).row = r
  <1>1. PICK k : k = "updated" /\ k \in {"updated", "deleted", "task"}
    OBVIOUS
  <1>2. Fields!Updated(r) = [kind |-> k, row |-> r, own |-> FALSE]
    BY <1>1 DEF Fields!Updated
  <1> QED  BY <1>1, <1>2 DEF FieldEvents

LEMMA OthersTyped ==
  ASSUME row \in IssueRows
  PROVE  /\ Fields!TaskEvent \in FieldEvents /\ Fields!TaskEvent.kind # "updated"
         /\ [Fields!TaskEvent EXCEPT !.kind = "deleted"] \in FieldEvents
  <1>1. PICK k, d : k = "task" /\ d = "deleted" /\ k \in {"updated", "deleted", "task"}
                    /\ d \in {"updated", "deleted", "task"} /\ k # "updated"
    OBVIOUS
  <1>2. Fields!TaskEvent = [kind |-> k, row |-> row, own |-> FALSE]
    BY <1>1 DEF Fields!TaskEvent
  <1>3. [Fields!TaskEvent EXCEPT !.kind = d] = [kind |-> d, row |-> row, own |-> FALSE]
    <2>1. PICK e : e = Fields!TaskEvent
      OBVIOUS
    <2>2. e = [kind |-> e.kind, row |-> e.row, own |-> e.own] /\ e.row = row /\ e.own = FALSE
      BY <1>2, <2>1
    <2>3. [e EXCEPT !.kind = d] = [kind |-> d, row |-> e.row, own |-> e.own]
      BY ONLY <2>2
    <2> QED  BY <2>1, <2>2, <2>3
  <1>4. Fields!TaskEvent \in FieldEvents /\ Fields!TaskEvent.kind # "updated"
    BY <1>1, <1>2 DEF FieldEvents
  <1>5. [Fields!TaskEvent EXCEPT !.kind = d] \in FieldEvents
    BY <1>1, <1>3 DEF FieldEvents
  <1> QED  BY <1>1, <1>4, <1>5

\* A row that the server publishes, with whatever it is.
LEMMA RowPublished ==
  ASSUME FieldsInv, NEW e \in FieldEvents, wire' = Append(wire, e), e.kind = "updated",
         e.row = row', UNCHANGED store, FieldView(view'), FieldCalls(call')
  PROVE  FieldsInv'
  <1>1. e.row \in IssueRows
    BY DEF FieldEvents
  <1>2. wire \in Seq(FieldEvents)
    BY DEF FieldsInv, FieldsShape
  <1>3. wire' \in Seq(FieldEvents) /\ LastTells(wire', row') /\ UpdateComes(wire')
    BY <1>2, UpdatePublished
  <1> QED
    BY <1>1, <1>3 DEF FieldsInv, FieldsShape, EventsTell, StoreTold

\* Nothing happens at the server.
LEMMA ServerRests ==
  ASSUME FieldsInv, UNCHANGED <<row, wire>>, store' \in IssueRows,
         FieldView(view'), FieldCalls(call'),
         row.present /\ store'.present /\ ~part3' =>
             \/ store' = row
             \/ Ahead(call')
             \/ store' = store /\ part3' = part3 /\ (Ahead(call) => Ahead(call'))
  PROVE  FieldsInv'
  BY DEF FieldsInv, FieldsShape, EventsTell, StoreTold

\* Clicks that only change the page.
LEMMA PageClicks ==
  ASSUME FieldsInv,
         \/ \E v \in Fields!Value : Fields!TypeDescription(v)
         \/ \E open \in BOOLEAN : Fields!DeleteDialog(open)
         \/ Fields!ToggleSidebar
         \/ Fields!Leave
  PROVE  FieldsInv'
  <1>1. FieldView(view) /\ FieldCalls(call) /\ store \in IssueRows
    BY DEF FieldsInv, FieldsShape
  <1>2. UNCHANGED <<store, call, wire, row, part3>>
    BY DEF Fields!TypeDescription, Fields!DeleteDialog, Fields!ToggleSidebar, Fields!Leave
  <1>3. FieldView(view')
    <2>1. ASSUME NEW v \in Fields!Value, Fields!TypeDescription(v) PROVE FieldView(view')
      BY <1>1, <2>1 DEF Fields!TypeDescription, FieldView
    <2>2. ASSUME NEW open \in BOOLEAN, Fields!DeleteDialog(open) PROVE FieldView(view')
      BY <1>1, <2>2 DEF Fields!DeleteDialog, FieldView
    <2>3. ASSUME Fields!ToggleSidebar PROVE FieldView(view')
      BY <1>1, <2>3 DEF Fields!ToggleSidebar, FieldView
    <2>4. ASSUME Fields!Leave PROVE FieldView(view')
      BY <1>1, <2>4 DEF Fields!Leave, FieldView
    <2> QED  BY <2>1, <2>2, <2>3, <2>4
  <1> QED  BY <1>1, <1>2, <1>3, ServerRests

\* A field is written to the store, and the server is asked.
LEMMA FieldUpdated ==
  ASSUME FieldsInv, NEW n \in FSlots, NEW k \in {"update", "nothing"}, NEW f \in Fields!Field,
         NEW v \in Fields!Value, Fields!Update(n, f, v, Fields!Request(k)),
         FieldView(view'), UNCHANGED <<row, wire>>
  PROVE  FieldsInv'
  <1>1. store \in IssueRows
    BY DEF FieldsInv, FieldsShape
  <1>2. PICK q : /\ q = [Fields!Request(k) EXCEPT !.field = f, !.value = v, !.seen = store]
                 /\ Fields!Send(n, q)
    BY DEF Fields!Update
  <1>3. FieldCall(q) /\ Writes(q)
    BY <1>1, <1>2, FieldWrite
  <1>4. FieldCalls(call') /\ Ahead(call')
    BY <1>2, <1>3, CallSent
  <1>5. store' \in IssueRows
    BY <1>1 DEF Fields!Update, IssueRows
  <1> QED  BY <1>4, <1>5, ServerRests

LEMMA FieldsWritten ==
  ASSUME FieldsInv, NEW n \in FSlots,
         \/ \E v \in Fields!Value : Fields!PickInMenu(n, v) \/ Fields!PickInSidebar(n, v)
         \/ Fields!BlurTitle(n, 1)
         \/ Fields!DescriptionTimer(n)
  PROVE  FieldsInv'
  <1>1. FieldView(view) /\ "title" \in Fields!Field /\ "status" \in Fields!Field
        /\ "description" \in Fields!Field /\ 1 \in Fields!Value
    BY DEF FieldsInv, FieldsShape, Fields!Field, Fields!Value
  <1>2. ASSUME NEW v \in Fields!Value, Fields!PickInMenu(n, v) PROVE FieldsInv'
    <2>1. Fields!Update(n, "status", v, Fields!Request("update"))
          /\ UNCHANGED <<view, wire, row>>
      BY <1>2 DEF Fields!PickInMenu
    <2> QED  BY <1>1, <2>1, FieldUpdated
  <1>3. ASSUME Fields!BlurTitle(n, 1) PROVE FieldsInv'
    <2>1. Fields!Update(n, "title", 1, Fields!Request("update"))
          /\ UNCHANGED <<view, wire, row>>
      BY <1>3 DEF Fields!BlurTitle
    <2> QED  BY <1>1, <2>1, FieldUpdated
  <1>4. ASSUME Fields!DescriptionTimer(n) PROVE FieldsInv'
    <2>1. PICK k : /\ k \in {"update", "nothing"}
                   /\ Fields!Update(n, "description", view.draft, Fields!Request(k))
                   /\ UNCHANGED <<wire, row>>
      BY <1>4 DEF Fields!DescriptionTimer
    <2>2. FieldView(view') /\ view.draft \in Fields!Value
      BY <1>1, <1>4 DEF Fields!DescriptionTimer, FieldView
    <2> QED  BY <1>1, <2>1, <2>2, FieldUpdated
  <1> QED
    BY <1>2, <1>3, <1>4 DEF Fields!PickInSidebar

\* A deletion and a confirmation are asked for.
LEMMA FieldsAsked ==
  ASSUME FieldsInv, NEW n \in FSlots, Fields!ConfirmDelete(n) \/ Fields!ConfirmPlan(n)
  PROVE  FieldsInv'
  <1>1. FieldView(view) /\ store \in IssueRows
    BY DEF FieldsInv, FieldsShape
  <1>2. UNCHANGED <<store, row, wire, part3>>
    BY DEF Fields!ConfirmDelete, Fields!ConfirmPlan
  <1>3. FieldView(view')
    <2>1. ASSUME Fields!ConfirmDelete(n) PROVE FieldView(view')
      BY <1>1, <2>1 DEF Fields!ConfirmDelete, FieldView
    <2>2. ASSUME Fields!ConfirmPlan(n) PROVE FieldView(view')
      BY <1>1, <2>2 DEF Fields!ConfirmPlan, FieldView
    <2> QED  BY <2>1, <2>2
  <1>4. PICK k : k \notin {"update", "nothing"} /\ Fields!Send(n, Fields!Request(k))
    BY DEF Fields!ConfirmDelete, Fields!ConfirmPlan
  <1>5. FieldCalls(call') /\ (Ahead(call) => Ahead(call'))
    BY <1>4, FieldRequest, CallSent
  <1> QED  BY <1>1, <1>2, <1>3, <1>5, ServerRests

\* Others change the issue, and say so.
LEMMA OthersTell ==
  ASSUME FieldsInv,
         \/ Fields!SomeoneEdits("title", 1) \/ Fields!SomeoneDeletes \/ Fields!Replans
         \/ \E ready \in BOOLEAN : Fields!PlanCompletes(ready)
  PROVE  FieldsInv'
  <1>1. /\ FieldView(view) /\ FieldCalls(call) /\ store \in IssueRows /\ row \in IssueRows
        /\ wire \in Seq(FieldEvents)
    BY DEF FieldsInv, FieldsShape
  <1>2. UNCHANGED <<store, view, call, part3>>
    BY DEF Fields!SomeoneEdits, Fields!SomeoneDeletes, Fields!Replans, Fields!PlanCompletes
  <1>3. ASSUME NEW r \in IssueRows
        PROVE  Fields!Updated(r) \in FieldEvents /\ Fields!Updated(r).kind = "updated"
               /\ Fields!Updated(r).row = r
    BY UpdateTyped
  <1>4. ASSUME Fields!SomeoneEdits("title", 1) PROVE FieldsInv'
    <2>1. row' \in IssueRows /\ wire' = Append(wire, Fields!Updated(row'))
      <3>1. 1 \in Fields!Value
        BY DEF Fields!Value
      <3> QED  BY <1>1, <1>4, <3>1, IssueTurns DEF Fields!SomeoneEdits, Fields!Publish
    <2> QED  BY <1>1, <1>2, <1>3, <2>1, RowPublished
  <1>5. ASSUME Fields!Replans PROVE FieldsInv'
    <2>1. row' \in IssueRows /\ wire' = Append(wire, Fields!Updated(row'))
      BY <1>1, <1>5, IssueTurns DEF Fields!Replans, Fields!Publish
    <2> QED  BY <1>1, <1>2, <1>3, <2>1, RowPublished
  <1>6. ASSUME Fields!SomeoneDeletes PROVE FieldsInv'
    <2>1. row' \in IssueRows /\ ~row'.present
      BY <1>1, <1>6, IssueTurns DEF Fields!SomeoneDeletes, Fields!Gone
    <2>2. [Fields!TaskEvent EXCEPT !.kind = "deleted"] \in FieldEvents
      BY <1>1, OthersTyped
    <2>3. wire' \in Seq(FieldEvents)
      BY <1>1, <1>6, <2>2, UpdatePublished DEF Fields!SomeoneDeletes, Fields!Publish
    <2> QED
      BY <1>1, <1>2, <2>1, <2>3 DEF FieldsInv, FieldsShape, EventsTell, StoreTold
  <1>7. ASSUME NEW ready \in BOOLEAN, Fields!PlanCompletes(ready) PROVE FieldsInv'
    <2>1. row' \in IssueRows
      BY <1>1, <1>7, IssueTurns DEF Fields!PlanCompletes
    <2>2. PICK e, f : e = Fields!Updated(row') /\ f = Fields!TaskEvent
                      /\ wire' = wire \o <<e, f>>
      BY <1>7 DEF Fields!PlanCompletes
    <2>3. e \in FieldEvents /\ e.kind = "updated" /\ e.row = row'
      BY <1>3, <2>1, <2>2
    <2>4. f \in FieldEvents /\ f.kind # "updated"
      BY <1>1, <2>2, OthersTyped
    <2>5. wire \o <<e, f>> = Append(Append(wire, e), f)
      BY <1>1, <2>3, <2>4
    <2>6. PICK w : w = Append(wire, e) /\ wire' = Append(w, f)
      BY <2>2, <2>5
    <2>7. w \in Seq(FieldEvents) /\ LastTells(w, row') /\ UpdateComes(w)
      BY <1>1, <2>3, <2>6, UpdatePublished
    <2>8. wire' \in Seq(FieldEvents) /\ LastTells(wire', row') /\ UpdateComes(wire')
      BY <2>4, <2>6, <2>7, UpdatePublished
    <2> QED
      BY <1>1, <1>2, <2>1, <2>8 DEF FieldsInv, FieldsShape, EventsTell, StoreTold
  <1> QED  BY <1>4, <1>5, <1>6, <1>7

\* The server answers: what it applies it publishes.
LEMMA FieldsAnswered ==
  ASSUME FieldsInv, NEW n \in FSlots, Fields!Answer(n)
  PROVE  FieldsInv'
  <1>1. /\ FieldView(view) /\ FieldCalls(call) /\ store \in IssueRows /\ row \in IssueRows
        /\ wire \in Seq(FieldEvents)
    BY DEF FieldsInv, FieldsShape
  <1>2. UNCHANGED <<store, view, part3>>
    BY DEF Fields!Answer
  <1>3. PICK r : r = call[n]
    OBVIOUS
  <1>4. FieldCall(r)
    BY <1>1, <1>3 DEF FieldCalls
  <1>5. PICK now : now = Fields!Applied(r)
    OBVIOUS
  <1>6. now \in IssueRows
    <2>1. r.value \in Fields!Value
      BY <1>4 DEF FieldCall
    <2>2. [row EXCEPT !.fields[r.field] = r.value] \in IssueRows
      BY <1>1, <2>1, IssueTurns
    <2>3. [row EXCEPT !.stage = "building"] \in IssueRows /\ Fields!Gone \in IssueRows
      BY <1>1, IssueTurns DEF Fields!Gone
    <2> QED  BY <1>1, <1>5, <2>2, <2>3 DEF Fields!Applied
  <1>7. PICK q : /\ call' = [call EXCEPT ![n] = q]
                 /\ \/ /\ q.status = "ok" /\ Fields!Accepted(r)
                       /\ q = [r EXCEPT !.status = "ok", !.seen = q.seen]
                       /\ r.kind \in {"load", "confirm"} => q.seen = now
                       /\ r.kind \in {"update", "nothing"} => q.seen = r.seen
                    \/ q = [r EXCEPT !.status = "error"]
    <2>1. CASE call' = [call EXCEPT ![n].status = "error"]
      <3>1. call' = [call EXCEPT ![n] = [r EXCEPT !.status = "error"]]
        BY <1>1, <1>3, <2>1 DEF FieldCalls
      <3> QED  BY <3>1
    <2>2. CASE Fields!Accepted(r) /\ call' # [call EXCEPT ![n].status = "error"]
      <3>1. PICK s : /\ r.kind \in {"load", "confirm"} => s = now
                     /\ r.kind \in {"update", "nothing"} => s = r.seen
                     /\ call' = [call EXCEPT ![n] = [r EXCEPT !.status = "ok", !.seen = s]]
        <4>1. PICK s : /\ s = (CASE r.kind = "runs" -> part2
                                 [] r.kind \in {"load", "confirm"} -> now
                                 [] OTHER -> r.seen)
          OBVIOUS
        <4>2. call' = [call EXCEPT ![n].status = "ok", ![n].seen = s]
          BY <1>3, <1>5, <2>2, <4>1 DEF Fields!Answer
        <4>3. call' = [call EXCEPT ![n] = [r EXCEPT !.status = "ok", !.seen = s]]
          BY <1>1, <1>3, <4>2 DEF FieldCalls
        <4>4. /\ r.kind \in {"load", "confirm"} => s = now
              /\ r.kind \in {"update", "nothing"} => s = r.seen
          BY <4>1
        <4> QED  BY <4>3, <4>4
      <3>2. PICK q : q = [r EXCEPT !.status = "ok", !.seen = s]
        OBVIOUS
      <3>3. q.status = "ok" /\ q.seen = s
        BY <1>4, <3>2 DEF FieldCall
      <3> QED  BY <2>2, <3>1, <3>2, <3>3
    <2> QED  BY <1>3, <1>5, <2>1, <2>2 DEF Fields!Answer
  <1>8. /\ q = [kind |-> r.kind, status |-> q.status, field |-> r.field, value |-> r.value,
                seen |-> q.seen, mine |-> r.mine]
        /\ q.kind = r.kind /\ q.value = r.value /\ q.status \in {"ok", "error"}
        /\ q.status = "error" => q.seen = r.seen
    BY <1>4, <1>7 DEF FieldCall
  <1>9. FieldCall(q)
    BY <1>4, <1>6, <1>7, <1>8 DEF FieldCall, Carries
  <1>10. /\ FieldCalls(call')
         /\ Writes(q) => Ahead(call')
         /\ Ahead(call) /\ ~Writes(r) => Ahead(call')
    BY <1>1, <1>3, <1>7, <1>9, CallTurns
  <1>11. CASE UNCHANGED <<row, wire>> /\ (q.status = "error" \/ r.kind \notin {"update", "nothing"})
    <2>1. Ahead(call) => Ahead(call')
      BY <1>8, <1>10, <1>11 DEF Writes
    <2> QED  BY <1>1, <1>2, <1>10, <1>11, <2>1, ServerRests
  <1>12. CASE row' = now /\ Fields!Publish([Fields!Updated(now) EXCEPT !.own = TRUE])
    <2>1. PICK e : e = [Fields!Updated(now) EXCEPT !.own = TRUE]
      OBVIOUS
    <2>2. e \in FieldEvents /\ e.kind = "updated" /\ e.row = row' /\ wire' = Append(wire, e)
      BY <1>6, <1>12, <2>1, EventsTyped DEF Fields!Publish
    <2> QED  BY <1>1, <1>2, <1>10, <2>2, RowPublished
  <1>13. CASE /\ r.kind = "delete" /\ row' = now
              /\ Fields!Publish([Fields!TaskEvent EXCEPT !.kind = "deleted"])
    <2>1. row' \in IssueRows /\ ~row'.present
      BY <1>1, <1>5, <1>6, <1>13 DEF Fields!Applied, Fields!Gone, IssueRows
    <2>2. [Fields!TaskEvent EXCEPT !.kind = "deleted"] \in FieldEvents
      BY <1>1, OthersTyped
    <2>3. wire' \in Seq(FieldEvents)
      BY <1>1, <1>13, <2>2, UpdatePublished DEF Fields!Publish
    <2> QED
      BY <1>1, <1>2, <1>10, <2>1, <2>3 DEF FieldsInv, FieldsShape, EventsTell, StoreTold
  <1>14. CASE r.kind \notin {"update", "nothing", "confirm", "delete"} /\ row' = now /\ wire' = wire
    <2>1. row' = row
      BY <1>5, <1>14 DEF Fields!Applied
    <2> QED  BY <1>11, <1>14, <2>1
  <1>15. UNCHANGED <<row, wire>> => q.status = "error" \/ r.kind \notin {"update", "nothing"}
    <2> SUFFICES ASSUME wire' = wire, row' = row, r.kind \in {"update", "nothing"}
                 PROVE  q.status = "error"
      OBVIOUS
    <2>1. CASE call' = [call EXCEPT ![n].status = "error"]
      BY <1>1, <1>3, <1>4, <1>7, <2>1, CallTurns DEF FieldCalls, FieldCall
    <2>2. CASE call' # [call EXCEPT ![n].status = "error"]
      <3>1. wire' = Append(wire, [Fields!Updated(now) EXCEPT !.own = TRUE])
        BY <1>3, <1>5, <2>2 DEF Fields!Answer, Fields!Publish
      <3>2. [Fields!Updated(now) EXCEPT !.own = TRUE] \in FieldEvents
        BY <1>6, EventsTyped
      <3>3. Len(wire') = Len(wire) + 1 /\ Len(wire) \in Nat
        BY <1>1, <3>1, <3>2
      <3> QED  BY <3>3
    <2> QED  BY <2>1, <2>2
  <1> QED
    BY <1>3, <1>5, <1>11, <1>12, <1>13, <1>14, <1>15 DEF Fields!Answer

\* The page fetches an issue that the store has lost.
LEMMA FieldsRendered ==
  ASSUME NEW st, NEW v, NEW c, FieldView(v), FieldCalls(c), Fields!Render(st, v, c)
  PROVE  store' = st /\ FieldView(view') /\ FieldCalls(call')
  <1>1. store' = st
    BY DEF Fields!Render
  <1>2. FieldView(view')
    BY DEF Fields!Render, FieldView
  <1>3. CASE call' = c
    BY <1>1, <1>2, <1>3
  <1>4. CASE \E n \in Fields!Free(c) : call' = [c EXCEPT ![n] = Fields!Request("load")]
    <2>1. PICK n \in FSlots : call' = [c EXCEPT ![n] = Fields!Request("load")]
      BY <1>4 DEF Fields!Free, FSlots
    <2>2. FieldCall(Fields!Request("load"))
      BY FieldRequest
    <2> QED  BY <1>1, <1>2, <2>1, <2>2, CallTurns
  <1>5. call' = c \/ \E n \in Fields!Free(c) : call' = [c EXCEPT ![n] = Fields!Request("load")]
    BY DEF Fields!Render
  <1> QED  BY <1>1, <1>2, <1>3, <1>4, <1>5

\* Answers that free their slot and leave the store alone, and those that compare it.
LEMMA FieldsReceived ==
  ASSUME FieldsInv, NEW n \in FSlots,
         \/ Fields!Loaded(n) \/ Fields!LoadFailed(n) \/ Fields!Kept(n) \/ Fields!RolledBack(n)
         \/ Fields!RunsArrive(n) \/ Fields!Confirmed(n) \/ Fields!Deleted(n)
         \/ Fields!DeleteFailed(n)
  PROVE  FieldsInv'
  <1>1. /\ FieldView(view) /\ FieldCalls(call) /\ store \in IssueRows
        /\ FieldCall(call[n])
    BY DEF FieldsInv, FieldsShape, FieldCalls
  <1>2. UNCHANGED <<row, wire>>
    BY DEF Fields!Loaded, Fields!LoadFailed, Fields!Kept, Fields!RolledBack,
       Fields!RunsArrive, Fields!Confirmed, Fields!Deleted, Fields!DeleteFailed
  <1>3. /\ FieldCalls(Fields!Freed(n))
        /\ Ahead(call) /\ ~Writes(call[n]) => Ahead(Fields!Freed(n))
    BY <1>1, FieldRequest, CallTurns DEF Fields!Freed
  <1>4. ASSUME Fields!Compared PROVE store'.present /\ ~part3' => store' = row
    BY <1>4 DEF Fields!Compared
  <1>5. ASSUME Fields!Loaded(n) PROVE FieldsInv'
    <2>1. PICK st, v : /\ st = (IF store.present THEN store ELSE call[n].seen)
                       /\ v = [view EXCEPT !.loading = FALSE]
                       /\ Fields!Render(st, v, Fields!Freed(n)) /\ Fields!Compared
                       /\ call[n].kind = "load" /\ call[n].status = "ok"
      BY <1>5 DEF Fields!Loaded, Fields!Ended
    <2>2. st \in IssueRows
      BY <1>1, <2>1 DEF FieldCall, Carries
    <2>3. FieldView(v)
      BY <1>1, <2>1 DEF FieldView
    <2>4. store' = st /\ FieldView(view') /\ FieldCalls(call')
      BY <1>3, <2>1, <2>3, FieldsRendered
    <2>5. store'.present /\ ~part3' => store' = row
      BY <1>4, <2>1
    <2> QED  BY <1>2, <2>2, <2>4, <2>5, ServerRests
  <1>6. ASSUME Fields!RolledBack(n) PROVE FieldsInv'
    <2>1. /\ store' = (IF store.present THEN call[n].seen ELSE store)
          /\ call' = Fields!Freed(n) /\ Fields!Compared /\ view' = view
          /\ call[n].kind \in {"update", "nothing"}
      BY <1>6 DEF Fields!RolledBack, Fields!Ended
    <2>2. store' \in IssueRows
      BY <1>1, <2>1 DEF FieldCall, Carries
    <2>3. store'.present /\ ~part3' => store' = row
      BY <1>4, <2>1
    <2> QED  BY <1>1, <1>2, <1>3, <2>1, <2>2, <2>3, ServerRests
  <1>7. ASSUME Fields!Confirmed(n) PROVE FieldsInv'
    <2>1. /\ store' = (IF store.present /\ call[n].status = "ok" THEN call[n].seen ELSE store)
          /\ Fields!Compared /\ view' = [view EXCEPT !.confirming = FALSE]
          /\ call[n].kind = "confirm"
      BY <1>7 DEF Fields!Confirmed, Fields!Ended
    <2>2. store' \in IssueRows
      BY <1>1, <2>1 DEF FieldCall, Carries
    <2>3. FieldView(view')
      BY <1>1, <2>1 DEF FieldView
    <2>4. store'.present /\ ~part3' => store' = row
      BY <1>4, <2>1
    <2>5. PICK r : r \in {Fields!Request("runs"), Fields!Idle} /\ call' = [call EXCEPT ![n] = r]
      BY <1>7 DEF Fields!Confirmed
    <2>6. FieldCall(r)
      BY <2>5, FieldRequest
    <2>7. FieldCalls(call')
      BY <1>1, <2>5, <2>6, CallTurns
    <2> QED  BY <1>2, <2>2, <2>3, <2>4, <2>7, ServerRests
  <1>8. ASSUME Fields!Deleted(n) PROVE FieldsInv'
    <2>1. store' \in IssueRows /\ ~store'.present
      BY <1>1, <1>8 DEF Fields!Deleted, IssueRows
    <2>2. FieldView(view')
      BY <1>1, <1>8 DEF Fields!Deleted, FieldView
    <2>3. call' = Fields!Freed(n)
      BY <1>8 DEF Fields!Deleted
    <2> QED  BY <1>2, <1>3, <2>1, <2>2, <2>3, ServerRests
  <1>9. ASSUME Fields!LoadFailed(n) \/ Fields!Kept(n) \/ Fields!RunsArrive(n)
               \/ Fields!DeleteFailed(n)
        PROVE  FieldsInv'
    <2>1. UNCHANGED <<store, part3>> /\ call' = Fields!Freed(n)
      BY <1>9 DEF Fields!LoadFailed, Fields!Kept, Fields!RunsArrive, Fields!DeleteFailed
    <2>2. ~Writes(call[n])
      BY <1>9 DEF Fields!LoadFailed, Fields!Kept, Fields!RunsArrive, Fields!DeleteFailed,
         Fields!Ended, Writes
    <2>3. FieldView(view')
      <3>1. ASSUME Fields!LoadFailed(n) PROVE FieldView(view')
        BY <1>1, <3>1 DEF Fields!LoadFailed, FieldView
      <3>2. ASSUME Fields!DeleteFailed(n) PROVE FieldView(view')
        BY <1>1, <3>2 DEF Fields!DeleteFailed, FieldView
      <3>3. ASSUME Fields!Kept(n) \/ Fields!RunsArrive(n) PROVE FieldView(view')
        BY <1>1, <3>3 DEF Fields!Kept, Fields!RunsArrive
      <3> QED  BY <1>9, <3>1, <3>2, <3>3
    <2> QED  BY <1>1, <1>2, <1>3, <2>1, <2>2, <2>3, ServerRests
  <1> QED  BY <1>5, <1>6, <1>7, <1>8, <1>9

\* An event is delivered: an update leaves the store with a row that a later one replaces,
\* or with the row of the server.
LEMMA FieldsDelivered ==
  ASSUME FieldsInv, Fields!Deliver
  PROVE  FieldsInv'
  <1>1. /\ FieldView(view) /\ FieldCalls(call) /\ store \in IssueRows /\ row \in IssueRows
        /\ wire \in Seq(FieldEvents)
    BY DEF FieldsInv, FieldsShape
  <1>2. wire # <<>> /\ wire' = Tail(wire) /\ UNCHANGED <<row, part3>>
    BY DEF Fields!Deliver
  <1>3. PICK e : e = Head(wire)
    OBVIOUS
  <1>4. /\ wire' \in Seq(FieldEvents) /\ e \in FieldEvents
        /\ EventsTell'
        /\ row.present /\ e.kind = "updated" => UpdateComes(wire') \/ e.row = row
        /\ e.kind # "updated" /\ UpdateComes(wire) => UpdateComes(wire')
    <2>1. wire' \in Seq(FieldEvents) /\ e \in FieldEvents
      BY <1>1, <1>2, <1>3, HeadTailProperties, EmptySeq
    <2>2. /\ row.present => LastTells(wire', row)
          /\ row.present /\ e.kind = "updated" => UpdateComes(wire') \/ e.row = row
      BY <1>1, <1>2, <1>3, UpdateDelivered DEF FieldsInv, EventsTell
    <2>3. e.kind # "updated" /\ UpdateComes(wire) => UpdateComes(wire')
      BY <1>1, <1>2, <1>3, UpdateSkipped
    <2> QED  BY <1>2, <2>1, <2>2, <2>3 DEF EventsTell
  <1>5. CASE e.kind = "updated"
    <2>1. store' = Fields!Heard(e) /\ UNCHANGED <<view, call>>
      BY <1>3, <1>5 DEF Fields!Deliver
    <2>2. e.row \in IssueRows
      BY <1>4 DEF FieldEvents
    <2>3. store' \in IssueRows /\ (store'.present => store' = e.row)
      BY <1>1, <2>1, <2>2 DEF Fields!Heard
    <2> QED
      BY <1>1, <1>2, <1>4, <1>5, <2>1, <2>3 DEF FieldsInv, FieldsShape, StoreTold
  <1>6. CASE e.kind = "deleted"
    <2>1. PICK st : st = [store EXCEPT !.present = FALSE] /\ Fields!Render(st, view, call)
      BY <1>3, <1>6 DEF Fields!Deliver
    <2>2. st \in IssueRows /\ ~st.present
      BY <1>1, <2>1 DEF IssueRows
    <2>3. store' = st /\ FieldView(view') /\ FieldCalls(call')
      BY <1>1, <2>1, FieldsRendered
    <2> QED
      BY <1>1, <1>2, <1>4, <2>2, <2>3 DEF FieldsInv, FieldsShape, StoreTold
  <1>7. CASE e.kind = "task"
    <2>1. UNCHANGED <<store, view>>
          /\ (call' = call \/ \E n \in FSlots : Fields!Send(n, Fields!Request("runs")))
      BY <1>3, <1>7 DEF Fields!Deliver, FSlots
    <2>2. FieldCalls(call') /\ (Ahead(call) => Ahead(call'))
      BY <1>1, <2>1, FieldRequest, CallSent
    <2> QED
      BY <1>1, <1>2, <1>4, <1>7, <2>1, <2>2 DEF FieldsInv, FieldsShape, StoreTold
  <1>8. e.kind \in {"updated", "deleted", "task"}
    BY <1>4 DEF FieldEvents
  <1> QED  BY <1>5, <1>6, <1>7, <1>8

\* What WebPagesProofs takes from the fields.
LEMMA FieldsSafe ==
  /\ FieldsMounted => FieldsInv
  /\ FieldsInv /\ (Fields!Next \/ UNCHANGED pageVars) => FieldsInv'
  /\ FieldsInv => Fields!FieldsConverge
  <1>1. ASSUME FieldsMounted PROVE FieldsInv
    <2>1. /\ row \in IssueRows /\ store \in IssueRows /\ (store.present => store = row)
          /\ wire = <<>>
      <3>1. row \in IssueRows
        <4>1. PICK s : /\ s \in {"planning", "plan_ready", "building"}
                       /\ row = [present |-> TRUE, stage |-> s,
                                 fields |-> [f \in Fields!Field |-> 0]]
          BY <1>1 DEF FieldsMounted, Fields!Init
        <4>2. [f \in Fields!Field |-> 0] \in [Fields!Field -> Fields!Value]
          BY DEF Fields!Value
        <4> QED  BY <4>1, <4>2 DEF IssueRows
      <3>2. PICK held \in BOOLEAN : store = [row EXCEPT !.present = held]
        BY <1>1 DEF FieldsMounted, Fields!Init
      <3>3. row.present = TRUE /\ wire = <<>>
        BY <1>1 DEF FieldsMounted, Fields!Init
      <3>4. store.present => store = row
        BY <3>1, <3>2, <3>3 DEF IssueRows
      <3> QED  BY <3>1, <3>2, <3>3, <3>4, IssueTurns
    <2>2. FieldView(view)
      BY <1>1 DEF FieldsMounted, Fields!Init, FieldView, Fields!Value
    <2>3. FieldCalls(call)
      <3>1. /\ FieldCall(Fields!Request("runs")) /\ FieldCall(Fields!Request("load"))
            /\ FieldCall(Fields!Idle)
        BY FieldRequest
      <3>2. call = [n \in FSlots |-> call[n]]
        BY <1>1 DEF FieldsMounted, Fields!Init, FSlots
      <3>3. ASSUME NEW n \in FSlots
            PROVE  call[n] \in {Fields!Request("runs"), Fields!Request("load"), Fields!Idle}
        BY <1>1 DEF FieldsMounted, Fields!Init, FSlots
      <3> QED  BY <3>1, <3>2, <3>3 DEF FieldCalls
    <2>4. wire \in Seq(FieldEvents) /\ LastTells(wire, row)
      BY <2>1, EmptySeq DEF LastTells
    <2> QED
      BY <2>1, <2>2, <2>3, <2>4 DEF FieldsInv, FieldsShape, EventsTell, StoreTold
  <1>2. ASSUME FieldsInv, Fields!Next PROVE FieldsInv'
    BY <1>2, PageClicks, FieldsWritten, FieldsAsked, OthersTell, FieldsAnswered,
       FieldsReceived, FieldsDelivered DEF Fields!Next, FSlots
  <1>3. ASSUME FieldsInv, UNCHANGED pageVars PROVE FieldsInv'
    BY <1>3 DEF pageVars, FieldsInv, FieldsShape, EventsTell, StoreTold
  <1>4. ASSUME FieldsInv PROVE Fields!FieldsConverge
    <2> SUFFICES ASSUME Fields!Quiet PROVE ~UpdateComes(wire) /\ ~Ahead(call)
      BY <1>4 DEF FieldsInv, StoreTold, Fields!FieldsConverge
    <2> QED  BY EmptySeq DEF Fields!Quiet, UpdateComes, Ahead, Writes, FSlots
  <1> QED  BY <1>1, <1>2, <1>3, <1>4

-----------------------------------------------------------------------------
(* The pages of the ideas: in part1, the page that is open; in view, the   *)
(* editor; in row, the idea; in part4, the file and who committed it.      *)

PSlots == Slots["ideas"]

IdeaCall(r) ==
    r = [kind |-> r.kind, status |-> r.status, old |-> r.old, text |-> r.text,
         base |-> r.base, sha |-> r.sha, issues |-> r.issues, repo |-> r.repo,
         rest |-> r.rest, again |-> r.again]

Editor(e) ==
    e = [loading |-> e.loading, there |-> e.there, draft |-> e.draft, synced |-> e.synced,
         sha |-> e.sha, save |-> e.save, timer |-> e.timer, queued |-> e.queued,
         repo |-> e.repo, retrying |-> e.retrying, dialog |-> e.dialog,
         deleting |-> e.deleting]

IdeaCalls(c) == c = [n \in PSlots |-> c[n]] /\ \A n \in PSlots : IdeaCall(c[n])

IdeasShape == IdeaCalls(call) /\ Editor(view)

\* The save and the load of the editor that is open.
LiveSave(r) == r.kind = "save" /\ ~r.old
LiveLoad(r) == r.kind = "edit" /\ ~r.old
NoSave(c) == \A n \in PSlots : ~LiveSave(c[n])

\* The file is what this editor knows, or another has replaced it.
Committed(f, t) == f.text = t \/ f.by = "other"
Answered(r, f) == r.status = "ok" => Committed(f, r.text)

\* There is one save, of an editor that has its idea; one load, of an editor that has not.
OneSave(c, e, f) ==
    \A n \in PSlots : LiveSave(c[n]) =>
        e.there /\ Answered(c[n], f) /\ \A m \in PSlots \ {n} : ~LiveSave(c[m])
OneLoad(c, e, f) ==
    \A n \in PSlots : LiveLoad(c[n]) =>
        ~e.there /\ Answered(c[n], f) /\ \A m \in PSlots \ {n} : ~LiveLoad(c[m])

\* What an editor without a save under way says of its draft.
Tells(e, f) ==
    /\ e.draft = e.synced => e.save \in {"dirty", "error"} \/ Committed(f, e.draft)
    /\ e.draft # e.synced => e.save = "error" \/ (e.timer /\ e.save = "dirty")

IdeasInv ==
    /\ IdeasShape
    /\ view.timer => view.there
    /\ OneSave(call, view, part4) /\ OneLoad(call, view, part4)
    /\ view.there /\ NoSave(call) => Tells(view, part4)

\* A field of a call, and of the editor, may be anything.
LEMMA IdeaCallField ==
  ASSUME NEW r, IdeaCall(r), NEW v
  PROVE  /\ \A q : q = [r EXCEPT !.status = v] =>
              IdeaCall(q) /\ q.kind = r.kind /\ q.old = r.old /\ q.text = r.text /\ q.status = v
                 /\ q.rest = r.rest /\ q.base = r.base
         /\ \A q : q = [r EXCEPT !.text = v] =>
              IdeaCall(q) /\ q.kind = r.kind /\ q.old = r.old /\ q.status = r.status /\ q.text = v
         /\ \A q : q = [r EXCEPT !.base = v] \/ q = [r EXCEPT !.sha = v]
                   \/ q = [r EXCEPT !.issues = v] \/ q = [r EXCEPT !.repo = v]
                   \/ q = [r EXCEPT !.rest = v] \/ q = [r EXCEPT !.again = v] =>
              IdeaCall(q) /\ q.kind = r.kind /\ q.old = r.old /\ q.status = r.status
                 /\ q.text = r.text
         /\ \A q : q = [r EXCEPT !.old = v] =>
              IdeaCall(q) /\ q.kind = r.kind /\ q.old = v /\ q.status = r.status
                 /\ q.text = r.text
  <1>1. ASSUME NEW q, q = [r EXCEPT !.status = v]
        PROVE  IdeaCall(q) /\ q.kind = r.kind /\ q.old = r.old /\ q.text = r.text /\ q.status = v
               /\ q.rest = r.rest /\ q.base = r.base
    BY <1>1 DEF IdeaCall
  <1>2. ASSUME NEW q, q = [r EXCEPT !.text = v]
        PROVE  IdeaCall(q) /\ q.kind = r.kind /\ q.old = r.old /\ q.status = r.status /\ q.text = v
    BY <1>2 DEF IdeaCall
  <1>3. ASSUME NEW q, q = [r EXCEPT !.base = v] \/ q = [r EXCEPT !.sha = v]
                      \/ q = [r EXCEPT !.issues = v]
        PROVE  IdeaCall(q) /\ q.kind = r.kind /\ q.old = r.old /\ q.status = r.status
               /\ q.text = r.text
    BY <1>3 DEF IdeaCall
  <1>4. ASSUME NEW q, q = [r EXCEPT !.repo = v]
                      \/ q = [r EXCEPT !.rest = v] \/ q = [r EXCEPT !.again = v]
        PROVE  IdeaCall(q) /\ q.kind = r.kind /\ q.old = r.old /\ q.status = r.status
               /\ q.text = r.text
    BY <1>4 DEF IdeaCall
  <1>5. ASSUME NEW q, q = [r EXCEPT !.old = v]
        PROVE  IdeaCall(q) /\ q.kind = r.kind /\ q.old = v /\ q.status = r.status
               /\ q.text = r.text
    BY <1>5 DEF IdeaCall
  <1> QED  BY <1>1, <1>2, <1>3, <1>4, <1>5

\* The parts of the editor that the argument looks at.
SameText(q, e) == /\ q.there = e.there /\ q.draft = e.draft /\ q.synced = e.synced
                  /\ q.save = e.save /\ q.timer = e.timer

LEMMA EditorField ==
  ASSUME NEW e, Editor(e), NEW v
  PROVE  /\ \A q : q = [e EXCEPT !.loading = v] \/ q = [e EXCEPT !.retrying = v]
                   \/ q = [e EXCEPT !.dialog = v] \/ q = [e EXCEPT !.deleting = v]
                   \/ q = [e EXCEPT !.queued = v] \/ q = [e EXCEPT !.repo = v]
                   \/ q = [e EXCEPT !.sha = v] =>
              Editor(q) /\ SameText(q, e)
         /\ \A q : q = [e EXCEPT !.timer = v] =>
              Editor(q) /\ q.there = e.there /\ q.draft = e.draft /\ q.synced = e.synced
                 /\ q.save = e.save /\ q.timer = v
         /\ \A q : q = [e EXCEPT !.save = v] =>
              Editor(q) /\ q.there = e.there /\ q.draft = e.draft /\ q.synced = e.synced
                 /\ q.save = v /\ q.timer = e.timer
         /\ \A q : q = [e EXCEPT !.draft = v] =>
              Editor(q) /\ q.there = e.there /\ q.draft = v /\ q.synced = e.synced
                 /\ q.save = e.save /\ q.timer = e.timer
         /\ \A q : q = [e EXCEPT !.synced = v] =>
              Editor(q) /\ q.there = e.there /\ q.draft = e.draft /\ q.synced = v
                 /\ q.save = e.save /\ q.timer = e.timer
  <1>1. ASSUME NEW q, q = [e EXCEPT !.loading = v] \/ q = [e EXCEPT !.retrying = v]
                      \/ q = [e EXCEPT !.dialog = v]
        PROVE  Editor(q) /\ SameText(q, e)
    BY <1>1 DEF Editor, SameText
  <1>2. ASSUME NEW q, q = [e EXCEPT !.deleting = v] \/ q = [e EXCEPT !.queued = v]
        PROVE  Editor(q) /\ SameText(q, e)
    BY <1>2 DEF Editor, SameText
  <1>3. ASSUME NEW q, q = [e EXCEPT !.repo = v] \/ q = [e EXCEPT !.sha = v]
        PROVE  Editor(q) /\ SameText(q, e)
    BY <1>3 DEF Editor, SameText
  <1>4. ASSUME NEW q, q = [e EXCEPT !.timer = v]
        PROVE  Editor(q) /\ q.there = e.there /\ q.draft = e.draft /\ q.synced = e.synced
                 /\ q.save = e.save /\ q.timer = v
    BY <1>4 DEF Editor
  <1>5. ASSUME NEW q, q = [e EXCEPT !.save = v]
        PROVE  Editor(q) /\ q.there = e.there /\ q.draft = e.draft /\ q.synced = e.synced
                 /\ q.save = v /\ q.timer = e.timer
    BY <1>5 DEF Editor
  <1>6. ASSUME NEW q, q = [e EXCEPT !.draft = v]
        PROVE  Editor(q) /\ q.there = e.there /\ q.draft = v /\ q.synced = e.synced
                 /\ q.save = e.save /\ q.timer = e.timer
    BY <1>6 DEF Editor
  <1>7. ASSUME NEW q, q = [e EXCEPT !.synced = v]
        PROVE  Editor(q) /\ q.there = e.there /\ q.draft = e.draft /\ q.synced = v
                 /\ q.save = e.save /\ q.timer = e.timer
    BY <1>7 DEF Editor
  <1> QED  BY <1>1, <1>2, <1>3, <1>4, <1>5, <1>6, <1>7

\* The effect on the draft starts the timer, or stops it.
LEMMA EditorWaits ==
  ASSUME NEW e, Editor(e), NEW q, q = Ideas!Waiting(e), e.timer => e.there
  PROVE  /\ Editor(q) /\ q.there = e.there /\ q.draft = e.draft /\ q.synced = e.synced
         /\ q.timer => q.there
         /\ e.there /\ e.draft # e.synced => q.timer /\ q.save = "dirty"
         /\ e.draft = e.synced => q.save = e.save
  <1>1. CASE e.there /\ e.draft # e.synced
    <2>1. PICK c, d : c = "dirty" /\ d = TRUE
      OBVIOUS
    <2>2. q = [e EXCEPT !.save = c, !.timer = d]
      BY <1>1, <2>1 DEF Ideas!Waiting
    <2>3. Editor(q) /\ q.there = e.there /\ q.draft = e.draft /\ q.synced = e.synced
          /\ q.save = c /\ q.timer = d
      BY <2>2 DEF Editor
    <2> QED  BY <1>1, <2>1, <2>3
  <1>2. CASE ~(e.there /\ e.draft # e.synced)
    <2>1. PICK d : d = FALSE /\ q = [e EXCEPT !.timer = d]
      BY <1>2 DEF Ideas!Waiting
    <2> QED  BY <1>2, <2>1, EditorField
  <1> QED  BY <1>1, <1>2

\* What a page asks for.
LEMMA IdeaAsked ==
  ASSUME NEW k, NEW q, q = Ideas!Request(k)
  PROVE  IdeaCall(q) /\ q.kind = k /\ ~q.old /\ q.status = "sent"
  <1>1. PICK a, c : a = [Ideas!Idle EXCEPT !.kind = k] /\ c = "sent"
    OBVIOUS
  <1>2. a = [kind |-> k, status |-> "idle", old |-> FALSE, text |-> 0, base |-> 0,
             sha |-> 0, issues |-> {}, repo |-> "none", rest |-> 0, again |-> FALSE]
    BY <1>1 DEF Ideas!Idle
  <1>3. IdeaCall(a) /\ a.kind = k /\ ~a.old
    BY <1>2 DEF IdeaCall
  <1>4. q = [a EXCEPT !.status = c]
    BY <1>1 DEF Ideas!Request
  <1>5. IdeaCall(q) /\ q.kind = a.kind /\ q.old = a.old /\ q.status = c
    BY <1>3, <1>4, IdeaCallField
  <1> QED  BY <1>1, <1>3, <1>5

LEMMA IdeaIdle ==
  IdeaCall(Ideas!Idle) /\ Ideas!Idle.kind = "idle"
  BY DEF Ideas!Idle, IdeaCall

LEMMA SaveAsked ==
  ASSUME NEW e, NEW q, q = Ideas!SaveOf(e)
  PROVE  IdeaCall(q) /\ q.kind = "save" /\ ~q.old /\ q.status = "sent"
  <1>1. PICK a : a = Ideas!Request("save")
    OBVIOUS
  <1>2. IdeaCall(a) /\ a.kind = "save" /\ ~a.old /\ a.status = "sent"
    BY <1>1, IdeaAsked
  <1>3. q = [a EXCEPT !.text = e.draft, !.base = e.synced, !.sha = e.sha]
    BY <1>1 DEF Ideas!SaveOf
  <1>4. IdeaCall(q) /\ q.kind = a.kind /\ q.old = a.old /\ q.status = a.status
    BY <1>2, <1>3 DEF IdeaCall
  <1> QED  BY <1>2, <1>4

\* One call changes.
LEMMA IdeaCallTurns ==
  ASSUME IdeasShape, NEW n \in PSlots, NEW r, IdeaCall(r), call' = [call EXCEPT ![n] = r]
  PROVE  /\ IdeaCalls(call') /\ call'[n] = r
         /\ \A m \in PSlots \ {n} : call'[m] = call[m]
  BY DEF IdeasShape, IdeaCalls

\* The file stays, or another commits.
FileStays == part4' = part4 \/ part4'.by = "other"

\* The calls and the editor stay what they are for the text.
LEMMA IdeasStay ==
  ASSUME IdeasInv, IdeaCalls(call'), Editor(view'), FileStays,
         \A n \in PSlots :
            /\ LiveSave(call'[n]) <=> LiveSave(call[n])
            /\ LiveLoad(call'[n]) => LiveLoad(call[n])
            /\ LiveSave(call'[n]) \/ LiveLoad(call'[n]) => Answered(call'[n], part4'),
         view'.there = view.there, view'.timer => view'.there,
         view.there /\ NoSave(call) /\ Tells(view, part4) => Tells(view', part4')
  PROVE  IdeasInv'
  <1>1. IdeasShape'
    BY DEF IdeasShape
  <1>2. OneSave(call', view', part4')
    BY DEF IdeasInv, OneSave
  <1>3. OneLoad(call', view', part4')
    BY DEF IdeasInv, OneLoad
  <1>4. view'.there /\ NoSave(call') => Tells(view', part4')
    BY DEF IdeasInv, NoSave
  <1> QED  BY <1>1, <1>2, <1>3, <1>4 DEF IdeasInv

LEMMA TellsStays ==
  ASSUME FileStays
  PROVE  /\ \A t : Committed(part4, t) => Committed(part4', t)
         /\ Tells(view, part4) /\ SameText(view', view) => Tells(view', part4')
  BY DEF FileStays, Committed, Tells, SameText

\* Every call stays, and the text with them.
LEMMA IdeasAlone ==
  ASSUME IdeasInv, call' = call, Editor(view'), FileStays,
         view'.there = view.there, view'.timer => view'.there,
         view.there /\ NoSave(call) /\ Tells(view, part4) => Tells(view', part4')
  PROVE  IdeasInv'
  <1>1. \A n \in PSlots : LiveSave(call[n]) \/ LiveLoad(call[n]) => Answered(call[n], part4')
    BY TellsStays DEF IdeasInv, OneSave, OneLoad, Answered
  <1>2. IdeaCalls(call')
    BY DEF IdeasInv, IdeasShape
  <1> QED  BY <1>1, <1>2, IdeasStay

\* A call that is no save of the open editor changes into another.
LEMMA IdeasAside ==
  ASSUME IdeasInv, FileStays, NEW n \in PSlots, NEW r, IdeaCall(r),
         call' = [call EXCEPT ![n] = r],
         ~LiveSave(call[n]), ~LiveSave(r),
         LiveLoad(r) => LiveLoad(call[n]) /\ Answered(r, part4'),
         Editor(view'), view'.there = view.there, view'.timer => view'.there,
         view.there /\ NoSave(call) /\ Tells(view, part4) => Tells(view', part4')
  PROVE  IdeasInv'
  <1>1. /\ IdeaCalls(call') /\ call'[n] = r
        /\ \A m \in PSlots \ {n} : call'[m] = call[m]
    BY IdeaCallTurns DEF IdeasInv
  <1>2. \A m \in PSlots : LiveSave(call[m]) \/ LiveLoad(call[m]) => Answered(call[m], part4')
    BY TellsStays DEF IdeasInv, OneSave, OneLoad, Answered
  <1>3. \A m \in PSlots : /\ LiveSave(call'[m]) <=> LiveSave(call[m])
                          /\ LiveLoad(call'[m]) => LiveLoad(call[m])
                          /\ LiveSave(call'[m]) \/ LiveLoad(call'[m]) => Answered(call'[m], part4')
    BY <1>1, <1>2
  <1> QED  BY <1>1, <1>3, IdeasStay

\* Something else is asked for from a free slot, or an answer frees its slot.
LEMMA IdeasSend ==
  ASSUME IdeasInv, NEW n \in PSlots, NEW r, IdeaCall(r), Ideas!Send(n, r),
         r.kind \notin {"save", "edit"}, part4' = part4, Editor(view'), SameText(view', view)
  PROVE  IdeasInv'
  <1>1. call[n].kind = "idle" /\ call' = [call EXCEPT ![n] = r]
    BY DEF Ideas!Send, Ideas!Free, PSlots
  <1>2. ~LiveSave(call[n]) /\ ~LiveSave(r) /\ ~LiveLoad(r)
    BY <1>1 DEF LiveSave, LiveLoad
  <1>3. FileStays
    BY DEF FileStays
  <1>4. Tells(view, part4) => Tells(view', part4')
    BY <1>3, TellsStays
  <1>5. view'.there = view.there /\ (view'.timer => view'.there)
    BY DEF IdeasInv, SameText
  <1> QED  BY <1>1, <1>2, <1>3, <1>4, <1>5, IdeasAside

LEMMA IdeasFree ==
  ASSUME IdeasInv, NEW n \in PSlots, Ideas!Freed(n), ~LiveSave(call[n]), part4' = part4,
         Editor(view'), view'.there = view.there, view'.timer => view'.there,
         view.there /\ NoSave(call) /\ Tells(view, part4) => Tells(view', part4)
  PROVE  IdeasInv'
  <1>1. IdeaCall(Ideas!Idle) /\ ~LiveSave(Ideas!Idle) /\ ~LiveLoad(Ideas!Idle)
    BY IdeaIdle DEF LiveSave, LiveLoad
  <1>2. FileStays
    BY DEF FileStays
  <1>3. call' = [call EXCEPT ![n] = Ideas!Idle]
    BY DEF Ideas!Freed
  <1> QED  BY <1>1, <1>2, <1>3, IdeasAside

\* Another page is opened: what is under way is of a page that was left.
LEMMA IdeasOpened ==
  ASSUME IdeasInv, NEW n \in PSlots, NEW p \in {"list", "new", "edit"}, Ideas!Open(p, n),
         part4' = part4
  PROVE  IdeasInv'
  <1>1. IdeaCalls(call) /\ view' = Ideas!NoEd
    BY DEF IdeasInv, IdeasShape, Ideas!Open
  <1>2. Editor(view') /\ ~view'.there /\ ~view'.timer
    BY <1>1 DEF Ideas!NoEd, Editor
  <1>3. call' = [m \in PSlots |-> call'[m]]
    BY DEF Ideas!Open, PSlots
  <1>4. ASSUME NEW m \in PSlots, m # n
        PROVE  IdeaCall(call'[m]) /\ ~LiveSave(call'[m]) /\ ~LiveLoad(call'[m])
    <2>1. PICK r : r = call[m] /\ IdeaCall(r)
      BY <1>1 DEF IdeaCalls
    <2>2. CASE r.kind = "idle" \/ r.old
      <3>1. call'[m] = r
        BY <1>4, <2>1, <2>2 DEF Ideas!Open, PSlots
      <3> QED  BY <2>1, <2>2, <3>1 DEF LiveSave, LiveLoad
    <2>3. CASE ~(r.kind = "idle" \/ r.old)
      <3>1. PICK b, t, a : b = TRUE /\ t = view.draft /\ a = view.queued
        OBVIOUS
      <3>2. PICK q : q = [r EXCEPT !.old = b, !.rest = t, !.again = a]
        OBVIOUS
      <3>3. call'[m] = q
        BY <1>4, <2>1, <2>3, <3>1, <3>2 DEF Ideas!Open, PSlots
      <3>4. IdeaCall(q) /\ q.old = b
        BY <2>1, <3>2 DEF IdeaCall
      <3> QED  BY <3>1, <3>3, <3>4 DEF LiveSave, LiveLoad
    <2> QED  BY <2>2, <2>3
  <1>5. IdeaCall(call'[n]) /\ call'[n].kind = p /\ call'[n].status = "sent"
    <2>1. PICK q : q = Ideas!Request(p) /\ call'[n] = q
      BY DEF Ideas!Open, PSlots
    <2> QED  BY <2>1, IdeaAsked
  <1>6. ~LiveSave(call'[n]) /\ Answered(call'[n], part4')
    BY <1>5 DEF LiveSave, Answered
  <1>7. IdeasShape'
    BY <1>2, <1>3, <1>4, <1>5 DEF IdeasShape, IdeaCalls
  <1>8. OneSave(call', view', part4') /\ OneLoad(call', view', part4')
    BY <1>2, <1>4, <1>6 DEF OneSave, OneLoad
  <1> QED  BY <1>2, <1>7, <1>8 DEF IdeasInv

\* The list and the form change nothing of the editor.
LEMMA IdeasBrowsed ==
  ASSUME IdeasInv,
         \/ \E v \in {"hit", "miss"} : Ideas!Search(v)
         \/ \E t \in Text : Ideas!Describe(t)
         \/ \E v \in {"mine", "suggested"} : Ideas!ChooseName(v)
         \/ \E s \in {"ready", "failed"} : Ideas!RepoChanges(s)
         \/ Ideas!IssueComes \/ \E i \in Ideas!Issues : Ideas!IssueGoes(i)
         \/ \E t \in Text : Ideas!SomeoneCommits(t)
         \/ \E open \in BOOLEAN : Ideas!DeleteDialog(open)
  PROVE  IdeasInv'
  <1>1. call' = call /\ FileStays
    <2>1. ASSUME NEW v, Ideas!Search(v) \/ Ideas!Describe(v) \/ Ideas!ChooseName(v)
                        \/ Ideas!DeleteDialog(v)
          PROVE  call' = call /\ FileStays
      BY <2>1 DEF Ideas!Search, Ideas!Describe, Ideas!ChooseName, Ideas!DeleteDialog, FileStays
    <2>2. ASSUME NEW v, Ideas!RepoChanges(v) \/ Ideas!IssueComes \/ Ideas!IssueGoes(v)
          PROVE  call' = call /\ FileStays
      BY <2>2 DEF Ideas!RepoChanges, Ideas!IssueComes, Ideas!IssueGoes, FileStays
    <2>3. ASSUME NEW v, Ideas!SomeoneCommits(v) PROVE call' = call /\ FileStays
      BY <2>3 DEF Ideas!SomeoneCommits, FileStays
    <2> QED  BY <2>1, <2>2, <2>3
  <1>2. Editor(view)
    BY DEF IdeasInv, IdeasShape
  <1>3. view' = view \/ \E open \in BOOLEAN : view' = [view EXCEPT !.dialog = open]
    <2>1. ASSUME NEW open \in BOOLEAN, Ideas!DeleteDialog(open)
          PROVE  view' = [view EXCEPT !.dialog = open]
      BY <2>1 DEF Ideas!DeleteDialog
    <2>2. ASSUME NEW v, Ideas!Search(v) \/ Ideas!Describe(v) \/ Ideas!ChooseName(v)
          PROVE  view' = view
      BY <2>2 DEF Ideas!Search, Ideas!Describe, Ideas!ChooseName
    <2>3. ASSUME NEW v, Ideas!RepoChanges(v) \/ Ideas!IssueComes \/ Ideas!IssueGoes(v)
                        \/ Ideas!SomeoneCommits(v)
          PROVE  view' = view
      BY <2>3 DEF Ideas!RepoChanges, Ideas!IssueComes, Ideas!IssueGoes, Ideas!SomeoneCommits
    <2> QED  BY <2>1, <2>2, <2>3
  <1>4. Editor(view') /\ SameText(view', view)
    <2>1. CASE view' = view
      BY <1>2, <2>1 DEF SameText
    <2>2. CASE \E open \in BOOLEAN : view' = [view EXCEPT !.dialog = open]
      BY <1>2, <2>2, EditorField
    <2> QED  BY <1>3, <2>1, <2>2
  <1>5. Tells(view, part4) => Tells(view', part4')
    BY <1>1, <1>4, TellsStays
  <1>6. view'.there = view.there /\ (view'.timer => view'.there)
    BY <1>4 DEF IdeasInv, SameText
  <1> QED  BY <1>1, <1>4, <1>5, <1>6, IdeasAlone

\* What is asked for besides a save.
LEMMA IdeasAsk ==
  ASSUME IdeasInv, NEW n \in PSlots,
         Ideas!AskNames(n) \/ Ideas!Create(n) \/ Ideas!RetryRepo(n) \/ Ideas!ConfirmDelete(n)
  PROVE  IdeasInv'
  <1>1. Editor(view) /\ part4' = part4
    BY DEF IdeasInv, IdeasShape, Ideas!AskNames, Ideas!Create, Ideas!RetryRepo,
       Ideas!ConfirmDelete
  <1>2. Editor(view') /\ SameText(view', view)
    <2>1. CASE view' = view
      BY <1>1, <2>1 DEF SameText
    <2>2. CASE view' = [view EXCEPT !.retrying = TRUE] \/ view' = [view EXCEPT !.deleting = TRUE]
      BY <1>1, <2>2, EditorField
    <2> QED
      BY <2>1, <2>2 DEF Ideas!AskNames, Ideas!Create, Ideas!RetryRepo, Ideas!ConfirmDelete
  <1>3. PICK r : IdeaCall(r) /\ r.kind \notin {"save", "edit"} /\ Ideas!Send(n, r)
    <2>1. CASE Ideas!AskNames(n)
      <3>1. PICK a : a = Ideas!Request("names")
        OBVIOUS
      <3>2. IdeaCall(a) /\ a.kind = "names"
        BY <3>1, IdeaAsked
      <3>3. PICK t, b : Ideas!Send(n, [a EXCEPT !.text = t, !.base = b])
        BY <2>1, <3>1 DEF Ideas!AskNames
      <3>4. PICK q : q = [a EXCEPT !.text = t, !.base = b]
        OBVIOUS
      <3>5. IdeaCall(q) /\ q.kind = a.kind
        BY <3>2, <3>4 DEF IdeaCall
      <3> QED  BY <3>2, <3>3, <3>4, <3>5
    <2>2. CASE Ideas!Create(n) \/ Ideas!RetryRepo(n) \/ Ideas!ConfirmDelete(n)
      <3>1. PICK k : k \in {"create", "retry", "delete"} /\ Ideas!Send(n, Ideas!Request(k))
        BY <2>2 DEF Ideas!Create, Ideas!RetryRepo, Ideas!ConfirmDelete
      <3>2. PICK r : r = Ideas!Request(k)
        OBVIOUS
      <3>3. IdeaCall(r) /\ r.kind = k
        BY <3>2, IdeaAsked
      <3> QED  BY <3>1, <3>2, <3>3
    <2> QED  BY <2>1, <2>2
  <1> QED  BY <1>1, <1>2, <1>3, IdeasSend

\* The draft changes, and the timer with it.
LEMMA TypedTells ==
  ASSUME IdeasInv, NEW t \in Text, Ideas!TypeText(t)
  PROVE  IdeasInv'
  <1>1. /\ Editor(view) /\ call' = call /\ FileStays /\ view.there /\ view.draft # t
        /\ part4' = part4
    BY DEF IdeasInv, IdeasShape, Ideas!TypeText, FileStays, Ideas!Editing
  <1>2. PICK e : e = [view EXCEPT !.draft = t] /\ view' = Ideas!Waiting(e)
    BY DEF Ideas!TypeText
  <1>3. /\ Editor(e) /\ e.there = view.there /\ e.draft = t /\ e.synced = view.synced
        /\ e.save = view.save /\ e.timer = view.timer
    <2>1. Editor(view)
      BY <1>1
    <2> QED  BY <2>1, <1>2, EditorField
  <1>4. /\ Editor(view') /\ view'.there = e.there /\ view'.draft = e.draft
        /\ view'.synced = e.synced
        /\ view'.timer => view'.there
        /\ e.there /\ e.draft # e.synced => view'.timer /\ view'.save = "dirty"
        /\ e.draft = e.synced => view'.save = e.save
    <2>1. Editor(e) /\ (e.timer => e.there)
      BY <1>1, <1>3
    <2>2. PICK q : q = view' /\ q = Ideas!Waiting(e)
      BY <1>2
    <2>3. /\ Editor(q) /\ q.there = e.there /\ q.draft = e.draft /\ q.synced = e.synced
          /\ q.timer => q.there
          /\ e.there /\ e.draft # e.synced => q.timer /\ q.save = "dirty"
          /\ e.draft = e.synced => q.save = e.save
      BY ONLY <2>1, <2>2, EditorWaits
    <2> QED  BY <2>2, <2>3
  <1>5. Tells(view, part4) => Tells(view', part4')
    BY <1>1, <1>3, <1>4 DEF Tells
  <1> QED  BY <1>1, <1>3, <1>4, <1>5, IdeasAlone

\* A save begins, or waits for the one under way.
LEMMA SaveTells ==
  ASSUME IdeasInv, NEW n \in PSlots, Ideas!SaveTimer(n)
  PROVE  IdeasInv'
  <1>1. /\ IdeasShape /\ Editor(view) /\ part4' = part4 /\ view.there
        /\ Ideas!Saving <=> ~NoSave(call)
    BY DEF IdeasInv, IdeasShape, Ideas!SaveTimer, Ideas!Saving, NoSave, LiveSave, PSlots
  <1>2. PICK e, b : b = FALSE /\ e = [view EXCEPT !.timer = b]
    OBVIOUS
  <1>3. Editor(e) /\ e.there = view.there /\ e.timer = FALSE
    <2>1. Editor(view)
      BY <1>1
    <2>2. Editor(e) /\ e.there = view.there /\ e.timer = b
      BY <2>1, <1>2, EditorField
    <2> QED  BY <1>2, <2>2
  <1>4. CASE Ideas!Saving
    <2>1. view' = [e EXCEPT !.queued = TRUE] /\ call' = call
      BY <1>2, <1>4 DEF Ideas!SaveTimer
    <2>2. Editor(view') /\ SameText(view', e)
      BY <1>3, <2>1, EditorField
    <2>3. FileStays /\ ~NoSave(call)
      BY <1>1, <1>4 DEF FileStays
    <2> QED  BY <1>1, <1>3, <2>1, <2>2, <2>3, IdeasAlone DEF SameText
  <1>5. CASE ~Ideas!Saving
    <2>1. view' = [e EXCEPT !.save = "saving"] /\ Ideas!Send(n, Ideas!SaveOf(view))
      BY <1>2, <1>5 DEF Ideas!SaveTimer
    <2>2. Editor(view') /\ view'.there = e.there /\ view'.timer = e.timer
      BY <1>3, <2>1, EditorField
    <2>3. PICK r : r = Ideas!SaveOf(view) /\ call' = [call EXCEPT ![n] = r]
      BY <2>1 DEF Ideas!Send
    <2>4. IdeaCall(r) /\ LiveSave(r) /\ ~LiveLoad(r) /\ Answered(r, part4')
      BY <2>3, SaveAsked DEF LiveSave, LiveLoad, Answered
    <2>5. /\ IdeaCalls(call') /\ call'[n] = r
          /\ \A m \in PSlots \ {n} : call'[m] = call[m]
      BY <1>1, <2>3, <2>4, IdeaCallTurns
    <2>6. OneSave(call', view', part4')
      BY <1>1, <1>3, <1>5, <2>2, <2>4, <2>5 DEF OneSave, NoSave
    <2>7. OneLoad(call', view', part4')
      BY <1>1, <1>3, <2>2, <2>4, <2>5 DEF IdeasInv, OneLoad
    <2>8. ~NoSave(call')
      BY <2>4, <2>5 DEF NoSave
    <2> QED
      BY <1>1, <1>3, <2>2, <2>5, <2>6, <2>7, <2>8 DEF IdeasInv, IdeasShape
  <1> QED  BY <1>4, <1>5

\* A save has been answered, and the editor goes on from there: with a save of what it
\* holds now, or without one.
LEMMA SaveEnds ==
  ASSUME IdeasInv, NEW n \in PSlots, LiveSave(call[n]), part4' = part4,
         NEW r, IdeaCall(r), call' = [call EXCEPT ![n] = r],
         ~LiveLoad(r), LiveSave(r) => Answered(r, part4),
         Editor(view'), view'.there, ~LiveSave(r) => Tells(view', part4)
  PROVE  IdeasInv'
  <1>1. /\ IdeaCalls(call') /\ call'[n] = r
        /\ \A m \in PSlots \ {n} : call'[m] = call[m] /\ ~LiveSave(call[m])
        /\ \A m \in PSlots : ~LiveLoad(call[m])
    BY IdeaCallTurns DEF IdeasInv, OneSave, OneLoad
  <1>2. OneSave(call', view', part4')
    BY <1>1 DEF OneSave
  <1>3. OneLoad(call', view', part4')
    BY <1>1 DEF OneLoad
  <1>4. NoSave(call') => ~LiveSave(r)
    BY <1>1 DEF NoSave
  <1> QED  BY <1>1, <1>2, <1>3, <1>4 DEF IdeasInv, IdeasShape

\* What was saved is what the editor holds, or it goes on saving.
LEMMA SavedTells ==
  ASSUME IdeasInv, NEW n \in PSlots, Ideas!Saved(n)
  PROVE  IdeasInv'
  <1>1. /\ Editor(view) /\ LiveSave(call[n]) /\ part4' = part4 /\ view.there
        /\ Committed(part4, call[n].text)
    BY DEF IdeasInv, IdeasShape, Ideas!Saved, Ideas!Ended, LiveSave, OneSave, Answered
  <1>2. PICK v, s, c, b, e : /\ v = call[n].text /\ s = call[n].sha /\ c = "saved" /\ b = FALSE
                             /\ e = [view EXCEPT !.synced = v, !.sha = s, !.save = c, !.queued = b]
    OBVIOUS
  <1>3. /\ Editor(e) /\ e.there = view.there /\ e.draft = view.draft /\ e.synced = v
        /\ e.timer = view.timer
    <2>1. Editor(view)
      BY <1>1
    <2> QED  BY <2>1, <1>2 DEF Editor
  <1>4. PICK q : q = Ideas!Waiting(e) /\ view' = q
    BY <1>2 DEF Ideas!Saved
  <1>5. Editor(e) /\ (e.timer => e.there) /\ e.there
    BY <1>1, <1>3
  <1>6. /\ Editor(q) /\ q.there = e.there /\ q.draft = e.draft /\ q.synced = e.synced
        /\ e.there /\ e.draft # e.synced => q.timer /\ q.save = "dirty"
        /\ e.draft = e.synced => q.save = e.save
    BY ONLY <1>4, <1>5, EditorWaits
  <1>7. Tells(view', part4)
    BY <1>1, <1>2, <1>3, <1>4, <1>5, <1>6 DEF Tells
  <1>8. CASE view.draft = v
    <2>1. call' = [call EXCEPT ![n] = Ideas!Idle]
      BY <1>2, <1>8 DEF Ideas!Saved, Ideas!Freed
    <2>2. IdeaCall(Ideas!Idle) /\ ~LiveSave(Ideas!Idle) /\ ~LiveLoad(Ideas!Idle)
      BY IdeaIdle DEF LiveSave, LiveLoad
    <2> QED  BY <1>1, <1>4, <1>5, <1>6, <1>7, <2>1, <2>2, SaveEnds
  <1>9. CASE view.draft # v
    <2>1. PICK r : r = Ideas!SaveOf(Ideas!Waiting(e)) /\ call' = [call EXCEPT ![n] = r]
      BY <1>2, <1>9 DEF Ideas!Saved
    <2>2. IdeaCall(r) /\ ~LiveLoad(r) /\ Answered(r, part4)
      BY <2>1, SaveAsked DEF LiveLoad, Answered
    <2> QED  BY <1>1, <1>4, <1>5, <1>6, <1>7, <2>1, <2>2, SaveEnds
  <1> QED  BY <1>8, <1>9

\* A save that failed is told, or tried again.
LEMMA FailedTells ==
  ASSUME IdeasInv, NEW n \in PSlots, Ideas!SaveFailed(n)
  PROVE  IdeasInv'
  <1>1. Editor(view) /\ LiveSave(call[n]) /\ part4' = part4 /\ view.there
    BY DEF IdeasInv, IdeasShape, Ideas!SaveFailed, Ideas!Ended, LiveSave, OneSave
  <1>2. PICK c, b : /\ b = FALSE /\ view' = [view EXCEPT !.save = c, !.queued = b]
                    /\ \/ /\ call' = [call EXCEPT ![n] = Ideas!Idle] /\ c = "error"
                       \/ call' = [call EXCEPT ![n] = Ideas!SaveOf(view)]
    <2>1. CASE view.queued /\ view.draft # view.synced
      BY <2>1 DEF Ideas!SaveFailed
    <2>2. CASE ~(view.queued /\ view.draft # view.synced)
      BY <2>2 DEF Ideas!SaveFailed, Ideas!Freed
    <2> QED  BY <2>1, <2>2
  <1>3. Editor(view') /\ view'.there = view.there /\ view'.save = c
    <2>1. Editor(view)
      BY <1>1
    <2> QED  BY <2>1, <1>2 DEF Editor
  <1>4. CASE call' = [call EXCEPT ![n] = Ideas!Idle] /\ c = "error"
    <2>1. IdeaCall(Ideas!Idle) /\ ~LiveSave(Ideas!Idle) /\ ~LiveLoad(Ideas!Idle)
      BY IdeaIdle DEF LiveSave, LiveLoad
    <2>2. Tells(view', part4)
      BY <1>3, <1>4 DEF Tells
    <2> QED  BY <1>1, <1>3, <1>4, <2>1, <2>2, SaveEnds
  <1>5. CASE call' = [call EXCEPT ![n] = Ideas!SaveOf(view)]
    <2>1. PICK r : r = Ideas!SaveOf(view) /\ call' = [call EXCEPT ![n] = r]
      BY <1>5
    <2>2. IdeaCall(r) /\ LiveSave(r) /\ ~LiveLoad(r) /\ Answered(r, part4)
      BY <2>1, SaveAsked DEF LiveSave, LiveLoad, Answered
    <2> QED  BY <1>1, <1>3, <2>1, <2>2, SaveEnds
  <1> QED  BY <1>2, <1>4, <1>5

\* A save of an editor that was left concerns no other.
LEMMA AwayTells ==
  ASSUME IdeasInv, NEW n \in PSlots, Ideas!SavedAway(n)
  PROVE  IdeasInv'
  <1>1. /\ IdeaCall(call[n]) /\ Editor(view) /\ call[n].old /\ view' = view /\ part4' = part4
    BY DEF IdeasInv, IdeasShape, IdeaCalls, Ideas!SavedAway
  <1>2. PICK p, c, t, b, more : /\ p = call[n] /\ c = "sent" /\ t = p.rest /\ b = FALSE
                                /\ more = [p EXCEPT !.status = c, !.text = t, !.again = b]
    OBVIOUS
  <1>3. IdeaCall(p) /\ p.old
    BY <1>1, <1>2
  <1>4. IdeaCall(more) /\ more.old = p.old
    BY <1>2, <1>3 DEF IdeaCall
  <1>5. \A q : q = [more EXCEPT !.base = p.text] => IdeaCall(q) /\ q.old = more.old
    BY <1>4, IdeaCallField
  <1>6. PICK r : /\ call' = [call EXCEPT ![n] = r]
                 /\ r \in {[more EXCEPT !.base = p.text], more, Ideas!Idle}
    BY <1>2 DEF Ideas!SavedAway, Ideas!Freed
  <1>7. IdeaCall(r) /\ ~LiveSave(r) /\ ~LiveLoad(r)
    BY <1>3, <1>4, <1>5, <1>6, IdeaIdle DEF LiveSave, LiveLoad
  <1>8. ~LiveSave(call[n]) /\ FileStays
    BY <1>1 DEF LiveSave, FileStays
  <1> QED  BY <1>1, <1>6, <1>7, <1>8, IdeasAside DEF IdeasInv

\* The file is loaded into an editor that had nothing yet.
LEMMA LoadedTells ==
  ASSUME IdeasInv, NEW n \in PSlots, Ideas!Loaded(n)
  PROVE  IdeasInv'
  <1>1. /\ Editor(view) /\ part4' = part4 /\ ~LiveSave(call[n]) /\ Ideas!Freed(n)
        /\ call[n].kind = "edit" /\ call[n].status \in {"ok", "error"}
    BY DEF IdeasInv, IdeasShape, Ideas!Loaded, Ideas!Ended, LiveSave
  <1>2. CASE call[n].old
    <2>1. view' = view
      BY <1>2 DEF Ideas!Loaded
    <2> QED  BY <1>1, <2>1, IdeasFree DEF IdeasInv
  <1>3. CASE ~call[n].old /\ call[n].status = "error"
    <2>1. view' = [view EXCEPT !.loading = FALSE]
      BY <1>3 DEF Ideas!Loaded
    <2>2. Editor(view') /\ SameText(view', view)
      BY <1>1, <2>1, EditorField
    <2>3. FileStays
      BY <1>1 DEF FileStays
    <2>4. /\ view'.there = view.there /\ (view'.timer => view'.there)
          /\ Tells(view, part4) => Tells(view', part4)
      BY <1>1, <2>2, <2>3, TellsStays DEF IdeasInv, SameText
    <2> QED  BY <1>1, <2>2, <2>4, IdeasFree
  <1>4. CASE LiveLoad(call[n]) /\ call[n].status = "ok"
    <2>1. /\ ~view.there /\ Committed(part4, call[n].text)
          /\ \A m \in PSlots \ {n} : ~LiveLoad(call[m])
      BY <1>4 DEF IdeasInv, OneLoad, Answered
    <2>2. \A m \in PSlots : ~LiveSave(call[m])
      BY <2>1 DEF IdeasInv, OneSave
    <2>3. PICK t, s, p : /\ t = call[n].text /\ s = call[n].sha /\ p = call[n].repo
                         /\ view' = [Ideas!NoEd EXCEPT !.loading = FALSE, !.there = TRUE,
                                        !.draft = t, !.synced = t, !.sha = s, !.save = "saved",
                                        !.repo = p]
      <3>1. ~call[n].old /\ ~(call[n].status = "error")
        BY <1>4 DEF LiveLoad
      <3>2. view' = [Ideas!NoEd EXCEPT !.loading = FALSE, !.there = TRUE,
                        !.draft = call[n].text, !.synced = call[n].text, !.sha = call[n].sha,
                        !.save = "saved", !.repo = call[n].repo]
        BY <3>1 DEF Ideas!Loaded
      <3> QED  BY <3>2
    <2>4. view' = [loading |-> FALSE, there |-> TRUE, draft |-> t, synced |-> t, sha |-> s,
                   save |-> "saved", timer |-> FALSE, queued |-> FALSE, repo |-> p,
                   retrying |-> FALSE, dialog |-> FALSE, deleting |-> FALSE]
      BY <2>3 DEF Ideas!NoEd
    <2>5. Editor(view') /\ view'.there /\ view'.draft = t /\ view'.synced = t
      BY <2>4 DEF Editor
    <2>6. Tells(view', part4)
      BY <2>1, <2>3, <2>5 DEF Tells
    <2>7. call' = [call EXCEPT ![n] = Ideas!Idle]
      BY <1>1 DEF Ideas!Freed
    <2>8. IdeaCall(Ideas!Idle) /\ ~LiveSave(Ideas!Idle) /\ ~LiveLoad(Ideas!Idle)
      BY IdeaIdle DEF LiveSave, LiveLoad
    <2>9. /\ IdeaCalls(call') /\ call'[n] = Ideas!Idle
          /\ \A m \in PSlots \ {n} : call'[m] = call[m]
      BY <2>7, <2>8, IdeaCallTurns DEF IdeasInv
    <2>10. OneSave(call', view', part4') /\ OneLoad(call', view', part4')
      BY <2>1, <2>2, <2>8, <2>9 DEF OneSave, OneLoad
    <2> QED  BY <1>1, <2>5, <2>6, <2>9, <2>10 DEF IdeasInv, IdeasShape
  <1> QED  BY <1>1, <1>2, <1>3, <1>4 DEF LiveLoad

\* Answers that are not of the file.
LEMMA OthersArrive ==
  ASSUME IdeasInv, NEW n \in PSlots,
         \/ Ideas!NamesArrive(n) \/ Ideas!CreateEnds(n) \/ Ideas!PageArrives(n)
         \/ Ideas!RetryEnds(n) \/ Ideas!DeleteEnds(n)
  PROVE  IdeasInv'
  <1>1. Editor(view) /\ part4' = part4 /\ FileStays
    BY DEF IdeasInv, IdeasShape, Ideas!NamesArrive, Ideas!CreateEnds, Ideas!PageArrives,
       Ideas!RetryEnds, Ideas!DeleteEnds, FileStays
  <1>2. ~LiveSave(call[n])
    BY DEF Ideas!NamesArrive, Ideas!CreateEnds, Ideas!PageArrives,
       Ideas!RetryEnds, Ideas!DeleteEnds, Ideas!Ended, LiveSave
  <1>3. ASSUME Ideas!Freed(n), Editor(view'), SameText(view', view) PROVE IdeasInv'
    <2>1. /\ view'.there = view.there /\ (view'.timer => view'.there)
          /\ Tells(view, part4) => Tells(view', part4)
      BY <1>1, <1>3, TellsStays DEF IdeasInv, SameText
    <2> QED  BY <1>1, <1>2, <1>3, <2>1, IdeasFree
  <1>4. SameText(view, view)
    BY DEF SameText
  <1>5. ASSUME Ideas!NamesArrive(n) \/ Ideas!PageArrives(n) PROVE IdeasInv'
    <2>1. Ideas!Freed(n) /\ view' = view
      BY <1>5 DEF Ideas!NamesArrive, Ideas!PageArrives
    <2> QED  BY <1>1, <1>3, <1>4, <2>1
  <1>6. ASSUME Ideas!CreateEnds(n) PROVE IdeasInv'
    <2>1. Ideas!Open("edit", n) \/ (Ideas!Freed(n) /\ view' = view)
      BY <1>6 DEF Ideas!CreateEnds
    <2> QED  BY <1>1, <1>3, <1>4, <2>1, IdeasOpened
  <1>7. ASSUME Ideas!DeleteEnds(n) PROVE IdeasInv'
    <2>1. CASE Ideas!Open("list", n)
      BY <1>1, <2>1, IdeasOpened
    <2>2. CASE Ideas!Freed(n) /\ view' = view
      BY <1>1, <1>3, <1>4, <2>2
    <2>3. CASE Ideas!Freed(n) /\ view' = [view EXCEPT !.deleting = FALSE, !.dialog = FALSE]
      <3>1. PICK b : b = FALSE /\ view' = [view EXCEPT !.deleting = b, !.dialog = b]
        BY <2>3
      <3>2. Editor(view') /\ SameText(view', view)
        <4>1. Editor(view)
          BY <1>1
        <4> QED  BY <4>1, <3>1 DEF Editor, SameText
      <3> QED  BY <1>3, <2>3, <3>2
    <2> QED  BY <1>7, <2>1, <2>2, <2>3 DEF Ideas!DeleteEnds
  <1>8. ASSUME Ideas!RetryEnds(n) PROVE IdeasInv'
    <2>1. Ideas!Freed(n)
      BY <1>8 DEF Ideas!RetryEnds
    <2>2. CASE view' = view
      BY <1>1, <1>3, <1>4, <2>1, <2>2
    <2>3. CASE view' = [view EXCEPT !.retrying = FALSE]
      BY <1>1, <1>3, <2>1, <2>3, EditorField
    <2>4. CASE view' = Ideas!Waiting([view EXCEPT !.retrying = FALSE, !.repo = "creating"])
      <3>1. PICK b, c, e, q : /\ b = FALSE /\ c = "creating"
                              /\ e = [view EXCEPT !.retrying = b, !.repo = c]
                              /\ q = view' /\ q = Ideas!Waiting(e)
        BY <2>4
      <3>2. Editor(e) /\ SameText(e, view)
        <4>1. Editor(view)
          BY <1>1
        <4> QED  BY <4>1, <3>1 DEF Editor, SameText
      <3>3. Editor(e) /\ (e.timer => e.there)
        BY <3>2 DEF IdeasInv, SameText
      <3>4. /\ Editor(q) /\ q.there = e.there /\ q.draft = e.draft /\ q.synced = e.synced
            /\ q.timer => q.there
            /\ e.there /\ e.draft # e.synced => q.timer /\ q.save = "dirty"
            /\ e.draft = e.synced => q.save = e.save
        BY ONLY <3>1, <3>3, EditorWaits
      <3>5. /\ Editor(view') /\ view'.there = view.there /\ (view'.timer => view'.there)
            /\ view.there /\ Tells(view, part4) => Tells(view', part4)
        BY <3>1, <3>2, <3>4 DEF Tells, SameText
      <3> QED  BY <1>1, <1>2, <2>1, <3>5, IdeasFree
    <2> QED  BY <1>8, <2>2, <2>3, <2>4 DEF Ideas!RetryEnds
  <1> QED  BY <1>5, <1>6, <1>7, <1>8

\* A call is answered, and the file stays.
LEMMA AnswerTells ==
  ASSUME IdeasInv, NEW n \in PSlots, NEW r, IdeaCall(r), call' = [call EXCEPT ![n] = r],
         r.kind = call[n].kind, r.old = call[n].old,
         FileStays, view' = view,
         LiveSave(r) \/ LiveLoad(r) => Answered(r, part4')
  PROVE  IdeasInv'
  <1>1. /\ IdeaCalls(call') /\ call'[n] = r
        /\ \A m \in PSlots \ {n} : call'[m] = call[m]
    BY IdeaCallTurns DEF IdeasInv
  <1>2. \A m \in PSlots : LiveSave(call[m]) \/ LiveLoad(call[m]) => Answered(call[m], part4')
    BY TellsStays DEF IdeasInv, OneSave, OneLoad, Answered
  <1>3. \A m \in PSlots : /\ LiveSave(call'[m]) <=> LiveSave(call[m])
                          /\ LiveLoad(call'[m]) => LiveLoad(call[m])
                          /\ LiveSave(call'[m]) \/ LiveLoad(call'[m]) => Answered(call'[m], part4')
    BY <1>1, <1>2 DEF LiveSave, LiveLoad
  <1>4. Editor(view') /\ SameText(view', view)
    BY DEF IdeasInv, IdeasShape, SameText
  <1>5. Tells(view, part4) => Tells(view', part4')
    BY <1>4, TellsStays
  <1>6. view'.there = view.there /\ (view'.timer => view'.there)
    BY DEF IdeasInv
  <1> QED  BY <1>1, <1>3, <1>4, <1>5, <1>6, IdeasStay

\* A save of the editor is committed, and there is no other that could have been answered.
LEMMA CommitTells ==
  ASSUME IdeasInv, NEW n \in PSlots, NEW r, IdeaCall(r), call' = [call EXCEPT ![n] = r],
         LiveSave(call[n]), LiveSave(r), view' = view, Committed(part4', r.text)
  PROVE  IdeasInv'
  <1>1. /\ IdeaCalls(call') /\ call'[n] = r
        /\ \A m \in PSlots \ {n} : call'[m] = call[m]
    BY IdeaCallTurns DEF IdeasInv
  <1>2. /\ view.there /\ \A m \in PSlots \ {n} : ~LiveSave(call[m])
        /\ \A m \in PSlots : ~LiveLoad(call[m])
    BY DEF IdeasInv, OneSave, OneLoad
  <1>3. ~LiveLoad(r)
    BY DEF LiveSave, LiveLoad
  <1>4. OneSave(call', view', part4') /\ OneLoad(call', view', part4') /\ ~NoSave(call')
    BY <1>1, <1>2, <1>3 DEF OneSave, OneLoad, NoSave, Answered
  <1> QED  BY <1>1, <1>4 DEF IdeasInv, IdeasShape

\* The server answers, and GitHub.
LEMMA IdeaAnswered ==
  ASSUME IdeasInv, NEW n \in PSlots, Ideas!Answer(n)
  PROVE  IdeasInv'
  <1>1. IdeaCalls(call) /\ IdeaCall(call[n]) /\ view' = view /\ call[n].status = "sent"
    BY DEF IdeasInv, IdeasShape, IdeaCalls, Ideas!Answer
  <1>2. PICK p, o, e : p = call[n] /\ o = "ok" /\ e = "error"
    OBVIOUS
  <1>3. IdeaCall(p) /\ p.status = "sent"
    BY <1>1, <1>2
  <1>4. PICK failed, good : failed = [p EXCEPT !.status = e] /\ good = [p EXCEPT !.status = o]
    OBVIOUS
  <1>5. /\ IdeaCall(failed) /\ failed.kind = p.kind /\ failed.old = p.old
        /\ failed.text = p.text /\ failed.status = e
        /\ IdeaCall(good) /\ good.kind = p.kind /\ good.old = p.old
        /\ good.text = p.text /\ good.status = o
    BY <1>3, <1>4, IdeaCallField
  <1>6. /\ [call EXCEPT ![n].status = "error"] = [call EXCEPT ![n] = failed]
        /\ [call EXCEPT ![n].status = "ok"] = [call EXCEPT ![n] = good]
    BY <1>1, <1>2, <1>4 DEF IdeaCalls
  <1>7. CASE part4' = part4 /\ call' = [call EXCEPT ![n].status = "error"]
    <2>1. Answered(failed, part4') /\ FileStays
      BY <1>2, <1>5, <1>7 DEF Answered, FileStays
    <2> QED  BY <1>1, <1>2, <1>5, <1>6, <1>7, <2>1, AnswerTells
  <1>8. CASE /\ p.kind \in {"new", "names", "create", "retry", "delete"} /\ FileStays
             /\ call' = [call EXCEPT ![n].status = "ok"]
    <2>1. ~LiveSave(good) /\ ~LiveLoad(good)
      BY <1>5, <1>8 DEF LiveSave, LiveLoad
    <2> QED  BY <1>1, <1>2, <1>5, <1>6, <1>8, <2>1, AnswerTells
  <1>9. CASE /\ p.kind = "list" /\ part4' = part4
             /\ \E t : call' = [[call EXCEPT ![n].status = "ok"] EXCEPT ![n].text = t]
    <2>1. PICK t, q : call' = [[call EXCEPT ![n] = good] EXCEPT ![n].text = t]
                      /\ q = [good EXCEPT !.text = t]
      BY <1>6, <1>9
    <2>2. call' = [call EXCEPT ![n] = q]
      BY <1>1, <2>1 DEF IdeaCalls
    <2>3. IdeaCall(q) /\ q.kind = good.kind /\ q.old = good.old
      BY <1>5, <2>1, IdeaCallField
    <2>4. ~LiveSave(q) /\ ~LiveLoad(q) /\ FileStays
      BY <1>5, <1>9, <2>3 DEF LiveSave, LiveLoad, FileStays
    <2> QED  BY <1>1, <1>2, <1>5, <2>2, <2>3, <2>4, AnswerTells
  <1>10. CASE /\ p.kind = "edit" /\ part4' = part4
              /\ \E is \in {{}, row.issues} :
                   call' = [[call EXCEPT ![n].status = "ok"]
                                   EXCEPT ![n].text = part4.text, ![n].sha = part4.sha,
                                          ![n].issues = is, ![n].repo = row.repo]
    <2>1. PICK t, s, is, rp :
             /\ t = part4.text
             /\ call' = [[call EXCEPT ![n].status = "ok"]
                          EXCEPT ![n].text = t, ![n].sha = s, ![n].issues = is, ![n].repo = rp]
      <3>1. PICK is \in {{}, row.issues} :
               call' = [[call EXCEPT ![n].status = "ok"]
                               EXCEPT ![n].text = part4.text, ![n].sha = part4.sha,
                                      ![n].issues = is, ![n].repo = row.repo]
        BY <1>10
      <3>2. PICK t, s, rp : t = part4.text /\ s = part4.sha /\ rp = row.repo
        OBVIOUS
      <3>3. call' = [[call EXCEPT ![n].status = "ok"]
                        EXCEPT ![n].text = t, ![n].sha = s, ![n].issues = is, ![n].repo = rp]
        BY <3>1, <3>2
      <3> QED  BY <3>2, <3>3
    <2>2. PICK c, q : /\ c = [call EXCEPT ![n] = good]
                      /\ q = [good EXCEPT !.text = t, !.sha = s, !.issues = is, !.repo = rp]
      OBVIOUS
    <2>3. call' = [c EXCEPT ![n].text = t, ![n].sha = s, ![n].issues = is, ![n].repo = rp]
      BY <1>6, <2>1, <2>2
    <2>4. c = [m \in PSlots |-> c[m]] /\ c[n] = good /\ [call EXCEPT ![n] = q] = [c EXCEPT ![n] = q]
      BY <1>1, <2>2 DEF IdeaCalls
    <2>5. call' = [call EXCEPT ![n] = q]
      BY <2>2, <2>3, <2>4
    <2>6. IdeaCall(q) /\ q.kind = good.kind /\ q.old = good.old /\ q.text = t
      BY <1>5, <2>2 DEF IdeaCall
    <2>7. Answered(q, part4') /\ FileStays
      BY <1>10, <2>1, <2>6 DEF Answered, Committed, FileStays
    <2> QED  BY <1>1, <1>2, <1>5, <2>5, <2>6, <2>7, AnswerTells
  <1>11. CASE /\ p.kind = "save"
              /\ part4' = [text |-> p.text, sha |-> part4.sha + 1,
                           by |-> IF p.old THEN "other" ELSE "me"]
              /\ \/ \E s : call' = [[call EXCEPT ![n].status = "ok"] EXCEPT ![n].sha = s]
                 \/ call' = [call EXCEPT ![n].status = "error"]
    <2>1. PICK q : IdeaCall(q) /\ q.kind = p.kind /\ q.old = p.old /\ q.text = p.text
                   /\ call' = [call EXCEPT ![n] = q]
      <3>1. CASE call' = [call EXCEPT ![n].status = "error"]
        BY <1>5, <1>6, <3>1
      <3>2. CASE \E s : call' = [[call EXCEPT ![n].status = "ok"] EXCEPT ![n].sha = s]
        <4>1. PICK s, q : call' = [[call EXCEPT ![n] = good] EXCEPT ![n].sha = s]
                          /\ q = [good EXCEPT !.sha = s]
          BY <1>6, <3>2
        <4>2. call' = [call EXCEPT ![n] = q]
          BY <1>1, <4>1 DEF IdeaCalls
        <4>3. IdeaCall(q) /\ q.kind = good.kind /\ q.old = good.old /\ q.text = good.text
          BY <1>5, <4>1, IdeaCallField
        <4> QED  BY <1>5, <4>2, <4>3
      <3> QED  BY <1>11, <3>1, <3>2
    <2>2. CASE p.old
      <3>1. part4'.by = "other" /\ FileStays
        BY <1>11, <2>2 DEF FileStays
      <3>2. Answered(q, part4')
        BY <3>1 DEF Answered, Committed
      <3> QED  BY <1>1, <1>2, <2>1, <3>1, <3>2, AnswerTells
    <2>3. CASE ~p.old
      <3>1. Committed(part4', q.text)
        BY <1>11, <2>1 DEF Committed
      <3>2. LiveSave(call[n]) /\ LiveSave(q)
        BY <1>2, <1>11, <2>1, <2>3 DEF LiveSave
      <3> QED  BY <1>1, <2>1, <3>1, <3>2, CommitTells
    <2> QED  BY <2>2, <2>3
  <1> QED
    <2>1. \/ part4' = part4 /\ call' = [call EXCEPT ![n].status = "error"]
          \/ /\ call[n].kind \in {"new", "names", "retry", "delete"} /\ part4' = part4
             /\ call' = [call EXCEPT ![n].status = "ok"]
          \/ /\ call[n].kind = "create"
             /\ part4' = [text |-> 0, sha |-> part4.sha + 1, by |-> "other"]
             /\ call' = [call EXCEPT ![n].status = "ok"]
          \/ /\ call[n].kind = "list" /\ part4' = part4
             /\ call' = [[call EXCEPT ![n].status = "ok"]
                           EXCEPT ![n].text = IF row.there THEN 1 ELSE 0]
          \/ /\ call[n].kind = "edit" /\ part4' = part4
             /\ \E is \in {{}, row.issues} :
                  call' = [[call EXCEPT ![n].status = "ok"]
                                  EXCEPT ![n].text = part4.text, ![n].sha = part4.sha,
                                         ![n].issues = is, ![n].repo = row.repo]
          \/ /\ call[n].kind = "save"
             /\ part4' = [text |-> call[n].text, sha |-> part4.sha + 1,
                          by |-> IF call[n].old THEN "other" ELSE "me"]
             /\ \/ call' = [[call EXCEPT ![n].status = "ok"] EXCEPT ![n].sha = part4'.sha]
                \/ call' = [call EXCEPT ![n].status = "error"]
      BY Zenon DEF Ideas!Answer
    <2>2. CASE /\ call[n].kind = "create"
               /\ part4' = [text |-> 0, sha |-> part4.sha + 1, by |-> "other"]
               /\ call' = [call EXCEPT ![n].status = "ok"]
      <3>1. FileStays
        BY <2>2 DEF FileStays
      <3> QED  BY <1>2, <1>8, <2>2, <3>1
    <2>3. CASE /\ call[n].kind \in {"new", "names", "retry", "delete"} /\ part4' = part4
               /\ call' = [call EXCEPT ![n].status = "ok"]
      BY <1>2, <1>8, <2>3 DEF FileStays
    <2>4. CASE /\ call[n].kind = "list" /\ part4' = part4
               /\ call' = [[call EXCEPT ![n].status = "ok"]
                             EXCEPT ![n].text = IF row.there THEN 1 ELSE 0]
      BY <1>2, <1>9, <2>4
    <2>5. CASE /\ call[n].kind = "edit" /\ part4' = part4
               /\ \E is \in {{}, row.issues} :
                    call' = [[call EXCEPT ![n].status = "ok"]
                                    EXCEPT ![n].text = part4.text, ![n].sha = part4.sha,
                                           ![n].issues = is, ![n].repo = row.repo]
      BY <1>2, <1>10, <2>5
    <2>6. CASE /\ call[n].kind = "save"
               /\ part4' = [text |-> call[n].text, sha |-> part4.sha + 1,
                            by |-> IF call[n].old THEN "other" ELSE "me"]
               /\ \/ call' = [[call EXCEPT ![n].status = "ok"] EXCEPT ![n].sha = part4'.sha]
                  \/ call' = [call EXCEPT ![n].status = "error"]
      BY <1>2, <1>11, <2>6
    <2> QED  BY <1>7, <2>1, <2>2, <2>3, <2>4, <2>5, <2>6

\* What WebPagesProofs takes from the ideas.
LEMMA IdeasSafe ==
  /\ IdeasMounted => IdeasInv
  /\ IdeasInv /\ (Ideas!Next \/ UNCHANGED pageVars) => IdeasInv'
  /\ IdeasInv => Ideas!NoEditForgotten
  <1>1. ASSUME IdeasMounted PROVE IdeasInv
    <2>1. view = Ideas!NoEd /\ call = [n \in PSlots |-> call[n]]
      BY <1>1 DEF IdeasMounted, Ideas!Init, PSlots
    <2>2. Editor(view) /\ ~view.there /\ ~view.timer
      BY <2>1 DEF Ideas!NoEd, Editor
    <2>3. PICK k : /\ k \in {"list", "new", "edit"}
                   /\ \A n \in PSlots : call[n] = IF n = 1 THEN Ideas!Request(k) ELSE Ideas!Idle
      BY <1>1 DEF IdeasMounted, Ideas!Init, PSlots
    <2>4. PICK q : q = Ideas!Request(k)
      OBVIOUS
    <2>5. IdeaCall(q) /\ q.kind = k /\ q.status = "sent"
      BY <2>4, IdeaAsked
    <2>6. /\ ~LiveSave(q) /\ Answered(q, part4)
          /\ IdeaCall(Ideas!Idle) /\ ~LiveSave(Ideas!Idle) /\ ~LiveLoad(Ideas!Idle)
      BY <2>3, <2>5, IdeaIdle DEF LiveSave, LiveLoad, Answered
    <2>7. \A n \in PSlots : call[n] = IF n = 1 THEN q ELSE Ideas!Idle
      BY <2>3, <2>4
    <2>8. OneSave(call, view, part4) /\ OneLoad(call, view, part4) /\ IdeasShape
      BY <2>1, <2>2, <2>5, <2>6, <2>7 DEF OneSave, OneLoad, IdeasShape, IdeaCalls
    <2> QED  BY <2>2, <2>8 DEF IdeasInv
  <1>2. ASSUME IdeasInv, Ideas!Next PROVE IdeasInv'
    <2>1. ASSUME NEW n \in PSlots, NEW p \in {"list", "new", "edit"}, Ideas!Visit(p, n)
          PROVE  IdeasInv'
      BY <1>2, <2>1, IdeasOpened DEF Ideas!Visit
    <2> QED
      BY <1>2, <2>1, IdeasBrowsed, TypedTells, IdeasAsk, SaveTells, SavedTells, FailedTells,
         AwayTells, LoadedTells, OthersArrive, IdeaAnswered DEF Ideas!Next, PSlots
  <1>3. ASSUME IdeasInv, UNCHANGED pageVars PROVE IdeasInv'
    BY <1>3 DEF pageVars, IdeasInv, IdeasShape, OneSave, OneLoad, NoSave, Tells
  <1>4. ASSUME IdeasInv PROVE Ideas!NoEditForgotten
    <2> SUFFICES ASSUME Ideas!Editing, ~view.timer, ~Ideas!Saving
                 PROVE  \/ view.save = "error" \/ part4.text = view.draft \/ part4.by = "other"
                        \/ view.save = "dirty" /\ view.draft = view.synced
      BY DEF Ideas!NoEditForgotten
    <2>1. view.there /\ NoSave(call)
      BY DEF Ideas!Editing, Ideas!Saving, NoSave, LiveSave, PSlots
    <2> QED  BY <1>4, <2>1 DEF IdeasInv, Tells, Committed
  <1> QED  BY <1>1, <1>2, <1>3, <1>4

=============================================================================
