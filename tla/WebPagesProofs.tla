--------------------------- MODULE WebPagesProofs ---------------------------
(***************************************************************************)
(* What the pages of the web client keep true, whichever is mounted.  A    *)
(* page's own steps keep its invariant (RecordPagesProofs and, for the     *)
(* lists of the issue page, IssuePagesProofs; the page of the skills and   *)
(* the board are here), and the other pages have other screens.            *)
(***************************************************************************)
EXTENDS WebPages, RecordPagesProofs, IssuePagesProofs

-----------------------------------------------------------------------------
(* The page of the skills: in store and in row, the skills with their      *)
(* files; in part1, the editor.                                            *)

KSlots == Slots["skills"]

\* The paths of a sequence of files.
PathsOf(fs) == {fs[k] : k \in 1..Len(fs)}

SkillRow(r) ==
    /\ r = [exists |-> r.exists, text |-> r.text, files |-> r.files]
    /\ r.files \in Seq(Path)

SkillTable(t) == t = [q \in Skill |-> t[q]] /\ \A q \in Skill : SkillRow(t[q])

SkillCall(r) ==
    /\ r = [kind |-> r.kind, skill |-> r.skill, text |-> r.text, files |-> r.files,
            mine |-> r.mine, loaded |-> r.loaded, dropped |-> r.dropped,
            seen |-> r.seen, status |-> r.status, chosen |-> r.chosen, rest |-> r.rest]
    /\ r.files \in Seq(Path)
    /\ r.skill \in Skill \cup {None}
    /\ r.kind = "list" => SkillTable(r.seen)

SkillCalls(c) == c = [n \in KSlots |-> c[n]] /\ \A n \in KSlots : SkillCall(c[n])

SkillEditor(d) ==
    /\ d = [text |-> d.text, files |-> d.files, path |-> d.path, saving |-> d.saving,
            loading |-> d.loading, confirm |-> d.confirm, adding |-> d.adding,
            editing |-> d.editing, tree |-> d.tree, loaded |-> d.loaded,
            early |-> d.early, dropped |-> d.dropped]
    /\ d.files \in Seq(Path)

SkillsShape ==
    SkillTable(store) /\ SkillTable(row) /\ SkillEditor(part1) /\ SkillCalls(call)

MyLoad(r) == r.kind = "load" /\ r.mine

\* The saves of skill s that the server has not answered.
OnWay(c, s) == {m \in KSlots : c[m].kind = "save" /\ c[m].skill = s /\ c[m].status = "sent"}

\* The editor d of skill s asks for its files once; an answer that crossed no save has
\* all of them.
LoadsFit(s, d, c, rw) ==
    /\ \A n, m \in KSlots : MyLoad(c[n]) /\ MyLoad(c[m]) => n = m
    /\ \A n \in KSlots : MyLoad(c[n]) =>
         /\ ~d.loaded /\ c[n].skill = s /\ s # None
         /\ c[n].status = "ok" /\ c[n].loaded /\ ~d.early =>
              OnWay(c, s) = {} /\ PathsOf(rw[s].files) \subseteq PathsOf(c[n].files)

\* An editor that is loaded has, or dropped, what the server has or is about to have.
EditorHas(s, d, c, rw) ==
    d.loaded =>
      /\ s # None
      /\ PathsOf(rw[s].files) \subseteq PathsOf(d.files) \cup d.dropped
      /\ \A m \in OnWay(c, s) : PathsOf(c[m].files) \subseteq PathsOf(d.files) \cup d.dropped

\* And so has a save that it sent.
SavesHave(c, rw) ==
    \A n \in KSlots : c[n].kind = "save" /\ c[n].status = "sent" /\ c[n].loaded =>
      /\ c[n].skill # None
      /\ PathsOf(rw[c[n].skill].files) \subseteq PathsOf(c[n].files) \cup c[n].dropped
      /\ \A m \in OnWay(c, c[n].skill) :
            PathsOf(c[m].files) \subseteq PathsOf(c[n].files) \cup c[n].dropped

FilesKept(s, d, c, rw) == LoadsFit(s, d, c, rw) /\ EditorHas(s, d, c, rw) /\ SavesHave(c, rw)

SkillsInv == SkillsShape /\ FilesKept(Skills!Selected(store, view), part1, call, row)

-----------------------------------------------------------------------------
LEMMA ShownSkill ==
  ASSUME NEW st, NEW v
  PROVE  Skills!Selected(st, v) \in Skill \cup {None}
  BY DEF Skills!Selected, Skills!Listed, Skills!First

\* A field of a request, and of the editor, may be anything.
LEMMA SkillCallField ==
  ASSUME NEW r, SkillCall(r), NEW v
  PROVE  /\ \A q : q = [r EXCEPT !.status = v] =>
              SkillCall(q) /\ q.kind = r.kind /\ q.mine = r.mine /\ q.skill = r.skill
                /\ q.files = r.files /\ q.loaded = r.loaded /\ q.dropped = r.dropped
                /\ q.status = v
         /\ \A q : q = [r EXCEPT !.mine = v] =>
              SkillCall(q) /\ q.kind = r.kind /\ q.mine = v /\ q.skill = r.skill
                /\ q.files = r.files /\ q.loaded = r.loaded /\ q.dropped = r.dropped
                /\ q.status = r.status
         /\ \A q : q = [r EXCEPT !.loaded = v] =>
              SkillCall(q) /\ q.kind = r.kind /\ q.mine = r.mine /\ q.skill = r.skill
                /\ q.files = r.files /\ q.loaded = v /\ q.dropped = r.dropped
                /\ q.status = r.status
  BY DEF SkillCall

LEMMA SkillEditorField ==
  ASSUME NEW d, SkillEditor(d), NEW v
  PROVE  \A q : \/ q = [d EXCEPT !.text = v]
                \/ q = [d EXCEPT !.tree = v]
                \/ q = [d EXCEPT !.editing = v]
                \/ q = [d EXCEPT !.adding = v]
                \/ q = [d EXCEPT !.confirm = v]
                \/ q = [d EXCEPT !.saving = v]
                \/ q = [d EXCEPT !.loading = v]
                \/ q = [d EXCEPT !.path = v]
                => /\ SkillEditor(q) /\ q.files = d.files /\ q.dropped = d.dropped
                   /\ q.loaded = d.loaded /\ q.early = d.early
  BY DEF SkillEditor

LEMMA SkillRequests ==
  /\ SkillCall(Skills!Idle) /\ Skills!Idle.kind = "idle"
  /\ \A kind, s : s \in Skill \cup {None} /\ kind # "list" =>
        LET q == Skills!Request(kind, s) IN
        /\ SkillCall(q) /\ q.kind = kind /\ q.skill = s /\ q.status = "sent" /\ q.mine
        /\ q.files = <<>>
  <1>1. /\ <<>> \in Seq(Path)
        /\ \A i : i = Skills!Idle => SkillCall(i) /\ i.kind = "idle" /\ i.files = <<>>
    <2>1. <<>> \in Seq(Path)
      BY EmptySeq
    <2> SUFFICES ASSUME NEW i, i = Skills!Idle
                 PROVE  SkillCall(i) /\ i.kind = "idle" /\ i.files = <<>>
      BY <2>1
    <2>2. i.kind = "idle" /\ i.files = <<>> /\ i.skill = None
      BY DEF Skills!Idle
    <2>3. i = [kind |-> i.kind, skill |-> i.skill, text |-> i.text, files |-> i.files,
               mine |-> i.mine, loaded |-> i.loaded, dropped |-> i.dropped,
               seen |-> i.seen, status |-> i.status, chosen |-> i.chosen, rest |-> i.rest]
      BY DEF Skills!Idle
    <2> QED  BY <2>1, <2>2, <2>3 DEF SkillCall
  <1>2. ASSUME NEW kind, NEW s \in Skill \cup {None}, kind # "list",
               NEW q, q = Skills!Request(kind, s)
        PROVE  /\ SkillCall(q) /\ q.kind = kind /\ q.skill = s /\ q.status = "sent" /\ q.mine
               /\ q.files = <<>>
    <2>1. PICK i : i = Skills!Idle
      OBVIOUS
    <2>2. q = [i EXCEPT !.kind = kind, !.skill = s, !.status = "sent", !.mine = TRUE]
      BY <1>2, <2>1 DEF Skills!Request
    <2>3. PICK c, t : c = "sent" /\ t = TRUE
      OBVIOUS
    <2>4. q = [i EXCEPT !.kind = kind, !.skill = s, !.status = c, !.mine = t]
      BY <2>2, <2>3
    <2>5. SkillCall(i) /\ i.files = <<>>
      BY <1>1, <2>1
    <2>6. /\ SkillCall(q) /\ q.kind = kind /\ q.skill = s /\ q.status = c /\ q.mine = t
          /\ q.files = <<>>
      BY <1>1, <1>2, <2>4, <2>5 DEF SkillCall
    <2> QED  BY <2>3, <2>6
  <1> QED  BY <1>1, <1>2

-----------------------------------------------------------------------------
\* Requests that are neither loads nor saves do not matter, nor do those that end.
LEMMA KeptByCalls ==
  ASSUME NEW s, NEW d, NEW c, NEW rw, FilesKept(s, d, c, rw), NEW e,
         \A n \in KSlots : e[n] = c[n] \/ e[n].kind \notin {"load", "save"}
  PROVE  FilesKept(s, d, e, rw)
  <1>1. \A z : OnWay(e, z) \subseteq OnWay(c, z)
    BY DEF OnWay
  <1>2. \A z : \A m \in OnWay(e, z) : e[m] = c[m]
    BY DEF OnWay
  <1>3. LoadsFit(s, d, e, rw)
    BY <1>1 DEF FilesKept, LoadsFit, MyLoad
  <1>4. EditorHas(s, d, e, rw)
    BY <1>1, <1>2 DEF FilesKept, EditorHas
  <1>5. SavesHave(e, rw)
    BY <1>1, <1>2 DEF FilesKept, SavesHave
  <1> QED  BY <1>3, <1>4, <1>5 DEF FilesKept

\* An editor that keeps or drops what it had.
LEMMA KeptByEditor ==
  ASSUME NEW s, NEW d, NEW c, NEW rw, FilesKept(s, d, c, rw), NEW e,
         e.loaded = d.loaded, e.early = d.early,
         PathsOf(d.files) \cup d.dropped \subseteq PathsOf(e.files) \cup e.dropped
  PROVE  FilesKept(s, e, c, rw)
  <1>1. LoadsFit(s, e, c, rw)
    BY DEF FilesKept, LoadsFit
  <1>2. EditorHas(s, e, c, rw)
    BY DEF FilesKept, EditorHas
  <1> QED  BY <1>1, <1>2 DEF FilesKept

\* The server loses files.
LEMMA KeptByRows ==
  ASSUME NEW s \in Skill \cup {None}, NEW d, NEW c, SkillCalls(c), NEW rw, FilesKept(s, d, c, rw), NEW tw,
         \A q \in Skill : PathsOf(tw[q].files) \subseteq PathsOf(rw[q].files)
  PROVE  FilesKept(s, d, c, tw)
  <1>1. LoadsFit(s, d, c, tw)
    BY DEF FilesKept, LoadsFit
  <1>2. EditorHas(s, d, c, tw)
    BY DEF FilesKept, EditorHas
  <1>3. SavesHave(c, tw)
    <2> SUFFICES ASSUME NEW n \in KSlots, c[n].kind = "save", c[n].status = "sent", c[n].loaded
                 PROVE  /\ c[n].skill # None
                        /\ PathsOf(tw[c[n].skill].files) \subseteq PathsOf(c[n].files) \cup c[n].dropped
                        /\ \A m \in OnWay(c, c[n].skill) :
                             PathsOf(c[m].files) \subseteq PathsOf(c[n].files) \cup c[n].dropped
      BY DEF SavesHave
    <2>1. c[n].skill \in Skill \cup {None}
      BY DEF SkillCalls, SkillCall
    <2> QED  BY <2>1 DEF FilesKept, SavesHave
  <1> QED  BY <1>1, <1>2, <1>3 DEF FilesKept

\* The requests of an editor that is unmounted.
Disowned(c) == [n \in KSlots |-> [c[n] EXCEPT !.mine = FALSE]]

\* An editor that goes leaves its requests to nobody.
LEMMA KeptByOrphans ==
  ASSUME NEW s, NEW d, NEW c, SkillCalls(c), NEW rw, FilesKept(s, d, c, rw),
         NEW e, e = Disowned(c)
  PROVE  /\ SkillCalls(e) /\ SavesHave(e, rw)
         /\ \A n \in KSlots : ~MyLoad(e[n]) /\ e[n].kind = c[n].kind
  <1>1. ASSUME NEW n \in KSlots
        PROVE  /\ SkillCall(e[n]) /\ e[n].kind = c[n].kind /\ ~e[n].mine
               /\ e[n].skill = c[n].skill /\ e[n].files = c[n].files
               /\ e[n].loaded = c[n].loaded /\ e[n].dropped = c[n].dropped
               /\ e[n].status = c[n].status
    <2>1. PICK r, f, q : r = c[n] /\ f = FALSE /\ q = e[n]
      OBVIOUS
    <2>2. SkillCall(r) /\ q = [r EXCEPT !.mine = f]
      BY <2>1 DEF SkillCalls, Disowned
    <2>3. /\ SkillCall(q) /\ q.kind = r.kind /\ q.mine = f /\ q.skill = r.skill
          /\ q.files = r.files /\ q.loaded = r.loaded /\ q.dropped = r.dropped
          /\ q.status = r.status
      BY ONLY <2>2, SkillCallField
    <2> QED  BY <2>1, <2>3
  <1>2. \A z : OnWay(e, z) = OnWay(c, z)
    BY <1>1 DEF OnWay
  <1>3. e = [n \in KSlots |-> e[n]]
    BY DEF Disowned
  <1>4. SkillCalls(e)
    BY <1>1, <1>3 DEF SkillCalls
  <1>5. SavesHave(e, rw)
    <2> SUFFICES ASSUME NEW n \in KSlots, e[n].kind = "save", e[n].status = "sent", e[n].loaded
                 PROVE  /\ e[n].skill # None
                        /\ PathsOf(rw[e[n].skill].files) \subseteq PathsOf(e[n].files) \cup e[n].dropped
                        /\ \A m \in OnWay(e, e[n].skill) :
                             PathsOf(e[m].files) \subseteq PathsOf(e[n].files) \cup e[n].dropped
      BY DEF SavesHave
    <2>1. c[n].kind = "save" /\ c[n].status = "sent" /\ c[n].loaded
      BY <1>1
    <2>2. \A m \in OnWay(e, e[n].skill) : m \in OnWay(c, c[n].skill) /\ e[m].files = c[m].files
      BY <1>1, <1>2 DEF OnWay
    <2> QED  BY <1>1, <2>1, <2>2 DEF FilesKept, SavesHave
  <1> QED  BY <1>1, <1>4, <1>5 DEF MyLoad

\* No editor has files, nor has one that was just mounted those of the server.
LEMMA NoEditor ==
  ASSUME NEW d, d = Skills!NoDetail
  PROVE  SkillEditor(d) /\ d.loaded = FALSE
  <1>1. d.files = <<>> /\ d.loaded = FALSE
    BY DEF Skills!NoDetail
  <1>2. d = [text |-> d.text, files |-> d.files, path |-> d.path, saving |-> d.saving,
             loading |-> d.loading, confirm |-> d.confirm, adding |-> d.adding,
             editing |-> d.editing, tree |-> d.tree, loaded |-> d.loaded,
             early |-> d.early, dropped |-> d.dropped]
    BY DEF Skills!NoDetail
  <1> QED  BY <1>1, <1>2, EmptySeq DEF SkillEditor

LEMMA FreshEditor ==
  ASSUME NEW st, SkillTable(st), NEW s \in Skill, NEW e, e = Skills!Mounted(st, s)
  PROVE  SkillEditor(e) /\ e.loaded = FALSE
  <1>1. PICK d : d = Skills!NoDetail
    OBVIOUS
  <1>2. PICK t, x, f, m : t = TRUE /\ x = st[s].text /\ f = st[s].files /\ m = ~view.mobile
    OBVIOUS
  <1>3. e = [d EXCEPT !.text = x, !.files = f, !.loading = t, !.tree = m]
    BY <1>1, <1>2 DEF Skills!Mounted
  <1>4. f \in Seq(Path)
    BY <1>2 DEF SkillTable, SkillRow
  <1>5. SkillEditor(d) /\ d.loaded = FALSE
    BY <1>1, NoEditor
  <1>6. SkillEditor(e) /\ e.loaded = d.loaded
    BY <1>3, <1>4, <1>5 DEF SkillEditor
  <1> QED  BY <1>5, <1>6

\* A render keeps the editor of the skill that stays selected, and mounts another one
\* where the selection moves.
LEMMA SkillsRendered ==
  ASSUME SkillTable(store), SkillTable(row), NEW st, SkillTable(st), NEW v, NEW c, SkillCalls(c),
         NEW d, SkillEditor(d), FilesKept(Skills!Selected(store, view), d, c, row),
         Skills!Render(st, v, c, d), row' = row
  PROVE  SkillsInv'
  <1>1. PICK w, s, o :
          /\ w = Skills!Reselected(st, v) /\ s = Skills!Selected(st, w)
          /\ o = Disowned(c)
    OBVIOUS
  <1>2. /\ store' = st /\ view' = w
        /\ IF s # None /\ s = Skills!Selected(store, view)
             THEN part1' = (IF st[s].exists /\ store[s].exists THEN Skills!Synced(st, s, d)
                                                               ELSE d)
                  /\ call' = c
             ELSE IF s = None
             THEN part1' = Skills!NoDetail /\ call' = o
             ELSE /\ part1' = Skills!Mounted(st, s)
                  /\ \E n \in {m \in KSlots : c[m].kind = "idle"} :
                       call' = [o EXCEPT ![n] = Skills!Request("load", s)]
    BY <1>1 DEF Skills!Render, KSlots, Disowned
  <1>3. s = Skills!Selected(store', view') /\ s \in Skill \cup {None}
    BY <1>1, <1>2, ShownSkill
  <1>4. SkillCalls(o) /\ SavesHave(o, row)
        /\ \A n \in KSlots : ~MyLoad(o[n]) /\ o[n].kind = c[n].kind
    <2>1. PICK z, w1 : z = Skills!Selected(store, view) /\ w1 = row
      OBVIOUS
    <2>2. SkillCalls(c) /\ FilesKept(z, d, c, w1)
      BY <2>1
    <2>3. /\ SkillCalls(o) /\ SavesHave(o, w1)
          /\ \A n \in KSlots : ~MyLoad(o[n]) /\ o[n].kind = c[n].kind
      BY <1>1, <2>2, KeptByOrphans
    <2> QED  BY <2>1, <2>3
  <1>5. CASE s # None /\ s = Skills!Selected(store, view)
    <2>1. call' = c /\ (part1' = d \/ part1' = [d EXCEPT !.text = st[s].text])
      BY <1>2, <1>5 DEF Skills!Synced
    <2>2. PICK q, x : q = part1' /\ x = st[s].text
      OBVIOUS
    <2>3. /\ SkillEditor(q) /\ q.files = d.files /\ q.dropped = d.dropped
          /\ q.loaded = d.loaded /\ q.early = d.early
      BY <2>1, <2>2, SkillEditorField
    <2>4. FilesKept(s, q, c, row)
      BY <1>5, <2>3, KeptByEditor
    <2> QED  BY <1>2, <1>3, <2>1, <2>2, <2>3, <2>4 DEF SkillsInv, SkillsShape
  <1>6. CASE s = None
    <2>1. call' = o /\ part1' = Skills!NoDetail
      BY <1>2, <1>6
    <2>2. SkillEditor(part1') /\ ~part1'.loaded
      BY <2>1, NoEditor
    <2>3. FilesKept(s, part1', o, row)
      BY <1>4, <2>2 DEF FilesKept, LoadsFit, EditorHas
    <2> QED  BY <1>2, <1>3, <1>4, <2>1, <2>2, <2>3 DEF SkillsInv, SkillsShape
  <1>7. CASE s # None /\ s # Skills!Selected(store, view)
    <2>1. PICK n \in KSlots : /\ c[n].kind = "idle"
                              /\ call' = [o EXCEPT ![n] = Skills!Request("load", s)]
      BY <1>2, <1>7
    <2>2. SkillEditor(part1') /\ ~part1'.loaded
      BY <1>2, <1>3, <1>7, FreshEditor
    <2>3. PICK r : r = Skills!Request("load", s)
      OBVIOUS
    <2>4. SkillCall(r) /\ r.kind = "load" /\ r.skill = s /\ r.status = "sent"
      BY <1>3, <2>3, SkillRequests
    <2>5. call' = [m \in KSlots |-> IF m = n THEN r ELSE o[m]]
      BY <1>1, <2>1, <2>3 DEF Disowned
    <2>6. SkillCalls(call')
      BY <1>4, <2>4, <2>5 DEF SkillCalls
    <2>7. SavesHave(call', row)
      <3>1. \A z : \A m \in OnWay(call', z) : m \in OnWay(o, z) /\ call'[m] = o[m]
        BY <2>4, <2>5 DEF OnWay
      <3> QED  BY <1>4, <2>4, <2>5, <3>1 DEF SavesHave
    <2>8. LoadsFit(s, part1', call', row)
      BY <1>4, <1>7, <2>2, <2>4, <2>5 DEF LoadsFit, MyLoad
    <2>9. EditorHas(s, part1', call', row)
      BY <2>2 DEF EditorHas
    <2> QED
      BY <1>2, <1>3, <2>2, <2>6, <2>7, <2>8, <2>9 DEF SkillsInv, SkillsShape, FilesKept
  <1> QED  BY <1>5, <1>6, <1>7

\* What is neither shown nor sent: the buttons of the editor and of the dialogs.
LEMMA SkillsAlone ==
  ASSUME SkillsInv, UNCHANGED <<store, view, row>>, SkillCalls(call'), SkillEditor(part1'),
         FilesKept(Skills!Selected(store, view), part1', call', row)
  PROVE  SkillsInv'
  BY DEF SkillsInv, SkillsShape

LEMMA NothingAsked ==
  ASSUME SkillsInv
  PROVE  /\ SkillTable(store) /\ SkillTable(row) /\ SkillEditor(part1) /\ SkillCalls(call)
         /\ FilesKept(Skills!Selected(store, view), part1, call, row)
  BY DEF SkillsInv, SkillsShape

\* The list, its selection, the dialog that creates a skill.
LEMMA SkillsListed ==
  ASSUME SkillsInv,
         \/ \E s \in Skill : Skills!SelectSkill(s)
         \/ Skills!Back \/ Skills!OpenDialog \/ Skills!CloseDialog
  PROVE  SkillsInv'
  <1>1. ASSUME NEW s \in Skill, Skills!SelectSkill(s) PROVE SkillsInv'
    BY <1>1, NothingAsked, SkillsRendered DEF Skills!SelectSkill
  <1>2. CASE Skills!Back
    BY <1>2, NothingAsked, SkillsRendered DEF Skills!Back
  <1>3. CASE Skills!OpenDialog \/ Skills!CloseDialog
    BY <1>3, NothingAsked, SkillsAlone DEF Skills!OpenDialog, Skills!CloseDialog
  <1> QED  BY <1>1, <1>2, <1>3

\* The buttons of the editor that leave the files alone.
LEMMA SkillEditorClicked ==
  ASSUME SkillsInv,
         \/ Skills!EditText(2) \/ Skills!ToggleTree \/ Skills!ToggleEditing
         \/ Skills!OpenAddFile \/ Skills!CancelAddFile \/ Skills!AskDelete
         \/ Skills!CancelDelete \/ \E p \in Path \cup {None} : Skills!SelectPath(p)
  PROVE  SkillsInv'
  <1>1. UNCHANGED <<store, view, row, call>>
    BY DEF Skills!EditText, Skills!ToggleTree, Skills!ToggleEditing, Skills!OpenAddFile,
       Skills!CancelAddFile, Skills!AskDelete, Skills!CancelDelete, Skills!SelectPath
  <1>2. /\ SkillEditor(part1') /\ part1'.files = part1.files /\ part1'.dropped = part1.dropped
        /\ part1'.loaded = part1.loaded /\ part1'.early = part1.early
    <2>1. ASSUME NEW p \in Path \cup {None}, Skills!SelectPath(p)
          PROVE  /\ SkillEditor(part1') /\ part1'.files = part1.files
                 /\ part1'.dropped = part1.dropped
                 /\ part1'.loaded = part1.loaded /\ part1'.early = part1.early
      <3>1. PICK a, b, q : a = FALSE /\ b = ~view.mobile /\ q = part1'
        OBVIOUS
      <3>2. q = [part1 EXCEPT !.path = p, !.editing = a, !.tree = b]
        BY <2>1, <3>1 DEF Skills!SelectPath
      <3>3. /\ SkillEditor(q) /\ q.files = part1.files /\ q.dropped = part1.dropped
            /\ q.loaded = part1.loaded /\ q.early = part1.early
        BY <3>2, NothingAsked DEF SkillEditor
      <3> QED  BY <3>1, <3>3
    <2>2. CASE Skills!EditText(2)
      <3>1. PICK x, q : x = Skills!Written(Skills!Selected(store, view), 2) /\ q = part1'
        OBVIOUS
      <3>2. q = [part1 EXCEPT !.text = x]
        BY <2>2, <3>1 DEF Skills!EditText
      <3> QED  BY <3>1, <3>2, NothingAsked, SkillEditorField
    <2>3. CASE Skills!ToggleTree
      <3>1. PICK x, q : x = ~part1.tree /\ q = part1'
        OBVIOUS
      <3>2. q = [part1 EXCEPT !.tree = x]
        BY <2>3, <3>1 DEF Skills!ToggleTree
      <3> QED  BY <3>1, <3>2, NothingAsked, SkillEditorField
    <2>4. CASE Skills!ToggleEditing
      <3>1. PICK x, q : x = ~part1.editing /\ q = part1'
        OBVIOUS
      <3>2. q = [part1 EXCEPT !.editing = x]
        BY <2>4, <3>1 DEF Skills!ToggleEditing
      <3> QED  BY <3>1, <3>2, NothingAsked, SkillEditorField
    <2>5. CASE Skills!OpenAddFile \/ Skills!CancelAddFile
      <3>1. PICK q : q = part1'
        OBVIOUS
      <3>2. PICK x : q = [part1 EXCEPT !.adding = x]
        BY <2>5, <3>1 DEF Skills!OpenAddFile, Skills!CancelAddFile
      <3> QED  BY <3>1, <3>2, NothingAsked, SkillEditorField
    <2>6. CASE Skills!AskDelete \/ Skills!CancelDelete
      <3>1. PICK q : q = part1'
        OBVIOUS
      <3>2. PICK x : q = [part1 EXCEPT !.confirm = x]
        BY <2>6, <3>1 DEF Skills!AskDelete, Skills!CancelDelete
      <3> QED  BY <3>1, <3>2, NothingAsked, SkillEditorField
    <2> QED  BY <2>1, <2>2, <2>3, <2>4, <2>5, <2>6
  <1>3. FilesKept(Skills!Selected(store, view), part1', call, row)
    <2>1. PICK q : q = part1'
      OBVIOUS
    <2>2. FilesKept(Skills!Selected(store, view), q, call, row)
      BY <1>2, <2>1, NothingAsked, KeptByEditor
    <2> QED  BY <2>1, <2>2
  <1> QED  BY <1>1, <1>2, <1>3, NothingAsked, SkillsAlone

\* A file is added behind the others; what is left out is remembered as dropped.
LEMMA FileAppended ==
  ASSUME NEW fs \in Seq(Path), NEW p \in Path
  PROVE  Append(fs, p) \in Seq(Path) /\ PathsOf(fs) \subseteq PathsOf(Append(fs, p))
  <1>1. /\ Append(fs, p) \in Seq(Path) /\ Len(Append(fs, p)) = Len(fs) + 1
        /\ \A i \in 1..Len(fs) : Append(fs, p)[i] = fs[i]
    BY AppendProperties
  <1>2. Len(fs) \in Nat
    BY LenProperties
  <1> QED  BY <1>1, <1>2 DEF PathsOf

LEMMA FileLeftOut ==
  ASSUME NEW fs \in Seq(Path), NEW p
  PROVE  Skills!Without(fs, p) \in Seq(Path)
         /\ PathsOf(fs) \subseteq PathsOf(Skills!Without(fs, p)) \cup {p}
  <1>1. CASE ~Skills!Contains(fs, p)
    BY <1>1 DEF Skills!Without
  <1>2. CASE Skills!Contains(fs, p)
    <2>0. Len(fs) \in Nat /\ DOMAIN fs = 1..Len(fs) /\ \A i \in 1..Len(fs) : fs[i] \in Path
      BY LenProperties, ElementOfSeq
    <2>1. \E k \in DOMAIN fs : fs[k] = p
      BY <1>2, <2>0 DEF Skills!Contains
    <2>2. PICK k : k \in DOMAIN fs /\ fs[k] = p
                   /\ Skills!Without(fs, p) = Skills!RemoveAt(fs, k)
      BY <1>2, <2>1 DEF Skills!Without
    <2>3. PICK a, b : a = SubSeq(fs, 1, k - 1) /\ b = SubSeq(fs, k + 1, Len(fs))
      OBVIOUS
    <2>4. k \in 1..Len(fs) /\ k \in Int /\ Skills!Without(fs, p) = a \o b
      BY <2>0, <2>2, <2>3 DEF Skills!RemoveAt
    <2>5. /\ a \in Seq(Path) /\ Len(a) = k - 1 /\ \A i \in 1..(k - 1) : a[i] = fs[i]
      BY <2>0, <2>3, <2>4, SubSeqProperties
    <2>6. /\ b \in Seq(Path) /\ Len(b) = Len(fs) - k
          /\ \A i \in 1..(Len(fs) - k) : b[i] = fs[k + i]
      <3>1. k + 1 \in Int /\ Len(fs) \in Int
        BY <2>0, <2>4
      <3>2. \A i \in (k + 1)..Len(fs) : fs[i] \in Path
        BY <2>0, <2>4
      <3>3. /\ b \in Seq(Path)
            /\ Len(b) = IF k + 1 <= Len(fs) THEN Len(fs) - (k + 1) + 1 ELSE 0
            /\ \A i \in 1..(Len(fs) - (k + 1) + 1) : b[i] = fs[(k + 1) + i - 1]
        BY <2>3, <3>1, <3>2, SubSeqProperties
      <3>4. ASSUME NEW i \in 1..(Len(fs) - k) PROVE b[i] = fs[k + i]
        <4>1. i \in 1..(Len(fs) - (k + 1) + 1) /\ (k + 1) + i - 1 = k + i
          BY <2>0, <2>4
        <4> QED  BY <3>3, <4>1
      <3>5. Len(b) = Len(fs) - k
        <4>1. CASE k = Len(fs)
          BY <2>0, <2>4, <3>3, <4>1
        <4>2. CASE k # Len(fs)
          <5>1. k + 1 <= Len(fs) /\ Len(fs) - (k + 1) + 1 = Len(fs) - k
            <6>1. ASSUME NEW l \in Nat, NEW j \in 1..l, j # l
                  PROVE  j + 1 <= l /\ l - (j + 1) + 1 = l - j
              BY <6>1
            <6> QED  BY <2>0, <2>4, <4>2, <6>1
          <5> QED  BY <3>3, <5>1
        <4> QED  BY <4>1, <4>2
      <3> QED  BY <3>3, <3>4, <3>5
    <2>7. /\ a \o b \in Seq(Path) /\ Len(a \o b) = Len(fs) - 1
          /\ \A i \in 1..(Len(fs) - 1) : (a \o b)[i] = IF i <= k - 1 THEN fs[i] ELSE fs[i + 1]
      <3>1. /\ a \o b \in Seq(Path) /\ Len(a \o b) = Len(a) + Len(b)
            /\ \A i \in 1..(Len(a) + Len(b)) : (a \o b)[i] =
                  IF i <= Len(a) THEN a[i] ELSE b[i - Len(a)]
        BY <2>5, <2>6, ConcatProperties
      <3> QED  BY <2>0, <2>4, <2>5, <2>6, <3>1
    <2>8. ASSUME NEW i \in 1..Len(fs), fs[i] # p
          PROVE  fs[i] \in PathsOf(a \o b)
      <3>1. CASE i < k
        <4>1. i \in 1..(Len(fs) - 1) /\ i <= k - 1
          BY <2>0, <2>4, <3>1
        <4>2. (a \o b)[i] = fs[i]
          BY <2>7, <4>1
        <4> QED  BY <2>7, <4>1, <4>2 DEF PathsOf
      <3>2. CASE i > k
        <4>1. i - 1 \in 1..(Len(fs) - 1) /\ ~(i - 1 <= k - 1) /\ (i - 1) + 1 = i
          BY <2>0, <2>4, <3>2
        <4>2. (a \o b)[i - 1] = fs[i]
          BY <2>7, <4>1
        <4> QED  BY <2>7, <4>1, <4>2 DEF PathsOf
      <3> QED  BY <2>0, <2>2, <2>4, <2>8, <3>1, <3>2
    <2> QED  BY <2>4, <2>7, <2>8 DEF PathsOf
  <1> QED  BY <1>1, <1>2

\* A click that changes nothing but the editor, and keeps or drops its files.
LEMMA EditorChanged ==
  ASSUME SkillsInv, UNCHANGED <<store, view, row, call>>, SkillEditor(part1'),
         part1'.loaded = part1.loaded, part1'.early = part1.early,
         PathsOf(part1.files) \cup part1.dropped \subseteq PathsOf(part1'.files) \cup part1'.dropped
  PROVE  SkillsInv'
  <1>1. PICK q : q = part1'
    OBVIOUS
  <1>2. FilesKept(Skills!Selected(store, view), q, call, row)
    BY <1>1, NothingAsked, KeptByEditor
  <1> QED  BY <1>1, <1>2, NothingAsked, SkillsAlone

\* handleAddFile and handleDeleteFile.
LEMMA FilesEdited ==
  ASSUME SkillsInv, (\E p \in Path : Skills!AddFile(p)) \/ Skills!DeleteFile
  PROVE  SkillsInv'
  <1>0. SkillEditor(part1) /\ part1.files \in Seq(Path)
    BY NothingAsked DEF SkillEditor
  <1>1. ASSUME NEW p \in Path, Skills!AddFile(p)
        PROVE  SkillsInv'
    <2>1. PICK q, f, a, t : q = part1' /\ f = Append(part1.files, p) /\ a = FALSE
                            /\ t = (part1.tree /\ ~view.mobile)
      OBVIOUS
    <2>2. q = [part1 EXCEPT !.files = f, !.path = p, !.adding = a, !.editing = a, !.tree = t]
      BY <1>1, <2>1 DEF Skills!AddFile
    <2>3. f \in Seq(Path) /\ PathsOf(part1.files) \subseteq PathsOf(f)
      BY <1>0, <2>1, FileAppended
    <2>4. /\ SkillEditor(q) /\ q.files = f /\ q.dropped = part1.dropped
          /\ q.loaded = part1.loaded /\ q.early = part1.early
      BY <1>0, <2>2, <2>3 DEF SkillEditor
    <2>5. UNCHANGED <<store, view, row, call>>
      BY <1>1 DEF Skills!AddFile
    <2> QED  BY <2>1, <2>3, <2>4, <2>5, EditorChanged
  <1>2. CASE Skills!DeleteFile
    <2>1. PICK q, f, x, n, e : /\ q = part1' /\ f = Skills!Without(part1.files, part1.path)
                               /\ x = part1.dropped \cup {part1.path} /\ n = None /\ e = FALSE
      OBVIOUS
    <2>2. q = [part1 EXCEPT !.files = f, !.path = n, !.dropped = x, !.editing = e]
      BY <1>2, <2>1 DEF Skills!DeleteFile
    <2>3. f \in Seq(Path) /\ PathsOf(part1.files) \subseteq PathsOf(f) \cup {part1.path}
      BY <1>0, <2>1, FileLeftOut
    <2>4. /\ SkillEditor(q) /\ q.files = f /\ q.dropped = x
          /\ q.loaded = part1.loaded /\ q.early = part1.early
      BY <1>0, <2>2, <2>3 DEF SkillEditor
    <2>5. UNCHANGED <<store, view, row, call>>
      BY <1>2 DEF Skills!DeleteFile
    <2> QED  BY <2>1, <2>3, <2>4, <2>5, EditorChanged
  <1> QED  BY <1>1, <1>2

\* handleSave: the new save has what the editor has; the earlier ones no longer do.
LEMMA SkillSaved ==
  ASSUME SkillsInv, NEW n \in KSlots, Skills!Save(n)
  PROVE  SkillsInv'
  <1>1. PICK s, d, c : s = Skills!Selected(store, view) /\ d = part1 /\ c = call
    OBVIOUS
  <1>2. s \in Skill \cup {None} /\ s # None
    BY <1>1, ShownSkill DEF Skills!Save, Skills!DetailShown
  <1>3. SkillEditor(d) /\ SkillCalls(c) /\ FilesKept(s, d, c, row)
    BY <1>1, NothingAsked
  <1>4. PICK r : r = [Skills!Request("save", s) EXCEPT
                        !.text = d.text, !.files = d.files,
                        !.loaded = d.loaded, !.dropped = d.dropped]
    OBVIOUS
  <1>5. /\ SkillCall(r) /\ r.kind = "save" /\ r.skill = s /\ r.status = "sent"
        /\ r.files = d.files /\ r.loaded = d.loaded /\ r.dropped = d.dropped
    <2>1. PICK i : i = Skills!Request("save", s)
      OBVIOUS
    <2>2. SkillCall(i) /\ i.kind = "save" /\ i.skill = s /\ i.status = "sent"
      BY <1>2, <2>1, SkillRequests
    <2>3. r = [i EXCEPT !.text = d.text, !.files = d.files, !.loaded = d.loaded,
                        !.dropped = d.dropped]
      BY <1>4, <2>1
    <2>4. d.files \in Seq(Path)
      BY <1>3 DEF SkillEditor
    <2> QED  BY <2>2, <2>3, <2>4 DEF SkillCall
  <1>6. PICK e, q : e = call' /\ q = part1'
    OBVIOUS
  <1>7. /\ n \in KSlots /\ c[n].kind = "idle"
        /\ e = [m \in KSlots |-> IF m = n THEN r
                                 ELSE IF m \in OnWay(c, s) THEN [c[m] EXCEPT !.loaded = FALSE]
                                 ELSE c[m]]
    BY <1>1, <1>4, <1>6 DEF Skills!Save, Skills!Saving, Skills!FreeSlots, OnWay, KSlots
  <1>8. SkillEditor(q) /\ q.files = d.files /\ q.dropped = d.dropped
        /\ q.loaded = d.loaded /\ q.early = ~d.loaded
    <2>1. PICK t, b : t = TRUE /\ b = ~d.loaded
      OBVIOUS
    <2>2. q = [d EXCEPT !.saving = t, !.early = b]
      BY <1>1, <1>6, <2>1 DEF Skills!Save
    <2>3. SkillEditor(q) /\ q.files = d.files /\ q.dropped = d.dropped
          /\ q.loaded = d.loaded /\ q.early = b
      BY <1>3, <2>2 DEF SkillEditor
    <2> QED  BY <2>1, <2>3
  <1>9. ASSUME NEW m \in KSlots, m # n
        PROVE  /\ SkillCall(e[m]) /\ e[m].kind = c[m].kind /\ e[m].mine = c[m].mine
               /\ e[m].skill = c[m].skill /\ e[m].files = c[m].files
               /\ e[m].dropped = c[m].dropped /\ e[m].status = c[m].status
               /\ m \in OnWay(c, s) => ~e[m].loaded
               /\ m \notin OnWay(c, s) => e[m] = c[m]
    <2>1. SkillCall(c[m])
      BY <1>3 DEF SkillCalls
    <2>2. CASE m \notin OnWay(c, s)
      BY <1>7, <1>9, <2>1, <2>2
    <2>3. CASE m \in OnWay(c, s)
      <3>1. PICK o, f, x : o = c[m] /\ f = FALSE /\ x = e[m]
        OBVIOUS
      <3>2. SkillCall(o) /\ x = [o EXCEPT !.loaded = f]
        BY <1>7, <1>9, <2>1, <2>3, <3>1
      <3>3. /\ SkillCall(x) /\ x.kind = o.kind /\ x.mine = o.mine /\ x.skill = o.skill
            /\ x.files = o.files /\ x.loaded = f /\ x.dropped = o.dropped
            /\ x.status = o.status
        BY ONLY <3>2, SkillCallField
      <3> QED  BY <2>3, <3>1, <3>3
    <2> QED  BY <2>2, <2>3
  <1>10. e[n] = r
    BY <1>7
  <1>11. SkillCalls(e)
    <2>1. e = [m \in KSlots |-> e[m]]
      BY <1>7
    <2> QED  BY <1>5, <1>9, <1>10, <2>1 DEF SkillCalls
  <1>12. /\ OnWay(e, s) = OnWay(c, s) \cup {n}
         /\ \A z : z # s => OnWay(e, z) = OnWay(c, z)
    BY <1>5, <1>7, <1>9, <1>10 DEF OnWay
  <1>13. LoadsFit(s, q, e, row)
    <2>1. \A m \in KSlots : MyLoad(e[m]) => MyLoad(c[m]) /\ m # n /\ e[m].skill = c[m].skill
      BY <1>5, <1>9, <1>10 DEF MyLoad
    <2> QED  BY <1>3, <1>8, <2>1 DEF FilesKept, LoadsFit
  <1>14. ASSUME d.loaded
         PROVE  /\ PathsOf(row[s].files) \subseteq PathsOf(d.files) \cup d.dropped
                /\ \A m \in OnWay(e, s) : PathsOf(e[m].files) \subseteq PathsOf(d.files) \cup d.dropped
    <2>1. /\ PathsOf(row[s].files) \subseteq PathsOf(d.files) \cup d.dropped
          /\ \A m \in OnWay(c, s) : PathsOf(c[m].files) \subseteq PathsOf(d.files) \cup d.dropped
      BY <1>3, <1>14 DEF FilesKept, EditorHas
    <2>2. \A m \in OnWay(c, s) : m # n /\ e[m].files = c[m].files
      BY <1>7, <1>9 DEF OnWay
    <2> QED  BY <1>5, <1>10, <1>12, <2>1, <2>2
  <1>15. EditorHas(s, q, e, row)
    BY <1>2, <1>8, <1>14 DEF EditorHas
  <1>16. SavesHave(e, row)
    <2> SUFFICES ASSUME NEW m \in KSlots, e[m].kind = "save", e[m].status = "sent", e[m].loaded
                 PROVE  /\ e[m].skill # None
                        /\ PathsOf(row[e[m].skill].files) \subseteq PathsOf(e[m].files) \cup e[m].dropped
                        /\ \A l \in OnWay(e, e[m].skill) :
                             PathsOf(e[l].files) \subseteq PathsOf(e[m].files) \cup e[m].dropped
      BY DEF SavesHave
    <2>1. CASE m = n
      BY <1>2, <1>5, <1>10, <1>14, <2>1
    <2>2. CASE m # n
      <3>1. e[m] = c[m] /\ c[m].skill # s
        BY <1>9, <2>2 DEF OnWay
      <3>2. /\ c[m].skill # None
            /\ PathsOf(row[c[m].skill].files) \subseteq PathsOf(c[m].files) \cup c[m].dropped
            /\ \A l \in OnWay(c, c[m].skill) :
                 PathsOf(c[l].files) \subseteq PathsOf(c[m].files) \cup c[m].dropped
        BY <1>3, <3>1 DEF FilesKept, SavesHave
      <3>3. \A l \in OnWay(c, c[m].skill) : l # n /\ e[l].files = c[l].files
        BY <1>7, <1>9 DEF OnWay
      <3> QED  BY <1>12, <3>1, <3>2, <3>3
    <2> QED  BY <2>1, <2>2
  <1>17. FilesKept(s, q, e, row)
    BY <1>13, <1>15, <1>16 DEF FilesKept
  <1>18. UNCHANGED <<store, view, row>>
    BY DEF Skills!Save
  <1> QED  BY <1>1, <1>6, <1>8, <1>11, <1>17, <1>18, SkillsAlone

\* The other requests: a new skill, the removal of one, the list again.
LEMMA SkillAsked ==
  ASSUME SkillsInv, NEW n \in KSlots,
         Skills!SubmitDialog(n) \/ Skills!ConfirmDelete(n) \/ Skills!RefreshSkills(n)
  PROVE  SkillsInv'
  <1>0. SkillEditor(part1) /\ SkillCalls(call) /\ SkillTable(store)
    BY NothingAsked
  <1>1. ASSUME NEW r, SkillCall(r), r.kind \notin {"load", "save"}, Skills!Send(n, r)
        PROVE  /\ SkillCalls(call')
               /\ FilesKept(Skills!Selected(store, view), part1, call', row)
    <2>1. PICK e, s : e = call' /\ s = Skills!Selected(store, view)
      OBVIOUS
    <2>2. e = [m \in KSlots |-> IF m = n THEN r ELSE call[m]]
      BY <1>0, <1>1, <2>1 DEF Skills!Send, SkillCalls
    <2>3. SkillCalls(e)
      BY <1>0, <1>1, <2>2 DEF SkillCalls
    <2>4. FilesKept(s, part1, e, row)
      BY <1>1, <2>1, <2>2, NothingAsked, KeptByCalls
    <2> QED  BY <2>1, <2>3, <2>4
  <1>2. CASE Skills!SubmitDialog(n)
    <2>1. PICK r : r = Skills!Request("create", None)
      OBVIOUS
    <2>2. SkillCall(r) /\ r.kind \notin {"load", "save"}
      BY <2>1, SkillRequests
    <2>3. Skills!Send(n, r) /\ UNCHANGED <<store, view, part1, row>>
      BY <1>2, <2>1 DEF Skills!SubmitDialog
    <2> QED  BY <1>0, <1>1, <2>2, <2>3, SkillsAlone
  <1>3. CASE Skills!ConfirmDelete(n)
    <2>1. PICK s, i, h, o : /\ s = Skills!Selected(store, view) /\ i = Skills!Request("delete", s)
                            /\ h = (view.chosen = s) /\ o = Skills!Listed(store) \ {s}
      OBVIOUS
    <2>2. SkillCall(i) /\ i.kind = "delete"
      BY <2>1, ShownSkill, SkillRequests
    <2>3. PICK r : r = [i EXCEPT !.chosen = h, !.rest = o]
      OBVIOUS
    <2>4. SkillCall(r) /\ r.kind = i.kind
      BY <2>2, <2>3 DEF SkillCall
    <2>5. Skills!Send(n, r) /\ UNCHANGED <<store, view, row>>
      BY <1>3, <2>1, <2>3 DEF Skills!ConfirmDelete
    <2>6. PICK q, f : q = part1' /\ f = FALSE
      OBVIOUS
    <2>7. q = [part1 EXCEPT !.confirm = f]
      BY <1>3, <2>6 DEF Skills!ConfirmDelete
    <2>8. /\ SkillEditor(q) /\ q.files = part1.files /\ q.dropped = part1.dropped
          /\ q.loaded = part1.loaded /\ q.early = part1.early
      BY <1>0, <2>7, SkillEditorField
    <2>9. PICK e, z : e = call' /\ z = Skills!Selected(store, view)
      OBVIOUS
    <2>10. SkillCalls(e) /\ FilesKept(z, part1, e, row)
      BY <1>1, <2>2, <2>4, <2>5, <2>9
    <2>11. FilesKept(z, q, e, row)
      BY <2>8, <2>10, KeptByEditor
    <2> QED  BY <2>5, <2>6, <2>8, <2>9, <2>10, <2>11, SkillsAlone
  <1>4. CASE Skills!RefreshSkills(n)
    <2>1. PICK i, f, t : /\ i = Skills!Request("list", None) /\ f = FALSE
                         /\ t = [s \in Skill |-> [store[s] EXCEPT !.text = Skills!Written(s, 0)]]
      OBVIOUS
    <2>2. PICK r : r = [i EXCEPT !.mine = f, !.seen = t]
      OBVIOUS
    <2>3. Skills!Send(n, r) /\ UNCHANGED <<store, view, part1, row>>
      BY <1>4, <2>1, <2>2 DEF Skills!RefreshSkills
    <2>4. SkillTable(t)
      <3>1. ASSUME NEW s \in Skill PROVE SkillRow(t[s])
        <4>1. PICK o, x, w : o = store[s] /\ x = Skills!Written(s, 0) /\ w = t[s]
          OBVIOUS
        <4>2. w = [o EXCEPT !.text = x] /\ SkillRow(o)
          BY <1>0, <2>1, <4>1 DEF SkillTable
        <4> QED  BY <4>1, <4>2 DEF SkillRow
      <3>2. t = [s \in Skill |-> t[s]]
        BY <2>1
      <3> QED  BY <3>1, <3>2 DEF SkillTable
    <2>5. SkillCall(r) /\ r.kind = "list"
      <3>1. PICK j, k, u, b : /\ j = Skills!Idle /\ k = "list" /\ u = "sent" /\ b = TRUE
        OBVIOUS
      <3>2. i = [j EXCEPT !.kind = k, !.skill = None, !.status = u, !.mine = b]
        BY <2>1, <3>1 DEF Skills!Request
      <3>3. SkillCall(j)
        BY <3>1, SkillRequests
      <3>4. r.kind = k /\ SkillCall(r)
        BY <2>2, <2>4, <3>2, <3>3 DEF SkillCall
      <3> QED  BY <3>1, <3>4
    <2> QED  BY <1>0, <1>1, <2>3, <2>5, SkillsAlone
  <1> QED  BY <1>2, <1>3, <1>4

\* Somebody else edits a skill: its files stay.
LEMMA SkillEdited ==
  ASSUME SkillsInv, NEW s \in Skill, Skills!ServerEdits(s)
  PROVE  SkillsInv'
  <1>1. PICK z, w, t : z = Skills!Selected(store, view) /\ w = row' /\ t = Skills!Written(s, 3)
    OBVIOUS
  <1>2. w = [row EXCEPT ![s].text = t] /\ UNCHANGED <<store, view, part1, call>>
    BY <1>1 DEF Skills!ServerEdits
  <1>3. \A q \in Skill : SkillRow(w[q]) /\ w[q].files = row[q].files
    BY <1>2, NothingAsked DEF SkillTable, SkillRow
  <1>4. SkillTable(w)
    <2>1. w = [q \in Skill |-> w[q]]
      BY <1>2, NothingAsked DEF SkillTable
    <2> QED  BY <1>3, <2>1 DEF SkillTable
  <1>5. FilesKept(z, part1, call, w)
    <2>1. z \in Skill \cup {None} /\ SkillCalls(call) /\ FilesKept(z, part1, call, row)
      BY <1>1, NothingAsked, ShownSkill
    <2>2. \A q \in Skill : PathsOf(w[q].files) \subseteq PathsOf(row[q].files)
      BY <1>3
    <2> QED  BY <2>1, <2>2, KeptByRows
  <1> QED  BY <1>1, <1>2, <1>4, <1>5, NothingAsked DEF SkillsInv, SkillsShape

\* The server's table after a request r: only a save of a skill may add files to it.
LEMMA SkillApplied ==
  ASSUME SkillTable(row), NEW r, SkillCall(r), NEW w, w = Skills!Applied(r)
  PROVE  /\ SkillTable(w)
         /\ \A x \in Skill : \/ PathsOf(w[x].files) \subseteq PathsOf(row[x].files)
                             \/ r.kind = "save" /\ r.skill = x /\ w[x].files = r.files
  <1>0. r.files \in Seq(Path) /\ row = [q \in Skill |-> row[q]] /\ \A q \in Skill : SkillRow(row[q])
    BY DEF SkillCall, SkillTable
  <1>1. CASE r.kind = "save"
    <2>1. PICK s, x, f : s = r.skill /\ x = r.text /\ f = r.files
      OBVIOUS
    <2>2. w = [row EXCEPT ![s].text = x, ![s].files = f]
      BY <1>1, <2>1 DEF Skills!Applied
    <2>3. ASSUME NEW q \in Skill
          PROVE  SkillRow(w[q]) /\ (q # s => w[q] = row[q]) /\ (q = s => w[q].files = f)
      <3>1. PICK o, u : o = row[q] /\ u = w[q]
        OBVIOUS
      <3>2. /\ q # s => u = o
            /\ q = s => u = [o EXCEPT !.text = x, !.files = f]
        BY <1>0, <2>2, <3>1
      <3>3. SkillRow(o) /\ f \in Seq(Path)
        BY <1>0, <2>1, <3>1
      <3>4. q = s => SkillRow(u) /\ u.files = f
        BY <3>2, <3>3 DEF SkillRow
      <3> QED  BY <3>1, <3>2, <3>3, <3>4
    <2>4. w = [q \in Skill |-> w[q]]
      BY <1>0, <2>2
    <2> QED  BY <1>1, <2>1, <2>3, <2>4 DEF SkillTable
  <1>2. ASSUME NEW o, SkillRow(o), o.files = <<>>, w = [row EXCEPT ![r.skill] = o]
        PROVE  /\ SkillTable(w)
               /\ \A x \in Skill : PathsOf(w[x].files) \subseteq PathsOf(row[x].files)
    <2>1. \A q \in Skill : w[q] = row[q] \/ w[q] = o
      BY <1>0, <1>2
    <2>2. w = [q \in Skill |-> w[q]]
      BY <1>0, <1>2
    <2>3. PathsOf(o.files) = {}
      BY <1>2, EmptySeq DEF PathsOf
    <2> QED  BY <1>0, <1>2, <2>1, <2>2, <2>3 DEF SkillTable
  <1>3. CASE r.kind = "delete"
    <2>1. PICK o : o = Skills!NoSkill
      OBVIOUS
    <2>2. o.files = <<>> /\ o = [exists |-> o.exists, text |-> o.text, files |-> o.files]
      BY <2>1 DEF Skills!NoSkill
    <2> QED  BY <1>2, <1>3, <2>1, <2>2, EmptySeq DEF SkillRow, Skills!Applied
  <1>4. CASE r.kind = "create"
    <2>1. PICK o : o = Skills!NewSkill(r.skill)
      OBVIOUS
    <2>2. o.files = <<>> /\ o = [exists |-> o.exists, text |-> o.text, files |-> o.files]
      BY <2>1 DEF Skills!NewSkill
    <2> QED  BY <1>2, <1>4, <2>1, <2>2, EmptySeq DEF SkillRow, Skills!Applied
  <1>5. CASE r.kind \notin {"save", "delete", "create"}
    BY <1>5 DEF Skills!Applied
  <1> QED  BY <1>1, <1>3, <1>4, <1>5

\* The answer a to a request; the server's table becomes tw.
LEMMA AnsweredKeeps ==
  ASSUME NEW s \in Skill \cup {None}, NEW d, NEW c, SkillCalls(c), NEW rw, FilesKept(s, d, c, rw),
         NEW n \in KSlots, c[n].status = "sent",
         NEW a, a.status # "sent", a.kind = c[n].kind, a.mine = c[n].mine,
         NEW tw,
         \A x \in Skill : \/ PathsOf(tw[x].files) \subseteq PathsOf(rw[x].files)
                          \/ n \in OnWay(c, x) /\ tw[x].files = c[n].files,
         a.kind = "load" => /\ a.skill = c[n].skill
                            /\ a.status = "ok" /\ a.loaded /\ a.skill \in Skill \ {None} =>
                                 OnWay(c, a.skill) = {} /\ PathsOf(tw[a.skill].files) \subseteq PathsOf(a.files),
         NEW e, e = [m \in KSlots |-> IF m = n THEN a ELSE c[m]]
  PROVE  FilesKept(s, d, e, tw)
  <1>1. e[n] = a /\ \A m \in KSlots : m # n => e[m] = c[m]
    OBVIOUS
  <1>2. \A z : OnWay(e, z) = OnWay(c, z) \ {n} /\ \A m \in OnWay(e, z) : e[m] = c[m]
    BY <1>1 DEF OnWay
  <1>3. LoadsFit(s, d, e, tw)
    <2>1. \A m \in KSlots : MyLoad(e[m]) => MyLoad(c[m]) /\ e[m].skill = c[m].skill
      BY <1>1 DEF MyLoad
    <2>2. ASSUME NEW m \in KSlots, MyLoad(e[m]), e[m].status = "ok", e[m].loaded, ~d.early
          PROVE  OnWay(e, s) = {} /\ PathsOf(tw[s].files) \subseteq PathsOf(e[m].files)
      <3>1. MyLoad(c[m]) /\ c[m].skill = s /\ s \in Skill \ {None}
        BY <2>1, <2>2 DEF FilesKept, LoadsFit
      <3>2. CASE m = n
        BY <1>1, <1>2, <2>2, <3>1, <3>2 DEF MyLoad
      <3>3. CASE m # n
        <4>1. OnWay(c, s) = {} /\ PathsOf(rw[s].files) \subseteq PathsOf(c[m].files)
          BY <1>1, <2>2, <3>1, <3>3 DEF FilesKept, LoadsFit
        <4> QED  BY <1>1, <1>2, <3>1, <3>3, <4>1
      <3> QED  BY <3>2, <3>3
    <2> QED  BY <2>1, <2>2 DEF FilesKept, LoadsFit
  <1>4. EditorHas(s, d, e, tw)
    <2>1. ASSUME d.loaded
          PROVE  /\ s # None
                 /\ PathsOf(rw[s].files) \subseteq PathsOf(d.files) \cup d.dropped
                 /\ \A m \in OnWay(c, s) : PathsOf(c[m].files) \subseteq PathsOf(d.files) \cup d.dropped
      BY <2>1 DEF FilesKept, EditorHas
    <2>2. d.loaded => PathsOf(tw[s].files) \subseteq PathsOf(d.files) \cup d.dropped
      BY <2>1
    <2> QED  BY <1>2, <2>1, <2>2 DEF EditorHas
  <1>5. SavesHave(e, tw)
    <2> SUFFICES ASSUME NEW m \in KSlots, e[m].kind = "save", e[m].status = "sent", e[m].loaded
                 PROVE  /\ e[m].skill # None
                        /\ PathsOf(tw[e[m].skill].files) \subseteq PathsOf(e[m].files) \cup e[m].dropped
                        /\ \A l \in OnWay(e, e[m].skill) :
                             PathsOf(e[l].files) \subseteq PathsOf(e[m].files) \cup e[m].dropped
      BY DEF SavesHave
    <2>1. m # n /\ e[m] = c[m]
      BY <1>1
    <2>2. /\ c[m].skill # None
          /\ PathsOf(rw[c[m].skill].files) \subseteq PathsOf(c[m].files) \cup c[m].dropped
          /\ \A l \in OnWay(c, c[m].skill) :
               PathsOf(c[l].files) \subseteq PathsOf(c[m].files) \cup c[m].dropped
      BY <2>1 DEF FilesKept, SavesHave
    <2>3. c[m].skill \in Skill
      BY <2>2 DEF SkillCalls, SkillCall
    <2>4. PathsOf(tw[c[m].skill].files) \subseteq PathsOf(c[m].files) \cup c[m].dropped
      BY <2>2, <2>3
    <2> QED  BY <1>2, <2>1, <2>2, <2>4
  <1> QED  BY <1>3, <1>4, <1>5 DEF FilesKept

\* The server answers, or refuses.
LEMMA SkillAnswered ==
  ASSUME SkillsInv, NEW n \in KSlots, Skills!Answer(n)
  PROVE  SkillsInv'
  <1>1. PICK r, w, e, z : r = call[n] /\ w = row' /\ e = call' /\ z = Skills!Selected(store, view)
    OBVIOUS
  <1>2. /\ SkillCall(r) /\ r.status = "sent" /\ SkillCalls(call) /\ SkillTable(row)
        /\ z \in Skill \cup {None} /\ FilesKept(z, part1, call, row)
        /\ UNCHANGED <<store, view, part1>>
    BY <1>1, NothingAsked, ShownSkill DEF Skills!Answer, SkillCalls
  <1>3. ASSUME NEW a, SkillCall(a), a.status # "sent", a.kind = r.kind, a.mine = r.mine,
               \A x \in Skill : \/ PathsOf(w[x].files) \subseteq PathsOf(row[x].files)
                                \/ n \in OnWay(call, x) /\ w[x].files = r.files,
               a.kind = "load" => /\ a.skill = r.skill
                                  /\ a.status = "ok" /\ a.loaded /\ a.skill \in Skill \ {None} =>
                                       OnWay(call, a.skill) = {}
                                       /\ PathsOf(w[a.skill].files) \subseteq PathsOf(a.files),
               e = [m \in KSlots |-> IF m = n THEN a ELSE call[m]], SkillTable(w)
        PROVE  SkillsInv'
    <2>1. FilesKept(z, part1, e, w)
      <3>1. PICK c, d, v : c = call /\ d = part1 /\ v = row
        OBVIOUS
      <3>2. /\ z \in Skill \cup {None} /\ SkillCalls(c) /\ FilesKept(z, d, c, v)
            /\ c[n].status = "sent" /\ a.status # "sent" /\ a.kind = c[n].kind /\ a.mine = c[n].mine
        BY <1>1, <1>2, <1>3, <3>1
      <3>3. \A x \in Skill : \/ PathsOf(w[x].files) \subseteq PathsOf(v[x].files)
                             \/ n \in OnWay(c, x) /\ w[x].files = c[n].files
        BY <1>1, <1>3, <3>1
      <3>4. a.kind = "load" => /\ a.skill = c[n].skill
                               /\ a.status = "ok" /\ a.loaded /\ a.skill \in Skill \ {None} =>
                                    OnWay(c, a.skill) = {}
                                    /\ PathsOf(w[a.skill].files) \subseteq PathsOf(a.files)
        BY <1>1, <1>3, <3>1
      <3>5. e = [m \in KSlots |-> IF m = n THEN a ELSE c[m]]
        BY <1>3, <3>1
      <3>6. FilesKept(z, d, e, w)
        BY ONLY <3>2, <3>3, <3>4, <3>5, AnsweredKeeps
      <3> QED  BY <3>1, <3>6
    <2>2. SkillCalls(e)
      BY <1>2, <1>3 DEF SkillCalls
    <2> QED  BY <1>1, <1>2, <1>3, <2>1, <2>2, NothingAsked DEF SkillsInv, SkillsShape
  <1>4. CASE e = [call EXCEPT ![n].status = "error"] /\ UNCHANGED row
    <2>1. PICK x, a : x = "error" /\ a = [r EXCEPT !.status = x]
      OBVIOUS
    <2>2. /\ SkillCall(a) /\ a.kind = r.kind /\ a.mine = r.mine /\ a.skill = r.skill
          /\ a.status = x
      BY <1>2, <2>1, SkillCallField
    <2>3. e = [m \in KSlots |-> IF m = n THEN a ELSE call[m]]
      <3>1. e = [call EXCEPT ![n] = [r EXCEPT !.status = x]]
        BY <1>1, <1>4, <2>1
      <3> QED  BY <1>2, <2>1, <3>1 DEF SkillCalls
    <2> QED  BY <1>1, <1>2, <1>3, <1>4, <2>1, <2>2, <2>3
  <1>5. CASE \E s \in IF call[n].kind = "create" THEN {q \in Skill : ~row[q].exists}
                                                 ELSE {call[n].skill} :
               /\ row' = Skills!Applied([call[n] EXCEPT !.skill = s])
               /\ call' = [call EXCEPT ![n].status = "ok", ![n].skill = s,
                    ![n].loaded = IF call[n].kind = "load" THEN Skills!Saving(s) = {} ELSE @,
                    ![n].text = IF s = None THEN @
                                ELSE Skills!Applied([call[n] EXCEPT !.skill = s])[s].text,
                    ![n].files = IF s = None THEN @
                                 ELSE Skills!Applied([call[n] EXCEPT !.skill = s])[s].files,
                    ![n].seen = IF call[n].kind # "list" THEN @
                                ELSE [q \in Skill |->
                                       [Skills!Applied([call[n] EXCEPT !.skill = s])[q] EXCEPT
                                          !.files = call[n].seen[q].files]]]
    <2>1. PICK s \in IF call[n].kind = "create" THEN {q \in Skill : ~row[q].exists}
                                                ELSE {call[n].skill} :
               /\ row' = Skills!Applied([call[n] EXCEPT !.skill = s])
               /\ call' = [call EXCEPT ![n].status = "ok", ![n].skill = s,
                    ![n].loaded = IF call[n].kind = "load" THEN Skills!Saving(s) = {} ELSE @,
                    ![n].text = IF s = None THEN @
                                ELSE Skills!Applied([call[n] EXCEPT !.skill = s])[s].text,
                    ![n].files = IF s = None THEN @
                                 ELSE Skills!Applied([call[n] EXCEPT !.skill = s])[s].files,
                    ![n].seen = IF call[n].kind # "list" THEN @
                                ELSE [q \in Skill |->
                                       [Skills!Applied([call[n] EXCEPT !.skill = s])[q] EXCEPT
                                          !.files = call[n].seen[q].files]]]
      BY <1>5
    <2>2. PICK t, o, l, x, f, g :
               /\ t = Skills!Applied([call[n] EXCEPT !.skill = s])
               /\ o = "ok"
               /\ l = (IF call[n].kind = "load" THEN Skills!Saving(s) = {} ELSE call[n].loaded)
               /\ x = (IF s = None THEN call[n].text
                       ELSE Skills!Applied([call[n] EXCEPT !.skill = s])[s].text)
               /\ f = (IF s = None THEN call[n].files
                       ELSE Skills!Applied([call[n] EXCEPT !.skill = s])[s].files)
               /\ g = (IF call[n].kind # "list" THEN call[n].seen
                       ELSE [q \in Skill |->
                              [Skills!Applied([call[n] EXCEPT !.skill = s])[q] EXCEPT
                                 !.files = call[n].seen[q].files]])
      OBVIOUS
    <2>3. call' = [call EXCEPT ![n].status = o, ![n].skill = s, ![n].loaded = l, ![n].text = x,
                               ![n].files = f, ![n].seen = g]
      BY <2>1, <2>2
    <2>4. s \in Skill \cup {None} /\ (r.kind # "create" => s = r.skill)
      BY <1>1, <1>2, <2>1 DEF SkillCall
    <2>5. t = Skills!Applied([r EXCEPT !.skill = s]) /\ w = t
      BY <1>1, <2>1, <2>2
    <2>6. /\ l = (IF r.kind = "load" THEN Skills!Saving(s) = {} ELSE r.loaded)
          /\ x = (IF s = None THEN r.text ELSE t[s].text)
          /\ f = (IF s = None THEN r.files ELSE t[s].files)
          /\ g = (IF r.kind # "list" THEN r.seen
                  ELSE [q \in Skill |-> [t[q] EXCEPT !.files = r.seen[q].files]])
      BY <1>1, <2>2
    <2>7. e = [call EXCEPT ![n].status = o, ![n].skill = s, ![n].loaded = l, ![n].text = x,
                           ![n].files = f, ![n].seen = g]
      BY <1>1, <2>3
    <2>8. o = "ok"
      BY <2>2
    <2>9. PICK b : b = [r EXCEPT !.skill = s]
      OBVIOUS
    <2>10. SkillCall(b) /\ b.kind = r.kind /\ b.skill = s /\ b.files = r.files
      BY <1>2, <2>4, <2>9 DEF SkillCall
    <2>11. /\ SkillTable(t)
           /\ \A q \in Skill : \/ PathsOf(t[q].files) \subseteq PathsOf(row[q].files)
                               \/ r.kind = "save" /\ s = q /\ t[q].files = r.files
      <3>1. t = Skills!Applied(b)
        BY <2>5, <2>9
      <3> QED  BY <1>2, <2>10, <3>1, SkillApplied
    <2>12. PICK a : a = [r EXCEPT !.status = o, !.skill = s, !.loaded = l, !.text = x,
                                 !.files = f, !.seen = g]
      OBVIOUS
    <2>13. e = [m \in KSlots |-> IF m = n THEN a ELSE call[m]]
      BY <1>1, <1>2, <2>7, <2>12 DEF SkillCalls
    <2>14. f \in Seq(Path)
      BY <1>2, <2>4, <2>6, <2>11 DEF SkillTable, SkillRow, SkillCall
    <2>15. r.kind = "list" => SkillTable(g)
      <3>1. ASSUME r.kind = "list", NEW q \in Skill
            PROVE  SkillRow(g[q])
        <4>1. PICK u, v, y : u = t[q] /\ v = r.seen[q].files /\ y = g[q]
          OBVIOUS
        <4>2. y = [u EXCEPT !.files = v]
          BY <2>6, <3>1, <4>1
        <4>3. SkillRow(u) /\ v \in Seq(Path)
          BY <1>2, <2>11, <3>1, <4>1 DEF SkillTable, SkillCall, SkillRow
        <4> QED  BY <4>1, <4>2, <4>3 DEF SkillRow
      <3>2. r.kind = "list" => g = [q \in Skill |-> g[q]]
        BY <2>6
      <3> QED  BY <3>1, <3>2 DEF SkillTable
    <2>16. /\ SkillCall(a) /\ a.kind = r.kind /\ a.mine = r.mine /\ a.skill = s
           /\ a.status = o /\ a.loaded = l /\ a.files = f
      BY <1>2, <2>4, <2>12, <2>14, <2>15 DEF SkillCall
    <2>17. a.kind = "load" => /\ a.skill = r.skill
                              /\ a.status = "ok" /\ a.loaded /\ a.skill \in Skill \ {None} =>
                                   OnWay(call, a.skill) = {}
                                   /\ PathsOf(w[a.skill].files) \subseteq PathsOf(a.files)
      <3>1. Skills!Saving(s) = OnWay(call, s)
        BY DEF Skills!Saving, OnWay, KSlots
      <3> QED  BY <2>4, <2>5, <2>6, <2>16, <3>1
    <2>18. \A q \in Skill : \/ PathsOf(w[q].files) \subseteq PathsOf(row[q].files)
                            \/ n \in OnWay(call, q) /\ w[q].files = r.files
      BY <1>1, <1>2, <2>4, <2>5, <2>11 DEF OnWay
    <2> QED  BY <1>3, <2>5, <2>8, <2>11, <2>13, <2>16, <2>17, <2>18
  <1> QED  BY <1>1, <1>4, <1>5 DEF Skills!Answer

\* A request is over: its slot is free again.
LEMMA SkillCallEnds ==
  ASSUME SkillsInv, NEW n \in KSlots, NEW e, e = [call EXCEPT ![n] = Skills!Idle]
  PROVE  /\ SkillCalls(e)
         /\ FilesKept(Skills!Selected(store, view), part1, e, row)
         /\ e[n].kind = "idle" /\ \A m \in KSlots : m # n => e[m] = call[m]
  <1>1. PICK i, z : i = Skills!Idle /\ z = Skills!Selected(store, view)
    OBVIOUS
  <1>2. SkillCall(i) /\ i.kind = "idle"
    BY <1>1, SkillRequests
  <1>3. e = [m \in KSlots |-> IF m = n THEN i ELSE call[m]]
    BY <1>1, NothingAsked DEF SkillCalls
  <1>4. SkillCalls(e)
    BY <1>2, <1>3, NothingAsked DEF SkillCalls
  <1>5. FilesKept(z, part1, e, row)
    BY <1>1, <1>2, <1>3, NothingAsked, KeptByCalls
  <1> QED  BY <1>1, <1>2, <1>3, <1>4, <1>5

\* The store after a request that brought a skill.
LEMMA SkillUpserted ==
  ASSUME SkillTable(store), NEW r, SkillCall(r)
  PROVE  SkillTable(Skills!Upserted(r))
  <1>1. PICK s, o, t : /\ s = r.skill /\ o = [exists |-> TRUE, text |-> r.text, files |-> r.files]
                       /\ t = Skills!Upserted(r)
    OBVIOUS
  <1>2. t = [store EXCEPT ![s] = o]
    BY <1>1 DEF Skills!Upserted
  <1>3. SkillRow(o)
    BY <1>1 DEF SkillRow, SkillCall
  <1>4. t = [q \in Skill |-> t[q]] /\ \A q \in Skill : t[q] = o \/ t[q] = store[q]
    BY <1>2 DEF SkillTable
  <1>5. SkillTable(t)
    BY <1>3, <1>4 DEF SkillTable
  <1> QED  BY <1>1, <1>5

\* The fetched skill: the editor that asked for it takes its files.
LEMMA SkillLoaded ==
  ASSUME SkillsInv, NEW n \in KSlots, Skills!Loaded(n)
  PROVE  SkillsInv'
  <1>1. PICK r, e, t, z : /\ r = call[n] /\ e = [call EXCEPT ![n] = Skills!Idle]
                          /\ t = Skills!Upserted(r) /\ z = Skills!Selected(store, view)
    OBVIOUS
  <1>2. SkillCall(r) /\ r.kind = "load" /\ r.status = "ok" /\ SkillEditor(part1)
    BY <1>1, NothingAsked DEF SkillCalls, Skills!Loaded, Skills!Done
  <1>3. /\ SkillCalls(e) /\ FilesKept(z, part1, e, row) /\ SkillTable(t)
        /\ e[n].kind = "idle" /\ \A m \in KSlots : m # n => e[m] = call[m]
    BY <1>1, <1>2, NothingAsked, SkillCallEnds, SkillUpserted
  <1>4. PICK d : /\ d = IF r.mine
                          THEN [part1 EXCEPT !.files = r.files, !.loading = FALSE,
                                             !.loaded = r.loaded /\ ~part1.early]
                          ELSE part1
                 /\ Skills!Render(t, view, e, d)
    BY <1>1 DEF Skills!Loaded
  <1>5. SkillEditor(d) /\ FilesKept(z, d, e, row)
    <2>1. CASE ~r.mine
      BY <1>2, <1>3, <1>4, <2>1
    <2>2. CASE r.mine
      <3>1. PICK f, l, b : f = r.files /\ l = FALSE /\ b = (r.loaded /\ ~part1.early)
        OBVIOUS
      <3>2. d = [part1 EXCEPT !.files = f, !.loading = l, !.loaded = b]
        BY <1>4, <2>2, <3>1
      <3>3. f \in Seq(Path)
        BY <1>2, <3>1 DEF SkillCall
      <3>4. SkillEditor(d) /\ d.files = f /\ d.loaded = b
        BY <1>2, <3>2, <3>3 DEF SkillEditor
      <3>5. LoadsFit(z, part1, call, row) /\ SavesHave(e, row)
        BY <1>1, <1>3, NothingAsked DEF FilesKept
      <3>6. \A m \in KSlots : ~MyLoad(e[m])
        BY <1>1, <1>2, <1>3, <2>2, <3>5 DEF LoadsFit, MyLoad
      <3>7. LoadsFit(z, d, e, row)
        BY <3>6 DEF LoadsFit
      <3>8. b => z # None /\ OnWay(call, z) = {} /\ PathsOf(row[z].files) \subseteq PathsOf(f)
        BY <1>1, <1>2, <2>2, <3>1, <3>5 DEF LoadsFit, MyLoad
      <3>9. OnWay(e, z) \subseteq OnWay(call, z)
        BY <1>3 DEF OnWay
      <3>10. EditorHas(z, d, e, row)
        BY <3>4, <3>8, <3>9 DEF EditorHas
      <3> QED  BY <3>4, <3>5, <3>7, <3>10 DEF FilesKept
    <2> QED  BY <2>1, <2>2
  <1>6. row' = row
    BY DEF Skills!Loaded
  <1> QED  BY <1>1, <1>3, <1>4, <1>5, <1>6, NothingAsked, SkillsRendered

\* The ends of the other requests.
LEMMA SkillDone ==
  ASSUME SkillsInv, NEW n \in KSlots,
         Skills!Saved(n) \/ Skills!Created(n) \/ Skills!Deleted(n) \/ Skills!Refreshed(n)
  PROVE  SkillsInv'
  <1>1. PICK r, e, t, z : /\ r = call[n] /\ e = [call EXCEPT ![n] = Skills!Idle]
                          /\ t = Skills!Upserted(r) /\ z = Skills!Selected(store, view)
    OBVIOUS
  <1>2. SkillCall(r) /\ SkillEditor(part1)
    BY <1>1, NothingAsked DEF SkillCalls
  <1>3. SkillCalls(e) /\ FilesKept(z, part1, e, row) /\ SkillTable(t)
    BY <1>1, <1>2, NothingAsked, SkillCallEnds, SkillUpserted
  <1>4. row' = row
    BY DEF Skills!Saved, Skills!Created, Skills!Deleted, Skills!Refreshed
  <1>5. CASE Skills!Saved(n)
    <2>1. PICK d : /\ d = IF r.mine THEN [part1 EXCEPT !.saving = FALSE] ELSE part1
                   /\ Skills!Render(t, view, e, d)
      BY <1>1, <1>5 DEF Skills!Saved
    <2>2. PICK f : f = FALSE /\ (d = [part1 EXCEPT !.saving = f] \/ d = part1)
      BY <2>1
    <2>3. /\ SkillEditor(d) /\ d.files = part1.files /\ d.dropped = part1.dropped
          /\ d.loaded = part1.loaded /\ d.early = part1.early
      BY <1>2, <2>2, SkillEditorField
    <2>4. FilesKept(z, d, e, row)
      BY <1>3, <2>3, KeptByEditor
    <2> QED  BY <1>1, <1>3, <1>4, <2>1, <2>3, <2>4, NothingAsked, SkillsRendered
  <1>6. CASE Skills!Created(n)
    <2>1. PICK v : Skills!Render(t, v, e, part1)
      BY <1>1, <1>6 DEF Skills!Created
    <2> QED  BY <1>1, <1>2, <1>3, <1>4, <2>1, NothingAsked, SkillsRendered
  <1>7. CASE Skills!Deleted(n)
    <2>1. PICK u, o, v : /\ o = Skills!NoSkill /\ u = [store EXCEPT ![r.skill] = o]
                         /\ Skills!Render(u, v, e, part1)
      BY <1>1, <1>7 DEF Skills!Deleted
    <2>2. SkillRow(o)
      <3>1. o.files = <<>> /\ o = [exists |-> o.exists, text |-> o.text, files |-> o.files]
        BY <2>1 DEF Skills!NoSkill
      <3> QED  BY <3>1, EmptySeq DEF SkillRow
    <2>3. SkillTable(u)
      <3>1. u = [q \in Skill |-> u[q]] /\ \A q \in Skill : u[q] = o \/ u[q] = store[q]
        BY <2>1, NothingAsked DEF SkillTable
      <3> QED  BY <2>2, <3>1, NothingAsked DEF SkillTable
    <2> QED  BY <1>1, <1>2, <1>3, <1>4, <2>1, <2>3, NothingAsked, SkillsRendered
  <1>8. CASE Skills!Refreshed(n)
    <2>1. Skills!Render(r.seen, view, e, part1) /\ r.kind = "list"
      BY <1>1, <1>8 DEF Skills!Refreshed, Skills!Done
    <2>2. SkillTable(r.seen)
      BY <1>2, <2>1 DEF SkillCall
    <2> QED  BY <1>1, <1>2, <1>3, <1>4, <2>1, <2>2, NothingAsked, SkillsRendered
  <1> QED  BY <1>5, <1>6, <1>7, <1>8

\* A request that failed: the editor that sent it can send it again.
LEMMA SkillRefused ==
  ASSUME SkillsInv, NEW n \in KSlots, Skills!Refused(n)
  PROVE  SkillsInv'
  <1>1. PICK e, q, f, z : /\ e = call' /\ q = part1' /\ f = FALSE
                          /\ z = Skills!Selected(store, view)
    OBVIOUS
  <1>2. SkillCalls(e) /\ FilesKept(z, part1, e, row) /\ SkillEditor(part1)
    <2>1. e = [call EXCEPT ![n] = Skills!Idle]
      BY <1>1 DEF Skills!Refused
    <2> QED  BY <1>1, <2>1, NothingAsked, SkillCallEnds
  <1>3. \/ q = part1 \/ q = [part1 EXCEPT !.saving = f] \/ q = [part1 EXCEPT !.loading = f]
    BY <1>1 DEF Skills!Refused
  <1>4. /\ SkillEditor(q) /\ q.files = part1.files /\ q.dropped = part1.dropped
        /\ q.loaded = part1.loaded /\ q.early = part1.early
    BY <1>2, <1>3, SkillEditorField
  <1>5. FilesKept(z, q, e, row)
    BY <1>2, <1>4, KeptByEditor
  <1>6. UNCHANGED <<store, view, row>>
    BY DEF Skills!Refused
  <1> QED  BY <1>1, <1>2, <1>4, <1>5, <1>6, SkillsAlone

\* All paths, one after another: they are finitely many.
LEMMA PathsListed == Skills!SetToSeq(Path) \in Seq(Path)
  <1>1. PICK k \in Nat : ExistsBijection(1..k, Path)
    BY PathsFinite, FS_NatBijection
  <1>2. Cardinality(Path) = k
    BY <1>1, FS_CountingElements
  <1>3. PICK f : f \in [1..k -> Path] /\ \A i, j \in 1..k : f[i] = f[j] => i = j
    BY <1>1 DEF ExistsBijection, Bijection, Injection, IsInjective
  <1>4. Skills!SetToSeq(Path) \in [1..k -> Path]
    <2>1. Skills!Cardinality(Path) = Cardinality(Path)
      BY DEF Skills!Cardinality, Cardinality
    <2> QED  BY <1>2, <1>3, <2>1 DEF Skills!SetToSeq, Skills!IsInjective
  <1> QED  BY <1>1, <1>4, SeqDef

\* A page that was just opened.
LEMMA SkillsOpened ==
  ASSUME SkillsMounted
  PROVE  SkillsInv
  <1>1. PICK s \in Skill, S \in SUBSET Skill :
          row = [q \in Skill |->
                  IF q = s THEN [Skills!NewSkill(q) EXCEPT !.files = Skills!SetToSeq(Path)]
                  ELSE IF q \in S THEN Skills!NewSkill(q) ELSE Skills!NoSkill]
    BY DEF SkillsMounted, Skills!Init
  <1>2. SkillTable(row)
    <2>1. ASSUME NEW q \in Skill
          PROVE  SkillRow(row[q])
      <3>1. PICK o, f, n, w : /\ o = Skills!NewSkill(q) /\ f = Skills!SetToSeq(Path)
                              /\ n = Skills!NoSkill /\ w = row[q]
        OBVIOUS
      <3>2. w = [o EXCEPT !.files = f] \/ w = o \/ w = n
        BY <1>1, <3>1
      <3>3. /\ o.files = <<>> /\ o = [exists |-> o.exists, text |-> o.text, files |-> o.files]
            /\ n.files = <<>> /\ n = [exists |-> n.exists, text |-> n.text, files |-> n.files]
        BY <3>1 DEF Skills!NewSkill, Skills!NoSkill
      <3>4. f \in Seq(Path) /\ <<>> \in Seq(Path)
        BY <3>1, PathsListed, EmptySeq
      <3>5. SkillRow(w)
        BY <3>2, <3>3, <3>4 DEF SkillRow
      <3> QED  BY <3>1, <3>5
    <2>2. row = [q \in Skill |-> row[q]]
      BY <1>1
    <2> QED  BY <2>1, <2>2 DEF SkillTable
  <1>3. SkillTable(store)
    <2>1. store = [q \in Skill |-> [row[q] EXCEPT !.files = <<>>]]
      BY DEF SkillsMounted, Skills!Init
    <2>2. ASSUME NEW q \in Skill
          PROVE  SkillRow(store[q])
      <3>1. PICK o, f, w : o = row[q] /\ f = <<>> /\ w = store[q]
        OBVIOUS
      <3>2. w = [o EXCEPT !.files = f] /\ SkillRow(o) /\ f \in Seq(Path)
        BY <1>2, <2>1, <3>1, EmptySeq DEF SkillTable
      <3>3. SkillRow(w)
        BY <3>2 DEF SkillRow
      <3> QED  BY <3>1, <3>3
    <2> QED  BY <2>1, <2>2 DEF SkillTable
  <1>4. PICK z, l : /\ z = Skills!Selected(store, view) /\ l = Skills!Request("load", z)
    OBVIOUS
  <1>5. SkillEditor(part1) /\ part1.loaded = FALSE
    <2>1. part1 = IF z = None THEN Skills!NoDetail ELSE Skills!Mounted(store, z)
      BY <1>4 DEF SkillsMounted, Skills!Init
    <2> QED  BY <1>3, <1>4, <2>1, ShownSkill, NoEditor, FreshEditor
  <1>6. PICK i, m, c : /\ i = Skills!Idle /\ m = (CHOOSE k \in KSlots : TRUE) /\ c = call
    OBVIOUS
  <1>7. c = [n \in KSlots |-> IF z # None /\ n = m THEN l ELSE i]
    BY <1>4, <1>6 DEF SkillsMounted, Skills!Init, KSlots
  <1>8. /\ SkillCall(l) /\ l.kind = "load" /\ l.skill = z /\ l.status = "sent"
        /\ SkillCall(i) /\ i.kind = "idle"
    BY <1>4, <1>6, ShownSkill, SkillRequests
  <1>9. SkillCalls(c)
    BY <1>7, <1>8 DEF SkillCalls
  <1>10. FilesKept(z, part1, c, row)
    <2>1. \A n \in KSlots : c[n].kind # "idle" => /\ n = m /\ z # None /\ c[n].skill = z
                                                  /\ c[n].status = "sent" /\ c[n].kind = "load"
      BY <1>7, <1>8
    <2>2. LoadsFit(z, part1, c, row)
      BY <1>5, <2>1 DEF LoadsFit, MyLoad
    <2>3. EditorHas(z, part1, c, row) /\ SavesHave(c, row)
      BY <1>5, <2>1 DEF EditorHas, SavesHave
    <2> QED  BY <2>2, <2>3 DEF FilesKept
  <1> QED  BY <1>2, <1>3, <1>4, <1>5, <1>6, <1>9, <1>10 DEF SkillsInv, SkillsShape

LEMMA SkillsKept ==
  ASSUME SkillsInv, Skills!Next
  PROVE  SkillsInv'
  <1>1. ASSUME NEW n \in KSlots,
               \/ Skills!SubmitDialog(n) \/ Skills!Save(n) \/ Skills!ConfirmDelete(n)
               \/ Skills!RefreshSkills(n) \/ Skills!Answer(n) \/ Skills!Loaded(n)
               \/ Skills!Saved(n) \/ Skills!Created(n) \/ Skills!Deleted(n)
               \/ Skills!Refreshed(n) \/ Skills!Refused(n)
        PROVE  SkillsInv'
    BY <1>1, SkillAsked, SkillSaved, SkillAnswered, SkillLoaded, SkillDone, SkillRefused
  <1> QED
    BY <1>1, SkillsListed, SkillEditorClicked, FilesEdited, SkillEdited DEF Skills!Next, KSlots

\* A file that the server loses is one that its skill lost to a save which had left it out.
LEMMA FilesDropped ==
  ASSUME SkillsInv, Skills!Next
  PROVE  Skills!FileLostUnloaded
  <1> SUFFICES ASSUME NEW s \in Skill, NEW p \in Path, Skills!Has(s, p), ~Skills!Has(s, p)',
                      row'[s].exists
               PROVE  \E n \in KSlots : /\ call[n].kind = "save" /\ call[n].skill = s
                                        /\ ~call[n].loaded \/ p \in call[n].dropped
    BY DEF Skills!FileLostUnloaded, KSlots
  <1>1. SkillTable(row) /\ SkillCalls(call) /\ SavesHave(call, row)
    BY NothingAsked DEF FilesKept
  <1>2. p \in PathsOf(row[s].files) /\ p \notin PathsOf(row'[s].files)
    BY DEF Skills!Has, Skills!Contains, PathsOf
  <1>3. row[s].files # row'[s].files
    BY <1>2
  <1>4. PICK n \in KSlots : Skills!Answer(n)
    <2>1. ASSUME NEW q \in Skill, Skills!ServerEdits(q) PROVE row'[s].files = row[s].files
      <3>1. PICK t : row' = [row EXCEPT ![q].text = t]
        BY <2>1 DEF Skills!ServerEdits
      <3> QED  BY <1>1, <3>1 DEF SkillTable, SkillRow
    <2>2. ASSUME NEW m \in KSlots,
               \/ Skills!SubmitDialog(m) \/ Skills!Save(m) \/ Skills!ConfirmDelete(m)
               \/ Skills!RefreshSkills(m) \/ Skills!Loaded(m)
               \/ Skills!Saved(m) \/ Skills!Created(m) \/ Skills!Deleted(m)
               \/ Skills!Refreshed(m) \/ Skills!Refused(m)
          PROVE UNCHANGED row
      BY <2>2 DEF Skills!SubmitDialog, Skills!Save, Skills!ConfirmDelete, Skills!RefreshSkills,
         Skills!Loaded, Skills!Saved, Skills!Created, Skills!Deleted, Skills!Refreshed,
         Skills!Refused
    <2>3. ASSUME \/ \E q \in Skill : Skills!SelectSkill(q)
                 \/ Skills!Back \/ Skills!OpenDialog \/ Skills!CloseDialog
                 \/ Skills!EditText(2) \/ Skills!ToggleTree \/ Skills!ToggleEditing
                 \/ Skills!OpenAddFile \/ Skills!CancelAddFile
                 \/ Skills!DeleteFile \/ Skills!AskDelete \/ Skills!CancelDelete
                 \/ \E q \in Path \cup {None} : Skills!SelectPath(q)
                 \/ \E q \in Path : Skills!AddFile(q)
          PROVE UNCHANGED row
      BY <2>3 DEF Skills!SelectSkill, Skills!Back, Skills!OpenDialog, Skills!CloseDialog,
         Skills!EditText, Skills!ToggleTree, Skills!ToggleEditing, Skills!OpenAddFile,
         Skills!CancelAddFile, Skills!DeleteFile, Skills!AskDelete, Skills!CancelDelete,
         Skills!SelectPath, Skills!AddFile
    <2> QED  BY <1>3, <2>1, <2>2, <2>3 DEF Skills!Next, KSlots
  <1>5. PICK r : r = call[n]
    OBVIOUS
  <1>6. SkillCall(r) /\ r.status = "sent"
    BY <1>1, <1>4, <1>5 DEF SkillCalls, Skills!Answer
  <1>7. PICK z : /\ z \in IF r.kind = "create" THEN {q \in Skill : ~row[q].exists} ELSE {r.skill}
                 /\ row' = Skills!Applied([r EXCEPT !.skill = z])
    BY <1>3, <1>4, <1>5 DEF Skills!Answer
  <1>8. PICK b : b = [r EXCEPT !.skill = z]
    OBVIOUS
  <1>9. /\ SkillCall(b) /\ b.kind = r.kind /\ b.skill = z /\ b.files = r.files
    BY <1>6, <1>7, <1>8 DEF SkillCall
  <1>10. CASE r.kind = "save"
    <2>1. r.skill = z /\ row'[s].files = r.files /\ z = s
      <3>1. PICK w : w = row'
        OBVIOUS
      <3>2. w = Skills!Applied(b)
        BY <1>7, <1>8, <3>1
      <3>3. \/ PathsOf(w[s].files) \subseteq PathsOf(row[s].files)
            \/ b.kind = "save" /\ b.skill = s /\ w[s].files = b.files
        BY <1>1, <1>9, <3>2, SkillApplied
      <3>4. PICK x, f : w = [row EXCEPT ![z].text = x, ![z].files = f] /\ f = r.files
        BY <1>9, <1>10, <3>2 DEF Skills!Applied
      <3>5. z = s
        BY <1>1, <1>3, <3>1, <3>4 DEF SkillTable
      <3>6. w[s].files = f
        <4>1. PICK o, u : o = row[s] /\ u = w[s]
          OBVIOUS
        <4>2. u = [o EXCEPT !.text = x, !.files = f] /\ SkillRow(o)
          BY <1>1, <3>4, <3>5, <4>1 DEF SkillTable
        <4> QED  BY <4>1, <4>2 DEF SkillRow
      <3> QED  BY <1>7, <1>10, <3>1, <3>4, <3>5, <3>6
    <2>2. r.loaded => PathsOf(row[s].files) \subseteq PathsOf(r.files) \cup r.dropped
      BY <1>1, <1>5, <1>6, <1>10, <2>1 DEF SavesHave
    <2> QED  BY <1>2, <1>5, <1>10, <2>1, <2>2
  <1>11. CASE r.kind # "save"
    <2>1. PICK w, o : w = row' /\ w = Skills!Applied(b) /\ o = w[s]
      BY <1>7, <1>8
    <2>2. \/ w = row
          \/ w = [row EXCEPT ![z] = Skills!NoSkill] /\ r.kind = "delete"
          \/ w = [row EXCEPT ![z] = Skills!NewSkill(z)] /\ r.kind = "create"
      BY <1>9, <1>11, <2>1 DEF Skills!Applied
    <2>3. o = row[s] \/ o = Skills!NoSkill \/ (s = z /\ r.kind = "create")
      BY <1>1, <2>1, <2>2 DEF SkillTable
    <2>4. r.kind = "create" /\ s = z => ~row[s].exists
      BY <1>7
    <2>5. row[s].exists
      BY DEF Skills!Has
    <2>6. o # Skills!NoSkill
      BY <2>1 DEF Skills!NoSkill
    <2> QED  BY <1>3, <2>1, <2>3, <2>4, <2>5, <2>6
  <1> QED  BY <1>10, <1>11

LEMMA SkillsSafe ==
  /\ SkillsMounted => SkillsInv
  /\ SkillsInv /\ (Skills!Next \/ UNCHANGED pageVars) => SkillsInv'
  /\ SkillsInv /\ Skills!Next => Skills!FileLostUnloaded
  <1>1. SkillsInv /\ UNCHANGED pageVars => SkillsInv'
    BY DEF SkillsInv, SkillsShape, pageVars
  <1> QED  BY <1>1, SkillsOpened, SkillsKept, FilesDropped

-----------------------------------------------------------------------------
(* The board: in part5, astray.                                            *)

BSlots == Slots["board"]

\* The record of an issue, a list of them, and the rows of the server.
Filed(i) == /\ i.id \in Card
            /\ i = [id |-> i.id, status |-> i.status, pos |-> i.pos, who |-> i.who]
Files(l) == \E S : l \in Seq(S) /\ \A i \in S : Filed(i)
FiledRows(rw) == rw = [c \in Card |-> rw[c]] /\ \A c \in Card : Filed(rw[c]) /\ rw[c].id = c

\* An event about an issue, and those on their way.
Post(e) == e.kind \in {"created", "updated", "deleted"} /\ Filed(e.issue)
Posts(ws) == \E S : ws \in Seq(S) /\ \A e \in S : Post(e)

\* What l has of the issue c; the events about it after the first m, and their kinds.
Copies(l, c) == {l[k] : k \in {j \in DOMAIN l : l[j].id = c}}
Posted(ws, m, c) == {k \in DOMAIN ws : m < k /\ ws[k].issue.id = c}
Word(ws, m, c, kind) == \E k \in Posted(ws, m, c) : ws[k].kind = kind

\* r has the same of all issues but c.
Besides(l, r, c) == \A d : d # c => Copies(r, d) = Copies(l, d)

There(rw, c) == rw[c].status # "absent"

\* The last event about an issue tells its row; it is created again after a deletion only,
\* and of a deleted one nothing else is told before.
LastPost(ws, rw, c) ==
    \A k \in Posted(ws, 0, c) : (\A j \in Posted(ws, 0, c) : j <= k) =>
      IF ws[k].kind = "deleted" THEN ~There(rw, c) ELSE There(rw, c) /\ ws[k].issue = rw[c]
Within(ws, c, i, j, kind) ==
    \E k \in Posted(ws, 0, c) : i < k /\ k < j /\ ws[k].kind = kind
Lifetimes(ws, c) ==
    \A i, j \in Posted(ws, 0, c) : i < j =>
      /\ ws[j].kind = "created" => ws[i].kind = "deleted" \/ Within(ws, c, i, j, "deleted")
      /\ ws[i].kind = "deleted" => ws[j].kind = "created" \/ Within(ws, c, i, j, "created")
Posting(ws, rw) == \A c \in Card : LastPost(ws, rw, c) /\ Lifetimes(ws, c)

\* The events after the first m lead from what l has of c to its row, or may do so (a) once
\* a request about it is answered.
Leads(l, ws, m, rw, c, a) ==
    \/ Word(ws, m, c, "deleted")
    \/ /\ (Copies(l, c) # {} \/ Word(ws, m, c, "created")) <=> There(rw, c)
       /\ Word(ws, m, c, "updated") \/ a \/ Copies(l, c) \subseteq {rw[c]}

-----------------------------------------------------------------------------
LEMMA FilesAt ==
  ASSUME NEW l, Files(l)
  PROVE  Len(l) \in Nat /\ DOMAIN l = 1..Len(l) /\ \A k \in DOMAIN l : Filed(l[k])
  <1>1. PICK S : l \in Seq(S) /\ \A i \in S : Filed(i)
    BY DEF Files
  <1>2. Len(l) \in Nat /\ DOMAIN l = 1..Len(l) /\ \A k \in 1..Len(l) : l[k] \in S
    BY <1>1, LenProperties, ElementOfSeq
  <1> QED  BY <1>1, <1>2

LEMMA FilesMade ==
  ASSUME NEW n \in Nat, NEW r, r = [k \in 1..n |-> r[k]], \A k \in 1..n : Filed(r[k])
  PROVE  Files(r)
  <1>1. PICK S : S = {r[k] : k \in 1..n}
    OBVIOUS
  <1>2. \A k \in 1..n : r[k] \in S
    BY <1>1
  <1>3. r \in Seq(S)
    BY <1>2
  <1>4. \A i \in S : Filed(i)
    BY <1>1
  <1> QED  BY <1>3, <1>4 DEF Files

LEMMA PostsAt ==
  ASSUME NEW ws, Posts(ws)
  PROVE  Len(ws) \in Nat /\ DOMAIN ws = 1..Len(ws) /\ \A k \in DOMAIN ws : Post(ws[k])
  <1>1. PICK S : ws \in Seq(S) /\ \A e \in S : Post(e)
    BY DEF Posts
  <1>2. Len(ws) \in Nat /\ DOMAIN ws = 1..Len(ws) /\ \A k \in 1..Len(ws) : ws[k] \in S
    BY <1>1, LenProperties, ElementOfSeq
  <1> QED  BY <1>1, <1>2

\* A filter by issues.
LEMMA CopiesRemoved ==
  ASSUME NEW l, Files(l), NEW C, NEW r, r = Board!RemoveAll(l, C)
  PROVE  /\ Files(r)
         /\ \A c : Copies(r, c) = IF c \in C THEN {} ELSE Copies(l, c)
  <1>1. PICK S : l \in Seq(S) /\ \A i \in S : Filed(i)
    BY DEF Files
  <1>2. PICK K : K = {k \in DOMAIN l : l[k].id \notin C}
    OBVIOUS
  <1>3. r = Kept(l, K)
    BY <1>2 DEF Board!RemoveAll, Board!Kept, Kept
  <1>4. r \in Seq(S) /\ \E p : Positions(l, K, Len(l), r, p)
    BY <1>1, <1>3, KeptAll
  <1>5. PICK p : Positions(l, K, Len(l), r, p)
    BY <1>4
  <1>6. Files(r)
    BY <1>1, <1>4 DEF Files
  <1>7. DOMAIN l = 1..Len(l) /\ DOMAIN r = 1..Len(r)
    BY <1>6, FilesAt
  <1>8. /\ \A i \in DOMAIN r : p[i] \in DOMAIN l /\ l[p[i]].id \notin C /\ r[i] = l[p[i]]
        /\ \A k \in DOMAIN l : l[k].id \notin C => \E i \in DOMAIN r : r[i] = l[k]
    <2>1. \A i \in DOMAIN r : p[i] \in DOMAIN l /\ p[i] \in K /\ r[i] = l[p[i]]
      BY <1>5, <1>7 DEF Positions
    <2>2. \A k \in DOMAIN l : k \in K => \E i \in DOMAIN r : p[i] = k
      BY <1>5, <1>7 DEF Positions
    <2> QED  BY <2>1, <2>2, <1>2
  <1>9. ASSUME NEW c
        PROVE  Copies(r, c) = IF c \in C THEN {} ELSE Copies(l, c)
    <2>1. CASE c \in C
      BY <2>1, <1>8 DEF Copies
    <2>2. CASE c \notin C
      <3>1. Copies(r, c) \subseteq Copies(l, c)
        BY <1>8 DEF Copies
      <3>2. Copies(l, c) \subseteq Copies(r, c)
        BY <2>2, <1>8 DEF Copies
      <3> QED  BY <2>2, <3>1, <3>2
    <2> QED  BY <2>1, <2>2
  <1> QED  BY <1>6, <1>9

LEMMA CopiesUpdated ==
  ASSUME NEW l, Files(l), NEW i, Filed(i), NEW r, r = Board!UpdateIssue(l, i.id, i)
  PROVE  /\ Files(r)
         /\ Besides(l, r, i.id)
         /\ Copies(r, i.id) = IF Copies(l, i.id) = {} THEN {} ELSE {i}
  <1>1. PICK n \in Nat : n = Len(l)
    BY FilesAt
  <1>2. /\ DOMAIN l = 1..n /\ r = [k \in 1..n |-> IF l[k].id = i.id THEN i ELSE l[k]]
        /\ \A k \in 1..n : Filed(l[k])
    BY <1>1, FilesAt DEF Board!UpdateIssue
  <1>3. DOMAIN r = 1..n /\ \A k \in 1..n : r[k] = IF l[k].id = i.id THEN i ELSE l[k]
    BY <1>2
  <1>4. Files(r)
    <2>1. r = [k \in 1..n |-> r[k]] /\ \A k \in 1..n : Filed(r[k])
      BY <1>2, <1>3
    <2> QED  BY <2>1, FilesMade
  <1>5. ASSUME NEW c, c # i.id
        PROVE  Copies(r, c) = Copies(l, c)
    <2>1. \A k \in 1..n : /\ l[k].id = c <=> r[k].id = c
                          /\ l[k].id = c => r[k] = l[k]
      BY <1>3, <1>5
    <2> QED  BY <2>1, <1>2, <1>3 DEF Copies
  <1>6. \A k \in 1..n : /\ l[k].id = i.id <=> r[k].id = i.id
                        /\ l[k].id = i.id => r[k] = i
    BY <1>3
  <1>7. Copies(r, i.id) = IF Copies(l, i.id) = {} THEN {} ELSE {i}
    <2>1. Copies(r, i.id) \subseteq {i}
      BY <1>3, <1>6 DEF Copies
    <2>2. Copies(r, i.id) # {} <=> \E k \in 1..n : r[k].id = i.id
      BY <1>3 DEF Copies
    <2>3. Copies(l, i.id) # {} <=> \E k \in 1..n : l[k].id = i.id
      BY <1>2 DEF Copies
    <2> QED  BY <2>1, <2>2, <2>3, <1>6
  <1> QED  BY <1>4, <1>5, <1>7 DEF Besides

LEMMA CopiesAppended ==
  ASSUME NEW l, Files(l), NEW i, Filed(i), NEW r, r = Append(l, i)
  PROVE  /\ Files(r)
         /\ Besides(l, r, i.id)
         /\ Copies(r, i.id) = Copies(l, i.id) \cup {i}
  <1>1. PICK S : l \in Seq(S) /\ \A j \in S : Filed(j)
    BY DEF Files
  <1>2. PICK n \in Nat : n = Len(l) /\ DOMAIN l = 1..n
    BY FilesAt
  <1>3. PICK T : T = S \cup {i}
    OBVIOUS
  <1>4. l \in Seq(T)
    BY <1>1, <1>3
  <1>5. /\ r \in Seq(T) /\ Len(r) = n + 1 /\ \A k \in 1..n : r[k] = l[k]
        /\ r[n + 1] = i
    BY <1>2, <1>3, <1>4, AppendProperties
  <1>6. Files(r)
    BY <1>1, <1>3, <1>5 DEF Files
  <1>7. DOMAIN r = (1..n) \cup {n + 1}
    BY <1>5, <1>6, FilesAt
  <1> QED  BY <1>2, <1>5, <1>6, <1>7 DEF Copies, Besides

\* What one event does to what is there of each issue.
LEMMA CopiesHeard ==
  ASSUME NEW l, Files(l), NEW e, Post(e), NEW r, r = Board!Heard(l, e)
  PROVE  /\ Files(r)
         /\ Besides(l, r, e.issue.id)
         /\ e.kind = "deleted" => Copies(r, e.issue.id) = {}
         /\ e.kind = "created" =>
              Copies(r, e.issue.id) = IF Copies(l, e.issue.id) = {} THEN {e.issue}
                                      ELSE Copies(l, e.issue.id)
         /\ e.kind = "updated" =>
              Copies(r, e.issue.id) = IF Copies(l, e.issue.id) = {} THEN {} ELSE {e.issue}
  <1>0. PICK i : i = e.issue /\ Filed(i)
    BY DEF Post
  <1>a. Filed(i) /\ Files(l)
    BY <1>0
  <1>1. CASE e.kind = "updated"
    <2>1. r = Board!UpdateIssue(l, i.id, i)
      BY <1>0, <1>1 DEF Board!Heard
    <2>2. /\ Files(r)
          /\ Besides(l, r, i.id)
          /\ Copies(r, i.id) = IF Copies(l, i.id) = {} THEN {} ELSE {i}
      BY ONLY <1>a, <2>1, CopiesUpdated
    <2> QED  BY <2>2, <1>0, <1>1
  <1>2. CASE e.kind = "deleted"
    <2>1. r = Board!RemoveAll(l, {e.issue.id})
      BY <1>2 DEF Board!Heard
    <2>2. Files(r) /\ \A c : Copies(r, c) = IF c \in {e.issue.id} THEN {} ELSE Copies(l, c)
      BY <2>1, CopiesRemoved
    <2> QED  BY <2>2, <1>2 DEF Besides
  <1>3. CASE e.kind = "created" /\ \E k \in DOMAIN l : l[k].id = e.issue.id
    <2>1. r = l
      BY <1>3 DEF Board!Heard
    <2>2. Copies(l, e.issue.id) # {}
      BY <1>3 DEF Copies
    <2> QED  BY <2>1, <2>2, <1>3 DEF Besides
  <1>4. CASE e.kind = "created" /\ ~\E k \in DOMAIN l : l[k].id = e.issue.id
    <2>1. r = Append(l, i)
      BY <1>0, <1>4 DEF Board!Heard
    <2>2. Copies(l, i.id) = {}
      BY <1>0, <1>4 DEF Copies
    <2>3. /\ Files(r)
          /\ Besides(l, r, i.id)
          /\ Copies(r, i.id) = Copies(l, i.id) \cup {i}
      BY ONLY <1>a, <2>1, CopiesAppended
    <2> QED  BY <2>2, <2>3, <1>0, <1>4
  <1> QED  BY <1>1, <1>2, <1>3, <1>4 DEF Post

LEMMA PostedIn ==
  ASSUME NEW ws, Posts(ws), NEW m \in Nat, NEW c
  PROVE  /\ Posted(ws, m, c) \in SUBSET Nat
         /\ \A k \in Posted(ws, m, c) :
              /\ k \in DOMAIN ws /\ m < k /\ ws[k].issue.id = c /\ k <= Len(ws)
              /\ ws[k].kind \in {"created", "updated", "deleted"}
              /\ k \in Posted(ws, 0, c)
  <1>1. PICK n \in Nat : n = Len(ws) /\ DOMAIN ws = 1..n
    BY PostsAt
  <1>2. \A k \in DOMAIN ws : ws[k].kind \in {"created", "updated", "deleted"}
    BY PostsAt DEF Post
  <1>3. \A k \in 1..n : 0 < k /\ k <= n /\ k \in Nat
    OBVIOUS
  <1> QED  BY <1>1, <1>2, <1>3 DEF Posted

\* The events about an issue have a last one.
LEMMA LastPosted ==
  ASSUME NEW ws, Posts(ws), NEW m \in Nat, NEW c, Posted(ws, m, c) # {}
  PROVE  \E k \in Posted(ws, m, c) : \A j \in Posted(ws, m, c) : j <= k
  <1>1. PICK A, n : A = Posted(ws, m, c) /\ n = Len(ws)
    OBVIOUS
  <1>2. A \in SUBSET Nat /\ A # {} /\ n \in Nat /\ \A i \in A : i <= n
    BY <1>1, PostedIn, PostsAt
  <1> QED  BY <1>1, <1>2, GreatestOf

\* What is known of the events after event m + 1, about the issue c, from that event.
LEMMA PostsAfter ==
  ASSUME NEW ws, Posts(ws), NEW rw, NEW c, LastPost(ws, rw, c), Lifetimes(ws, c),
         NEW m \in Nat, m + 1 \in DOMAIN ws, ws[m + 1].issue.id = c,
         NEW A, A = Posted(ws, m + 1, c), NEW e, e = ws[m + 1]
  PROVE  /\ A = {} => IF e.kind = "deleted" THEN ~There(rw, c)
                      ELSE There(rw, c) /\ e.issue = rw[c]
         /\ A # {} /\ ~Word(ws, m + 1, c, "deleted") => There(rw, c)
         /\ A # {} /\ e.kind = "deleted" => Word(ws, m + 1, c, "created")
         /\ A # {} /\ e.kind # "deleted" /\ ~Word(ws, m + 1, c, "deleted")
              => Word(ws, m + 1, c, "updated") /\ ~Word(ws, m + 1, c, "created")
  <1>1. /\ m + 1 \in Nat /\ m + 1 \in Posted(ws, 0, c)
        /\ A \in SUBSET Nat
        /\ \A k \in A : m + 1 < k /\ k \in Posted(ws, 0, c)
                        /\ ws[k].kind \in {"created", "updated", "deleted"}
    <2>1. m + 1 \in Nat /\ 0 < m + 1
      OBVIOUS
    <2> QED  BY <2>1, PostedIn DEF Posted
  <1>2. \A k \in Posted(ws, 0, c) : k \in Nat /\ (k <= m + 1 \/ k \in A)
    <2>1. \A k \in Posted(ws, 0, c) : k \in Nat
      BY PostedIn
    <2>2. \A k \in Posted(ws, 0, c) : m + 1 < k => k \in A
      BY DEF Posted
    <2> QED  BY <2>1, <2>2
  <1>3. A = {} => IF e.kind = "deleted" THEN ~There(rw, c)
                  ELSE There(rw, c) /\ e.issue = rw[c]
    BY <1>1, <1>2 DEF LastPost
  <1>4. ASSUME A # {}, ~Word(ws, m + 1, c, "deleted")
        PROVE  There(rw, c)
    <2>1. PICK k \in A : \A j \in A : j <= k
      BY <1>1, <1>4, LastPosted
    <2>2. \A j \in Posted(ws, 0, c) : j <= k
      BY <1>1, <1>2, <2>1
    <2>3. ws[k].kind # "deleted"
      BY <1>4, <2>1 DEF Word
    <2> QED  BY <1>1, <2>1, <2>2, <2>3 DEF LastPost
  <1>5. ASSUME NEW k \in A, e.kind = "deleted"
        PROVE  Word(ws, m + 1, c, "created")
    <2>1. ws[k].kind = "created" \/ Within(ws, c, m + 1, k, "created")
      BY <1>1, <1>5 DEF Lifetimes
    <2>2. CASE Within(ws, c, m + 1, k, "created")
      <3>1. PICK j \in Posted(ws, 0, c) : m + 1 < j /\ ws[j].kind = "created"
        BY <2>2 DEF Within
      <3>2. j \in A
        BY <1>1, <1>2, <3>1
      <3> QED  BY <3>1, <3>2 DEF Word
    <2> QED  BY <2>1, <2>2 DEF Word
  <1>6. ASSUME NEW k \in A, e.kind # "deleted", ~Word(ws, m + 1, c, "deleted")
        PROVE  ws[k].kind = "updated"
    <2>1. ws[k].kind # "deleted"
      BY <1>6 DEF Word
    <2>2. ws[k].kind = "created" => Within(ws, c, m + 1, k, "deleted")
      BY <1>1, <1>6 DEF Lifetimes
    <2>3. ~Within(ws, c, m + 1, k, "deleted")
      <3> SUFFICES ASSUME NEW j \in Posted(ws, 0, c), m + 1 < j, ws[j].kind = "deleted"
                   PROVE  FALSE
        BY DEF Within
      <3>1. j \in A
        BY <1>1, <1>2
      <3> QED  BY <3>1, <1>6 DEF Word
    <2> QED  BY <1>1, <2>1, <2>2, <2>3
  <1>7. (\A k \in A : ws[k].kind = "updated") /\ A # {} =>
          Word(ws, m + 1, c, "updated") /\ ~Word(ws, m + 1, c, "created")
    BY DEF Word
  <1> QED  BY <1>3, <1>4, <1>5, <1>6, <1>7

\* Whether the events lead to the row is the same before and after one is heard.
LEMMA LeadsOn ==
  ASSUME NEW ws, Posts(ws), NEW rw, NEW c, LastPost(ws, rw, c), Lifetimes(ws, c),
         NEW m \in Nat, m + 1 \in DOMAIN ws,
         NEW l, Files(l), NEW r, r = Board!Heard(l, ws[m + 1]), NEW a
  PROVE  /\ Files(r)
         /\ Leads(l, ws, m, rw, c, a) <=> Leads(r, ws, m + 1, rw, c, a)
  <1>1. PICK e : e = ws[m + 1]
    OBVIOUS
  <1>2. Post(e) /\ e.kind \in {"created", "updated", "deleted"}
    BY <1>1, PostsAt DEF Post
  <1>3. PICK d : d = e.issue.id
    OBVIOUS
  <1>4. /\ Files(r) /\ Besides(l, r, d)
        /\ e.kind = "deleted" => Copies(r, d) = {}
        /\ e.kind = "created" =>
             Copies(r, d) = IF Copies(l, d) = {} THEN {e.issue} ELSE Copies(l, d)
        /\ e.kind = "updated" =>
             Copies(r, d) = IF Copies(l, d) = {} THEN {} ELSE {e.issue}
    BY <1>1, <1>2, <1>3, CopiesHeard
  <1>5. PICK A : A = Posted(ws, m + 1, c)
    OBVIOUS
  <1>6. Posted(ws, m, c) = IF d = c THEN A \cup {m + 1} ELSE A
    <2>1. \A k \in DOMAIN ws : k \in Nat
      BY PostsAt
    <2>2. \A k \in DOMAIN ws : m < k <=> (m + 1 < k \/ k = m + 1)
      BY <2>1
    <2> QED  BY <2>2, <1>1, <1>3, <1>5 DEF Posted
  <1>7. CASE d # c
    <2>1. \A kind : Word(ws, m, c, kind) <=> Word(ws, m + 1, c, kind)
      BY <1>5, <1>6, <1>7 DEF Word
    <2>2. Copies(r, c) = Copies(l, c)
      BY <1>4, <1>7 DEF Besides
    <2> QED  BY <2>1, <2>2, <1>4 DEF Leads
  <1>8. CASE d = c
    <2>1. \A kind : Word(ws, m, c, kind) <=> Word(ws, m + 1, c, kind) \/ e.kind = kind
      BY <1>1, <1>5, <1>6, <1>8 DEF Word
    <2>2. /\ A = {} => IF e.kind = "deleted" THEN ~There(rw, c)
                       ELSE There(rw, c) /\ e.issue = rw[c]
          /\ A # {} /\ ~Word(ws, m + 1, c, "deleted") => There(rw, c)
          /\ A # {} /\ e.kind = "deleted" => Word(ws, m + 1, c, "created")
          /\ A # {} /\ e.kind # "deleted" /\ ~Word(ws, m + 1, c, "deleted")
               => Word(ws, m + 1, c, "updated") /\ ~Word(ws, m + 1, c, "created")
      <3>1. ws[m + 1].issue.id = c
        BY <1>1, <1>3, <1>8
      <3>2. Posts(ws) /\ LastPost(ws, rw, c) /\ Lifetimes(ws, c) /\ m + 1 \in DOMAIN ws
        OBVIOUS
      <3> QED  BY ONLY m \in Nat, <3>1, <3>2, <1>1, <1>5, PostsAfter
    <2>3. A = {} => \A kind : ~Word(ws, m + 1, c, kind)
      BY <1>5 DEF Word
    <2>4. CASE e.kind = "deleted"
      <3>1. Leads(l, ws, m, rw, c, a)
        BY <2>1, <2>4 DEF Leads
      <3>2. Copies(r, c) = {}
        BY <1>4, <1>8, <2>4
      <3>3. ~Word(ws, m + 1, c, "deleted") => (Word(ws, m + 1, c, "created") <=> There(rw, c))
        BY <2>2, <2>3, <2>4
      <3> QED  BY <3>1, <3>2, <3>3, <1>4 DEF Leads
    <2>5. CASE e.kind = "created"
      <3>1. /\ Copies(r, c) = IF Copies(l, c) = {} THEN {e.issue} ELSE Copies(l, c)
            /\ ~Word(ws, m + 1, c, "deleted") =>
                 Word(ws, m + 1, c, "updated") \/ e.issue = rw[c]
        BY <1>4, <1>8, <2>2, <2>3, <2>5
      <3>2. Copies(r, c) # {}
        BY <3>1
      <3> QED  BY <3>1, <3>2, <2>1, <2>5, <1>4 DEF Leads
    <2>6. CASE e.kind = "updated"
      <3>1. /\ Copies(r, c) = IF Copies(l, c) = {} THEN {} ELSE {e.issue}
            /\ ~Word(ws, m + 1, c, "deleted") =>
                 Word(ws, m + 1, c, "updated") \/ e.issue = rw[c]
        BY <1>4, <1>8, <2>2, <2>3, <2>6
      <3>2. Copies(r, c) # {} <=> Copies(l, c) # {}
        BY <3>1
      <3> QED  BY <3>1, <3>2, <2>1, <2>6, <1>4 DEF Leads
    <2> QED  BY <1>2, <2>4, <2>5, <2>6
  <1> QED  BY <1>7, <1>8

\* The first event on its way is heard.
LEMMA PostHeard ==
  ASSUME NEW ws, Posts(ws), ws # <<>>, NEW rw, Posting(ws, rw), NEW xs, xs = Tail(ws),
         NEW l, Files(l), NEW r, r = Board!Heard(l, Head(ws))
  PROVE  /\ Posts(xs) /\ Files(r) /\ Posting(xs, rw)
         /\ \A c \in Card : \A a : Leads(l, ws, 0, rw, c, a) => Leads(r, xs, 0, rw, c, a)
  <1>1. PICK S : ws \in Seq(S) /\ \A e \in S : Post(e)
    BY DEF Posts
  <1>2. /\ xs \in Seq(S) /\ Len(xs) = Len(ws) - 1
        /\ \A i \in 1..Len(xs) : xs[i] = ws[i + 1]
        /\ Head(ws) = ws[1]
    BY <1>1, HeadTailProperties
  <1>3. Posts(xs)
    BY <1>1, <1>2 DEF Posts
  <1>4. PICK n \in Nat : n = Len(xs)
    BY <1>3, PostsAt
  <1>5. /\ DOMAIN xs = 1..n /\ DOMAIN ws = 1..(n + 1)
        /\ \A i \in 1..n : xs[i] = ws[i + 1]
    BY <1>2, <1>3, <1>4, PostsAt
  <1>6. /\ \A v : \A k \in Posted(xs, 0, v) :
             k \in 1..n /\ k + 1 \in Posted(ws, 1, v) /\ k + 1 \in Posted(ws, 0, v) /\ xs[k] = ws[k + 1]
        /\ \A v : \A k \in Posted(ws, 1, v) :
             k \in 1..(n + 1) /\ k - 1 \in Posted(xs, 0, v) /\ ws[k] = xs[k - 1]
        /\ \A v : \A k \in Posted(ws, 0, v) : k \in 1..(n + 1) /\ (k = 1 \/ k \in Posted(ws, 1, v))
    <2>1. \A k \in 1..n : k + 1 \in 1..(n + 1) /\ 0 < k + 1 /\ 1 < k + 1
      OBVIOUS
    <2>2. \A k \in 1..(n + 1) : /\ k = 1 \/ 1 < k
                                /\ 1 < k => k - 1 \in 1..n /\ (k - 1) + 1 = k /\ 0 < k - 1
      OBVIOUS
    <2> QED  BY <2>1, <2>2, <1>5 DEF Posted
  <1>7. ASSUME NEW c \in Card
        PROVE  LastPost(xs, rw, c)
    <2> SUFFICES ASSUME NEW k \in Posted(xs, 0, c), \A j \in Posted(xs, 0, c) : j <= k
                 PROVE  IF xs[k].kind = "deleted" THEN ~There(rw, c)
                        ELSE There(rw, c) /\ xs[k].issue = rw[c]
      BY DEF LastPost
    <2>1. k + 1 \in Posted(ws, 0, c) /\ xs[k] = ws[k + 1] /\ k \in 1..n
      BY <1>6
    <2>2. \A j \in Posted(ws, 0, c) : j <= k + 1
      <3> TAKE j \in Posted(ws, 0, c)
      <3>1. j \in 1..(n + 1) /\ (j = 1 \/ j - 1 <= k)
        BY <1>6
      <3> QED  BY <3>1, <2>1
    <2> QED  BY <2>1, <2>2 DEF LastPost, Posting
  <1>8. ASSUME NEW c, NEW i \in Posted(xs, 0, c), NEW j \in Posted(xs, 0, c), NEW kind,
               Within(ws, c, i + 1, j + 1, kind)
        PROVE  Within(xs, c, i, j, kind)
    <2>1. PICK k \in Posted(ws, 0, c) : i + 1 < k /\ k < j + 1 /\ ws[k].kind = kind
      BY <1>8 DEF Within
    <2>2. i \in 1..n /\ j \in 1..n /\ k \in 1..(n + 1) /\ (k = 1 \/ k \in Posted(ws, 1, c))
      BY <1>6
    <2>3. k # 1 /\ i < k - 1 /\ k - 1 < j
      BY <2>1, <2>2
    <2>4. k - 1 \in Posted(xs, 0, c) /\ ws[k] = xs[k - 1]
      BY <1>6, <2>2, <2>3
    <2> QED  BY <2>1, <2>3, <2>4 DEF Within
  <1>9. ASSUME NEW c \in Card
        PROVE  Lifetimes(xs, c)
    <2> SUFFICES ASSUME NEW i \in Posted(xs, 0, c), NEW j \in Posted(xs, 0, c), i < j
                 PROVE  /\ xs[j].kind = "created" =>
                              xs[i].kind = "deleted" \/ Within(xs, c, i, j, "deleted")
                        /\ xs[i].kind = "deleted" =>
                              xs[j].kind = "created" \/ Within(xs, c, i, j, "created")
      BY DEF Lifetimes
    <2>1. /\ i + 1 \in Posted(ws, 0, c) /\ j + 1 \in Posted(ws, 0, c) /\ i \in 1..n /\ j \in 1..n
          /\ xs[i] = ws[i + 1] /\ xs[j] = ws[j + 1]
      BY <1>6
    <2>2. i + 1 < j + 1
      BY <2>1
    <2>3. Lifetimes(ws, c)
      BY DEF Posting
    <2>4. /\ ws[j + 1].kind = "created" =>
               ws[i + 1].kind = "deleted" \/ Within(ws, c, i + 1, j + 1, "deleted")
          /\ ws[i + 1].kind = "deleted" =>
               ws[j + 1].kind = "created" \/ Within(ws, c, i + 1, j + 1, "created")
      BY <2>1, <2>2, <2>3 DEF Lifetimes
    <2> QED  BY <2>1, <2>4, <1>8
  <1>10. Files(r)
    <2>1. 1 \in 1..(n + 1)
      OBVIOUS
    <2>2. Post(ws[1]) /\ r = Board!Heard(l, ws[1])
      BY <1>2, <1>5, <2>1, PostsAt
    <2> QED  BY <2>2, CopiesHeard
  <1>11. ASSUME NEW c \in Card, NEW a, Leads(l, ws, 0, rw, c, a)
         PROVE  Leads(r, xs, 0, rw, c, a)
    <2>1. 0 + 1 \in DOMAIN ws /\ 0 \in Nat /\ 0 + 1 = 1
      BY <1>5
    <2>2. LastPost(ws, rw, c) /\ Lifetimes(ws, c)
      BY DEF Posting
    <2>3. r = Board!Heard(l, ws[0 + 1])
      BY <1>2, <2>1
    <2>4. Leads(r, ws, 0 + 1, rw, c, a)
      BY <2>1, <2>2, <2>3, <1>11, LeadsOn
    <2>5. \A kind : Word(ws, 1, c, kind) <=> Word(xs, 0, c, kind)
      <3> TAKE kind
      <3>1. Word(ws, 1, c, kind) => Word(xs, 0, c, kind)
        BY <1>6 DEF Word
      <3>2. Word(xs, 0, c, kind) => Word(ws, 1, c, kind)
        BY <1>6 DEF Word
      <3> QED  BY <3>1, <3>2
    <2> QED  BY <2>1, <2>4, <2>5 DEF Leads
  <1>12. \A c \in Card : LastPost(xs, rw, c) /\ Lifetimes(xs, c)
    BY <1>7, <1>9
  <1> QED  BY <1>3, <1>10, <1>11, <1>12 DEF Posting

-----------------------------------------------------------------------------
\* The store after each of the first n events.
BoardTold(f, l, n) ==
    f = [k \in 0..n |-> IF k = 0 THEN l ELSE Board!Heard(f[k - 1], wire[k])]

LEMMA BoardToldExists ==
  ASSUME NEW l, NEW n \in Nat
  PROVE  \E f : BoardTold(f, l, n)
  <1>1. PICK B : B = {m \in Nat : ~\E f : BoardTold(f, l, m)}
    OBVIOUS
  <1>2. SUFFICES ASSUME n \in B PROVE FALSE
    BY <1>1
  <1>3. PICK m \in B : \A k \in B : ~(k < m)
    BY <1>1, <1>2, LeastOf
  <1>4. m \in Nat /\ ~\E f : BoardTold(f, l, m)
    BY <1>1, <1>3
  <1>5. CASE m = 0
    <2>1. BoardTold([k \in 0..0 |-> l], l, 0)
      BY DEF BoardTold
    <2> QED BY <2>1, <1>4, <1>5
  <1>6. CASE m # 0
    <2>1. m - 1 \in Nat /\ m - 1 \in 0..(m-1) /\ m - 1 < m
      BY <1>4, <1>6
    <2>2. PICK f : BoardTold(f, l, m - 1)
      BY <1>1, <1>3, <2>1
    <2>3. PICK g : g = [k \in 0..m |-> IF k = m THEN Board!Heard(f[m-1], wire[m]) ELSE f[k]]
      OBVIOUS
    <2>4. \A k \in 0..(m-1) : g[k] = f[k]
      BY <1>4, <2>1, <2>3
    <2>5. ASSUME NEW k \in 0..m
          PROVE g[k] = IF k = 0 THEN l ELSE Board!Heard(g[k-1], wire[k])
      <3>1. CASE k = m
        <4>1. g[m-1] = f[m-1]
          BY <2>1, <2>4
        <4> QED BY <4>1, <2>3, <3>1, <1>4, <1>6
      <3>2. CASE k # m
        <4>1. k \in 0..(m-1)
          BY <1>4, <3>2
        <4>2. f[k] = IF k = 0 THEN l ELSE Board!Heard(f[k-1], wire[k])
          BY <4>1, <2>2 DEF BoardTold
        <4>3. k # 0 => k - 1 \in 0..(m-1)
          BY <4>1, <1>4
        <4> QED BY <4>1, <4>2, <4>3, <2>4
      <3> QED BY <3>1, <3>2
    <2>6. g = [k \in 0..m |-> g[k]]
      BY <2>3
    <2>7. BoardTold(g, l, m)
      BY <2>5, <2>6 DEF BoardTold
    <2> QED BY <2>7, <1>4
  <1> QED BY <1>5, <1>6

\* So it is before and after all of them.
LEMMA LeadsTold ==
  ASSUME Posts(wire), NEW rw, NEW c, LastPost(wire, rw, c), Lifetimes(wire, c),
         NEW l, Files(l), NEW n, n = Len(wire)
  PROVE  /\ Files(Board!Told(l))
         /\ Leads(l, wire, 0, rw, c, FALSE) <=> Leads(Board!Told(l), wire, n, rw, c, FALSE)
  <1>0. n \in Nat /\ DOMAIN wire = 1..n
    BY PostsAt
  <1>1. PICK f : BoardTold(f, l, n) /\ Board!Told(l) = f[n]
    <2>1. PICK f : f = CHOOSE g : BoardTold(g, l, n)
      OBVIOUS
    <2>2. BoardTold(f, l, n)
      BY <1>0, <2>1, BoardToldExists
    <2>3. Board!Told(l) = f[n]
      BY <2>1 DEF Board!Told, BoardTold
    <2> QED  BY <2>2, <2>3
  <1>2. PICK B : B = {m \in 0..n :
                        ~(/\ Files(f[m])
                          /\ Leads(l, wire, 0, rw, c, FALSE) <=> Leads(f[m], wire, m, rw, c, FALSE))}
    OBVIOUS
  <1>3. ASSUME B # {}
        PROVE  FALSE
    <2>1. B \in SUBSET Nat
      <3>1. \A k \in 0..n : k \in Nat
        BY <1>0
      <3> QED  BY <1>2, <3>1
    <2>2. PICK m \in B : \A k \in B : ~(k < m)
      BY <2>1, <1>3, LeastOf
    <2>3. /\ m \in 0..n
          /\ ~(/\ Files(f[m])
               /\ Leads(l, wire, 0, rw, c, FALSE) <=> Leads(f[m], wire, m, rw, c, FALSE))
      BY <1>2, <2>2
    <2>4. f[m] = IF m = 0 THEN l ELSE Board!Heard(f[m-1], wire[m])
      BY <1>1, <2>3 DEF BoardTold
    <2>5. CASE m = 0
      BY <2>3, <2>4, <2>5
    <2>6. CASE m # 0
      <3>1. PICK j \in Nat : m = j + 1 /\ j = m - 1 /\ j \in 0..n /\ j + 1 \in 1..n /\ j < m
        BY <1>0, <2>3, <2>6
      <3>2. j \notin B
        BY <2>2, <3>1
      <3>3. PICK g : /\ g = f[j] /\ Files(g)
                     /\ Leads(l, wire, 0, rw, c, FALSE) <=> Leads(g, wire, j, rw, c, FALSE)
        BY <1>2, <3>1, <3>2
      <3>4. f[m] = Board!Heard(g, wire[j + 1])
        BY <2>4, <2>6, <3>1, <3>3
      <3>5. j + 1 \in DOMAIN wire
        BY <1>0, <3>1
      <3>6. /\ Files(f[m])
            /\ Leads(g, wire, j, rw, c, FALSE) <=> Leads(f[m], wire, j + 1, rw, c, FALSE)
        BY <3>3, <3>4, <3>5, LeadsOn
      <3> QED  BY <3>1, <3>3, <3>6, <2>3
    <2> QED  BY <2>5, <2>6
  <1>4. n \in 0..n
    BY <1>0
  <1> QED  BY <1>1, <1>2, <1>3, <1>4

LEMMA AgreesLeads ==
  ASSUME Posts(wire), FiledRows(row), Posting(wire, row), NEW l, Files(l)
  PROVE  Board!Agrees(l) <=> \A c \in Card : Leads(l, wire, 0, row, c, FALSE)
  <1>1. PICK t, n : t = Board!Told(l) /\ n = Len(wire)
    OBVIOUS
  <1>2. \A c \in Card : /\ Files(t)
                        /\ Leads(l, wire, 0, row, c, FALSE) <=> Leads(t, wire, n, row, c, FALSE)
    BY <1>1, LeadsTold DEF Posting
  <1>3. \A k \in DOMAIN t : Files(t) => t[k].id \in Card
    BY FilesAt DEF Filed
  <1>4. \A c, kind : ~Word(wire, n, c, kind)
    <2>1. \A k \in DOMAIN wire : ~(n < k)
      BY <1>1, PostsAt
    <2> QED  BY <2>1 DEF Word, Posted
  <1>5. \A c \in Card : Leads(l, wire, 0, row, c, FALSE) <=>
                          /\ Copies(t, c) # {} <=> There(row, c)
                          /\ Copies(t, c) \subseteq {row[c]}
    BY <1>2, <1>4 DEF Leads
  <1>6. Board!Agrees(l) <=> {t[k] : k \in DOMAIN t} = {row[c] : c \in {d \in Card : There(row, d)}}
    BY <1>1 DEF Board!Agrees, Board!Present, There
  <1>7. \A c \in Card : row[c].id = c
    BY DEF FiledRows
  <1>8. Files(t)
    <2>1. CASE Card = {}
      <3>1. Posted(wire, 0, 0) = {}
        BY <2>1, PostsAt DEF Posted, Post, Filed
      <3>2. LastPost(wire, row, 0) /\ Lifetimes(wire, 0)
        BY <3>1 DEF LastPost, Lifetimes
      <3> QED  BY <1>1, <3>2, LeadsTold
    <2> QED  BY <1>2, <2>1
  <1> DEFINE Has(c) == Copies(t, c) # {} <=> There(row, c)
             Right(c) == Copies(t, c) \subseteq {row[c]}
  <1>9. ASSUME \A c \in Card : Has(c) /\ Right(c)
        PROVE  {t[k] : k \in DOMAIN t} = {row[c] : c \in {d \in Card : There(row, d)}}
    <2>1. ASSUME NEW k \in DOMAIN t
          PROVE  \E c \in Card : There(row, c) /\ t[k] = row[c]
      <3>1. t[k].id \in Card /\ t[k] \in Copies(t, t[k].id)
        BY <1>3, <1>8 DEF Copies
      <3> QED  BY <3>1, <1>9
    <2>2. ASSUME NEW c \in Card, There(row, c)
          PROVE  \E k \in DOMAIN t : t[k] = row[c]
      <3>1. PICK x \in Copies(t, c) : x = row[c]
        BY <1>9, <2>2
      <3> QED  BY <3>1 DEF Copies
    <2> QED  BY <2>1, <2>2
  <1>10. ASSUME {t[k] : k \in DOMAIN t} = {row[c] : c \in {d \in Card : There(row, d)}},
                NEW c \in Card
         PROVE  Has(c) /\ Right(c)
    <2>1. \A k \in DOMAIN t : \E d \in Card : There(row, d) /\ t[k] = row[d]
      BY <1>10
    <2>2. \A k \in DOMAIN t : t[k].id = c => There(row, c) /\ t[k] = row[c]
      BY <2>1, <1>7
    <2>3. There(row, c) => \E k \in DOMAIN t : t[k] = row[c]
      BY <1>10
    <2>4. There(row, c) => Copies(t, c) # {}
      BY <2>3, <1>7 DEF Copies
    <2> QED  BY <2>2, <2>4 DEF Copies
  <1> HIDE DEF Has, Right
  <1>11. \A c \in Card : Leads(l, wire, 0, row, c, FALSE) <=> Has(c) /\ Right(c)
    BY <1>5 DEF Has, Right
  <1> QED  BY <1>6, <1>9, <1>10, <1>11

-----------------------------------------------------------------------------
\* The events es tell, one for each, that the issues of C are made, changed or deleted.
TellsOf(es, C, kind, rw, new) ==
    /\ Posts(es) /\ C \subseteq Card /\ kind \in {"created", "updated", "deleted"}
    /\ \A k \in DOMAIN es : LET i == es[k].issue IN
         es[k].kind = kind /\ i.id \in C /\ i = new[i.id]
    /\ \A c \in C : \E k \in DOMAIN es : \A j \in DOMAIN es : es[j].issue.id = c <=> j = k
    /\ \A c \in C : /\ There(rw, c) <=> kind # "created"
                    /\ There(new, c) <=> kind # "deleted"
    /\ \A c \in Card : c \notin C => new[c] = rw[c]

\* xs is ws and more events, that at q about c.
Adds(ws, xs, c, q) ==
    /\ Posts(ws) /\ Posts(xs) /\ Len(ws) <= Len(xs)
    /\ \A k \in DOMAIN ws : xs[k] = ws[k]
    /\ \A k \in DOMAIN xs : k > Len(ws) => (xs[k].issue.id = c <=> k = q)

LEMMA PostedAdded ==
  ASSUME NEW ws, NEW xs, NEW c, NEW q, Adds(ws, xs, c, q)
  PROVE  /\ Posted(xs, 0, c) = IF q \in DOMAIN xs /\ q > Len(ws) THEN Posted(ws, 0, c) \cup {q}
                               ELSE Posted(ws, 0, c)
         /\ \A k \in Posted(ws, 0, c) : xs[k] = ws[k] /\ k \in Nat /\ k <= Len(ws)
  <1>1. PICK n \in Nat : n = Len(ws) /\ DOMAIN ws = 1..n
    BY PostsAt DEF Adds
  <1>2. PICK m \in Nat : m = Len(xs) /\ DOMAIN xs = 1..m
    BY PostsAt DEF Adds
  <1>3. /\ n <= m /\ \A k \in 1..n : xs[k] = ws[k]
        /\ \A k \in 1..m : k > n => (xs[k].issue.id = c <=> k = q)
    BY <1>1, <1>2 DEF Adds
  <1>4. \A k \in 1..m : 0 < k /\ (k > n \/ k \in 1..n)
    OBVIOUS
  <1>5. \A k \in 1..n : 0 < k /\ k \in 1..m /\ k <= n /\ k \in Nat /\ ~(k > n)
    BY <1>3
  <1>6. Posted(xs, 0, c) = {k \in 1..m : xs[k].issue.id = c}
    BY <1>2, <1>4 DEF Posted
  <1>7. Posted(ws, 0, c) = {k \in 1..n : ws[k].issue.id = c}
    BY <1>1, <1>5 DEF Posted
  <1>8. \A k : k \in Posted(xs, 0, c) <=> k \in Posted(ws, 0, c) \/ (k = q /\ q \in 1..m /\ q > n)
    <2> TAKE k
    <2>1. CASE k \in 1..m /\ k > n
      BY <2>1, <1>3, <1>5, <1>6, <1>7
    <2>2. CASE k \in 1..n
      BY <2>2, <1>3, <1>5, <1>6, <1>7
    <2>3. CASE k \notin 1..m
      BY <2>3, <1>5, <1>6, <1>7
    <2> QED  BY <2>1, <2>2, <2>3, <1>4
  <1> QED  BY <1>1, <1>2, <1>3, <1>5, <1>7, <1>8

\* An event more about c.
LEMMA OneMorePost ==
  ASSUME NEW ws, NEW xs, NEW c \in Card, NEW q, Adds(ws, xs, c, q), q \in DOMAIN xs, q > Len(ws),
         NEW rw, NEW new, LastPost(ws, rw, c), Lifetimes(ws, c),
         NEW e, e = xs[q], e.issue = new[c], e.kind \in {"created", "updated", "deleted"},
         There(rw, c) <=> e.kind # "created", There(new, c) <=> e.kind # "deleted"
  PROVE  /\ LastPost(xs, new, c) /\ Lifetimes(xs, c)
         /\ \A l, a : Leads(l, ws, 0, rw, c, a) => Leads(l, xs, 0, new, c, FALSE)
  <1>1. PICK A, n : A = Posted(ws, 0, c) /\ n = Len(ws)
    OBVIOUS
  <1>2. /\ Posted(xs, 0, c) = A \cup {q}
        /\ \A k \in A : xs[k] = ws[k] /\ k \in Nat /\ k <= n
    BY <1>1, PostedAdded
  <1>3. n \in Nat /\ q \in Nat /\ q > n /\ \A k \in A : k < q
    <2>1. n \in Nat /\ q \in Nat
      BY <1>1, PostsAt DEF Adds
    <2> QED  BY <2>1, <1>1, <1>2
  <1>4. \A k \in Posted(xs, 0, c) : (\A j \in Posted(xs, 0, c) : j <= k) => k = q
    BY <1>2, <1>3
  <1>5. LastPost(xs, new, c)
    BY <1>4 DEF LastPost
  <1>6. A # {} => \E k \in A : /\ \A j \in A : j <= k
                               /\ ws[k].kind = "deleted" <=> e.kind = "created"
    <2> SUFFICES ASSUME A # {}
                 PROVE  \E k \in A : /\ \A j \in A : j <= k
                                     /\ ws[k].kind = "deleted" <=> e.kind = "created"
      OBVIOUS
    <2>1. PICK k \in A : \A j \in A : j <= k
      BY <1>1, LastPosted DEF Adds
    <2>2. ws[k].kind = "deleted" <=> ~There(rw, c)
      BY <1>1, <2>1 DEF LastPost
    <2> QED  BY <2>1, <2>2
  <1>7. \A i, j, kind : j <= q /\ j \in Nat /\ Within(ws, c, i, j, kind) => Within(xs, c, i, q, kind)
    BY <1>1, <1>2, <1>3 DEF Within
  <1>8. \A i, j, kind : Within(ws, c, i, j, kind) => Within(xs, c, i, j, kind)
    BY <1>1, <1>2 DEF Within
  <1>9. Lifetimes(xs, c)
    <2> SUFFICES ASSUME NEW i \in A \cup {q}, NEW j \in A \cup {q}, i < j
                 PROVE  /\ xs[j].kind = "created" =>
                              xs[i].kind = "deleted" \/ Within(xs, c, i, j, "deleted")
                        /\ xs[i].kind = "deleted" =>
                              xs[j].kind = "created" \/ Within(xs, c, i, j, "created")
      BY <1>2 DEF Lifetimes
    <2>1. i \in A
      BY <1>2, <1>3
    <2>2. CASE j \in A
      BY <2>1, <2>2, <1>1, <1>2, <1>8 DEF Lifetimes
    <2>3. CASE j = q
      <3>1. PICK k \in A : /\ \A m \in A : m <= k
                           /\ ws[k].kind = "deleted" <=> e.kind = "created"
        BY <2>1, <1>6
      <3>2. CASE i = k
        BY <3>1, <3>2, <2>1, <2>3, <1>2
      <3>3. CASE i # k
        <4>1. i < k /\ k <= q /\ k < q /\ i \in Nat /\ k \in Nat
          BY <3>1, <3>3, <2>1, <1>2, <1>3
        <4>2. ws[i].kind = "deleted" => ws[k].kind = "created" \/ Within(ws, c, i, k, "created")
          BY <4>1, <2>1, <1>1 DEF Lifetimes
        <4>3. \A kind : ws[k].kind = kind => Within(xs, c, i, q, kind)
          BY <4>1, <1>2 DEF Within
        <4>4. Within(ws, c, i, k, "created") => Within(xs, c, i, q, "created")
          BY <4>1, <1>7
        <4> QED  BY <4>2, <4>3, <4>4, <3>1, <2>1, <2>3, <1>2
      <3> QED  BY <3>2, <3>3
    <2> QED  BY <2>2, <2>3
  <1>10. \A kind : Word(xs, 0, c, kind) <=> Word(ws, 0, c, kind) \/ e.kind = kind
    BY <1>1, <1>2 DEF Word
  <1>11. ASSUME NEW l, NEW a, Leads(l, ws, 0, rw, c, a)
         PROVE  Leads(l, xs, 0, new, c, FALSE)
    <2>1. CASE e.kind = "deleted" \/ Word(ws, 0, c, "deleted")
      BY <2>1, <1>10 DEF Leads
    <2>2. CASE e.kind = "updated"
      BY <2>2, <1>10, <1>11 DEF Leads
    <2>3. CASE e.kind = "created" /\ ~Word(ws, 0, c, "deleted")
      <3>1. Copies(l, c) = {}
        BY <2>3, <1>11 DEF Leads
      <3> QED  BY <3>1, <2>3, <1>10 DEF Leads
    <2> QED  BY <2>1, <2>2, <2>3
  <1> QED  BY <1>5, <1>9, <1>11

\* No event more about c.
LEMMA NoMorePost ==
  ASSUME NEW ws, NEW xs, NEW c, Adds(ws, xs, c, 0), NEW rw, NEW new, new[c] = rw[c],
         LastPost(ws, rw, c), Lifetimes(ws, c)
  PROVE  /\ LastPost(xs, new, c) /\ Lifetimes(xs, c)
         /\ \A l, a : Leads(l, ws, 0, rw, c, a) => Leads(l, xs, 0, new, c, a)
  <1>1. Posted(xs, 0, c) = Posted(ws, 0, c) /\ \A k \in Posted(ws, 0, c) : xs[k] = ws[k]
    <2>1. 0 \notin DOMAIN xs
      BY PostsAt DEF Adds
    <2> QED  BY <2>1, PostedAdded
  <1>2. LastPost(xs, new, c)
    BY <1>1 DEF LastPost, There
  <1>3. \A i, j, kind : Within(ws, c, i, j, kind) => Within(xs, c, i, j, kind)
    BY <1>1 DEF Within
  <1>4. Lifetimes(xs, c)
    BY <1>1, <1>3 DEF Lifetimes
  <1>5. \A kind : Word(xs, 0, c, kind) <=> Word(ws, 0, c, kind)
    BY <1>1 DEF Word
  <1> QED  BY <1>2, <1>4, <1>5 DEF Leads, There

\* As the events led from a list to the rows, so they do with more events about C.
LeadsToo(ws, xs, rw, new, C) ==
    \A c \in Card : \A l, a : Leads(l, ws, 0, rw, c, a) =>
      IF c \in C THEN Leads(l, xs, 0, new, c, FALSE) ELSE Leads(l, xs, 0, new, c, a)

LEMMA PostsSent ==
  ASSUME NEW ws, Posts(ws), NEW rw, Posting(ws, rw), NEW es, NEW C, NEW kind, NEW new,
         TellsOf(es, C, kind, rw, new), NEW xs, xs = ws \o es
  PROVE  Posts(xs) /\ Posting(xs, new) /\ LeadsToo(ws, xs, rw, new, C)
  <1>1. PICK S : ws \in Seq(S) /\ \A e \in S : Post(e)
    BY DEF Posts
  <1>2. PICK T : es \in Seq(T) /\ \A e \in T : Post(e)
    BY DEF Posts, TellsOf
  <1>3. PICK U : U = S \cup T
    OBVIOUS
  <1>4. ws \in Seq(U) /\ es \in Seq(U)
    BY <1>1, <1>2, <1>3
  <1>5. /\ xs \in Seq(U) /\ Len(xs) = Len(ws) + Len(es)
        /\ \A i \in 1..Len(ws) : xs[i] = ws[i]
        /\ \A i \in 1..Len(es) : xs[Len(ws) + i] = es[i]
    <2>1. \A i \in 1 .. Len(ws) + Len(es) :
            xs[i] = IF i <= Len(ws) THEN ws[i] ELSE es[i - Len(ws)]
      BY <1>4, ConcatProperties
    <2>2. xs \in Seq(U) /\ Len(xs) = Len(ws) + Len(es) /\ Len(ws) \in Nat /\ Len(es) \in Nat
      BY <1>4, ConcatProperties, LenProperties
    <2>3. \A i \in 1..Len(es) : Len(ws) + i \in 1..(Len(ws) + Len(es)) /\ ~(Len(ws) + i <= Len(ws))
                                /\ (Len(ws) + i) - Len(ws) = i
      BY <2>2
    <2> QED  BY <2>1, <2>2, <2>3
  <1>6. Posts(xs)
    BY <1>1, <1>2, <1>3, <1>5 DEF Posts
  <1>7. PICK n \in Nat, m \in Nat : /\ n = Len(ws) /\ DOMAIN ws = 1..n
                                    /\ m = Len(es) /\ DOMAIN es = 1..m
    BY PostsAt DEF TellsOf
  <1>8. /\ DOMAIN xs = 1..(n + m) /\ Len(xs) = n + m
        /\ \A k \in 1..n : xs[k] = ws[k]
        /\ \A k \in 1..m : xs[n + k] = es[k]
    BY <1>5, <1>6, <1>7, PostsAt
  <1>9. /\ \A k \in 1..(n + m) : k > n => k - n \in 1..m /\ n + (k - n) = k
        /\ \A k \in 1..m : n + k \in 1..(n + m) /\ n + k > n
    OBVIOUS
  <1>10. ASSUME NEW c \in Card, c \notin C
         PROVE  /\ LastPost(xs, new, c) /\ Lifetimes(xs, c)
                /\ \A l, a : Leads(l, ws, 0, rw, c, a) => Leads(l, xs, 0, new, c, a)
    <2>1. \A k \in 1..m : es[k].issue.id # c
      BY <1>7, <1>10 DEF TellsOf
    <2>2. Adds(ws, xs, c, 0)
      BY <2>1, <1>6, <1>7, <1>8, <1>9 DEF Adds
    <2>3. new[c] = rw[c] /\ LastPost(ws, rw, c) /\ Lifetimes(ws, c)
      BY <1>10 DEF TellsOf, Posting
    <2> QED  BY <2>2, <2>3, NoMorePost
  <1>11. ASSUME NEW c \in C
         PROVE  /\ c \in Card /\ LastPost(xs, new, c) /\ Lifetimes(xs, c)
                /\ \A l, a : Leads(l, ws, 0, rw, c, a) => Leads(l, xs, 0, new, c, FALSE)
    <2>a. \A v \in C : \E k \in DOMAIN es : \A j \in DOMAIN es : es[j].issue.id = v <=> j = k
      BY DEF TellsOf
    <2>b. PICK k \in DOMAIN es : \A j \in DOMAIN es : es[j].issue.id = c <=> j = k
      BY <2>a
    <2>1. k \in 1..m /\ \A j \in 1..m : es[j].issue.id = c <=> j = k
      BY <1>7, <2>b
    <2>2. PICK q, e : q = n + k /\ e = es[k]
      OBVIOUS
    <2>3. q \in 1..(n + m) /\ q > n /\ xs[q] = e
      BY <2>1, <2>2, <1>8, <1>9
    <2>4. Adds(ws, xs, c, q)
      <3>1. \A j \in 1..(n + m) : j > n => (xs[j].issue.id = c <=> j = q)
        <4> SUFFICES ASSUME NEW j \in 1..(n + m), j > n
                     PROVE  xs[j].issue.id = c <=> j = q
          OBVIOUS
        <4>1. j - n \in 1..m /\ xs[j] = es[j - n]
          BY <1>8, <1>9
        <4>3. k \in Nat /\ q = n + k
          BY <2>1, <2>2
        <4>2. j = q <=> j - n = k
          BY ONLY n \in Nat, m \in Nat, j \in 1..(n + m), <4>3
        <4> QED  BY <4>1, <4>2, <2>1
      <3>2. Len(ws) <= Len(xs) /\ Posts(ws) /\ (\A j \in DOMAIN ws : xs[j] = ws[j])
        BY <1>7, <1>8
      <3>3. \A j \in DOMAIN xs : j > Len(ws) => (xs[j].issue.id = c <=> j = q)
        BY <3>1, <1>7, <1>8
      <3> QED  BY ONLY <3>2, <3>3, <1>6 DEF Adds
    <2>5. e.kind = kind /\ e.issue.id = c /\ e.issue = new[c]
      BY <2>1, <2>2, <1>7 DEF TellsOf
    <2>6. /\ c \in Card /\ LastPost(ws, rw, c) /\ Lifetimes(ws, c)
          /\ There(rw, c) <=> e.kind # "created"
          /\ There(new, c) <=> e.kind # "deleted"
      BY <2>5 DEF TellsOf, Posting
    <2>7. q \in DOMAIN xs /\ q > Len(ws)
      BY <2>3, <1>7, <1>8
    <2>9. kind \in {"created", "updated", "deleted"}
      BY DEF TellsOf
    <2>8. e = xs[q] /\ e.kind \in {"created", "updated", "deleted"} /\ e.issue = new[c]
      BY <2>3, <2>5, <2>9
    <2> QED  BY ONLY <2>4, <2>6, <2>7, <2>8, OneMorePost
  <1>12. Posting(xs, new)
    BY <1>10, <1>11 DEF Posting
  <1>13. ASSUME NEW c \in Card, NEW l, NEW a, Leads(l, ws, 0, rw, c, a)
         PROVE  IF c \in C THEN Leads(l, xs, 0, new, c, FALSE) ELSE Leads(l, xs, 0, new, c, a)
    BY <1>10, <1>11, <1>13
  <1> QED  BY <1>6, <1>12, <1>13 DEF LeadsToo

-----------------------------------------------------------------------------
BoardCall(r) ==
    /\ r = [kind |-> r.kind, status |-> r.status, ids |-> r.ids, to |-> r.to, pos |-> r.pos,
            over |-> r.over, rows |-> r.rows, old |-> r.old]
    /\ r.status = "idle" \/ r.kind \in {"list", "move", "card", "batch", "delete"}
    /\ r.kind \in {"move", "batch"} => r.to \in Board!Status
    /\ r.kind = "card" => Filed(r.rows[1]) /\ r.ids = {r.rows[1].id}
    /\ r.kind = "list" /\ r.status = "ok" => Files(r.rows)

BoardCalls(c) == c = [n \in BSlots |-> c[n]] /\ \A n \in BSlots : BoardCall(c[n])

\* A request of the board about v may still be answered without an event.
StillAsks(r, v) == r.kind \in {"move", "card"} /\ v \in r.ids /\ r.status \in {"sent", "error"}
BoardAsked(c, v) == \E n \in BSlots : StillAsks(c[n], v)
NoLess(c, d) == \A v : BoardAsked(c, v) => BoardAsked(d, v)
NoLessBut(c, d, C) == \A v : v \notin C /\ BoardAsked(c, v) => BoardAsked(d, v)
Puts(c, d, n, r) == d[n] = r /\ \A m \in BSlots : m # n => d[m] = c[m]
Placed(c, d, n, r) == d = [c EXCEPT ![n] = r]
Redrawn(c, d, f) == d = [n \in BSlots |-> [c[n] EXCEPT !.old = f[n]]]
BoardFetches(c) == \E n \in BSlots : c[n].kind = "list"

BoardLed(l, c, ws, rw) == \A v \in Card : Leads(l, ws, 0, rw, v, BoardAsked(c, v))

\* What the board keeps true: all the issues are fetched, or the events lead to each row.
BoardIs(l, c, ws, rw, lost) ==
    /\ Files(l) /\ BoardCalls(c) /\ Posts(ws) /\ FiledRows(rw) /\ Posting(ws, rw)
    /\ lost \/ BoardFetches(c) \/ BoardLed(l, c, ws, rw)

BoardInv == BoardIs(store, call, wire, row, part5)

-----------------------------------------------------------------------------
LEMMA LeadsIf ==
  ASSUME NEW l, NEW c, NEW d, NEW ws, NEW rw, NoLess(c, d)
  PROVE  /\ BoardLed(l, c, ws, rw) => BoardLed(l, d, ws, rw)
         /\ \A v : Leads(l, ws, 0, rw, v, BoardAsked(c, v)) => Leads(l, ws, 0, rw, v, BoardAsked(d, v))
  <1>1. \A v : Leads(l, ws, 0, rw, v, BoardAsked(c, v)) => Leads(l, ws, 0, rw, v, BoardAsked(d, v))
    BY DEF Leads, NoLess
  <1> QED  BY <1>1 DEF BoardLed

LEMMA BoardRequest ==
  ASSUME NEW k, NEW ids, NEW r, r = Board!Request(k, ids)
  PROVE  r = [kind |-> k, status |-> "sent", ids |-> ids, to |-> "todo", pos |-> 0,
              over |-> Board!NoCard, rows |-> <<>>, old |-> FALSE]
  BY DEF Board!Request, Board!Idle

LEMMA BoardIdle ==
  /\ BoardCall(Board!Idle) /\ Board!Idle.kind = "idle"
  /\ Board!Idle = [kind |-> "idle", status |-> "idle", ids |-> {}, to |-> "todo", pos |-> 0,
                   over |-> Board!NoCard, rows |-> <<>>, old |-> FALSE]
  BY DEF Board!Idle, BoardCall

\* Plain requests.
LEMMA BoardPlain ==
  ASSUME NEW k \in {"list", "delete"}, NEW ids, NEW r, r = Board!Request(k, ids)
  PROVE  BoardCall(r) /\ r.kind = k /\ r.status = "sent"
  BY BoardRequest DEF BoardCall

LEMMA BoardCallSet ==
  ASSUME NEW c, BoardCalls(c), NEW n \in BSlots, NEW r, BoardCall(r),
         NEW d, Placed(c, d, n, r)
  PROVE  BoardCalls(d) /\ Puts(c, d, n, r)
  <1>1. d = [m \in BSlots |-> IF m = n THEN r ELSE c[m]]
    BY DEF BoardCalls, Placed
  <1>2. \A m \in BSlots : BoardCall(d[m])
    BY <1>1 DEF BoardCalls
  <1> QED  BY <1>1, <1>2 DEF BoardCalls, Puts

\* One request becomes another, that asks no less and is a fetch if it was.
LEMMA BoardAskedStill ==
  ASSUME NEW c, NEW d, NEW n \in BSlots, NEW r, Puts(c, d, n, r)
  PROVE  /\ (\A v : StillAsks(c[n], v) => StillAsks(r, v)) => NoLess(c, d)
         /\ (c[n].kind = "list" => r.kind = "list") => (BoardFetches(c) => BoardFetches(d))
  BY DEF BoardAsked, BoardFetches, NoLess, Puts

\* Nothing but what is drawn.
LEMMA BoardDrawn ==
  ASSUME NEW l, NEW c, NEW ws, NEW rw, NEW p, BoardIs(l, c, ws, rw, p),
         NEW d, NEW f, Redrawn(c, d, f)
  PROVE  BoardIs(l, d, ws, rw, p)
  <1>1. \A n \in BSlots : BoardCall(c[n])
    BY DEF BoardIs, BoardCalls
  <1>2. ASSUME NEW n \in BSlots
        PROVE  /\ BoardCall(d[n])
               /\ d[n].kind = c[n].kind /\ \A v : StillAsks(c[n], v) => StillAsks(d[n], v)
    <2>1. PICK r, q : r = c[n] /\ q = d[n]
      OBVIOUS
    <2>2. q = [kind |-> r.kind, status |-> r.status, ids |-> r.ids, to |-> r.to, pos |-> r.pos,
               over |-> r.over, rows |-> r.rows, old |-> f[n]]
      <3>1. BoardCall(r) /\ q = [r EXCEPT !.old = f[n]]
        BY <1>1, <2>1 DEF Redrawn
      <3> QED  BY <3>1 DEF BoardCall
    <2>3. BoardCall(r)
      BY <1>1, <2>1
    <2>4. BoardCall(q)
      BY <2>2, <2>3 DEF BoardCall
    <2>5. q.kind = r.kind /\ q.status = r.status /\ q.ids = r.ids
      BY <2>2
    <2> QED  BY <2>1, <2>4, <2>5 DEF StillAsks
  <1>3. BoardCalls(d)
    BY <1>2 DEF BoardCalls, Redrawn
  <1>4. NoLess(c, d) /\ (BoardFetches(c) => BoardFetches(d))
    BY <1>2 DEF BoardAsked, BoardFetches, NoLess
  <1>5. BoardLed(l, c, ws, rw) => BoardLed(l, d, ws, rw)
    BY <1>4, LeadsIf
  <1> QED  BY <1>3, <1>4, <1>5 DEF BoardIs

\* A request is made that writes nothing, or ends so.
LEMMA BoardCallOnly ==
  ASSUME NEW l, NEW c, NEW ws, NEW rw, NEW p, BoardIs(l, c, ws, rw, p),
         NEW n \in BSlots, NEW r, BoardCall(r), NEW d, Placed(c, d, n, r),
         \/ r.kind = "list"
         \/ c[n].kind # "list" /\ \A v : StillAsks(c[n], v) => StillAsks(r, v)
  PROVE  BoardIs(l, d, ws, rw, p)
  <1>1. BoardCalls(d) /\ Puts(c, d, n, r)
    <2>1. BoardCalls(c)
      BY DEF BoardIs
    <2> QED  BY <2>1, BoardCallSet
  <1>2. CASE r.kind = "list"
    <2>1. BoardFetches(d)
      BY <1>1, <1>2 DEF BoardFetches, Puts
    <2> QED  BY <1>1, <2>1 DEF BoardIs
  <1>3. CASE c[n].kind # "list" /\ \A v : StillAsks(c[n], v) => StillAsks(r, v)
    <2>1. NoLess(c, d) /\ (BoardFetches(c) => BoardFetches(d))
      BY <1>1, <1>3, BoardAskedStill
    <2>2. BoardLed(l, c, ws, rw) => BoardLed(l, d, ws, rw)
      BY <2>1, LeadsIf
    <2> QED  BY <1>1, <2>1, <2>2 DEF BoardIs
  <1> QED  BY <1>2, <1>3

\* The store takes the new form of an issue, which is asked of the server.
LEMMA BoardEdits ==
  ASSUME NEW l, NEW c, NEW ws, NEW rw, NEW p, BoardIs(l, c, ws, rw, p),
         NEW n \in BSlots, c[n].kind = "idle", NEW i, Filed(i),
         NEW r, BoardCall(r), r.kind \in {"move", "card"}, r.ids = {i.id}, r.status = "sent",
         NEW d, Placed(c, d, n, r), NEW s, s = Board!UpdateIssue(l, i.id, i)
  PROVE  BoardIs(s, d, ws, rw, p)
  <1>1. BoardCalls(d) /\ Puts(c, d, n, r)
    <2>1. BoardCalls(c)
      BY DEF BoardIs
    <2> QED  BY <2>1, BoardCallSet
  <1>2. /\ Files(s) /\ Besides(l, s, i.id)
        /\ Copies(s, i.id) = IF Copies(l, i.id) = {} THEN {} ELSE {i}
    BY CopiesUpdated DEF BoardIs
  <1>3. \A v : ~StillAsks(c[n], v)
    BY DEF StillAsks
  <1>4. NoLess(c, d) /\ (BoardFetches(c) => BoardFetches(d))
    BY <1>1, <1>3, BoardAskedStill
  <1>5. BoardAsked(d, i.id)
    BY <1>1 DEF BoardAsked, StillAsks, Puts
  <1>6. ASSUME NEW v \in Card, Leads(l, ws, 0, rw, v, BoardAsked(c, v))
        PROVE  Leads(s, ws, 0, rw, v, BoardAsked(d, v))
    <2>1. CASE v = i.id
      <3>1. Copies(s, v) # {} <=> Copies(l, v) # {}
        BY <1>2, <2>1
      <3>2. BoardAsked(d, v)
        BY <1>5, <2>1
      <3> QED  BY <3>1, <3>2, <1>6 DEF Leads
    <2>2. CASE v # i.id
      <3>1. Copies(s, v) = Copies(l, v)
        BY <1>2, <2>2 DEF Besides
      <3>2. Leads(l, ws, 0, rw, v, BoardAsked(d, v))
        BY <1>4, <1>6, LeadsIf
      <3> QED  BY <3>1, <3>2 DEF Leads
    <2> QED  BY <2>1, <2>2
  <1>7. BoardLed(l, c, ws, rw) => BoardLed(s, d, ws, rw)
    BY <1>6 DEF BoardLed
  <1> QED  BY <1>1, <1>2, <1>4, <1>7 DEF BoardIs

-----------------------------------------------------------------------------
(* What the user does.                                                     *)

LEMMA BoardShown ==
  ASSUME BoardInv, NEW p, NEW vs, NEW clears, Board!ShowView(p, vs, clears)
  PROVE  BoardInv'
  <1>1. UNCHANGED <<store, wire, row, part5>>
    BY DEF Board!ShowView
  <1>2. CASE call' = call
    BY <1>1, <1>2 DEF BoardInv
  <1>3. CASE call' # call
    <2>1. call' = [n \in BSlots |-> [call[n] EXCEPT !.old = call[n].kind # "idle"]]
      BY <1>3 DEF Board!ShowView, BSlots
    <2>2. PICK f : f = [n \in BSlots |-> call[n].kind # "idle"]
      OBVIOUS
    <2>3. PICK d : d = call' /\ Redrawn(call, d, f)
      BY <2>1, <2>2 DEF Redrawn
    <2>5. BoardIs(store, call, wire, row, part5)
      BY DEF BoardInv
    <2>4. BoardIs(store, d, wire, row, part5)
      BY <2>3, <2>5, BoardDrawn
    <2> QED  BY <1>1, <2>3, <2>4 DEF BoardInv
  <1> QED  BY <1>2, <1>3

LEMMA BoardSet ==
  ASSUME BoardInv, NEW v, NEW clears, Board!Set(v, clears)
  PROVE  BoardInv'
  BY BoardShown DEF Board!Set

LEMMA BoardViews ==
  ASSUME BoardInv,
         \/ \E p \in {"my", "workspace"} : Board!SetPageMode(p)
         \/ Board!IssuesHeader \/ Board!MyIssuesFilters \/ Board!MyIssuesDisplay
         \/ \E s \in Board!BoardStatus :
              Board!HideStatus(s) \/ Board!ShowStatus(s) \/ Board!ToggleListCollapsed(s)
  PROVE  BoardInv'
  <1>1. CASE \E p \in {"my", "workspace"} : Board!SetPageMode(p)
    BY <1>1, BoardShown DEF Board!SetPageMode
  <1>2. CASE Board!Filters
    BY <1>2, BoardSet DEF Board!Filters, Board!SetScope, Board!ToggleStatusFilter,
       Board!ToggleWhoFilter, Board!ClearFilters
  <1>3. CASE Board!Display
    BY <1>3, BoardSet DEF Board!Display, Board!SetViewMode, Board!SetSortBy, Board!SetSortDirection
  <1>4. ASSUME NEW s, Board!HideStatus(s) \/ Board!ShowStatus(s) \/ Board!ToggleListCollapsed(s)
        PROVE  BoardInv'
    BY <1>4, BoardSet DEF Board!HideStatus, Board!ShowStatus, Board!ToggleListCollapsed
  <1> QED  BY <1>1, <1>2, <1>3, <1>4 DEF Board!IssuesHeader, Board!MyIssuesFilters,
              Board!MyIssuesDisplay

LEMMA BoardSelects ==
  ASSUME BoardInv,
         \/ \E s \in Board!BoardStatus : Board!ToggleHeader(s)
         \/ Board!ClearSelection
         \/ \E b \in BOOLEAN : Board!DeleteDialog(b)
         \/ \E c \in Card : Board!ToggleRow(c)
  PROVE  BoardInv'
  <1>1. UNCHANGED <<store, call, wire, row, part5>>
    BY DEF Board!ToggleHeader, Board!ClearSelection, Board!DeleteDialog, Board!ToggleRow,
       Board!Select
  <1> QED  BY <1>1 DEF BoardInv

\* The issue that is shown is one of the store.
LEMMA IssueHeld ==
  ASSUME BoardInv, NEW c \in Board!Held, NEW i, i = Board!Issue(c)
  PROVE  Filed(i) /\ i.id = c
  <1>1. \E k \in DOMAIN store : store[k].id = c
    BY DEF Board!Held
  <1>2. PICK j : j = CHOOSE k \in DOMAIN store : store[k].id = c
    OBVIOUS
  <1>3. j \in DOMAIN store /\ store[j].id = c
    BY <1>1, <1>2
  <1>4. i = store[j]
    BY <1>2 DEF Board!Issue
  <1> QED  BY <1>3, <1>4, FilesAt DEF BoardInv, BoardIs

LEMMA BoardSend ==
  ASSUME NEW n \in Board!Free, NEW r, Board!Send(n, r)
  PROVE  n \in BSlots /\ call[n].kind = "idle" /\ Placed(call, call', n, r)
  BY DEF Board!Send, Board!Free, BSlots, Placed

\* The store shows the new form of an issue, and a request asks for it.
LEMMA BoardEdited ==
  ASSUME BoardInv, NEW n \in Board!Free, NEW i, Filed(i), NEW r, BoardCall(r),
         r.kind \in {"move", "card"}, r.ids = {i.id}, r.status = "sent", Board!Send(n, r),
         store' = Board!UpdateIssue(store, i.id, i), UNCHANGED <<wire, row, part5>>
  PROVE  BoardInv'
  <1>1. n \in BSlots /\ call[n].kind = "idle" /\ Placed(call, call', n, r)
    BY BoardSend
  <1>2. PICK d, s : /\ d = call' /\ s = store'
                    /\ Placed(call, d, n, r) /\ s = Board!UpdateIssue(store, i.id, i)
    BY <1>1
  <1>3. BoardIs(store, call, wire, row, part5)
    BY DEF BoardInv
  <1>4. BoardIs(s, d, wire, row, part5)
    BY <1>1, <1>2, <1>3, BoardEdits
  <1> QED  BY <1>2, <1>4 DEF BoardInv

LEMMA BoardDropped ==
  ASSUME BoardInv, NEW n \in Board!Free, NEW c \in Board!Held, NEW to \in Board!Status, NEW over,
         Board!Drop(n, c, to, over)
  PROVE  BoardInv'
  <1>1. PICK pos, i, r :
          /\ i = [Board!Issue(c) EXCEPT !.status = to, !.pos = pos]
          /\ store' = Board!UpdateIssue(store, c, i)
          /\ r = [Board!Request("move", {c}) EXCEPT !.to = to, !.pos = pos, !.over = over]
          /\ Board!Send(n, r)
          /\ UNCHANGED <<wire, row, part5>>
    BY DEF Board!Drop
  <1>2. PICK x : x = Board!Issue(c) /\ Filed(x) /\ x.id = c
    BY IssueHeld
  <1>3. i = [id |-> c, status |-> to, pos |-> pos, who |-> x.who]
    <2>1. i = [x EXCEPT !.status = to, !.pos = pos]
      BY <1>1, <1>2
    <2> QED  BY <1>2, <2>1 DEF Filed
  <1>4. Filed(i) /\ i.id = c
    BY <1>2, <1>3 DEF Filed
  <1>5. r = [kind |-> "move", status |-> "sent", ids |-> {c}, to |-> to, pos |-> pos,
             over |-> over, rows |-> <<>>, old |-> FALSE]
    <2>1. PICK q : q = Board!Request("move", {c})
      OBVIOUS
    <2>2. q = [kind |-> "move", status |-> "sent", ids |-> {c}, to |-> "todo", pos |-> 0,
               over |-> Board!NoCard, rows |-> <<>>, old |-> FALSE]
      BY <2>1, BoardRequest
    <2>3. r = [q EXCEPT !.to = to, !.pos = pos, !.over = over]
      BY <1>1, <2>1
    <2> QED  BY <2>2, <2>3
  <1>6. BoardCall(r) /\ r.kind = "move" /\ r.ids = {c} /\ r.status = "sent"
    BY <1>5 DEF BoardCall
  <1> QED  BY <1>1, <1>4, <1>6, BoardEdited

LEMMA BoardDrops ==
  ASSUME BoardInv, NEW n \in Board!Free, NEW c \in Board!Held,
         \/ \E d \in Board!Held : Board!DropOnCard(n, c, d)
         \/ \E s \in Board!BoardStatus : Board!DropOnColumn(n, c, s)
  PROVE  BoardInv'
  <1>1. ASSUME NEW d \in Board!Held, Board!DropOnCard(n, c, d)
        PROVE  BoardInv'
    <2>1. Board!Listed(d) /\ Board!Drop(n, c, Board!Issue(d).status, d)
      BY <1>1 DEF Board!DropOnCard
    <2>2. Board!Issue(d).status \in Board!Status
      BY <2>1 DEF Board!Listed, Board!ListedIn, Board!Shown, Board!VisibleStatuses,
         Board!BoardStatus
    <2> QED  BY <2>1, <2>2, BoardDropped
  <1>2. ASSUME NEW s \in Board!BoardStatus, Board!DropOnColumn(n, c, s)
        PROVE  BoardInv'
    <2>1. s \in Board!Status /\ Board!Drop(n, c, s, Board!NoCard)
      BY <1>2 DEF Board!DropOnColumn, Board!BoardStatus
    <2> QED  BY <2>1, BoardDropped
  <1> QED  BY <1>1, <1>2

LEMMA BoardPicks ==
  ASSUME BoardInv, NEW n \in Board!Free, NEW c \in Board!Held, NEW w, Board!PickOnCard(n, c, w)
  PROVE  BoardInv'
  <1>1. PICK x, i, r :
          /\ x = Board!Issue(c) /\ i = [x EXCEPT !.who = w]
          /\ store' = Board!UpdateIssue(store, c, i)
          /\ r = [Board!Request("card", {c}) EXCEPT !.to = w, !.rows = <<x>>]
          /\ Board!Send(n, r)
          /\ UNCHANGED <<wire, row, part5>>
    BY DEF Board!PickOnCard
  <1>2. Filed(x) /\ x.id = c
    BY <1>1, IssueHeld
  <1>3. i = [id |-> c, status |-> x.status, pos |-> x.pos, who |-> w]
    BY <1>1, <1>2 DEF Filed
  <1>4. Filed(i) /\ i.id = c
    BY <1>2, <1>3 DEF Filed
  <1>5. r = [kind |-> "card", status |-> "sent", ids |-> {c}, to |-> w, pos |-> 0,
             over |-> Board!NoCard, rows |-> <<x>>, old |-> FALSE]
    <2>1. PICK q : q = Board!Request("card", {c})
      OBVIOUS
    <2>2. q = [kind |-> "card", status |-> "sent", ids |-> {c}, to |-> "todo", pos |-> 0,
               over |-> Board!NoCard, rows |-> <<>>, old |-> FALSE]
      BY <2>1, BoardRequest
    <2>3. r = [q EXCEPT !.to = w, !.rows = <<x>>]
      BY <1>1, <2>1
    <2> QED  BY <2>2, <2>3
  <1>6. BoardCall(r) /\ r.kind = "card" /\ r.ids = {c} /\ r.status = "sent"
    <2>1. <<x>>[1] = x
      OBVIOUS
    <2> QED  BY <1>2, <1>5, <2>1 DEF BoardCall
  <1> QED  BY <1>1, <1>4, <1>6, BoardEdited

BoardSent(n) ==
    \E r : BoardCall(r) /\ Board!Send(n, r) /\ UNCHANGED <<store, wire, row, part5>>

LEMMA BoardBatches ==
  ASSUME BoardInv, NEW n \in Board!Free,
         (\E s \in Board!Status : Board!BatchUpdate(n, s)) \/ Board!BatchDelete(n)
  PROVE  BoardInv'
  <1>1. BoardSent(n)
    <2>1. ASSUME NEW s \in Board!Status, Board!BatchUpdate(n, s)
          PROVE  BoardSent(n)
      <3>1. PICK q, r, ids : /\ ids = part3 /\ q = Board!Request("batch", ids) /\ r = [q EXCEPT !.to = s]
                             /\ Board!Send(n, r) /\ UNCHANGED <<store, wire, row, part5>>
        BY <2>1 DEF Board!BatchUpdate
      <3>2. q = [kind |-> "batch", status |-> "sent", ids |-> ids, to |-> "todo", pos |-> 0,
                 over |-> Board!NoCard, rows |-> <<>>, old |-> FALSE]
        BY <3>1, BoardRequest
      <3>3. r = [kind |-> "batch", status |-> "sent", ids |-> ids, to |-> s, pos |-> 0,
                 over |-> Board!NoCard, rows |-> <<>>, old |-> FALSE]
        <4>1. r = [q EXCEPT !.to = s]
          BY <3>1
        <4> QED  BY ONLY <4>1, <3>2
      <3>4. BoardCall(r)
        BY <3>3 DEF BoardCall
      <3> QED  BY <3>1, <3>4 DEF BoardSent
    <2>2. CASE Board!BatchDelete(n)
      <3>1. PICK r : /\ r = Board!Request("delete", part3) /\ Board!Send(n, r)
                     /\ UNCHANGED <<store, wire, row, part5>>
        BY <2>2 DEF Board!BatchDelete
      <3>2. BoardCall(r)
        BY <3>1, BoardPlain
      <3> QED  BY <3>1, <3>2 DEF BoardSent
    <2> QED  BY <2>1, <2>2
  <1>r. PICK r : BoardCall(r) /\ Board!Send(n, r) /\ UNCHANGED <<store, wire, row, part5>>
    BY <1>1 DEF BoardSent
  <1>2. n \in BSlots /\ call[n].kind = "idle" /\ Placed(call, call', n, r)
    BY <1>r, BoardSend
  <1>3. PICK d : d = call' /\ Placed(call, d, n, r)
    BY <1>2
  <1>4. call[n].kind # "list" /\ \A v : StillAsks(call[n], v) => StillAsks(r, v)
    BY <1>2 DEF StillAsks
  <1>5. BoardIs(store, d, wire, row, part5)
    BY <1>r, <1>2, <1>3, <1>4, BoardCallOnly DEF BoardInv
  <1> QED  BY <1>r, <1>3, <1>5 DEF BoardInv

-----------------------------------------------------------------------------
(* The answers and the events.                                             *)

LEMMA BoardHears ==
  ASSUME BoardInv, Board!Deliver
  PROVE  BoardInv'
  <1>1. PICK xs, s : /\ xs = wire' /\ s = store' /\ xs = Tail(wire) /\ wire # <<>>
                     /\ s = Board!Heard(store, Head(wire)) /\ UNCHANGED <<call, row, part5>>
    BY DEF Board!Deliver
  <1>2. Posts(wire) /\ Posting(wire, row) /\ Files(store)
    BY DEF BoardInv, BoardIs
  <1>3. /\ Posts(xs) /\ Files(s) /\ Posting(xs, row)
        /\ \A c \in Card : \A a : Leads(store, wire, 0, row, c, a) => Leads(s, xs, 0, row, c, a)
    BY ONLY <1>1, <1>2, PostHeard
  <1>4. BoardLed(store, call, wire, row) => BoardLed(s, call, xs, row)
    BY <1>3 DEF BoardLed
  <1>5. BoardIs(s, call, xs, row, part5)
    BY <1>3, <1>4 DEF BoardInv, BoardIs
  <1> QED  BY <1>1, <1>5 DEF BoardInv

\* The store changes for the issues of C only, and for those as the events lead.
Apart(l, s, C) == \A v : v \notin C => Copies(s, v) = Copies(l, v)
Mends(l, s, ws, rw, C) ==
    \A v \in Card : v \in C =>
      \A a : Leads(l, ws, 0, rw, v, a) => Leads(s, ws, 0, rw, v, FALSE)

\* A request ends with a write of the store that corrects all that it asked.
LEMMA BoardEnds ==
  ASSUME NEW l, NEW c, NEW ws, NEW rw, NEW p, BoardIs(l, c, ws, rw, p),
         NEW n \in BSlots, c[n].kind # "list", NEW d, Placed(c, d, n, Board!Idle),
         NEW C, \A v : StillAsks(c[n], v) => v \in C,
         NEW s, Files(s), Apart(l, s, C), NEW q, p => q, q \/ Mends(l, s, ws, rw, C)
  PROVE  BoardIs(s, d, ws, rw, q)
  <1>1. PICK r : r = Board!Idle /\ BoardCall(r)
    BY BoardIdle
  <1>2. BoardCalls(d) /\ Puts(c, d, n, r)
    <2>1. BoardCalls(c)
      BY DEF BoardIs
    <2>2. Placed(c, d, n, r)
      BY <1>1
    <2>3. BoardCall(r)
      BY <1>1
    <2> QED  BY ONLY n \in BSlots, <2>1, <2>2, <2>3, BoardCallSet
  <1>3. BoardFetches(c) => BoardFetches(d)
    BY <1>2 DEF BoardFetches, Puts
  <1>4. NoLessBut(c, d, C)
    BY <1>2 DEF NoLessBut, BoardAsked, Puts
  <1>5. ASSUME Mends(l, s, ws, rw, C), BoardLed(l, c, ws, rw), NEW v \in Card
        PROVE  Leads(s, ws, 0, rw, v, BoardAsked(d, v))
    <2>1. Leads(l, ws, 0, rw, v, BoardAsked(c, v))
      BY <1>5 DEF BoardLed
    <2>2. CASE v \in C
      <3>1. Leads(s, ws, 0, rw, v, FALSE)
        BY <2>1, <2>2, <1>5 DEF Mends
      <3> QED  BY <3>1 DEF Leads
    <2>3. CASE v \notin C
      <3>1. Copies(s, v) = Copies(l, v) /\ (BoardAsked(c, v) => BoardAsked(d, v))
        BY <2>3, <1>4 DEF Apart, NoLessBut
      <3> QED  BY <3>1, <2>1 DEF Leads
    <2> QED  BY <2>2, <2>3
  <1>6. Mends(l, s, ws, rw, C) /\ BoardLed(l, c, ws, rw) => BoardLed(s, d, ws, rw)
    BY <1>5 DEF BoardLed
  <1> QED  BY <1>2, <1>3, <1>6 DEF BoardIs

\* A write that is not missed.
LEMMA NothingMissed ==
  ASSUME NEW c \in Card, ~Board!Missed(c), Posts(wire), NEW s, s = store', NEW l,
         Copies(s, c) # {} <=> Copies(l, c) # {}, NEW a, Leads(l, wire, 0, row, c, a)
  PROVE  Leads(s, wire, 0, row, c, FALSE)
  <1>1. CASE \E k \in DOMAIN wire : wire[k].issue.id = c /\ wire[k].kind # "created"
    <2>1. PICK k \in DOMAIN wire : wire[k].issue.id = c /\ wire[k].kind # "created"
      BY <1>1
    <2>2. k \in Posted(wire, 0, c) /\ wire[k].kind \in {"updated", "deleted"}
      <3>1. \A j \in DOMAIN wire : 0 < j /\ Post(wire[j])
        BY PostsAt
      <3> QED  BY <3>1, <2>1 DEF Posted, Post
    <2>3. Word(wire, 0, c, "updated") \/ Word(wire, 0, c, "deleted")
      BY <2>2 DEF Word
    <2> QED  BY <2>3 DEF Leads
  <1>2. CASE \A k \in DOMAIN s : s[k].id = c => s[k] = row[c]
    <2>1. Copies(s, c) \subseteq {row[c]}
      BY <1>2 DEF Copies
    <2> QED  BY <2>1 DEF Leads
  <1> QED  BY <1>1, <1>2 DEF Board!Missed

LEMMA BoardMoved ==
  ASSUME BoardInv, NEW n \in BSlots, Board!Moved(n)
  PROVE  BoardInv'
  <1>1. PICK r : /\ r = (IF call[n].status = "ok" THEN Board!Idle ELSE Board!Request("list", {}))
                 /\ Placed(call, call', n, r) /\ UNCHANGED <<store, wire, row, part5>>
                 /\ call[n].kind = "move"
    BY DEF Board!Moved, Board!Ended, Placed
  <1>2. PICK d : d = call' /\ Placed(call, d, n, r)
    BY <1>1
  <1>3. BoardCall(r) /\ (r.kind = "list" \/ call[n].status = "ok")
    BY <1>1, BoardIdle, BoardPlain
  <1>4. r.kind = "list" \/ (call[n].kind # "list" /\ \A v : StillAsks(call[n], v) => StillAsks(r, v))
    BY <1>1, <1>3 DEF StillAsks
  <1>5. BoardIs(store, call, wire, row, part5)
    BY DEF BoardInv
  <1>6. BoardIs(store, d, wire, row, part5)
    BY ONLY n \in BSlots, <1>2, <1>3, <1>4, <1>5, BoardCallOnly
  <1> QED  BY <1>1, <1>2, <1>6 DEF BoardInv

LEMMA BoardArrives ==
  ASSUME BoardInv, NEW n \in BSlots, Board!IssuesArrive(n)
  PROVE  BoardInv'
  <1>0. BoardCalls(call) /\ BoardCall(call[n])
    BY DEF BoardInv, BoardIs, BoardCalls
  <1>1. PICK d, s, q : d = call' /\ s = store' /\ q = part5'
    OBVIOUS
  <1>2. /\ UNCHANGED <<wire, row>> /\ Placed(call, d, n, Board!Idle) /\ call[n].kind = "list"
        /\ IF call[n].status = "ok" THEN s = call[n].rows /\ q = ~Board!Agrees(s)
           ELSE s = store /\ q = TRUE
    BY <1>1 DEF Board!IssuesArrive, Board!Ended, Board!Freed, Placed
  <1>3. BoardCalls(d)
    BY <1>0, <1>2, BoardIdle, BoardCallSet
  <1>4. Files(s)
    BY <1>0, <1>2 DEF BoardCall, BoardInv, BoardIs
  <1>5. ASSUME ~q
        PROVE  BoardLed(s, d, wire, row)
    <2>1. Board!Agrees(s)
      BY <1>2, <1>5
    <2>2. \A c \in Card : Leads(s, wire, 0, row, c, FALSE)
      BY <2>1, <1>4, AgreesLeads DEF BoardInv, BoardIs
    <2> QED  BY <2>2 DEF BoardLed, Leads
  <1>6. BoardIs(s, d, wire, row, q)
    BY <1>3, <1>4, <1>5 DEF BoardInv, BoardIs
  <1> QED  BY <1>1, <1>2, <1>6 DEF BoardInv

LEMMA BoardCardUpdated ==
  ASSUME BoardInv, NEW n \in BSlots, Board!CardUpdated(n)
  PROVE  BoardInv'
  <1>0. BoardCall(call[n]) /\ Files(store) /\ Posts(wire) /\ BoardIs(store, call, wire, row, part5)
    BY DEF BoardInv, BoardIs, BoardCalls
  <1>1. PICK d, s, q, i : d = call' /\ s = store' /\ q = part5' /\ i = call[n].rows[1]
    OBVIOUS
  <1>2. /\ UNCHANGED <<wire, row>> /\ Placed(call, d, n, Board!Idle) /\ call[n].kind = "card"
        /\ s = (IF call[n].status = "ok" THEN store ELSE Board!UpdateIssue(store, i.id, i))
        /\ q = (part5 \/ (call[n].status = "error" /\ \E c \in call[n].ids : Board!Missed(c)))
        /\ call[n].status \in {"ok", "error"}
    BY <1>1 DEF Board!CardUpdated, Board!Ended, Board!Freed, Placed
  <1>3. Filed(i) /\ call[n].ids = {i.id} /\ i.id \in Card
    BY <1>0, <1>1, <1>2 DEF BoardCall, Filed
  <1>4. CASE call[n].status = "ok"
    <2>1. \A v : StillAsks(call[n], v) => v \in {}
      BY <1>4 DEF StillAsks
    <2>2. s = store /\ Apart(store, s, {}) /\ Mends(store, s, wire, row, {})
      BY <1>2, <1>4 DEF Apart, Mends
    <2>3. BoardIs(s, d, wire, row, q)
      <3>1. call[n].kind # "list" /\ (part5 => q) /\ Files(s)
        BY <1>0, <1>2, <2>2
      <3> QED  BY <1>0, <1>2, <2>1, <2>2, <3>1, BoardEnds
    <2> QED  BY <1>1, <1>2, <2>3 DEF BoardInv
  <1>5. CASE call[n].status = "error"
    <2>1. /\ Files(s) /\ Besides(store, s, i.id)
          /\ Copies(s, i.id) = IF Copies(store, i.id) = {} THEN {} ELSE {i}
      <3>1. s = Board!UpdateIssue(store, i.id, i) /\ Filed(i) /\ Files(store)
        BY <1>0, <1>2, <1>3, <1>5
      <3> QED  BY ONLY <3>1, CopiesUpdated
    <2>2. \A v : StillAsks(call[n], v) => v \in {i.id}
      BY <1>3 DEF StillAsks
    <2>3. Apart(store, s, {i.id})
      BY <2>1 DEF Besides, Apart
    <2>4. ASSUME ~q
          PROVE  Mends(store, s, wire, row, {i.id})
      <3>1. ~Board!Missed(i.id)
        BY <1>2, <1>3, <1>5, <2>4
      <3>2. Copies(s, i.id) # {} <=> Copies(store, i.id) # {}
        BY <2>1
      <3>3. \A a : Leads(store, wire, 0, row, i.id, a) => Leads(s, wire, 0, row, i.id, FALSE)
        BY <1>0, <1>1, <1>3, <3>1, <3>2, NothingMissed
      <3> QED  BY <3>3 DEF Mends
    <2>5. BoardIs(s, d, wire, row, q)
      <3>1. call[n].kind # "list" /\ (part5 => q)
        BY <1>2
      <3> QED  BY <1>0, <1>2, <2>1, <2>2, <2>3, <2>4, <3>1, BoardEnds
    <2> QED  BY <1>1, <1>2, <2>5 DEF BoardInv
  <1> QED  BY <1>2, <1>4, <1>5

\* A batch that fails is followed by a fetch.
LEMMA BoardRefetches ==
  ASSUME BoardInv, NEW n \in BSlots, NEW d, d = call', Placed(call, d, n, Board!Request("list", {})),
         UNCHANGED <<store, wire, row, part5>>
  PROVE  BoardInv'
  <1>1. PICK r : r = Board!Request("list", {}) /\ BoardCall(r) /\ r.kind = "list"
    BY BoardPlain
  <1>2. Placed(call, d, n, r)
    BY <1>1
  <1>3. BoardIs(store, call, wire, row, part5)
    BY DEF BoardInv
  <1>4. BoardIs(store, d, wire, row, part5)
    BY <1>1, <1>2, <1>3, BoardCallOnly
  <1> QED  BY <1>4 DEF BoardInv

\* The status of a set of issues.
Restatus(l, C, to) ==
    [k \in DOMAIN l |-> IF l[k].id \in C THEN [l[k] EXCEPT !.status = to] ELSE l[k]]

LEMMA CopiesRestatus ==
  ASSUME NEW l, Files(l), NEW C, NEW to, NEW r, r = Restatus(l, C, to)
  PROVE  /\ Files(r) /\ Apart(l, r, C)
         /\ \A v : Copies(r, v) # {} <=> Copies(l, v) # {}
  <1>1. PICK n \in Nat : n = Len(l)
    BY FilesAt
  <1>2. /\ DOMAIN l = 1..n /\ \A k \in 1..n : Filed(l[k])
        /\ r = [k \in 1..n |-> IF l[k].id \in C THEN [l[k] EXCEPT !.status = to] ELSE l[k]]
    BY <1>1, FilesAt DEF Restatus
  <1>3. DOMAIN r = 1..n /\ r = [k \in 1..n |-> r[k]]
    BY <1>2
  <1>4. ASSUME NEW k \in 1..n
        PROVE  /\ Filed(r[k]) /\ r[k].id = l[k].id
               /\ l[k].id \notin C => r[k] = l[k]
    <2>1. PICK x, y : x = l[k] /\ y = r[k] /\ Filed(x)
      BY <1>2
    <2>2. CASE l[k].id \in C
      <3>1. y = [x EXCEPT !.status = to]
        BY <1>2, <2>1, <2>2
      <3>2. y = [id |-> x.id, status |-> to, pos |-> x.pos, who |-> x.who]
        BY <2>1, <3>1 DEF Filed
      <3> QED  BY <2>1, <2>2, <3>2 DEF Filed
    <2>3. CASE l[k].id \notin C
      BY <1>2, <2>1, <2>3
    <2> QED  BY <2>2, <2>3
  <1>5. Files(r)
    BY <1>3, <1>4, FilesMade
  <1>6. Apart(l, r, C)
    <2> SUFFICES ASSUME NEW v, v \notin C
                 PROVE  Copies(r, v) = Copies(l, v)
      BY DEF Apart
    <2>1. \A k \in 1..n : (l[k].id = v <=> r[k].id = v) /\ (l[k].id = v => r[k] = l[k])
      BY <1>4
    <2> QED  BY <2>1, <1>2, <1>3 DEF Copies
  <1>7. ASSUME NEW v
        PROVE  Copies(r, v) # {} <=> Copies(l, v) # {}
    <2>1. Copies(r, v) # {} <=> \E k \in 1..n : r[k].id = v
      BY <1>3 DEF Copies
    <2>2. Copies(l, v) # {} <=> \E k \in 1..n : l[k].id = v
      BY <1>2 DEF Copies
    <2> QED  BY <2>1, <2>2, <1>4
  <1> QED  BY <1>5, <1>6, <1>7

LEMMA BoardBatchUpdated ==
  ASSUME BoardInv, NEW n \in BSlots, Board!BatchUpdated(n)
  PROVE  BoardInv'
  <1>0. Files(store) /\ Posts(wire) /\ BoardIs(store, call, wire, row, part5)
    BY DEF BoardInv, BoardIs
  <1>1. PICK d, s, q, C, to :
          d = call' /\ s = store' /\ q = part5' /\ C = call[n].ids /\ to = call[n].to
    OBVIOUS
  <1>2. UNCHANGED <<wire, row>> /\ call[n].kind = "batch"
    BY DEF Board!BatchUpdated, Board!Ended
  <1>3. CASE call[n].status # "ok"
    <2>1. Placed(call, d, n, Board!Request("list", {})) /\ UNCHANGED <<store, wire, row, part5>>
      BY <1>1, <1>3 DEF Board!BatchUpdated, Placed
    <2> QED  BY <2>1, <1>1, BoardRefetches
  <1>4. CASE call[n].status = "ok"
    <2>1. /\ s = Restatus(store, C, to) /\ Placed(call, d, n, Board!Idle)
          /\ q = (part5 \/ \E c \in C : Board!Missed(c))
      BY <1>1, <1>4 DEF Board!BatchUpdated, Placed, Board!Freed, Restatus
    <2>2. /\ Files(s) /\ Apart(store, s, C)
          /\ \A v : Copies(s, v) # {} <=> Copies(store, v) # {}
      BY <1>0, <2>1, CopiesRestatus
    <2>3. \A v : StillAsks(call[n], v) => v \in C
      BY <1>4 DEF StillAsks
    <2>4. ASSUME ~q, NEW c \in Card, c \in C
          PROVE  \A a : Leads(store, wire, 0, row, c, a) => Leads(s, wire, 0, row, c, FALSE)
      <3>1. ~Board!Missed(c)
        BY <2>1, <2>4
      <3>2. Copies(s, c) # {} <=> Copies(store, c) # {}
        BY <2>2
      <3> QED  BY <1>0, <1>1, <3>1, <3>2, NothingMissed
    <2>5. q \/ Mends(store, s, wire, row, C)
      BY <2>4 DEF Mends
    <2>6. call[n].kind # "list" /\ (part5 => q)
      BY <1>2, <2>1
    <2>7. BoardIs(s, d, wire, row, q)
      BY <1>0, <2>1, <2>2, <2>3, <2>5, <2>6, BoardEnds
    <2> QED  BY <1>1, <1>2, <2>7 DEF BoardInv
  <1> QED  BY <1>3, <1>4

LEMMA BoardBatchDeleted ==
  ASSUME BoardInv, NEW n \in BSlots, Board!BatchDeleted(n)
  PROVE  BoardInv'
  <1>0. Files(store) /\ Posts(wire) /\ BoardIs(store, call, wire, row, part5)
    BY DEF BoardInv, BoardIs
  <1>1. PICK d, s, q, C : d = call' /\ s = store' /\ q = part5' /\ C = call[n].ids
    OBVIOUS
  <1>2. UNCHANGED <<wire, row>> /\ call[n].kind = "delete"
    BY DEF Board!BatchDeleted, Board!Ended
  <1>3. CASE call[n].status # "ok"
    <2>1. Placed(call, d, n, Board!Request("list", {})) /\ UNCHANGED <<store, wire, row, part5>>
      BY <1>1, <1>3 DEF Board!BatchDeleted, Placed
    <2> QED  BY <2>1, <1>1, BoardRefetches
  <1>4. CASE call[n].status = "ok"
    <2>1. /\ s = Board!RemoveAll(store, C) /\ Placed(call, d, n, Board!Idle)
          /\ q = (part5 \/ C \cap Board!Present # {})
      BY <1>1, <1>4 DEF Board!BatchDeleted, Placed, Board!Freed
    <2>2. Files(s) /\ \A c : Copies(s, c) = IF c \in C THEN {} ELSE Copies(store, c)
      BY <1>0, <2>1, CopiesRemoved
    <2>3. \A v : StillAsks(call[n], v) => v \in C
      BY <1>4 DEF StillAsks
    <2>4. ASSUME ~q, NEW c \in Card, c \in C, NEW a, Leads(store, wire, 0, row, c, a)
          PROVE  Leads(s, wire, 0, row, c, FALSE)
      <3>1. ~There(row, c)
        BY <2>1, <2>4 DEF Board!Present, There
      <3>2. Copies(s, c) = {}
        BY <2>2, <2>4
      <3> QED  BY <3>1, <3>2, <2>4 DEF Leads
    <2>5. q \/ Mends(store, s, wire, row, C)
      BY <2>4 DEF Mends
    <2>6. call[n].kind # "list" /\ (part5 => q) /\ Apart(store, s, C)
      BY <1>2, <2>1, <2>2 DEF Apart
    <2>7. BoardIs(s, d, wire, row, q)
      BY <1>0, <2>1, <2>2, <2>3, <2>5, <2>6, BoardEnds
    <2> QED  BY <1>1, <1>2, <2>7 DEF BoardInv
  <1> QED  BY <1>3, <1>4

-----------------------------------------------------------------------------
(* The server and the others.                                              *)

\* Events are told of what the server wrote.
LEMMA BoardTells ==
  ASSUME NEW l, NEW c, NEW ws, NEW rw, NEW p, BoardIs(l, c, ws, rw, p),
         NEW es, NEW C, NEW kind, NEW new,
         TellsOf(es, C, kind, rw, new), FiledRows(new), NEW xs, xs = ws \o es,
         NEW d, BoardCalls(d), BoardFetches(c) => BoardFetches(d), NoLessBut(c, d, C)
  PROVE  BoardIs(l, d, xs, new, p)
  <1>1. /\ Posts(ws) /\ Posting(ws, rw) /\ TellsOf(es, C, kind, rw, new)
        /\ xs = ws \o es
    BY DEF BoardIs
  <1>2. Posts(xs) /\ Posting(xs, new) /\ LeadsToo(ws, xs, rw, new, C)
    BY ONLY <1>1, PostsSent
  <1>3. ASSUME NEW v \in Card, Leads(l, ws, 0, rw, v, BoardAsked(c, v))
        PROVE  Leads(l, xs, 0, new, v, BoardAsked(d, v))
    <2>1. CASE v \in C
      <3>1. Leads(l, xs, 0, new, v, FALSE)
        BY <1>2, <1>3, <2>1 DEF LeadsToo
      <3> QED  BY <3>1 DEF Leads
    <2>2. CASE v \notin C
      <3>1. Leads(l, xs, 0, new, v, BoardAsked(c, v)) /\ (BoardAsked(c, v) => BoardAsked(d, v))
        BY <1>2, <1>3, <2>2 DEF NoLessBut, LeadsToo
      <3> QED  BY <3>1 DEF Leads
    <2> QED  BY <2>1, <2>2
  <1>4. BoardLed(l, c, ws, rw) => BoardLed(l, d, xs, new)
    BY <1>3 DEF BoardLed
  <1> QED  BY <1>2, <1>4 DEF BoardIs

\* An event for each issue of a set, in some order.
LEMMA PostsMade ==
  ASSUME NEW n \in Nat, NEW C, C \subseteq Card, NEW ids \in [1..n -> C],
         \A c \in C : \E k \in 1..n : \A j \in 1..n : ids[j] = c <=> j = k,
         NEW kind \in {"created", "updated", "deleted"}, NEW rw, NEW new, FiledRows(new),
         \A c \in C : /\ There(rw, c) <=> kind # "created"
                      /\ There(new, c) <=> kind # "deleted",
         \A c \in Card : c \notin C => new[c] = rw[c],
         NEW es, es = [k \in 1..n |-> [kind |-> kind, issue |-> new[ids[k]]]]
  PROVE  TellsOf(es, C, kind, rw, new)
  <1>1. DOMAIN es = 1..n /\ \A k \in 1..n : es[k] = [kind |-> kind, issue |-> new[ids[k]]]
    OBVIOUS
  <1>2. \A k \in 1..n : ids[k] \in C /\ Filed(new[ids[k]]) /\ new[ids[k]].id = ids[k]
    BY DEF FiledRows
  <1>3. \A k \in 1..n : es[k].kind = kind /\ es[k].issue = new[ids[k]] /\ es[k].issue.id = ids[k]
    BY <1>1, <1>2
  <1>4. Posts(es)
    <2>1. PICK S : S = {es[k] : k \in 1..n}
      OBVIOUS
    <2>2. es \in Seq(S)
      BY <2>1, <1>1
    <2>3. \A k \in 1..n : Post(es[k])
      BY <1>2, <1>3 DEF Post
    <2>4. \A e \in S : Post(e)
      BY <2>1, <2>3
    <2> QED  BY <2>2, <2>4 DEF Posts
  <1>5. \A k \in DOMAIN es : LET i == es[k].issue IN
          es[k].kind = kind /\ i.id \in C /\ i = new[i.id]
    BY <1>1, <1>2, <1>3
  <1>6. \A c \in C : \E k \in DOMAIN es : \A j \in DOMAIN es : es[j].issue.id = c <=> j = k
    <2> SUFFICES ASSUME NEW c \in C
                 PROVE  \E k \in 1..n : \A j \in 1..n : es[j].issue.id = c <=> j = k
      BY <1>1
    <2>1. PICK k \in 1..n : \A j \in 1..n : ids[j] = c <=> j = k
      OBVIOUS
    <2>2. \A j \in 1..n : es[j].issue.id = c <=> j = k
      BY <2>1, <1>3
    <2> QED  BY <2>2
  <1> QED  BY <1>4, <1>5, <1>6 DEF TellsOf

LEMMA RowFiled ==
  ASSUME NEW rw, FiledRows(rw), NEW c \in Card, NEW x, x = rw[c]
  PROVE  Filed(x) /\ x = [id |-> c, status |-> x.status, pos |-> x.pos, who |-> x.who]
  BY DEF FiledRows, Filed

\* Another actor writes one issue.
LEMMA BoardWritten ==
  ASSUME BoardInv, NEW c \in Card, NEW i, Filed(i), i.id = c, Board!SomeoneWrites(c, i),
         There(row, c) \/ i.status # "absent"
  PROVE  BoardInv'
  <1>1. PICK kind, new, es, xs :
          /\ kind = (IF row[c].status = "absent" THEN "created"
                     ELSE IF i.status = "absent" THEN "deleted" ELSE "updated")
          /\ new = row' /\ es = <<[kind |-> kind, issue |-> i]>> /\ xs = wire'
    OBVIOUS
  <1>2. /\ new = [row EXCEPT ![c] = i] /\ xs = wire \o es /\ UNCHANGED <<store, call, part5>>
    BY <1>1 DEF Board!SomeoneWrites, Board!Publish, Board!Event
  <1>3. FiledRows(row) /\ BoardCalls(call)
    BY DEF BoardInv, BoardIs
  <1>4. new = [d \in Card |-> IF d = c THEN i ELSE row[d]]
    BY <1>2, <1>3 DEF FiledRows
  <1>5. FiledRows(new)
    BY <1>3, <1>4 DEF FiledRows
  <1>6. kind \in {"created", "updated", "deleted"} /\ new[c] = i
    BY <1>1, <1>4
  <1>7. /\ There(row, c) <=> kind # "created"
        /\ There(new, c) <=> kind # "deleted"
    BY <1>1, <1>6 DEF There
  <1>8. TellsOf(es, {c}, kind, row, new)
    <2>1. PICK ids : ids = [k \in 1..1 |-> c]
      OBVIOUS
    <2>2. ids \in [1..1 -> {c}] /\ {c} \subseteq Card /\ 1 \in Nat
      BY <2>1
    <2>3. \A v \in {c} : \E k \in 1..1 : \A j \in 1..1 : ids[j] = v <=> j = k
      <3>1. \A j \in 1..1 : ids[j] = c <=> j = 1
        BY <2>1
      <3>2. 1 \in 1..1
        OBVIOUS
      <3> QED  BY <3>1, <3>2
    <2>4. es = [k \in 1..1 |-> [kind |-> kind, issue |-> new[ids[k]]]]
      <3>1. \A k \in 1..1 : k = 1 /\ ids[k] = c
        BY <2>1
      <3>2. es = [k \in 1..1 |-> [kind |-> kind, issue |-> i]]
        BY <1>1
      <3> QED  BY <3>1, <3>2, <1>6
    <2>5. \A v \in {c} : /\ There(row, v) <=> kind # "created"
                         /\ There(new, v) <=> kind # "deleted"
      BY <1>7
    <2>6. \A v \in Card : v \notin {c} => new[v] = row[v]
      BY <1>4
    <2> QED  BY ONLY <2>2, <2>3, <2>4, <2>5, <2>6, <1>5, <1>6, PostsMade
  <1>9. NoLessBut(call, call, {c})
    BY DEF NoLessBut
  <1>10. BoardIs(store, call, wire, row, part5)
    BY DEF BoardInv
  <1>11. BoardIs(store, call, xs, new, part5)
    BY <1>2, <1>3, <1>5, <1>8, <1>9, <1>10, BoardTells
  <1> QED  BY <1>1, <1>2, <1>11 DEF BoardInv

LEMMA BoardOthers ==
  ASSUME BoardInv, NEW c \in Card,
         \/ Board!SomeoneDeletes(c)
         \/ Board!SomeoneCreates(c)
         \/ \E s \in Board!Status : Board!SomeoneMoves(c, s)
  PROVE  BoardInv'
  <1>1. PICK x : x = row[c] /\ x = [id |-> c, status |-> x.status, pos |-> x.pos, who |-> x.who]
    BY RowFiled DEF BoardInv, BoardIs
  <1>2. PICK s, i : /\ i = [row[c] EXCEPT !.status = s] /\ Board!SomeoneWrites(c, i)
                    /\ There(row, c) \/ s # "absent"
    BY DEF Board!SomeoneDeletes, Board!SomeoneCreates, Board!SomeoneMoves, Board!Present, There,
       Board!Status
  <1>3. i = [id |-> c, status |-> s, pos |-> x.pos, who |-> x.who]
    <2>1. i = [x EXCEPT !.status = s]
      BY <1>1, <1>2
    <2> QED  BY ONLY <2>1, <1>1
  <1>4. Filed(i) /\ i.id = c /\ i.status = s
    BY <1>3 DEF Filed
  <1> QED  BY <1>2, <1>4, BoardWritten

-----------------------------------------------------------------------------
(* The answers of the server.                                              *)

\* The request, answered.
LEMMA BoardRestated ==
  ASSUME NEW r, BoardCall(r), r.status = "sent", NEW s, NEW q, q = [r EXCEPT !.status = s],
         r.kind # "list" \/ s # "ok"
  PROVE  /\ BoardCall(q) /\ q.kind = r.kind /\ q.ids = r.ids /\ q.status = s
         /\ r.kind \in {"list", "move", "card", "batch", "delete"}
  <1>1. q = [kind |-> r.kind, status |-> s, ids |-> r.ids, to |-> r.to, pos |-> r.pos,
             over |-> r.over, rows |-> r.rows, old |-> r.old]
    BY DEF BoardCall
  <1>2. r.kind \in {"list", "move", "card", "batch", "delete"}
    BY DEF BoardCall
  <1> QED  BY <1>1, <1>2 DEF BoardCall

LEMMA OrdersAre ==
  ASSUME NEW C, NEW ids \in Board!Orders(C), NEW m, m = Cardinality(C)
  PROVE  /\ ids \in [1..m -> C]
         /\ \A v \in C : \E k \in 1..m : \A j \in 1..m : ids[j] = v <=> j = k
  <1> DEFINE Ones(s) == \A c \in C : \E k \in DOMAIN s : \A j \in DOMAIN s : s[j] = c <=> j = k
  <1>c. Board!Orders(C) = {s \in [1..m -> C] : Ones(s)}
    <2>1. Board!Orders(C) = Orders(C)
      BY DEF Board!Orders, Orders, Board!Cardinality, Cardinality
    <2>2. Orders(C) = {s \in [1..Cardinality(C) -> C] : Ones(s)}
      BY Zenon DEF Orders
    <2> HIDE DEF Ones
    <2> QED  BY <2>1, <2>2
  <1>a. ids \in {s \in [1..m -> C] : Ones(s)}
    BY <1>c
  <1>b. ids \in [1..m -> C] /\ Ones(ids)
    <2> HIDE DEF Ones
    <2> QED  BY <1>a
  <1>1. /\ ids \in [1..m -> C]
        /\ \A v \in C : \E k \in DOMAIN ids : \A j \in DOMAIN ids : ids[j] = v <=> j = k
    BY <1>b
  <1>2. DOMAIN ids = 1..m
    BY <1>1
  <1> QED  BY <1>1, <1>2

\* The list of all the issues.
LEMMA BoardLists ==
  ASSUME BoardInv, NEW n \in BSlots, call[n].kind = "list", call[n].status = "sent",
         NEW ids, ids \in Board!Orders(Board!Present), NEW d, d = call',
         NEW rs, rs = [k \in DOMAIN ids |-> row[ids[k]]],
         d = [call EXCEPT ![n].status = "ok", ![n].rows = rs],
         UNCHANGED <<store, wire, row, part5>>
  PROVE  BoardInv'
  <1>1. PICK m : m = Cardinality(Board!Present)
    OBVIOUS
  <1>2. m \in Nat
    <2>1. IsFiniteSet(Card) /\ Board!Present \subseteq Card
      BY RowsOfCards DEF Board!Present
    <2>2. IsFiniteSet(Board!Present)
      BY <2>1, FS_Subset
    <2> QED  BY <1>1, <2>2, FS_CardinalityType
  <1>3. DOMAIN ids = 1..m /\ \A k \in 1..m : ids[k] \in Card
    <2>1. ids \in [1..m -> Board!Present]
      BY <1>1, OrdersAre
    <2> QED  BY <2>1 DEF Board!Present
  <1>4. rs = [k \in 1..m |-> row[ids[k]]]
    BY <1>3
  <1>5. Files(rs)
    <2>1. FiledRows(row)
      BY DEF BoardInv, BoardIs
    <2>2. \A k \in 1..m : Filed(rs[k])
      BY <2>1, <1>3, <1>4 DEF FiledRows
    <2>3. rs = [k \in 1..m |-> rs[k]]
      BY <1>4
    <2> QED  BY <1>2, <2>2, <2>3, FilesMade
  <1>6. BoardIs(store, call, wire, row, part5)
    BY DEF BoardInv
  <1>7. PICK c, q : c = call[n] /\ q = d[n] /\ BoardCall(c)
    BY <1>6 DEF BoardIs, BoardCalls
  <1>8. q = [c EXCEPT !.status = "ok", !.rows = rs] /\ Placed(call, d, n, q)
    BY <1>6, <1>7 DEF BoardIs, BoardCalls, Placed
  <1>9. q = [kind |-> "list", status |-> "ok", ids |-> c.ids, to |-> c.to, pos |-> c.pos,
             over |-> c.over, rows |-> rs, old |-> c.old]
    BY <1>7, <1>8 DEF BoardCall
  <1>10. BoardCall(q) /\ q.kind = "list"
    BY <1>5, <1>9 DEF BoardCall
  <1>11. BoardIs(store, d, wire, row, part5)
    BY <1>6, <1>8, <1>10, BoardCallOnly
  <1> QED  BY <1>11 DEF BoardInv

\* A request that fails.
LEMMA BoardFails ==
  ASSUME BoardInv, NEW n \in BSlots, call[n].status = "sent", NEW d, d = call',
         d = [call EXCEPT ![n].status = "error"], UNCHANGED <<store, wire, row, part5>>
  PROVE  BoardInv'
  <1>1. BoardIs(store, call, wire, row, part5)
    BY DEF BoardInv
  <1>2. PICK c, q : c = call[n] /\ q = d[n] /\ BoardCall(c)
    BY <1>1 DEF BoardIs, BoardCalls
  <1>3. q = [c EXCEPT !.status = "error"] /\ Placed(call, d, n, q)
    BY <1>1, <1>2 DEF BoardIs, BoardCalls, Placed
  <1>4. BoardCall(q) /\ q.kind = c.kind /\ q.ids = c.ids /\ q.status = "error"
    BY <1>2, <1>3, BoardRestated
  <1>5. q.kind = "list" \/ (call[n].kind # "list" /\ \A v : StillAsks(call[n], v) => StillAsks(q, v))
    BY <1>2, <1>4 DEF StillAsks
  <1>6. BoardIs(store, d, wire, row, part5)
    BY <1>1, <1>3, <1>4, <1>5, BoardCallOnly
  <1> QED  BY <1>6 DEF BoardInv

\* What a request makes of an issue that is there.
LEMMA RowApplied ==
  ASSUME NEW r, BoardCall(r), r.kind \in {"move", "card", "batch", "delete"}, FiledRows(row),
         NEW c \in Card, There(row, c), NEW x, x = Board!Applied(r, c)
  PROVE  /\ Filed(x) /\ x.id = c
         /\ x.status # "absent" <=> r.kind # "delete"
  <1>1. PICK i : i = row[c] /\ i = [id |-> c, status |-> i.status, pos |-> i.pos, who |-> i.who]
    BY RowFiled
  <1>2. i.status # "absent"
    BY <1>1 DEF There
  <1>3. CASE r.kind = "move"
    <2>1. x = [i EXCEPT !.status = r.to, !.pos = r.pos]
      BY <1>1, <1>3 DEF Board!Applied
    <2>4. PICK y : y = [i EXCEPT !.status = r.to]
      OBVIOUS
    <2>5. y = [id |-> c, status |-> r.to, pos |-> i.pos, who |-> i.who]
      BY ONLY <2>4, <1>1
    <2>6. x = [y EXCEPT !.pos = r.pos]
      BY <2>1, <2>4
    <2>2. x = [id |-> c, status |-> r.to, pos |-> r.pos, who |-> i.who]
      BY ONLY <2>5, <2>6
    <2>3. r.to # "absent"
      BY <1>3 DEF BoardCall, Board!Status
    <2> QED  BY <1>3, <2>2, <2>3 DEF Filed
  <1>4. CASE r.kind = "card"
    <2>1. x = [i EXCEPT !.who = r.to]
      BY <1>1, <1>4 DEF Board!Applied
    <2>3. i = [id |-> c, status |-> i.status, pos |-> i.pos, who |-> i.who]
      BY <1>1
    <2>2. x = [id |-> c, status |-> i.status, pos |-> i.pos, who |-> r.to]
      BY ONLY <2>1, <2>3
    <2> QED  BY <1>2, <1>4, <2>2 DEF Filed
  <1>5. CASE r.kind = "batch"
    <2>1. x = [i EXCEPT !.status = r.to]
      BY <1>1, <1>5 DEF Board!Applied
    <2>2. x = [id |-> c, status |-> r.to, pos |-> i.pos, who |-> i.who]
      BY ONLY <2>1, <1>1
    <2>3. r.to # "absent"
      BY <1>5 DEF BoardCall, Board!Status
    <2> QED  BY <1>5, <2>2, <2>3 DEF Filed
  <1>6. CASE r.kind = "delete"
    <2>1. x = [i EXCEPT !.status = "absent"]
      BY <1>1, <1>6 DEF Board!Applied
    <2>2. x = [id |-> c, status |-> "absent", pos |-> i.pos, who |-> i.who]
      BY ONLY <2>1, <1>1
    <2> QED  BY <1>6, <2>2 DEF Filed
  <1> QED  BY <1>3, <1>4, <1>5, <1>6

BoardWrites(n, C, status, new, ids, es, xs, d) ==
    /\ C \subseteq call[n].ids \cap Board!Present
    /\ call[n].kind \in {"move", "card"} => C = call[n].ids
    /\ new = row' /\ xs = wire' /\ d = call' /\ ids \in Board!Orders(C)
    /\ new = [c \in Card |-> IF c \in C THEN Board!Applied(call[n], c) ELSE row[c]]
    /\ es = [k \in DOMAIN ids |->
               Board!Event(IF call[n].kind = "delete" THEN "deleted" ELSE "updated", new[ids[k]])]
    /\ xs = wire \o es /\ d = [call EXCEPT ![n].status = status]

\* A request that writes the issues of C, with an event for each.
LEMMA BoardDone ==
  ASSUME BoardInv, NEW n \in BSlots, call[n].status = "sent", call[n].kind # "list",
         NEW C, NEW status, NEW new, NEW ids, NEW es, NEW xs, NEW d,
         BoardWrites(n, C, status, new, ids, es, xs, d), UNCHANGED <<store, part5>>
  PROVE  BoardInv'
  <1>0. /\ C \subseteq call[n].ids \cap Board!Present
        /\ call[n].kind \in {"move", "card"} => C = call[n].ids
        /\ new = row' /\ xs = wire' /\ d = call' /\ ids \in Board!Orders(C)
    BY DEF BoardWrites
  <1>w. /\ new = [c \in Card |-> IF c \in C THEN Board!Applied(call[n], c) ELSE row[c]]
        /\ es = [k \in DOMAIN ids |->
                   Board!Event(IF call[n].kind = "delete" THEN "deleted" ELSE "updated", new[ids[k]])]
        /\ xs = wire \o es /\ d = [call EXCEPT ![n].status = status]
    BY DEF BoardWrites
  <1>1. BoardIs(store, call, wire, row, part5) /\ FiledRows(row)
    BY DEF BoardInv, BoardIs
  <1>2. PICK c, q : c = call[n] /\ q = d[n] /\ BoardCall(c)
    BY <1>1 DEF BoardIs, BoardCalls
  <1>3. q = [c EXCEPT !.status = status] /\ Placed(call, d, n, q)
    BY <1>1, <1>w, <1>2 DEF BoardIs, BoardCalls, Placed
  <1>4. BoardCall(q) /\ q.kind = c.kind /\ c.kind \in {"move", "card", "batch", "delete"}
    <2>1. BoardCall(c) /\ c.status = "sent" /\ c.kind # "list" /\ q = [c EXCEPT !.status = status]
      BY <1>2, <1>3
    <2> QED  BY ONLY <2>1, BoardRestated
  <1>5. BoardCalls(d) /\ Puts(call, d, n, q)
    <2>1. BoardCalls(call)
      BY <1>1 DEF BoardIs
    <2>2. Placed(call, d, n, q)
      BY <1>3
    <2>3. BoardCall(q)
      BY <1>4
    <2> QED  BY ONLY n \in BSlots, <2>1, <2>2, <2>3, BoardCallSet
  <1>6. BoardFetches(call) => BoardFetches(d)
    BY <1>5 DEF BoardFetches, Puts
  <1>7. NoLessBut(call, d, C)
    <2>1. \A v : v \notin C => ~StillAsks(call[n], v)
      BY <1>0 DEF StillAsks
    <2> QED  BY <2>1, <1>5 DEF NoLessBut, BoardAsked, Puts
  <1>8. C \subseteq Card /\ \A v \in C : There(row, v)
    BY <1>0 DEF Board!Present, There
  <1>9. PICK kind, m : /\ kind = (IF c.kind = "delete" THEN "deleted" ELSE "updated")
                       /\ m = Cardinality(C)
    OBVIOUS
  <1>10. \A v \in C : /\ Filed(new[v]) /\ new[v].id = v
                      /\ There(row, v) <=> kind # "created"
                      /\ There(new, v) <=> kind # "deleted"
    <2> TAKE v \in C
    <2>1. PICK x : x = Board!Applied(c, v)
      OBVIOUS
    <2>2. v \in Card /\ There(row, v) /\ new[v] = x
      BY <1>w, <1>2, <1>8, <2>1
    <2>3. Filed(x) /\ x.id = v /\ (x.status # "absent" <=> c.kind # "delete")
      BY <1>1, <1>2, <1>4, <2>1, <2>2, RowApplied
    <2> QED  BY <1>9, <2>2, <2>3 DEF There
  <1>11. FiledRows(new) /\ \A v \in Card : v \notin C => new[v] = row[v]
    <2>1. new = [v \in Card |-> new[v]] /\ \A v \in Card : v \notin C => new[v] = row[v]
      BY <1>w
    <2> QED  BY <2>1, <1>1, <1>10 DEF FiledRows
  <1>12. m \in Nat
    <2>1. IsFiniteSet(C)
      BY <1>8, RowsOfCards, FS_Subset
    <2> QED  BY <2>1, <1>9, FS_CardinalityType
  <1>13. /\ ids \in [1..m -> C]
         /\ \A v \in C : \E k \in 1..m : \A j \in 1..m : ids[j] = v <=> j = k
    BY <1>0, <1>9, OrdersAre
  <1>14. es = [k \in 1..m |-> [kind |-> kind, issue |-> new[ids[k]]]]
    BY <1>w, <1>2, <1>9, <1>13 DEF Board!Event
  <1>15. TellsOf(es, C, kind, row, new)
    <2>1. kind \in {"created", "updated", "deleted"}
      BY <1>9
    <2>2. C \subseteq Card
      BY <1>8
    <2>3. ids \in [1..m -> C]
      BY <1>13
    <2>4. \A v \in C : \E k \in 1..m : \A j \in 1..m : ids[j] = v <=> j = k
      BY <1>13
    <2>5. \A v \in C : /\ There(row, v) <=> kind # "created"
                       /\ There(new, v) <=> kind # "deleted"
      BY <1>10
    <2>6. FiledRows(new)
      BY <1>11
    <2>7. \A v \in Card : v \notin C => new[v] = row[v]
      BY <1>11
    <2> QED  BY ONLY <1>12, <1>14, <2>1, <2>2, <2>3, <2>4, <2>5, <2>6, <2>7, PostsMade
  <1>16. BoardIs(store, d, xs, new, part5)
    <2>1. BoardIs(store, call, wire, row, part5) /\ FiledRows(new) /\ xs = wire \o es
          /\ BoardCalls(d)
      BY <1>w, <1>1, <1>5, <1>11
    <2> QED  BY ONLY <2>1, <1>6, <1>7, <1>15, BoardTells
  <1> QED  BY <1>0, <1>16 DEF BoardInv

LEMMA BoardAnswers ==
  ASSUME BoardInv, NEW n \in BSlots, Board!Answer(n)
  PROVE  BoardInv'
  <1>0. call[n].status = "sent" /\ UNCHANGED <<store, part5>>
    BY DEF Board!Answer
  <1>1. CASE call[n].kind = "list" /\ UNCHANGED <<row, wire>> /\
             \E ids \in Board!Orders(Board!Present) :
               call' = [call EXCEPT ![n].status = "ok", ![n].rows = [k \in DOMAIN ids |-> row[ids[k]]]]
    <2>1. PICK ids, d, rs : /\ ids \in Board!Orders(Board!Present) /\ d = call'
                            /\ rs = [k \in DOMAIN ids |-> row[ids[k]]]
                            /\ d = [call EXCEPT ![n].status = "ok", ![n].rows = rs]
      BY <1>1
    <2> QED  BY <1>0, <1>1, <2>1, BoardLists
  <1>2. CASE UNCHANGED <<row, wire>> /\ call' = [call EXCEPT ![n].status = "error"]
    <2>1. PICK d : d = call' /\ d = [call EXCEPT ![n].status = "error"]
      BY <1>2
    <2> QED  BY <1>0, <1>2, <2>1, BoardFails
  <1>3. CASE /\ call[n].kind # "list"
             /\ \E done \in SUBSET (call[n].ids \cap Board!Present), status \in {"ok", "error"} :
                  /\ call[n].kind \in {"move", "card"} => done = call[n].ids
                  /\ row' = [c \in Card |-> IF c \in done THEN Board!Applied(call[n], c) ELSE row[c]]
                  /\ \E ids \in Board!Orders(done) :
                       Board!Publish([k \in DOMAIN ids |->
                         Board!Event(IF call[n].kind = "delete" THEN "deleted" ELSE "updated",
                                     row'[ids[k]])])
                  /\ call' = [call EXCEPT ![n].status = status]
    <2>1. PICK C, status, ids, new, es, xs, d : BoardWrites(n, C, status, new, ids, es, xs, d)
      BY <1>3 DEF Board!Publish, BoardWrites
    <2> QED  BY <1>0, <1>3, <2>1, BoardDone
  <1> QED  BY <1>1, <1>2, <1>3 DEF Board!Answer

-----------------------------------------------------------------------------
LEMMA BoardInit ==
  ASSUME Board!Init
  PROVE  BoardInv
  <1>1. Files(store) /\ Posts(wire)
    <2>1. <<>> \in Seq({}) /\ store = <<>> /\ wire = <<>>
      BY DEF Board!Init
    <2> QED  BY <2>1 DEF Files, Posts
  <1>2. FiledRows(row)
    <2>1. row \in StartRows
      BY DEF Board!Init
    <2>2. row = [c \in Card |-> row[c]]
      BY <2>1, RowsOfCards
    <2>3. ASSUME NEW c \in Card
          PROVE  Filed(row[c]) /\ row[c].id = c
      <3>1. PICK x : x = row[c] /\ x = [id |-> c, status |-> x.status, pos |-> x.pos, who |-> x.who]
        BY <2>1, RowsOfCards
      <3> QED  BY <3>1 DEF Filed
    <2> QED  BY <2>2, <2>3 DEF FiledRows
  <1>3. Posting(wire, row)
    <2>1. \A c : Posted(wire, 0, c) = {}
      BY DEF Board!Init, Posted
    <2> QED  BY <2>1 DEF Posting, LastPost, Lifetimes
  <1>4. PICK f, i : f = Board!Request("list", {}) /\ i = Board!Idle
    OBVIOUS
  <1>5. BoardCall(f) /\ f.kind = "list" /\ BoardCall(i)
    BY <1>4, BoardPlain, BoardIdle
  <1>6. call = [n \in BSlots |-> IF n = 1 THEN f ELSE i]
    BY <1>4 DEF Board!Init, BSlots
  <1>7. BoardCalls(call)
    BY <1>5, <1>6 DEF BoardCalls
  <1>8. BoardFetches(call)
    <2>1. 1 \in BSlots
      BY FirstRequests DEF BSlots
    <2> QED  BY <2>1, <1>5, <1>6 DEF BoardFetches
  <1> QED  BY <1>1, <1>2, <1>3, <1>7, <1>8 DEF BoardInv, BoardIs

LEMMA BoardNext ==
  ASSUME BoardInv, Board!Next
  PROVE  BoardInv'
  <1>1. CASE \/ \E p \in {"my", "workspace"} : Board!SetPageMode(p)
             \/ Board!IssuesHeader \/ Board!MyIssuesFilters \/ Board!MyIssuesDisplay
             \/ \E s \in Board!BoardStatus :
                  Board!HideStatus(s) \/ Board!ShowStatus(s) \/ Board!ToggleListCollapsed(s)
    BY <1>1, BoardViews
  <1>2. CASE \/ \E s \in Board!BoardStatus : Board!ToggleHeader(s)
             \/ Board!ClearSelection
             \/ \E b \in BOOLEAN : Board!DeleteDialog(b)
             \/ \E c \in Card : Board!ToggleRow(c)
    BY <1>2, BoardSelects
  <1>3. CASE Board!Deliver
    BY <1>3, BoardHears
  <1>4. ASSUME NEW c \in Card,
               \/ Board!SomeoneDeletes(c) \/ Board!SomeoneCreates(c)
               \/ \E s \in Board!Status : Board!SomeoneMoves(c, s)
        PROVE  BoardInv'
    BY <1>4, BoardOthers
  <1>5. ASSUME NEW n \in Board!Free, NEW c \in Board!Held,
               \/ \E d \in Board!Held : Board!DropOnCard(n, c, d)
               \/ \E s \in Board!BoardStatus : Board!DropOnColumn(n, c, s)
        PROVE  BoardInv'
    BY <1>5, BoardDrops
  <1>6. ASSUME NEW n \in Board!Free, NEW c \in Board!Held, NEW w \in Board!Who,
               Board!PickOnCard(n, c, w)
        PROVE  BoardInv'
    BY <1>6, BoardPicks
  <1>7. ASSUME NEW n \in Board!Free,
               (\E s \in Board!Status : Board!BatchUpdate(n, s)) \/ Board!BatchDelete(n)
        PROVE  BoardInv'
    BY <1>7, BoardBatches
  <1>8. ASSUME NEW n \in BSlots, Board!Answer(n)
        PROVE  BoardInv'
    BY <1>8, BoardAnswers
  <1>9. ASSUME NEW n \in BSlots, Board!Moved(n) \/ Board!IssuesArrive(n)
        PROVE  BoardInv'
    BY <1>9, BoardMoved, BoardArrives
  <1>10. ASSUME NEW n \in BSlots, \/ Board!CardUpdated(n) \/ Board!BatchUpdated(n)
                                  \/ Board!BatchDeleted(n)
         PROVE  BoardInv'
    BY <1>10, BoardCardUpdated, BoardBatchUpdated, BoardBatchDeleted
  <1> QED  BY <1>1, <1>2, <1>3, <1>4, <1>5, <1>6, <1>7, <1>8, <1>9, <1>10 DEF Board!Next, BSlots

\* When nothing is asked, what is left of the invariant is what was to be shown.
LEMMA BoardAtRest ==
  ASSUME BoardInv
  PROVE  Board!BoardAgrees
  <1> SUFFICES ASSUME \A n \in BSlots : call[n].kind = "idle", ~part5
               PROVE  Board!Agrees(store)
    BY DEF Board!BoardAgrees, BSlots
  <1>1. \A v : ~BoardAsked(call, v)
    BY DEF BoardAsked, StillAsks
  <1>2. BoardLed(store, call, wire, row)
    BY DEF BoardInv, BoardIs, BoardFetches
  <1>3. \A c \in Card : Leads(store, wire, 0, row, c, FALSE)
    BY <1>1, <1>2 DEF BoardLed, Leads
  <1> QED  BY <1>3, AgreesLeads DEF BoardInv, BoardIs

LEMMA BoardSafe ==
  /\ BoardMounted => BoardInv
  /\ BoardInv /\ (Board!Next \/ UNCHANGED pageVars) => BoardInv'
  /\ BoardInv => Board!BoardAgrees
  <1>1. BoardMounted => BoardInv
    BY BoardInit DEF BoardMounted
  <1>2. BoardInv /\ UNCHANGED pageVars => BoardInv'
    BY DEF BoardInv, pageVars
  <1> QED  BY <1>1, <1>2, BoardNext, BoardAtRest

-----------------------------------------------------------------------------
\* The router mounts one page.
LEMMA OneMounted ==
  ASSUME PagesInit
  PROVE  /\ screen = "agents" => AgentsMounted
         /\ screen = "skills" => SkillsMounted
         /\ screen = "live" => LiveMounted
         /\ screen = "runtimes" => RuntimesMounted
         /\ screen = "terminal" => TerminalMounted
         /\ screen = "dialog" => DialogMounted
         /\ screen = "inbox" => InboxMounted
         /\ screen = "fields" => FieldsMounted
         /\ screen = "ideas" => IdeasMounted
         /\ screen = "sets" => SetsMounted
         /\ screen = "thread" => ThreadMounted
         /\ screen = "board" => BoardMounted
  BY DEF PagesInit, AgentsMounted, SkillsMounted, InboxMounted, BoardMounted, FieldsMounted,
         ThreadMounted, LiveMounted, RuntimesMounted, TerminalMounted, IdeasMounted,
         SetsMounted, DialogMounted

\* The page that is mounted makes the step, and stays.
LEMMA OnePage ==
  ASSUME [PagesNext]_pageVars
  PROVE  /\ screen' = screen
         /\ screen = "agents" => Agents!Next \/ UNCHANGED pageVars
         /\ screen = "skills" => Skills!Next \/ UNCHANGED pageVars
         /\ screen = "live" => Live!Next \/ UNCHANGED pageVars
         /\ screen = "runtimes" => Runtimes!Next \/ UNCHANGED pageVars
         /\ screen = "terminal" => Terminal!Next \/ UNCHANGED pageVars
         /\ screen = "dialog" => Dialog!Next \/ UNCHANGED pageVars
         /\ screen = "inbox" => Inbox!Next \/ UNCHANGED pageVars
         /\ screen = "fields" => Fields!Next \/ UNCHANGED pageVars
         /\ screen = "ideas" => Ideas!Next \/ UNCHANGED pageVars
         /\ screen = "sets" => Sets!Next \/ UNCHANGED pageVars
         /\ screen = "thread" => Thread!Next \/ UNCHANGED pageVars
         /\ screen = "board" => Board!Next \/ UNCHANGED pageVars
  <1>1. CASE PagesNext
    BY <1>1 DEF PagesNext, AgentsStep, SkillsStep, InboxStep, BoardStep, FieldsStep, ThreadStep,
       LiveStep, RuntimesStep, TerminalStep, IdeasStep, SetsStep, DialogStep
  <1>2. CASE UNCHANGED pageVars
    BY <1>2 DEF pageVars
  <1> QED  BY <1>1, <1>2

-----------------------------------------------------------------------------
\* What the terminal of the pages keeps, as long as it is the page that is mounted.
TerminalHolds == screen = "terminal" => TerminalInv

\* On a runtime's terminal "Live" is shown only while there is a socket, "Connecting" only
\* while a request or a socket that has not opened yet will end it, "Restoring" only while a
\* session is asked for, for any sessions and any number of requests in flight
\* (runtime-ssh-terminal.tsx: handleConnect, handleReconnect, handleClose, connectSocket).
THEOREM TerminalTells == PagesSpec => []TerminalConnectionShown
  <1>1. PagesInit => TerminalHolds
    BY OneMounted, TerminalSafe DEF TerminalHolds
  <1>2. TerminalHolds /\ [PagesNext]_pageVars => TerminalHolds'
    BY OnePage, TerminalSafe DEF TerminalHolds
  <1>3. TerminalHolds => TerminalConnectionShown
    BY TerminalSafe DEF TerminalHolds, TerminalConnectionShown
  <1> QED  BY <1>1, <1>2, <1>3, PTL DEF PagesSpec

\* What the runtimes page keeps, as long as it is the page that is mounted.
RuntimesHold == screen = "runtimes" => RuntimesInv

\* A section that says it is testing or updating has asked, or asks every two seconds, whatever
\* is selected, revisited or refreshed meanwhile and however the answers cross
\* (ping-section.tsx and update-section.tsx: handleTest, handleUpdate, the intervals).
THEOREM RuntimesPoll == PagesSpec => []RuntimesBusyIsPolled
  <1>1. PagesInit => RuntimesHold
    BY OneMounted, RuntimesSafe DEF RuntimesHold
  <1>2. RuntimesHold /\ [PagesNext]_pageVars => RuntimesHold'
    BY OnePage, RuntimesSafe DEF RuntimesHold
  <1>3. RuntimesHold => RuntimesBusyIsPolled
    BY RuntimesSafe DEF RuntimesHold, RuntimesBusyIsPolled
  <1> QED  BY <1>1, <1>2, <1>3, PTL DEF PagesSpec

\* What the dialog of the pages keeps, as long as it is mounted.
DialogHolds == screen = "dialog" => DialogInv

\* What was typed last into the dialog of a new issue is in the draft, or waits for its timer,
\* or is in an issue, whatever is closed, reloaded, submitted or refused, and a dialog makes
\* one issue; the exceptions are those that excused names (create-issue.tsx: handleSubmit,
\* the timer of the description; draft-store.ts).
THEOREM DialogKeeps == PagesSpec => []DialogTypedIsKept
  <1>1. PagesInit => DialogHolds
    BY OneMounted, DialogSafe DEF DialogHolds
  <1>2. DialogHolds /\ [PagesNext]_pageVars => DialogHolds'
    BY OnePage, DialogSafe DEF DialogHolds
  <1>3. DialogHolds => DialogTypedIsKept
    BY DialogSafe DEF DialogHolds, DialogTypedIsKept
  <1> QED  BY <1>1, <1>2, <1>3, PTL DEF PagesSpec

\* What the live card of the pages keeps, as long as it is mounted.
LiveHolds == screen = "live" => LiveInv

\* When nothing is under way, the card says that an agent works only while it does, unless the
\* end of the task was never told, was lost with the connection, or was heard before an answer
\* that still named the task, for any tasks and any length of the queue of events
\* (agent-live-card.tsx: the handlers of task events, the fetch of the active task).
THEOREM LiveCardTells == PagesSpec => []LiveCardIsLive
  <1>1. PagesInit => LiveHolds
    BY OneMounted, LiveSafe DEF LiveHolds
  <1>2. LiveHolds /\ [PagesNext]_pageVars => LiveHolds'
    BY OnePage, LiveSafe DEF LiveHolds
  <1>3. LiveHolds => LiveCardIsLive
    BY LiveSafe DEF LiveHolds, LiveCardIsLive
  <1> QED  BY <1>1, <1>2, <1>3, PTL DEF PagesSpec

\* What the page of the agents keeps, as long as it is mounted.
AgentsHold == screen = "agents" => AgentsInv

\* What is typed for one agent is never stored with another, whatever is selected, archived or
\* refreshed while drafts are open and saves are in flight, for any agents and any number of
\* requests (agents/page.tsx: AgentDetail and its key, handleUpdate; store.ts: refreshAgents).
THEOREM AgentsKeepTheirOwn == PagesSpec => []AgentsNoCrossWrite
  <1>1. PagesInit => AgentsHold
    BY OneMounted, AgentsSafe DEF AgentsHold
  <1>2. AgentsHold /\ [PagesNext]_pageVars => AgentsHold'
    BY OnePage, AgentsSafe DEF AgentsHold
  <1>3. AgentsHold => AgentsNoCrossWrite
    BY AgentsSafe DEF AgentsHold, AgentsNoCrossWrite
  <1> QED  BY <1>1, <1>2, <1>3, PTL DEF PagesSpec

\* What the page of the skills keeps, as long as it is mounted.
SkillsHold == screen = "skills" => SkillsInv

\* A supporting file disappears from a skill only because the user removed it in the editor,
\* or because of one of the saves that SkillsFilesKept excuses, for any skills and files, any
\* number of requests and however the loads, the saves and the deletions of editors that are
\* mounted one after another cross (skills-page.tsx: SkillDetail, handleSave,
\* handleDeleteFile, the effect that fetches the files; handler/skill.go: UpdateSkill).
THEOREM SkillsKeepFiles == PagesSpec => SkillsFilesKept
  <1>1. PagesInit => SkillsHold
    BY OneMounted, SkillsSafe DEF SkillsHold
  <1>2. SkillsHold /\ [PagesNext]_pageVars => SkillsHold'
    BY OnePage, SkillsSafe DEF SkillsHold
  <1>3. SkillsHold /\ [PagesNext]_pageVars
          => [screen = "skills" => Skills!FileLostUnloaded]_pageVars
    BY OnePage, SkillsSafe DEF SkillsHold
  <1> QED  BY <1>1, <1>2, <1>3, PTL DEF PagesSpec, SkillsFilesKept

\* What the inbox of the pages keeps, as long as it is mounted.
InboxHolds == screen = "inbox" => InboxInv

\* When nothing is under way the inbox shows the server's items as they are, for any items of
\* any issues and any number of requests, unless something overlapped, was answered halfway
\* or was not told since the last list (inbox/page.tsx: handleSelect, handleArchive and the
\* batch operations; inbox/store.ts: fetch, markRead, archive and their kin).
THEOREM InboxSettles == PagesSpec => []InboxSettledAgrees
  <1>1. PagesInit => InboxHolds
    BY OneMounted, InboxSafe DEF InboxHolds
  <1>2. InboxHolds /\ [PagesNext]_pageVars => InboxHolds'
    BY OnePage, InboxSafe DEF InboxHolds
  <1>3. InboxHolds => InboxSettledAgrees
    BY InboxSafe DEF InboxHolds, InboxSettledAgrees
  <1> QED  BY <1>1, <1>2, <1>3, PTL DEF PagesSpec

\* What the fields of the issue page keep, as long as it is mounted.
FieldsHold == screen = "fields" => FieldsInv

\* When nothing is on its way, the issue page shows the issue of the server, in whatever order
\* fields are written, answered, refused and told of, for any number of requests, events and
\* plan revisions; the exceptions are a rollback and an answer that wrote an older row
\* (issue-detail.tsx: handleUpdateField, handleConfirmPlan, the fetch of a lost issue;
\* use-realtime-sync.ts: issue:updated and issue:deleted).
THEOREM FieldsSettle == PagesSpec => []FieldsStoreConverges
  <1>1. PagesInit => FieldsHold
    BY OneMounted, FieldsSafe DEF FieldsHold
  <1>2. FieldsHold /\ [PagesNext]_pageVars => FieldsHold'
    BY OnePage, FieldsSafe DEF FieldsHold
  <1>3. FieldsHold => FieldsStoreConverges
    BY FieldsSafe DEF FieldsHold, FieldsStoreConverges
  <1> QED  BY <1>1, <1>2, <1>3, PTL DEF PagesSpec

\* What the pages of the ideas keep, as long as they are mounted.
IdeasHold == screen = "ideas" => IdeasInv

\* What stands in the editor of an idea is committed, or waits for the timer or for a save
\* under way, or the editor says that it is not saved, for any texts, any number of requests
\* and whatever page is visited meanwhile; a commit by another may have replaced it
\* (idea-editor-page.tsx: saveDraft, its refs and its timer, handleRetryRepo).
THEOREM IdeasForgetNothing == PagesSpec => []IdeasNoEditForgotten
  <1>1. PagesInit => IdeasHold
    BY OneMounted, IdeasSafe DEF IdeasHold
  <1>2. IdeasHold /\ [PagesNext]_pageVars => IdeasHold'
    BY OnePage, IdeasSafe DEF IdeasHold
  <1>3. IdeasHold => IdeasNoEditForgotten
    BY IdeasSafe DEF IdeasHold, IdeasNoEditForgotten
  <1> QED  BY <1>1, <1>2, <1>3, PTL DEF PagesSpec

\* What the lists of reactions and of subscribers keep, as long as they are shown.
SetsHold == screen = "sets" => SetsInv

\* When nothing is asked any more, the events on their way will bring the reactions and the
\* subscribers to the rows of the server, each actor once, however toggles, temporary ids,
\* events and lists cross, for any number of requests and of events; the exceptions are those
\* that astray remembers (use-issue-reactions.ts, use-issue-timeline.ts and
\* use-issue-subscribers.ts: the toggles with their rollbacks, the handlers of events).
THEOREM SetsSettle == PagesSpec => []SetsShownAgree
  <1>1. PagesInit => SetsHold
    BY OneMounted, SetsSafe DEF SetsHold
  <1>2. SetsHold /\ [PagesNext]_pageVars => SetsHold'
    BY OnePage, SetsSafe DEF SetsHold
  <1>3. SetsHold => SetsShownAgree
    BY SetsSafe DEF SetsHold, SetsShownAgree
  <1> QED  BY <1>1, <1>2, <1>3, PTL DEF PagesSpec

\* What the thread of an issue keeps, as long as it is mounted.
ThreadHolds == screen = "thread" => ThreadInv

\* A comment that exists is on the screen, and once, whatever is posted, edited, deleted and
\* told of, for any number of entries, requests and events and however they cross.  It is
\* listed twice only after a deletion of it failed, and it is missing, when nothing is on its
\* way, only if a list that was older, or that failed, or a lost answer passed it by
\* (use-issue-timeline.ts: the list, its events, submitComment, editComment, deleteComment).
THEOREM ThreadShows == PagesSpec => []ThreadAgrees
  <1>1. PagesInit => ThreadHolds
    BY OneMounted, ThreadSafe DEF ThreadHolds
  <1>2. ThreadHolds /\ [PagesNext]_pageVars => ThreadHolds'
    BY OnePage, ThreadSafe DEF ThreadHolds
  <1>3. ThreadHolds => ThreadAgrees
    BY ThreadSafe DEF ThreadHolds, ThreadAgrees
  <1> QED  BY <1>1, <1>2, <1>3, PTL DEF PagesSpec

\* What the board and the list of the issues keep, as long as their page is mounted.
BoardHolds == screen = "board" => BoardInv

\* When nothing is asked any more, the events on their way will bring the store to the issues of
\* the server, for any issues that one list can have, any number of requests and events, and
\* whatever drags, picks of a card, batches, changes of others, creations and deletions cross;
\* the exceptions are the answers that overwrote what had been heard, and a fetch that failed
\* (issues-page.tsx: handleMoveIssue; board-card.tsx: handleUpdate; batch-action-toolbar.tsx;
\* store.ts; use-realtime-sync.ts: issue:created, issue:updated and issue:deleted).
THEOREM BoardSettles == PagesSpec => []BoardStoreAgrees
  <1>1. PagesInit => BoardHolds
    BY OneMounted, BoardSafe DEF BoardHolds
  <1>2. BoardHolds /\ [PagesNext]_pageVars => BoardHolds'
    BY OnePage, BoardSafe DEF BoardHolds
  <1>3. BoardHolds => BoardStoreAgrees
    BY BoardSafe DEF BoardHolds, BoardStoreAgrees
  <1> QED  BY <1>1, <1>2, <1>3, PTL DEF PagesSpec
=============================================================================
