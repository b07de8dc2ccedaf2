-------------------------- MODULE ReviewSave_proofs --------------------------
(***************************************************************************)
(* For every number of edits and of faults: what the page lets the user    *)
(* edit has not been saved, images whose text was accepted can be reached, *)
(* and every row leads to a file.                                          *)
(***************************************************************************)
EXTENDS ReviewSave, SequenceTheorems, TLAPS

(* The types.                                                              *)
StageOf == {"draft", "saving", "saved", "complete"}
Sessions == {None} \cup [stage : StageOf, ver : Version]
Steps == {"idle", "load", "keep", "note", "push", "copy", "map", "again", "clean", "forget",
          "done", "empty", "drop"}
Works == [op : {"none", "load", "save", "abandon", "recover"}, at : Steps,
          snap : Sessions, work : Sessions, fresh : BOOLEAN]
Pages == [at : {"closed", "idle", "busy", "gone"}, shown : Sessions, doubt : BOOLEAN]
Lanes == {<<>>, <<"page">>, <<"recovery">>, <<"page", "recovery">>, <<"recovery", "page">>}

(* Who is in the lane, and who holds it.                                   *)
Other(p) == IF p = "page" THEN "recovery" ELSE "page"
Queued(p, l) == l \in {<<p>>, <<p, Other(p)>>, <<Other(p), p>>}
First(p, l) == l \in {<<p>>, <<p, Other(p)>>}

CallsTypeOK ==
    /\ page \in Pages
    /\ lane \in Lanes
    /\ proc \in [Proc -> Works]

StoresTypeOK ==
    /\ owner \in BOOLEAN /\ flaky \in BOOLEAN
    /\ mem \in Sessions /\ prefs \in Sessions /\ disk \in Sessions
    /\ cache \in BOOLEAN /\ final \in BOOLEAN /\ mapped \in BOOLEAN
    /\ accepted \subseteq Version
    /\ trouble \in Nat

(* What a call may be doing, given its lane.                               *)
CallOK(p, w, l) ==
    /\ w.at # "idle" <=> Queued(p, l)
    /\ w.at = "idle" => w.snap = None /\ w.work = None
    /\ w.at \notin {"idle", "load"} => First(p, l)
    /\ w.op = "load" => w.at = "load"
    /\ w.op = "abandon" => w.at \in {"load", "empty", "drop"}
    /\ w.at \in {"empty", "drop"} => w.op = "abandon"
    /\ w.at # "idle" => w.op \in IF p = "page" THEN {"load", "save", "abandon"} ELSE {"recover"}
    /\ p = "recovery" /\ w.at = "load" /\ w.snap # None => First(p, l)

(* Who is in the lane has something to do, and whoever waits has not begun. *)
OneByOne ==
    /\ \A p \in Proc : CallOK(p, proc[p], lane)
    /\ proc["page"].at # "idle" <=> page.at = "busy"
    /\ proc["page"].op = "load" => page.doubt

Calls == CallsTypeOK /\ OneByOne

(* What the stages say: of images, of the checkpoint, of the steps.        *)
WorkMeans(w) ==
    /\ "complete" \in {w.snap.stage, w.work.stage} => mapped
    /\ w.at \notin {"idle", "load", "empty", "drop"} =>
          w.work.stage \in {"saving", "saved", "complete"}
    /\ w.at \in {"note", "push"} => prefs # None
    /\ w.at \in {"again", "clean", "forget", "done"} => w.work.stage = "complete"

StagesMean ==
    /\ "complete" \in {prefs.stage, disk.stage, mem.stage, page.shown.stage} => mapped
    /\ \A p \in Proc : WorkMeans(proc[p])
    /\ prefs.stage # "draft" /\ disk.stage # "draft"
    /\ ~flaky => disk = prefs

(* A draft in memory is one that nobody has begun to save ...              *)
DraftIsUntouched ==
    mem.stage = "draft" =>
        /\ accepted = {}
        /\ prefs = None => disk = None
        /\ proc["recovery"].at \in {"idle", "load"} /\ proc["recovery"].snap = None
        /\ proc["page"].at \in {"idle", "load", "keep", "note", "empty", "drop"}
        /\ proc["page"].at \in {"keep", "note"} => proc["page"].work.stage = "saving"

(* ... and what the page is sure of agrees with the memory.                *)
Unsaved == mem.stage = "draft" /\ prefs = None
PageAgrees ==
    /\ page.at = "idle" /\ ~page.doubt =>
          IF page.shown.stage = "draft" THEN Unsaved ELSE mem.stage # "draft"
    /\ proc["page"].op = "save" /\ proc["page"].at = "load" =>
          IF proc["page"].snap.stage = "draft" THEN Unsaved ELSE mem.stage # "draft"
    /\ proc["page"].op = "abandon" => Unsaved /\ page.shown.stage = "draft"
    /\ proc["recovery"].at # "idle" => proc["recovery"].snap.stage # "draft"

(* A mapping that may be taken back was not there before its copies.       *)
CopiesFirst ==
    \A p \in Proc : proc[p].at = "map" => final /\ (proc[p].fresh => ~mapped)

(* What the session and its stores agree on.                               *)
Agreement ==
    /\ StagesMean
    /\ DraftIsUntouched
    /\ PageAgrees
    /\ CopiesFirst
    /\ SavedIsRecoverable
    /\ MappedHasFile

SInv == StoresTypeOK /\ Calls /\ Agreement

(* What is known of a call that runs a step of the lane, of the session it *)
(* works on, and of a step that only turns to the next one.                *)
Running(p, at) ==
    /\ Runs(p, at) /\ First(p, lane) /\ proc[p].at = at /\ proc[p] \in Works
    /\ proc[p].op \in IF p = "page" THEN {"load", "save", "abandon"} ELSE {"recover"}
    /\ at \in {"empty", "drop"} => proc[p].op = "abandon"
    /\ at \notin {"load", "empty", "drop"} => proc[p].op \in {"save", "recover"}
    /\ \A q \in Proc : q # p => proc[q].at \in {"idle", "load"}
    /\ p = "page" => page.at = "busy" /\ proc["recovery"].snap = None

WorksOn(p, at) ==
    /\ p = "recovery" => mem.stage # "draft"
    /\ at \notin {"keep", "note", "empty", "drop"} => mem.stage # "draft"
    /\ proc[p].work \in Sessions
    /\ proc[p].work.stage = "complete" => mapped
    /\ at \notin {"empty", "drop"} =>
          /\ proc[p].work.stage \in {"saving", "saved", "complete"}
          /\ proc[p].work.ver \in Version /\ proc[p].work # None

OthersStay(p) == \A q \in Proc : q # p => proc'[q] = proc[q]

Turns(p, at, work) ==
    /\ UNCHANGED <<page, lane>> /\ OthersStay(p)
    /\ proc'[p].at = at /\ proc'[p].work = work
    /\ proc'[p].op = proc[p].op /\ proc'[p].snap = proc[p].snap
    /\ proc'[p].fresh = proc[p].fresh
-----------------------------------------------------------------------------
\* Appending to a lane of one makes a lane of two ...
LEMMA Waiting ==
    ASSUME NEW a \in Proc, NEW b \in Proc
    PROVE  Append(<<a>>, b) = <<a, b>>
  <1>1. <<a>> \in Seq(Proc) /\ <<a, b>> \in Seq(Proc)
    OBVIOUS
  <1>2. /\ Append(<<a>>, b) \in Seq(Proc) /\ Len(Append(<<a>>, b)) = 2
        /\ Append(<<a>>, b)[1] = a /\ Append(<<a>>, b)[2] = b
    BY <1>1
  <1>3. Len(<<a, b>>) = 2 /\ <<a, b>>[1] = a /\ <<a, b>>[2] = b
    OBVIOUS
  <1>4. \A i \in 1 .. 2 : i = 1 \/ i = 2
    OBVIOUS
  <1>5. \A i \in 1 .. 2 : Append(<<a>>, b)[i] = <<a, b>>[i]
    BY <1>2, <1>3, <1>4
  <1>. QED BY <1>1, <1>2, <1>3, <1>5, SeqEqual

\* ... of which there are two, for there are two processes ...
LEMMA Distinct ==
    ASSUME NEW p \in Proc
    PROVE  /\ Other(p) \in Proc /\ Other(p) # p /\ Proc = {p, Other(p)}
           /\ Other(Other(p)) = p
           /\ Lanes = {<<>>, <<p>>, <<Other(p)>>, <<p, Other(p)>>, <<Other(p), p>>}
  BY DEF Proc, Other, Lanes

\* ... and each shape of the lane tells who is in it.
LEMMA Shapes ==
    ASSUME NEW p, NEW q, p # q
    PROVE  /\ Queued(p, <<p>>) /\ ~Queued(p, <<q>>) /\ ~Queued(p, <<>>)
           /\ First(p, <<p>>) /\ ~First(p, <<q>>) /\ ~First(p, <<>>)
           /\ q = Other(p) =>
                 /\ Queued(p, <<p, q>>) /\ Queued(p, <<q, p>>)
                 /\ First(p, <<p, q>>) /\ ~First(p, <<q, p>>)
  BY DEF Queued, First

\* The head of the lane is who holds it.
LEMMA Holds ==
    ASSUME NEW p \in Proc, lane \in Lanes
    PROVE  /\ lane # <<>> /\ Head(lane) = p <=> First(p, lane)
           /\ First(p, lane) => Queued(p, lane) /\ ~First(Other(p), lane)
           /\ First(Other(p), lane) => Queued(Other(p), lane)
  <1>. DEFINE q == Other(p)
  <1>1. q = Other(p) /\ q # p /\ lane \in {<<>>, <<p>>, <<q>>, <<p, q>>, <<q, p>>} /\ Other(q) = p
    BY Distinct
  <1>2. Head(<<p>>) = p /\ Head(<<q>>) = q /\ Head(<<p, q>>) = p /\ Head(<<q, p>>) = q
    OBVIOUS
  <1>. HIDE DEF q
  <1>. QED BY <1>1, <1>2 DEF First, Queued, q

\* Joining the lane, ...
LEMMA Joins ==
    ASSUME NEW p \in Proc, lane \in Lanes, ~Queued(p, lane), lane' = Append(lane, p)
    PROVE  /\ lane' \in Lanes /\ Queued(p, lane')
           /\ Queued(Other(p), lane') <=> Queued(Other(p), lane)
           /\ First(Other(p), lane') <=> First(Other(p), lane)
  <1>. DEFINE q == Other(p)
  <1>1. q = Other(p) /\ q # p /\ lane \in {<<>>, <<p>>, <<q>>, <<p, q>>, <<q, p>>} /\ Other(q) = p
        /\ Lanes = {<<>>, <<p>>, <<q>>, <<p, q>>, <<q, p>>} /\ q \in Proc
    BY Distinct
  <1>2. Append(<<q>>, p) = <<q, p>> /\ Append(<<>>, p) = <<p>>
    BY <1>1, Waiting
  <1>3. lane \in {<<>>, <<q>>}
    BY <1>1 DEF Queued
  <1>. HIDE DEF q
  <1>4. CASE lane = <<>>
    BY <1>1, <1>2, <1>4, Shapes
  <1>5. CASE lane = <<q>>
    BY <1>1, <1>2, <1>5, Shapes
  <1>. QED BY <1>3, <1>4, <1>5 DEF q

\* ... leaving it, ...
LEMMA Leaves ==
    ASSUME NEW p \in Proc, lane \in Lanes, First(p, lane), lane' = Tail(lane)
    PROVE  /\ lane' \in Lanes /\ ~Queued(p, lane')
           /\ Queued(Other(p), lane') <=> Queued(Other(p), lane)
           /\ Queued(Other(p), lane) => First(Other(p), lane')
  <1>. DEFINE q == Other(p)
  <1>1. q = Other(p) /\ q # p /\ Other(q) = p /\ Lanes = {<<>>, <<p>>, <<q>>, <<p, q>>, <<q, p>>}
    BY Distinct
  <1>2. Tail(<<p, q>>) = <<q>> /\ Tail(<<p>>) = <<>>
    OBVIOUS
  <1>3. lane \in {<<p>>, <<p, q>>}
    BY DEF First
  <1>. HIDE DEF q
  <1>4. CASE lane = <<p>>
    BY <1>1, <1>2, <1>4, Shapes
  <1>5. CASE lane = <<p, q>>
    BY <1>1, <1>2, <1>5, Shapes
  <1>. QED BY <1>3, <1>4, <1>5 DEF q

\* ... and going to its end leave the other where it was, or bring it to the head.
LEMMA Rejoins ==
    ASSUME NEW p \in Proc, lane \in Lanes, First(p, lane), lane' = Append(Tail(lane), p)
    PROVE  /\ lane' \in Lanes /\ Queued(p, lane')
           /\ Queued(Other(p), lane') <=> Queued(Other(p), lane)
           /\ Queued(Other(p), lane) => First(Other(p), lane')
  <1>. DEFINE q == Other(p)
  <1>1. q = Other(p) /\ q # p /\ Other(q) = p /\ Lanes = {<<>>, <<p>>, <<q>>, <<p, q>>, <<q, p>>}
        /\ q \in Proc
    BY Distinct
  <1>2. Tail(<<p, q>>) = <<q>> /\ Tail(<<p>>) = <<>>
    OBVIOUS
  <1>3. Append(<<q>>, p) = <<q, p>> /\ Append(<<>>, p) = <<p>>
    BY <1>1, Waiting
  <1>4. lane \in {<<p>>, <<p, q>>}
    BY DEF First
  <1>. HIDE DEF q
  <1>5. CASE lane = <<p>>
    BY <1>1, <1>2, <1>3, <1>5, Shapes
  <1>6. CASE lane = <<p, q>>
    BY <1>1, <1>2, <1>3, <1>6, Shapes
  <1>. QED BY <1>4, <1>5, <1>6 DEF q

-----------------------------------------------------------------------------

\* The session and the work of nobody; how a call begins.
LEMMA NoSession == None \in Sessions /\ None.stage = "none"
  BY DEF Sessions, None, Session

\* Nobody's work is none.
LEMMA NoWork ==
    /\ Work \in Works
    /\ Work.op = "none" /\ Work.at = "idle" /\ Work.snap = None /\ Work.work = None
    /\ Work.fresh = FALSE
  BY NoSession DEF Work, Works, Steps

\* A call begins with the checkpoint.
LEMMA Beginnings ==
    ASSUME NEW op \in {"load", "save", "abandon", "recover"}, NEW snap \in Sessions
    PROVE  /\ Begun(op, snap) \in Works
           /\ Begun(op, snap).op = op /\ Begun(op, snap).at = "load"
           /\ Begun(op, snap).snap = snap /\ Begun(op, snap).work = None
  BY NoSession DEF Begun, Work, Works, Steps

\* A step of one call leaves the other as it is.
LEMMA TheOther ==
    ASSUME CallsTypeOK, NEW p \in Proc, NEW w \in Works, proc' = [proc EXCEPT ![p] = w]
    PROVE  /\ proc' \in [Proc -> Works] /\ proc'[p] = w
           /\ \A q \in Proc : q # p => proc'[q] = proc[q]
  BY DEF CallsTypeOK

\* The ways a call may move: to another step, out of the lane, to its end, into it.
LEMMA CallMoves ==
    ASSUME Calls, NEW p \in Proc, First(p, lane), NEW w \in Works,
           w.op = proc[p].op, w.at # "idle", w.op # "load",
           w.op = "abandon" <=> w.at \in {"empty", "drop"},
           proc' = [proc EXCEPT ![p] = w], UNCHANGED <<page, lane>>
    PROVE  /\ Calls'
           /\ proc'[p] = w /\ \A q \in Proc : q # p => proc'[q] = proc[q]
  <1>1. CallsTypeOK' /\ proc'[p] = w /\ \A q \in Proc : q # p => proc'[q] = proc[q]
    BY TheOther DEF Calls, CallsTypeOK
  <1>2. proc[p].at # "idle" /\ Queued(p, lane)
    BY Holds DEF Calls, OneByOne, CallOK, CallsTypeOK
  <1>3. \A q \in Proc : CallOK(q, proc'[q], lane)
    BY <1>1, <1>2 DEF Calls, OneByOne, CallOK
  <1>4. ("page" \in Proc) /\ (proc'["page"].at = "idle" <=> proc["page"].at = "idle")
        /\ proc'["page"].op = proc["page"].op
    BY <1>1, <1>2 DEF Proc
  <1>. QED BY <1>1, <1>3, <1>4 DEF Calls, OneByOne

\* A call that ends leaves the lane.
LEMMA CallEnds ==
    ASSUME Calls, NEW p \in Proc, First(p, lane), page' \in Pages,
           IF p = "page" THEN page'.at # "busy" ELSE page' = page,
           proc' = [proc EXCEPT ![p] = Work], lane' = Tail(lane)
    PROVE  /\ Calls'
           /\ proc'[p] = Work /\ \A q \in Proc : q # p => proc'[q] = proc[q]
  <1>1. CallsTypeOK' /\ proc'[p] = Work /\ \A q \in Proc : q # p => proc'[q] = proc[q]
    BY TheOther, NoWork, Leaves DEF Calls, CallsTypeOK
  <1>2. /\ ~Queued(p, lane') /\ (Queued(Other(p), lane') <=> Queued(Other(p), lane))
        /\ (Queued(Other(p), lane) => First(Other(p), lane'))
        /\ (First(Other(p), lane) => Queued(Other(p), lane))
    BY Leaves, Holds DEF Calls, CallsTypeOK
  <1>3. CallOK(p, proc'[p], lane')
    BY <1>1, <1>2, NoWork, NoSession DEF CallOK
  <1>4. CallOK(Other(p), proc'[Other(p)], lane')
    BY <1>1, <1>2, Distinct DEF Calls, OneByOne, CallOK
  <1>5. (proc'["page"].at # "idle" <=> page'.at = "busy")
        /\ (proc'["page"].op = "load" => page'.doubt)
    BY <1>1, NoWork DEF Proc, Calls, OneByOne
  <1>. QED BY <1>1, <1>3, <1>4, <1>5, Distinct DEF Calls, OneByOne

\* A save that fails goes to the end of the lane, to load.
LEMMA CallReloads ==
    ASSUME Calls, First("page", lane), page' = [page EXCEPT !.doubt = TRUE],
           proc' = [proc EXCEPT !["page"] = Begun("load", None)],
           lane' = Append(Tail(lane), "page")
    PROVE  /\ Calls'
           /\ proc'["page"] = Begun("load", None)
           /\ \A q \in Proc : q # "page" => proc'[q] = proc[q]
  <1>. DEFINE p == "page"
  <1>0. p \in Proc
    BY DEF Proc
  <1>a. Begun("load", None) \in Works
    BY Beginnings, NoSession
  <1>1. CallsTypeOK' /\ proc'[p] = Begun("load", None)
        /\ \A q \in Proc : q # p => proc'[q] = proc[q]
    BY <1>0, <1>a, TheOther, Rejoins DEF Calls, CallsTypeOK, Pages
  <1>2. /\ Queued(p, lane') /\ (Queued(Other(p), lane') <=> Queued(Other(p), lane))
        /\ (Queued(Other(p), lane) => First(Other(p), lane'))
        /\ (First(Other(p), lane) => Queued(Other(p), lane))
    BY <1>0, Rejoins, Holds DEF Calls, CallsTypeOK
  <1>3. CallOK(p, proc'[p], lane')
    BY <1>1, <1>2, Beginnings, NoSession DEF CallOK
  <1>4. CallOK(Other(p), proc'[Other(p)], lane')
    BY <1>0, <1>1, <1>2, Distinct DEF Calls, OneByOne, CallOK
  <1>5. (proc'["page"].at # "idle" <=> page'.at = "busy")
        /\ (proc'["page"].op = "load" => page'.doubt)
    <2>1. proc["page"].at # "idle"
      BY <1>0, Holds DEF Calls, OneByOne, CallOK, CallsTypeOK
    <2>2. page'.at = page.at /\ page'.doubt = TRUE
      BY DEF Calls, CallsTypeOK, Pages
    <2>. QED BY <2>1, <2>2, <1>1, Beginnings, NoSession DEF Calls, OneByOne
  <1>. QED BY <1>0, <1>1, <1>3, <1>4, <1>5, Distinct DEF Calls, OneByOne

\* A call that begins joins the lane.
LEMMA CallQueues ==
    ASSUME Calls, NEW p \in Proc, proc[p].at = "idle", page' \in Pages,
           NEW op \in IF p = "page" THEN {"load", "save", "abandon"} ELSE {"recover"},
           NEW snap \in Sessions, p = "recovery" => snap = None,
           IF p = "page" THEN page'.at = "busy" ELSE page' = page,
           op = "load" => page'.doubt,
           Queue(p, op, snap)
    PROVE  /\ Calls'
           /\ proc'[p] = Begun(op, snap) /\ \A q \in Proc : q # p => proc'[q] = proc[q]
  <1>0. op \in {"load", "save", "abandon", "recover"}
    OBVIOUS
  <1>a. Begun(op, snap) \in Works
    BY <1>0, Beginnings
  <1>b. ~Queued(p, lane) /\ lane' = Append(lane, p)
        /\ proc' = [proc EXCEPT ![p] = Begun(op, snap)]
    BY DEF Calls, OneByOne, CallOK, Queue
  <1>1. CallsTypeOK' /\ proc'[p] = Begun(op, snap)
        /\ \A q \in Proc : q # p => proc'[q] = proc[q]
    BY <1>a, <1>b, TheOther, Joins DEF Calls, CallsTypeOK
  <1>2. /\ Queued(p, lane') /\ (Queued(Other(p), lane') <=> Queued(Other(p), lane))
        /\ (First(Other(p), lane) <=> First(Other(p), lane'))
    BY <1>b, Joins DEF Calls, CallsTypeOK
  <1>3. CallOK(p, proc'[p], lane')
    BY <1>0, <1>1, <1>2, Beginnings DEF CallOK, Proc
  <1>4. CallOK(Other(p), proc'[Other(p)], lane')
    BY <1>1, <1>2, Distinct DEF Calls, OneByOne, CallOK
  <1>5. (proc'["page"].at # "idle" <=> page'.at = "busy")
        /\ (proc'["page"].op = "load" => page'.doubt)
    BY <1>0, <1>1, Beginnings DEF Proc, Calls, OneByOne
  <1>. QED BY <1>1, <1>3, <1>4, <1>5, Distinct DEF Calls, OneByOne

\* What a call that throws leaves behind, in the lane and on the page.
LEMMA Fails ==
    ASSUME Calls, NEW p \in Proc, First(p, lane), Fail(p)
    PROVE  /\ Calls'
           /\ \A q \in Proc : q # p => proc'[q] = proc[q]
           /\ proc'[p].at \in {"idle", "load"} /\ proc'[p].op \in {"none", "load"}
           /\ proc'[p].snap = None /\ proc'[p].work = None
           /\ page'.shown = page.shown
           /\ p = "recovery" => page' = page /\ proc'[p].at = "idle"
           /\ p = "page" => page'.doubt \/ proc[p].op = "abandon"
  <1>1. Queued(p, lane) /\ proc[p].at # "idle"
    BY Holds DEF Calls, OneByOne, CallOK, CallsTypeOK
  <1>2. CASE p = "recovery"
    <2>1. proc[p].op = "recover"
      BY <1>1, <1>2 DEF Calls, OneByOne, CallOK
    <2>2. proc' = [proc EXCEPT ![p] = Work] /\ lane' = Tail(lane) /\ page' = page
      BY <2>1 DEF Fail
    <2>3. page' \in Pages
      BY <2>2 DEF Calls, CallsTypeOK
    <2>4. Calls' /\ proc'[p] = Work /\ \A q \in Proc : q # p => proc'[q] = proc[q]
      BY <1>2, <2>2, <2>3, CallEnds
    <2>. QED BY <1>2, <2>2, <2>4, NoWork
  <1>3. CASE p = "page" /\ proc[p].op = "save"
    <2>1. /\ proc' = [proc EXCEPT !["page"] = Begun("load", None)]
          /\ lane' = Append(Tail(lane), "page")
          /\ page' = [page EXCEPT !.doubt = TRUE]
      BY <1>3 DEF Fail, Reconcile
    <2>2. Calls' /\ proc'[p] = Begun("load", None) /\ \A q \in Proc : q # p => proc'[q] = proc[q]
      BY <1>3, <2>1, CallReloads
    <2>3. page'.shown = page.shown /\ page'.doubt
      BY <2>1 DEF Calls, CallsTypeOK, Pages
    <2>. QED BY <1>3, <2>2, <2>3, Beginnings, NoSession
  <1>4. CASE p = "page" /\ proc[p].op \in {"load", "abandon"}
    <2>1. /\ proc' = [proc EXCEPT ![p] = Work] /\ lane' = Tail(lane)
          /\ page' = [page EXCEPT !.at = "idle"]
      BY <1>4 DEF Fail
    <2>2. page' \in Pages /\ page'.at = "idle" /\ page'.shown = page.shown
          /\ page'.doubt = page.doubt
      BY <2>1 DEF Calls, CallsTypeOK, Pages
    <2>3. Calls' /\ proc'[p] = Work /\ \A q \in Proc : q # p => proc'[q] = proc[q]
      BY <1>4, <2>1, <2>2, CallEnds
    <2>4. page.doubt \/ proc[p].op = "abandon"
      BY <1>4 DEF Calls, OneByOne
    <2>. QED BY <1>4, <2>2, <2>3, <2>4, NoWork
  <1>5. p = "page" => proc[p].op \in {"load", "save", "abandon"}
    BY <1>1 DEF Calls, OneByOne, CallOK
  <1>. QED BY <1>2, <1>3, <1>4, <1>5 DEF Proc

\* What a call that returns leaves behind.
LEMMA Returns ==
    ASSUME Calls, NEW p \in Proc, First(p, lane), NEW result \in Sessions, Return(p, result)
    PROVE  /\ Calls'
           /\ proc'[p] = Work /\ \A q \in Proc : q # p => proc'[q] = proc[q]
           /\ p = "recovery" => page' = page
           /\ p = "page" => page'.shown = result
  <1>1. proc' = [proc EXCEPT ![p] = Work] /\ lane' = Tail(lane)
    BY DEF Return
  <1>2. page' \in Pages /\ (IF p = "page" THEN page'.at # "busy" ELSE page' = page)
        /\ (p = "page" => page'.shown = result)
    BY DEF Return, Calls, CallsTypeOK, Pages, Proc
  <1>3. /\ Calls'
        /\ proc'[p] = Work /\ \A q \in Proc : q # p => proc'[q] = proc[q]
    BY <1>1, <1>2, CallEnds
  <1>. QED BY <1>2, <1>3 DEF Proc

\* Goto and With turn to another step.
LEMMA Goes ==
    ASSUME Calls, NEW p \in Proc, First(p, lane), NEW at \in Steps \ {"idle", "load"},
           proc[p].op # "load", proc[p].op = "abandon" <=> at \in {"empty", "drop"},
           Goto(p, at)
    PROVE  Calls' /\ Turns(p, at, proc[p].work)
  <1>. DEFINE w == [proc[p] EXCEPT !.at = at]
  <1>0. proc[p] \in Works
    BY DEF Calls, CallsTypeOK
  <1>1. w \in Works /\ w.at = at /\ w.op = proc[p].op /\ w.snap = proc[p].snap
        /\ w.work = proc[p].work /\ w.fresh = proc[p].fresh
    BY <1>0 DEF Works
  <1>2. proc' = [proc EXCEPT ![p] = w] /\ UNCHANGED <<page, lane>>
    BY DEF Goto
  <1>. HIDE DEF w
  <1>3. Calls' /\ proc'[p] = w /\ \A q \in Proc : q # p => proc'[q] = proc[q]
    BY <1>1, <1>2, CallMoves
  <1>. QED BY <1>1, <1>2, <1>3 DEF Turns, OthersStay

\* The same with another session to work on.
LEMMA Takes ==
    ASSUME Calls, NEW p \in Proc, First(p, lane), NEW at \in Steps \ {"idle", "load"},
           NEW s \in Sessions, proc[p].op \notin {"load", "abandon"},
           at \notin {"empty", "drop"}, With(p, at, s)
    PROVE  Calls' /\ Turns(p, at, s)
  <1>. DEFINE w == [proc[p] EXCEPT !.at = at, !.work = s]
  <1>0. proc[p] \in Works
    BY DEF Calls, CallsTypeOK
  <1>1. w \in Works /\ w.at = at /\ w.op = proc[p].op /\ w.snap = proc[p].snap
        /\ w.work = s /\ w.fresh = proc[p].fresh
    BY <1>0 DEF Works
  <1>2. proc' = [proc EXCEPT ![p] = w] /\ UNCHANGED <<page, lane>>
    <2>1. proc' = [proc EXCEPT ![p].at = at, ![p].work = s] /\ proc \in [Proc -> Works]
      BY DEF With, Calls, CallsTypeOK
    <2>2. \A q \in Proc : proc'[q] = IF q = p THEN w ELSE proc[q]
      BY <2>1, <1>0 DEF Works
    <2>3. proc' = [q \in Proc |-> proc'[q]]
      BY <2>1
    <2>. QED BY <2>1, <2>2, <2>3 DEF With
  <1>. HIDE DEF w
  <1>3. Calls' /\ proc'[p] = w /\ \A q \in Proc : q # p => proc'[q] = proc[q]
    BY <1>1, <1>2, CallMoves
  <1>. QED BY <1>1, <1>2, <1>3 DEF Turns, OthersStay

\* What is known of a call at a step of the lane.
LEMMA Runners ==
    ASSUME Calls, NEW p \in Proc, NEW at, Runs(p, at)
    PROVE  Running(p, at)
  <1>1. First(p, lane) /\ proc[p].at = at /\ proc[p] \in Works
    BY Holds DEF Runs, Calls, CallsTypeOK
  <1>2. at # "idle"
    BY <1>1, Holds DEF Calls, CallsTypeOK, OneByOne, CallOK
  <1>3. \A q \in Proc : q # p => ~First(q, lane)
    BY <1>1, Holds, Distinct DEF Calls, CallsTypeOK
  <1>4. CallOK(p, proc[p], lane) /\ \A q \in Proc : q # p => CallOK(q, proc[q], lane)
    BY DEF Calls, OneByOne
  <1>5. /\ at \notin {"load", "empty", "drop"} => proc[p].op \in {"save", "recover"}
        /\ at \in {"empty", "drop"} => proc[p].op = "abandon"
        /\ proc[p].op \in IF p = "page" THEN {"load", "save", "abandon"} ELSE {"recover"}
    BY <1>1, <1>2, <1>4 DEF CallOK
  <1>6. \A q \in Proc : q # p => proc[q].at \in {"idle", "load"}
    BY <1>3, <1>4 DEF CallOK
  <1>7. p = "page" => page.at = "busy"
    BY <1>1, <1>2 DEF Calls, OneByOne
  <1>8. p = "page" => proc["recovery"].snap = None
    BY <1>3, <1>4, <1>6 DEF CallOK, Proc
  <1>. QED BY <1>1, <1>5, <1>6, <1>7, <1>8 DEF Running

-----------------------------------------------------------------------------

\* The parts of a session.
LEMMA Stages ==
    /\ \A s \in Sessions : s # None => s.stage \in StageOf /\ s.ver \in Version
    /\ \A s \in Sessions : s = None <=> s.stage = "none"
    /\ \A stage \in StageOf, ver \in Version :
          /\ Session(stage, ver) \in Sessions /\ Session(stage, ver) # None
          /\ Session(stage, ver).stage = stage /\ Session(stage, ver).ver = ver
  BY DEF Session, Sessions, StageOf, None

\* A call that throws keeps what the session and its stores agree on.
LEMMA FailAgrees ==
    ASSUME SInv, NEW p \in Proc, NEW at, Runs(p, at), Fail(p),
           UNCHANGED <<flaky, mem>>, mapped => mapped',
           prefs'.stage # "draft" /\ disk'.stage # "draft",
           "complete" \in {prefs'.stage, disk'.stage} => mapped',
           ~flaky => disk' = prefs',
           mem.stage = "draft" =>
               /\ accepted' = {} /\ (prefs' = None => disk' = None)
               /\ at = "keep" \/ prefs' = prefs,
           SavedIsRecoverable', MappedHasFile'
    PROVE  Calls' /\ Agreement'
  <1>1. /\ First(p, lane) /\ proc[p].at = at
        /\ p = "page" => page.at = "busy" /\ proc["recovery"].snap = None
        /\ at \in {"keep", "empty", "drop"} => proc[p].op # "load"
        /\ at = "keep" => proc[p].op # "abandon"
        /\ \A q \in Proc : q # p => proc[q].at \in {"idle", "load"}
    BY Runners DEF SInv, Running
  <1>2. /\ Calls'
        /\ \A q \in Proc : q # p => proc'[q] = proc[q]
        /\ proc'[p].at \in {"idle", "load"} /\ proc'[p].op \in {"none", "load"}
        /\ proc'[p].snap = None /\ proc'[p].work = None
        /\ page'.shown = page.shown
        /\ p = "recovery" => page' = page /\ proc'[p].at = "idle"
        /\ p = "page" => page'.doubt \/ proc[p].op = "abandon"
    BY <1>1, Fails DEF SInv
  <1>3. None.stage = "none" /\ Proc = {"page", "recovery"}
    BY NoSession DEF Proc
  <1>4. mem' = mem /\ flaky' = flaky
    OBVIOUS
  <1>5. StagesMean'
    BY <1>1, <1>2, <1>3, <1>4 DEF SInv, Agreement, StagesMean, WorkMeans
  <1>6. DraftIsUntouched'
    BY <1>1, <1>2, <1>3, <1>4 DEF SInv, Agreement, DraftIsUntouched
  <1>7. PageAgrees'
    <2>1. (p = "page" /\ proc[p].op = "abandon") \/ p = "recovery" =>
             (Unsaved => prefs' = prefs)
      BY <1>1, <1>3 DEF SInv, Agreement, DraftIsUntouched, Unsaved
    <2>2. CASE p = "page"
      BY <1>1, <1>2, <1>3, <1>4, <2>1, <2>2 DEF SInv, Agreement, PageAgrees, Unsaved
    <2>3. CASE p = "recovery"
      BY <1>1, <1>2, <1>3, <1>4, <2>1, <2>3 DEF SInv, Agreement, PageAgrees, Unsaved
    <2>. QED BY <1>3, <2>2, <2>3
  <1>8. CopiesFirst'
    BY <1>1, <1>2, <1>3, <1>4 DEF SInv, Agreement, CopiesFirst
  <1>. QED BY <1>2, <1>5, <1>6, <1>7, <1>8 DEF Agreement

\* A call that is refused changes nothing but the lane.
LEMMA RefusedKeeps ==
    ASSUME SInv, NEW p \in Proc, NEW at, Runs(p, at), Fail(p),
           UNCHANGED <<owner, flaky, stores, images, accepted, trouble>>
    PROVE  SInv'
  <1>. USE DEF stores, images
  <1>1. SavedIsRecoverable' /\ MappedHasFile'
    BY DEF SInv, Agreement, SavedIsRecoverable, MappedHasFile
  <1>2. mem.stage = "draft" => accepted' = {} /\ (prefs' = None => disk' = None)
    BY DEF SInv, Agreement, DraftIsUntouched
  <1>3. /\ prefs'.stage # "draft" /\ disk'.stage # "draft" /\ (~flaky => disk' = prefs')
        /\ "complete" \in {prefs'.stage, disk'.stage} => mapped'
    BY DEF SInv, Agreement, StagesMean
  <1>4. Calls' /\ Agreement'
    BY <1>1, <1>2, <1>3, FailAgrees
  <1>. QED BY <1>4 DEF SInv, StoresTypeOK

\* Each step of the lane, and then each action of the page, keeps the invariant.
LEMMA RestoreKeeps ==
    ASSUME SInv, NEW p \in Proc, Restore(p)
    PROVE  SInv'
  <1>. USE DEF stores, images, Running, WorksOn, Turns, OthersStay
  <1>0. Proc = {"page", "recovery"} /\ None.stage = "none" /\ None \in Sessions
    BY NoSession DEF Proc
  <1>1. Running(p, "load")
    BY Runners DEF SInv, Restore
  <1>. DEFINE found == IF prefs # None THEN prefs ELSE mem
  <1>2. /\ IF owner /\ found # None /\ Allowed(found)
           THEN Return(p, found) /\ mem' = found
           ELSE Fail(p) /\ mem' = mem
        /\ UNCHANGED <<owner, flaky, prefs, disk, images, accepted, trouble>>
        /\ p = "page"
    BY <1>0, <1>1 DEF Restore
  <1>3. /\ found \in Sessions
        /\ found.stage = "complete" => mapped
        /\ found.stage = "draft" => found = mem /\ prefs = None
    BY DEF SInv, StoresTypeOK, Agreement, StagesMean
  <1>. HIDE DEF found
  <1>4. CASE ~(owner /\ found # None /\ Allowed(found))
    BY <1>1, <1>2, <1>4, RefusedKeeps
  <1>5. CASE owner /\ found # None /\ Allowed(found)
    <2>1. /\ Calls'
          /\ proc'[p] = Work /\ OthersStay(p)
          /\ page'.shown = found
      BY <1>1, <1>2, <1>3, <1>5, Returns DEF SInv
    <2>2. Work.op = "none" /\ Work.at = "idle" /\ Work.snap = None /\ Work.work = None
      BY NoWork
    <2>3. StoresTypeOK'
      BY <1>0, <1>1, <1>2, <1>3, <1>5, <2>1, <2>2 DEF SInv, StoresTypeOK
    <2>4. Agreement'
      BY <1>0, <1>1, <1>2, <1>3, <1>5, <2>1, <2>2 DEF SInv, Agreement, StagesMean, WorkMeans,
         DraftIsUntouched, PageAgrees, Unsaved, CopiesFirst, SavedIsRecoverable, MappedHasFile
    <2>. QED BY <2>1, <2>3, <2>4 DEF SInv, Agreement
  <1>. QED BY <1>4, <1>5

\* Recover keeps it.
LEMMA RecoverKeeps ==
    ASSUME SInv, NEW p \in Proc, Recover(p)
    PROVE  SInv'
  <1>. USE DEF stores, images, Running, WorksOn, Turns, OthersStay
  <1>0. Proc = {"page", "recovery"} /\ None.stage = "none" /\ None \in Sessions
    BY NoSession DEF Proc
  <1>1. Running(p, "load")
    BY Runners DEF SInv, Recover
  <1>2. /\ proc[p].op = "recover" /\ p = "recovery" /\ proc[p].snap = None
        /\ IF prefs = None THEN Return(p, None) /\ mem' = mem
           ELSE IF ~owner \/ ~Allowed(prefs) THEN Fail(p) /\ mem' = mem
           ELSE mem' = prefs /\ proc' = [proc EXCEPT ![p].snap = prefs]
                /\ UNCHANGED <<page, lane>>
        /\ UNCHANGED <<owner, flaky, prefs, disk, images, accepted, trouble>>
    BY <1>0, <1>1 DEF Recover, PutFound
  <1>3. CASE prefs # None /\ (~owner \/ ~Allowed(prefs))
    BY <1>1, <1>2, <1>3, RefusedKeeps
  <1>4. CASE prefs = None
    <2>1. /\ Calls'
          /\ proc'[p] = Work /\ OthersStay(p)
          /\ page' = page
      BY <1>0, <1>1, <1>2, <1>4, Returns DEF SInv
    <2>2. Work.op = "none" /\ Work.at = "idle" /\ Work.snap = None /\ Work.work = None
      BY NoWork
    <2>3. StoresTypeOK'
      BY <1>0, <1>1, <1>2, <1>4, <2>1, <2>2 DEF SInv, StoresTypeOK
    <2>4. Agreement'
      BY <1>0, <1>1, <1>2, <1>4, <2>1, <2>2 DEF SInv, Agreement, StagesMean, WorkMeans,
         DraftIsUntouched, PageAgrees, Unsaved, CopiesFirst, SavedIsRecoverable, MappedHasFile
    <2>. QED BY <2>1, <2>3, <2>4 DEF SInv, Agreement
  <1>. DEFINE rec == [proc[p] EXCEPT !.snap = prefs]
  <1>5. CASE prefs # None /\ owner /\ Allowed(prefs)
    <2>1. /\ rec \in Works /\ rec.at = "load" /\ rec.op = "recover" /\ rec.snap = prefs
          /\ rec.work = proc[p].work /\ rec.fresh = proc[p].fresh
          /\ prefs.stage # "draft"
      BY <1>1, <1>2, <1>5 DEF SInv, StoresTypeOK, Works, Agreement, StagesMean
    <2>2. proc' = [proc EXCEPT ![p] = rec] /\ UNCHANGED <<page, lane>> /\ mem' = prefs
      BY <1>2, <1>5
    <2>3. /\ CallsTypeOK' /\ proc'[p] = rec /\ \A q \in Proc : q # p => proc'[q] = proc[q]
      <3>. HIDE DEF rec
      <3>. QED BY <2>1, <2>2, TheOther DEF SInv, Calls, CallsTypeOK
    <2>4. OneByOne'
      <3>. HIDE DEF rec
      <3>. QED BY <1>0, <1>1, <1>2, <2>1, <2>2, <2>3 DEF SInv, Calls, OneByOne, CallOK
    <2>. HIDE DEF rec
    <2>5. Calls'
      BY <2>3, <2>4 DEF Calls
    <2>6. StoresTypeOK'
      BY <1>0, <1>1, <1>2, <1>5, <2>1, <2>2, <2>3 DEF SInv, StoresTypeOK
    <2>7. Agreement'
      BY <1>0, <1>1, <1>2, <1>5, <2>1, <2>2, <2>3 DEF SInv, Agreement, StagesMean, WorkMeans,
         DraftIsUntouched, PageAgrees, Unsaved, CopiesFirst, SavedIsRecoverable, MappedHasFile
    <2>. QED BY <2>5, <2>6, <2>7 DEF SInv, Agreement
  <1>. QED BY <1>3, <1>4, <1>5

\* A draft in memory is not what a running call works on.
LEMMA NotDraft ==
    ASSUME SInv, NEW p \in Proc, NEW at, Runs(p, at), at # "load"
    PROVE  WorksOn(p, at)
  <1>1. proc[p].at = at /\ at # "idle" /\ proc[p] \in Works
    BY Runners, Holds DEF Running, SInv, Calls, CallsTypeOK, OneByOne, CallOK
  <1>2. Proc = {"page", "recovery"}
    BY DEF Proc
  <1>3. proc[p].work \in Sessions
    BY <1>1 DEF Works
  <1>4. p = "recovery" => mem.stage # "draft"
    BY <1>1 DEF SInv, Agreement, DraftIsUntouched
  <1>5. at \notin {"keep", "note", "empty", "drop"} => mem.stage # "draft"
    BY <1>1, <1>2, <1>4 DEF SInv, Agreement, DraftIsUntouched
  <1>6. /\ at \notin {"empty", "drop"} => proc[p].work.stage \in {"saving", "saved", "complete"}
        /\ proc[p].work.stage = "complete" => mapped
    BY <1>1 DEF SInv, Agreement, StagesMean, WorkMeans
  <1>7. proc[p].work.stage # "none" => proc[p].work # None /\ proc[p].work.ver \in Version
    BY <1>3, Stages
  <1>. QED BY <1>3, <1>4, <1>5, <1>6, <1>7 DEF WorksOn

\* A call that has looked at the checkpoint goes on with a session.
LEMMA TakesKeeps ==
    ASSUME SInv, NEW p \in Proc, Runs(p, "load"), proc[p].op \in {"save", "recover"},
           NEW at \in {"keep", "push", "copy", "again"}, NEW s \in Sessions,
           With(p, at, s),
           UNCHANGED <<owner, flaky, stores, images, accepted, trouble>>,
           s.stage \in {"saving", "saved", "complete"},
           s.stage = "complete" => mapped,
           at = "push" => prefs # None,
           at = "again" => s.stage = "complete",
           mem.stage = "draft" => p = "page" /\ at = "keep" /\ s.stage = "saving"
    PROVE  SInv'
  <1>. USE DEF stores, images, Running, Turns, OthersStay
  <1>0. Proc = {"page", "recovery"} /\ None.stage = "none" /\ None \in Sessions
    BY NoSession DEF Proc
  <1>1. Running(p, "load")
    BY Runners DEF SInv
  <1>2. Calls' /\ Turns(p, at, s)
    BY <1>1, Takes DEF SInv, Steps
  <1>3. StoresTypeOK'
    BY DEF SInv, StoresTypeOK
  <1>4. Agreement'
    BY <1>0, <1>1, <1>2 DEF SInv, Agreement, StagesMean, WorkMeans, DraftIsUntouched,
       PageAgrees, Unsaved, CopiesFirst, SavedIsRecoverable, MappedHasFile
  <1>. QED BY <1>2, <1>3, <1>4 DEF SInv, Agreement

\* Begin keeps it.
LEMMA BeginKeeps ==
    ASSUME SInv, NEW p \in Proc, Begin(p)
    PROVE  SInv'
  <1>. USE DEF stores, images, Running, WorksOn, Turns, OthersStay
  <1>0. Proc = {"page", "recovery"} /\ None.stage = "none" /\ None \in Sessions
    BY NoSession DEF Proc
  <1>1. Running(p, "load")
    BY Runners DEF SInv, Begin
  <1>2. proc[p].op = "save" \/ (proc[p].op = "recover" /\ proc[p].snap # None)
    BY DEF Begin
  <1>3. prefs \in Sessions /\ mem \in Sessions /\ proc[p].snap \in Sessions
    BY <1>1 DEF SInv, StoresTypeOK, Works
  <1>4. mem.stage = "draft" => p = "page" /\ prefs = None /\ proc[p].snap.stage = "draft"
    BY <1>0, <1>1, <1>2 DEF SInv, Agreement, DraftIsUntouched, PageAgrees, Unsaved
  <1>5. "complete" \in {prefs.stage, mem.stage, proc[p].snap.stage} => mapped
    BY DEF SInv, Agreement, StagesMean, WorkMeans
  <1>6. UNCHANGED <<owner, flaky, stores, images, accepted, trouble>>
    BY DEF Begin
  <1>7. CASE owner /\ prefs # None
    <2>1. With(p, After(prefs.stage), prefs)
      BY <1>7 DEF Begin
    <2>2. prefs.stage \in {"saving", "saved", "complete"}
      BY <1>3, <1>7, Stages DEF SInv, Agreement, StagesMean, StageOf
    <2>3. /\ After(prefs.stage) \in {"push", "copy", "again"}
          /\ After(prefs.stage) = "again" => prefs.stage = "complete"
      BY <2>2 DEF After
    <2>. QED BY <1>1, <1>2, <1>3, <1>4, <1>5, <1>6, <1>7, <2>1, <2>2, <2>3, TakesKeeps
  <1>8. CASE owner /\ prefs = None /\ mem.stage = "complete"
    <2>1. With(p, "again", mem)
      BY <1>8 DEF Begin
    <2>. QED BY <1>1, <1>2, <1>3, <1>4, <1>5, <1>6, <1>8, <2>1, TakesKeeps
  <1>9. CASE owner /\ prefs = None /\ mem.stage # "complete" /\ proc[p].snap.stage = "complete"
    <2>1. With(p, "again", proc[p].snap)
      BY <1>9 DEF Begin
    <2>. QED BY <1>1, <1>2, <1>3, <1>4, <1>5, <1>6, <1>9, <2>1, TakesKeeps
  <1>10. CASE /\ owner /\ prefs = None /\ mem.stage # "complete"
              /\ proc[p].snap.stage = "draft" /\ cache
    <2>1. With(p, "keep", Session("saving", proc[p].snap.ver))
      BY <1>10 DEF Begin, FirstStep
    <2>2. proc[p].snap # None
      BY <1>0, <1>10
    <2>3. /\ Session("saving", proc[p].snap.ver) \in Sessions
          /\ Session("saving", proc[p].snap.ver).stage = "saving"
      BY <1>3, <2>2, Stages DEF StageOf
    <2>. QED BY <1>1, <1>2, <1>3, <1>4, <1>6, <2>1, <2>3, TakesKeeps
  <1>11. CASE ~owner \/ (/\ prefs = None /\ mem.stage # "complete"
                        /\ proc[p].snap.stage # "complete"
                        /\ ~(proc[p].snap.stage = "draft" /\ cache))
    <2>1. Fail(p)
      BY <1>11 DEF Begin
    <2>. QED BY <1>1, <1>6, <2>1, RefusedKeeps
  <1>. QED BY <1>7, <1>8, <1>9, <1>10, <1>11 DEF SInv, StoresTypeOK

\* Keep keeps it.
LEMMA KeepKeeps ==
    ASSUME SInv, NEW p \in Proc, Keep(p)
    PROVE  SInv'
  <1>. USE DEF stores, images, Running, WorksOn, Turns, OthersStay
  <1>0. Proc = {"page", "recovery"} /\ None.stage = "none" /\ None \in Sessions
    BY NoSession DEF Proc
  <1>1. Running(p, "keep")
    BY Runners DEF SInv, Keep
  <1>2. WorksOn(p, "keep")
    BY <1>1, NotDraft
  <1>3. UNCHANGED <<owner, flaky, mem, images, accepted>>
    BY DEF Keep
  <1>4. CASE ~(owner /\ Allowed(proc[p].work))
    BY <1>1, <1>3, <1>4, RefusedKeeps DEF Keep, Refused
  <1>5. CASE owner /\ Allowed(proc[p].work) /\ ~Goto(p, "note")
    <2>1. /\ prefs' = proc[p].work /\ disk' = disk /\ Fail(p) /\ flaky
          /\ trouble > 0 /\ trouble' = trouble - 1
      BY <1>5 DEF Keep, Stored
    <2>2. StoresTypeOK'
      BY <1>2, <1>3, <2>1 DEF SInv, StoresTypeOK
    <2>3. SavedIsRecoverable' /\ MappedHasFile'
      BY <1>3, <2>1 DEF SInv, Agreement, SavedIsRecoverable, MappedHasFile
    <2>4. /\ prefs'.stage # "draft" /\ disk'.stage # "draft"
          /\ "complete" \in {prefs'.stage, disk'.stage} => mapped'
      BY <1>2, <1>3, <2>1 DEF SInv, Agreement, StagesMean
    <2>5. mem.stage = "draft" => accepted' = {} /\ prefs' # None
      BY <1>2, <1>3, <2>1 DEF SInv, Agreement, DraftIsUntouched
    <2>6. Calls' /\ Agreement'
      BY <1>1, <1>3, <2>1, <2>3, <2>4, <2>5, FailAgrees
    <2>. QED BY <2>2, <2>6 DEF SInv
  <1>6. CASE owner /\ Allowed(proc[p].work) /\ Goto(p, "note")
    <2>1. Calls' /\ Turns(p, "note", proc[p].work)
      BY <1>1, <1>6, Goes DEF SInv, Steps
    <2>2. /\ prefs' = proc[p].work /\ disk' = prefs' /\ trouble' = trouble
          \/ /\ prefs' = proc[p].work /\ disk' = disk /\ flaky
             /\ trouble > 0 /\ trouble' = trouble - 1
      BY <1>6 DEF Keep, Stored
    <2>3. StoresTypeOK'
      BY <1>0, <1>1, <1>2, <1>3, <1>6, <2>1, <2>2 DEF SInv, StoresTypeOK
    <2>4. Agreement'
      BY <1>0, <1>1, <1>2, <1>3, <1>6, <2>1, <2>2 DEF SInv, Agreement, StagesMean, WorkMeans,
         DraftIsUntouched, PageAgrees, Unsaved, CopiesFirst, SavedIsRecoverable, MappedHasFile
    <2>. QED BY <2>1, <2>3, <2>4 DEF SInv, Agreement
  <1>. QED BY <1>4, <1>5, <1>6

\* Note keeps it.
LEMMA NoteKeeps ==
    ASSUME SInv, NEW p \in Proc, Note(p)
    PROVE  SInv'
  <1>. USE DEF stores, images, Running, WorksOn, Turns, OthersStay
  <1>0. Proc = {"page", "recovery"} /\ None.stage = "none" /\ None \in Sessions
    BY NoSession DEF Proc
  <1>1. Running(p, "note")
    BY Runners DEF SInv, Note
  <1>2. WorksOn(p, "note")
    BY <1>1, NotDraft
  <1>3. UNCHANGED <<owner, flaky, prefs, disk, images, accepted, trouble>>
    BY DEF Note
  <1>4. CASE ~(owner /\ Allowed(proc[p].work))
    BY <1>1, <1>3, <1>4, RefusedKeeps DEF Note
  <1>. DEFINE at == After(proc[p].work.stage)
  <1>5. /\ at \in {"push", "copy", "again"}
        /\ at = "again" => proc[p].work.stage = "complete"
    BY <1>2 DEF After
  <1>6. prefs # None
    BY <1>1 DEF SInv, Agreement, StagesMean, WorkMeans
  <1>. HIDE DEF at
  <1>7. CASE owner /\ Allowed(proc[p].work)
    <2>1. Goto(p, at) /\ mem' = proc[p].work
      BY <1>7 DEF Note, at
    <2>2. Calls' /\ Turns(p, at, proc[p].work)
      BY <1>1, <1>5, <2>1, Goes DEF SInv, Steps
    <2>3. StoresTypeOK'
      BY <1>0, <1>1, <1>2, <1>3, <1>5, <1>6, <1>7, <2>1, <2>2 DEF SInv, StoresTypeOK
    <2>4. Agreement'
      BY <1>0, <1>1, <1>2, <1>3, <1>5, <1>6, <1>7, <2>1, <2>2 DEF SInv, Agreement, StagesMean,
         WorkMeans, DraftIsUntouched, PageAgrees, Unsaved, CopiesFirst, SavedIsRecoverable,
         MappedHasFile
    <2>. QED BY <2>2, <2>3, <2>4 DEF SInv, Agreement
  <1>. QED BY <1>4, <1>7

\* Push keeps it.
LEMMA PushKeeps ==
    ASSUME SInv, NEW p \in Proc, Push(p)
    PROVE  SInv'
  <1>. USE DEF stores, images, Running, WorksOn, Turns, OthersStay
  <1>0. Proc = {"page", "recovery"} /\ None.stage = "none" /\ None \in Sessions
    BY NoSession DEF Proc
  <1>1. Running(p, "push")
    BY Runners DEF SInv, Push
  <1>2. WorksOn(p, "push")
    BY <1>1, NotDraft
  <1>3. UNCHANGED <<owner, flaky, stores, images>> /\ prefs # None
    BY <1>1 DEF Push, SInv, Agreement, StagesMean, WorkMeans
  <1>4. CASE Fail(p) /\ UNCHANGED <<accepted, trouble>>
    BY <1>1, <1>3, <1>4, RefusedKeeps
  <1>5. CASE /\ owner /\ cache /\ accepted' = accepted \cup {proc[p].work.ver}
             /\ trouble > 0 /\ trouble' = trouble - 1 /\ Fail(p)
    <2>1. StoresTypeOK'
      BY <1>2, <1>3, <1>5 DEF SInv, StoresTypeOK
    <2>2. SavedIsRecoverable' /\ MappedHasFile'
      BY <1>3, <1>5 DEF SInv, Agreement, SavedIsRecoverable, MappedHasFile, StagesMean
    <2>3. /\ prefs'.stage # "draft" /\ disk'.stage # "draft"
          /\ "complete" \in {prefs'.stage, disk'.stage} => mapped'
          /\ ~flaky => disk' = prefs'
      BY <1>3 DEF SInv, Agreement, StagesMean
    <2>4. Calls' /\ Agreement'
      BY <1>1, <1>2, <1>3, <1>5, <2>2, <2>3, FailAgrees
    <2>. QED BY <2>1, <2>4 DEF SInv
  <1>6. CASE /\ owner /\ cache /\ accepted' = accepted \cup {proc[p].work.ver}
             /\ With(p, "keep", Session("saved", proc[p].work.ver)) /\ trouble' = trouble
    <2>1. /\ Session("saved", proc[p].work.ver) \in Sessions
          /\ Session("saved", proc[p].work.ver).stage = "saved"
      BY <1>2, Stages DEF StageOf
    <2>2. Calls' /\ Turns(p, "keep", Session("saved", proc[p].work.ver))
      BY <1>1, <1>6, <2>1, Takes DEF SInv, Steps
    <2>3. StoresTypeOK'
      BY <1>0, <1>1, <1>2, <1>3, <1>6, <2>1, <2>2 DEF SInv, StoresTypeOK
    <2>4. Agreement'
      BY <1>0, <1>1, <1>2, <1>3, <1>6, <2>1, <2>2 DEF SInv, Agreement, StagesMean, WorkMeans,
         DraftIsUntouched, PageAgrees, Unsaved, CopiesFirst, SavedIsRecoverable, MappedHasFile
    <2>. QED BY <2>2, <2>3, <2>4 DEF SInv, Agreement
  <1>. QED BY <1>4, <1>5, <1>6 DEF Push

\* Copy keeps it.
LEMMA CopyKeeps ==
    ASSUME SInv, NEW p \in Proc, Copy(p)
    PROVE  SInv'
  <1>. USE DEF stores, images, Running, WorksOn, Turns, OthersStay
  <1>0. Proc = {"page", "recovery"} /\ None.stage = "none" /\ None \in Sessions
    BY NoSession DEF Proc
  <1>1. Running(p, "copy")
    BY Runners DEF SInv, Copy
  <1>2. WorksOn(p, "copy")
    BY <1>1, NotDraft
  <1>3. UNCHANGED <<owner, flaky, stores, cache, mapped, accepted, trouble>>
    BY DEF Copy
  <1>4. CASE ~(owner /\ cache)
    BY <1>1, <1>3, <1>4, RefusedKeeps DEF Copy
  <1>. DEFINE rec == [proc[p] EXCEPT !.at = "map", !.fresh = ~final]
  <1>5. CASE owner /\ cache
    <2>1. /\ rec \in Works /\ rec.at = "map" /\ rec.op = proc[p].op /\ rec.snap = proc[p].snap
          /\ rec.work = proc[p].work /\ rec.fresh = ~final
      BY <1>1 DEF SInv, StoresTypeOK, Works, Steps
    <2>2. proc' = [proc EXCEPT ![p] = rec] /\ UNCHANGED <<page, lane>> /\ final' = TRUE
      <3>1. /\ proc' = [proc EXCEPT ![p].at = "map", ![p].fresh = ~final]
            /\ proc \in [Proc -> Works] /\ UNCHANGED <<page, lane>> /\ final' = TRUE
        BY <1>5 DEF Copy, SInv, Calls, CallsTypeOK
      <3>2. \A q \in Proc : proc'[q] = IF q = p THEN rec ELSE proc[q]
        BY <1>1, <3>1 DEF Works
      <3>3. proc' = [q \in Proc |-> proc'[q]]
        BY <3>1
      <3>. QED BY <3>1, <3>2, <3>3
    <2>. HIDE DEF rec
    <2>3. Calls' /\ proc'[p] = rec /\ \A q \in Proc : q # p => proc'[q] = proc[q]
      BY <1>1, <2>1, <2>2, CallMoves DEF SInv
    <2>4. StoresTypeOK'
      BY <1>0, <1>1, <1>2, <1>3, <1>5, <2>1, <2>2, <2>3 DEF SInv, StoresTypeOK
    <2>5. StagesMean'
      BY <1>0, <1>1, <1>2, <1>3, <1>5, <2>1, <2>2, <2>3 DEF SInv, Agreement, StagesMean,
         WorkMeans
    <2>6. DraftIsUntouched' /\ PageAgrees'
      BY <1>0, <1>1, <1>2, <1>3, <1>5, <2>1, <2>2, <2>3 DEF SInv, Agreement, DraftIsUntouched,
         PageAgrees, Unsaved
    <2>7. SavedIsRecoverable' /\ MappedHasFile'
      BY <1>0, <1>1, <1>2, <1>3, <1>5, <2>1, <2>2, <2>3 DEF SInv, Agreement,
         SavedIsRecoverable, MappedHasFile
    <2>8. CopiesFirst'
      <3>1. rec.fresh => ~mapped
        BY <2>1 DEF SInv, Agreement, MappedHasFile
      <3>2. proc'[p].fresh => ~mapped'
        BY <1>3, <2>3, <3>1
      <3>3. \A q \in Proc : q # p => proc'[q].at # "map"
        BY <1>1, <2>3
      <3>. QED BY <2>2, <3>2, <3>3 DEF CopiesFirst
    <2>. QED BY <2>3, <2>4, <2>5, <2>6, <2>7, <2>8 DEF SInv, Agreement
  <1>. QED BY <1>4, <1>5

\* Map keeps it.
LEMMA MapKeeps ==
    ASSUME SInv, NEW p \in Proc, Map(p)
    PROVE  SInv'
  <1>. USE DEF stores, images, Running, WorksOn, Turns, OthersStay
  <1>0. Proc = {"page", "recovery"} /\ None.stage = "none" /\ None \in Sessions
    BY NoSession DEF Proc
  <1>1. Running(p, "map")
    BY Runners DEF SInv, Map
  <1>2. WorksOn(p, "map")
    BY <1>1, NotDraft
  <1>3. /\ UNCHANGED <<owner, flaky, stores, cache, accepted>>
        /\ final /\ (proc[p].fresh => ~mapped)
    BY <1>1 DEF Map, SInv, Agreement, CopiesFirst
  <1>4. CASE /\ trouble > 0 /\ trouble' = trouble - 1 /\ Fail(p)
             /\ \E outcome \in {"rolled_back", "unknown"} :
                   /\ mapped' \in IF outcome = "unknown" THEN {mapped, TRUE} ELSE {mapped}
                   /\ final' = IF ShouldCleanUp(p, outcome) THEN FALSE ELSE final
    <2>1. mapped' \in BOOLEAN /\ (mapped => mapped') /\ final' \in BOOLEAN /\ (mapped' => final')
      BY <1>3, <1>4 DEF SInv, StoresTypeOK, ShouldCleanUp
    <2>2. StoresTypeOK'
      BY <1>3, <1>4, <2>1 DEF SInv, StoresTypeOK
    <2>3. SavedIsRecoverable' /\ MappedHasFile'
      BY <1>3, <2>1 DEF SInv, Agreement, SavedIsRecoverable, MappedHasFile
    <2>4. /\ prefs'.stage # "draft" /\ disk'.stage # "draft"
          /\ "complete" \in {prefs'.stage, disk'.stage} => mapped'
          /\ ~flaky => disk' = prefs'
      BY <1>3, <2>1 DEF SInv, Agreement, StagesMean
    <2>5. Calls' /\ Agreement'
      BY <1>1, <1>2, <1>3, <1>4, <2>1, <2>3, <2>4, FailAgrees
    <2>. QED BY <2>2, <2>5 DEF SInv
  <1>5. CASE /\ mapped' = TRUE /\ UNCHANGED <<final, trouble>>
             /\ With(p, "keep", Session("complete", proc[p].work.ver))
    <2>1. /\ Session("complete", proc[p].work.ver) \in Sessions
          /\ Session("complete", proc[p].work.ver).stage = "complete"
      BY <1>2, Stages DEF StageOf
    <2>2. Calls' /\ Turns(p, "keep", Session("complete", proc[p].work.ver))
      BY <1>1, <1>5, <2>1, Takes DEF SInv, Steps
    <2>3. StoresTypeOK'
      BY <1>0, <1>1, <1>2, <1>3, <1>5, <2>1, <2>2 DEF SInv, StoresTypeOK
    <2>4. Agreement'
      BY <1>0, <1>1, <1>2, <1>3, <1>5, <2>1, <2>2 DEF SInv, Agreement, StagesMean, WorkMeans,
         DraftIsUntouched, PageAgrees, Unsaved, CopiesFirst, SavedIsRecoverable, MappedHasFile
    <2>. QED BY <2>2, <2>3, <2>4 DEF SInv, Agreement
  <1>. QED BY <1>4, <1>5 DEF Map

\* Again keeps it.
LEMMA AgainKeeps ==
    ASSUME SInv, NEW p \in Proc, Again(p)
    PROVE  SInv'
  <1>. USE DEF stores, images, Running, WorksOn, Turns, OthersStay
  <1>0. Proc = {"page", "recovery"} /\ None.stage = "none" /\ None \in Sessions
    BY NoSession DEF Proc
  <1>1. Running(p, "again")
    BY Runners DEF SInv, Again
  <1>2. WorksOn(p, "again")
    BY <1>1, NotDraft
  <1>3. UNCHANGED <<owner, flaky, stores, images, accepted, trouble>>
    BY DEF Again
  <1>4. proc[p].work.stage = "complete"
    BY <1>1 DEF SInv, Agreement, StagesMean, WorkMeans
  <1>5. CASE ~owner
    BY <1>1, <1>3, <1>5, RefusedKeeps DEF Again
  <1>. DEFINE at == IF prefs = None THEN "done" ELSE "clean"
  <1>6. at \in {"done", "clean"}
    OBVIOUS
  <1>. HIDE DEF at
  <1>7. CASE owner
    <2>1. Goto(p, at)
      BY <1>7 DEF Again, at
    <2>2. Calls' /\ Turns(p, at, proc[p].work)
      BY <1>1, <1>6, <2>1, Goes DEF SInv, Steps
    <2>3. StoresTypeOK'
      BY <1>0, <1>1, <1>2, <1>3, <1>4, <1>6, <2>1, <2>2 DEF SInv, StoresTypeOK
    <2>4. Agreement'
      BY <1>0, <1>1, <1>2, <1>3, <1>4, <1>6, <2>1, <2>2 DEF SInv, Agreement, StagesMean,
         WorkMeans, DraftIsUntouched, PageAgrees, Unsaved, CopiesFirst, SavedIsRecoverable,
         MappedHasFile
    <2>. QED BY <2>2, <2>3, <2>4 DEF SInv, Agreement
  <1>. QED BY <1>5, <1>7

\* Clean keeps it.
LEMMA CleanKeeps ==
    ASSUME SInv, NEW p \in Proc, Clean(p)
    PROVE  SInv'
  <1>. USE DEF stores, images, Running, WorksOn, Turns, OthersStay
  <1>0. Proc = {"page", "recovery"} /\ None.stage = "none" /\ None \in Sessions
    BY NoSession DEF Proc
  <1>1. Running(p, "clean")
    BY Runners DEF SInv, Clean
  <1>2. WorksOn(p, "clean")
    BY <1>1, NotDraft
  <1>3. UNCHANGED <<owner, flaky, stores, final, mapped, accepted, trouble>>
    BY DEF Clean, CleanCache
  <1>4. proc[p].work.stage = "complete" /\ mapped
    BY <1>1, <1>2 DEF SInv, Agreement, StagesMean, WorkMeans
  <1>5. CASE ~owner
    BY <1>1, <1>3, <1>5, RefusedKeeps DEF Clean, CleanCache
  <1>6. CASE owner
    <2>1. Goto(p, "forget") /\ cache' = FALSE
      BY <1>6 DEF Clean, CleanCache
    <2>2. Calls' /\ Turns(p, "forget", proc[p].work)
      BY <1>1, <2>1, Goes DEF SInv, Steps
    <2>3. StoresTypeOK'
      BY <1>0, <1>1, <1>2, <1>3, <1>4, <2>1, <2>2 DEF SInv, StoresTypeOK
    <2>4. Agreement'
      BY <1>0, <1>1, <1>2, <1>3, <1>4, <2>1, <2>2 DEF SInv, Agreement, StagesMean, WorkMeans,
         DraftIsUntouched, PageAgrees, Unsaved, CopiesFirst, SavedIsRecoverable, MappedHasFile
    <2>. QED BY <2>2, <2>3, <2>4 DEF SInv, Agreement
  <1>. QED BY <1>5, <1>6

\* Forget keeps it.
LEMMA ForgetKeeps ==
    ASSUME SInv, NEW p \in Proc, Forget(p)
    PROVE  SInv'
  <1>. USE DEF stores, images, Running, WorksOn, Turns, OthersStay
  <1>0. Proc = {"page", "recovery"} /\ None.stage = "none" /\ None \in Sessions
    BY NoSession DEF Proc
  <1>1. Running(p, "forget")
    BY Runners DEF SInv, Forget
  <1>2. WorksOn(p, "forget")
    BY <1>1, NotDraft
  <1>3. UNCHANGED <<owner, flaky, mem, images, accepted>>
    BY DEF Forget
  <1>4. proc[p].work.stage = "complete" /\ mapped
    BY <1>1, <1>2 DEF SInv, Agreement, StagesMean, WorkMeans
  <1>5. CASE ~owner
    BY <1>1, <1>3, <1>5, RefusedKeeps DEF Forget, Refused
  <1>6. CASE owner /\ ~Goto(p, "done")
    <2>1. /\ prefs' = None /\ disk' = disk /\ Fail(p) /\ flaky
          /\ trouble > 0 /\ trouble' = trouble - 1
      BY <1>6 DEF Forget, Stored
    <2>2. StoresTypeOK'
      BY <1>0, <1>2, <1>3, <2>1 DEF SInv, StoresTypeOK
    <2>3. SavedIsRecoverable' /\ MappedHasFile'
      BY <1>3, <1>4, <2>1 DEF SInv, Agreement, SavedIsRecoverable, MappedHasFile
    <2>4. /\ prefs'.stage # "draft" /\ disk'.stage # "draft"
          /\ "complete" \in {prefs'.stage, disk'.stage} => mapped'
      BY <1>0, <1>3, <1>4, <2>1 DEF SInv, Agreement, StagesMean
    <2>5. Calls' /\ Agreement'
      BY <1>1, <1>2, <1>3, <2>1, <2>3, <2>4, FailAgrees
    <2>. QED BY <2>2, <2>5 DEF SInv
  <1>7. CASE owner /\ Goto(p, "done")
    <2>1. Calls' /\ Turns(p, "done", proc[p].work)
      BY <1>1, <1>7, Goes DEF SInv, Steps
    <2>2. /\ prefs' = None /\ disk' = prefs' /\ trouble' = trouble
          \/ /\ prefs' = None /\ disk' = disk /\ flaky
             /\ trouble > 0 /\ trouble' = trouble - 1
      BY <1>7 DEF Forget, Stored
    <2>3. StoresTypeOK'
      BY <1>0, <1>1, <1>2, <1>3, <1>4, <2>1, <2>2 DEF SInv, StoresTypeOK
    <2>4. Agreement'
      BY <1>0, <1>1, <1>2, <1>3, <1>4, <2>1, <2>2 DEF SInv, Agreement, StagesMean, WorkMeans,
         DraftIsUntouched, PageAgrees, Unsaved, CopiesFirst, SavedIsRecoverable, MappedHasFile
    <2>. QED BY <2>1, <2>3, <2>4 DEF SInv, Agreement
  <1>. QED BY <1>5, <1>6, <1>7

\* Done keeps it.
LEMMA DoneKeeps ==
    ASSUME SInv, NEW p \in Proc, Done(p)
    PROVE  SInv'
  <1>. USE DEF stores, images, Running, WorksOn, Turns, OthersStay
  <1>0. Proc = {"page", "recovery"} /\ None.stage = "none" /\ None \in Sessions
    BY NoSession DEF Proc
  <1>1. Running(p, "done")
    BY Runners DEF SInv, Done
  <1>2. WorksOn(p, "done")
    BY <1>1, NotDraft
  <1>3. UNCHANGED <<owner, flaky, prefs, disk, images, accepted, trouble>>
    BY DEF Done
  <1>4. proc[p].work.stage = "complete" /\ mapped
    BY <1>1, <1>2 DEF SInv, Agreement, StagesMean, WorkMeans
  <1>5. CASE ~owner
    BY <1>1, <1>3, <1>5, RefusedKeeps DEF Done
  <1>6. CASE owner
    <2>1. Return(p, proc[p].work) /\ mem' = proc[p].work
      BY <1>6 DEF Done
    <2>2. /\ Calls'
          /\ proc'[p] = Work /\ OthersStay(p)
          /\ p = "recovery" => page' = page
          /\ p = "page" => page'.shown = proc[p].work
      BY <1>1, <1>2, <2>1, Returns DEF SInv
    <2>3. Work.op = "none" /\ Work.at = "idle" /\ Work.snap = None /\ Work.work = None
      BY NoWork
    <2>4. StoresTypeOK'
      BY <1>0, <1>1, <1>2, <1>3, <1>4, <2>1, <2>2, <2>3 DEF SInv, StoresTypeOK
    <2>5. Agreement'
      BY <1>0, <1>1, <1>2, <1>3, <1>4, <2>1, <2>2, <2>3 DEF SInv, Agreement, StagesMean,
         WorkMeans, DraftIsUntouched, PageAgrees, Unsaved, CopiesFirst, SavedIsRecoverable,
         MappedHasFile
    <2>. QED BY <2>2, <2>4, <2>5 DEF SInv, Agreement
  <1>. QED BY <1>5, <1>6

\* BeginAbandon keeps it.
LEMMA BeginAbandonKeeps ==
    ASSUME SInv, NEW p \in Proc, BeginAbandon(p)
    PROVE  SInv'
  <1>. USE DEF stores, images, Running, WorksOn, Turns, OthersStay
  <1>0. Proc = {"page", "recovery"} /\ None.stage = "none" /\ None \in Sessions
    BY NoSession DEF Proc
  <1>1. Running(p, "load")
    BY Runners DEF SInv, BeginAbandon
  <1>2. /\ UNCHANGED <<owner, flaky, stores, images, accepted, trouble>>
        /\ proc[p].op = "abandon" /\ p = "page"
    BY <1>0, <1>1 DEF BeginAbandon
  <1>3. CASE ~(owner /\ prefs = None)
    BY <1>1, <1>2, <1>3, RefusedKeeps DEF BeginAbandon
  <1>4. CASE owner /\ prefs = None
    <2>1. Goto(p, "empty")
      BY <1>4 DEF BeginAbandon
    <2>2. Calls' /\ Turns(p, "empty", proc[p].work)
      BY <1>1, <1>2, <2>1, Goes DEF SInv, Steps
    <2>3. StoresTypeOK'
      BY <1>0, <1>1, <1>2, <1>4, <2>1, <2>2 DEF SInv, StoresTypeOK
    <2>4. Agreement'
      BY <1>0, <1>1, <1>2, <1>4, <2>1, <2>2 DEF SInv, Agreement, StagesMean, WorkMeans,
         DraftIsUntouched, PageAgrees, Unsaved, CopiesFirst, SavedIsRecoverable, MappedHasFile
    <2>. QED BY <2>2, <2>3, <2>4 DEF SInv, Agreement
  <1>. QED BY <1>3, <1>4

\* EmptyCache keeps it.
LEMMA EmptyCacheKeeps ==
    ASSUME SInv, NEW p \in Proc, EmptyCache(p)
    PROVE  SInv'
  <1>. USE DEF stores, images, Running, WorksOn, Turns, OthersStay
  <1>0. Proc = {"page", "recovery"} /\ None.stage = "none" /\ None \in Sessions
    BY NoSession DEF Proc
  <1>1. Running(p, "empty")
    BY Runners DEF SInv, EmptyCache
  <1>2. WorksOn(p, "empty")
    BY <1>1, NotDraft
  <1>3. UNCHANGED <<owner, flaky, stores, final, mapped, accepted, trouble>>
    BY DEF EmptyCache, CleanCache
  <1>4. p = "page" /\ Unsaved /\ accepted = {}
    BY <1>0, <1>1 DEF SInv, Agreement, PageAgrees, DraftIsUntouched, Unsaved
  <1>5. CASE ~owner
    BY <1>1, <1>3, <1>5, RefusedKeeps DEF EmptyCache, CleanCache
  <1>6. CASE owner
    <2>1. Goto(p, "drop") /\ cache' = FALSE
      BY <1>6 DEF EmptyCache, CleanCache
    <2>2. Calls' /\ Turns(p, "drop", proc[p].work)
      BY <1>1, <2>1, Goes DEF SInv, Steps
    <2>3. StoresTypeOK'
      BY <1>0, <1>1, <1>2, <1>3, <1>4, <2>1, <2>2 DEF SInv, StoresTypeOK
    <2>4. Agreement'
      BY <1>0, <1>1, <1>2, <1>3, <1>4, <2>1, <2>2 DEF SInv, Agreement, StagesMean, WorkMeans,
         DraftIsUntouched, PageAgrees, Unsaved, CopiesFirst, SavedIsRecoverable, MappedHasFile
    <2>. QED BY <2>2, <2>3, <2>4 DEF SInv, Agreement
  <1>. QED BY <1>5, <1>6

\* Drop keeps it.
LEMMA DropKeeps ==
    ASSUME SInv, NEW p \in Proc, Drop(p)
    PROVE  SInv'
  <1>. USE DEF stores, images, Running, WorksOn, Turns, OthersStay
  <1>0. Proc = {"page", "recovery"} /\ None.stage = "none" /\ None \in Sessions
    BY NoSession DEF Proc
  <1>1. Running(p, "drop")
    BY Runners DEF SInv, Drop
  <1>2. WorksOn(p, "drop")
    BY <1>1, NotDraft
  <1>3. UNCHANGED <<owner, flaky, prefs, disk, images, accepted, trouble>>
    BY DEF Drop
  <1>4. p = "page" /\ Unsaved /\ accepted = {}
    BY <1>0, <1>1 DEF SInv, Agreement, PageAgrees, DraftIsUntouched, Unsaved
  <1>5. CASE ~owner
    BY <1>1, <1>3, <1>5, RefusedKeeps DEF Drop
  <1>6. CASE owner
    <2>1. /\ page' = [page EXCEPT !.at = "gone"] /\ proc' = [proc EXCEPT ![p] = Work]
          /\ lane' = Tail(lane) /\ mem' = None
      BY <1>6 DEF Drop
    <2>2. page' \in Pages /\ page'.at = "gone" /\ page'.shown = page.shown
      BY <2>1 DEF SInv, Calls, CallsTypeOK, Pages
    <2>3. /\ Calls'
          /\ proc'[p] = Work /\ OthersStay(p)
      BY <1>1, <1>4, <2>1, <2>2, CallEnds DEF SInv
    <2>4. Work.op = "none" /\ Work.at = "idle" /\ Work.snap = None /\ Work.work = None
      BY NoWork
    <2>5. StoresTypeOK'
      BY <1>0, <1>1, <1>2, <1>3, <1>4, <2>1, <2>2, <2>3, <2>4 DEF SInv, StoresTypeOK
    <2>6. Agreement'
      BY <1>0, <1>1, <1>2, <1>3, <1>4, <2>1, <2>2, <2>3, <2>4 DEF SInv, Agreement, StagesMean,
         WorkMeans, DraftIsUntouched, PageAgrees, Unsaved, CopiesFirst, SavedIsRecoverable,
         MappedHasFile
    <2>. QED BY <2>3, <2>5, <2>6 DEF SInv, Agreement
  <1>. QED BY <1>5, <1>6

\* Fault keeps it.
LEMMA FaultKeeps ==
    ASSUME SInv, NEW p \in Proc, Fault(p)
    PROVE  SInv'
  <1>. USE DEF stores, images, Running, WorksOn, Turns, OthersStay
  <1>. DEFINE at == proc[p].at
  <1>1. Runs(p, at) /\ Fail(p) /\ trouble > 0 /\ trouble' = trouble - 1
    BY DEF Fault, Runs, Trouble
  <1>2. /\ cache' \in IF at \in {"clean", "empty"} THEN {cache, FALSE} ELSE {cache}
        /\ UNCHANGED <<owner, flaky, stores, final, mapped, accepted>>
    BY DEF Fault
  <1>3. at = "empty" => proc[p].op = "abandon" /\ p = "page"
    <2>1. at = "empty" => proc[p].op = "abandon"
      BY <1>1, Runners DEF SInv
    <2>2. proc[p].op = "abandon" => p = "page"
      BY <1>1, Runners DEF SInv, Proc
    <2>. QED BY <2>1, <2>2
  <1>4. (at = "clean" => mapped) /\ (at = "empty" => accepted = {})
    BY <1>3 DEF SInv, Agreement, StagesMean, WorkMeans, PageAgrees, DraftIsUntouched, Unsaved
  <1>. HIDE DEF at
  <1>5. StoresTypeOK'
    <2>1. cache' \in BOOLEAN
      BY <1>2 DEF SInv, StoresTypeOK
    <2>2. trouble' \in Nat
      BY <1>1 DEF SInv, StoresTypeOK
    <2>. QED BY <1>2, <2>1, <2>2 DEF SInv, StoresTypeOK
  <1>6. SavedIsRecoverable' /\ MappedHasFile'
    BY <1>2, <1>4 DEF SInv, Agreement, SavedIsRecoverable, MappedHasFile
  <1>7. /\ prefs'.stage # "draft" /\ disk'.stage # "draft" /\ (~flaky => disk' = prefs')
        /\ "complete" \in {prefs'.stage, disk'.stage} => mapped'
    BY <1>2 DEF SInv, Agreement, StagesMean
  <1>8. mem.stage = "draft" => accepted' = {} /\ (prefs' = None => disk' = None)
    BY <1>2 DEF SInv, Agreement, DraftIsUntouched
  <1>9. Calls' /\ Agreement'
    BY <1>1, <1>2, <1>6, <1>7, <1>8, FailAgrees
  <1>. QED BY <1>5, <1>9 DEF SInv

\* Load keeps it.
LEMMA LoadKeeps ==
    ASSUME SInv, Load
    PROVE  SInv'
  <1>. USE DEF stores, images
  <1>0. Proc = {"page", "recovery"} /\ None.stage = "none" /\ None \in Sessions
    BY NoSession DEF Proc
  <1>1. /\ page.at \in {"closed", "idle"}
        /\ Queue("page", "load", None) /\ page' = [page EXCEPT !.at = "busy", !.doubt = TRUE]
        /\ UNCHANGED <<owner, flaky, stores, images, accepted, trouble>>
    BY DEF Load, Idle, CanEdit
  <1>2. page \in Pages /\ proc["page"].at = "idle" /\ proc["page"] \in Works
    BY <1>0, <1>1 DEF SInv, Calls, CallsTypeOK, OneByOne
  <1>3. /\ page' \in Pages /\ page'.at = "busy" /\ page'.shown = page.shown
        /\ page'.doubt /\ None \in Sessions
    BY <1>0, <1>1, <1>2 DEF Pages
  <1>4. /\ Calls'
        /\ proc'["page"] = Begun("load", None)
        /\ \A q \in Proc : q # "page" => proc'[q] = proc[q]
    BY <1>0, <1>1, <1>2, <1>3, CallQueues DEF SInv
  <1>5. /\ proc'["page"].op = "load" /\ proc'["page"].at = "load"
        /\ proc'["page"].snap = None /\ proc'["page"].work = None
    BY <1>3, <1>4, Beginnings
  <1>6. StoresTypeOK'
    BY <1>0, <1>1, <1>2, <1>3, <1>4, <1>5 DEF SInv, StoresTypeOK
  <1>7. Agreement'
    BY <1>0, <1>1, <1>2, <1>3, <1>4, <1>5 DEF SInv, Agreement, StagesMean, WorkMeans,
       DraftIsUntouched, PageAgrees, Unsaved, CopiesFirst, SavedIsRecoverable, MappedHasFile
  <1>. QED BY <1>4, <1>6, <1>7 DEF SInv, Agreement

\* SaveRefused keeps it.
LEMMA SaveRefusedKeeps ==
    ASSUME SInv, SaveRefused
    PROVE  SInv'
  <1>. USE DEF stores, images
  <1>0. Proc = {"page", "recovery"} /\ None.stage = "none" /\ None \in Sessions
    BY NoSession DEF Proc
  <1>1. /\ page.at = "idle"
        /\ Queue("page", "load", None) /\ page' = [page EXCEPT !.at = "busy", !.doubt = TRUE]
        /\ UNCHANGED <<owner, flaky, stores, images, accepted, trouble>>
    BY DEF SaveRefused, Idle, CanEdit
  <1>2. page \in Pages /\ proc["page"].at = "idle" /\ proc["page"] \in Works
    BY <1>0, <1>1 DEF SInv, Calls, CallsTypeOK, OneByOne
  <1>3. /\ page' \in Pages /\ page'.at = "busy" /\ page'.shown = page.shown
        /\ page'.doubt /\ None \in Sessions
    BY <1>0, <1>1, <1>2 DEF Pages
  <1>4. /\ Calls'
        /\ proc'["page"] = Begun("load", None)
        /\ \A q \in Proc : q # "page" => proc'[q] = proc[q]
    BY <1>0, <1>1, <1>2, <1>3, CallQueues DEF SInv
  <1>5. /\ proc'["page"].op = "load" /\ proc'["page"].at = "load"
        /\ proc'["page"].snap = None /\ proc'["page"].work = None
    BY <1>3, <1>4, Beginnings
  <1>6. StoresTypeOK'
    BY <1>0, <1>1, <1>2, <1>3, <1>4, <1>5 DEF SInv, StoresTypeOK
  <1>7. Agreement'
    BY <1>0, <1>1, <1>2, <1>3, <1>4, <1>5 DEF SInv, Agreement, StagesMean, WorkMeans,
       DraftIsUntouched, PageAgrees, Unsaved, CopiesFirst, SavedIsRecoverable, MappedHasFile
  <1>. QED BY <1>4, <1>6, <1>7 DEF SInv, Agreement

\* Abandon keeps it.
LEMMA AbandonKeeps ==
    ASSUME SInv, Abandon
    PROVE  SInv'
  <1>. USE DEF stores, images
  <1>0. Proc = {"page", "recovery"} /\ None.stage = "none" /\ None \in Sessions
    BY NoSession DEF Proc
  <1>1. /\ page.at = "idle" /\ ~page.doubt /\ page.shown.stage = "draft"
        /\ Queue("page", "abandon", page.shown) /\ page' = [page EXCEPT !.at = "busy"]
        /\ UNCHANGED <<owner, flaky, stores, images, accepted, trouble>>
    BY DEF Abandon, Idle, CanEdit
  <1>2. page \in Pages /\ proc["page"].at = "idle" /\ proc["page"] \in Works
    BY <1>0, <1>1 DEF SInv, Calls, CallsTypeOK, OneByOne
  <1>3. /\ page' \in Pages /\ page'.at = "busy" /\ page'.shown = page.shown
        /\ page'.doubt = page.doubt /\ page.shown \in Sessions
    BY <1>0, <1>1, <1>2 DEF Pages
  <1>4. /\ Calls'
        /\ proc'["page"] = Begun("abandon", page.shown)
        /\ \A q \in Proc : q # "page" => proc'[q] = proc[q]
    BY <1>0, <1>1, <1>2, <1>3, CallQueues DEF SInv
  <1>5. /\ proc'["page"].op = "abandon" /\ proc'["page"].at = "load"
        /\ proc'["page"].snap = page.shown /\ proc'["page"].work = None
    BY <1>3, <1>4, Beginnings
  <1>6. StoresTypeOK'
    BY <1>0, <1>1, <1>2, <1>3, <1>4, <1>5 DEF SInv, StoresTypeOK
  <1>7. Agreement'
    BY <1>0, <1>1, <1>2, <1>3, <1>4, <1>5 DEF SInv, Agreement, StagesMean, WorkMeans,
       DraftIsUntouched, PageAgrees, Unsaved, CopiesFirst, SavedIsRecoverable, MappedHasFile
  <1>. QED BY <1>4, <1>6, <1>7 DEF SInv, Agreement

\* Save keeps it.
LEMMA SaveKeeps ==
    ASSUME SInv, Save
    PROVE  SInv'
  <1>. USE DEF stores, images
  <1>0. Proc = {"page", "recovery"} /\ None.stage = "none" /\ None \in Sessions
    BY NoSession DEF Proc
  <1>1. /\ page.at = "idle" /\ ~page.doubt
        /\ Queue("page", "save", page.shown) /\ page' = [page EXCEPT !.at = "busy"]
        /\ UNCHANGED <<owner, flaky, prefs, disk, images, accepted, trouble>>
        /\ mem' = IF page.shown.stage = "draft" THEN page.shown ELSE mem
    BY DEF Save, Idle, CanEdit
  <1>2. page \in Pages /\ proc["page"].at = "idle" /\ proc["page"] \in Works
    BY <1>0, <1>1 DEF SInv, Calls, CallsTypeOK, OneByOne
  <1>3. /\ page' \in Pages /\ page'.at = "busy" /\ page'.shown = page.shown
        /\ page'.doubt = page.doubt /\ page.shown \in Sessions
    BY <1>0, <1>1, <1>2 DEF Pages
  <1>4. /\ Calls'
        /\ proc'["page"] = Begun("save", page.shown)
        /\ \A q \in Proc : q # "page" => proc'[q] = proc[q]
    BY <1>0, <1>1, <1>2, <1>3, CallQueues DEF SInv
  <1>5. /\ proc'["page"].op = "save" /\ proc'["page"].at = "load"
        /\ proc'["page"].snap = page.shown /\ proc'["page"].work = None
    BY <1>3, <1>4, Beginnings
  <1>6. page.shown.stage = "draft" => Unsaved
    BY <1>1 DEF SInv, Agreement, PageAgrees
  <1>7. StoresTypeOK'
    BY <1>0, <1>1, <1>2, <1>3, <1>4, <1>5, <1>6 DEF SInv, StoresTypeOK
  <1>8. Agreement'
    BY <1>0, <1>1, <1>2, <1>3, <1>4, <1>5, <1>6 DEF SInv, Agreement, StagesMean, WorkMeans,
       DraftIsUntouched, Unsaved, PageAgrees, CopiesFirst, SavedIsRecoverable, MappedHasFile
  <1>. QED BY <1>4, <1>7, <1>8 DEF SInv, Agreement

\* Foreground keeps it.
LEMMA ForegroundKeeps ==
    ASSUME SInv, Foreground
    PROVE  SInv'
  <1>. USE DEF stores, images
  <1>0. Proc = {"page", "recovery"} /\ None.stage = "none" /\ None \in Sessions
    BY NoSession DEF Proc
  <1>1. /\ proc["recovery"].at = "idle" /\ owner /\ prefs # None
        /\ Queue("recovery", "recover", None)
        /\ UNCHANGED <<owner, flaky, page, stores, images, accepted, trouble>>
    BY DEF Foreground
  <1>2. page' \in Pages
    BY <1>1 DEF SInv, Calls, CallsTypeOK
  <1>3. /\ Calls' /\ proc'["recovery"] = Begun("recover", None)
        /\ \A q \in Proc : q # "recovery" => proc'[q] = proc[q]
    BY <1>0, <1>1, <1>2, CallQueues DEF SInv
  <1>4. /\ proc'["recovery"].op = "recover" /\ proc'["recovery"].at = "load"
        /\ proc'["recovery"].snap = None /\ proc'["recovery"].work = None
    BY <1>0, <1>3, Beginnings
  <1>5. StoresTypeOK'
    BY <1>0, <1>1, <1>2, <1>3, <1>4 DEF SInv, StoresTypeOK
  <1>6. Agreement'
    BY <1>0, <1>1, <1>2, <1>3, <1>4 DEF SInv, Agreement, StagesMean, WorkMeans,
       DraftIsUntouched, PageAgrees, Unsaved, CopiesFirst, SavedIsRecoverable, MappedHasFile
  <1>. QED BY <1>3, <1>5, <1>6 DEF SInv, Agreement

\* Edit keeps it.
LEMMA EditKeeps ==
    ASSUME SInv, Edit
    PROVE  SInv'
  <1>. USE DEF stores, images
  <1>0. Proc = {"page", "recovery"} /\ None.stage = "none" /\ None \in Sessions
    BY NoSession DEF Proc
  <1>1. /\ page.at = "idle" /\ ~page.doubt /\ page.shown.stage = "draft"
        /\ page.shown.ver < MaxEdits + 1
        /\ page' = [page EXCEPT !.shown.ver = @ + 1] /\ mem' = page'.shown
        /\ UNCHANGED <<owner, flaky, prefs, disk, images, accepted, lane, proc, trouble>>
    BY DEF Edit, CanEdit, Idle
  <1>2. page \in Pages /\ page.shown \in Sessions /\ page.shown # None
    BY <1>0, <1>1 DEF SInv, Calls, CallsTypeOK, Pages
  <1>3. page.shown \in [stage : StageOf, ver : Version] /\ page.shown.ver \in Version
    BY <1>2 DEF Sessions
  <1>4. page.shown.ver + 1 \in Version
    BY <1>1, <1>3, SaveBoundsAssumption DEF Version
  <1>. DEFINE next == [page.shown EXCEPT !.ver = @ + 1]
  <1>5. next \in Sessions /\ next.stage = "draft"
    BY <1>1, <1>3, <1>4 DEF Sessions
  <1>6. page' = [page EXCEPT !.shown = next]
    BY <1>1, <1>2 DEF Pages
  <1>. HIDE DEF next
  <1>7. /\ page' \in Pages /\ page'.at = "idle" /\ page'.doubt = page.doubt
        /\ page'.shown = next /\ mem' = next
    BY <1>1, <1>2, <1>5, <1>6 DEF Pages
  <1>8. Calls'
    BY <1>1, <1>7 DEF SInv, Calls, CallsTypeOK, OneByOne
  <1>9. Unsaved
    BY <1>1 DEF SInv, Agreement, PageAgrees
  <1>10. StoresTypeOK'
    BY <1>0, <1>1, <1>5, <1>7, <1>9 DEF SInv, StoresTypeOK
  <1>11. Agreement'
    BY <1>0, <1>1, <1>5, <1>7, <1>9 DEF SInv, Agreement, StagesMean, WorkMeans,
       DraftIsUntouched, Unsaved, PageAgrees, CopiesFirst, SavedIsRecoverable, MappedHasFile
  <1>. QED BY <1>8, <1>10, <1>11 DEF SInv, Agreement

\* LeavePage keeps it.
LEMMA LeavePageKeeps ==
    ASSUME SInv, LeavePage
    PROVE  SInv'
  <1>. USE DEF stores, images
  <1>1. /\ page.at = "idle" /\ page' = [page EXCEPT !.at = "closed"]
        /\ UNCHANGED <<owner, flaky, stores, images, accepted, lane, proc, trouble>>
    BY DEF LeavePage, Idle
  <1>2. page' \in Pages /\ page'.at = "closed" /\ page'.shown = page.shown
        /\ page'.doubt = page.doubt
    BY <1>1 DEF SInv, Calls, CallsTypeOK, Pages
  <1>3. Calls'
    BY <1>1, <1>2 DEF SInv, Calls, CallsTypeOK, OneByOne
  <1>4. StoresTypeOK'
    BY <1>1, <1>2 DEF SInv, StoresTypeOK
  <1>5. Agreement'
    BY <1>1, <1>2 DEF SInv, Agreement, StagesMean, WorkMeans, DraftIsUntouched, PageAgrees,
       Unsaved, CopiesFirst, SavedIsRecoverable, MappedHasFile
  <1>. QED BY <1>3, <1>4, <1>5 DEF SInv, Agreement

\* Crash keeps it.
LEMMA CrashKeeps ==
    ASSUME SInv, Crash
    PROVE  SInv'
  <1>. USE DEF stores, images
  <1>0. Proc = {"page", "recovery"} /\ None.stage = "none" /\ None \in Sessions
    BY NoSession DEF Proc
  <1>1. /\ page' = [page EXCEPT !.at = "gone"] /\ mem' = None /\ prefs' = disk
        /\ lane' = <<>> /\ proc' = [p \in Proc |-> Work]
        /\ trouble > 0 /\ trouble' = trouble - 1
        /\ UNCHANGED <<owner, flaky, disk, images, accepted>>
    BY DEF Crash, Trouble
  <1>2. page' \in Pages /\ page'.at = "gone" /\ page'.shown = page.shown
    BY <1>1 DEF SInv, Calls, CallsTypeOK, Pages
  <1>3. \A p \in Proc : proc'[p] = Work
    BY <1>1
  <1>4. /\ Work.op = "none" /\ Work.at = "idle" /\ Work.snap = None /\ Work.work = None
        /\ Work \in Works
    BY NoWork
  <1>5. \A p \in Proc : CallOK(p, proc'[p], lane')
    BY <1>0, <1>1, <1>3, <1>4 DEF CallOK, Queued, First
  <1>6. Calls'
    BY <1>0, <1>1, <1>2, <1>3, <1>4, <1>5 DEF Calls, CallsTypeOK, OneByOne, Lanes
  <1>7. StoresTypeOK'
    BY <1>0, <1>1, <1>2, <1>3, <1>4 DEF SInv, StoresTypeOK
  <1>8. StagesMean'
    BY <1>0, <1>1, <1>2, <1>3, <1>4 DEF SInv, Agreement, StagesMean, WorkMeans
  <1>9. DraftIsUntouched' /\ PageAgrees'
    BY <1>0, <1>1, <1>2, <1>3, <1>4 DEF SInv, Agreement, DraftIsUntouched, PageAgrees, Unsaved
  <1>10. CopiesFirst' /\ MappedHasFile'
    BY <1>0, <1>1, <1>2, <1>3, <1>4 DEF SInv, Agreement, CopiesFirst, MappedHasFile
  <1>11. SavedIsRecoverable'
    BY <1>1 DEF SInv, Agreement, SavedIsRecoverable
  <1>. QED BY <1>6, <1>7, <1>8, <1>9, <1>10, <1>11 DEF SInv, Agreement

\* SwitchAccount keeps it.
LEMMA SwitchAccountKeeps ==
    ASSUME SInv, SwitchAccount
    PROVE  SInv'
  <1>. USE DEF stores, images
  <1>1. /\ owner' = ~owner
        /\ UNCHANGED <<flaky, page, stores, images, accepted, lane, proc, trouble>>
    BY DEF SwitchAccount
  <1>2. Calls'
    BY <1>1 DEF SInv, Calls, CallsTypeOK, OneByOne
  <1>3. StoresTypeOK'
    BY <1>1 DEF SInv, StoresTypeOK
  <1>4. Agreement'
    BY <1>1 DEF SInv, Agreement, StagesMean, WorkMeans, DraftIsUntouched, PageAgrees, Unsaved,
       CopiesFirst, SavedIsRecoverable, MappedHasFile
  <1>. QED BY <1>2, <1>3, <1>4 DEF SInv, Agreement

-----------------------------------------------------------------------------
\* It holds at the start ...
LEMMA InitOK == SaveInit => SInv
  <1>. SUFFICES ASSUME SaveInit PROVE SInv
    OBVIOUS
  <1>. USE DEF SaveInit
  <1>1. Proc = {"page", "recovery"} /\ None.stage = "none" /\ None \in Sessions
    BY NoSession DEF Proc
  <1>2. /\ Work.op = "none" /\ Work.at = "idle" /\ Work.snap = None /\ Work.work = None
        /\ Work \in Works
    BY NoWork
  <1>3. 1 \in Version
    BY SaveBoundsAssumption DEF Version
  <1>4. mem \in Sessions /\ mem.stage = "draft"
    BY <1>3, Stages DEF StageOf
  <1>5. StoresTypeOK
    BY <1>1, <1>4, SaveBoundsAssumption DEF StoresTypeOK
  <1>6. \A p \in Proc : proc[p] = Work
    OBVIOUS
  <1>7. page \in Pages /\ page.at = "closed" /\ page.shown = None
    BY <1>1 DEF Pages
  <1>8. \A p \in Proc : CallOK(p, proc[p], lane)
    BY <1>1, <1>2, <1>6 DEF CallOK, Queued, First
  <1>9. Calls
    BY <1>1, <1>2, <1>6, <1>7, <1>8 DEF Calls, CallsTypeOK, OneByOne, Lanes
  <1>10. StagesMean /\ DraftIsUntouched /\ PageAgrees /\ CopiesFirst
    BY <1>1, <1>2, <1>4, <1>6, <1>7
       DEF StagesMean, WorkMeans, DraftIsUntouched, PageAgrees, CopiesFirst
  <1>11. SavedIsRecoverable /\ MappedHasFile
    BY DEF SavedIsRecoverable, MappedHasFile
  <1>. QED BY <1>5, <1>9, <1>10, <1>11 DEF SInv, Agreement

\* ... and after every step.
LEMMA NextOK == SInv /\ [SaveNext]_saveVars => SInv'
  <1>. SUFFICES ASSUME SInv, [SaveNext]_saveVars PROVE SInv'
    OBVIOUS
  <1>1. CASE UNCHANGED saveVars
    <2>1. StoresTypeOK' /\ Calls'
      BY <1>1 DEF saveVars, SInv, StoresTypeOK, Calls, CallsTypeOK, OneByOne
    <2>2. StagesMean' /\ DraftIsUntouched' /\ PageAgrees' /\ CopiesFirst'
      BY <1>1 DEF saveVars, SInv, Agreement, StagesMean, WorkMeans, DraftIsUntouched,
                  PageAgrees, Unsaved, CopiesFirst
    <2>3. SavedIsRecoverable' /\ MappedHasFile'
      BY <1>1 DEF saveVars, SInv, Agreement, SavedIsRecoverable, MappedHasFile
    <2>. QED BY <2>1, <2>2, <2>3 DEF SInv, Agreement
  <1>2. CASE \/ Load \/ Edit \/ Save \/ SaveRefused \/ Abandon \/ LeavePage \/ Foreground
             \/ Crash \/ SwitchAccount
    BY <1>2, LoadKeeps, EditKeeps, SaveKeeps, SaveRefusedKeeps, AbandonKeeps, LeavePageKeeps,
       ForegroundKeeps, CrashKeeps, SwitchAccountKeeps
  <1>3. ASSUME NEW p \in Proc, LaneStep(p) PROVE SInv'
    BY <1>3, RestoreKeeps, RecoverKeeps, BeginKeeps, KeepKeeps, NoteKeeps, PushKeeps, CopyKeeps,
       MapKeeps, AgainKeeps, CleanKeeps, ForgetKeeps, DoneKeeps, BeginAbandonKeeps,
       EmptyCacheKeeps, DropKeeps DEF LaneStep
  <1>4. ASSUME NEW p \in Proc, Fault(p) PROVE SInv'
    BY <1>4, FaultKeeps
  <1>. QED BY <1>1, <1>2, <1>3, <1>4 DEF SaveNext

\* The inductive invariant holds in every reachable state.
THEOREM InductiveInvariant == SaveSpec => []SInv
  BY InitOK, NextOK, PTL DEF SaveSpec

\* EditableIsUnsaved: a page that lets the user edit or abandon a draft has no
\* checkpoint behind it and no version on the server (PdfImportReviewPage.canEdit).
THEOREM EditingIsSafe == SaveSpec => []EditableIsUnsaved
  <1>1. SInv => EditableIsUnsaved
    BY DEF SInv, Agreement, PageAgrees, Unsaved, DraftIsUntouched, EditableIsUnsaved, CanEdit,
           Idle
  <1>. QED BY <1>1, InductiveInvariant, PTL

\* SavedIsRecoverable: once the server has the text, the images are mapped or the
\* cache and the checkpoint that lead to them are kept (saveLifecycleExclusive).
THEOREM ImagesAreReachable == SaveSpec => []SavedIsRecoverable
  <1>1. SInv => SavedIsRecoverable
    BY DEF SInv, Agreement
  <1>. QED BY <1>1, InductiveInvariant, PTL

\* MappedHasFile: a row of device_question_image leads to a file, whatever the
\* outcome of saveBatch (shouldCleanupPreparedFinals).
THEOREM RowsHaveFiles == SaveSpec => []MappedHasFile
  <1>1. SInv => MappedHasFile
    BY DEF SInv, Agreement
  <1>. QED BY <1>1, InductiveInvariant, PTL
=============================================================================
