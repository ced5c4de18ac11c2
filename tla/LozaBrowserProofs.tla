--------------------------- MODULE LozaBrowserProofs ---------------------------
(***************************************************************************)
(* What holds of the file browser, for any account, names, gestures and    *)
(* bounds: the skeleton stands as long as the newest list request is on    *)
(* its way, the history leads along the folders that were open, the        *)
(* server is LozaTree's tree, and a quiet page shows what it has.          *)
(***************************************************************************)
EXTENDS LozaBrowser, LozaPathsProofs

\* A list request has these fields, whatever their values.
Whole(l) ==
  l \in [path: {l.path}, latest: {l.latest}, err: {l.err}, answer: {l.answer}, bad: {l.bad}]

ViewType ==
  [path: {view.path}, files: {view.files}, loading: BOOLEAN, error: {view.error}]

\* One request is the newest, as long as the page loads.
LoadsOk(ls, loading) ==
  /\ \A l \in ls : Whole(l)
  /\ loading <=> \E l \in ls : l.latest
  /\ \A l, m \in ls : l.latest /\ m.latest => l = m

\* The history leads to the open folder, and along different ones.
HistOk(h, path) ==
  /\ h \in [list: {h.list}, at: {h.at}]
  /\ \E S : h.list \in Seq(S)
  /\ h.at \in 1..Len(h.list)
  /\ h.list[h.at] = path
  /\ \A i \in 1..(Len(h.list) - 1) : h.list[i] # h.list[i + 1]

BrowserInv == view \in ViewType /\ LoadsOk(loads, view.loading) /\ HistOk(hist, view.path)

-----------------------------------------------------------------------------
(* Requests.                                                                *)

Request(path, err) ==
  [path |-> path, latest |-> TRUE, err |-> err, answer |-> None, bad |-> FALSE]

\* The newest request takes its place from the others.
LEMMA StartLoadKeeps ==
  ASSUME \A l \in loads : Whole(l), NEW path, NEW err, StartLoad(path, err)
  PROVE  LoadsOk(loads', TRUE)
<1> DEFINE Old(l) == [l EXCEPT !.latest = FALSE]
           r == Request(path, err)
<1>1. Whole(r) /\ r.latest
  BY DEF Whole, Request
<1>2. loads' = {Old(l) : l \in loads} \cup {r}
  BY DEF StartLoad, Outdated, Request
<1>3. \A l \in loads : Whole(Old(l)) /\ ~Old(l).latest
  BY DEF Whole
<1> HIDE DEF Old, r
<1>4. \A l \in loads' : l = r \/ \E k \in loads : l = Old(k)
  BY <1>2
<1>5. \A l \in loads' : Whole(l) /\ (l.latest => l = r)
  BY <1>1, <1>3, <1>4
<1>6. r \in loads'
  BY <1>2
<1> QED BY <1>1, <1>5, <1>6 DEF LoadsOk

\* A request gets its answer.
LEMMA LoadAnswered ==
  ASSUME NEW loading, LoadsOk(loads, loading), NEW l \in loads, NEW answer,
         \/ loads' = (loads \ {l}) \cup {[l EXCEPT !.answer = answer]}
         \/ loads' = (loads \ {l}) \cup {[l EXCEPT !.bad = TRUE]}
  PROVE  LoadsOk(loads', loading)
<1>1. PICK k : loads' = (loads \ {l}) \cup {k} /\ Whole(k) /\ k.latest = l.latest
  <2>1. Whole(l)
    BY DEF LoadsOk
  <2>2. /\ Whole([l EXCEPT !.answer = answer]) /\ [l EXCEPT !.answer = answer].latest = l.latest
        /\ Whole([l EXCEPT !.bad = TRUE]) /\ [l EXCEPT !.bad = TRUE].latest = l.latest
    BY <2>1 DEF Whole
  <2> QED BY <2>2
<1> QED BY <1>1 DEF LoadsOk

\* An answer arrives; loading ends with the newest one's.
LEMMA ListArrivesKeepsInv ==
  ASSUME BrowserInv, ListArrives
  PROVE  BrowserInv'
<1>1. PICK l \in loads :
        /\ loads' = loads \ {l}
        /\ view' = [view EXCEPT
             !.files   = IF Applies(l) /\ ~l.bad THEN l.answer ELSE @,
             !.error   = @ \/ l.err \/ (Applies(l) /\ l.bad),
             !.loading = @ /\ ~EndsLoading(l)]
  BY DEF ListArrives
<1>2. view \in ViewType /\ UNCHANGED hist
  BY DEF BrowserInv, ListArrives
<1>3. view' \in ViewType' /\ view'.path = view.path /\ view'.loading = (view.loading /\ ~l.latest)
  BY <1>1, <1>2 DEF ViewType, EndsLoading
<1>4. LoadsOk(loads', view'.loading)
  BY <1>1, <1>3 DEF BrowserInv, LoadsOk
<1> QED BY <1>2, <1>3, <1>4 DEF BrowserInv

\* A request starts for a reason that leaves the folder open.
LEMMA ReloadKeepsInv ==
  ASSUME BrowserInv, NEW path, NEW err, StartLoad(path, err), UNCHANGED hist,
         view' = [view EXCEPT !.loading = TRUE, !.error = FALSE]
  PROVE  BrowserInv'
<1>1. view \in ViewType /\ \A l \in loads : Whole(l)
  BY DEF BrowserInv, LoadsOk
<1>2. view' \in ViewType' /\ view'.path = view.path /\ view'.loading = TRUE
  BY <1>1 DEF ViewType
<1>3. LoadsOk(loads', TRUE)
  BY <1>1, StartLoadKeeps
<1> QED BY <1>2, <1>3 DEF BrowserInv

\* Another folder is opened, or the same one.
LEMMA NavigateLoads ==
  ASSUME BrowserInv, NEW path, Navigate(path)
  PROVE  view' \in ViewType' /\ view'.path = path /\ LoadsOk(loads', view'.loading)
<1>1. view \in ViewType /\ LoadsOk(loads, view.loading)
  BY DEF BrowserInv
<1>2. CASE path = view.path
  <2>1. UNCHANGED <<view, loads>>
    BY <1>2 DEF Navigate
  <2> QED BY <1>1, <1>2, <2>1 DEF ViewType
<1>3. CASE path # view.path
  <2>1. StartLoad(path, FALSE)
        /\ view' = [view EXCEPT !.path = path, !.loading = TRUE, !.error = FALSE]
    BY <1>3 DEF Navigate
  <2>2. view' \in ViewType' /\ view'.path = path /\ view'.loading = TRUE
    BY <1>1, <2>1 DEF ViewType
  <2>3. LoadsOk(loads', TRUE)
    BY <1>1, <2>1, StartLoadKeeps DEF LoadsOk
  <2> QED BY <2>2, <2>3
<1> QED BY <1>2, <1>3

-----------------------------------------------------------------------------
(* The history.                                                             *)

\* What was ahead of the open folder goes, and the new one is put there.
LEMMA PushedOk ==
  ASSUME HistOk(hist, view.path), NEW path, path # view.path
  PROVE  HistOk(Pushed(path), path)
<1> DEFINE n == hist.at
           kept == SubSeq(hist.list, 1, n)
           list == Append(kept, path)
<1>1. PICK S : hist.list \in Seq(S)
  BY DEF HistOk
<1>2. n \in 1..Len(hist.list) /\ Len(hist.list) \in Nat
  BY <1>1 DEF HistOk
<1>3. kept \in Seq(S) /\ Len(kept) = n /\ \A i \in 1..n : kept[i] = hist.list[i]
  BY <1>1, <1>2
<1> HIDE DEF kept
<1>4. kept \in Seq(S \cup {path})
  BY <1>3
<1>5. /\ list \in Seq(S \cup {path}) /\ Len(list) = n + 1 /\ list[n + 1] = path
      /\ \A i \in 1..n : list[i] = kept[i]
  BY <1>2, <1>3, <1>4
<1>6. Pushed(path) = [list |-> list, at |-> n + 1]
  BY DEF Pushed, kept
<1> HIDE DEF list
<1>7. \A i \in 1..(Len(list) - 1) : list[i] # list[i + 1]
  <2> SUFFICES ASSUME NEW i \in 1..n
               PROVE  list[i] # list[i + 1]
    BY <1>2, <1>5
  <2>1. CASE i = n
    BY <1>2, <1>3, <1>5, <2>1 DEF HistOk
  <2>2. CASE i # n
    <3>1. i \in 1..(Len(hist.list) - 1) /\ i + 1 \in 1..n
      BY <1>2, <2>2
    <3> QED BY <1>3, <1>5, <3>1 DEF HistOk
  <2> QED BY <2>1, <2>2
<1> DEFINE h == Pushed(path)
<1>8. h \in [list: {h.list}, at: {h.at}] /\ h.list = list /\ h.at = n + 1
  BY <1>6
<1> HIDE DEF h
<1>9. HistOk(h, path)
  BY <1>2, <1>5, <1>7, <1>8 DEF HistOk
<1> QED BY <1>9 DEF h

LEMMA GoToKeepsInv ==
  ASSUME BrowserInv, NEW path, GoTo(path)
  PROVE  BrowserInv'
<1>1. Navigate(path) /\ hist' = IF path = view.path THEN hist ELSE Pushed(path)
  BY DEF GoTo
<1>2. HistOk(hist, view.path)
  BY DEF BrowserInv
<1>3. HistOk(hist', path)
  BY <1>1, <1>2, PushedOk
<1>4. view' \in ViewType' /\ view'.path = path /\ LoadsOk(loads', view'.loading)
  BY <1>1, NavigateLoads
<1> QED BY <1>3, <1>4 DEF BrowserInv

LEMMA StepKeepsInv ==
  ASSUME BrowserInv, NEW to \in 1..Len(hist.list), Step(to)
  PROVE  BrowserInv'
<1>1. Navigate(hist.list[to]) /\ hist' = [hist EXCEPT !.at = to]
  BY DEF Step
<1>2. HistOk(hist, view.path)
  BY DEF BrowserInv
<1>3. hist' \in [list: {hist'.list}, at: {hist'.at}] /\ hist'.list = hist.list /\ hist'.at = to
  BY <1>1, <1>2 DEF HistOk
<1>4. HistOk(hist', hist.list[to])
  BY <1>2, <1>3 DEF HistOk
<1>5. view' \in ViewType' /\ view'.path = hist.list[to] /\ LoadsOk(loads', view'.loading)
  BY <1>1, NavigateLoads
<1> QED BY <1>4, <1>5 DEF BrowserInv

-----------------------------------------------------------------------------
(* The steps.                                                               *)

LEMMA NavigationKeepsInv ==
  ASSUME BrowserInv, DoubleClick \/ MenuOpen \/ Crumb \/ GoBack \/ GoForward
  PROVE  BrowserInv'
<1>1. CASE DoubleClick \/ MenuOpen
  <2>1. PICK n : Open(n)
    BY <1>1 DEF DoubleClick, MenuOpen
  <2>2. CASE n.dir
    BY <2>1, <2>2, GoToKeepsInv DEF Open
  <2>3. CASE ~n.dir
    <3>1. UNCHANGED <<view, loads, hist>>
      BY <2>1, <2>3 DEF Open, net
    <3> QED BY <3>1 DEF BrowserInv, ViewType
  <2> QED BY <2>2, <2>3
<1>2. CASE Crumb
  <2>1. \E path : GoTo(path)
    BY <1>2 DEF Crumb
  <2> QED BY <2>1, GoToKeepsInv
<1>3. CASE GoBack \/ GoForward
  <2>1. Len(hist.list) \in Nat /\ hist.at \in 1..Len(hist.list)
    <3>1. PICK S : hist.list \in Seq(S)
      BY DEF BrowserInv, HistOk
    <3> QED BY <3>1 DEF BrowserInv, HistOk
  <2>2. PICK to \in 1..Len(hist.list) : Step(to)
    BY <1>3, <2>1 DEF GoBack, GoForward
  <2> QED BY <2>2, StepKeepsInv
<1> QED BY <1>1, <1>2, <1>3

\* Whatever asks for the open folder again, or for the one a call was made in.
LEMMA ReloadsKeepInv ==
  ASSUME BrowserInv,
         PushTimer \/ Refresh \/ ShareClosed \/ PreviewEdited \/ CallReturns
  PROVE  BrowserInv'
<1>1. UNCHANGED hist
  BY DEF PushTimer, Refresh, ShareClosed, PreviewEdited, CallReturns
<1>2. CASE PushTimer \/ Refresh \/ ShareClosed \/ PreviewEdited
  <2>1. StartLoad(view.path, FALSE) /\ view' = [view EXCEPT !.loading = TRUE, !.error = FALSE]
    BY <1>2 DEF PushTimer, Refresh, ShareClosed, PreviewEdited, Reload
  <2> QED BY <1>1, <2>1, ReloadKeepsInv
<1>3. CASE CallReturns
  <2>1. PICK o \in ops :
          \/ view' = [view EXCEPT !.error = TRUE] /\ UNCHANGED loads
          \/ /\ StartLoad(o.from, o.missed /\ o.op \in {"delete", "move", "copy", "uploadPaths"})
             /\ view' = [view EXCEPT !.loading = TRUE, !.error = FALSE]
    BY <1>3 DEF CallReturns
  <2>2. CASE view' = [view EXCEPT !.error = TRUE] /\ UNCHANGED loads
    <3>1. view \in ViewType
      BY DEF BrowserInv
    <3>2. view' \in ViewType' /\ view'.path = view.path /\ view'.loading = view.loading
      BY <2>2, <3>1 DEF ViewType
    <3> QED BY <1>1, <2>2, <3>2 DEF BrowserInv
  <2> QED BY <1>1, <2>1, <2>2, ReloadKeepsInv
<1> QED BY <1>2, <1>3

LEMMA AnswersKeepInv ==
  ASSUME BrowserInv, ListAnswered \/ ListFails
  PROVE  BrowserInv'
<1>1. UNCHANGED <<view, hist>>
  BY DEF ListAnswered, ListFails
<1>2. PICK l \in loads : \E answer :
        \/ loads' = (loads \ {l}) \cup {[l EXCEPT !.answer = answer]}
        \/ loads' = (loads \ {l}) \cup {[l EXCEPT !.bad = TRUE]}
  BY DEF ListAnswered, ListFails
<1>3. LoadsOk(loads', view.loading)
  BY <1>2, LoadAnswered DEF BrowserInv
<1> QED BY <1>1, <1>3 DEF BrowserInv, ViewType

\* Everything else leaves the folder, its requests and the history alone.
LEMMA OthersKeepInv ==
  ASSUME BrowserInv, UNCHANGED <<view, loads, hist>>
  PROVE  BrowserInv'
  BY DEF BrowserInv, ViewType

LEMMA NextKeepsInv ==
  ASSUME BrowserInv, [BrowserNext]_bvars
  PROVE  BrowserInv'
<1>1. CASE DoubleClick \/ MenuOpen \/ Crumb \/ GoBack \/ GoForward
  BY <1>1, NavigationKeepsInv
<1>2. CASE PushTimer \/ Refresh \/ ShareClosed \/ PreviewEdited \/ CallReturns
  BY <1>2, ReloadsKeepInv
<1>3. CASE ListAnswered \/ ListFails
  BY <1>3, AnswersKeepInv
<1>4. CASE ListArrives
  BY <1>4, ListArrivesKeepsInv
<1>5. CASE Type \/ SearchRetry \/ Pick \/ PickAll \/ Cut \/ Copy \/ Delete \/ Paste \/ Upload
             \/ ConfirmInput \/ ConfirmRename \/ UNCHANGED bvars
  <2>1. UNCHANGED <<view, loads, hist>>
    BY <1>5 DEF Type, SearchRetry, Pick, PickAll, Picks, Cut, Copy, PutInClipboard, Delete,
                Paste, Upload, Call, ConfirmInput, ConfirmRename, net, bvars
  <2> QED BY <2>1, OthersKeepInv
<1>6. CASE ContextMenu \/ MenuRename \/ MenuShare \/ NewMenu \/ NewItem \/ Dismiss
             \/ PreviewShare \/ Escape
  <2>1. UNCHANGED <<view, loads, hist>>
    BY <1>6 DEF ContextMenu, MenuRename, MenuShare, NewMenu, NewItem, Dismiss, PreviewShare,
                Escape, Window, net
  <2> QED BY <2>1, OthersKeepInv
<1>7. CASE Serve \/ ServeFails \/ OtherClient \/ PushArrives \/ PushLost \/ SearchTimer
             \/ SearchAnswered \/ SearchFails \/ SearchArrives
  <2>1. UNCHANGED <<view, loads, hist>>
    BY <1>7 DEF Serve, ServeFails, OtherClient, PushArrives, PushLost, SearchTimer,
                SearchAnswered, SearchFails, SearchArrives, net
  <2> QED BY <2>1, OthersKeepInv
<1> QED BY <1>1, <1>2, <1>3, <1>4, <1>5, <1>6, <1>7 DEF BrowserNext, UserNext, WorldNext

LEMMA InitHasInv ==
  ASSUME BrowserInit
  PROVE  BrowserInv
<1>1. view = [path |-> <<>>, files |-> {}, loading |-> TRUE, error |-> FALSE]
  BY DEF BrowserInit
<1>2. view \in ViewType /\ view.path = <<>> /\ view.loading = TRUE
  BY <1>1 DEF ViewType
<1> DEFINE r == Request(<<>>, FALSE)
<1>3. loads = {r}
  BY DEF BrowserInit, Request
<1>4. Whole(r) /\ r.latest
  BY DEF Request, Whole
<1> HIDE DEF r
<1>5. LoadsOk(loads, view.loading)
  BY <1>2, <1>3, <1>4 DEF LoadsOk
<1>6. HistOk(hist, <<>>)
  <2>1. hist = [list |-> << <<>> >>, at |-> 1]
    BY DEF BrowserInit
  <2> DEFINE list == << <<>> >>
  <2>2. list \in Seq({<<>>}) /\ Len(list) = 1 /\ list[1] = <<>>
    OBVIOUS
  <2>3. hist.list = list /\ hist.at = 1 /\ hist \in [list: {hist.list}, at: {hist.at}]
    BY <2>1
  <2> HIDE DEF list
  <2>4. \E S : hist.list \in Seq(S)
    BY <2>2, <2>3
  <2>5. 1..(Len(list) - 1) = {}
    BY <2>2
  <2>6. hist.at \in 1..Len(hist.list) /\ hist.list[hist.at] = <<>>
    BY <2>2, <2>3
  <2>7. \A i \in 1..(Len(hist.list) - 1) : hist.list[i] # hist.list[i + 1]
    BY <2>3, <2>5
  <2> QED BY <2>3, <2>4, <2>6, <2>7 DEF HistOk
<1> QED BY <1>2, <1>5, <1>6 DEF BrowserInv

LEMMA InvHolds ==
  BrowserSpec => []BrowserInv
<1>1. BrowserInit => BrowserInv
  BY InitHasInv
<1>2. BrowserInv /\ [BrowserNext]_bvars => BrowserInv'
  BY NextKeepsInv
<1> QED BY <1>1, <1>2, PTL DEF BrowserSpec

-----------------------------------------------------------------------------
(* The theorems.                                                            *)

\* The page loads exactly as long as one newest list request is on its way, in
\* whatever order the answers of older ones come: the skeleton neither stays
\* nor goes early (loadFiles in LozaTab.tsx).
THEOREM SkeletonTracksLatest ==
  BrowserSpec => []LoadingTracksLatest
<1>1. BrowserInv => LoadingTracksLatest
  BY DEF BrowserInv, LoadsOk, LoadingTracksLatest
<1> QED BY <1>1, InvHolds, PTL

\* The history's current entry is always the open folder, and no step back or
\* forward leads to the folder one is in (handleNavigate in LozaTab.tsx).
THEOREM HistoryLeadsHere ==
  BrowserSpec => []HistoryHere
<1>1. BrowserInv => HistoryHere
  BY DEF BrowserInv, HistOk, HistoryHere
<1> QED BY <1>1, InvHolds, PTL
-----------------------------------------------------------------------------
(* The server's tree.                                                       *)

Folder == Seq(Name)
Node == [id: [at: Nat, born: Path], path: Path, dir: BOOLEAN]

\* Paths and ids name one node, and every node lives in directories.
TreeOk(t) ==
  /\ t \subseteq Node
  /\ \A m, n \in t : (m.path = n.path \/ m.id = n.id) => m = n
  /\ \A n \in t : \A q \in Ancestors(n.path) : \E d \in t : d.path = q /\ d.dir

ServerInv == stamp \in Nat /\ TreeOk(tree) /\ \A n \in tree : n.id.at < stamp

\* A tree the next change may leave.
Follows(t) == TreeOk(t) /\ \A n \in t : n.id.at < stamp + 1

LEMMA Nodes ==
  ASSUME NEW t, TreeOk(t), NEW n \in t
  PROVE  n.path \in Folder /\ n.path # <<>> /\ n.dir \in BOOLEAN
BY DEF TreeOk, Node, Path, Folder

\* In a tree, what is above a node is a directory.
LEMMA AboveIsDir ==
  ASSUME NEW t, TreeOk(t), NEW n \in t, NEW q \in Folder, q # <<>>, Under(q, n.path)
  PROVE  \E d \in t : d.path = q /\ d.dir
<1>1. q \in Ancestors(n.path)
  BY Nodes, AncestorsAbove DEF Folder
<1> QED BY <1>1 DEF TreeOk

\* What is cut off a tree below a path leaves a tree.
LEMMA KeptClosed ==
  ASSUME ServerInv, NEW p \in Folder, NEW n \in tree \ Below(p), NEW d \in tree,
         Under(d.path, n.path)
  PROVE  d \in tree \ Below(p)
<1>1. n.path \in Folder /\ d.path \in Folder
  BY Nodes DEF ServerInv
<1>2. AtOrUnder(p, d.path) => AtOrUnder(p, n.path)
  BY <1>1, UnderTrans DEF AtOrUnder, Folder
<1> QED BY <1>2 DEF Below

LEMMA RemovedFollows ==
  ASSUME ServerInv, NEW p \in Folder, NEW t \in Removed(p)
  PROVE  Follows(t)
<1>1. t = tree \ Below(p)
  BY DEF Removed
<1>2. ASSUME NEW n \in t, NEW q \in Ancestors(n.path)
      PROVE  \E d \in t : d.path = q /\ d.dir
  <2>1. Under(q, n.path)
    BY <1>1, Nodes, AncestorsArePaths DEF Folder, ServerInv
  <2>2. PICK d \in tree : d.path = q /\ d.dir
    BY <1>1 DEF ServerInv, TreeOk
  <2> QED BY <1>1, <2>1, <2>2, KeptClosed
<1>3. TreeOk(t)
  BY <1>1, <1>2 DEF ServerInv, TreeOk
<1>4. ASSUME NEW n \in t PROVE n.id.at < stamp + 1
  BY <1>1 DEF ServerInv, TreeOk, Node
<1> QED BY <1>3, <1>4 DEF Follows

LEMMA NewNodeIs ==
  ASSUME ServerInv, NEW p \in Path, NEW dir \in BOOLEAN
  PROVE  /\ NewNode(p, dir) \in Node
         /\ NewNode(p, dir).path = p /\ NewNode(p, dir).dir = dir
         /\ NewNode(p, dir).id.at = stamp /\ NewNode(p, dir).id.born = p
BY DEF NewNode, Node, ServerInv

\* The directories a new node needs: those that are missing on the way to it.
LEMMA NewDirsAre ==
  ASSUME ServerInv, NEW q \in Path
  PROVE  /\ \A d \in NewDirs(q) : /\ d \in Node /\ d.dir /\ d.path \in Ancestors(q)
                                  /\ At(d.path) = {} /\ d = NewNode(d.path, TRUE)
                                  /\ d.id.at = stamp /\ d.id.born = d.path
         /\ \A a \in Ancestors(q) : At(a) = {} => NewNode(a, TRUE) \in NewDirs(q)
<1>1. ASSUME NEW a \in Ancestors(q) PROVE a \in Path
  BY AncestorsArePaths DEF Path
<1>2. \A d \in NewDirs(q) : \E a \in Ancestors(q) : At(a) = {} /\ d = NewNode(a, TRUE)
  BY DEF NewDirs
<1>3. \A a \in Ancestors(q) : At(a) = {} => NewNode(a, TRUE) \in NewDirs(q)
  BY DEF NewDirs
<1>4. ASSUME NEW d \in NewDirs(q)
      PROVE  /\ d \in Node /\ d.dir /\ d.path \in Ancestors(q)
             /\ At(d.path) = {} /\ d = NewNode(d.path, TRUE)
             /\ d.id.at = stamp /\ d.id.born = d.path
  <2>1. PICK a \in Ancestors(q) : At(a) = {} /\ d = NewNode(a, TRUE)
    BY <1>2
  <2> QED BY <1>1, <2>1, NewNodeIs
<1> QED BY <1>3, <1>4
\* A subtree G grows at q, with the directories it needs, on what is kept.
LEMMA Grown ==
  ASSUME ServerInv, NEW q \in Path, Room(q), NEW keep \in SUBSET tree, NEW G \in SUBSET Node,
         \A n \in keep, d \in tree : Under(d.path, n.path) => d \in keep,
         \A d \in tree : Under(d.path, q) => d \in keep,
         \A g, h \in G : (g.path = h.path \/ g.id = h.id) => g = h,
         \A g \in G, n \in keep \cup NewDirs(q) : g.id # n.id,
         \A g \in G : AtOrUnder(q, g.path) /\ g.id.at < stamp + 1,
         \A g \in G : \A a \in Ancestors(g.path) :
           AtOrUnder(q, a) => \E d \in G : d.path = a /\ d.dir
  PROVE  Follows(keep \cup NewDirs(q) \cup G)
<1> DEFINE dirs == NewDirs(q)
           t == keep \cup dirs \cup G
<1>1. q \in Folder /\ q # <<>>
  BY DEF Path, Folder
<1>2. /\ \A d \in dirs : /\ d \in Node /\ d.dir /\ d.path \in Ancestors(q) /\ At(d.path) = {}
                         /\ d = NewNode(d.path, TRUE) /\ d.id.at = stamp /\ d.id.born = d.path
      /\ \A a \in Ancestors(q) : At(a) = {} => NewNode(a, TRUE) \in dirs
  BY NewDirsAre
<1>3. ASSUME NEW a \in Ancestors(q) PROVE a \in Path /\ a \in Folder /\ Under(a, q)
  BY AncestorsArePaths DEF Path, Folder
<1>4. ASSUME NEW n \in tree PROVE ~AtOrUnder(q, n.path)
  <2>1. ~\E d \in tree : d.path = q
    BY DEF Room, At
  <2> QED BY <1>1, <2>1, AboveIsDir DEF AtOrUnder, ServerInv
<1>5. ASSUME NEW a \in Ancestors(q) PROVE ~AtOrUnder(q, a)
  BY <1>1, <1>3, UnderIrreflexive DEF Folder
<1> HIDE DEF dirs
<1>6. ASSUME NEW a \in Ancestors(q) PROVE \E d \in keep \cup dirs : d.path = a /\ d.dir
  <2>1. CASE At(a) = {}
    BY <1>2, <1>3, <2>1, NewNodeIs
  <2>2. CASE At(a) # {}
    <3>1. PICK d \in tree : d.path = a
      BY <2>2 DEF At
    <3> QED BY <1>3, <3>1 DEF Room
  <2> QED BY <2>1, <2>2
<1>7. t \subseteq Node
  BY <1>2 DEF ServerInv, TreeOk
<1>8. \A m, n \in t : m.path = n.path => m = n
  <2>1. \A m, n \in keep : m.path = n.path => m = n
    BY DEF ServerInv, TreeOk
  <2>2. \A m, n \in dirs : m.path = n.path => m = n
    BY <1>2
  <2>3. \A m \in keep, n \in dirs : m.path # n.path
    BY <1>2 DEF At
  <2>4. \A g \in G, n \in keep : g.path # n.path
    BY <1>4
  <2>5. \A g \in G, n \in dirs : g.path # n.path
    BY <1>2, <1>5
  <2> QED BY <2>1, <2>2, <2>3, <2>4, <2>5
<1>9. \A m, n \in t : m.id = n.id => m = n
  <2>1. \A m, n \in keep : m.id = n.id => m = n
    BY DEF ServerInv, TreeOk
  <2>2. ASSUME NEW m \in dirs, NEW n \in dirs, m.id = n.id PROVE m = n
    <3>1. m.id.born = n.id.born
      BY <2>2
    <3>2. /\ m.path = m.id.born /\ m = NewNode(m.path, TRUE)
          /\ n.path = n.id.born /\ n = NewNode(n.path, TRUE)
      BY <1>2
    <3>3. m.path = n.path
      BY <3>1, <3>2
    <3> QED BY <3>2, <3>3
  <2>3. ASSUME NEW m \in keep, NEW n \in dirs PROVE m.id # n.id
    <3>1. m.id.at \in Nat /\ m.id.at < stamp /\ stamp \in Nat
      BY DEF ServerInv, TreeOk, Node
    <3>2. n.id.at = stamp
      BY <1>2
    <3>3. m.id.at # n.id.at
      BY <3>1, <3>2
    <3> QED BY <3>3
  <2>4. \A g \in G, n \in keep \cup dirs : g.id # n.id
    BY DEF dirs
  <2> QED BY <2>1, <2>2, <2>3, <2>4
<1>10. ASSUME NEW n \in t, NEW a \in Ancestors(n.path) PROVE \E d \in t : d.path = a /\ d.dir
  <2>1. n.path \in Folder
    BY <1>7 DEF Node, Path, Folder
  <2>2. a \in Folder /\ a # <<>> /\ Under(a, n.path)
    BY <2>1, AncestorsArePaths DEF Folder
  <2>3. CASE n \in keep
    <3>1. PICK d \in tree : d.path = a /\ d.dir
      BY <2>3 DEF ServerInv, TreeOk
    <3> QED BY <2>2, <2>3, <3>1
  <2>4. CASE n \in dirs
    <3>1. Under(n.path, q)
      BY <1>2, <1>3, <2>4
    <3>2. Under(a, q)
      BY <1>1, <2>1, <2>2, <3>1, UnderTrans DEF Folder
    <3>3. a \in Ancestors(q)
      BY <1>1, <2>2, <3>2, AncestorsAbove DEF Folder
    <3> QED BY <1>6, <3>3
  <2>5. CASE n \in G
    <3>1. AtOrUnder(q, a) \/ Under(a, q)
      <4>1. AtOrUnder(q, n.path) /\ AtOrUnder(a, n.path)
        BY <2>2, <2>5 DEF AtOrUnder
      <4> QED BY <1>1, <2>1, <2>2, <4>1, UnderLinear DEF Folder
    <3>2. CASE AtOrUnder(q, a)
      BY <2>5, <3>2
    <3>3. CASE Under(a, q)
      <4>1. a \in Ancestors(q)
        BY <1>1, <2>2, <3>3, AncestorsAbove DEF Folder
      <4> QED BY <1>6, <4>1
    <3> QED BY <3>1, <3>2, <3>3
  <2> QED BY <2>3, <2>4, <2>5
<1>11. ASSUME NEW n \in t PROVE n.id.at < stamp + 1
  <2>1. stamp \in Nat
    BY DEF ServerInv
  <2>2. n \in keep => n.id.at < stamp /\ n.id.at \in Nat
    BY DEF ServerInv, TreeOk, Node
  <2>3. CASE n \in keep
    BY <2>1, <2>2, <2>3
  <2>4. CASE n \in dirs
    <3>1. n.id.at = stamp
      BY <1>2, <2>4
    <3> QED BY <2>1, <3>1
  <2>5. CASE n \in G
    BY <2>5
  <2> QED BY <2>3, <2>4, <2>5
<1>12. Follows(t)
  BY <1>7, <1>8, <1>9, <1>10, <1>11 DEF Follows, TreeOk
<1> QED BY <1>12 DEF dirs

LEMMA MadeFollows ==
  ASSUME ServerInv, NEW q \in Path, NEW dir \in BOOLEAN, NEW t \in Made(q, dir)
  PROVE  Follows(t)
<1> DEFINE G == {NewNode(q, dir)}
<1>1. Room(q) /\ t = tree \cup NewDirs(q) \cup G
  BY DEF Made
<1>2. \A g \in G : g \in Node /\ g.path = q /\ g.id.at = stamp /\ g.id.born = q
  BY NewNodeIs
<1>3. \A g, h \in G : g = h
  OBVIOUS
<1> HIDE DEF G
<1>4. \A g \in G : \A a \in Ancestors(g.path) : ~AtOrUnder(q, a)
  <2>1. \A a \in Ancestors(q) : ~AtOrUnder(q, a)
    BY AncestorsArePaths, UnderIrreflexive DEF Path
  <2> QED BY <1>2, <2>1
<1>5. \A d \in NewDirs(q) : d.id.born # q
  <2>1. \A d \in NewDirs(q) : d.path \in Ancestors(q) /\ d.id.born = d.path
    BY NewDirsAre
  <2>2. \A a \in Ancestors(q) : a # q
    BY AncestorsArePaths, UnderIrreflexive DEF Path
  <2> QED BY <2>1, <2>2
<1>6. \A g \in G, n \in tree \cup NewDirs(q) : g.id # n.id
  <2>1. \A n \in tree : n.id.at < stamp /\ n.id.at \in Nat
    BY DEF ServerInv, TreeOk, Node
  <2> QED BY <1>2, <1>5, <2>1
<1>7. \A g \in G : AtOrUnder(q, g.path) /\ g.id.at < stamp + 1
  BY <1>2 DEF AtOrUnder, ServerInv
<1>8. G \in SUBSET Node
  BY <1>2
<1>9. tree \in SUBSET tree
  OBVIOUS
<1> QED BY <1>1, <1>3, <1>4, <1>6, <1>7, <1>8, <1>9, Grown

LEMMA MovedFollows ==
  ASSUME ServerInv, NEW p \in Path, NEW q \in Path, NEW t \in Moved(p, q)
  PROVE  Follows(t)
<1> DEFINE M(n) == [n EXCEPT !.path = Rebase(@, p, q)]
           G == {M(n) : n \in Below(p)}
           keep == tree \ Below(p)
<1>1. Room(q) /\ ~AtOrUnder(p, q) /\ t = keep \cup NewDirs(q) \cup G
  BY DEF Moved
<1>2. p \in Folder /\ p # <<>> /\ q \in Folder /\ q # <<>>
  BY DEF Path, Folder
<1>3. ASSUME NEW n \in Below(p)
      PROVE  /\ n \in tree /\ n.path \in Folder /\ AtOrUnder(p, n.path)
             /\ M(n) \in Node /\ M(n).path = Rebase(n.path, p, q)
             /\ M(n).id = n.id /\ M(n).dir = n.dir /\ AtOrUnder(q, M(n).path)
  <2>1. n \in tree /\ AtOrUnder(p, n.path) /\ n \in Node /\ n.path \in Folder
    BY Nodes DEF Below, ServerInv, TreeOk
  <2>2. Rebase(n.path, p, q) \in Folder /\ Rebase(n.path, p, q) # <<>>
    BY <1>2, <2>1, RebaseProperties DEF Folder
  <2>3. M(n).path = Rebase(n.path, p, q) /\ M(n).id = n.id /\ M(n).dir = n.dir
    BY <2>1 DEF Node
  <2>4. M(n) \in Node
    BY <2>1, <2>2 DEF Node, Path, Folder
  <2>5. AtOrUnder(q, Rebase(n.path, p, q))
    BY <1>2, <2>1, RebaseBelow DEF Folder
  <2> QED BY <2>1, <2>3, <2>4, <2>5
<1>4. \A g \in G : \E n \in Below(p) : g = M(n)
  OBVIOUS
<1>5. \A n \in Below(p) : M(n) \in G
  OBVIOUS
<1>6. \A n \in keep : n \in tree /\ n \notin Below(p)
  OBVIOUS
<1>7. keep \in SUBSET tree
  OBVIOUS
<1>8. \A n \in keep, d \in tree : Under(d.path, n.path) => d \in keep
  BY <1>2, KeptClosed
<1>9. ASSUME NEW d \in tree, Under(d.path, q) PROVE d \in keep
  <2>1. d.path \in Folder
    BY Nodes DEF ServerInv
  <2>2. AtOrUnder(p, d.path) => AtOrUnder(p, q)
    BY <1>2, <1>9, <2>1, UnderTrans DEF AtOrUnder, Folder
  <2> QED BY <1>1, <2>2 DEF Below
<1> HIDE DEF keep
<1>10. ASSUME NEW m \in Below(p), NEW n \in Below(p), M(m).path = M(n).path PROVE m = n
  <2>1. m.path = n.path
    BY <1>2, <1>3, <1>10, RebaseInjective DEF Folder
  <2> QED BY <1>3, <2>1 DEF ServerInv, TreeOk
<1>11. ASSUME NEW m \in Below(p), NEW n \in Below(p), M(m).id = M(n).id PROVE m = n
  <2>1. m.id = n.id /\ m \in tree /\ n \in tree
    BY <1>3, <1>11
  <2> QED BY <2>1 DEF ServerInv, TreeOk
<1>12. ASSUME NEW n \in Below(p), NEW a \in Ancestors(M(n).path), AtOrUnder(q, a)
       PROVE  \E d \in G : d.path = a /\ d.dir
  <2>1. M(n).path \in Folder
    BY <1>3 DEF Node, Path, Folder
  <2>2. a \in Folder /\ Under(a, Rebase(n.path, p, q))
    BY <1>3, <2>1, AncestorsArePaths DEF Folder
  <2>3. ~Under(a, q)
    BY <1>2, <1>12, <2>2, UnderIrreflexive DEF Folder
  <2>4. PICK b \in Folder : AtOrUnder(p, b) /\ Under(b, n.path) /\ a = Rebase(b, p, q)
    <3>1. n.path \in Seq(Name) /\ p \in Seq(Name) /\ q \in Seq(Name) /\ a \in Seq(Name)
      BY <1>2, <1>3, <2>2 DEF Folder
    <3>2. AtOrUnder(p, n.path) /\ Under(a, Rebase(n.path, p, q)) /\ ~Under(a, q)
      BY <1>3, <2>2, <2>3
    <3>3. \E b \in Seq(Name) : AtOrUnder(p, b) /\ Under(b, n.path) /\ a = Rebase(b, p, q)
      BY <3>1, <3>2, RebaseAbove
    <3> QED BY <3>3 DEF Folder
  <2>5. b # <<>>
    <3>1. Under(p, b) => Len(p) < Len(b)
      BY <1>2, UnderIsLonger DEF Folder
    <3>2. Len(p) \in Nat
      BY <1>2, LenProperties DEF Folder
    <3> QED BY <1>2, <2>4, <3>1, <3>2 DEF AtOrUnder
  <2>6. PICK d \in tree : d.path = b /\ d.dir
    BY <1>3, <2>4, <2>5, AboveIsDir DEF ServerInv
  <2>7. d \in Below(p)
    BY <2>4, <2>6 DEF Below
  <2> QED BY <1>3, <1>5, <2>4, <2>6, <2>7
<1> HIDE DEF G
<1>13. G \in SUBSET Node
  <2> HIDE DEF M
  <2> QED BY <1>3, <1>4
<1>14. \A g, h \in G : (g.path = h.path \/ g.id = h.id) => g = h
  <2> HIDE DEF M
  <2> QED BY <1>4, <1>10, <1>11
<1>15. \A g \in G : AtOrUnder(q, g.path) /\ g.id.at < stamp /\ g.id.at \in Nat
  <2>1. \A n \in tree : n.id.at < stamp /\ n.id.at \in Nat
    BY DEF ServerInv, TreeOk, Node
  <2> HIDE DEF M
  <2> QED BY <1>3, <1>4, <2>1
<1>16. \A g \in G : AtOrUnder(q, g.path) /\ g.id.at < stamp + 1
  BY <1>15 DEF ServerInv
<1>17. \A g \in G, n \in keep \cup NewDirs(q) : g.id # n.id
  <2>1. ASSUME NEW g \in G, NEW n \in keep PROVE g.id # n.id
    <3> HIDE DEF M
    <3>1. PICK m \in Below(p) : g = M(m)
      BY <1>4
    <3> QED BY <1>3, <1>6, <3>1 DEF ServerInv, TreeOk
  <2>2. \A n \in NewDirs(q) : n.id.at = stamp
    BY NewDirsAre
  <2>3. \A g \in G, n \in NewDirs(q) : g.id # n.id
    BY <1>15, <2>2 DEF ServerInv
  <2> QED BY <2>1, <2>3
<1>18. \A g \in G : \A a \in Ancestors(g.path) :
         AtOrUnder(q, a) => \E d \in G : d.path = a /\ d.dir
  <2> HIDE DEF M
  <2> QED BY <1>4, <1>12
<1> QED BY <1>1, <1>7, <1>8, <1>9, <1>13, <1>14, <1>16, <1>17, <1>18, Grown
\* What an item of a call leaves.
Ops == {"delete", "move", "copy", "rename", "mkdir", "create", "upload", "uploadPaths"}

CallType ==
  [op: Ops, paths: SUBSET Path, left: SUBSET Path, to: Folder, from: Folder,
   missed: BOOLEAN, lost: BOOLEAN]

CallOk(o) ==
  o \in CallType /\ o.left \subseteq o.paths /\ (o.op = "rename" => o.to \in Path)

LEMMA JoinedPath ==
  ASSUME NEW to \in Folder, NEW n \in Name
  PROVE  to \o <<n>> \in Path
<1>1. to \o <<n>> \in Seq(Name) /\ Len(to \o <<n>>) = Len(to) + 1
  BY DEF Folder
<1>2. Len(to) \in Nat
  BY LenProperties DEF Folder
<1> QED BY <1>1, <1>2 DEF Path

LEMMA LastOfPath ==
  ASSUME NEW p \in Path
  PROVE  Last(p) \in Name
<1>1. p \in Seq(Name) /\ Len(p) \in Nat \ {0}
  BY EmptySeq DEF Path
<1>2. Len(p) \in 1..Len(p)
  BY <1>1
<1> QED BY <1>1, <1>2, ElementOfSeq DEF Last

LEMMA NamesArePaths ==
  ASSUME NEW p \in Path, NEW to \in Folder, NEW q \in Names(p, to)
  PROVE  q \in Path
<1>1. Last(p) \in Name
  BY LastOfPath
<1> QED BY <1>1, JoinedPath, SpareAssumption DEF Names

LEMMA CopiedFollows ==
  ASSUME ServerInv, NEW p \in Path, NEW q \in Path, NEW t \in Copied(p, q)
  PROVE  Follows(t)
<1>1. PICK n \in At(p) : t \in Made(q, n.dir)
  BY DEF Copied
<1>2. n.dir \in BOOLEAN
  BY Nodes DEF At, ServerInv
<1> QED BY <1>1, <1>2, MadeFollows

LEMMA TreeStays == ASSUME ServerInv PROVE Follows(tree)
<1>1. \A n \in tree : n.id.at \in Nat /\ n.id.at < stamp
  BY DEF ServerInv, TreeOk, Node
<1> QED BY <1>1 DEF Follows, ServerInv

LEMMA AfterFollows ==
  ASSUME ServerInv, NEW o, CallOk(o), NEW p \in o.left, NEW t \in After(o, p)
  PROVE  Follows(t)
<1>1. p \in Path /\ o.to \in Folder /\ o.op \in Ops
  BY DEF CallOk, CallType
<1>2. CASE o.op = "delete"
  BY <1>1, <1>2, RemovedFollows DEF After, Path, Folder
<1>3. CASE o.op = "move"
  <2>1. t = tree \/ \E q \in Names(p, o.to) : t \in Moved(p, q)
    BY <1>3 DEF After
  <2> QED BY <1>1, <2>1, TreeStays, NamesArePaths, MovedFollows
<1>4. CASE o.op = "copy"
  <2>1. \E q \in Names(p, o.to) : t \in Copied(p, q)
    BY <1>4 DEF After
  <2> QED BY <1>1, <2>1, NamesArePaths, CopiedFollows
<1>5. CASE o.op = "rename"
  <2>1. t \in Moved(p, o.to) /\ o.to \in Path
    BY <1>5 DEF After, CallOk
  <2> QED BY <1>1, <2>1, MovedFollows
<1>6. CASE o.op = "mkdir"
  BY <1>1, <1>6, MadeFollows DEF After
<1>7. CASE o.op \in {"create", "upload", "uploadPaths"}
  BY <1>1, <1>7, MadeFollows DEF After
<1> QED BY <1>1, <1>2, <1>3, <1>4, <1>5, <1>6, <1>7 DEF Ops

\* What another client leaves.
OtherLeaves(t) ==
  \E n \in tree : \/ t \in Removed(n.path)
                 \/ \E m \in NewNames : \/ t \in Moved(n.path, Parent(n.path) \o <<m>>)
                                        \/ t \in Made(Parent(n.path) \o <<m>>, FALSE)

LEMMA OtherClientLeaves ==
  ASSUME OtherClient
  PROVE  \E t : OtherLeaves(t) /\ Change(t)
<1>1. PICK n \in tree :
        \E t \in Removed(n.path)
             \cup (UNION {Moved(n.path, Parent(n.path) \o <<m>>) : m \in NewNames})
             \cup (UNION {Made(Parent(n.path) \o <<m>>, FALSE) : m \in NewNames}) : Change(t)
  BY DEF OtherClient
<1> DEFINE movedTo == {Moved(n.path, Parent(n.path) \o <<m>>) : m \in NewNames}
           madeIn == {Made(Parent(n.path) \o <<m>>, FALSE) : m \in NewNames}
<1>2. PICK t : Change(t) /\ (t \in Removed(n.path) \/ t \in UNION movedTo \/ t \in UNION madeIn)
  <2>1. PICK t \in Removed(n.path) \cup (UNION movedTo) \cup (UNION madeIn) : Change(t)
    BY <1>1
  <2> HIDE DEF movedTo, madeIn
  <2> QED BY <2>1
<1>3. \A S \in movedTo : \E m \in NewNames : S = Moved(n.path, Parent(n.path) \o <<m>>)
  OBVIOUS
<1>4. \A S \in madeIn : \E m \in NewNames : S = Made(Parent(n.path) \o <<m>>, FALSE)
  OBVIOUS
<1> HIDE DEF movedTo, madeIn
<1>5. CASE t \in Removed(n.path)
  BY <1>2, <1>5 DEF OtherLeaves
<1>6. CASE t \in UNION movedTo
  <2>1. PICK m \in NewNames : t \in Moved(n.path, Parent(n.path) \o <<m>>)
    BY <1>3, <1>6
  <2> QED BY <1>2, <2>1 DEF OtherLeaves
<1>7. CASE t \in UNION madeIn
  <2>1. PICK m \in NewNames : t \in Made(Parent(n.path) \o <<m>>, FALSE)
    BY <1>4, <1>7
  <2> QED BY <1>2, <2>1 DEF OtherLeaves
<1> QED BY <1>2, <1>5, <1>6, <1>7

LEMMA OthersFollow ==
  ASSUME ServerInv, NEW t, OtherLeaves(t)
  PROVE  Follows(t)
<1>1. PICK n \in tree : \/ t \in Removed(n.path)
                        \/ \E m \in NewNames : \/ t \in Moved(n.path, Parent(n.path) \o <<m>>)
                                               \/ t \in Made(Parent(n.path) \o <<m>>, FALSE)
  BY DEF OtherLeaves
<1>2. n.path \in Folder /\ n.path \in Path
  BY Nodes DEF ServerInv, Path, Folder
<1>3. Parent(n.path) \in Folder
  BY <1>2, ParentProperties DEF Path, Folder
<1>4. \A m \in NewNames : Parent(n.path) \o <<m>> \in Path
  BY <1>3, JoinedPath, SpareAssumption
<1> QED BY <1>1, <1>2, <1>4, RemovedFollows, MovedFollows, MadeFollows

LEMMA ServerStart == ASSUME BrowserInit PROVE ServerInv
<1>1. tree = Stored /\ stamp = 1
  BY DEF BrowserInit
<1>2. ASSUME NEW n \in Stored PROVE n \in Node /\ n.id.at = 0
  <2>1. /\ n = [id |-> [at |-> 0, born |-> n.id.born], path |-> n.path, dir |-> n.dir]
        /\ {n.path, n.id.born} \subseteq Path /\ n.dir \in BOOLEAN
    BY AccountAssumption
  <2> QED BY <2>1 DEF Node
<1>3. TreeOk(Stored)
  BY <1>2, AccountAssumption DEF TreeOk
<1> QED BY <1>1, <1>2, <1>3 DEF ServerInv

LEMMA OnlyTheseChangeTheServer ==
  ASSUME [BrowserNext]_bvars, ~Serve, ~OtherClient
  PROVE  UNCHANGED server
<1>1. CASE DoubleClick \/ MenuOpen \/ Crumb \/ GoBack \/ GoForward
  BY <1>1 DEF DoubleClick, MenuOpen, Open, Crumb, GoBack, GoForward, Step, GoTo
<1>2. CASE \/ Refresh \/ Type \/ SearchRetry \/ Pick \/ PickAll \/ Cut \/ Copy \/ Delete
           \/ Paste \/ Upload \/ ConfirmInput \/ ConfirmRename
  BY <1>2 DEF Refresh, Type, SearchRetry, Pick, PickAll, Picks, Cut, Copy, PutInClipboard,
              Delete, Paste, Upload, Call, ConfirmInput, ConfirmRename
<1>3. CASE ContextMenu \/ MenuRename \/ MenuShare \/ NewMenu \/ NewItem \/ Dismiss
             \/ PreviewShare \/ ShareClosed \/ PreviewEdited \/ Escape
  BY <1>3 DEF ContextMenu, MenuRename, MenuShare, NewMenu, NewItem, Dismiss, PreviewShare,
              ShareClosed, PreviewEdited, Escape, Window
<1>4. CASE \/ ServeFails \/ CallReturns \/ ListAnswered \/ ListFails \/ ListArrives
           \/ PushArrives \/ PushLost \/ PushTimer
           \/ SearchTimer \/ SearchAnswered \/ SearchFails \/ SearchArrives
  BY <1>4 DEF ServeFails, CallReturns, ListAnswered, ListFails, ListArrives, PushArrives,
              PushLost, PushTimer, SearchTimer, SearchAnswered, SearchFails, SearchArrives
<1>5. CASE UNCHANGED bvars
  BY <1>5 DEF bvars, server
<1> QED BY <1>1, <1>2, <1>3, <1>4, <1>5 DEF BrowserNext, UserNext, WorldNext

LEMMA ServerKept ==
  ASSUME ServerInv, \A o \in ops : CallOk(o), [BrowserNext]_bvars
  PROVE  ServerInv'
<1>1. ASSUME NEW t, Follows(t), Change(t) PROVE ServerInv'
  <2>1. tree' = t /\ stamp' = stamp + 1
    BY <1>1 DEF Change
  <2>2. stamp' \in Nat
    BY <2>1 DEF ServerInv
  <2>3. TreeOk(tree') /\ \A n \in tree' : n.id.at < stamp'
    BY <1>1, <2>1 DEF Follows
  <2> QED BY <2>2, <2>3 DEF ServerInv
<1>2. ASSUME UNCHANGED server PROVE ServerInv'
  BY <1>2 DEF server, ServerInv
<1>3. CASE Serve
  <2>1. \/ UNCHANGED server
        \/ \E o \in ops : \E p \in o.left : \E t \in After(o, p) : Change(t)
    BY <1>3 DEF Serve
  <2> QED BY <1>1, <1>2, <2>1, AfterFollows
<1>4. CASE OtherClient
  <2>1. PICK t : OtherLeaves(t) /\ Change(t)
    BY <1>4, OtherClientLeaves
  <2> QED BY <1>1, <2>1, OthersFollow
<1>5. CASE ~Serve /\ ~OtherClient
  BY <1>2, <1>5, OnlyTheseChangeTheServer
<1> QED BY <1>3, <1>4, <1>5
-----------------------------------------------------------------------------
(* The server is the tree of LozaTree.                                      *)

LEMMA EntriesAre ==
  ASSUME ServerInv
  PROVE  /\ \A n \in tree : /\ Entry(n) \in Entries /\ Entry(n).path = n.path
                            /\ Entry(n).dir = n.dir /\ Entry(n).data = ~n.dir
         /\ \A e \in Entries : \E n \in tree : e = Entry(n)
BY DEF Entries, Entry

\* LozaTree means the same by its operators on paths.
LEMMA SamePaths ==
  /\ \A a, b : Tree!Under(a, b) = Under(a, b) /\ Tree!AtOrUnder(a, b) = AtOrUnder(a, b)
  /\ \A a : Tree!Ancestors(a) = Ancestors(a)
  /\ \A a, b, c : Tree!Rebase(a, b, c) = Rebase(a, b, c)
<1>1. ASSUME NEW a, NEW b PROVE Tree!Under(a, b) = Under(a, b)
  BY DEF Tree!Under, Under, Tree!IsStrictPrefix, IsStrictPrefix, Tree!IsPrefix, IsPrefix
<1>2. ASSUME NEW a, NEW b PROVE Tree!AtOrUnder(a, b) = AtOrUnder(a, b)
  BY <1>1 DEF Tree!AtOrUnder, AtOrUnder
<1>3. ASSUME NEW a PROVE Tree!Ancestors(a) = Ancestors(a)
  BY DEF Tree!Ancestors, Ancestors
<1>4. ASSUME NEW a, NEW b, NEW c PROVE Tree!Rebase(a, b, c) = Rebase(a, b, c)
  BY DEF Tree!Rebase, Rebase
<1> QED BY <1>1, <1>2, <1>3, <1>4

\* The nodes of the next tree, as entries.
EntriesOf(t) == {Entry(n) : n \in t}

LEMMA NextEntries ==
  ASSUME NEW t, tree' = t
  PROVE  Entries' = EntriesOf(t)
BY DEF Entries, EntriesOf, Entry

LEMMA FoundIsAt ==
  ASSUME NEW p
  PROVE  Tree!Found(p) = {} <=> At(p) = {}
<1>1. ASSUME NEW e \in Tree!Found(p) PROVE At(p) # {}
  <2>1. e \in Entries /\ e.path = p
    BY DEF Tree!Found
  <2>2. PICK n \in tree : e = Entry(n)
    BY <2>1 DEF Entries
  <2> QED BY <2>1, <2>2 DEF At, Entry
<1>2. ASSUME NEW n \in At(p) PROVE Tree!Found(p) # {}
  <2>1. Entry(n) \in Entries /\ Entry(n).path = p
    BY DEF At, Entries, Entry
  <2> QED BY <2>1 DEF Tree!Found
<1> QED BY <1>1, <1>2

LEMMA RoomIsRoom ==
  ASSUME NEW p, Room(p)
  PROVE  Tree!Found(p) = {} /\ Tree!NoFileAbove(p)
<1>1. Tree!Found(p) = {}
  BY FoundIsAt DEF Room
<1>2. ASSUME NEW e \in Entries, Under(e.path, p) PROVE e.dir
  <2>1. PICK n \in tree : e = Entry(n)
    BY DEF Entries
  <2>2. e.path = n.path /\ e.dir = n.dir
    BY <2>1 DEF Entry
  <2> QED BY <1>2, <2>2 DEF Room
<1> QED BY <1>1, <1>2, SamePaths DEF Tree!NoFileAbove

LEMMA KeptEntries ==
  ASSUME ServerInv, NEW p
  PROVE  EntriesOf(tree \ Below(p)) = Entries \ Tree!Below(p)
<1> DEFINE t == tree \ Below(p)
<1>1. ASSUME NEW e \in EntriesOf(t) PROVE e \in Entries \ Tree!Below(p)
  <2>1. PICK n \in tree \ Below(p) : e = Entry(n)
    BY DEF EntriesOf
  <2>2. e \in Entries /\ e.path = n.path
    BY <2>1, EntriesAre
  <2> QED BY <2>1, <2>2, SamePaths DEF Tree!Below, Below
<1>2. ASSUME NEW e \in Entries \ Tree!Below(p) PROVE e \in EntriesOf(t)
  <2>1. PICK n \in tree : e = Entry(n)
    BY EntriesAre
  <2>2. e.path = n.path /\ ~AtOrUnder(p, e.path)
    BY <1>2, <2>1, EntriesAre, SamePaths DEF Tree!Below
  <2>3. n \in t
    BY <2>2 DEF Below
  <2> QED BY <2>1, <2>3 DEF EntriesOf
<1> QED BY <1>1, <1>2

LEMMA RemovedDrops ==
  ASSUME ServerInv, NEW p, NEW t \in Removed(p), tree' = t
  PROVE  Tree!Drop(p)
<1>1. t = tree \ Below(p) /\ At(p) # {}
  BY DEF Removed
<1>2. EntriesOf(t) = Entries \ Tree!Below(p)
  BY <1>1, KeptEntries
<1>3. Tree!Found(p) # {}
  BY <1>1, FoundIsAt
<1> QED BY <1>2, <1>3, NextEntries DEF Tree!Drop
LEMMA EntriesOfUnion ==
  ASSUME NEW s, NEW t
  PROVE  EntriesOf(s \cup t) = EntriesOf(s) \cup EntriesOf(t)
BY DEF EntriesOf

\* The directories that come into being with a node are LozaTree's.
NewEntry(q) == [path |-> q, dir |-> TRUE, data |-> FALSE]

LEMMA NewEntries ==
  ASSUME ServerInv, NEW p \in Path
  PROVE  /\ EntriesOf(NewDirs(p)) = Tree!NewDirs(Ancestors(p))
         /\ At(p) = {} => Tree!NewDirs(Ancestors(p) \cup {p}) = Tree!NewDirs(Ancestors(p)) \cup {NewEntry(p)}
<1>1. \A q \in Path : Entry(NewNode(q, TRUE)) = NewEntry(q)
  BY NewNodeIs DEF Entry, NewEntry
<1>2. \A q \in Ancestors(p) : q \in Path
  BY AncestorsArePaths DEF Path
<1>3. \A S : Tree!NewDirs(S) = {NewEntry(q) : q \in {q \in S : At(q) = {}}}
  BY FoundIsAt DEF Tree!NewDirs, NewEntry
<1>4. EntriesOf(NewDirs(p)) = {NewEntry(q) : q \in {q \in Ancestors(p) : At(q) = {}}}
  <2>1. NewDirs(p) = {NewNode(q, TRUE) : q \in {q \in Ancestors(p) : At(q) = {}}}
    BY DEF NewDirs
  <2> DEFINE missing == {q \in Ancestors(p) : At(q) = {}}
  <2>2. \A q \in missing : q \in Path
    BY <1>2
  <2> HIDE DEF missing
  <2>3. EntriesOf({NewNode(q, TRUE) : q \in missing}) = {NewEntry(q) : q \in missing}
    BY <1>1, <2>2 DEF EntriesOf
  <2> QED BY <2>1, <2>3 DEF missing
<1>5. ASSUME At(p) = {}
      PROVE  Tree!NewDirs(Ancestors(p) \cup {p}) = Tree!NewDirs(Ancestors(p)) \cup {NewEntry(p)}
  <2> HIDE DEF Ancestors
  <2>1. {q \in Ancestors(p) \cup {p} : At(q) = {}} = {q \in Ancestors(p) : At(q) = {}} \cup {p}
    BY <1>5
  <2>2. \A S : {NewEntry(q) : q \in S \cup {p}} = {NewEntry(q) : q \in S} \cup {NewEntry(p)}
    OBVIOUS
  <2> QED BY <1>3, <2>1, <2>2
<1> QED BY <1>3, <1>4, <1>5

LEMMA MadeAdds ==
  ASSUME ServerInv, NEW p \in Path, NEW dir \in BOOLEAN, NEW t \in Made(p, dir), tree' = t
  PROVE  IF dir THEN Tree!AddDir(p) ELSE Tree!Put(p, TRUE)
<1>1. Room(p) /\ t = tree \cup NewDirs(p) \cup {NewNode(p, dir)}
  BY DEF Made
<1>2. At(p) = {}
  BY <1>1 DEF Room
<1>3. EntriesOf({NewNode(p, dir)}) = {Entry(NewNode(p, dir))}
  BY DEF EntriesOf
<1>4. Entry(NewNode(p, dir)) = [path |-> p, dir |-> dir, data |-> ~dir]
  BY NewNodeIs DEF Entry
<1>5. EntriesOf(tree) = Entries
  BY DEF EntriesOf, Entries
<1>6. Entries' = Entries \cup Tree!NewDirs(Ancestors(p)) \cup {[path |-> p, dir |-> dir, data |-> ~dir]}
  <2> DEFINE new == {NewNode(p, dir)}
  <2>1. EntriesOf(new) = {[path |-> p, dir |-> dir, data |-> ~dir]}
    BY <1>3, <1>4
  <2> HIDE DEF new
  <2>2. EntriesOf((tree \cup NewDirs(p)) \cup new)
          = EntriesOf(tree \cup NewDirs(p)) \cup EntriesOf(new)
    BY EntriesOfUnion
  <2>3. EntriesOf(tree \cup NewDirs(p)) = EntriesOf(tree) \cup EntriesOf(NewDirs(p))
    BY EntriesOfUnion
  <2>4. Entries' = EntriesOf((tree \cup NewDirs(p)) \cup new)
    BY <1>1, NextEntries DEF new
  <2>5. EntriesOf(NewDirs(p)) = Tree!NewDirs(Ancestors(p))
    BY NewEntries
  <2> QED BY <1>5, <2>1, <2>2, <2>3, <2>4, <2>5
<1>7. Tree!Found(p) = {} /\ Tree!NoFileAbove(p)
  BY <1>1, RoomIsRoom
<1>8. CASE dir
  <2>1. [path |-> p, dir |-> dir, data |-> ~dir] = NewEntry(p)
    BY <1>8 DEF NewEntry
  <2>2. Entries' = Entries \cup Tree!NewDirs(Ancestors(p) \cup {p})
    BY <1>2, <1>6, <2>1, NewEntries
  <2>3. Tree!AddDir(p)
    BY <1>7, <2>2, SamePaths DEF Tree!AddDir
  <2> QED BY <1>8, <2>3
<1>9. CASE ~dir
  <2>1. [path |-> p, dir |-> dir, data |-> ~dir] = [path |-> p, dir |-> FALSE, data |-> TRUE]
    BY <1>9
  <2>2. Entries' = (Entries \ Tree!Found(p)) \cup Tree!NewDirs(Ancestors(p))
                     \cup {[path |-> p, dir |-> FALSE, data |-> TRUE]}
    BY <1>6, <1>7, <2>1
  <2>3. Tree!Put(p, TRUE)
    BY <1>7, <2>2, SamePaths DEF Tree!Put
  <2> QED BY <1>9, <2>3
<1> QED BY <1>8, <1>9

LEMMA MovedMoves ==
  ASSUME ServerInv, NEW p \in Path, NEW q \in Path, NEW t \in Moved(p, q), tree' = t
  PROVE  Tree!Move(p, q)
<1> DEFINE M(n) == [n EXCEPT !.path = Rebase(@, p, q)]
           R(e) == [e EXCEPT !.path = Rebase(@, p, q)]
           moved == {M(n) : n \in Below(p)}
           kept == tree \ Below(p)
<1>1. /\ At(p) # {} /\ Room(q) /\ ~AtOrUnder(p, q)
      /\ t = kept \cup NewDirs(q) \cup moved
  BY DEF Moved
<1>2. Entries' = EntriesOf(kept) \cup Tree!NewDirs(Ancestors(q)) \cup EntriesOf(moved)
  <2> HIDE DEF kept, moved
  <2>1. EntriesOf((kept \cup NewDirs(q)) \cup moved)
          = EntriesOf(kept \cup NewDirs(q)) \cup EntriesOf(moved)
    BY EntriesOfUnion
  <2>2. EntriesOf(kept \cup NewDirs(q)) = EntriesOf(kept) \cup EntriesOf(NewDirs(q))
    BY EntriesOfUnion
  <2>3. Entries' = EntriesOf((kept \cup NewDirs(q)) \cup moved)
    BY <1>1, NextEntries
  <2>4. EntriesOf(NewDirs(q)) = Tree!NewDirs(Ancestors(q))
    BY NewEntries
  <2> QED BY <2>1, <2>2, <2>3, <2>4
<1>3. EntriesOf(kept) = Entries \ Tree!Below(p)
  BY KeptEntries
<1>4. \A n \in Below(p) : n \in tree /\ n \in Node /\ AtOrUnder(p, n.path)
  BY DEF Below, ServerInv, TreeOk
<1>5. \A n \in Below(p) : Entry(M(n)) = R(Entry(n))
  <2>1. \A n \in Node : Entry([n EXCEPT !.path = Rebase(@, p, q)])
                          = [Entry(n) EXCEPT !.path = Rebase(@, p, q)]
    BY DEF Entry, Node
  <2> QED BY <1>4, <2>1
<1>6. EntriesOf(moved) = {R(e) : e \in Tree!Below(p)}
  <2>1. ASSUME NEW e \in EntriesOf(moved) PROVE e \in {R(d) : d \in Tree!Below(p)}
    <3>1. PICK n \in Below(p) : e = Entry(M(n))
      BY <2>1 DEF EntriesOf
    <3>2. Entry(n) \in Entries /\ Entry(n).path = n.path /\ AtOrUnder(p, n.path)
      BY <1>4, EntriesAre
    <3>3. Entry(n) \in Tree!Below(p)
      BY <3>2, SamePaths DEF Tree!Below
    <3> QED BY <1>5, <3>1, <3>3
  <2>2. ASSUME NEW d \in Tree!Below(p) PROVE R(d) \in EntriesOf(moved)
    <3>1. d \in Entries /\ AtOrUnder(p, d.path)
      BY SamePaths DEF Tree!Below
    <3>2. PICK n \in tree : d = Entry(n)
      BY <3>1, EntriesAre
    <3>3. n \in Below(p)
      BY <3>1, <3>2, EntriesAre DEF Below
    <3>4. M(n) \in moved /\ Entry(M(n)) = R(d)
      BY <1>5, <3>2, <3>3
    <3> QED BY <3>4 DEF EntriesOf
  <2> HIDE DEF R
  <2> QED BY <2>1, <2>2
<1>7. Tree!Below(p) = {e \in Entries : AtOrUnder(p, e.path)}
  BY SamePaths DEF Tree!Below
<1>8. Tree!Found(p) # {} /\ Tree!Found(q) = {} /\ Tree!NoFileAbove(q)
  BY <1>1, FoundIsAt, RoomIsRoom
<1>9. {R(e) : e \in Tree!Below(p)} = {[e EXCEPT !.path = Tree!Rebase(@, p, q)] : e \in Tree!Below(p)}
  BY SamePaths
<1> HIDE DEF M, R, moved, kept
<1> QED BY <1>1, <1>2, <1>3, <1>6, <1>8, <1>9, SamePaths DEF Tree!Move
-----------------------------------------------------------------------------
(* The steps by what they change.                                           *)

Navigates == DoubleClick \/ MenuOpen \/ Crumb \/ GoBack \/ GoForward
Reloads == PushTimer \/ Refresh \/ ShareClosed \/ PreviewEdited
Answers == ListAnswered \/ ListFails
Serves == Serve \/ ServeFails
Calls == Delete \/ Paste \/ Upload \/ ConfirmInput \/ ConfirmRename
Clips == Cut \/ Copy
Windows == ContextMenu \/ MenuRename \/ MenuShare \/ NewMenu \/ NewItem \/ Dismiss
             \/ PreviewShare \/ Escape
Finds == Type \/ SearchRetry \/ SearchTimer \/ SearchAnswered \/ SearchFails \/ SearchArrives
Apart == Pick \/ PickAll \/ OtherClient \/ PushArrives \/ PushLost \/ UNCHANGED bvars

LEMMA NextSteps ==
  ASSUME [BrowserNext]_bvars
  PROVE  Navigates \/ Reloads \/ Answers \/ Serves \/ Calls \/ Clips \/ Windows \/ Finds
           \/ Apart \/ ListArrives \/ CallReturns
BY DEF BrowserNext, UserNext, WorldNext, Navigates, Reloads, Answers, Serves, Calls, Clips,
       Windows, Finds, Apart

LEMMA Frames ==
  /\ Navigates => UNCHANGED <<server, clip, ops>>
  /\ Reloads => UNCHANGED <<server, hist, clip, find, searches, ops>>
  /\ Answers => UNCHANGED <<server, view, hist, picked, clip, find, win, searches, ops, push, strayed>>
  /\ Serves => UNCHANGED <<view, hist, picked, clip, find, win, loads, searches, strayed>>
  /\ Calls => UNCHANGED <<server, view, hist, picked, clip, find, loads, searches, push, strayed>>
  /\ Clips => UNCHANGED <<server, view, hist, find, net, push, strayed>>
  /\ Windows => UNCHANGED <<server, view, hist, clip, find, net, push, strayed>>
  /\ Finds => UNCHANGED <<server, view, hist, picked, clip, win, loads, ops, push, strayed>>
  /\ Apart => UNCHANGED <<view, hist, clip, find, win, net>>
  /\ ListArrives => UNCHANGED <<server, hist, clip, find, win, searches, ops, push, strayed>>
  /\ CallReturns => UNCHANGED <<server, hist, find, searches, push>>
<1>1. Navigates => UNCHANGED <<server, clip, ops>>
  BY DEF Navigates, DoubleClick, MenuOpen, Open, Crumb, GoBack, GoForward, Step, GoTo, net
<1>2. Reloads => UNCHANGED <<server, hist, clip, find, searches, ops>>
  BY DEF Reloads, PushTimer, Refresh, ShareClosed, PreviewEdited
<1>3. Answers => UNCHANGED <<server, view, hist, picked, clip, find, win, searches, ops, push, strayed>>
  BY DEF Answers, ListAnswered, ListFails
<1>4. Serves => UNCHANGED <<view, hist, picked, clip, find, win, loads, searches, strayed>>
  BY DEF Serves, Serve, ServeFails
<1>5. Calls => UNCHANGED <<server, view, hist, picked, clip, find, loads, searches, push, strayed>>
  BY DEF Calls, Delete, Paste, Upload, ConfirmInput, ConfirmRename, Call, net
<1>6. Clips => UNCHANGED <<server, view, hist, find, net, push, strayed>>
  BY DEF Clips, Cut, Copy, PutInClipboard
<1>7. Windows => UNCHANGED <<server, view, hist, clip, find, net, push, strayed>>
  BY DEF Windows, ContextMenu, MenuRename, MenuShare, NewMenu, NewItem, Dismiss, PreviewShare,
         Escape, Window
<1>8. Finds => UNCHANGED <<server, view, hist, picked, clip, win, loads, ops, push, strayed>>
  BY DEF Finds, Type, SearchRetry, SearchTimer, SearchAnswered, SearchFails, SearchArrives, net
<1>9. Apart => UNCHANGED <<view, hist, clip, find, win, net>>
  BY DEF Apart, Pick, PickAll, Picks, OtherClient, PushArrives, PushLost, bvars, net
<1>10. ListArrives => UNCHANGED <<server, hist, clip, find, win, searches, ops, push, strayed>>
  BY DEF ListArrives
<1>11. CallReturns => UNCHANGED <<server, hist, find, searches, push>>
  BY DEF CallReturns
<1> QED BY <1>1, <1>2, <1>3, <1>4, <1>5, <1>6, <1>7, <1>8, <1>9, <1>10, <1>11

-----------------------------------------------------------------------------
(* The types.                                                               *)

Item == Node \cup {None}
Answer == {None} \cup SUBSET Node

ViewTypes == [path: Folder, files: SUBSET Node, loading: BOOLEAN, error: BOOLEAN]
FindTypes == [query: Query \cup {None}, results: Answer, failed: BOOLEAN, timer: BOOLEAN]
WinTypes == [input: {"folder", "file", None}, menu: BOOLEAN, context: Item, rename: Item,
             preview: Item, share: Item]
LoadTypes == [path: Folder, latest: BOOLEAN, err: BOOLEAN, answer: Answer, bad: BOOLEAN]
SearchTypes == [query: Query, path: Folder, latest: BOOLEAN, answer: Answer, bad: BOOLEAN]

\* What was cut or copied: nodes, none below another one.
ClipOk(c) ==
  /\ c \in [op: {"move", "copy"}, paths: SUBSET Path]
  /\ c.paths # {}
  /\ \A p, q \in c.paths : ~Under(p, q)

ScreenInv ==
  /\ view \in ViewTypes /\ find \in FindTypes /\ win \in WinTypes
  /\ hist.list \in Seq(Folder) /\ hist.at \in 1..Len(hist.list)
  /\ clip # None => ClipOk(clip)

\* A search that counts is for the open folder and what stands in the field.
CallsInv ==
  /\ loads \subseteq LoadTypes /\ searches \subseteq SearchTypes
  /\ \A o \in ops : CallOk(o)

FieldInv ==
  /\ (find.timer \/ find.failed \/ find.results # None) => find.query # None
  /\ (\E s \in searches : s.latest) => find.query # None

TypesInv == ServerInv /\ ScreenInv /\ CallsInv /\ FieldInv

LEMMA ShownAreNodes ==
  ASSUME ScreenInv
  PROVE  Shown \subseteq Node /\ Chosen \subseteq Node
<1>1. view.files \subseteq Node /\ (find.results # None => find.results \subseteq Node)
  BY DEF ScreenInv, ViewTypes, FindTypes, Answer
<1> QED BY <1>1 DEF Shown, Here, Chosen

LEMMA ListingsAreNodes ==
  ASSUME ServerInv, NEW p, NEW q
  PROVE  Listing(p) \in Answer /\ Found(q, p) \in Answer
BY DEF ServerInv, TreeOk, Listing, Found, Answer

\* Where one navigates to.
Leads(path) ==
  /\ path \in Folder /\ Navigate(path)
  /\ hist' \in {hist, Pushed(path)} \/ \E to \in 1..Len(hist.list) : hist' = [hist EXCEPT !.at = to]

Previews(n) ==
  /\ n \in Node /\ win' = [win EXCEPT !.preview = n, !.context = None]
  /\ UNCHANGED <<view, hist, picked, find, loads, searches, push, strayed>>

LEMMA NavigationLeads ==
  ASSUME ScreenInv, Navigates
  PROVE  (\E path : Leads(path)) \/ (\E n : Previews(n))
<1>1. ASSUME NEW path \in Folder, GoTo(path) PROVE Leads(path)
  BY <1>1 DEF GoTo, Leads
<1>2. ASSUME NEW to \in 1..Len(hist.list), Step(to) PROVE Leads(hist.list[to])
  <2>1. hist.list[to] \in Folder
    BY DEF ScreenInv
  <2> QED BY <1>2, <2>1 DEF Step, Leads
<1>3. CASE DoubleClick \/ MenuOpen
  <2>1. PICK n \in Node : Open(n)
    <3>1. win.context # None => win.context \in Node
      BY DEF ScreenInv, WinTypes, Item
    <3> QED BY <1>3, <3>1, ShownAreNodes DEF DoubleClick, MenuOpen, Menu
  <2>2. n.path \in Folder
    BY DEF Node, Path, Folder
  <2>3. CASE n.dir
    BY <1>1, <2>1, <2>2, <2>3 DEF Open
  <2>4. CASE ~n.dir
    BY <2>1, <2>4 DEF Open, Previews, net
  <2> QED BY <2>3, <2>4
<1>4. CASE Crumb
  <2>1. PICK i \in 0..(Len(view.path) - 1) : GoTo(SubSeq(view.path, 1, i))
    BY <1>4 DEF Crumb
  <2>2. view.path \in Seq(Name) /\ Len(view.path) \in Nat
    BY LenProperties DEF ScreenInv, ViewTypes, Folder
  <2>3. i \in 0..Len(view.path)
    BY <2>2
  <2>4. SubSeq(view.path, 1, i) \in Folder
    BY <2>2, <2>3, FirstPart DEF Folder
  <2> QED BY <1>1, <2>1, <2>4
<1>5. CASE GoBack \/ GoForward
  <2>1. Len(hist.list) \in Nat /\ hist.at \in 1..Len(hist.list)
    BY LenProperties DEF ScreenInv
  <2>2. \E to \in 1..Len(hist.list) : Step(to)
    BY <1>5, <2>1 DEF GoBack, GoForward
  <2> QED BY <1>2, <2>2
<1> QED BY <1>3, <1>4, <1>5 DEF Navigates
\* What becomes of the requests: old ones are retired, one may come.
LEMMA StartLoadTypes ==
  ASSUME CallsInv, NEW path \in Folder, NEW err \in BOOLEAN, StartLoad(path, err)
  PROVE  loads' \subseteq LoadTypes
<1>1. \A l \in LoadTypes : [l EXCEPT !.latest = FALSE] \in LoadTypes
  BY DEF LoadTypes
<1>2. [path |-> path, latest |-> TRUE, err |-> err, answer |-> None, bad |-> FALSE] \in LoadTypes
  BY DEF LoadTypes, Answer
<1> QED BY <1>1, <1>2 DEF StartLoad, Outdated, CallsInv

LEMMA OutdatedTypes ==
  ASSUME CallsInv
  PROVE  Outdated(searches) \subseteq SearchTypes /\ \A s \in Outdated(searches) : ~s.latest
<1>1. \A s \in SearchTypes : [s EXCEPT !.latest = FALSE] \in SearchTypes
                              /\ ~[s EXCEPT !.latest = FALSE].latest
  BY DEF SearchTypes
<1> QED BY <1>1 DEF Outdated, CallsInv

LEMMA ViewTyped ==
  ASSUME ScreenInv
  PROVE  /\ [view EXCEPT !.loading = TRUE, !.error = FALSE] \in ViewTypes
         /\ [view EXCEPT !.error = TRUE] \in ViewTypes
         /\ \A path \in Folder :
              [view EXCEPT !.path = path, !.loading = TRUE, !.error = FALSE] \in ViewTypes
BY DEF ScreenInv, ViewTypes

LEMMA ViewTypeKept ==
  ASSUME TypesInv, [BrowserNext]_bvars
  PROVE  view' \in ViewTypes
<1>1. ScreenInv /\ view \in ViewTypes
  BY DEF TypesInv, ScreenInv
<1>2. CASE Navigates
  <2>1. UNCHANGED view
        \/ \E path \in Folder :
             view' = [view EXCEPT !.path = path, !.loading = TRUE, !.error = FALSE]
    BY <1>1, <1>2, NavigationLeads DEF Leads, Previews, Navigate
  <2> QED BY <1>1, <2>1, ViewTyped
<1>3. CASE Reloads \/ CallReturns
  <2>1. view' \in {[view EXCEPT !.loading = TRUE, !.error = FALSE], [view EXCEPT !.error = TRUE]}
    BY <1>3 DEF Reloads, PushTimer, Refresh, ShareClosed, PreviewEdited, Reload, CallReturns
  <2> QED BY <1>1, <2>1, ViewTyped
<1>4. CASE ListArrives
  <2>1. PICK l \in loads :
          /\ l.answer # None \/ l.bad
          /\ view' = [view EXCEPT
               !.files   = IF Applies(l) /\ ~l.bad THEN l.answer ELSE @,
               !.error   = @ \/ l.err \/ (Applies(l) /\ l.bad),
               !.loading = @ /\ ~EndsLoading(l)]
    BY <1>4 DEF ListArrives
  <2>2. /\ l.latest \in BOOLEAN /\ l.err \in BOOLEAN /\ l.bad \in BOOLEAN /\ l.answer \in Answer
        /\ Applies(l) \in BOOLEAN
    BY DEF TypesInv, CallsInv, LoadTypes, Applies
  <2> DEFINE files == IF Applies(l) /\ ~l.bad THEN l.answer ELSE view.files
             error == view.error \/ l.err \/ (Applies(l) /\ l.bad)
             loading == view.loading /\ ~EndsLoading(l)
  <2>3. files \in SUBSET Node
    BY <1>1, <2>1, <2>2 DEF Answer, ViewTypes
  <2>4. error \in BOOLEAN /\ loading \in BOOLEAN
    BY <2>2
  <2>5. view' = [view EXCEPT !.files = files, !.error = error, !.loading = loading]
    BY <2>1
  <2> HIDE DEF files, error, loading
  <2> QED BY <1>1, <2>3, <2>4, <2>5 DEF ViewTypes
<1>5. CASE Answers \/ Serves \/ Calls \/ Clips \/ Windows \/ Finds \/ Apart
  BY <1>1, <1>5, Frames
<1> QED BY <1>2, <1>3, <1>4, <1>5, NextSteps

LEMMA LoadTypesKept ==
  ASSUME TypesInv, [BrowserNext]_bvars
  PROVE  loads' \subseteq LoadTypes
<1>1. CallsInv /\ ScreenInv /\ ServerInv /\ loads \subseteq LoadTypes /\ view.path \in Folder
  BY DEF TypesInv, CallsInv, ScreenInv, ViewTypes
<1>2. CASE Navigates
  <2>1. UNCHANGED loads \/ \E path \in Folder : StartLoad(path, FALSE)
    BY <1>1, <1>2, NavigationLeads DEF Leads, Previews, Navigate
  <2> QED BY <1>1, <2>1, StartLoadTypes
<1>3. CASE Reloads
  <2>1. StartLoad(view.path, FALSE)
    BY <1>3 DEF Reloads, PushTimer, Refresh, ShareClosed, PreviewEdited, Reload
  <2> QED BY <1>1, <2>1, StartLoadTypes
<1>4. CASE CallReturns
  <2>1. PICK o \in ops :
          \/ UNCHANGED loads
          \/ StartLoad(o.from, o.missed /\ o.op \in {"delete", "move", "copy", "uploadPaths"})
    BY <1>4 DEF CallReturns
  <2>2. o.from \in Folder
    BY <1>1 DEF CallsInv, CallOk, CallType
  <2>3. (o.missed /\ o.op \in {"delete", "move", "copy", "uploadPaths"}) \in BOOLEAN
    OBVIOUS
  <2> QED BY <1>1, <2>1, <2>2, <2>3, StartLoadTypes
<1>5. CASE ListArrives
  BY <1>1, <1>5 DEF ListArrives
<1>6. CASE Answers
  <2>1. PICK l \in loads : \/ loads' = (loads \ {l}) \cup {[l EXCEPT !.answer = Listing(l.path)]}
                           \/ loads' = (loads \ {l}) \cup {[l EXCEPT !.bad = TRUE]}
    BY <1>6 DEF Answers, ListAnswered, ListFails
  <2>2. l \in LoadTypes /\ Listing(l.path) \in Answer
    BY <1>1, ListingsAreNodes
  <2>3. [l EXCEPT !.answer = Listing(l.path)] \in LoadTypes /\ [l EXCEPT !.bad = TRUE] \in LoadTypes
    BY <2>2 DEF LoadTypes
  <2> QED BY <1>1, <2>1, <2>3
<1>7. CASE Serves \/ Calls \/ Clips \/ Windows \/ Finds \/ Apart
  BY <1>1, <1>7, Frames DEF net
<1> QED BY <1>2, <1>3, <1>4, <1>5, <1>6, <1>7, NextSteps

LEMMA SearchTypesKept ==
  ASSUME TypesInv, [BrowserNext]_bvars
  PROVE  searches' \subseteq SearchTypes
<1>1. /\ CallsInv /\ ScreenInv /\ ServerInv /\ FieldInv /\ searches \subseteq SearchTypes
      /\ view.path \in Folder /\ find.query \in Query \cup {None}
  BY DEF TypesInv, CallsInv, ScreenInv, ViewTypes, FindTypes
<1>2. ASSUME searches' = EndSearches PROVE searches' \subseteq SearchTypes
  BY <1>1, <1>2, OutdatedTypes DEF EndSearches
<1>3. CASE Navigates
  <2>1. UNCHANGED searches \/ searches' = EndSearches
    BY <1>1, <1>3, NavigationLeads DEF Leads, Previews, Navigate
  <2> QED BY <1>1, <1>2, <2>1
<1>4. CASE Finds
  <2>1. CASE Type \/ SearchRetry
    <3>1. UNCHANGED searches \/ searches' = EndSearches
      BY <2>1 DEF Type, SearchRetry, net
    <3> QED BY <1>1, <1>2, <3>1
  <2>2. CASE SearchTimer
    <3> DEFINE s == [query |-> find.query, path |-> view.path, latest |-> TRUE,
                     answer |-> None, bad |-> FALSE]
    <3>1. searches' = Outdated(searches) \cup {s} /\ find.timer
      BY <2>2 DEF SearchTimer
    <3>2. find.query \in Query
      BY <1>1, <3>1 DEF FieldInv
    <3>3. s \in SearchTypes
      BY <1>1, <3>2 DEF SearchTypes, Answer
    <3> QED BY <1>1, <3>1, <3>3, OutdatedTypes
  <2>3. CASE SearchAnswered \/ SearchFails
    <3>1. PICK s \in searches :
            \/ searches' = (searches \ {s}) \cup {[s EXCEPT !.answer = Found(s.query, s.path)]}
            \/ searches' = (searches \ {s}) \cup {[s EXCEPT !.bad = TRUE]}
      BY <2>3 DEF SearchAnswered, SearchFails
    <3>2. s \in SearchTypes /\ Found(s.query, s.path) \in Answer
      BY <1>1, ListingsAreNodes
    <3>3. /\ [s EXCEPT !.answer = Found(s.query, s.path)] \in SearchTypes
          /\ [s EXCEPT !.bad = TRUE] \in SearchTypes
      BY <3>2 DEF SearchTypes
    <3> QED BY <1>1, <3>1, <3>3
  <2>4. CASE SearchArrives
    BY <1>1, <2>4 DEF SearchArrives
  <2> QED BY <1>4, <2>1, <2>2, <2>3, <2>4 DEF Finds
<1>5. CASE Reloads \/ Answers \/ Serves \/ Calls \/ Clips \/ Windows \/ Apart \/ ListArrives \/ CallReturns
  BY <1>1, <1>5, Frames DEF net
<1> QED BY <1>3, <1>4, <1>5, NextSteps
LEMMA FindTypeKept ==
  ASSUME TypesInv, [BrowserNext]_bvars
  PROVE  find' \in FindTypes
<1>1. ScreenInv /\ find \in FindTypes /\ searches \subseteq SearchTypes
  BY DEF TypesInv, ScreenInv, CallsInv
<1>2. NoFind \in FindTypes
  BY DEF NoFind, FindTypes, Answer
<1>3. CASE Navigates
  <2>1. UNCHANGED find \/ find' = NoFind
    BY <1>1, <1>3, NavigationLeads DEF Leads, Previews, Navigate
  <2> QED BY <1>1, <1>2, <2>1
<1>4. CASE Finds
  <2>1. CASE Type
    <3>1. \/ find' = NoFind
          \/ \E q \in Query : find' = [find EXCEPT !.query = q, !.timer = TRUE]
      BY <2>1 DEF Type
    <3> QED BY <1>1, <1>2, <3>1 DEF FindTypes
  <2>2. CASE SearchRetry \/ SearchTimer
    <3>1. find' \in {[find EXCEPT !.timer = TRUE], [find EXCEPT !.timer = FALSE, !.results = None]}
      BY <2>2 DEF SearchRetry, SearchTimer
    <3> QED BY <1>1, <3>1 DEF FindTypes, Answer
  <2>3. CASE SearchAnswered \/ SearchFails
    BY <1>1, <2>3 DEF SearchAnswered, SearchFails
  <2>4. CASE SearchArrives
    <3>1. PICK s \in searches :
            \/ UNCHANGED find
            \/ find' = [find EXCEPT !.failed = s.bad, !.results = IF s.bad THEN None ELSE s.answer]
      BY <2>4 DEF SearchArrives
    <3>2. s.bad \in BOOLEAN /\ s.answer \in Answer /\ None \in Answer
      BY <1>1 DEF SearchTypes, Answer
    <3> QED BY <1>1, <3>1, <3>2 DEF FindTypes
  <2> QED BY <1>4, <2>1, <2>2, <2>3, <2>4 DEF Finds
<1>5. CASE Reloads \/ Answers \/ Serves \/ Calls \/ Clips \/ Windows \/ Apart \/ ListArrives \/ CallReturns
  BY <1>1, <1>5, Frames
<1> QED BY <1>3, <1>4, <1>5, NextSteps

\* A search counts only while there is a term in the field.
LEMMA FieldKept ==
  ASSUME TypesInv, [BrowserNext]_bvars
  PROVE  FieldInv'
<1>1. ScreenInv /\ CallsInv /\ FieldInv /\ find \in FindTypes /\ searches \subseteq SearchTypes
  BY DEF TypesInv, ScreenInv, CallsInv
<1>2. ASSUME find' = NoFind, searches' = EndSearches PROVE FieldInv'
  <2>1. find'.timer = FALSE /\ find'.failed = FALSE /\ find'.results = None
    BY <1>2 DEF NoFind
  <2> QED BY <1>1, <1>2, <2>1, OutdatedTypes DEF FieldInv, EndSearches
<1>3. ASSUME UNCHANGED <<find, searches>> PROVE FieldInv'
  BY <1>1, <1>3 DEF FieldInv
<1>4. CASE Navigates
  <2>1. UNCHANGED <<find, searches>> \/ (find' = NoFind /\ searches' = EndSearches)
    BY <1>1, <1>4, NavigationLeads DEF Leads, Previews, Navigate
  <2> QED BY <1>2, <1>3, <2>1
<1>5. CASE Type
  <2>1. \/ find' = NoFind /\ searches' = EndSearches
        \/ \E q \in Query : q # None /\ find' = [find EXCEPT !.query = q, !.timer = TRUE]
    BY <1>5 DEF Type
  <2>2. CASE \E q \in Query : q # None /\ find' = [find EXCEPT !.query = q, !.timer = TRUE]
    <3>1. find'.query # None
      BY <1>1, <2>2 DEF FindTypes
    <3> QED BY <3>1 DEF FieldInv
  <2> QED BY <1>2, <2>1, <2>2
<1>6. CASE SearchRetry \/ SearchTimer
  <2>1. find.query # None
    BY <1>1, <1>6 DEF SearchRetry, SearchTimer, FieldInv
  <2>2. find' \in {[find EXCEPT !.timer = TRUE], [find EXCEPT !.timer = FALSE, !.results = None]}
    BY <1>6 DEF SearchRetry, SearchTimer
  <2>3. find'.query = find.query
    BY <1>1, <2>2 DEF FindTypes
  <2> QED BY <2>1, <2>3 DEF FieldInv
<1>7. CASE SearchAnswered \/ SearchFails
  <2>1. UNCHANGED find
    BY <1>7 DEF SearchAnswered, SearchFails
  <2>2. PICK s \in searches :
          \/ searches' = (searches \ {s}) \cup {[s EXCEPT !.answer = Found(s.query, s.path)]}
          \/ searches' = (searches \ {s}) \cup {[s EXCEPT !.bad = TRUE]}
    BY <1>7 DEF SearchAnswered, SearchFails
  <2>3. /\ [s EXCEPT !.answer = Found(s.query, s.path)].latest = s.latest
        /\ [s EXCEPT !.bad = TRUE].latest = s.latest
    BY <1>1 DEF SearchTypes
  <2>4. (\E r \in searches' : r.latest) => \E r \in searches : r.latest
    BY <2>2, <2>3
  <2> QED BY <1>1, <2>1, <2>4 DEF FieldInv
<1>8. CASE SearchArrives
  <2>1. PICK s \in searches :
          /\ searches' = searches \ {s}
          /\ find' = IF s.latest
                     THEN [find EXCEPT !.failed = s.bad, !.results = IF s.bad THEN None ELSE s.answer]
                     ELSE find
    BY <1>8 DEF SearchArrives
  <2>2. find'.query = find.query
    BY <1>1, <2>1 DEF FindTypes
  <2>3. CASE s.latest
    BY <1>1, <2>2, <2>3 DEF FieldInv
  <2>4. CASE ~s.latest
    BY <1>1, <2>1, <2>4 DEF FieldInv
  <2> QED BY <2>3, <2>4
<1>9. CASE Reloads \/ Answers \/ Serves \/ Calls \/ Clips \/ Windows \/ Apart \/ ListArrives \/ CallReturns
  BY <1>3, <1>9, Frames DEF net
<1> QED BY <1>4, <1>5, <1>6, <1>7, <1>8, <1>9, NextSteps DEF Finds

\* The history leads along folders.
LEMMA HistKept ==
  ASSUME TypesInv, BrowserInv, [BrowserNext]_bvars
  PROVE  hist'.list \in Seq(Folder) /\ hist'.at \in 1..Len(hist'.list)
<1>1. BrowserInv'
  BY NextKeepsInv
<1>2. ScreenInv /\ hist.list \in Seq(Folder) /\ hist.at \in 1..Len(hist.list)
  BY DEF TypesInv, ScreenInv
<1>3. hist'.list \in Seq(Folder)
  <2>1. CASE Navigates
    <3>1. CASE \E path : Leads(path)
      <4>1. PICK path \in Folder :
              hist' \in {hist, Pushed(path)} \/ \E to \in 1..Len(hist.list) : hist' = [hist EXCEPT !.at = to]
        BY <3>1 DEF Leads
      <4>2. Pushed(path).list \in Seq(Folder)
        <5>1. SubSeq(hist.list, 1, hist.at) \in Seq(Folder)
          BY <1>2, PrefixProperties
        <5> QED BY <4>1, <5>1 DEF Pushed
      <4>3. \A to : [hist EXCEPT !.at = to].list = hist.list
        BY DEF BrowserInv, HistOk
      <4> QED BY <1>2, <4>1, <4>2, <4>3
    <3>2. CASE \E n : Previews(n)
      BY <1>2, <3>2 DEF Previews
    <3> QED BY <1>2, <2>1, <3>1, <3>2, NavigationLeads
  <2>2. CASE Reloads \/ Answers \/ Serves \/ Calls \/ Clips \/ Windows \/ Finds \/ Apart
               \/ ListArrives \/ CallReturns
    BY <1>2, <2>2, Frames
  <2> QED BY <2>1, <2>2, NextSteps
<1>4. hist'.at \in 1..Len(hist'.list)
  BY <1>1 DEF BrowserInv, HistOk
<1> QED BY <1>3, <1>4
\* What is cut, copied or deleted: the topmost of the chosen nodes.
LEMMA TopLevelPaths ==
  ASSUME NEW S, S \subseteq Node
  PROVE  /\ TopLevel(S) \subseteq Path
         /\ \A p, q \in TopLevel(S) : ~Under(p, q)
         /\ S # {} => TopLevel(S) # {}
<1>1. \A p \in TopLevel(S) :
        \E n \in S : p = n.path /\ ~\E m \in S : Under(m.path, n.path)
  BY DEF TopLevel
<1>2. TopLevel(S) \subseteq Path
  BY <1>1 DEF Node
<1>3. \A p, q \in TopLevel(S) : ~Under(p, q)
  BY <1>1
<1>4. ASSUME S # {} PROVE TopLevel(S) # {}
  <2> DEFINE T == {n.path : n \in S}
  <2>1. T \subseteq Seq(Name) /\ T # {}
    BY <1>4 DEF Node, Path
  <2>2. PICK a \in T : \A b \in T : ~Under(b, a)
    BY <2>1, TopmostPath
  <2>3. PICK n \in S : n.path = a
    OBVIOUS
  <2>4. \A m \in S : ~Under(m.path, n.path)
    BY <2>2, <2>3
  <2> QED BY <2>4 DEF TopLevel
<1> QED BY <1>2, <1>3, <1>4

LEMMA ClipKept ==
  ASSUME TypesInv, [BrowserNext]_bvars
  PROVE  clip' # None => ClipOk(clip')
<1>1. ScreenInv /\ (clip # None => ClipOk(clip))
  BY DEF TypesInv, ScreenInv
<1>2. CASE Clips
  <2>1. PICK op \in {"move", "copy"} : PutInClipboard(op)
    BY <1>2 DEF Clips, Cut, Copy
  <2>2. CASE Chosen = {}
    BY <1>1, <2>1, <2>2 DEF PutInClipboard
  <2>3. CASE Chosen # {}
    <3> DEFINE c == [op |-> op, paths |-> TopLevel(Chosen)]
    <3>1. clip' = c
      BY <2>1, <2>3 DEF PutInClipboard
    <3>2. /\ TopLevel(Chosen) \subseteq Path /\ TopLevel(Chosen) # {}
          /\ \A p, q \in TopLevel(Chosen) : ~Under(p, q)
      BY <1>1, <2>3, ShownAreNodes, TopLevelPaths
    <3>3. ClipOk(c)
      BY <3>2 DEF ClipOk
    <3> QED BY <3>1, <3>3
  <2> QED BY <2>2, <2>3
<1>3. CASE CallReturns
  <2>1. clip' \in {clip, None}
    BY <1>3 DEF CallReturns, ClipAfter
  <2> QED BY <1>1, <2>1
<1>4. CASE Navigates \/ Reloads \/ Answers \/ Serves \/ Calls \/ Windows \/ Finds \/ Apart \/ ListArrives
  BY <1>1, <1>4, Frames
<1> QED BY <1>2, <1>3, <1>4, NextSteps

\* Only nodes on the screen get a window.
LEMMA WinKept ==
  ASSUME TypesInv, [BrowserNext]_bvars
  PROVE  win' \in WinTypes
<1>1. ScreenInv /\ win \in WinTypes
  BY DEF TypesInv, ScreenInv
<1> DEFINE closed == {[win EXCEPT !.input = None], [win EXCEPT !.rename = None],
                      [win EXCEPT !.preview = None], [win EXCEPT !.context = None],
                      [win EXCEPT !.share = None], [win EXCEPT !.menu = FALSE],
                      [win EXCEPT !.menu = TRUE], [win EXCEPT !.menu = FALSE, !.context = None]}
<1>2. closed \subseteq WinTypes
  <2>1. None \in Item
    BY DEF Item
  <2> QED BY <1>1, <2>1 DEF WinTypes
<1>3. CASE Navigates
  <2>1. \/ UNCHANGED win
        \/ win' = [win EXCEPT !.menu = FALSE, !.context = None, !.rename = None, !.preview = None]
        \/ \E n \in Node : win' = [win EXCEPT !.preview = n, !.context = None]
    BY <1>1, <1>3, NavigationLeads DEF Leads, Previews, Navigate
  <2>2. None \in Item /\ \A n \in Node : n \in Item
    BY DEF Item
  <2> QED BY <1>1, <2>1, <2>2 DEF WinTypes
<1>4. CASE Reloads
  <2>1. win' \in {win, [win EXCEPT !.share = None]}
    BY <1>4 DEF Reloads, PushTimer, Refresh, ShareClosed, PreviewEdited
  <2> QED BY <1>1, <1>2, <2>1
<1>5. CASE Calls
  <2>1. win' \in {win, [win EXCEPT !.context = None], [win EXCEPT !.input = None],
                  [win EXCEPT !.rename = None]}
    BY <1>5 DEF Calls, Delete, Paste, Upload, ConfirmInput, ConfirmRename
  <2> QED BY <1>1, <1>2, <2>1
<1>6. CASE Clips
  <2>1. win' \in {win, [win EXCEPT !.context = None]}
    BY <1>6 DEF Clips, Cut, Copy, ByKeyOrMenu
  <2> QED BY <1>1, <1>2, <2>1
<1>7. CASE CallReturns
  <2>1. PICK o \in ops :
          win' = [win EXCEPT !.rename = IF o.op = "rename" THEN None ELSE @,
                             !.menu = @ /\ ~(o.op = "mkdir" /\ ~Failed(o))]
    BY <1>7 DEF CallReturns
  <2> DEFINE rename == IF o.op = "rename" THEN None ELSE win.rename
             menu == win.menu /\ ~(o.op = "mkdir" /\ ~Failed(o))
  <2>2. rename \in Item /\ menu \in BOOLEAN
    BY <1>1 DEF WinTypes, Item
  <2>3. win' = [win EXCEPT !.rename = rename, !.menu = menu]
    BY <2>1
  <2> HIDE DEF rename, menu
  <2> QED BY <1>1, <2>2, <2>3 DEF WinTypes
<1>8. CASE Windows
  <2>1. CASE ContextMenu
    <3>1. PICK n \in Node : win' = [win EXCEPT !.context = n]
      BY <1>1, <2>1, ShownAreNodes DEF ContextMenu
    <3> QED BY <1>1, <3>1 DEF WinTypes, Item
  <2>2. CASE MenuRename \/ MenuShare
    <3>1. win' \in {[win EXCEPT !.rename = win.context, !.context = None],
                    [win EXCEPT !.share = win.context, !.context = None]}
      BY <2>2 DEF MenuRename, MenuShare, Window
    <3>2. win.context \in Item /\ None \in Item
      BY <1>1 DEF WinTypes, Item
    <3> QED BY <1>1, <3>1, <3>2 DEF WinTypes
  <2>3. CASE NewMenu \/ NewItem
    <3>1. \/ win' = [win EXCEPT !.menu = TRUE]
          \/ \E kind \in {"folder", "file"} : win' = [win EXCEPT !.menu = FALSE, !.input = kind]
      BY <2>3 DEF NewMenu, NewItem, Window
    <3> QED BY <1>1, <3>1 DEF WinTypes
  <2>4. CASE Dismiss
    <3>1. win' \in closed
      BY <2>4 DEF Dismiss, Window
    <3> QED BY <1>2, <3>1
  <2>5. CASE PreviewShare
    <3>1. win' = [win EXCEPT !.preview = None, !.share = win.preview]
      BY <2>5 DEF PreviewShare, Window
    <3>2. win.preview \in Item /\ None \in Item
      BY <1>1 DEF WinTypes, Item
    <3> QED BY <1>1, <3>1, <3>2 DEF WinTypes
  <2>6. CASE Escape
    <3>1. win' \in closed \cup {win}
      BY <2>6 DEF Escape, TopWindow, EscapeTo
    <3> QED BY <1>1, <1>2, <3>1
  <2> QED BY <1>8, <2>1, <2>2, <2>3, <2>4, <2>5, <2>6 DEF Windows
<1>9. CASE Answers \/ Serves \/ Finds \/ Apart \/ ListArrives
  BY <1>1, <1>9, Frames
<1> QED BY <1>3, <1>4, <1>5, <1>6, <1>7, <1>8, <1>9, NextSteps
\* A call is made with paths of nodes, and the server takes them one by one.
NewCall(op, paths, to) ==
  [op |-> op, paths |-> paths, left |-> paths, to |-> to, from |-> view.path,
   missed |-> FALSE, lost |-> FALSE]

LEMMA NewCallOk ==
  ASSUME ScreenInv, NEW op \in Ops, NEW paths \in SUBSET Path, NEW to \in Folder,
         op = "rename" => to \in Path, NEW lost \in BOOLEAN
  PROVE  CallOk([op |-> op, paths |-> paths, left |-> paths, to |-> to, from |-> view.path,
                 missed |-> FALSE, lost |-> lost])
<1>1. view.path \in Folder
  BY DEF ScreenInv, ViewTypes
<1> QED BY <1>1 DEF CallOk, CallType

LEMMA ServedOk ==
  ASSUME NEW o, CallOk(o), NEW p
  PROVE  /\ CallOk([o EXCEPT !.left = @ \ {p}])
         /\ CallOk([o EXCEPT !.left = @ \ {p}, !.missed = TRUE])
         /\ CallOk([[o EXCEPT !.left = @ \ {p}] EXCEPT !.missed = TRUE])
         /\ CallOk([o EXCEPT !.lost = TRUE])
<1> DEFINE left == o.left \ {p}
<1>1. o \in CallType /\ left \subseteq Path /\ left \subseteq o.paths
  BY DEF CallOk, CallType
<1> HIDE DEF left
<1>2. /\ CallOk([o EXCEPT !.left = left])
      /\ CallOk([o EXCEPT !.left = left, !.missed = TRUE])
      /\ CallOk([[o EXCEPT !.left = left] EXCEPT !.missed = TRUE])
  BY <1>1 DEF CallOk, CallType
<1>3. CallOk([o EXCEPT !.lost = TRUE])
  BY DEF CallOk, CallType
<1> QED BY <1>2, <1>3 DEF left

LEMMA CallsOk ==
  ASSUME TypesInv, [BrowserNext]_bvars, NEW o \in ops'
  PROVE  CallOk(o)
<1>1. ScreenInv /\ \A c \in ops : CallOk(c)
  BY DEF TypesInv, CallsInv
<1>2. CASE Serves
  <2>1. PICK c \in ops : \E p :
          ops' \in {(ops \ {c}) \cup {[c EXCEPT !.left = @ \ {p}]},
                    (ops \ {c}) \cup {[c EXCEPT !.left = @ \ {p}, !.missed = TRUE]},
                    (ops \ {c}) \cup {[[c EXCEPT !.left = @ \ {p}] EXCEPT !.missed = TRUE]},
                    (ops \ {c}) \cup {[c EXCEPT !.lost = TRUE]}}
    <3>1. CASE Serve
      BY <3>1 DEF Serve
    <3>2. CASE ServeFails
      BY <3>2 DEF ServeFails
    <3> QED BY <1>2, <3>1, <3>2 DEF Serves
  <2>2. PICK p : ops' \in {(ops \ {c}) \cup {[c EXCEPT !.left = @ \ {p}]},
                          (ops \ {c}) \cup {[c EXCEPT !.left = @ \ {p}, !.missed = TRUE]},
                          (ops \ {c}) \cup {[[c EXCEPT !.left = @ \ {p}] EXCEPT !.missed = TRUE]},
                          (ops \ {c}) \cup {[c EXCEPT !.lost = TRUE]}}
    BY <2>1
  <2>3. PICK d : CallOk(d) /\ ops' = (ops \ {c}) \cup {d}
    BY <1>1, <2>2, ServedOk
  <2> QED BY <1>1, <2>3
<1>3. CASE Calls
  <2>1. view.path \in Folder
    BY <1>1 DEF ScreenInv, ViewTypes
  <2>2. \A n \in NewNames : view.path \o <<n>> \in Path
    BY <2>1, JoinedPath, SpareAssumption
  <2>3. ASSUME NEW op \in Ops, NEW paths \in SUBSET Path, NEW to \in Folder,
               op = "rename" => to \in Path, Call(op, paths, to)
        PROVE  CallOk(o)
    <3>1. o \in ops \/ o = NewCall(op, paths, to)
      BY <2>3 DEF Call, NewCall
    <3> QED BY <1>1, <2>3, <3>1, NewCallOk DEF NewCall
  <2>4. CASE Delete
    <3> DEFINE c == [op |-> "delete", paths |-> TopLevel(Chosen), left |-> TopLevel(Chosen),
                     to |-> <<>>, from |-> view.path, missed |-> FALSE, lost |-> Chosen = {}]
    <3>1. o \in ops \/ o = c
      BY <2>4 DEF Delete
    <3>2. TopLevel(Chosen) \in SUBSET Path /\ <<>> \in Folder /\ (Chosen = {}) \in BOOLEAN
      BY <1>1, ShownAreNodes, TopLevelPaths DEF Folder
    <3>3. "delete" \in Ops
      BY DEF Ops
    <3>4. CallOk(c)
      BY <1>1, <3>2, <3>3, NewCallOk
    <3> QED BY <1>1, <3>1, <3>4
  <2>5. CASE Paste
    <3>1. ClipOk(clip) /\ Call(clip.op, clip.paths, view.path)
      BY <1>1, <2>5 DEF Paste, ScreenInv
    <3>2. clip.op \in Ops /\ clip.op # "rename" /\ clip.paths \in SUBSET Path
      BY <3>1 DEF ClipOk, Ops
    <3> QED BY <2>1, <2>3, <3>1, <3>2
  <2>6. CASE Upload
    <3>1. PICK kind \in {"upload", "uploadPaths"}, S \in {{n} : n \in NewNames} \cup {NewNames} :
            Call(kind, {view.path \o <<n>> : n \in S}, view.path)
      BY <2>6 DEF Upload
    <3>2. {view.path \o <<n>> : n \in S} \in SUBSET Path
      BY <2>2
    <3>3. kind \in Ops /\ kind # "rename"
      BY DEF Ops
    <3> QED BY <2>1, <2>3, <3>1, <3>2, <3>3
  <2>7. CASE ConfirmInput
    <3>1. PICK n \in NewNames :
            Call(IF win.input = "folder" THEN "mkdir" ELSE "create", {view.path \o <<n>>}, view.path)
      BY <2>7 DEF ConfirmInput
    <3>2. {view.path \o <<n>>} \in SUBSET Path
      BY <2>2
    <3>3. (IF win.input = "folder" THEN "mkdir" ELSE "create") \in Ops \ {"rename"}
      BY DEF Ops
    <3> QED BY <2>1, <2>3, <3>1, <3>2, <3>3
  <2>8. CASE ConfirmRename
    <3>1. PICK n \in NewNames :
            UNCHANGED ops \/ Call("rename", {win.rename.path}, Parent(win.rename.path) \o <<n>>)
      BY <2>8 DEF ConfirmRename, net
    <3>2. win.rename \in Node
      BY <1>1, <2>8 DEF ConfirmRename, ScreenInv, WinTypes, Item
    <3>3. win.rename.path \in Path
      BY <3>2 DEF Node
    <3>4. Parent(win.rename.path) \in Folder
      BY <3>3, ParentProperties DEF Path, Folder
    <3>5. Parent(win.rename.path) \o <<n>> \in Path
      BY <3>4, JoinedPath, SpareAssumption
    <3>6. Parent(win.rename.path) \o <<n>> \in Folder /\ {win.rename.path} \in SUBSET Path
      BY <3>3, <3>5 DEF Path, Folder
    <3>7. "rename" \in Ops
      BY DEF Ops
    <3>8. CASE UNCHANGED ops
      BY <1>1, <3>8
    <3> QED BY <2>3, <3>1, <3>5, <3>6, <3>7, <3>8
  <2> QED BY <1>3, <2>4, <2>5, <2>6, <2>7, <2>8 DEF Calls
<1>4. CASE CallReturns
  BY <1>1, <1>4 DEF CallReturns
<1>5. CASE Navigates \/ Reloads \/ Answers \/ Clips \/ Windows \/ Finds \/ Apart \/ ListArrives
  BY <1>1, <1>5, Frames DEF net
<1> QED BY <1>2, <1>3, <1>4, <1>5, NextSteps
LEMMA TypesAtStart == ASSUME BrowserInit PROVE TypesInv
<1>1. ServerInv
  BY ServerStart
<1>2. <<>> \in Folder
  BY DEF Folder
<1>3. view \in ViewTypes /\ view.path = <<>>
  BY <1>2 DEF BrowserInit, ViewTypes
<1>4. find \in FindTypes /\ win \in WinTypes /\ clip = None
  BY DEF BrowserInit, NoFind, FindTypes, NoWindow, WinTypes, Item, Answer
<1>5. hist.list \in Seq(Folder) /\ hist.at \in 1..Len(hist.list)
  <2>1. hist.list = << <<>> >> /\ hist.at = 1
    BY DEF BrowserInit
  <2> QED BY <1>2, <2>1
<1>6. loads \subseteq LoadTypes /\ searches = {} /\ ops = {}
  BY <1>2 DEF BrowserInit, LoadTypes, Answer
<1>7. FieldInv
  BY <1>6 DEF BrowserInit, NoFind, FieldInv
<1> QED BY <1>1, <1>3, <1>4, <1>5, <1>6, <1>7 DEF TypesInv, ScreenInv, CallsInv

LEMMA TypesKept ==
  ASSUME TypesInv, BrowserInv, [BrowserNext]_bvars
  PROVE  TypesInv'
<1>1. ServerInv'
  BY ServerKept DEF TypesInv, CallsInv
<1>2. ScreenInv'
  BY ViewTypeKept, FindTypeKept, WinKept, HistKept, ClipKept
     DEF ScreenInv, ViewTypes, FindTypes, WinTypes, Answer, Item, Node, Folder, Path, ClipOk, Under
<1>3. CallsInv'
  BY LoadTypesKept, SearchTypesKept, CallsOk
     DEF CallsInv, LoadTypes, SearchTypes, Answer, Node, Folder, Path, CallOk, CallType, Ops
<1>4. FieldInv'
  BY FieldKept
<1> QED BY <1>1, <1>2, <1>3, <1>4 DEF TypesInv

LEMMA TypesHold == BrowserSpec => [](BrowserInv /\ TypesInv)
<1>1. BrowserInit => BrowserInv /\ TypesInv
  BY InitHasInv, TypesAtStart
<1>2. BrowserInv /\ TypesInv /\ [BrowserNext]_bvars => (BrowserInv /\ TypesInv)'
  BY NextKeepsInv, TypesKept
<1> QED BY <1>1, <1>2, PTL DEF BrowserSpec

\* The account is a tree after every change, this client's and others', whose
\* nodes keep ids of their own; what is in the clipboard is never empty and
\* lists no path below another (topLevelPaths in LozaTab.tsx); and the search
\* shows and waits for nothing once its field is empty.
THEOREM BrowserTypeCorrect == BrowserSpec => []BrowserTypeOK
<1>1. TypesInv => BrowserTypeOK
  <2> SUFFICES ASSUME TypesInv PROVE BrowserTypeOK
    OBVIOUS
  <2>1. /\ tree \subseteq Node /\ \A m, n \in tree : (m.path = n.path \/ m.id = n.id) => m = n
    BY DEF TypesInv, ServerInv, TreeOk
  <2>2. ASSUME NEW n \in tree, Parent(n.path) # <<>>
        PROVE  \E d \in At(Parent(n.path)) : d.dir
    <3>1. TreeOk(tree)
      BY DEF TypesInv, ServerInv
    <3>2. n.path \in Folder /\ n.path # <<>>
      BY <3>1, Nodes
    <3>3. Parent(n.path) \in Folder /\ Under(Parent(n.path), n.path)
      BY <3>2, ParentProperties, UnderParent DEF Folder
    <3>4. PICK d \in tree : d.path = Parent(n.path) /\ d.dir
      BY <2>2, <3>1, <3>3, AboveIsDir
    <3> QED BY <3>4 DEF At
  <2>3. view.path \in Seq(Name) /\ view.loading \in BOOLEAN /\ view.error \in BOOLEAN
    BY DEF TypesInv, ScreenInv, ViewTypes, Folder
  <2>4. clip # None => clip.op \in {"move", "copy"} /\ clip.paths # {}
                        /\ \A p, q \in clip.paths : ~Under(p, q)
    BY DEF TypesInv, ScreenInv, ClipOk
  <2>5. (find.timer \/ find.failed \/ find.results # None) => find.query # None
    BY DEF TypesInv, FieldInv
  <2>6. \A o \in ops : o.left \subseteq o.paths
    BY DEF TypesInv, CallsInv, CallOk
  <2> QED BY <2>1, <2>2, <2>3, <2>4, <2>5, <2>6 DEF BrowserTypeOK, Node
<1> QED BY <1>1, TypesHold, PTL

-----------------------------------------------------------------------------
(* Every change of the server is one of LozaTree's.                         *)

LEMMA ChangeIsTrees ==
  ASSUME TreePaths = Path, ServerInv, [BrowserNext]_bvars, \A o \in ops : CallOk(o)
  PROVE  [Tree!TreeNext]_Entries
<1>1. ASSUME NEW p \in Path, NEW t \in Removed(p), tree' = t PROVE Tree!TreeNext
  BY <1>1, RemovedDrops DEF Tree!TreeNext
<1>2. ASSUME NEW p \in Path, NEW dir \in BOOLEAN, NEW t \in Made(p, dir), tree' = t
      PROVE  Tree!TreeNext
  <2>1. IF dir THEN Tree!AddDir(p) ELSE Tree!Put(p, TRUE)
    BY <1>2, MadeAdds
  <2> QED BY <2>1 DEF Tree!TreeNext
<1>3. ASSUME NEW p \in Path, NEW q \in Path, NEW t \in Moved(p, q), tree' = t
      PROVE  Tree!TreeNext
  BY <1>3, MovedMoves DEF Tree!TreeNext
<1>4. ASSUME UNCHANGED tree PROVE UNCHANGED Entries
  BY <1>4 DEF Entries, Entry
<1>5. CASE Serve
  <2>1. CASE UNCHANGED server
    BY <1>4, <2>1 DEF server
  <2>2. CASE ~UNCHANGED server
    <3>1. PICK o \in ops : \E p \in o.left : \E t \in After(o, p) : Change(t)
      BY <1>5, <2>2 DEF Serve
    <3>2. PICK p \in o.left : \E t \in After(o, p) : Change(t)
      BY <3>1
    <3>3. PICK t \in After(o, p) : tree' = t
      BY <3>2 DEF Change
    <3>4. p \in Path /\ o.to \in Folder /\ o.op \in Ops
      BY DEF CallOk, CallType
    <3>5. CASE o.op = "delete"
      BY <1>1, <3>3, <3>4, <3>5 DEF After
    <3>6. CASE o.op = "move"
      <4>1. t = tree \/ \E q \in Names(p, o.to) : t \in Moved(p, q)
        BY <3>3, <3>6 DEF After
      <4> QED BY <1>3, <1>4, <3>3, <3>4, <4>1, NamesArePaths
    <3>7. CASE o.op = "copy"
      <4>1. PICK q \in Names(p, o.to) : t \in Copied(p, q)
        BY <3>3, <3>7 DEF After
      <4>2. PICK n \in At(p) : t \in Made(q, n.dir)
        BY <4>1 DEF Copied
      <4>3. n.dir \in BOOLEAN
        BY Nodes DEF At, ServerInv
      <4> QED BY <1>2, <3>3, <3>4, <4>1, <4>2, <4>3, NamesArePaths
    <3>8. CASE o.op = "rename"
      BY <1>3, <3>3, <3>4, <3>8 DEF After, CallOk
    <3>9. CASE o.op = "mkdir"
      BY <1>2, <3>3, <3>4, <3>9 DEF After
    <3>10. CASE o.op \in {"create", "upload", "uploadPaths"}
      BY <1>2, <3>3, <3>4, <3>10 DEF After
    <3> QED BY <3>4, <3>5, <3>6, <3>7, <3>8, <3>9, <3>10 DEF Ops
  <2> QED BY <2>1, <2>2
<1>6. CASE OtherClient
  <2>1. PICK t : OtherLeaves(t) /\ tree' = t
    BY <1>6, OtherClientLeaves DEF Change
  <2>2. PICK n \in tree : \/ t \in Removed(n.path)
                          \/ \E m \in NewNames : \/ t \in Moved(n.path, Parent(n.path) \o <<m>>)
                                                 \/ t \in Made(Parent(n.path) \o <<m>>, FALSE)
    BY <2>1 DEF OtherLeaves
  <2>3. n.path \in Path
    BY Nodes DEF ServerInv, Path, Folder
  <2>4. Parent(n.path) \in Folder
    BY <2>3, ParentProperties DEF Path, Folder
  <2>5. \A m \in NewNames : Parent(n.path) \o <<m>> \in Path
    BY <2>4, JoinedPath, SpareAssumption
  <2> QED BY <1>1, <1>2, <1>3, <2>1, <2>2, <2>3, <2>5
<1>7. CASE ~Serve /\ ~OtherClient
  BY <1>4, <1>7, OnlyTheseChangeTheServer DEF server
<1> QED BY <1>5, <1>6, <1>7

\* The server the browser works against is the tree that the file API
\* promises: each item of a batch, each upload and each change by another
\* client is one request to LozaTree, or changes nothing.
THEOREM ServerIsATree ==
  ASSUME TreePaths = Path
  PROVE  BrowserSpec => ServerIsTree
<1>1. BrowserInit => Tree!TreeInit
  <2> SUFFICES ASSUME BrowserInit PROVE Tree!TreeInit
    OBVIOUS
  <2>1. \A n \in tree : n.path \in Path /\ n.dir \in BOOLEAN
    BY ServerStart DEF ServerInv, TreeOk, Node
  <2>2. ASSUME NEW e \in Entries
        PROVE  e \in [path: TreePaths, dir: BOOLEAN, data: {TRUE} \cup {FALSE}]
    <3>1. PICK n \in tree : e = [path |-> n.path, dir |-> n.dir, data |-> ~n.dir]
      BY DEF Entries, Entry
    <3>2. (~n.dir) \in {TRUE} \cup {FALSE}
      BY <2>1
    <3> DEFINE data == ~n.dir
    <3>3. e = [path |-> n.path, dir |-> n.dir, data |-> data] /\ data \in {TRUE} \cup {FALSE}
      BY <3>1, <3>2
    <3> HIDE DEF data
    <3> QED BY <2>1, <3>3
  <2> QED BY <2>2 DEF Tree!TreeInit
<1>2. TypesInv /\ [BrowserNext]_bvars => [Tree!TreeNext]_Entries
  BY ChangeIsTrees DEF TypesInv, CallsInv
<1> QED BY <1>1, <1>2, TypesHold, PTL DEF BrowserSpec, ServerIsTree, Tree!TreeSpec
-----------------------------------------------------------------------------
(* The listing when nothing is under way.                                   *)

\* Unless a notification is on its way, or something strayed, the newest
\* request asks for the open folder and an answer it has is still true; if
\* none is on its way, what is shown is true, or an error is shown.
ListingTrue ==
  IF \E l \in loads : l.latest
  THEN \A l \in loads : l.latest =>
         /\ l.path = view.path
         /\ l.answer = None \/ l.bad \/ l.answer = Listing(view.path)
  ELSE view.error \/ view.files = Listing(view.path)

FreshInv ==
  /\ push \in [sent: BOOLEAN, timer: BOOLEAN]
  /\ strayed \/ push.sent \/ push.timer \/ ListingTrue

LEMMA StartedIsLatest ==
  ASSUME CallsInv, NEW path, NEW err, StartLoad(path, err)
  PROVE  /\ \E l \in loads' : l.latest
         /\ \A l \in loads' : l.latest => l.path = path /\ l.answer = None
<1> DEFINE Old(l) == [l EXCEPT !.latest = FALSE]
           r == Request(path, err)
<1>1. r.latest /\ r.path = path /\ r.answer = None
  BY DEF Request
<1>2. loads' = {Old(l) : l \in loads} \cup {r}
  BY DEF StartLoad, Outdated, Request
<1>3. \A l \in loads : ~Old(l).latest
  BY DEF CallsInv, LoadTypes
<1> HIDE DEF Old, r
<1>4. \A l \in loads' : l = r \/ \E k \in loads : l = Old(k)
  BY <1>2
<1>5. r \in loads'
  BY <1>2
<1> QED BY <1>1, <1>3, <1>4, <1>5

\* A request for the folder that is open makes up for everything before it.
LEMMA StartedIsTrue ==
  ASSUME CallsInv, NEW path, NEW err, StartLoad(path, err), view'.path = path
  PROVE  ListingTrue'
BY StartedIsLatest DEF ListingTrue

LEMMA ListingUnchanged ==
  ASSUME FreshInv, UNCHANGED <<tree, view, loads, push, strayed>>
  PROVE  FreshInv'
<1>1. Listing(view.path)' = Listing(view.path)
  BY DEF Listing
<1>2. ListingTrue' = ListingTrue
  BY <1>1 DEF ListingTrue
<1> QED BY <1>2 DEF FreshInv

LEMMA ArrivedIsTrue ==
  ASSUME TypesInv, BrowserInv, FreshInv, ListArrives
  PROVE  FreshInv'
<1>1. PICK l \in loads :
        /\ l.answer # None \/ l.bad
        /\ loads' = loads \ {l}
        /\ view' = [view EXCEPT
             !.files   = IF Applies(l) /\ ~l.bad THEN l.answer ELSE @,
             !.error   = @ \/ l.err \/ (Applies(l) /\ l.bad),
             !.loading = @ /\ ~EndsLoading(l)]
  BY DEF ListArrives
<1>2. UNCHANGED <<tree, push, strayed>>
  BY DEF ListArrives, server
<1>3. view \in ViewTypes
  BY DEF TypesInv, ScreenInv
<1>4. /\ view'.path = view.path
      /\ view'.files = IF Applies(l) /\ ~l.bad THEN l.answer ELSE view.files
      /\ view'.error = (view.error \/ l.err \/ (Applies(l) /\ l.bad))
  BY <1>1, <1>3 DEF ViewTypes
<1>5. \A k, m \in loads : k.latest /\ m.latest => k = m
  BY DEF BrowserInv, LoadsOk
<1>6. Listing(view.path)' = Listing(view.path)
  BY <1>2, <1>4 DEF Listing
<1>7. ASSUME ListingTrue PROVE ListingTrue'
  <2>1. CASE l.latest
    <3>1. ~\E k \in loads' : k.latest
      BY <1>1, <1>5, <2>1
    <3>2. Applies(l) /\ (l.bad \/ l.answer = Listing(view.path))
      BY <1>1, <1>7, <2>1 DEF ListingTrue, Applies
    <3>3. view'.error \/ view'.files = Listing(view.path)
      BY <1>4, <3>2
    <3> QED BY <1>6, <3>1, <3>3 DEF ListingTrue
  <2>2. CASE ~l.latest
    <3>1. view'.files = view.files /\ (view.error => view'.error)
      BY <1>4, <2>2 DEF Applies
    <3>2. \A k \in loads : k.latest <=> k.latest /\ k \in loads'
      BY <1>1, <2>2
    <3>3. loads' \subseteq loads
      BY <1>1
    <3> QED BY <1>4, <1>6, <1>7, <3>1, <3>2, <3>3 DEF ListingTrue
  <2> QED BY <2>1, <2>2
<1> QED BY <1>2, <1>7 DEF FreshInv

LEMMA AnsweredIsTrue ==
  ASSUME TypesInv, FreshInv, Answers
  PROVE  FreshInv'
<1>1. UNCHANGED <<tree, view, push, strayed>>
  BY Frames DEF server
<1>0. PICK l \in loads :
        \E k \in {[l EXCEPT !.answer = Listing(l.path)], [l EXCEPT !.bad = TRUE]} :
          loads' = (loads \ {l}) \cup {k}
  BY DEF Answers, ListAnswered, ListFails
<1>2. PICK k \in {[l EXCEPT !.answer = Listing(l.path)], [l EXCEPT !.bad = TRUE]} :
        loads' = (loads \ {l}) \cup {k}
  BY <1>0
<1>3. /\ k.latest = l.latest /\ k.path = l.path
      /\ k.bad \/ k.answer = Listing(l.path)
  BY <1>2 DEF TypesInv, CallsInv, LoadTypes
<1>4. Listing(view.path)' = Listing(view.path)
  BY <1>1 DEF Listing
<1>5. (\E m \in loads' : m.latest) <=> (\E m \in loads : m.latest)
  BY <1>2, <1>3
<1>6. ASSUME ListingTrue PROVE ListingTrue'
  <2>1. CASE \E m \in loads : m.latest
    <3>1. k.latest => k.path = view.path /\ (k.bad \/ k.answer = Listing(view.path))
      BY <1>3, <1>6, <2>1 DEF ListingTrue
    <3> QED BY <1>1, <1>2, <1>4, <1>5, <1>6, <2>1, <3>1 DEF ListingTrue
  <2>2. CASE ~\E m \in loads : m.latest
    BY <1>1, <1>4, <1>5, <1>6, <2>2 DEF ListingTrue
  <2> QED BY <2>1, <2>2
<1> QED BY <1>1, <1>6 DEF FreshInv

LEMMA FreshKept ==
  ASSUME TypesInv, BrowserInv, FreshInv, [BrowserNext]_bvars
  PROVE  FreshInv'
<1>1. CallsInv /\ ScreenInv /\ view \in ViewTypes /\ push \in [sent: BOOLEAN, timer: BOOLEAN]
  BY DEF TypesInv, ScreenInv, FreshInv
<1>2. ASSUME NEW t, Change(t), UNCHANGED <<view, loads, strayed>> PROVE FreshInv'
  <2>1. push' \in [sent: BOOLEAN, timer: BOOLEAN] /\ push'.timer = push.timer
        /\ push'.sent = (push.sent \/ t # tree)
    BY <1>1, <1>2 DEF Change
  <2>2. CASE t = tree
    <3>1. UNCHANGED tree /\ (push.sent => push'.sent)
      BY <1>2, <2>1, <2>2 DEF Change
    <3>2. Listing(view.path)' = Listing(view.path)
      BY <1>2, <3>1 DEF Listing
    <3>3. ListingTrue' = ListingTrue
      BY <1>2, <3>2 DEF ListingTrue
    <3> QED BY <1>2, <2>1, <3>1, <3>3 DEF FreshInv
  <2>3. CASE t # tree
    BY <2>1, <2>3 DEF FreshInv
  <2> QED BY <2>2, <2>3
<1>3. CASE Navigates
  <2>1. CASE \E path : Leads(path)
    <3>1. PICK path : Navigate(path)
      BY <2>1 DEF Leads
    <3>2. CASE path = view.path
      BY <1>3, <3>1, <3>2, Frames, ListingUnchanged DEF Navigate, server
    <3>3. CASE path # view.path
      <4>1. /\ StartLoad(path, FALSE) /\ push' = [push EXCEPT !.timer = FALSE]
            /\ view' = [view EXCEPT !.path = path, !.loading = TRUE, !.error = FALSE]
        BY <3>1, <3>3 DEF Navigate
      <4>2. view'.path = path /\ push' \in [sent: BOOLEAN, timer: BOOLEAN]
        BY <1>1, <4>1 DEF ViewTypes
      <4> QED BY <1>1, <4>1, <4>2, StartedIsTrue DEF FreshInv
    <3> QED BY <3>2, <3>3
  <2>2. CASE \E n : Previews(n)
    BY <1>3, <2>2, Frames, ListingUnchanged DEF Previews, server
  <2> QED BY <1>1, <1>3, <2>1, <2>2, NavigationLeads
<1>4. CASE Reloads
  <2>1. /\ StartLoad(view.path, FALSE) /\ view' = [view EXCEPT !.loading = TRUE, !.error = FALSE]
        /\ push' \in {push, [push EXCEPT !.timer = FALSE]}
    BY <1>4 DEF Reloads, PushTimer, Refresh, ShareClosed, PreviewEdited, Reload
  <2>2. view'.path = view.path /\ push' \in [sent: BOOLEAN, timer: BOOLEAN]
    BY <1>1, <2>1 DEF ViewTypes
  <2> QED BY <1>1, <2>1, <2>2, StartedIsTrue DEF FreshInv
<1>5. CASE CallReturns
  <2>1. UNCHANGED <<tree, push>>
    BY <1>5 DEF CallReturns, server
  <2>2. PICK o \in ops :
          IF Failed(o)
          THEN view' = [view EXCEPT !.error = TRUE] /\ UNCHANGED <<loads, strayed>>
          ELSE /\ StartLoad(o.from, o.missed /\ o.op \in {"delete", "move", "copy", "uploadPaths"})
               /\ view' = [view EXCEPT !.loading = TRUE, !.error = FALSE]
               /\ strayed' = (o.from # view.path)
    BY <1>5 DEF CallReturns
  <2>3. CASE Failed(o)
    <3>1. view'.error /\ view'.path = view.path /\ UNCHANGED <<loads, strayed>>
      BY <1>1, <2>2, <2>3 DEF ViewTypes
    <3>2. Listing(view.path)' = Listing(view.path)
      BY <2>1, <3>1 DEF Listing
    <3>3. ListingTrue => ListingTrue'
      BY <3>1, <3>2 DEF ListingTrue
    <3> QED BY <2>1, <3>1, <3>3 DEF FreshInv
  <2>4. CASE ~Failed(o)
    <3>1. view'.path = view.path
      BY <1>1, <2>2, <2>4 DEF ViewTypes
    <3>2. CASE o.from = view.path
      BY <1>1, <2>1, <2>2, <2>4, <3>1, <3>2, StartedIsTrue DEF FreshInv
    <3>3. CASE o.from # view.path
      BY <1>1, <2>1, <2>2, <2>4, <3>3 DEF FreshInv
    <3> QED BY <3>2, <3>3
  <2> QED BY <2>3, <2>4
<1>6. CASE ListArrives
  BY <1>6, ArrivedIsTrue
<1>7. CASE Answers
  BY <1>7, AnsweredIsTrue
<1>8. CASE Serves
  <2>1. UNCHANGED <<view, loads, strayed>>
    BY <1>8, Frames
  <2>2. UNCHANGED <<server, push>> \/ \E t : Change(t)
    BY <1>8 DEF Serves, Serve, ServeFails
  <2>3. CASE UNCHANGED <<server, push>>
    BY <2>1, <2>3, ListingUnchanged DEF server
  <2> QED BY <1>2, <2>1, <2>2, <2>3
<1>9. CASE OtherClient
  <2>1. UNCHANGED <<view, loads, strayed>> /\ \E t : Change(t)
    BY <1>9, OtherClientLeaves DEF OtherClient, net
  <2> QED BY <1>2, <2>1
<1>10. CASE PushArrives \/ PushLost
  <2>1. /\ push' \in [sent: BOOLEAN, timer: BOOLEAN]
        /\ push'.timer \/ strayed'
    <3>1. CASE PushArrives
      BY <1>1, <3>1 DEF PushArrives
    <3>2. CASE PushLost
      BY <1>1, <3>2 DEF PushLost
    <3> QED BY <1>10, <3>1, <3>2
  <2> QED BY <2>1 DEF FreshInv
<1>11. CASE Pick \/ PickAll \/ UNCHANGED bvars
  BY <1>11, ListingUnchanged DEF Pick, PickAll, Picks, bvars, server, net
<1>12. CASE Calls \/ Clips \/ Windows \/ Finds
  BY <1>12, Frames, ListingUnchanged DEF server, net
<1> QED BY <1>3, <1>4, <1>5, <1>6, <1>7, <1>8, <1>9, <1>10, <1>11, <1>12, NextSteps DEF Apart

\* The listing of a quiet page is the server's, whatever order answers,
\* notifications, navigation and other clients' changes came in: the number
\* of the newest request and the reload after each notification suffice
\* (loadFiles and the file-change listener in LozaTab.tsx).
THEOREM QuietListingIsFresh == BrowserSpec => []FreshWhenQuiet
<1>1. BrowserInit => FreshInv
  <2> SUFFICES ASSUME BrowserInit PROVE FreshInv
    OBVIOUS
  <2>1. /\ push \in [sent: BOOLEAN, timer: BOOLEAN]
        /\ view.path = <<>>
        /\ loads = {[path |-> <<>>, latest |-> TRUE, err |-> FALSE, answer |-> None, bad |-> FALSE]}
    BY DEF BrowserInit
  <2> QED BY <2>1 DEF FreshInv, ListingTrue
<1>2. BrowserInv /\ TypesInv /\ FreshInv /\ [BrowserNext]_bvars => FreshInv'
  BY FreshKept
<1>3. FreshInv => FreshWhenQuiet
  BY DEF FreshInv, ListingTrue, FreshWhenQuiet, Quiet
<1> QED BY <1>1, <1>2, <1>3, TypesHold, PTL DEF BrowserSpec
-----------------------------------------------------------------------------
(* The search.                                                              *)

\* A search that counts is for the open folder and, unless the timer of the
\* next one runs, for the term in the field; what it found is what it asked for.
Counts(s) ==
  s.latest => s.path = view.path /\ (find.timer \/ s.query = find.query)

Finding(s) ==
  s.answer # None =>
    \A n \in s.answer : Under(s.path, n.path) /\ <<s.query, Last(n.path)>> \in Hit

SearchInv ==
  /\ ResultsMatch
  /\ \A s \in searches : Counts(s) /\ Finding(s)

\* Requests that are given up keep their answers and count no more.
LEMMA GivenUpFinds ==
  ASSUME CallsInv, SearchInv, NEW s \in Outdated(searches)
  PROVE  ~s.latest /\ Finding(s)
<1>1. PICK r \in searches : s = [r EXCEPT !.latest = FALSE]
  BY DEF Outdated
<1>2. s.latest = FALSE /\ s.answer = r.answer /\ s.path = r.path /\ s.query = r.query
  BY <1>1 DEF CallsInv, SearchTypes
<1>3. Finding(r)
  BY DEF SearchInv
<1> QED BY <1>2, <1>3 DEF Finding

LEMMA SearchUnchanged ==
  ASSUME SearchInv, UNCHANGED <<find, searches>>, view'.path = view.path
  PROVE  SearchInv'
<1>1. \A s : Counts(s)' = Counts(s) /\ Finding(s)' = Finding(s)
  BY DEF Counts, Finding
<1>2. ResultsMatch' = ResultsMatch
  BY DEF ResultsMatch
<1> QED BY <1>1, <1>2 DEF SearchInv

LEMMA SearchDropped ==
  ASSUME CallsInv, SearchInv, find' = NoFind, searches' = EndSearches
  PROVE  SearchInv'
<1>1. find'.results = None
  BY DEF NoFind
<1>2. \A s \in searches' : ~s.latest /\ Finding(s)
  BY GivenUpFinds DEF EndSearches
<1>3. \A s \in searches' : Counts(s)' /\ Finding(s)'
  BY <1>2 DEF Counts, Finding
<1>4. ResultsMatch'
  BY <1>1 DEF ResultsMatch
<1> QED BY <1>3, <1>4 DEF SearchInv

\* Typing and trying again start the timer.
LEMMA SearchTimed ==
  ASSUME TypesInv, SearchInv, Type \/ SearchRetry
  PROVE  SearchInv'
<1>1. CallsInv /\ find \in FindTypes /\ UNCHANGED view
  BY DEF TypesInv, ScreenInv, Type, SearchRetry
<1>2. \/ find' = NoFind /\ searches' = EndSearches
      \/ /\ UNCHANGED searches
         /\ \E q \in Query : q # None /\ find' = [find EXCEPT !.query = q, !.timer = TRUE]
      \/ /\ UNCHANGED searches /\ find.query # None
         /\ find' = [find EXCEPT !.timer = TRUE]
  BY DEF Type, SearchRetry, net
<1>3. CASE UNCHANGED searches /\ find'.timer = TRUE /\ find'.results = find.results
             /\ find'.query # None
  <2>1. \A s : (s.latest => s.path = view.path) => Counts(s)' /\ (Finding(s)' <=> Finding(s))
    BY <1>1, <1>3 DEF Counts, Finding
  <2>2. \A s \in searches : Counts(s)' /\ Finding(s)'
    BY <2>1 DEF SearchInv, Counts
  <2>3. ResultsMatch'
    BY <1>1, <1>3 DEF SearchInv, ResultsMatch
  <2> QED BY <1>3, <2>2, <2>3 DEF SearchInv
<1>4. ASSUME NEW q \in Query, q # None, find' = [find EXCEPT !.query = q, !.timer = TRUE]
      PROVE  find'.timer = TRUE /\ find'.results = find.results /\ find'.query # None
  BY <1>1, <1>4 DEF FindTypes
<1>5. ASSUME find.query # None, find' = [find EXCEPT !.timer = TRUE]
      PROVE  find'.timer = TRUE /\ find'.results = find.results /\ find'.query # None
  BY <1>1, <1>5 DEF FindTypes
<1> QED BY <1>1, <1>2, <1>3, <1>4, <1>5, SearchDropped

LEMMA SearchSent ==
  ASSUME TypesInv, SearchInv, SearchTimer
  PROVE  SearchInv'
<1>0. PICK s : s = [query |-> find.query, path |-> view.path, latest |-> TRUE,
                    answer |-> None, bad |-> FALSE]
  OBVIOUS
<1>1. /\ CallsInv /\ find \in FindTypes /\ UNCHANGED view
      /\ find' = [find EXCEPT !.timer = FALSE, !.results = None]
      /\ searches' = Outdated(searches) \cup {s}
  BY <1>0 DEF TypesInv, ScreenInv, SearchTimer
<1>2. find'.results = None /\ find'.query = find.query
  BY <1>1 DEF FindTypes
<1>3. ResultsMatch'
  BY <1>2 DEF ResultsMatch
<1>4. Counts(s)' /\ Finding(s)'
  BY <1>0, <1>1, <1>2 DEF Counts, Finding
<1>5. \A r \in Outdated(searches) : Counts(r)' /\ Finding(r)'
  BY <1>1, GivenUpFinds DEF Counts, Finding
<1> QED BY <1>1, <1>3, <1>4, <1>5 DEF SearchInv

LEMMA SearchServed ==
  ASSUME TypesInv, SearchInv, SearchAnswered \/ SearchFails
  PROVE  SearchInv'
<1>1. searches \subseteq SearchTypes /\ UNCHANGED <<find, view>>
  BY DEF TypesInv, CallsInv, SearchAnswered, SearchFails
<1>2. PICK s \in searches :
        /\ s.answer = None
        /\ \/ searches' = (searches \ {s}) \cup {[s EXCEPT !.answer = Found(s.query, s.path)]}
           \/ searches' = (searches \ {s}) \cup {[s EXCEPT !.bad = TRUE]}
  BY DEF SearchAnswered, SearchFails
<1>3. ResultsMatch'
  BY <1>1 DEF SearchInv, ResultsMatch
<1>4. \A r \in searches : Counts(r)' /\ Finding(r)'
  BY <1>1 DEF SearchInv, Counts, Finding
<1>5. CASE searches' = (searches \ {s}) \cup {[s EXCEPT !.answer = Found(s.query, s.path)]}
  <2>1. PICK r : r = [s EXCEPT !.answer = Found(s.query, s.path)]
    OBVIOUS
  <2>2. r.latest = s.latest /\ r.path = s.path /\ r.query = s.query
        /\ r.answer = Found(s.query, s.path)
    BY <1>1, <2>1 DEF SearchTypes
  <2>3. Counts(r)'
    BY <1>1, <1>4, <2>2 DEF Counts
  <2>4. Finding(r)'
    BY <2>2 DEF Finding, Found
  <2> QED BY <1>3, <1>4, <1>5, <2>1, <2>3, <2>4 DEF SearchInv
<1>6. CASE searches' = (searches \ {s}) \cup {[s EXCEPT !.bad = TRUE]}
  <2> DEFINE r == [s EXCEPT !.bad = TRUE]
  <2>1. r.latest = s.latest /\ r.path = s.path /\ r.query = s.query /\ r.answer = None
    BY <1>1, <1>2 DEF SearchTypes
  <2> HIDE DEF r
  <2>2. Counts(r)' /\ Finding(r)'
    BY <1>1, <1>4, <2>1 DEF Counts, Finding
  <2> QED BY <1>3, <1>4, <1>6, <2>2 DEF SearchInv, r
<1> QED BY <1>2, <1>5, <1>6

LEMMA SearchShown ==
  ASSUME TypesInv, SearchInv, SearchArrives
  PROVE  SearchInv'
<1>1. find \in FindTypes /\ UNCHANGED view /\ FieldInv
  BY DEF TypesInv, ScreenInv, SearchArrives
<1>2. PICK s \in searches :
        /\ s.answer # None \/ s.bad
        /\ searches' = searches \ {s}
        /\ find' = IF s.latest
                   THEN [find EXCEPT !.failed = s.bad, !.results = IF s.bad THEN None ELSE s.answer]
                   ELSE find
  BY DEF SearchArrives
<1>3. find'.query = find.query /\ find'.timer = find.timer
  BY <1>1, <1>2 DEF FindTypes
<1>4. \A r \in searches' : Counts(r)' /\ Finding(r)'
  BY <1>1, <1>2, <1>3 DEF SearchInv, Counts, Finding
<1>5. CASE s.latest
  <2>1. find'.results = IF s.bad THEN None ELSE s.answer
    BY <1>1, <1>2, <1>5 DEF FindTypes
  <2>2. /\ s.path = view.path /\ (find.timer \/ s.query = find.query)
        /\ find.query # None
    BY <1>1, <1>5 DEF SearchInv, Counts, FieldInv
  <2>3. CASE s.bad
    BY <1>4, <2>1, <2>3 DEF SearchInv, ResultsMatch
  <2>4. CASE ~s.bad
    <3>1. \A n \in s.answer : Under(s.path, n.path) /\ <<s.query, Last(n.path)>> \in Hit
      BY <1>2, <2>4 DEF SearchInv, Finding
    <3>2. ResultsMatch'
      BY <1>1, <1>3, <2>1, <2>2, <2>4, <3>1 DEF ResultsMatch
    <3> QED BY <1>4, <3>2 DEF SearchInv
  <2> QED BY <2>3, <2>4
<1>6. CASE ~s.latest
  <2>1. ResultsMatch'
    BY <1>1, <1>2, <1>6 DEF SearchInv, ResultsMatch
  <2> QED BY <1>4, <2>1 DEF SearchInv
<1> QED BY <1>5, <1>6

\* Only leaving the folder changes the path.
LEMMA SamePlace ==
  ASSUME ScreenInv, [BrowserNext]_bvars
  PROVE  (Navigates /\ find' = NoFind /\ searches' = EndSearches) \/ view'.path = view.path
<1>1. view \in ViewTypes
  BY DEF ScreenInv
<1>2. CASE Navigates
  BY <1>1, <1>2, NavigationLeads DEF Leads, Previews, Navigate
<1>3. CASE Reloads
  BY <1>1, <1>3 DEF Reloads, PushTimer, Refresh, ShareClosed, PreviewEdited, Reload, ViewTypes
<1>4. CASE CallReturns
  BY <1>1, <1>4 DEF CallReturns, ViewTypes
<1>5. CASE ListArrives
  BY <1>1, <1>5 DEF ListArrives, ViewTypes
<1>6. CASE Answers \/ Serves \/ Calls \/ Clips \/ Windows \/ Finds \/ Apart
  BY <1>6, Frames
<1> QED BY <1>2, <1>3, <1>4, <1>5, <1>6, NextSteps

LEMMA SearchKept ==
  ASSUME TypesInv, SearchInv, [BrowserNext]_bvars
  PROVE  SearchInv'
<1>1. ScreenInv /\ CallsInv
  BY DEF TypesInv
<1>2. CASE Navigates
  <2>1. (find' = NoFind /\ searches' = EndSearches) \/ UNCHANGED <<find, searches>>
    BY <1>1, <1>2, NavigationLeads DEF Leads, Previews, Navigate
  <2> QED BY <1>1, <2>1, SamePlace, SearchDropped, SearchUnchanged
<1>3. CASE Finds
  BY <1>3, SearchTimed, SearchSent, SearchServed, SearchShown DEF Finds
<1>4. CASE Reloads \/ Answers \/ Serves \/ Calls \/ Clips \/ Windows \/ Apart \/ ListArrives \/ CallReturns
  <2>1. UNCHANGED <<find, searches>>
    BY <1>4, Frames DEF net
  <2>2. view'.path = view.path \/ (find' = NoFind /\ searches' = EndSearches)
    BY <1>1, SamePlace
  <2> QED BY <1>1, <2>1, <2>2, SearchDropped, SearchUnchanged
<1> QED BY <1>2, <1>3, <1>4, NextSteps

\* The results on the screen belong to the open folder and to the term in the
\* field: an answer that comes after the folder or the term changed is not
\* shown, or not past the next search (the search effect in LozaTab.tsx).
THEOREM ResultsAreTheFields == BrowserSpec => []ResultsMatch
<1>1. BrowserInit => SearchInv
  BY DEF BrowserInit, SearchInv, ResultsMatch, NoFind
<1>2. TypesInv /\ SearchInv /\ [BrowserNext]_bvars => SearchInv'
  BY SearchKept
<1>3. SearchInv => ResultsMatch
  BY DEF SearchInv
<1> QED BY <1>1, <1>2, <1>3, TypesHold, PTL DEF BrowserSpec

-----------------------------------------------------------------------------
(* Escape.                                                                  *)

\* One Escape closes the uppermost window or menu over the listing or clears
\* the selection, not both; no other step that closes one and changes nothing
\* else touches the selection, but a cut or a copy, which puts what it held
\* into the clipboard (the two Escape listeners in LozaTab.tsx).
THEOREM EscapeLeavesSelection == BrowserSpec => EscapeKeepsSelection
<1>1. ASSUME TypesInv, [BrowserNext]_bvars, SomeWindowCloses, view' = view, ops' = ops
      PROVE  picked' = picked \/ Clipped
  <2>1. ScreenInv /\ win \in WinTypes /\ view \in ViewTypes
    BY <1>1 DEF TypesInv, ScreenInv
  <2>2. ~UNCHANGED win
    BY <1>1 DEF SomeWindowCloses
  <2>3. CASE Navigates
    <3>1. CASE \E path : Leads(path)
      BY <1>1, <2>1, <3>1 DEF Leads, Navigate, ViewTypes
    <3>2. CASE \E n : Previews(n)
      BY <3>2 DEF Previews
    <3> QED BY <2>1, <2>3, <3>1, <3>2, NavigationLeads
  <2>4. CASE Reloads
    BY <2>4 DEF Reloads, PushTimer, Refresh, ShareClosed, PreviewEdited
  <2>5. CASE CallReturns
    BY <1>1, <2>5 DEF CallReturns
  <2>6. CASE Calls
    BY <2>6, Frames
  <2>7. CASE Clips
    <3>1. PICK op \in {"move", "copy"} : PutInClipboard(op)
      BY <2>7 DEF Clips, Cut, Copy
    <3>2. CASE Chosen = {}
      BY <3>1, <3>2 DEF PutInClipboard
    <3>3. CASE Chosen # {}
      BY <3>1, <3>3 DEF PutInClipboard, Clipped
    <3> QED BY <3>2, <3>3
  <2>8. CASE Windows
    <3>1. CASE Escape
      <4>1. TopWindow.closed # win /\ win' = TopWindow.closed
        BY <2>2, <3>1 DEF Escape
      <4>2. TopWindow.keep
        BY <4>1 DEF TopWindow, EscapeTo
      <4> QED BY <3>1, <4>2 DEF Escape
    <3>2. CASE ContextMenu
      <4>1. win.context = None /\ ~win.menu
        BY <3>2 DEF ContextMenu, Click, Tool, Free
      <4>2. PICK n : win' = [win EXCEPT !.context = n]
        BY <3>2 DEF ContextMenu
      <4>3. /\ win'.input = win.input /\ win'.rename = win.rename
            /\ win'.preview = win.preview
        BY <2>1, <4>2 DEF WinTypes
      <4> QED BY <1>1, <4>1, <4>3 DEF SomeWindowCloses
    <3> QED BY <2>8, <3>1, <3>2 DEF Windows, MenuRename, MenuShare, NewMenu, NewItem, Dismiss,
               PreviewShare, Window
  <2>9. CASE Answers \/ Serves \/ Finds \/ Apart \/ ListArrives
    BY <2>2, <2>9, Frames
  <2> QED BY <1>1, <2>3, <2>4, <2>5, <2>6, <2>7, <2>8, <2>9, NextSteps
<1>2. TypesInv /\ [BrowserNext]_bvars
        => [SomeWindowCloses /\ view' = view /\ ops' = ops => picked' = picked \/ Clipped]_bvars
  BY <1>1
<1> QED BY <1>2, TypesHold, PTL DEF BrowserSpec, EscapeKeepsSelection

=============================================================================
