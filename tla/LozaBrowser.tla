------------------------------ MODULE LozaBrowser ------------------------------
(***************************************************************************)
(* The file browser of the desktop app (LozaTab.tsx) in front of the       *)
(* server: navigation with its history, the listing and its reloads, the   *)
(* search, the selection, the clipboard, the windows, and the calls that   *)
(* change files.  Calls are asynchronous: sent, carried out item by item   *)
(* on the server, and answered later, in any order.  The server is the     *)
(* tree LozaTree promises (ServerIsTree checks that), with node ids.       *)
(*                                                                         *)
(* A request number that only serves to recognise the newest request is a  *)
(* flag "latest" of the request: a new request takes it from the others.   *)
(***************************************************************************)
EXTENDS LozaPaths, FiniteSets

CONSTANTS
  Stored,       \* the account at first: a set of nodes
  Spare,        \* the names the server falls back to when one is taken
  Query,        \* search terms
  Hit,          \* <<q, n>>: the name n contains the term q, case ignored
  NewNames,     \* the names users type
  Habits,       \* bounds: the gestures a user keeps to, how many of them, how
                \* many changes by other clients, how many failures
  MaxLoads,     \* bound: listings asked for at one time
  MaxCalls,     \* bound: calls that change files at one time
  TreePaths,    \* the paths LozaTree is asked about when the server is compared with it
  None          \* nothing: no item, no query, no results

ASSUME SpareAssumption == Spare \subseteq Name /\ NewNames \subseteq Name
ASSUME TreePathsAssumption == TreePaths \subseteq Path
ASSUME HitAssumption == Hit \subseteq Query \X Name
ASSUME AccountAssumption ==
  /\ \A n \in Stored : /\ n = [id |-> [at |-> 0, born |-> n.id.born], path |-> n.path, dir |-> n.dir]
                       /\ {n.path, n.id.born} \subseteq Path /\ n.dir \in BOOLEAN
  /\ \A m, n \in Stored : (m.path = n.path \/ m.id = n.id) => m = n
  /\ \A n \in Stored : \A q \in Ancestors(n.path) : \E d \in Stored : d.path = q /\ d.dir
ASSUME BrowserBounds ==
  /\ MaxLoads \in Nat \ {0} /\ MaxCalls \in Nat
  /\ \A h \in Habits : {h.acts, h.others, h.fails} \subseteq Nat

VARIABLES
  tree,      \* server: the user's nodes
  stamp,     \* server: counts changes, so that node ids are fresh
  view,      \* currentPath, files, loading, error
  hist,      \* navHistory and navIndex
  picked,    \* selectedIds
  clip,      \* clipboardRef: operation and paths, or None
  find,      \* search, searchResults, searchError, and its running timer
  win,       \* the windows over the listing, each with its item
  loads,     \* list requests on their way
  searches,  \* search requests on their way
  ops,       \* calls that change files on their way
  push,      \* a change notification on its way, and the timer it starts
  strayed,   \* (history) since the listing was last asked for, a call has
             \* reloaded a folder that was left, or a notification was lost
  budget     \* the user's habit, and what is left of its bounds

server == <<tree, stamp>>
net == <<loads, searches, ops>>
bvars == <<tree, stamp, view, hist, picked, clip, find, win, loads, searches,
           ops, push, strayed, budget>>

-----------------------------------------------------------------------------
(* The server. *)

At(p) == {n \in tree : n.path = p}
Below(p) == {n \in tree : AtOrUnder(p, n.path)}
Listing(p) == {n \in tree : Parent(n.path) = p}
Found(q, p) == {n \in tree : Under(p, n.path) /\ <<q, Last(n.path)>> \in Hit}

NewNode(p, dir) == [id |-> [at |-> stamp, born |-> p], path |-> p, dir |-> dir]
NewDirs(p) == {NewNode(q, TRUE) : q \in {q \in Ancestors(p) : At(q) = {}}}
Room(p) == At(p) = {} /\ \A n \in tree : Under(n.path, p) => n.dir

\* Mutant: a folder goes and what is in it stays.
RemovedNode(p) == {tree \ At(p) : n \in At(p)}

\* What is left of the tree, as a set of one or, if the server refuses, none.
Removed(p) == {tree \ Below(p) : n \in At(p)}
Made(p, dir) == IF Room(p) THEN {tree \cup NewDirs(p) \cup {NewNode(p, dir)}} ELSE {}
Moved(p, q) ==
  IF At(p) # {} /\ Room(q) /\ ~AtOrUnder(p, q)
  THEN {(tree \ Below(p)) \cup NewDirs(q)
          \cup {[n EXCEPT !.path = Rebase(@, p, q)] : n \in Below(p)}}
  ELSE {}
\* The rows below a copied directory are not copied.
Copied(p, q) ==
  IF ~AtOrUnder(p, q) THEN UNION {Made(q, n.dir) : n \in At(p)} ELSE {}

\* The server picks a free name in the target folder.
Names(p, to) ==
  IF At(to \o <<Last(p)>>) = {} THEN {to \o <<Last(p)>>}
  ELSE {q \in {to \o <<n>> : n \in Spare} : At(q) = {}}

\* The trees that item p of call o may leave; none if it has to fail.
After(o, p) ==
  CASE o.op = "delete" -> Removed(p)
    [] o.op = "move"   -> IF Parent(p) = o.to THEN {tree}
                          ELSE UNION {Moved(p, q) : q \in Names(p, o.to)}
    [] o.op = "copy"   -> UNION {Copied(p, q) : q \in Names(p, o.to)}
    [] o.op = "rename" -> Moved(p, o.to)
    [] o.op = "mkdir"  -> Made(p, TRUE)
    [] OTHER           -> Made(p, FALSE)

Spend(what) == budget[what] > 0 /\ budget' = [budget EXCEPT ![what] = @ - 1]

\* Every change is announced to all the user's clients, this one included.
Change(t) ==
  /\ tree' = t
  /\ stamp' = stamp + 1
  /\ push' = [push EXCEPT !.sent = @ \/ t # tree]

\* A paste into something that is not a folder is refused as a whole; that is
\* looked at once, before the first item.
Hopeless(o) ==
  /\ o.op \in {"move", "copy"} /\ o.left = o.paths
  /\ o.to # <<>> /\ ~\E n \in At(o.to) : n.dir

\* The server carries out one item of a call; a failed item stops no other.
Serve ==
  /\ \E o \in ops, p \in UNION {c.left : c \in ops} :
       /\ p \in o.left /\ ~o.lost
       /\ LET rest == [o EXCEPT !.left = @ \ {p}]
          IN \/ /\ ~Hopeless(o)
                /\ \E t \in After(o, p) : Change(t)
                /\ ops' = (ops \ {o}) \cup {rest}
             \/ /\ Hopeless(o) \/ After(o, p) = {}
                /\ ops' = (ops \ {o}) \cup
                     {IF Hopeless(o) THEN [o EXCEPT !.lost = TRUE]
                                     ELSE [rest EXCEPT !.missed = TRUE]}
                /\ UNCHANGED <<server, push>>
  /\ UNCHANGED <<view, hist, picked, clip, find, win, loads, searches, strayed, budget>>

\* An item or the whole call fails for a reason of the server's or the net's.
ServeFails ==
  /\ Spend("fails")
  /\ \E o \in ops :
       /\ o.left # {} /\ ~o.lost
       /\ \/ ~Hopeless(o) /\ \E p \in o.left :
               ops' = (ops \ {o}) \cup {[o EXCEPT !.left = @ \ {p}, !.missed = TRUE]}
          \/ /\ o.op # "upload"
             /\ ops' = (ops \ {o}) \cup {[o EXCEPT !.lost = TRUE]}
  /\ UNCHANGED <<server, view, hist, picked, clip, find, win, loads, searches, push, strayed>>

\* Another client of the user adds, deletes or renames something.
OtherClient ==
  /\ Spend("others")
  /\ \E n \in tree : \E t \in Removed(n.path)
                        \cup (UNION {Moved(n.path, Parent(n.path) \o <<m>>) : m \in NewNames})
                        \cup (UNION {Made(Parent(n.path) \o <<m>>, FALSE) : m \in NewNames}) :
       Change(t)
  /\ UNCHANGED <<view, hist, picked, clip, find, win, net, strayed>>

\* The server of the browser is the tree that LozaFiles implements: ids and
\* contents apart, every change of it is one of LozaTree's.
Entry(n) == [path |-> n.path, dir |-> n.dir, data |-> ~n.dir]
Entries == {Entry(n) : n \in tree}
Tree == INSTANCE LozaTree WITH Data <- {TRUE}, NoData <- FALSE, tree <- Entries
ServerIsTree == Tree!TreeSpec

-----------------------------------------------------------------------------
(* Loading the listing. *)

Outdated(calls) == {[c EXCEPT !.latest = FALSE] : c \in calls}

\* loadFiles(path); "err": the caller shows an error once it has returned.
StartLoad(path, err) ==
  /\ Cardinality(loads) < MaxLoads
  /\ loads' = Outdated(loads) \cup
                {[path |-> path, latest |-> TRUE, err |-> err, answer |-> None, bad |-> FALSE]}

ListAnswered ==
  /\ \E l \in loads :
       /\ l.answer = None /\ ~l.bad
       /\ loads' = (loads \ {l}) \cup {[l EXCEPT !.answer = Listing(l.path)]}
  /\ UNCHANGED <<server, view, hist, picked, clip, find, win, searches, ops, push, strayed, budget>>

ListFails ==
  /\ Spend("fails")
  /\ \E l \in loads :
       /\ l.answer = None /\ ~l.bad
       /\ loads' = (loads \ {l}) \cup {[l EXCEPT !.bad = TRUE]}
  /\ UNCHANGED <<server, view, hist, picked, clip, find, win, searches, ops, push, strayed>>

\* Mutants: the answer is checked for its folder only; loading is reset only
\* by answers that are shown.
AppliesHere(l) == l.path = view.path
EndsShown(l) == l.latest /\ l.path = view.path

\* An answer counts if it is the newest request's and its folder is still open.
Applies(l) == l.latest /\ l.path = view.path
EndsLoading(l) == l.latest

ListArrives ==
  /\ \E l \in loads :
       /\ l.answer # None \/ l.bad
       /\ loads' = loads \ {l}
       /\ view' = [view EXCEPT
            !.files   = IF Applies(l) /\ ~l.bad THEN l.answer ELSE @,
            !.error   = @ \/ l.err \/ (Applies(l) /\ l.bad),
            !.loading = @ /\ ~EndsLoading(l)]
       /\ picked' = IF Applies(l) /\ ~l.bad
                    THEN picked \cap {n.id : n \in l.answer} ELSE picked
  /\ UNCHANGED <<server, hist, clip, find, win, searches, ops, push, strayed, budget>>

\* A notification starts a timer of 100 ms anew, the timer a reload.
PushArrives ==
  /\ push.sent
  /\ push' = [sent |-> FALSE, timer |-> TRUE]
  /\ UNCHANGED <<server, view, hist, picked, clip, find, win, net, strayed, budget>>

PushLost ==
  /\ push.sent /\ Spend("fails")
  /\ push' = [push EXCEPT !.sent = FALSE]
  /\ strayed' = TRUE
  /\ UNCHANGED <<server, view, hist, picked, clip, find, win, net>>

Reload ==
  /\ StartLoad(view.path, FALSE)
  /\ view' = [view EXCEPT !.loading = TRUE, !.error = FALSE]
  /\ strayed' = FALSE

PushTimer ==
  /\ push.timer
  /\ push' = [push EXCEPT !.timer = FALSE]
  /\ Reload
  /\ UNCHANGED <<server, hist, picked, clip, find, win, searches, ops, budget>>

-----------------------------------------------------------------------------
(* What is on the screen, and which gestures it offers. *)

Here == IF find.query = None THEN view.files
        ELSE {n \in view.files : <<find.query, Last(n.path)>> \in Hit}
Shown == IF find.results # None THEN find.results ELSE Here
Chosen == {n \in Shown : n.id \in picked}

Body ==
  IF view.loading THEN "skeleton"
  ELSE IF Shown = {} THEN IF find.query = None THEN "empty folder" ELSE "nothing found"
  ELSE "items"

\* The input, rename, preview and share windows cover everything; the first
\* two also take the keyboard.
Typing == win.input # None \/ win.rename # None
Covered == Typing \/ win.preview # None \/ win.share # None
\* The overlays below the menus close them at the next click.
Free == ~Covered /\ ~win.menu /\ win.context = None

Act(gesture) == gesture \in budget.habit /\ Spend("acts")
Tool(gesture) == Free /\ Act(gesture)
Click(gesture, n) == Tool(gesture) /\ Body = "items" /\ n \in Shown
Menu(gesture) == win.context # None /\ ~Covered /\ Act(gesture)
Key(gesture) == ~Typing /\ Act(gesture)

NoFind == [query |-> None, results |-> None, failed |-> FALSE, timer |-> FALSE]
NoWindow == [input |-> None, menu |-> FALSE, context |-> None,
             rename |-> None, preview |-> None, share |-> None]

-----------------------------------------------------------------------------
(* Navigation. *)

\* Mutant: an answer to a search of the folder that is left still counts.
KeepSearches == searches
EndSearches == Outdated(searches)

\* handleNavigate, and the effects of a new currentPath.
Navigate(path) ==
  IF path = view.path
  THEN UNCHANGED <<view, picked, find, win, loads, searches, push, strayed>>
  ELSE /\ StartLoad(path, FALSE)
       /\ view' = [view EXCEPT !.path = path, !.loading = TRUE, !.error = FALSE]
       /\ picked' = {}
       /\ find' = NoFind
       /\ searches' = EndSearches
       /\ win' = [win EXCEPT !.menu = FALSE, !.context = None,
                             !.rename = None, !.preview = None]
       /\ push' = [push EXCEPT !.timer = FALSE]
       /\ strayed' = FALSE

\* Mutant: what was ahead of the current entry is kept.
PushAppend(path) == [list |-> Append(hist.list, path), at |-> hist.at + 1]
Pushed(path) == [list |-> Append(SubSeq(hist.list, 1, hist.at), path), at |-> hist.at + 1]

GoTo(path) ==
  /\ hist' = IF path = view.path THEN hist ELSE Pushed(path)
  /\ Navigate(path)
  /\ UNCHANGED <<server, clip, ops>>

\* A double click or "open" on an item.
Open(n) ==
  IF n.dir THEN GoTo(n.path)
  ELSE /\ win' = [win EXCEPT !.preview = n, !.context = None]
       /\ UNCHANGED <<server, view, hist, picked, clip, find, net, push, strayed>>

DoubleClick == \E n \in Shown : Click("open", n) /\ Open(n)
MenuOpen == Menu("open") /\ Open(win.context)

\* A breadcrumb, or the folder above.
Crumb ==
  /\ Tool("crumb")
  /\ \E i \in 0..(Len(view.path) - 1) : GoTo(SubSeq(view.path, 1, i))

Step(to) ==
  /\ hist' = [hist EXCEPT !.at = to]
  /\ Navigate(hist.list[to])
  /\ UNCHANGED <<server, clip, ops>>

GoBack == Tool("history") /\ hist.at > 1 /\ Step(hist.at - 1)
GoForward == Tool("history") /\ hist.at < Len(hist.list) /\ Step(hist.at + 1)

Refresh ==
  /\ Tool("refresh")
  /\ Reload
  /\ UNCHANGED <<server, hist, picked, clip, find, win, searches, ops, push>>

-----------------------------------------------------------------------------
(* Search. *)

\* Typing restarts the timer of 300 ms; an empty field drops the search.
Type ==
  /\ Tool("search")
  /\ \E q \in (Query \cup {None}) \ {find.query} :
       IF q = None
       THEN find' = NoFind /\ searches' = EndSearches
       ELSE find' = [find EXCEPT !.query = q, !.timer = TRUE] /\ UNCHANGED searches
  /\ UNCHANGED <<server, view, hist, picked, clip, win, loads, ops, push, strayed>>

SearchRetry ==
  /\ Tool("search") /\ find.failed /\ ~view.error /\ find.query # None
  /\ find' = [find EXCEPT !.timer = TRUE]
  /\ UNCHANGED <<server, view, hist, picked, clip, win, net, push, strayed>>

SearchTimer ==
  /\ find.timer
  /\ find' = [find EXCEPT !.timer = FALSE, !.results = None]
  /\ searches' = Outdated(searches) \cup
       {[query |-> find.query, path |-> view.path, latest |-> TRUE, answer |-> None, bad |-> FALSE]}
  /\ UNCHANGED <<server, view, hist, picked, clip, win, loads, ops, push, strayed, budget>>

SearchAnswered ==
  /\ \E s \in searches :
       /\ s.answer = None /\ ~s.bad
       /\ searches' = (searches \ {s}) \cup {[s EXCEPT !.answer = Found(s.query, s.path)]}
  /\ UNCHANGED <<server, view, hist, picked, clip, find, win, loads, ops, push, strayed, budget>>

SearchFails ==
  /\ Spend("fails")
  /\ \E s \in searches :
       /\ s.answer = None /\ ~s.bad
       /\ searches' = (searches \ {s}) \cup {[s EXCEPT !.bad = TRUE]}
  /\ UNCHANGED <<server, view, hist, picked, clip, find, win, loads, ops, push, strayed>>

SearchArrives ==
  /\ \E s \in searches :
       /\ s.answer # None \/ s.bad
       /\ searches' = searches \ {s}
       /\ find' = IF s.latest
                  THEN [find EXCEPT !.failed = s.bad,
                                    !.results = IF s.bad THEN None ELSE s.answer]
                  ELSE find
  /\ UNCHANGED <<server, view, hist, picked, clip, win, loads, ops, push, strayed, budget>>

-----------------------------------------------------------------------------
(* Selection and clipboard. *)

Picks(S) ==
  /\ picked' = S
  /\ UNCHANGED <<server, view, hist, clip, find, win, net, push, strayed>>

Span(n) == {S \in SUBSET Shown : n \in S /\ \E m \in Chosen : m \in S}

\* Click, click with Ctrl, click with Shift, Ctrl+A, Escape on the listing.
Pick ==
  \/ \E n \in Shown : /\ Click("pick", n)
                      /\ \/ Picks({n.id})
                         \/ Picks(IF n.id \in picked THEN picked \ {n.id} ELSE picked \cup {n.id})
  \/ \E n \in Shown : /\ Click("range", n) /\ picked # {}
                      /\ \E S \in Span(n) : Picks(picked \cup {m.id : m \in S})
PickAll == Key("all") /\ Picks({n.id : n \in Shown})

\* Mutant: every selected path is listed, the ones below others too.
EveryLevel(S) == {n.path : n \in S}

\* Paths below another selected path go with that one.
TopLevel(S) == {n.path : n \in {n \in S : ~\E m \in S : Under(m.path, n.path)}}

PutInClipboard(op) ==
  /\ IF Chosen = {} THEN UNCHANGED <<clip, picked>>
     ELSE /\ clip' = [op |-> op, paths |-> TopLevel(Chosen)]
          /\ picked' = {}
  /\ UNCHANGED <<server, view, hist, find, net, push, strayed>>

\* The menu closes in any case, the shortcut closes it if anything is chosen.
ByKeyOrMenu(gesture) ==
  \/ /\ Key(gesture)
     /\ win' = IF Chosen = {} THEN win ELSE [win EXCEPT !.context = None]
  \/ Menu(gesture) /\ win' = [win EXCEPT !.context = None]

Cut == ByKeyOrMenu("cut") /\ PutInClipboard("move")
Copy == ByKeyOrMenu("copy") /\ PutInClipboard("copy")

-----------------------------------------------------------------------------
(* Calls that change files. *)

Call(op, paths, to) ==
  /\ Cardinality(ops) < MaxCalls
  /\ ops' = ops \cup {[op |-> op, paths |-> paths, left |-> paths, to |-> to,
                       from |-> view.path, missed |-> FALSE, lost |-> FALSE]}
  /\ UNCHANGED <<server, view, hist, picked, clip, find, loads, searches, push, strayed>>

\* Confirmed; an empty batch is refused by the server.
Delete ==
  /\ picked # {}
  /\ Key("delete") \/ Menu("delete")
  /\ Cardinality(ops) < MaxCalls
  /\ ops' = ops \cup {[op |-> "delete", paths |-> TopLevel(Chosen), left |-> TopLevel(Chosen),
                       to |-> <<>>, from |-> view.path, missed |-> FALSE, lost |-> Chosen = {}]}
  /\ win' = [win EXCEPT !.context = None]
  /\ UNCHANGED <<server, view, hist, picked, clip, find, loads, searches, push, strayed>>

Paste ==
  /\ clip # None
  /\ Key("paste")
  /\ Call(clip.op, clip.paths, view.path)
  /\ UNCHANGED win

\* Files dropped from the page or picked in the dialog go up one by one, paths
\* dropped from the system in one call.
Upload ==
  /\ Tool("upload")
  /\ \E kind \in {"upload", "uploadPaths"}, S \in {{n} : n \in NewNames} \cup {NewNames} :
       Call(kind, {view.path \o <<n>> : n \in S}, view.path)
  /\ UNCHANGED win

\* The dialogs for a new folder, a new file and a new name.
ConfirmInput ==
  /\ win.input # None /\ Act("input")
  /\ \E n \in NewNames :
       Call(IF win.input = "folder" THEN "mkdir" ELSE "create", {view.path \o <<n>>}, view.path)
  /\ win' = [win EXCEPT !.input = None]

ConfirmRename ==
  /\ win.rename # None /\ Act("rename")
  /\ \E n \in NewNames :
       IF n = Last(win.rename.path)
       THEN /\ win' = [win EXCEPT !.rename = None]
            /\ UNCHANGED <<server, view, hist, picked, clip, find, net, push, strayed>>
       ELSE /\ Call("rename", {win.rename.path}, Parent(win.rename.path) \o <<n>>)
            /\ UNCHANGED win

Failed(o) == o.lost \/ (o.missed /\ o.op \in {"rename", "mkdir", "create"})

ClipAfter(o) == IF o.op = "move" /\ ~o.missed /\ ~o.lost THEN None ELSE clip

\* The caller goes on: with the folder and the path it was called in.
CallReturns ==
  \E o \in ops :
    /\ o.left = {} \/ o.lost
    /\ ops' = ops \ {o}
    /\ clip' = ClipAfter(o)
    /\ picked' = IF o.op = "delete" /\ ~o.lost THEN {} ELSE picked
    /\ win' = [win EXCEPT !.rename = IF o.op = "rename" THEN None ELSE @,
                          !.menu = @ /\ ~(o.op = "mkdir" /\ ~Failed(o))]
    /\ IF Failed(o)
       THEN /\ view' = [view EXCEPT !.error = TRUE]
            /\ UNCHANGED <<loads, strayed>>
       ELSE /\ StartLoad(o.from, o.missed /\ o.op \in {"delete", "move", "copy", "uploadPaths"})
            /\ view' = [view EXCEPT !.loading = TRUE, !.error = FALSE]
            /\ strayed' = (o.from # view.path)
    /\ UNCHANGED <<server, hist, find, searches, push, budget>>

-----------------------------------------------------------------------------
(* Windows. *)

Window(w) ==
  /\ win' = w
  /\ UNCHANGED <<server, view, hist, picked, clip, find, net, push, strayed>>

ContextMenu ==
  \E n \in Shown :
    /\ Click("menu", n)
    /\ picked' = IF n.id \in picked THEN picked ELSE {n.id}
    /\ win' = [win EXCEPT !.context = n]
    /\ UNCHANGED <<server, view, hist, clip, find, net, push, strayed>>

MenuRename == Menu("rename") /\ Window([win EXCEPT !.rename = win.context, !.context = None])
MenuShare == Menu("share") /\ Window([win EXCEPT !.share = win.context, !.context = None])
NewMenu == Tool("input") /\ Window([win EXCEPT !.menu = TRUE])
NewItem ==
  /\ win.menu /\ Act("input")
  /\ \E kind \in {"folder", "file"} : Window([win EXCEPT !.menu = FALSE, !.input = kind])

\* A click outside, or the window's own button.  The share window's reloads.
Dismiss ==
  /\ Act("close")
  /\ win # NoWindow /\ win.share = None
  /\ Window(IF win.input # None THEN [win EXCEPT !.input = None]
            ELSE IF win.rename # None THEN [win EXCEPT !.rename = None]
            ELSE IF win.preview # None THEN [win EXCEPT !.preview = None]
            ELSE [win EXCEPT !.menu = FALSE, !.context = None])

PreviewShare ==
  /\ win.preview # None /\ win.share = None /\ Act("share")
  /\ Window([win EXCEPT !.preview = None, !.share = win.preview])

ShareClosed ==
  /\ win.share # None /\ Act("close")
  /\ Reload
  /\ win' = [win EXCEPT !.share = None]
  /\ UNCHANGED <<server, hist, picked, clip, find, searches, ops, push>>

\* The viewer saved a new content (FileViewer): only the listing is affected.
PreviewEdited ==
  /\ win.preview # None /\ Act("edit")
  /\ Reload
  /\ UNCHANGED <<server, hist, picked, clip, find, win, searches, ops, push>>

\* Mutant: an Escape that closes a menu goes on to the listing.
EscapeBoth(w) == [closed |-> w, keep |-> win.menu = w.menu /\ win.context = w.context]
EscapeTo(w) == [closed |-> w, keep |-> TRUE]

\* One Escape closes the uppermost of these windows, or else clears the
\* selection; the share window does not take part.
TopWindow ==
  IF win.input # None THEN EscapeTo([win EXCEPT !.input = None])
  ELSE IF win.menu THEN EscapeTo([win EXCEPT !.menu = FALSE])
  ELSE IF win.context # None THEN EscapeTo([win EXCEPT !.context = None])
  ELSE IF win.rename # None THEN EscapeTo([win EXCEPT !.rename = None])
  ELSE IF win.preview # None THEN EscapeTo([win EXCEPT !.preview = None])
  ELSE [closed |-> win, keep |-> FALSE]

Escape ==
  /\ Act("escape")
  /\ win' = TopWindow.closed
  /\ picked' = IF TopWindow.keep THEN picked ELSE {}
  /\ UNCHANGED <<server, view, hist, clip, find, net, push, strayed>>

-----------------------------------------------------------------------------
BrowserInit ==
  /\ tree = Stored
  /\ stamp = 1
  /\ view = [path |-> <<>>, files |-> {}, loading |-> TRUE, error |-> FALSE]
  /\ hist = [list |-> << <<>> >>, at |-> 1]
  /\ picked = {}
  /\ clip = None
  /\ find = NoFind
  /\ win = NoWindow
  /\ loads = {[path |-> <<>>, latest |-> TRUE, err |-> FALSE, answer |-> None, bad |-> FALSE]}
  /\ searches = {}
  /\ ops = {}
  /\ push = [sent |-> FALSE, timer |-> FALSE]
  /\ strayed = FALSE
  /\ budget \in Habits

UserNext ==
  \/ DoubleClick \/ MenuOpen \/ Crumb \/ GoBack \/ GoForward \/ Refresh
  \/ Type \/ SearchRetry \/ Pick \/ PickAll \/ Cut \/ Copy
  \/ Delete \/ Paste \/ Upload \/ ConfirmInput \/ ConfirmRename
  \/ ContextMenu \/ MenuRename \/ MenuShare  \/ NewMenu \/ NewItem
  \/ Dismiss \/ PreviewShare \/ ShareClosed \/ PreviewEdited \/ Escape

WorldNext ==
  \/ Serve \/ ServeFails \/ OtherClient \/ CallReturns
  \/ ListAnswered \/ ListFails \/ ListArrives
  \/ PushArrives \/ PushLost \/ PushTimer
  \/ SearchTimer \/ SearchAnswered \/ SearchFails \/ SearchArrives

BrowserNext == UserNext \/ WorldNext

BrowserSpec == BrowserInit /\ [][BrowserNext]_bvars

-----------------------------------------------------------------------------
(* Properties. *)

Quiet == loads = {} /\ ops = {} /\ ~push.sent /\ ~push.timer

\* The skeleton stands on the screen as long as the newest list request is on
\* its way and no longer, and there is one newest request at most (loadFiles).
LoadingTracksLatest ==
  /\ view.loading <=> \E l \in loads : l.latest
  /\ \A l, m \in loads : l.latest /\ m.latest => l = m

\* Back and forward lead along the folders that were open: the history's
\* current entry is the open folder, and no step of it leads nowhere.
HistoryHere ==
  /\ hist.at \in 1..Len(hist.list)
  /\ hist.list[hist.at] = view.path
  /\ \A i \in 1..(Len(hist.list) - 1) : hist.list[i] # hist.list[i + 1]

\* When nothing is under way and no error is shown, the listing is the
\* server's, whatever the order of answers, notifications and changes by
\* others; unless a notification was lost or a call that returned after its
\* folder was left took the place of the newest request (strayed).
FreshWhenQuiet ==
  Quiet /\ ~strayed /\ ~view.error => view.files = Listing(view.path)

\* Search results belong to the open folder and, once no timer runs, to the
\* term in the search field (a new search drops the old results); an empty
\* field has none.
ResultsMatch ==
  find.results # None =>
    /\ find.query # None
    /\ \A n \in find.results :
         /\ Under(view.path, n.path)
         /\ find.timer \/ <<find.query, Last(n.path)>> \in Hit

\* A step that closes a dialog, the preview or a menu and does nothing else
\* leaves the selection alone (the two Escape listeners), unless what was
\* selected is in the clipboard now, cut or copied from the menu it closes.
SomeWindowCloses ==
  \/ win.menu /\ ~win'.menu
  \/ \E w \in {"input", "rename", "preview", "context"} : win[w] # None /\ win'[w] = None
Clipped == \E op \in {"move", "copy"} : clip' = [op |-> op, paths |-> TopLevel(Chosen)]

EscapeKeepsSelection ==
  [][SomeWindowCloses /\ view' = view /\ ops' = ops
     => picked' = picked \/ Clipped]_bvars

\* "A cut is cleared only if every actionable item reached the server, so
\* partial failures are never silently lost" (handlePaste).
CutReachesServer ==
  [][clip # None /\ clip' = None =>
       \E o \in ops : /\ o.op = "move" /\ o.paths = clip.paths
                      /\ ~o.missed /\ ~o.lost /\ o.left = {}]_bvars

BrowserTypeOK ==
  /\ tree \subseteq [id: [at: Nat, born: Path], path: Path, dir: BOOLEAN]
  /\ \A m, n \in tree : (m.path = n.path \/ m.id = n.id) => m = n
  /\ \A n \in tree : Parent(n.path) # <<>> => \E d \in At(Parent(n.path)) : d.dir
  /\ view.path \in Seq(Name) /\ view.loading \in BOOLEAN /\ view.error \in BOOLEAN
  /\ clip # None => clip.op \in {"move", "copy"} /\ clip.paths # {}
                     /\ \A p, q \in clip.paths : ~Under(p, q)
  /\ find.timer \/ find.failed \/ find.results # None => find.query # None
  /\ \A o \in ops : o.left \subseteq o.paths

=============================================================================
