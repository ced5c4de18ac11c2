------------------------------- MODULE LozaLinks -------------------------------
(***************************************************************************)
(* Public links of one item, from both ends: the owner's two screens that  *)
(* make and revoke them (ShareModal.tsx over the file browser, SharesTab   *)
(* .tsx), the server's rows (handlers/shares.rs), and a visitor's page     *)
(* (share-viewer-web).  Every screen works on answers that arrive later,   *)
(* in any order; lists carry no request number.                            *)
(***************************************************************************)
EXTENDS Integers, Sequences, FiniteSets

CONSTANTS
  Password,     \* passwords, the owner's and the visitor's guesses
  None,         \* nothing: no password, no answer yet
  Inside,       \* the shared folder: a set of [path, dir, show]; show: the
                \* viewer previews it.  A path is a sequence, <<>> the folder
  MaxLinks,     \* bound: links, the earlier ones included
  Earlier,      \* the item's links at first: a set of [token, pass, active]
  Strikes,      \* wrong guesses until the server stops checking
  MaxCalls,     \* bound: calls of a screen on their way
  Budgets       \* bounds: how many links can still be made, gestures of the
                \* owner and of the visitor, failed calls

ASSUME LinksBounds ==
  /\ {MaxLinks, Strikes, MaxCalls} \subseteq Nat
  /\ Budgets \subseteq [links : Nat, acts : Nat, visits : Nat, fails : Nat]
  /\ Earlier \subseteq [token : 1..MaxLinks, pass : Password \cup {None}, active : BOOLEAN]
  /\ \A b \in Budgets, l \in Earlier : b.links < l.token
  /\ \A l, m \in Earlier : l.token = m.token => l = m
ASSUME NoneAssumption == None \notin Password /\ None # {}
ASSUME InsideAssumption == IsFiniteSet(Inside) /\ \A e \in Inside : e.path # <<>>

VARIABLES
  links,    \* server: file_shares, a set of [token, pass, active]
  strikes,  \* server: failed unlocks of the visitor's address, per link
  panel,    \* the owner's screen: which one is open, and its state
  pcalls,   \* the owner's calls on their way
  crossed,  \* (history) the open screen asked for the list while it waited for
            \* it, or others changed the links since it opened
  visit,    \* the visitor's page
  vcalls,   \* the visitor's calls on their way; (history) c.open: the links
            \* in force when c was asked
  jobs,     \* server: unlocks under way, also of pages that were left
  proven,   \* (history) links whose password the visitor has given
  left      \* what is left of the bounds; left.links numbers the tokens

lvars == <<links, strikes, panel, pcalls, crossed, visit, vcalls, jobs, proven, left>>
owner == <<panel, pcalls, crossed>>
visitor == <<visit, vcalls, jobs, proven>>

Spend(what) == left[what] > 0 /\ left' = [left EXCEPT ![what] = @ - 1]

-----------------------------------------------------------------------------
(* The owner's screens.  Both list all links of the item; the window over   *)
(* the browser also makes links.                                            *)

Rows == {[token |-> l.token, active |-> l.active, locked |-> l.pass # None] : l \in links}

Fresh(at) ==
  [at |-> at, listed |-> {}, loading |-> at # "files", error |-> FALSE, creating |-> FALSE,
   protect |-> FALSE, password |-> None, nag |-> FALSE, busy |-> None]

FreeNo(calls) == CHOOSE n \in 1..MaxCalls : \A c \in calls : c.no # n

CallOf(no, kind, pass, token, then) ==
  [no |-> no, kind |-> kind, pass |-> pass, token |-> token, then |-> then,
   here |-> TRUE, answer |-> None, bad |-> FALSE]

\* Sending needs a free number, a bound of the model.
Sent(calls, kind, pass, token, then) ==
  calls \cup {CallOf(FreeNo(calls), kind, pass, token, then)}
Room(calls) == Cardinality(calls) < MaxCalls

Answered(c) == c.answer # None \/ c.bad
Waiting(calls) == \E c \in calls : c.kind = "list" /\ c.here

\* load(); "then" is what the caller does when it has returned.
Load(calls, then) ==
  /\ Room(calls)
  /\ pcalls' = Sent(calls, "list", None, None, then)
  /\ crossed' = (crossed \/ Waiting(calls))

\* A screen that closes forgets its calls; they are carried out all the same.
OpenPanel ==
  /\ panel.at = "files" /\ Spend("acts")
  /\ \E at \in {"modal", "tab"} : panel' = Fresh(at)
  /\ Room(pcalls)
  /\ pcalls' = Sent(pcalls, "list", None, None, "nothing")
  /\ crossed' = \E c \in pcalls : ~Answered(c)
  /\ UNCHANGED <<links, strikes, visitor>>

ClosePanel ==
  /\ panel.at # "files" /\ Spend("acts")
  /\ panel' = Fresh("files")
  /\ pcalls' = {[c EXCEPT !.here = FALSE] : c \in {c \in pcalls : c.kind # "list"}}
  /\ UNCHANGED <<links, strikes, visitor, crossed>>

\* Only the tab has a button for it.
RefreshTab ==
  /\ panel.at = "tab" /\ Spend("acts")
  /\ Load(pcalls, "nothing")
  /\ panel' = [panel EXCEPT !.loading = TRUE, !.error = FALSE]
  /\ UNCHANGED <<links, strikes, visitor>>

Form(p) ==
  /\ panel.at = "modal" /\ Spend("acts")
  /\ panel' = p
  /\ UNCHANGED <<links, strikes, visitor, pcalls, crossed>>

\* Mutant: switching the protection off leaves the password in the form.
ToggleKeeps ==
  Form([panel EXCEPT !.protect = ~panel.protect, !.nag = FALSE])

ToggleProtect ==
  Form([panel EXCEPT !.protect = ~panel.protect, !.nag = FALSE,
                     !.password = IF panel.protect THEN None ELSE @])

TypePassword ==
  /\ panel.protect
  /\ \E pw \in Password \cup {None} : Form([panel EXCEPT !.password = pw, !.nag = FALSE])

\* handleCreate: the password of the form goes along, whatever the switch says.
CreateLink ==
  /\ panel.at = "modal" /\ ~panel.creating /\ Spend("acts")
  /\ IF panel.protect /\ panel.password = None
     THEN panel' = [panel EXCEPT !.nag = TRUE] /\ UNCHANGED pcalls
     ELSE /\ panel' = [panel EXCEPT !.nag = FALSE, !.creating = TRUE, !.error = FALSE]
          /\ Room(pcalls) /\ left.links > Cardinality({c \in pcalls : c.kind = "create"})
          /\ pcalls' = Sent(pcalls, "create", panel.password, None, "nothing")
  /\ UNCHANGED <<links, strikes, visitor, crossed>>

\* The button stands beside active links; in the tab it asks first and is
\* disabled while its own revocation runs.
Revoke ==
  /\ panel.at # "files" /\ ~panel.loading /\ Spend("acts")
  /\ Room(pcalls)
  /\ \E r \in panel.listed :
       /\ r.active /\ panel.busy # r.token
       /\ pcalls' = Sent(pcalls, "revoke", None, r.token, "nothing")
       /\ panel' = IF panel.at = "tab" THEN [panel EXCEPT !.busy = r.token] ELSE panel
  /\ UNCHANGED <<links, strikes, visitor, crossed>>

\* Mutant: an error of the creation leaves the button disabled.
StopOnSuccess(c, ok) == c.then = "created" /\ ok
Stops(c, ok) == c.kind = "create" \/ c.then = "created"

\* Mutants: the screen does not ask for the list again after a revocation; the
\* list keeps what was listed before.
ReloadsAfterCreate(c) == c.kind = "create"
Reloads(c) == c.kind # "list"

OwnerArrives ==
  /\ \E c \in pcalls :
       /\ Answered(c)
       /\ LET rest == pcalls \ {c}
              done == IF c.then = "revoked" \/ (c.kind = "revoke" /\ c.bad)
                      THEN [panel EXCEPT !.busy = None] ELSE panel
          IN IF ~c.here
             THEN pcalls' = rest /\ UNCHANGED <<panel, crossed>>
             ELSE IF c.bad
             THEN /\ panel' = [done EXCEPT !.error = TRUE,
                        !.loading = @ /\ c.kind # "list",
                        !.creating = @ /\ ~Stops(c, FALSE)]
                  /\ pcalls' = rest /\ UNCHANGED crossed
             ELSE IF Reloads(c)
             THEN /\ Load(rest, IF c.kind = "create" THEN "created" ELSE "revoked")
                  /\ panel' = [panel EXCEPT !.loading = TRUE, !.error = FALSE,
                        !.password = IF c.kind = "create" THEN None ELSE @,
                        !.protect = @ /\ c.kind # "create"]
             ELSE /\ panel' = [done EXCEPT
                        !.listed = IF c.kind = "list" THEN c.answer ELSE @,
                        !.loading = @ /\ c.kind # "list",
                        !.creating = @ /\ ~Stops(c, TRUE)]
                  /\ pcalls' = rest /\ UNCHANGED crossed
  /\ UNCHANGED <<links, strikes, visitor, left>>

-----------------------------------------------------------------------------
(* The server. *)

Used == (left.links + 1)..MaxLinks

\* Making a link takes its number from the bound.
CreateServed(c) ==
  /\ c.kind = "create" /\ Spend("links")
  /\ links' = links \cup {[token |-> left.links, pass |-> c.pass, active |-> TRUE]}
  /\ pcalls' = (pcalls \ {c}) \cup {[c EXCEPT !.answer = {}]}
ListServed(c) ==
  /\ c.kind = "list"
  /\ pcalls' = (pcalls \ {c}) \cup {[c EXCEPT !.answer = Rows]}
  /\ UNCHANGED <<links, left>>

Revoked(t) == {IF l.token = t THEN [l EXCEPT !.active = FALSE] ELSE l : l \in links}

\* It answers the same twice, as long as the row is there.
RevokeServed(c) ==
  /\ c.kind = "revoke"
  /\ links' = Revoked(c.token)
  /\ pcalls' = (pcalls \ {c}) \cup {IF \E l \in links : l.token = c.token
                                    THEN [c EXCEPT !.answer = {}] ELSE [c EXCEPT !.bad = TRUE]}
  /\ UNCHANGED left

OwnerServed ==
  /\ \E c \in pcalls :
       ~Answered(c) /\ (CreateServed(c) \/ ListServed(c) \/ RevokeServed(c))
  /\ UNCHANGED <<strikes, panel, crossed, visitor>>

\* A call is not carried out, or its answer is lost.
OwnerCallFails ==
  /\ Spend("fails")
  /\ \E c \in pcalls : ~c.bad /\ pcalls' = (pcalls \ {c}) \cup {[c EXCEPT !.bad = TRUE]}
  /\ UNCHANGED <<links, strikes, panel, crossed, visitor>>

\* Another client revokes a link, or deletes the item, its links with it
\* (ON DELETE CASCADE), and stores it anew.
OtherClient ==
  /\ Spend("acts")
  /\ \/ \E l \in links : l.active /\ links' = Revoked(l.token)
     \/ links # {} /\ links' = {}
  /\ crossed' = TRUE
  /\ UNCHANGED <<strikes, panel, pcalls, visitor>>

Link(t) == {l \in links : l.token = t}

\* Mutant: the access token alone is enough, the row is not looked at again.
OpensOnce(l) == TRUE
Opens(l) == l.active

Children(path) == {e \in Inside : Len(e.path) = Len(path) + 1 /\ SubSeq(e.path, 1, Len(path)) = path}
IsFolder(path) == path = <<>> \/ \E e \in Inside : e.path = path /\ e.dir

File(path) == {e \in Inside : e.path = path /\ ~e.dir}

Ok(c, answer) == vcalls' = (vcalls \ {c}) \cup {[c EXCEPT !.answer = answer]}
Refuse(c) == vcalls' = (vcalls \ {c}) \cup {[c EXCEPT !.bad = TRUE]}

MetaServed ==
  /\ \E c \in vcalls :
       /\ c.kind = "meta" /\ ~Answered(c)
       /\ \/ \E l \in Link(visit.token) :
               Ok(c, {[active |-> l.active, locked |-> l.pass # None]})
          \/ Link(visit.token) = {} /\ Refuse(c)
  /\ UNCHANGED <<links, strikes, owner, visit, jobs, proven, left>>

\* share_unlock: a link in force, the limiter, the password.  Between its steps
\* other requests run, those of other pages of the visitor among them.
Unlock(token, guess) ==
  [no |-> FreeNo(jobs), token |-> token, guess |-> guess, at |-> "fetch", pass |-> None,
   here |-> TRUE]

GoesOn(u, v) == jobs' = (jobs \ {u}) \cup {v} /\ UNCHANGED vcalls

\* Only a page that still waits for it hears of the end.
Ends(u, ok) ==
  /\ jobs' = jobs \ {u}
  /\ IF u.here
     THEN \E c \in vcalls :
            c.kind = "unlock" /\ ~Answered(c) /\ IF ok THEN Ok(c, {}) ELSE Refuse(c)
     ELSE UNCHANGED vcalls

UnlockFetched ==
  /\ \E u \in jobs :
       /\ u.at = "fetch"
       /\ \/ \E l \in Link(u.token) :
               l.active /\ GoesOn(u, [u EXCEPT !.at = "limit", !.pass = l.pass])
          \/ ~(\E l \in Link(u.token) : l.active) /\ Ends(u, FALSE)
  /\ UNCHANGED <<links, strikes, owner, visit, proven, left>>

UnlockChecked ==
  /\ \E u \in jobs :
       /\ u.at = "limit"
       /\ IF strikes[u.token] < Strikes
          THEN GoesOn(u, [u EXCEPT !.at = "verify"])
          ELSE Ends(u, FALSE)
  /\ UNCHANGED <<links, strikes, owner, visit, proven, left>>

UnlockServed ==
  /\ \E u \in jobs :
       /\ u.at = "verify"
       /\ \/ /\ u.pass \notin {None, u.guess}
             /\ Ends(u, FALSE) /\ UNCHANGED proven
             /\ strikes' = [strikes EXCEPT ![u.token] = @ + 1]
          \/ /\ u.pass \in {None, u.guess}
             /\ Ends(u, TRUE) /\ proven' = proven \cup {u.token}
             /\ strikes' = [strikes EXCEPT ![u.token] = IF u.pass = None THEN @ ELSE 0]
  /\ UNCHANGED <<links, owner, visit, left>>

\* share_list and serve_share_file look at the row and the access token on every
\* request, and only then read the folder or the file.
Content == {"content", "file"}

ContentChecked ==
  /\ \E c \in vcalls :
       /\ c.kind \in Content /\ ~Answered(c) /\ ~c.let
       /\ IF visit.access /\ \E l \in Link(visit.token) : Opens(l)
          THEN vcalls' = (vcalls \ {c}) \cup {[c EXCEPT !.let = TRUE]}
          ELSE Refuse(c)
  /\ UNCHANGED <<links, strikes, owner, visit, jobs, proven, left>>

ContentServed ==
  /\ \E c \in vcalls :
       /\ c.kind \in Content /\ ~Answered(c) /\ c.let
       /\ \/ c.kind = "content" /\ IsFolder(c.path) /\ Ok(c, Children(c.path))
          \/ c.kind = "content" /\ ~IsFolder(c.path) /\ Refuse(c)
          \/ c.kind = "file" /\ File(c.path) # {} /\ Ok(c, File(c.path))
          \/ c.kind = "file" /\ File(c.path) = {} /\ Refuse(c)
  /\ UNCHANGED <<links, strikes, owner, visit, jobs, proven, left>>

\* What becomes of an unlock whose page does not wait for it any more: it goes
\* on, or ends with the connection.
Abandoned == {{[u EXCEPT !.here = FALSE] : u \in jobs}, {u \in jobs : ~u.here}}

VisitorCallFails ==
  /\ Spend("fails")
  /\ \E c \in vcalls :
       /\ ~c.bad /\ Refuse(c)
       /\ IF c.kind = "unlock" THEN jobs' \in Abandoned ELSE UNCHANGED jobs
  /\ UNCHANGED <<links, strikes, owner, visit, proven>>

\* The limiter's window, or the access token's day, is over.
TimePasses ==
  /\ Spend("visits")
  /\ \/ /\ \E t \in Used : strikes[t] > 0
        /\ strikes' = [t \in 1..MaxLinks |-> 0] /\ UNCHANGED visit
     \/ /\ visit.access
        /\ visit' = [visit EXCEPT !.access = FALSE] /\ UNCHANGED strikes
  /\ UNCHANGED <<links, owner, vcalls, jobs, proven>>

-----------------------------------------------------------------------------
(* The visitor's page. *)

Closed == [screen |-> "closed", token |-> None, access |-> FALSE, path |-> <<>>,
           entries |-> {}, loading |-> FALSE, error |-> FALSE, busy |-> FALSE, preview |-> None]

InForce == {l \in Link(visit.token) : l.active}

Ask(calls, kind, path, open) ==
  calls \cup {[kind |-> kind, path |-> path, open |-> open, live |-> kind # "file", let |-> FALSE,
               answer |-> None, bad |-> FALSE]}
Forget(calls) == {[c EXCEPT !.live = FALSE] : c \in calls}

\* Whoever has a link, in force or not, opens it; reloading the page starts over.
OpenPage ==
  /\ Spend("visits")
  /\ \E t \in Used : visit' = [Closed EXCEPT !.screen = "loading", !.token = t]
  /\ vcalls' = Ask({}, "meta", <<>>, {})
  /\ jobs' \in Abandoned
  /\ UNCHANGED <<links, strikes, owner, proven>>

MetaArrives ==
  /\ \E c \in vcalls :
       /\ c.kind = "meta" /\ Answered(c)
       /\ LET rest == vcalls \ {c}
          IN IF c.bad \/ \E m \in c.answer : ~m.active
             THEN visit' = [visit EXCEPT !.screen = "error"] /\ vcalls' = rest /\ UNCHANGED jobs
             ELSE IF \E m \in c.answer : m.locked
             THEN visit' = [visit EXCEPT !.screen = "locked"] /\ vcalls' = rest /\ UNCHANGED jobs
             ELSE /\ Room(jobs) /\ jobs' = jobs \cup {Unlock(visit.token, None)}
                  /\ vcalls' = Ask(rest, "unlock", <<>>, {}) /\ UNCHANGED visit
  /\ UNCHANGED <<links, strikes, owner, proven, left>>

Submit ==
  /\ visit.screen = "locked" /\ ~visit.busy /\ Spend("visits")
  /\ Room(jobs) /\ \E pw \in Password : jobs' = jobs \cup {Unlock(visit.token, pw)}
  /\ vcalls' = Ask(vcalls, "unlock", <<>>, {})
  /\ visit' = [visit EXCEPT !.busy = TRUE, !.error = FALSE]
  /\ UNCHANGED <<links, strikes, owner, proven>>

\* Without a password a refusal ends the page, with one it is shown there.
UnlockArrives ==
  /\ \E c \in vcalls :
       /\ c.kind = "unlock" /\ Answered(c)
       /\ LET rest == vcalls \ {c}
          IN IF c.bad
             THEN /\ visit' = IF visit.screen = "locked"
                              THEN [visit EXCEPT !.busy = FALSE, !.error = TRUE]
                              ELSE [visit EXCEPT !.screen = "error"]
                  /\ vcalls' = rest
             ELSE /\ visit' = [visit EXCEPT !.screen = "ready", !.access = TRUE, !.busy = FALSE,
                                            !.error = FALSE, !.loading = TRUE]
                  /\ vcalls' = Ask(rest, "content", <<>>, InForce)
  /\ UNCHANGED <<links, strikes, owner, jobs, proven, left>>

\* Mutant: the answer for the folder that was left still counts.
ForgetNothing(calls) == calls
ForgetList(calls) == Forget(calls)

GoInside(path) ==
  /\ Spend("visits")
  /\ visit' = [visit EXCEPT !.path = path, !.loading = TRUE, !.error = FALSE]
  /\ vcalls' = Ask(ForgetList(vcalls), "content", path, InForce)
  /\ UNCHANGED <<links, strikes, owner, jobs, proven>>

OpenEntry ==
  /\ visit.screen = "ready" /\ ~visit.loading /\ ~visit.error /\ visit.preview = None
  /\ \E e \in visit.entries : e.dir /\ GoInside(e.path)

GoCrumb ==
  /\ visit.screen = "ready" /\ visit.preview = None
  /\ \E i \in 0..(Len(visit.path) - 1) : GoInside(SubSeq(visit.path, 1, i))

\* The page asks for its folders; a file goes to the browser itself.
ContentArrives ==
  /\ \E c \in vcalls :
       /\ c.kind \in Content /\ Answered(c)
       /\ vcalls' = vcalls \ {c}
       /\ visit' = IF ~c.live THEN visit
                   ELSE [visit EXCEPT !.loading = FALSE, !.error = c.bad,
                                      !.entries = IF c.bad THEN @ ELSE c.answer]
  /\ UNCHANGED <<links, strikes, owner, jobs, proven, left>>

\* The lightbox over the files of the folder that can be previewed.
Previewables == Cardinality({e \in visit.entries : e.show})

\* Mutant: the step past the last picture is not brought back to the first.
StepOver(i, d) == i + d
StepTo(i, d) == (i + d) % Previewables

Lightbox(p) ==
  /\ visit.screen = "ready" /\ Spend("visits")
  /\ visit' = [visit EXCEPT !.preview = p]
  /\ UNCHANGED <<links, strikes, owner, vcalls, jobs, proven>>

OpenLightbox ==
  /\ visit.preview = None /\ ~visit.loading /\ ~visit.error
  /\ \E i \in 0..(Previewables - 1) : Lightbox(i)
StepLightbox ==
  /\ visit.preview # None
  /\ \E d \in {-1, 1} : Lightbox(StepTo(visit.preview + Previewables, d))
CloseLightbox == visit.preview # None /\ Lightbox(None)

\* A file of the folder is asked for, to be shown or saved.
Fetch ==
  /\ visit.screen = "ready" /\ ~visit.loading /\ ~visit.error /\ Spend("visits")
  /\ \E e \in visit.entries : ~e.dir /\ vcalls' = Ask(vcalls, "file", e.path, InForce)
  /\ UNCHANGED <<links, strikes, owner, visit, jobs, proven>>

-----------------------------------------------------------------------------
LinksInit ==
  /\ links = Earlier
  /\ strikes = [t \in 1..MaxLinks |-> 0]
  /\ panel = Fresh("files")
  /\ pcalls = {}
  /\ crossed = FALSE
  /\ visit = Closed
  /\ vcalls = {}
  /\ proven = {}
  /\ jobs = {}
  /\ left \in Budgets

OwnerAnswers == OwnerServed \/ OwnerArrives

LinksNext ==
  \/ OpenPanel \/ ClosePanel \/ RefreshTab \/ ToggleProtect \/ TypePassword
  \/ CreateLink \/ Revoke \/ OwnerCallFails \/ OtherClient \/ OwnerServed \/ OwnerArrives
  \/ MetaServed \/ UnlockFetched \/ UnlockChecked \/ UnlockServed
  \/ ContentChecked \/ ContentServed \/ VisitorCallFails \/ TimePasses
  \/ OpenPage \/ MetaArrives \/ Submit \/ UnlockArrives
  \/ OpenEntry \/ GoCrumb \/ ContentArrives
  \/ OpenLightbox \/ StepLightbox \/ CloseLightbox \/ Fetch

\* The server and the net answer every call in the end, with success or not.
LinksSpec == LinksInit /\ [][LinksNext]_lvars /\ WF_lvars(OwnerAnswers)

-----------------------------------------------------------------------------
(* Properties. *)

\* The switch tells the truth: while it is off the form holds no password, and
\* every call that makes a link takes a password along exactly if it is on.
LinkAsShown ==
  [][/\ ~panel'.protect => panel'.password = None
     /\ panel'.creating /\ ~panel.creating =>
          \A c \in pcalls' \ pcalls : (c.pass # None) = panel.protect]_lvars

\* Whoever asks for a folder or a file of it gets it only through a link that
\* was in force when it was asked for, and one with a password only after it
\* was given: neither a page that was opened before the revocation nor its
\* access token opens anything afterwards.
OnlyOpenLinksServe ==
  \A c \in vcalls :
    (c.kind \in Content /\ c.answer # None)
      => \E l \in c.open : l.pass = None \/ l.token \in proven

\* When the owner's screen waits for nothing and shows no error, it shows the
\* links as they are, unless others changed them or two lists were asked for at
\* once (crossed): lists carry no number, and the one that arrives last stays.
ListedWhenQuiet ==
  (panel.at # "files" /\ pcalls = {} /\ ~crossed /\ ~panel.error) => panel.listed = Rows

\* A folder screen that is not loading shows the folder its path names.
ViewerShowsPath ==
  (visit.screen = "ready" /\ ~visit.loading /\ ~visit.error)
    => visit.entries = Children(visit.path)

\* The lightbox always shows one of the files of its folder.
LightboxInRange ==
  visit.preview # None => visit.preview \in 0..(Previewables - 1)

\* The button that makes a link comes back.
CreatingEnds == panel.creating ~> ~panel.creating

LinksTypeOK ==
  /\ \A l, m \in links : l.token = m.token => l = m
  /\ panel.at = "files" => panel = Fresh("files")
  /\ panel.creating => \E c \in pcalls : c.here /\ Stops(c, TRUE)
  /\ panel.loading => Waiting(pcalls)
  /\ panel.busy # None => \E c \in pcalls : c.here /\ (c.kind = "revoke" \/ c.then = "revoked")
  /\ \A c, d \in pcalls : c.no = d.no => c = d
  /\ visit.busy => visit.screen = "locked" /\ \E c \in vcalls : c.kind = "unlock"
  /\ visit.screen = "ready" => visit.token \in proven
  /\ (\E u \in jobs : u.here) <=> (\E c \in vcalls : c.kind = "unlock" /\ ~Answered(c))
  /\ \A t \in 1..MaxLinks : strikes[t] \in Nat

=============================================================================
