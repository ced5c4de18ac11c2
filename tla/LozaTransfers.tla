----------------------------- MODULE LozaTransfers -----------------------------
(***************************************************************************)
(* Transfers of the desktop app, beside its sessions: the queue of cards   *)
(* in the page (OperationQueue.tsx), the commands that upload and download *)
(* (src-tauri/src/files.rs), and the tokens by which one of them is        *)
(* cancelled (transfers.rs).  The queue lives in the file section: leaving *)
(* it takes the cards away, and the transfers go on.                       *)
(***************************************************************************)
EXTENDS LozaSession

CONSTANTS
  Item,     \* the files a user may send or fetch
  Stored    \* those that are on the server at first

ASSUME StoredAssumption == Stored \subseteq Item /\ IsFiniteSet(Item)

VARIABLES
  cards,     \* the queue: a set of [id, kind, item, root, status]
  runs,      \* transfers the page waits for, with what follows each (rest)
  made,      \* the last id given
  registry,  \* TransferRegistry: ids whose token can be cancelled
  cancels,   \* calls of cancel_transfer under way
  events,    \* progress events under way
  cloud,     \* files on the server
  parts      \* ids whose ".loza-part" file is in the downloads directory

tvars == <<cards, runs, made, registry, cancels, events, cloud, parts>>
desktop == <<svars, tvars>>

\* The file section is open.
Here == page = "dashboard" /\ section = "loza"

Changed(r, q) == runs' = (runs \ {r}) \cup {q}
Over(r, result) == [r EXCEPT !.at = "over", !.watch = "away", !.result = result]

-----------------------------------------------------------------------------
(* The page. *)

\* uploadFile, uploadPath, downloadFile: a card, a listener, and a command. A
\* retried transfer keeps the root of the first. A loop goes on without cards
\* (home) when its section is left.
Started(rs, cs, kind, item, rest, root, home) ==
  LET id == made + 1
  IN /\ made' = id
     /\ runs' = rs \cup {[id |-> id, kind |-> kind, item |-> item, rest |-> rest,
                          root |-> IF root = 0 THEN id ELSE root, home |-> home, window |-> TRUE,
                          at |-> "asked", watch |-> "away", heard |-> FALSE, result |-> "none"]}
     /\ cards' = cs \cup (IF home THEN {[id |-> id, kind |-> kind, item |-> item,
                                        root |-> IF root = 0 THEN id ELSE root,
                                        status |-> "active"]} ELSE {})

\* Files dropped or picked, or the selection downloaded: one after the other.
\* Bound: what the transfers and the retries send together.
Transfer ==
  /\ Here
  /\ \E kind \in {"file", "path", "download"}, items \in SUBSET Item :
       /\ Cardinality(items) <= sleft.sends
       /\ sleft' = [sleft EXCEPT !.sends = @ - Cardinality(items)]
       /\ \E item \in items : Started(runs, cards, kind, item, items \ {item}, 0, TRUE)
  /\ UNCHANGED <<registry, cancels, events, cloud, parts>>

\* A command rejects with a plain string, which has no message: no failure is
\* told from a cancellation.
StatusOf(result) == IF result = "ok" THEN "completed" ELSE "error"

WithStatus(id, status) ==
  {IF c.id = id THEN [c EXCEPT !.status = status] ELSE c : c \in cards}

\* A failed download ends the loop, a failed upload does not.
GoesOn(r) == r.window /\ r.rest # {} /\ (r.kind = "download" => r.result = "ok")

Returns ==
  /\ \E r \in runs :
       /\ r.at = "over"
       /\ LET cs == IF r.home THEN WithStatus(r.id, StatusOf(r.result)) ELSE cards
          IN \/ /\ GoesOn(r)
                /\ \E item \in r.rest :
                     Started(runs \ {r}, cs, r.kind, item, r.rest \ {item}, 0, r.home)
             \/ /\ ~GoesOn(r)
                /\ runs' = runs \ {r} /\ cards' = cs /\ UNCHANGED made
  /\ UNCHANGED <<registry, cancels, events, cloud, parts, sleft>>

\* Mutant: the listener of a transfer is never taken off.
ListensForever(id) == TRUE
Listens(id) == \E r \in runs : r.id = id /\ r.window

EventArrives ==
  /\ \E id \in events :
       /\ events' = events \ {id}
       /\ cards' = IF Listens(id) THEN WithStatus(id, "active") ELSE cards
  /\ UNCHANGED <<runs, made, registry, cancels, cloud, parts, sleft>>

\* The card changes at once, the command is only asked.
Cancel ==
  /\ \E c \in cards :
       /\ c.status = "active"
       /\ cards' = WithStatus(c.id, "cancelled")
       /\ cancels' = cancels \cup {c.id}
  /\ Spare("cancels")
  /\ UNCHANGED <<runs, made, registry, events, cloud, parts>>

Close ==
  /\ \E c \in cards : cards' = cards \ {c}
  /\ UNCHANGED <<runs, made, registry, cancels, events, cloud, parts, sleft>>

\* Mutant: a cancelled card can be retried too.
RetriableEarly(c) == c.status \in {"error", "cancelled"}
Retriable(c) == c.status = "error"

\* Only a card that holds its bytes is sent again.
Retry ==
  /\ \E c \in cards :
       /\ Retriable(c)
       /\ \/ /\ c.kind = "file" /\ Spare("sends")
             /\ Started(runs, cards \ {c}, "file", c.item, {}, c.root, TRUE)
          \/ /\ c.kind # "file"
             /\ cards' = cards \ {c}
             /\ UNCHANGED <<runs, made, sleft>>
  /\ UNCHANGED <<registry, cancels, events, cloud, parts>>

-----------------------------------------------------------------------------
(* The commands. *)

\* An upload registers its token, a download asks the server first. A picked
\* file may be gone.
Opens(r) ==
  /\ r.at = "asked"
  /\ \/ /\ store = 0 \/ url = None \/ r.kind = "path"
        /\ Changed(r, Over(r, "error")) /\ UNCHANGED registry
     \/ /\ store # 0 /\ url # None
        /\ Changed(r, [r EXCEPT !.at = IF r.kind = "download" THEN "request" ELSE "open"])
        /\ registry' = IF r.kind = "download" THEN registry ELSE registry \cup {r.id}
  /\ UNCHANGED <<events, cloud, parts>>

\* The download makes its part file, then registers.
Responds(r) ==
  /\ r.at = "request"
  /\ \/ /\ Changed(r, Over(r, "error")) /\ UNCHANGED <<registry, parts>>
     \/ /\ r.item \in cloud
        /\ Changed(r, [r EXCEPT !.at = "open"])
        /\ registry' = registry \cup {r.id}
        /\ parts' = parts \cup {r.id}
  /\ UNCHANGED <<events, cloud>>

\* CancelToken::cancelled: the flag is read, then the wake-up is waited for.
LooksAtFlag(r) ==
  /\ r.at = "open" /\ r.watch = "away" /\ ~r.heard
  /\ Changed(r, [r EXCEPT !.watch = "looked"])
  /\ UNCHANGED <<registry, events, cloud, parts>>
AwaitsWake(r) ==
  /\ r.watch = "looked"
  /\ Changed(r, [r EXCEPT !.watch = "waits"])
  /\ UNCHANGED <<registry, events, cloud, parts>>

\* One select at a time: the branch of the request is taken between polls.
Polled(r) == r.at = "open" /\ r.watch # "looked"

\* Bound: one event of a transfer under way. A download selects anew with each
\* chunk, an upload does not.
Chunk(r) ==
  /\ Polled(r) /\ r.id \notin events
  /\ events' = events \cup {r.id}
  /\ Changed(r, IF r.kind = "download" THEN [r EXCEPT !.watch = "away"] ELSE r)
  /\ UNCHANGED <<registry, cloud, parts>>

\* Mutant: a failed download leaves its part file.
PartsKept(r, result) == IF result = "ok" THEN parts \ {r.id} ELSE parts
PartsAfter(r, result) == parts \ {r.id}

\* An upload that fails or is cancelled may have been stored all the same; one
\* of a stored file fails (overwrite is off).
Ends(r, result) ==
  /\ Changed(r, Over(r, result))
  /\ registry' = registry \ {r.id}
  /\ parts' = PartsAfter(r, result)
  /\ IF r.kind = "download" THEN UNCHANGED cloud
     ELSE IF result = "ok" THEN r.item \notin cloud /\ cloud' = cloud \cup {r.item}
     ELSE cloud' \in {cloud, cloud \cup {r.item}}

EndsOk(r) ==
  /\ Polled(r) /\ Ends(r, "ok")
  /\ events' = IF r.kind = "file" THEN events ELSE events \cup {r.id}
EndsError(r) == Polled(r) /\ Ends(r, "error") /\ UNCHANGED events
EndsCancelled(r) ==
  /\ r.at = "open" /\ r.watch = "away" /\ r.heard
  /\ Ends(r, "CANCELLED") /\ UNCHANGED events

Runs ==
  /\ \E r \in runs :
       \/ Opens(r) \/ Responds(r) \/ LooksAtFlag(r) \/ AwaitsWake(r) \/ Chunk(r)
       \/ EndsOk(r) \/ EndsError(r) \/ EndsCancelled(r)
  /\ UNCHANGED <<cards, made, cancels, sleft>>

\* cancel_transfer takes the token out and sets its flag; notify_waiters wakes
\* those that wait already. Without a token it does nothing.
CancelServed ==
  /\ \E id \in cancels :
       /\ cancels' = cancels \ {id}
       /\ registry' = registry \ {id}
       /\ runs' = {IF r.id # id \/ id \notin registry THEN r
                   ELSE [r EXCEPT !.heard = TRUE, !.watch = IF @ = "waits" THEN "away" ELSE @]
                   : r \in runs}
  /\ UNCHANGED <<cards, made, events, cloud, parts, sleft>>

TransferNext ==
  /\ Transfer \/ Returns \/ EventArrives \/ Cancel \/ Close \/ Retry \/ Runs \/ CancelServed
  /\ UNCHANGED <<stored, rows, old, calls, screen, amiss>>

-----------------------------------------------------------------------------
(* Composition with the sessions. *)

\* Mutant: the queue outlives its section.
CardsStay == cards' = cards
CardsFollow == cards' = IF Here' THEN cards ELSE {}

\* A step of the sessions may leave the section.
Follow ==
  /\ CardsFollow
  /\ runs' = {[r EXCEPT !.home = @ /\ Here'] : r \in runs}
  /\ UNCHANGED <<made, registry, cancels, events, cloud, parts>>

\* The page is loaded anew: the commands end for nobody.
WindowGoes ==
  /\ CardsFollow
  /\ runs' = {[r EXCEPT !.home = FALSE, !.window = FALSE] : r \in runs}
  /\ UNCHANGED <<made, registry, cancels, events, cloud, parts>>

\* Part files of a process that ends are left.
ProcessGoes ==
  /\ cards' = {} /\ runs' = {} /\ registry' = {} /\ cancels' = {} /\ events' = {}
  /\ UNCHANGED <<made, cloud, parts>>

DesktopInit ==
  /\ SessionInit
  /\ cards = {} /\ runs = {} /\ made = 0
  /\ registry = {} /\ cancels = {} /\ events = {}
  /\ cloud = Stored /\ parts = {}

DesktopNext ==
  \/ Stays /\ Follow
  \/ ChangeServer /\ WindowGoes
  \/ Restart /\ ProcessGoes
  \/ TransferNext

\* The file client has no limit of time: no fairness for transfers.
DesktopSpec ==
  DesktopInit /\ [][DesktopNext]_desktop /\ WF_desktop(CommandNext /\ Follow)

-----------------------------------------------------------------------------
(* Properties. *)

\* A card that runs has a transfer that will end it, though progress events
\* arrive in their own time (updateOperation in the listeners).
NoOrphanCard ==
  \A c \in cards : c.status = "active" => \E r \in runs : r.id = c.id /\ r.window

\* A transfer that is over has left neither a token nor a part file, however it
\* ended (the early returns of files.rs).
NothingLeft ==
  \A r \in runs : r.id \in registry \cup parts => r.at = "open"

\* A retried upload is never sent while the one it repeats is still running.
RetryAlone == \A q, r \in runs : q.root = r.root => q = r

\* "Completes when the token is cancelled" (CancelToken::cancelled): no
\* transfer waits for a wake-up that was given already.
CancelHeard == \A r \in runs : r.at = "open" /\ r.heard => r.watch # "waits"

TransfersTypeOK ==
  /\ cards # {} => Here
  /\ \A c, d \in cards : c.id = d.id => c = d
  /\ registry \cup cancels \cup events \cup parts \subseteq 1..made
  /\ cloud \subseteq Item
  /\ \A r \in runs : r.home => r.window /\ Here

=============================================================================
