------------------------------ MODULE LozaSession ------------------------------
(***************************************************************************)
(* Sessions of the desktop app: the pages that lead to the dashboard       *)
(* (App.tsx, ServerSetupPage.tsx, AuthPage.tsx, ProtectedRoute.tsx,        *)
(* DashboardPage.tsx), the commands behind them (src-tauri/src/auth.rs),   *)
(* which share one stored session with the refresh that runs at every      *)
(* start and every six hours (lib.rs), and the server's rows, which a      *)
(* refresh replaces in three statements (handlers/auth.rs).                *)
(***************************************************************************)
EXTENDS Integers, FiniteSets

CONSTANTS
  Server,       \* the servers a user may name
  None,         \* nothing: no address, no session
  MaxTokens,    \* bound: tokens, the one stored at first included
  MaxCalls,     \* bound: commands that run at one time
  Starts        \* the states the app may start in, with the bounds left: a set
                \* of [url, store, rows, open, left]; "open" when the start
                \* is over and the file section open

\* A start runs two commands at once.
ASSUME SessionBounds == {MaxTokens, MaxCalls} \subseteq Nat /\ MaxCalls >= 2
ASSUME NoServerAssumption == None \notin Server
\* Every number that is left is free; a stored session is one its server knows.
ASSUME StartsAssumption ==
  \A s \in Starts :
    /\ s.url \in Server \cup {None} /\ s.store \in 0..MaxTokens
    /\ s.open => s.url # None
    /\ s.rows \subseteq [token : 1..MaxTokens, server : Server, line : 1..MaxTokens]
    /\ \A q, r \in s.rows : q.token = r.token \/ q.line = r.line => q = r
    /\ s.left \in [DOMAIN s.left -> Nat] /\ "tokens" \in DOMAIN s.left
    /\ s.left.tokens <= MaxTokens
    /\ \A r \in s.rows : s.left.tokens < r.token /\ s.left.tokens < r.line
    /\ s.store # 0 => \E r \in s.rows : r.token = s.store /\ r.server = s.url

VARIABLES
  url,      \* stored address of the server
  store,    \* stored session: its token, 0 for none
  rows,     \* servers: sessions, a set of [token, server, line]; a refresh
            \* keeps the line (public_id)
  old,      \* tokens issued more than a day ago: only a refresh takes them
  calls,    \* commands under way
  page,     \* which page is open
  path,     \* the address the router shows
  setup,    \* ServerSetupPage: state and timers
  auth,     \* AuthPage: state and timers
  section,  \* the open section of the dashboard
  amiss,    \* (history) since the last login a request failed or its answer was
            \* lost, a row was taken away, refreshes of one session overlapped,
            \* or the server was changed
  sleft     \* what is left of the bounds

stored == <<url, store>>
screen == <<page, path, setup, auth, section>>
svars == <<url, store, rows, old, calls, screen, amiss, sleft>>

Spare(what) == sleft[what] > 0 /\ sleft' = [sleft EXCEPT ![what] = @ - 1]

-----------------------------------------------------------------------------
(* Commands. *)

FreeNo(cs) == CHOOSE n \in 1..MaxCalls : \A c \in cs : c.no # n

\* "who" asked: a page that is left (here) does not wait any more, but what it
\* does next is lost only with its window.
Command(cs, kind, who) ==
  cs \cup {[no |-> FreeNo(cs), kind |-> kind, who |-> who, here |-> TRUE, window |-> TRUE, at |-> "asked",
            token |-> 0, new |-> 0, line |-> 0, server |-> None, from |-> None,
            tried |-> {}, again |-> FALSE]}
Room(cs, n) == Cardinality(cs) + n <= MaxCalls

Becomes(c, d) == calls' = (calls \ {c}) \cup {d}
Goes(c, at) == Becomes(c, [c EXCEPT !.at = at])

\* What each command reads before its first request.
Begin ==
  /\ \E c \in calls :
       /\ c.at = "asked"
       /\ LET ready == store # 0 /\ url # None
              sent == [c EXCEPT !.token = store, !.server = url, !.from = url]
          IN CASE c.kind = "refresh" -> Becomes(c, IF ready THEN [sent EXCEPT !.at = "refresh"]
                                                           ELSE [c EXCEPT !.at = "end"])
               [] c.kind = "check"   -> Becomes(c, IF ready THEN [sent EXCEPT !.at = "me", !.tried = {store}]
                                                           ELSE [c EXCEPT !.at = "nobody"])
               [] c.kind = "logout"  -> Becomes(c, [sent EXCEPT !.at = IF ready THEN "out" ELSE "left"])
               [] OTHER              -> Becomes(c, [sent EXCEPT !.at = IF url # None THEN "login" ELSE "denied"])
  /\ UNCHANGED <<stored, rows, old, screen, amiss, sleft>>

-----------------------------------------------------------------------------
(* The servers. *)

Row(c) == {r \in rows : r.token = c.token /\ r.server = c.server}
\* Tokens are numbered downwards, so that none is issued twice.
NewRow(c, line) == [token |-> sleft.tokens, server |-> c.server, line |-> line]

Me(c) ==
  /\ c.at = "me"
  /\ Goes(c, IF Row(c) # {} /\ c.token \notin old THEN "valid" ELSE "invalid")
  /\ UNCHANGED <<rows, amiss, sleft>>

\* refresh: the row is found, deleted, and inserted anew; an insertion with
\* the line of another row fails.
Touch(c) ==
  /\ c.at = "refresh"
  /\ \/ Row(c) = {} /\ Goes(c, "refused")
     \/ \E r \in Row(c) : Becomes(c, [c EXCEPT !.at = "touched", !.line = r.line])
  /\ amiss' = (amiss \/ \E d \in calls : d.at \in {"touched", "deleted", "granted"} /\ d.token = c.token)
  /\ UNCHANGED <<rows, sleft>>
DeleteRow(c) ==
  /\ c.at = "touched"
  /\ rows' = rows \ Row(c)
  /\ Goes(c, "deleted")
  /\ UNCHANGED <<amiss, sleft>>
CreateRow(c) ==
  /\ c.at = "deleted"
  /\ \/ /\ \A r \in rows : r.line # c.line
        /\ Spare("tokens")
        /\ rows' = rows \cup {NewRow(c, c.line)}
        /\ Becomes(c, [c EXCEPT !.at = "granted", !.new = sleft.tokens])
     \/ /\ \E r \in rows : r.line = c.line
        /\ Goes(c, "refused")
        /\ UNCHANGED <<rows, sleft>>
  /\ UNCHANGED amiss

Login(c) ==
  /\ c.at = "login"
  /\ \/ /\ Spare("tokens")
        /\ rows' = rows \cup {NewRow(c, sleft.tokens)}
        /\ Becomes(c, [c EXCEPT !.at = "granted", !.new = sleft.tokens])
     \/ /\ Goes(c, "denied")
        /\ UNCHANGED <<rows, sleft>>
  /\ UNCHANGED amiss

Logout(c) ==
  /\ c.at = "out"
  /\ rows' = rows \ Row(c)
  /\ Goes(c, "left")
  /\ UNCHANGED <<amiss, sleft>>

Served ==
  /\ \E c \in calls :
       Me(c) \/ Touch(c) \/ DeleteRow(c) \/ CreateRow(c) \/ Login(c) \/ Logout(c)
  /\ UNCHANGED <<stored, old, screen>>

OnTheWire == {"me", "refresh", "touched", "deleted", "granted", "login", "out"}

\* How a request ends when the server fails at a statement, or its answer does
\* not come in time.  Of /auth/me the client keeps the user it knows, unless the
\* statement that touches the session failed: that reads as an invalid token.
Broken(c) ==
  CASE c.at = "me" -> {"valid", "invalid"}
    [] c.kind = "login" -> {"denied"}
    [] c.at = "out" -> {"left"}
    [] OTHER -> {"lost", "refused"}

Fails ==
  /\ Spare("fails")
  /\ \E c \in calls : c.at \in OnTheWire /\ \E at \in Broken(c) : Goes(c, at)
  /\ amiss' = TRUE
  /\ UNCHANGED <<stored, rows, old, screen>>

\* The session is revoked from another place, or a day passes.
Elsewhere ==
  /\ Spare("others")
  /\ \/ /\ \E r \in rows : rows' = rows \ {r}
        /\ amiss' = TRUE /\ UNCHANGED old
     \/ /\ store # 0 /\ store \notin old
        /\ old' = old \cup {store}
        /\ UNCHANGED <<rows, amiss>>
  /\ UNCHANGED <<stored, calls, screen>>

-----------------------------------------------------------------------------
(* The commands go on with an answer. *)

\* Mutant: a token that was tried is tried again.
TriesAgain(c) == store # 0
TriesNewest(c) == store # 0 /\ store # c.token /\ store \notin c.tried

Retried(c) == [c EXCEPT !.at = "me", !.token = store, !.tried = @ \cup {store}]

\* get_current_user: a newer token, then one refresh, then the end.
CheckAnswered(c) ==
  /\ c.kind = "check"
  /\ \/ /\ c.at = "valid"
        /\ Goes(c, "somebody") /\ UNCHANGED store
     \/ /\ c.at = "invalid" /\ TriesNewest(c)
        /\ Becomes(c, Retried(c)) /\ UNCHANGED store
     \/ /\ c.at = "invalid" /\ ~TriesNewest(c) /\ ~c.again /\ store = c.token /\ url # None
        /\ Becomes(c, [c EXCEPT !.at = "refresh", !.again = TRUE, !.server = url]) /\ UNCHANGED store
     \/ /\ c.at = "invalid" /\ ~TriesNewest(c) /\ (c.again \/ store # c.token \/ url = None)
        /\ Goes(c, "nobody") /\ store' = 0
     \/ /\ c.at = "granted"
        /\ store' = c.new
        /\ Becomes(c, [c EXCEPT !.at = "me", !.token = c.new, !.server = c.from, !.tried = @ \cup {c.new}])
     \/ /\ c.at \in {"refused", "lost"}
        /\ store' = 0
        /\ Goes(c, "nobody")

\* Mutant: a new token is not stored.
Unsaved(c) == store
Saved(c) == c.new

RefreshAnswered(c) ==
  /\ c.kind = "refresh"
  /\ \/ c.at = "granted" /\ store' = Saved(c)
     \/ c.at = "refused" /\ store' = 0
     \/ c.at \in {"lost", "end"} /\ UNCHANGED store
  /\ calls' = calls \ {c}

Continue ==
  /\ \E c \in calls : CheckAnswered(c) \/ RefreshAnswered(c)
  /\ UNCHANGED <<url, rows, old, screen, amiss, sleft>>

\* The loop of lib.rs: the next refresh waits for the last one and six hours.
Tick ==
  /\ ~\E c \in calls : c.kind = "refresh"
  /\ Room(calls, 1) /\ Spare("ticks")
  /\ calls' = Command(calls, "refresh", "loop")
  /\ UNCHANGED <<stored, rows, old, screen, amiss>>

-----------------------------------------------------------------------------
(* Pages. *)

NoSetup == [state |-> "idle", resets |-> 0, asks |-> 0, done |-> FALSE]
NoAuth == [state |-> "idle", reset |-> FALSE, leave |-> FALSE]

\* The router shows what the path names; the protected page asks who it is.
Show(cs, p) ==
  /\ path' = p
  /\ page' = IF p = "/" THEN "checking" ELSE "auth"
  /\ calls' = IF p = "/" THEN Command(cs, "check", "route") ELSE cs
  /\ section' = "dashboard"
  /\ auth' = NoAuth

Left(cs) == {[c EXCEPT !.here = FALSE] : c \in cs}
Closed(cs) == {[c EXCEPT !.here = FALSE, !.window = FALSE] : c \in cs}

\* The address is stored: the router takes over, at the path it had.
SetupOver ==
  /\ page = "setup" /\ setup.done
  /\ Room(calls, 1)
  /\ Show(calls, path)
  /\ setup' = NoSetup
  /\ UNCHANGED <<stored, rows, old, amiss, sleft>>

SetupChanges(s) ==
  /\ page = "setup"
  /\ setup' = s
  /\ UNCHANGED <<store, rows, old, calls, page, path, auth, section>>

\* A wrong address starts a timer that nothing stops.
SubmitAddress ==
  /\ setup.state # "loading" /\ Spare("acts")
  /\ \/ /\ SetupChanges([setup EXCEPT !.state = "error", !.resets = @ + 1])
        /\ UNCHANGED <<url, amiss>>
     \/ \E s \in Server :
          /\ SetupChanges([setup EXCEPT !.state = "loading", !.asks = @ + 1])
          /\ url' = s
          /\ amiss' = (amiss \/ s # url)

HealthAnswered ==
  /\ setup.asks > 0
  /\ \E state \in {"success", "saved"} :
       SetupChanges([setup EXCEPT !.state = state, !.asks = @ - 1, !.done = TRUE])
  /\ UNCHANGED <<url, amiss, sleft>>

SetupReset ==
  /\ setup.resets > 0
  /\ SetupChanges([setup EXCEPT !.state = "idle", !.resets = @ - 1])
  /\ UNCHANGED <<url, amiss, sleft>>

AuthChanges(a) ==
  /\ page = "auth"
  /\ auth' = a
  /\ UNCHANGED <<url, rows, old, page, path, setup, section>>

\* Mutant: the timer of an earlier error goes on.
KeepTimer(a) == a
StopTimer(a) == [a EXCEPT !.reset = FALSE]

SubmitLogin ==
  /\ auth.state # "loading" /\ Spare("acts")
  /\ \/ /\ AuthChanges([StopTimer(auth) EXCEPT !.state = "error", !.reset = TRUE])
        /\ UNCHANGED calls
     \/ /\ AuthChanges([StopTimer(auth) EXCEPT !.state = "loading"])
        /\ Room(calls, 1)
        /\ calls' = Command(calls, "login", "auth")
  /\ UNCHANGED <<store, amiss>>

\* login stores the session whether or not its page is still there, and its
\* page goes to "/" even when it was left.
LoginReturns ==
  /\ \E c \in calls :
       /\ c.kind = "login" /\ c.at \in {"granted", "denied"}
       /\ calls' = calls \ {c}
       /\ store' = IF c.at = "granted" THEN c.new ELSE store
       /\ amiss' = IF c.at = "granted" THEN \/ \E d \in calls \ {c} : d.kind # "login"
                      \/ ~\E r \in rows : r.token = c.new /\ r.server = url
                   ELSE amiss
       /\ IF c.here
          THEN AuthChanges(IF c.at = "granted" THEN [auth EXCEPT !.state = "success", !.leave = TRUE]
                                               ELSE [auth EXCEPT !.state = "error", !.reset = TRUE])
          ELSE IF c.window /\ c.at = "granted" /\ page = "auth"
          THEN AuthChanges([auth EXCEPT !.leave = TRUE])
          ELSE UNCHANGED <<url, rows, old, screen>>
  /\ UNCHANGED sleft

AuthReset ==
  /\ auth.reset
  /\ AuthChanges([auth EXCEPT !.state = "idle", !.reset = FALSE])
  /\ UNCHANGED <<store, calls, amiss, sleft>>

AuthOver ==
  /\ page = "auth" /\ auth.leave
  /\ Room(calls, 1)
  /\ Show(Left(calls), "/")
  /\ UNCHANGED <<stored, rows, old, setup, amiss, sleft>>

\* The protected page lets in whom the command knows; the dashboard asks again
\* for the name.
CheckReturns ==
  /\ \E c \in calls :
       /\ c.kind = "check" /\ c.at \in {"somebody", "nobody"}
       /\ IF c.here /\ c.who = "route"
          THEN IF c.at = "nobody"
               THEN Show(calls \ {c}, "/auth") /\ UNCHANGED setup
               ELSE /\ page' = "dashboard"
                    /\ calls' = Command(calls \ {c}, "check", "dashboard")
                    /\ UNCHANGED <<path, setup, auth, section>>
          ELSE calls' = calls \ {c} /\ UNCHANGED screen
  /\ UNCHANGED <<stored, rows, old, amiss, sleft>>

OpenSection ==
  /\ page = "dashboard" /\ Spare("acts")
  /\ \E s \in {"dashboard", "activity", "loza", "shares", "settings"} \ {section} : section' = s
  /\ UNCHANGED <<stored, rows, old, calls, page, path, setup, auth, amiss>>

ClickLogout ==
  /\ page = "dashboard" /\ Spare("acts")
  /\ Room(calls, 1)
  /\ calls' = Command(calls, "logout", "dashboard")
  /\ UNCHANGED <<stored, rows, old, screen, amiss>>

LogoutReturns ==
  /\ \E c \in calls :
       /\ c.kind = "logout" /\ c.at = "left"
       /\ store' = 0
       /\ amiss' = \E d \in calls \ {c} : d.kind \in {"refresh", "check"}
       /\ IF c.window /\ page # "auth"
          THEN Show(Left(calls \ {c}), "/auth") /\ UNCHANGED setup
          ELSE calls' = calls \ {c} /\ UNCHANGED screen
  /\ UNCHANGED <<url, rows, old, sleft>>

\* Mutant: the page is not loaded anew.
StaysOpen == page' = page
LoadsAnew == page' = "setup"

\* Confirmed in the settings or on the login page: the address goes, the
\* session stays, and the page is loaded anew.
ChangeServer ==
  /\ page = "auth" \/ (page = "dashboard" /\ section = "settings")
  /\ Spare("acts")
  /\ url' = None /\ LoadsAnew /\ section' = "dashboard"
  /\ setup' = NoSetup /\ auth' = NoAuth
  /\ calls' = Closed(calls)
  /\ amiss' = TRUE
  /\ UNCHANGED <<store, rows, old, path>>

\* The app ends at any moment and is started again.
Restart ==
  /\ Spare("restarts")
  /\ LET cs == Command({}, "refresh", "loop")
     IN IF url = None
        THEN /\ page' = "setup" /\ path' = "/" /\ calls' = cs
             /\ section' = "dashboard" /\ auth' = NoAuth
        ELSE Show(cs, "/")
  /\ setup' = NoSetup
  /\ amiss' = (amiss \/ \E c \in calls : c.at \in OnTheWire)
  /\ UNCHANGED <<stored, rows, old>>

-----------------------------------------------------------------------------
SessionInit ==
  /\ \E s \in Starts :
       /\ url = s.url /\ store = s.store /\ rows = s.rows /\ sleft = s.left
       /\ page = IF url = None THEN "setup" ELSE IF s.open THEN "dashboard" ELSE "checking"
       /\ section = IF s.open THEN "loza" ELSE "dashboard"
       /\ LET cs == Command({}, "refresh", "loop")
          IN calls = CASE s.open     -> {}
                       [] url = None -> cs
                       [] OTHER      -> Command(cs, "check", "route")
       /\ old \in SUBSET (IF s.open THEN {} ELSE {store} \ {0})
  /\ setup = NoSetup /\ auth = NoAuth /\ path = "/"
  /\ amiss = FALSE

\* What the commands do, and what the pages do with their answers.
CommandNext == Begin \/ Served \/ Continue \/ CheckReturns \/ LoginReturns \/ LogoutReturns

\* Steps that keep the window.
Stays ==
  \/ CommandNext \/ Fails \/ Elsewhere \/ Tick
  \/ SubmitAddress \/ HealthAnswered \/ SetupReset \/ SetupOver
  \/ SubmitLogin \/ AuthReset \/ AuthOver
  \/ OpenSection \/ ClickLogout

SessionNext == Stays \/ ChangeServer \/ Restart

\* Requests time out after 30 seconds (lib.rs), so every command ends.
SessionSpec == SessionInit /\ [][SessionNext]_svars /\ WF_svars(CommandNext)

-----------------------------------------------------------------------------
(* Properties. *)

\* The login page has one login under way at most, though its errors reset the
\* form after a while (errorResetTimerRef).
OneLogin ==
  /\ Cardinality({c \in calls : c.kind = "login" /\ c.here}) <= 1
  /\ (\E c \in calls : c.kind = "login" /\ c.here) => auth.state = "loading"

\* When no command runs, the stored session is one its server knows, unless
\* since the last login something went amiss: a failed request, a lost answer, a
\* row taken away elsewhere, two refreshes at once, a change to another server.
StoredIsLive ==
  (calls = {} /\ store # 0 /\ ~amiss) =>
    \E r \in rows : r.token = store /\ r.server = url

\* The start comes to its end: get_current_user tries no token twice.
CheckEnds == (page = "checking") ~> (page # "checking")

\* "Only if this did not help either is the session dead": the stored session
\* is given up only when its server no longer knows it, or by a logout
\* (get_current_user, auth.rs).
LiveSessionKept ==
  [][store # 0 /\ store' = 0 =>
       \/ \E c \in calls : c.kind = "logout"
       \/ ~\E r \in rows : r.token = store]_svars

SessionTypeOK ==
  /\ url \in Server \cup {None} /\ store \in 0..MaxTokens
  /\ \A q, r \in rows : q.token = r.token \/ q.line = r.line => q = r
  /\ \A c, d \in calls : c.no = d.no => c = d
  /\ page \in {"setup", "checking", "auth", "dashboard"}
  /\ page # "setup" => url # None
  /\ page = "checking" <=> \E c \in calls : c.kind = "check" /\ c.who = "route" /\ c.here

=============================================================================
