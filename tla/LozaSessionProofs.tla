--------------------------- MODULE LozaSessionProofs ---------------------------
(***************************************************************************)
(* What holds of the pages and their commands, for any servers, starts and *)
(* bounds: the login page has one login under way, and its timers do not   *)
(* end one early; every state is well typed, which needs that tokens are   *)
(* given out once and that pages and commands know of each other; and the  *)
(* session that is kept is one the server knows, or a command renews it.   *)
(***************************************************************************)
EXTENDS LozaSession, FiniteSetTheorems, TLAPS

\* A call has these fields, whatever their values.
Whole(c) ==
  c \in [no: {c.no}, kind: {c.kind}, who: {c.who}, here: {c.here}, window: {c.window},
         at: {c.at}, token: {c.token}, new: {c.new}, line: {c.line}, server: {c.server},
         from: {c.from}, tried: {c.tried}, again: {c.again}]

AuthType ==
  [state: {"idle", "loading", "success", "error"}, reset: BOOLEAN, leave: BOOLEAN]

\* The calls of the login page and of the protected page, as long as these wait.
LoginHere(c) == c.kind = "login" /\ c.here
RouteHere(c) == c.kind = "check" /\ c.who = "route" /\ c.here

\* Of each of them there is one, and only while its page is open.
PageCalls(cs, p) ==
  /\ \A c \in cs : Whole(c)
  /\ \A c, d \in cs : LoginHere(c) /\ LoginHere(d) => c = d
  /\ \A c, d \in cs : RouteHere(c) /\ RouteHere(d) => c = d
  /\ \A c \in cs : LoginHere(c) => p = "auth"
  /\ \A c \in cs : RouteHere(c) => p = "checking"

\* A login shows on its page, whose timer stands still meanwhile.
LoginShown(cs, a) ==
  /\ a \in AuthType
  /\ \A c \in cs : LoginHere(c) => a.state = "loading"
  /\ a.state = "loading" => ~a.reset

SessionInv == PageCalls(calls, page) /\ LoginShown(calls, auth)

-----------------------------------------------------------------------------
(* Sets of calls.                                                           *)

\* What a new call is.
Asked(cs, kind, who) ==
  [no |-> FreeNo(cs), kind |-> kind, who |-> who, here |-> TRUE, window |-> TRUE, at |-> "asked",
   token |-> 0, new |-> 0, line |-> 0, server |-> None, from |-> None, tried |-> {},
   again |-> FALSE]

LEMMA CommandWhole ==
  ASSUME NEW cs, NEW kind, NEW who
  PROVE  /\ Command(cs, kind, who) = cs \cup {Asked(cs, kind, who)}
         /\ Whole(Asked(cs, kind, who))
         /\ Asked(cs, kind, who).kind = kind /\ Asked(cs, kind, who).who = who
<1>1. Command(cs, kind, who) = cs \cup {Asked(cs, kind, who)}
  BY DEF Command, Asked
<1>2. Whole(Asked(cs, kind, who))
  BY DEF Whole, Asked
<1>3. Asked(cs, kind, who).kind = kind /\ Asked(cs, kind, who).who = who
  BY DEF Asked
<1> QED BY <1>1, <1>2, <1>3

\* A call that no page of the two waits for.
LEMMA OtherCommand ==
  ASSUME NEW cs, NEW p, NEW a, PageCalls(cs, p), LoginShown(cs, a), NEW kind, NEW who,
         kind # "login", kind # "check" \/ who # "route"
  PROVE  PageCalls(Command(cs, kind, who), p) /\ LoginShown(Command(cs, kind, who), a)
<1> DEFINE c == Asked(cs, kind, who)
<1>1. Command(cs, kind, who) = cs \cup {c} /\ Whole(c) /\ c.kind = kind /\ c.who = who
  BY CommandWhole
<1> HIDE DEF c
<1> QED BY <1>1 DEF PageCalls, LoginShown, LoginHere, RouteHere

\* A call goes on.
LEMMA CallGoesOn ==
  ASSUME NEW cs, NEW p, NEW a, PageCalls(cs, p), LoginShown(cs, a),
         NEW c \in cs, NEW d, Whole(d), d.kind = c.kind, d.who = c.who, d.here = c.here
  PROVE  PageCalls((cs \ {c}) \cup {d}, p) /\ LoginShown((cs \ {c}) \cup {d}, a)
  BY DEF PageCalls, LoginShown, LoginHere, RouteHere

\* Calls are over.
LEMMA FewerCalls ==
  ASSUME NEW cs, NEW p, NEW a, PageCalls(cs, p), LoginShown(cs, a), NEW ds \in SUBSET cs
  PROVE  PageCalls(ds, p) /\ LoginShown(ds, a)
  BY DEF PageCalls, LoginShown

\* Pages that are left wait for nothing.
LEMMA LeftCalls ==
  ASSUME NEW cs, \A c \in cs : Whole(c)
  PROVE  /\ \A c \in Left(cs) : Whole(c) /\ ~LoginHere(c) /\ ~RouteHere(c)
         /\ \A c \in Closed(cs) : Whole(c) /\ ~LoginHere(c) /\ ~RouteHere(c)
<1>1. \A c \in cs : /\ Whole([c EXCEPT !.here = FALSE])
                    /\ [c EXCEPT !.here = FALSE].here = FALSE
  BY DEF Whole
<1>2. \A c \in cs : /\ Whole([c EXCEPT !.here = FALSE, !.window = FALSE])
                    /\ [c EXCEPT !.here = FALSE, !.window = FALSE].here = FALSE
  BY DEF Whole
<1> QED BY <1>1, <1>2 DEF Left, Closed, LoginHere, RouteHere

\* The router shows another page, when no page waits any more.
LEMMA ShowKeepsInv ==
  ASSUME NEW cs, NEW p, Show(cs, p),
         \A c \in cs : Whole(c) /\ ~LoginHere(c) /\ ~RouteHere(c)
  PROVE  SessionInv'
<1>1. auth' \in AuthType /\ auth'.state = "idle"
  BY DEF Show, NoAuth, AuthType
<1>2. CASE p = "/"
  <2>1. page' = "checking" /\ calls' = Command(cs, "check", "route")
    BY <1>2 DEF Show
  <2> DEFINE c == Asked(cs, "check", "route")
  <2>2. calls' = cs \cup {c} /\ Whole(c) /\ c.kind = "check" /\ c.who = "route"
    BY <2>1, CommandWhole
  <2> HIDE DEF c
  <2>3. ~LoginHere(c)
    BY <2>2 DEF LoginHere
  <2> QED BY <1>1, <2>1, <2>2, <2>3 DEF SessionInv, PageCalls, LoginShown
<1>3. CASE p # "/"
  <2>1. calls' = cs
    BY <1>3 DEF Show
  <2> QED BY <1>1, <2>1 DEF SessionInv, PageCalls, LoginShown
<1> QED BY <1>2, <1>3

-----------------------------------------------------------------------------
(* The commands.                                                            *)

\* A call that goes on stays what it is, for the page that waits for it.
Same(c, d) ==
  /\ Whole(d) /\ d.no = c.no /\ d.kind = c.kind /\ d.who = c.who /\ d.here = c.here
  /\ d.window = c.window

Turns(c, d) == Same(c, d) /\ Becomes(c, d)

\* What it works on stays as well.
Keeps(c, d) == d.token = c.token /\ d.new = c.new /\ d.line = c.line /\ d.server = c.server

LEMMA SameCall ==
  ASSUME NEW c, Whole(c), NEW at
  PROVE  Same(c, [c EXCEPT !.at = at]) /\ Keeps(c, [c EXCEPT !.at = at])
         /\ [c EXCEPT !.at = at].at = at
  BY DEF Same, Keeps, Whole

LEMMA GoesTurns ==
  ASSUME NEW c, Whole(c), NEW at, Goes(c, at)
  PROVE  \E d : Turns(c, d) /\ Keeps(c, d) /\ d.at = at
<1> DEFINE d == [c EXCEPT !.at = at]
<1>1. Same(c, d) /\ Keeps(c, d) /\ d.at = at
  BY SameCall
<1>2. Becomes(c, d)
  BY DEF Goes
<1> HIDE DEF d
<1> QED BY <1>1, <1>2 DEF Turns

\* What a command has read when it begins.
Begun(c, d) ==
  /\ Turns(c, d) /\ c.at = "asked" /\ d.new = c.new /\ d.line = c.line
  /\ \/ d.kind = "refresh" /\ (store = 0 \/ url = None) /\ d.at = "end" /\ d.token = c.token
     \/ /\ d.kind = "refresh" /\ d.at = "refresh" /\ d.token = store /\ d.server = url
        /\ url # None
     \/ d.kind = "check" /\ d.at = "me" /\ d.token = store
     \/ d.kind = "check" /\ d.at = "nobody" /\ d.token = c.token
     \/ d.kind = "logout" /\ d.at \in {"out", "left"} /\ d.token = store
     \/ /\ d.kind \notin {"refresh", "check", "logout"} /\ d.token = store
        /\ d.at = "denied" \/ (d.at = "login" /\ d.server = url /\ url # None)

LEMMA BeginTurns ==
  ASSUME \A c \in calls : Whole(c), Begin
  PROVE  \E c \in calls : \E d : Begun(c, d)
<1> DEFINE Sent(c) == [c EXCEPT !.token = store, !.server = url, !.from = url]
           ready == store # 0 /\ url # None
<1>1. PICK c \in calls :
        /\ c.at = "asked"
        /\ CASE c.kind = "refresh" -> Becomes(c, IF ready THEN [Sent(c) EXCEPT !.at = "refresh"]
                                                       ELSE [c EXCEPT !.at = "end"])
          [] c.kind = "check"   -> Becomes(c, IF ready
                                              THEN [Sent(c) EXCEPT !.at = "me", !.tried = {store}]
                                              ELSE [c EXCEPT !.at = "nobody"])
          [] c.kind = "logout"  -> Becomes(c, [Sent(c) EXCEPT !.at = IF ready THEN "out" ELSE "left"])
          [] OTHER              -> Becomes(c, [Sent(c) EXCEPT !.at = IF url # None THEN "login"
                                                                                ELSE "denied"])
  BY DEF Begin
<1>2. Whole(c)
  BY <1>1
<1>3. \A at : LET d == [Sent(c) EXCEPT !.at = at]
              IN /\ Same(c, d) /\ d.token = store /\ d.server = url /\ d.at = at
                 /\ d.new = c.new /\ d.line = c.line
  BY <1>2 DEF Same, Whole
<1>4. LET d == [Sent(c) EXCEPT !.at = "me", !.tried = {store}]
      IN Same(c, d) /\ d.token = store /\ d.at = "me" /\ d.new = c.new /\ d.line = c.line
  BY <1>2 DEF Same, Whole
<1>5. \A at : LET d == [c EXCEPT !.at = at]
              IN Same(c, d) /\ d.token = c.token /\ d.at = at /\ d.new = c.new /\ d.line = c.line
  BY <1>2, SameCall DEF Keeps
<1>6. ready <=> (store # 0 /\ url # None)
  OBVIOUS
<1> HIDE DEF Sent, ready
<1>7. CASE c.kind = "refresh" /\ ready
  <2> DEFINE d == [Sent(c) EXCEPT !.at = "refresh"]
  <2>1. Becomes(c, d)
    BY <1>1, <1>7
  <2>2. /\ Same(c, d) /\ d.token = store /\ d.server = url /\ d.at = "refresh"
        /\ d.new = c.new /\ d.line = c.line
    BY <1>3
  <2> HIDE DEF d
  <2> QED BY <1>1, <1>6, <1>7, <2>1, <2>2 DEF Turns, Same, Begun
<1>8. CASE c.kind = "refresh" /\ ~ready
  <2> DEFINE d == [c EXCEPT !.at = "end"]
  <2>1. Becomes(c, d)
    BY <1>1, <1>8
  <2>2. Same(c, d) /\ d.token = c.token /\ d.at = "end" /\ d.new = c.new /\ d.line = c.line
    BY <1>5
  <2> HIDE DEF d
  <2> QED BY <1>1, <1>6, <1>8, <2>1, <2>2 DEF Turns, Same, Begun
<1>9. CASE c.kind = "check" /\ ready
  <2> DEFINE d == [Sent(c) EXCEPT !.at = "me", !.tried = {store}]
  <2>1. Becomes(c, d)
    BY <1>1, <1>9
  <2>2. Same(c, d) /\ d.token = store /\ d.at = "me" /\ d.new = c.new /\ d.line = c.line
    BY <1>4
  <2> HIDE DEF d
  <2> QED BY <1>1, <1>9, <2>1, <2>2 DEF Turns, Same, Begun
<1>10. CASE c.kind = "check" /\ ~ready
  <2> DEFINE d == [c EXCEPT !.at = "nobody"]
  <2>1. Becomes(c, d)
    BY <1>1, <1>10
  <2>2. Same(c, d) /\ d.token = c.token /\ d.at = "nobody" /\ d.new = c.new /\ d.line = c.line
    BY <1>5
  <2> HIDE DEF d
  <2> QED BY <1>1, <1>10, <2>1, <2>2 DEF Turns, Same, Begun
<1>11. CASE c.kind = "logout"
  <2>1. PICK at \in {"out", "left"} : Becomes(c, [Sent(c) EXCEPT !.at = at])
    BY <1>1, <1>11
  <2> DEFINE d == [Sent(c) EXCEPT !.at = at]
  <2>2. Becomes(c, d)
    BY <2>1
  <2>3. Same(c, d) /\ d.token = store /\ d.at = at /\ d.new = c.new /\ d.line = c.line
    BY <1>3
  <2> HIDE DEF d
  <2> QED BY <1>1, <1>11, <2>2, <2>3 DEF Turns, Same, Begun
<1>12. CASE c.kind \notin {"refresh", "check", "logout"}
  <2>1. PICK at : /\ Becomes(c, [Sent(c) EXCEPT !.at = at])
                  /\ at = "denied" \/ (at = "login" /\ url # None)
    BY <1>1, <1>12
  <2> DEFINE d == [Sent(c) EXCEPT !.at = at]
  <2>2. Becomes(c, d)
    BY <2>1
  <2>3. /\ Same(c, d) /\ d.token = store /\ d.at = at /\ d.new = c.new /\ d.line = c.line
        /\ d.server = url
    BY <1>3
  <2> HIDE DEF d
  <2> QED BY <1>1, <1>12, <2>1, <2>2, <2>3 DEF Turns, Same, Begun
<1> QED BY <1>7, <1>8, <1>9, <1>10, <1>11, <1>12

\* What the servers make of a call: the request of a check, the three
\* statements of a refresh, a login, a logout.
Overlaps(c) ==
  \E d \in calls : d.at \in {"touched", "deleted", "granted"} /\ d.token = c.token

Hears(c, d) ==
  Keeps(c, d) /\ UNCHANGED <<rows, sleft>>
    /\ \/ c.at = "me" /\ d.at \in {"valid", "invalid"} /\ UNCHANGED amiss
       \/ c.at = "refresh" /\ Row(c) = {} /\ d.at = "refused" /\ (amiss \/ Overlaps(c) => amiss')
       \/ /\ c.at = "deleted" /\ d.at = "refused" /\ UNCHANGED amiss
          /\ \E r \in rows : r.line = c.line
       \/ c.at = "login" /\ d.at = "denied" /\ UNCHANGED amiss
Finds(c, d) ==
  /\ c.at = "refresh" /\ d.at = "touched" /\ d.token = c.token /\ d.server = c.server
  /\ d.new = c.new /\ \E r \in Row(c) : d.line = r.line
  /\ UNCHANGED <<rows, sleft>> /\ (amiss \/ Overlaps(c) => amiss')
Removes(c, d) ==
  /\ Keeps(c, d) /\ rows' = rows \ Row(c) /\ UNCHANGED <<amiss, sleft>>
  /\ (c.at = "touched" /\ d.at = "deleted") \/ (c.at = "out" /\ d.at = "left")
Issues(c, d) ==
  /\ Spare("tokens") /\ UNCHANGED amiss
  /\ d.at = "granted" /\ d.new = sleft.tokens /\ d.token = c.token /\ d.server = c.server
  /\ \/ c.at = "deleted" /\ (\A r \in rows : r.line # c.line) /\ rows' = rows \cup {NewRow(c, c.line)}
     \/ c.at = "login" /\ rows' = rows \cup {NewRow(c, sleft.tokens)}

LEMMA ServedTurns ==
  ASSUME \A c \in calls : Whole(c), Served
  PROVE  \E c \in calls : \E d :
           Turns(c, d) /\ (Hears(c, d) \/ Finds(c, d) \/ Removes(c, d) \/ Issues(c, d))
<1>1. PICK c \in calls :
        Me(c) \/ Touch(c) \/ DeleteRow(c) \/ CreateRow(c) \/ Login(c) \/ Logout(c)
  BY DEF Served
<1>2. Whole(c)
  BY <1>1
<1>3. SUFFICES \E d : Turns(c, d) /\ (Hears(c, d) \/ Finds(c, d) \/ Removes(c, d) \/ Issues(c, d))
  OBVIOUS
<1>4. CASE Me(c)
  <2>1. PICK at \in {"valid", "invalid"} : Goes(c, at)
    BY <1>4 DEF Me
  <2>2. PICK d : Turns(c, d) /\ Keeps(c, d) /\ d.at = at
    BY <1>2, <2>1, GoesTurns
  <2> QED BY <1>4, <2>2 DEF Me, Hears
<1>5. CASE Touch(c) /\ Row(c) = {} /\ Goes(c, "refused")
  <2>1. PICK d : Turns(c, d) /\ Keeps(c, d) /\ d.at = "refused"
    BY <1>2, <1>5, GoesTurns
  <2> QED BY <1>5, <2>1 DEF Touch, Hears, Overlaps
<1>6. CASE Touch(c) /\ \E r \in Row(c) : Becomes(c, [c EXCEPT !.at = "touched", !.line = r.line])
  <2>1. PICK r \in Row(c) : Becomes(c, [c EXCEPT !.at = "touched", !.line = r.line])
    BY <1>6
  <2> DEFINE d == [c EXCEPT !.at = "touched", !.line = r.line]
  <2>2. /\ Same(c, d) /\ d.at = "touched" /\ d.line = r.line /\ d.token = c.token
        /\ d.server = c.server /\ d.new = c.new
    BY <1>2 DEF Same, Whole
  <2>3. Becomes(c, d)
    BY <2>1
  <2> HIDE DEF d
  <2> QED BY <1>6, <2>2, <2>3 DEF Touch, Finds, Overlaps, Turns
<1>7. CASE DeleteRow(c) \/ Logout(c)
  <2>1. PICK at : Goes(c, at) /\ ((c.at = "touched" /\ at = "deleted") \/ (c.at = "out" /\ at = "left"))
    BY <1>7 DEF DeleteRow, Logout
  <2>2. PICK d : Turns(c, d) /\ Keeps(c, d) /\ d.at = at
    BY <1>2, <2>1, GoesTurns
  <2> QED BY <1>7, <2>1, <2>2 DEF DeleteRow, Logout, Removes
<1>8. CASE /\ Becomes(c, [c EXCEPT !.at = "granted", !.new = sleft.tokens]) /\ Spare("tokens")
           /\ UNCHANGED amiss
           /\ \/ /\ c.at = "deleted" /\ (\A r \in rows : r.line # c.line)
                 /\ rows' = rows \cup {NewRow(c, c.line)}
              \/ c.at = "login" /\ rows' = rows \cup {NewRow(c, sleft.tokens)}
  <2> DEFINE d == [c EXCEPT !.at = "granted", !.new = sleft.tokens]
  <2>1. /\ Same(c, d) /\ d.at = "granted" /\ d.new = sleft.tokens /\ d.token = c.token
        /\ d.server = c.server
    BY <1>2 DEF Same, Whole
  <2>2. Becomes(c, d)
    BY <1>8
  <2> HIDE DEF d
  <2> QED BY <1>8, <2>1, <2>2 DEF Turns, Issues
<1>9. CASE (CreateRow(c) \/ Login(c)) /\ UNCHANGED <<rows, sleft>>
           /\ ((c.at = "deleted" /\ Goes(c, "refused") /\ \E r \in rows : r.line = c.line)
               \/ (c.at = "login" /\ Goes(c, "denied")))
  <2>1. PICK at : /\ Goes(c, at)
                  /\ \/ c.at = "deleted" /\ at = "refused" /\ \E r \in rows : r.line = c.line
                     \/ c.at = "login" /\ at = "denied"
    BY <1>9
  <2>2. PICK d : Turns(c, d) /\ Keeps(c, d) /\ d.at = at
    BY <1>2, <2>1, GoesTurns
  <2>3. UNCHANGED amiss
    BY <1>9 DEF CreateRow, Login
  <2> QED BY <1>9, <2>1, <2>2, <2>3 DEF Hears
<1> QED
  BY <1>1, <1>4, <1>5, <1>6, <1>7, <1>8, <1>9 DEF Touch, CreateRow, Login
\* A server that fails, or its answer that does not come.
LEMMA FailsTurns ==
  ASSUME \A c \in calls : Whole(c), Fails
  PROVE  \E c \in calls : \E d :
           Turns(c, d) /\ Keeps(c, d) /\ c.at \in OnTheWire /\ d.at \in Broken(c)
<1>1. PICK c \in calls : c.at \in OnTheWire /\ \E at \in Broken(c) : Goes(c, at)
  BY DEF Fails
<1>2. PICK at \in Broken(c) : Goes(c, at)
  BY <1>1
<1>3. PICK d : Turns(c, d) /\ Keeps(c, d) /\ d.at = at
  BY <1>2, GoesTurns
<1> QED BY <1>1, <1>2, <1>3

\* How get_current_user goes on: it lets in, asks again with another token or
\* for a new one, stores the new one, or gives the session up.
Lets(c, d) == c.at = "valid" /\ d.at = "somebody" /\ Keeps(c, d) /\ UNCHANGED store
Retries(c, d) ==
  /\ c.at = "invalid" /\ d.at = "me" /\ d.token = store /\ d.new = c.new /\ d.line = c.line
  /\ UNCHANGED store
AsksAnew(c, d) ==
  /\ c.at = "invalid" /\ url # None /\ store = c.token /\ d.at = "refresh" /\ d.server = url
  /\ d.token = c.token /\ d.new = c.new /\ d.line = c.line /\ UNCHANGED store
Stores(c, d) ==
  /\ c.at = "granted" /\ d.at = "me" /\ d.token = c.new /\ d.new = c.new /\ d.line = c.line
  /\ store' = c.new
GivesUp(c, d) ==
  /\ c.at \in {"invalid", "refused", "lost"} /\ d.at = "nobody" /\ Keeps(c, d) /\ store' = 0

LEMMA CheckTurns ==
  ASSUME NEW c, Whole(c), CheckAnswered(c)
  PROVE  \E d : Turns(c, d) /\ c.kind = "check"
            /\ (Lets(c, d) \/ Retries(c, d) \/ AsksAnew(c, d) \/ Stores(c, d) \/ GivesUp(c, d))
<1>1. CASE c.at = "valid" /\ Goes(c, "somebody") /\ UNCHANGED store
  <2>1. PICK d : Turns(c, d) /\ Keeps(c, d) /\ d.at = "somebody"
    BY <1>1, GoesTurns
  <2> QED BY <1>1, <2>1 DEF CheckAnswered, Lets
<1>2. CASE /\ c.at \in {"invalid", "refused", "lost"} /\ Goes(c, "nobody") /\ store' = 0
  <2>1. PICK d : Turns(c, d) /\ Keeps(c, d) /\ d.at = "nobody"
    BY <1>2, GoesTurns
  <2> QED BY <1>2, <2>1 DEF CheckAnswered, GivesUp
<1>3. CASE c.at = "invalid" /\ Becomes(c, Retried(c)) /\ UNCHANGED store
  <2> DEFINE d == Retried(c)
  <2>1. Same(c, d) /\ d.at = "me" /\ d.token = store /\ d.new = c.new /\ d.line = c.line
    BY DEF Same, Whole, Retried
  <2>2. Becomes(c, d)
    BY <1>3
  <2> HIDE DEF d
  <2> QED BY <1>3, <2>1, <2>2 DEF CheckAnswered, Turns, Retries
<1>4. CASE /\ c.at = "invalid" /\ store = c.token /\ url # None /\ UNCHANGED store
           /\ Becomes(c, [c EXCEPT !.at = "refresh", !.again = TRUE, !.server = url])
  <2> DEFINE d == [c EXCEPT !.at = "refresh", !.again = TRUE, !.server = url]
  <2>1. /\ Same(c, d) /\ d.at = "refresh" /\ d.server = url /\ d.token = c.token
        /\ d.new = c.new /\ d.line = c.line
    BY DEF Same, Whole
  <2>2. Becomes(c, d)
    BY <1>4
  <2> HIDE DEF d
  <2> QED BY <1>4, <2>1, <2>2 DEF CheckAnswered, Turns, AsksAnew
<1>5. CASE /\ c.at = "granted" /\ store' = c.new
           /\ Becomes(c, [c EXCEPT !.at = "me", !.token = c.new, !.server = c.from,
                                   !.tried = @ \cup {c.new}])
  <2> DEFINE d == [c EXCEPT !.at = "me", !.token = c.new, !.server = c.from,
                            !.tried = @ \cup {c.new}]
  <2>1. Same(c, d) /\ d.at = "me" /\ d.token = c.new /\ d.new = c.new /\ d.line = c.line
    BY DEF Same, Whole
  <2>2. Becomes(c, d)
    BY <1>5
  <2> HIDE DEF d
  <2> QED BY <1>5, <2>1, <2>2 DEF CheckAnswered, Turns, Stores
<1> QED BY <1>1, <1>2, <1>3, <1>4, <1>5 DEF CheckAnswered

\* A call that goes on keeps the pages' calls apart.
LEMMA TurnsKeepInv ==
  ASSUME SessionInv, NEW c \in calls, NEW d, Turns(c, d), UNCHANGED <<page, auth>>
  PROVE  SessionInv'
<1>1. calls' = (calls \ {c}) \cup {d}
  BY DEF Turns, Becomes
<1>2. PageCalls(calls', page) /\ LoginShown(calls', auth)
  BY <1>1, CallGoesOn DEF SessionInv, Turns, Same
<1> QED BY <1>2 DEF SessionInv

LEMMA CommandsKeepInv ==
  ASSUME SessionInv, Begin \/ Served \/ Fails \/ Continue
  PROVE  SessionInv'
<1>1. UNCHANGED <<page, auth>>
  BY DEF Begin, Served, Fails, Continue, screen
<1>2. \A c \in calls : Whole(c)
  BY DEF SessionInv, PageCalls
<1>3. CASE Begin
  BY <1>1, <1>2, <1>3, BeginTurns, TurnsKeepInv DEF Begun
<1>4. CASE Served
  BY <1>1, <1>2, <1>4, ServedTurns, TurnsKeepInv
<1>5. CASE Fails
  BY <1>1, <1>2, <1>5, FailsTurns, TurnsKeepInv
<1>6. CASE Continue
  <2>1. PICK c \in calls : CheckAnswered(c) \/ RefreshAnswered(c)
    BY <1>6 DEF Continue
  <2>2. CASE CheckAnswered(c)
    BY <1>1, <1>2, <2>2, CheckTurns, TurnsKeepInv
  <2>3. CASE RefreshAnswered(c)
    <3>1. calls' \in SUBSET calls
      BY <2>3 DEF RefreshAnswered
    <3> QED BY <1>1, <3>1, FewerCalls DEF SessionInv
  <2> QED BY <2>1, <2>2, <2>3
<1> QED BY <1>3, <1>4, <1>5, <1>6
-----------------------------------------------------------------------------
(* The pages.                                                               *)

\* Steps that change neither the calls nor what shows them.
LEMMA QuietStepsKeepInv ==
  ASSUME SessionInv,
         Elsewhere \/ SubmitAddress \/ HealthAnswered \/ SetupReset \/ OpenSection
  PROVE  SessionInv'
<1>1. UNCHANGED <<calls, page, auth>>
  BY DEF Elsewhere, SubmitAddress, HealthAnswered, SetupReset, OpenSection, SetupChanges, screen
<1> QED BY <1>1 DEF SessionInv

\* The loop and the button that logs out ask for a call of their own.
LEMMA AsksKeepInv ==
  ASSUME SessionInv, Tick \/ ClickLogout
  PROVE  SessionInv'
<1>1. PICK kind \in {"refresh", "logout"}, who \in {"loop", "dashboard"} :
        calls' = Command(calls, kind, who)
  BY DEF Tick, ClickLogout
<1>2. UNCHANGED <<page, auth>>
  BY DEF Tick, ClickLogout, screen
<1>3. PageCalls(calls, page) /\ LoginShown(calls, auth)
  BY DEF SessionInv
<1>4. kind # "login" /\ kind # "check"
  OBVIOUS
<1>5. PageCalls(calls', page) /\ LoginShown(calls', auth)
  BY <1>1, <1>3, <1>4, OtherCommand
<1> QED BY <1>2, <1>5 DEF SessionInv

LEMMA SetupOverKeepsInv ==
  ASSUME SessionInv, SetupOver
  PROVE  SessionInv'
<1>1. page = "setup" /\ Show(calls, path)
  BY DEF SetupOver
<1>2. \A c \in calls : Whole(c) /\ ~LoginHere(c) /\ ~RouteHere(c)
  BY <1>1 DEF SessionInv, PageCalls
<1> QED BY <1>1, <1>2, ShowKeepsInv

LEMMA AuthOverKeepsInv ==
  ASSUME SessionInv, AuthOver
  PROVE  SessionInv'
<1>1. Show(Left(calls), "/")
  BY DEF AuthOver
<1>2. \A c \in Left(calls) : Whole(c) /\ ~LoginHere(c) /\ ~RouteHere(c)
  BY LeftCalls DEF SessionInv, PageCalls
<1> QED BY <1>1, <1>2, ShowKeepsInv

\* A login is asked for only while none is under way, and stops the timer.
LEMMA SubmitLoginKeepsInv ==
  ASSUME SessionInv, SubmitLogin
  PROVE  SessionInv'
<1>1. page = "auth" /\ page' = page /\ auth.state # "loading" /\ auth \in AuthType
  BY DEF SubmitLogin, AuthChanges, SessionInv, LoginShown
<1>2. \A c \in calls : ~LoginHere(c)
  BY <1>1 DEF SessionInv, LoginShown
<1>3. CASE /\ auth' = [StopTimer(auth) EXCEPT !.state = "error", !.reset = TRUE]
           /\ UNCHANGED calls
  <2>1. auth' \in AuthType /\ auth'.state = "error"
    BY <1>1, <1>3 DEF StopTimer, AuthType
  <2> QED BY <1>1, <1>2, <1>3, <2>1 DEF SessionInv, PageCalls, LoginShown
<1>4. CASE /\ auth' = [StopTimer(auth) EXCEPT !.state = "loading"]
           /\ calls' = Command(calls, "login", "auth")
  <2>1. auth' \in AuthType /\ auth'.state = "loading" /\ auth'.reset = FALSE
    BY <1>1, <1>4 DEF StopTimer, AuthType
  <2> DEFINE c == Asked(calls, "login", "auth")
  <2>2. calls' = calls \cup {c} /\ Whole(c) /\ c.kind = "login"
    BY <1>4, CommandWhole
  <2> HIDE DEF c
  <2>3. ~RouteHere(c)
    BY <2>2 DEF RouteHere
  <2>4. PageCalls(calls', page)
    BY <1>1, <1>2, <2>2, <2>3 DEF SessionInv, PageCalls
  <2> QED BY <1>1, <2>1, <2>4 DEF SessionInv, LoginShown
<1> QED BY <1>3, <1>4 DEF SubmitLogin, AuthChanges

LEMMA LoginReturnsKeepsInv ==
  ASSUME SessionInv, LoginReturns
  PROVE  SessionInv'
<1>1. PICK c \in calls :
        /\ c.kind = "login" /\ calls' = calls \ {c}
        /\ IF c.here
           THEN AuthChanges(IF c.at = "granted" THEN [auth EXCEPT !.state = "success", !.leave = TRUE]
                                                ELSE [auth EXCEPT !.state = "error", !.reset = TRUE])
           ELSE IF c.window /\ c.at = "granted" /\ page = "auth"
           THEN AuthChanges([auth EXCEPT !.leave = TRUE])
           ELSE UNCHANGED <<url, rows, old, screen>>
  BY DEF LoginReturns
<1>2. PageCalls(calls', page) /\ LoginShown(calls', auth)
  BY <1>1, FewerCalls DEF SessionInv
<1>3. page' = page
  BY <1>1 DEF AuthChanges, screen
<1>4. auth \in AuthType
  BY DEF SessionInv, LoginShown
<1>5. CASE c.here
  <2>1. auth' \in AuthType /\ auth'.state # "loading"
    BY <1>1, <1>4, <1>5 DEF AuthChanges, AuthType
  <2>2. \A d \in calls' : ~LoginHere(d)
    BY <1>1, <1>5 DEF SessionInv, PageCalls, LoginHere
  <2> QED BY <1>2, <1>3, <2>1, <2>2 DEF SessionInv, LoginShown
<1>6. CASE ~c.here
  <2>1. auth' = auth \/ auth' = [auth EXCEPT !.leave = TRUE]
    BY <1>1, <1>6 DEF AuthChanges, screen
  <2>2. auth' \in AuthType /\ auth'.state = auth.state /\ auth'.reset = auth.reset
    BY <1>4, <2>1 DEF AuthType
  <2> QED BY <1>2, <1>3, <2>2 DEF SessionInv, LoginShown
<1> QED BY <1>5, <1>6

LEMMA AuthResetKeepsInv ==
  ASSUME SessionInv, AuthReset
  PROVE  SessionInv'
<1>1. auth \in AuthType /\ auth.reset /\ auth.state # "loading"
  BY DEF SessionInv, LoginShown, AuthReset
<1>2. auth' = [auth EXCEPT !.state = "idle", !.reset = FALSE] /\ UNCHANGED <<page, calls>>
  BY DEF AuthReset, AuthChanges
<1>3. auth' \in AuthType /\ auth'.state = "idle"
  BY <1>1, <1>2 DEF AuthType
<1> QED BY <1>1, <1>2, <1>3 DEF SessionInv, LoginShown

LEMMA CheckReturnsKeepsInv ==
  ASSUME SessionInv, CheckReturns
  PROVE  SessionInv'
<1>1. PICK c \in calls :
        /\ c.kind = "check"
        /\ IF c.here /\ c.who = "route"
           THEN IF c.at = "nobody"
                THEN Show(calls \ {c}, "/auth")
                ELSE /\ page' = "dashboard"
                     /\ calls' = Command(calls \ {c}, "check", "dashboard")
                     /\ UNCHANGED auth
           ELSE calls' = calls \ {c} /\ UNCHANGED screen
  BY DEF CheckReturns
<1>2. PageCalls(calls \ {c}, page) /\ LoginShown(calls \ {c}, auth)
  BY FewerCalls DEF SessionInv
<1>3. CASE RouteHere(c)
  <2>1. page = "checking" /\ \A d \in calls \ {c} : ~RouteHere(d)
    BY <1>3 DEF SessionInv, PageCalls
  <2>2. \A d \in calls \ {c} : Whole(d) /\ ~LoginHere(d) /\ ~RouteHere(d)
    BY <2>1 DEF SessionInv, PageCalls
  <2>3. CASE Show(calls \ {c}, "/auth")
    BY <2>2, <2>3, ShowKeepsInv
  <2>4. CASE /\ page' = "dashboard"
             /\ calls' = Command(calls \ {c}, "check", "dashboard")
             /\ UNCHANGED auth
    <3>1. PageCalls(calls \ {c}, "dashboard")
      BY <2>2 DEF PageCalls
    <3>2. PageCalls(calls', "dashboard") /\ LoginShown(calls', auth)
      BY <1>2, <2>4, <3>1, OtherCommand
    <3> QED BY <2>4, <3>2 DEF SessionInv
  <2> QED BY <1>1, <1>3, <2>3, <2>4 DEF RouteHere
<1>4. CASE ~RouteHere(c)
  <2>1. calls' = calls \ {c} /\ UNCHANGED <<page, auth>>
    BY <1>1, <1>4 DEF RouteHere, screen
  <2> QED BY <1>2, <2>1 DEF SessionInv
<1> QED BY <1>3, <1>4

LEMMA LogoutReturnsKeepsInv ==
  ASSUME SessionInv, LogoutReturns
  PROVE  SessionInv'
<1>1. PICK c \in calls : \/ Show(Left(calls \ {c}), "/auth")
                         \/ calls' = calls \ {c} /\ UNCHANGED screen
  BY DEF LogoutReturns
<1>2. CASE Show(Left(calls \ {c}), "/auth")
  <2>1. \A d \in calls \ {c} : Whole(d)
    BY DEF SessionInv, PageCalls
  <2>2. \A d \in Left(calls \ {c}) : Whole(d) /\ ~LoginHere(d) /\ ~RouteHere(d)
    BY <2>1, LeftCalls
  <2> QED BY <1>2, <2>2, ShowKeepsInv
<1>3. CASE calls' = calls \ {c} /\ UNCHANGED screen
  <2>1. PageCalls(calls \ {c}, page) /\ LoginShown(calls \ {c}, auth)
    BY FewerCalls DEF SessionInv
  <2> QED BY <1>3, <2>1 DEF SessionInv, screen
<1> QED BY <1>1, <1>2, <1>3

LEMMA ChangeServerKeepsCalls ==
  ASSUME SessionInv, ChangeServer
  PROVE  SessionInv'
<1>1. \A c \in calls' : Whole(c) /\ ~LoginHere(c) /\ ~RouteHere(c)
  BY LeftCalls DEF SessionInv, PageCalls, ChangeServer
<1>2. auth' \in AuthType /\ auth'.state = "idle"
  BY DEF ChangeServer, NoAuth, AuthType
<1> QED BY <1>1, <1>2 DEF SessionInv, PageCalls, LoginShown

LEMMA RestartKeepsInv ==
  ASSUME Restart
  PROVE  SessionInv'
<1> DEFINE cs == Command({}, "refresh", "loop")
           c == Asked({}, "refresh", "loop")
<1>1. cs = {c} /\ Whole(c) /\ c.kind = "refresh"
  BY CommandWhole
<1>2. Show(cs, "/") \/ (calls' = cs /\ auth' = NoAuth)
  BY DEF Restart
<1> HIDE DEF cs, c
<1>3. \A d \in cs : Whole(d) /\ ~LoginHere(d) /\ ~RouteHere(d)
  BY <1>1 DEF LoginHere, RouteHere
<1>4. NoAuth \in AuthType /\ NoAuth.state = "idle"
  BY DEF NoAuth, AuthType
<1>5. CASE Show(cs, "/")
  BY <1>3, <1>5, ShowKeepsInv
<1>6. CASE calls' = cs /\ auth' = NoAuth
  BY <1>3, <1>4, <1>6 DEF SessionInv, PageCalls, LoginShown
<1> QED BY <1>2, <1>5, <1>6

LEMMA SessionStepsKeepInv ==
  ASSUME SessionInv, Stays \/ ChangeServer \/ Restart
  PROVE  SessionInv'
<1>1. CASE CommandNext
  BY <1>1, CommandsKeepInv, CheckReturnsKeepsInv, LoginReturnsKeepsInv,
     LogoutReturnsKeepsInv DEF CommandNext
<1>2. CASE Stays /\ ~CommandNext
  BY <1>2, CommandsKeepInv, QuietStepsKeepInv, AsksKeepInv, SetupOverKeepsInv, AuthOverKeepsInv,
     SubmitLoginKeepsInv, AuthResetKeepsInv DEF Stays
<1> QED BY <1>1, <1>2, ChangeServerKeepsCalls, RestartKeepsInv

LEMMA SessionInitHasInv ==
  ASSUME SessionInit
  PROVE  SessionInv
<1> DEFINE cs == Command({}, "refresh", "loop")
           c == Asked({}, "refresh", "loop")
           ds == Command(cs, "check", "route")
           d == Asked(cs, "check", "route")
<1>1. PICK s \in Starts :
        /\ page = IF url = None THEN "setup" ELSE IF s.open THEN "dashboard" ELSE "checking"
        /\ calls = CASE s.open -> {} [] url = None -> cs [] OTHER -> ds
        /\ s.open => url # None
  BY StartsAssumption DEF SessionInit
<1>2. /\ cs = {c} /\ Whole(c) /\ c.kind = "refresh"
      /\ ds = cs \cup {d} /\ Whole(d) /\ d.kind = "check"
  BY CommandWhole
<1> HIDE DEF cs, c, ds, d
<1>3. auth \in AuthType /\ auth.state = "idle"
  BY DEF SessionInit, NoAuth, AuthType
<1>4. ~LoginHere(c) /\ ~RouteHere(c) /\ ~LoginHere(d)
  BY <1>2 DEF LoginHere, RouteHere
<1>5. \/ calls = {} 
      \/ calls = cs
      \/ calls = ds /\ page = "checking"
  BY <1>1
<1> QED BY <1>2, <1>3, <1>4, <1>5 DEF SessionInv, PageCalls, LoginShown

-----------------------------------------------------------------------------
LEMMA InvHasOneLogin ==
  ASSUME SessionInv
  PROVE  OneLogin
<1> DEFINE Ls == {c \in calls : c.kind = "login" /\ c.here}
<1>1. \A c, d \in Ls : c = d
  BY DEF SessionInv, PageCalls, LoginHere
<1>2. (\E c \in calls : c.kind = "login" /\ c.here) => auth.state = "loading"
  BY DEF SessionInv, LoginShown, LoginHere
<1>3. Cardinality(Ls) <= 1
  <2>1. CASE Ls = {}
    BY <2>1, FS_EmptySet
  <2>2. CASE Ls # {}
    <3>1. PICK c : Ls = {c}
      BY <1>1, <2>2
    <3> QED BY <3>1, FS_Singleton
  <2> QED BY <2>1, <2>2
<1> QED BY <1>2, <1>3 DEF OneLogin

\* The login page waits for one login at most, and shows it: no timer of an
\* earlier error, no page change and no late answer makes it forget one
\* (AuthPage.tsx).
THEOREM OneLoginAtATime ==
  SessionSpec => []OneLogin
<1>1. SessionInit => SessionInv
  BY SessionInitHasInv
<1>2. SessionInv /\ [SessionNext]_svars => SessionInv'
  <2>1. SessionInv /\ UNCHANGED svars => SessionInv'
    BY DEF svars, screen, SessionInv
  <2> QED BY <2>1, SessionStepsKeepInv DEF SessionNext
<1>3. SessionInv => OneLogin
  BY InvHasOneLogin
<1> QED BY <1>1, <1>2, <1>3, PTL DEF SessionSpec
-----------------------------------------------------------------------------
(* What the pages do to the calls, told by what the commands work on.       *)

Numbered(cs) ==
  /\ \A c \in cs : c.no \in 1..MaxCalls
  /\ \A c, d \in cs : c.no = d.no => c = d

HasNumber(cs) == \E n \in 1..MaxCalls : \A c \in cs : c.no # n

\* The same call, but for who waits for it.
Like(c, d) ==
  /\ d.no = c.no /\ d.kind = c.kind /\ d.at = c.at /\ d.token = c.token /\ d.new = c.new
  /\ d.line = c.line /\ d.server = c.server
New(d) ==
  /\ d.kind \in {"refresh", "check", "logout", "login"} /\ d.at = "asked"
  /\ d.token = 0 /\ d.new = 0

\* All of them go on, and others begin.
Carries(cs, ds) ==
  /\ Numbered(ds)
  /\ \A c \in cs : \E d \in ds : Like(c, d)
  /\ \A d \in ds : New(d) \/ \E c \in cs : Like(c, d)

LEMMA RoomIsNumber ==
  ASSUME Numbered(calls), Room(calls, 1)
  PROVE  HasNumber(calls)
<1>1. SUFFICES ASSUME \A n \in 1..MaxCalls : \E c \in calls : c.no = n
               PROVE  FALSE
  BY DEF HasNumber
<1> DEFINE f == [c \in calls |-> c.no]
           g == [n \in 1..MaxCalls |-> CHOOSE c \in calls : c.no = n]
<1>2. MaxCalls \in Nat /\ IsFiniteSet(1..MaxCalls) /\ Cardinality(1..MaxCalls) = MaxCalls
  BY SessionBounds, FS_Interval
<1>3. f \in Injection(calls, 1..MaxCalls)
  BY DEF Injection, IsInjective, Numbered
<1>4. \A n \in 1..MaxCalls : g[n] \in calls /\ g[n].no = n
  BY <1>1
<1>5. g \in Injection(1..MaxCalls, calls)
  BY <1>4 DEF Injection, IsInjective
<1> HIDE DEF f, g
<1>6. IsFiniteSet(calls)
  BY <1>2, <1>3, FS_Injection
<1>7. MaxCalls <= Cardinality(calls) /\ Cardinality(calls) \in Nat
  BY <1>2, <1>5, <1>6, FS_Injection, FS_CardinalityType
<1> QED BY <1>2, <1>7 DEF Room

LEMMA CommandCarries ==
  ASSUME NEW cs, NEW ds, Carries(cs, ds), HasNumber(ds),
         NEW kind \in {"refresh", "check", "logout", "login"}, NEW who,
         NEW es, es = Command(ds, kind, who)
  PROVE  /\ Carries(cs, es)
         /\ \E d \in es : New(d) /\ d.kind = kind /\ d.who = who /\ d.here
<1> DEFINE c == Asked(ds, kind, who)
<1>1. es = ds \cup {c}
  BY CommandWhole
<1>2. c.no = FreeNo(ds) /\ New(c) /\ c.kind = kind /\ c.who = who /\ c.here
  BY DEF Asked, New
<1> HIDE DEF c
<1>3. c.no \in 1..MaxCalls /\ \A d \in ds : d.no # c.no
  BY <1>2 DEF FreeNo, HasNumber
<1> QED BY <1>1, <1>2, <1>3 DEF Carries, Numbered

LEMMA SubsetCarries ==
  ASSUME NEW cs, Numbered(cs), NEW ds \in SUBSET cs
  PROVE  Carries(ds, ds)
  BY DEF Carries, Numbered, Like

LEMMA LeftCarries ==
  ASSUME NEW cs, Numbered(cs), \A c \in cs : Whole(c)
  PROVE  /\ Carries(cs, Left(cs)) /\ Carries(cs, Closed(cs))
         /\ HasNumber(cs) => HasNumber(Left(cs))
<1>1. \A c \in cs : Like(c, [c EXCEPT !.here = FALSE])
  BY DEF Whole, Like
<1>2. \A c \in cs : Like(c, [c EXCEPT !.here = FALSE, !.window = FALSE])
  BY DEF Whole, Like
<1>3. \A ds : /\ \A c \in cs : \E d \in ds : Like(c, d)
              /\ \A d \in ds : \E c \in cs : Like(c, d) /\ \A e \in ds : Like(c, e) => e = d
              => Carries(cs, ds) /\ (HasNumber(cs) => HasNumber(ds))
  <2> SUFFICES ASSUME NEW ds,
                      /\ \A c \in cs : \E d \in ds : Like(c, d)
                      /\ \A d \in ds : \E c \in cs : Like(c, d) /\ \A e \in ds : Like(c, e) => e = d
               PROVE  Carries(cs, ds) /\ (HasNumber(cs) => HasNumber(ds))
    OBVIOUS
  <2>1. Numbered(ds)
    <3>1. \A d \in ds : d.no \in 1..MaxCalls
      BY DEF Numbered, Like
    <3>2. ASSUME NEW d \in ds, NEW e \in ds, d.no = e.no
          PROVE  d = e
      <4>1. PICK c \in cs : Like(c, d) /\ \A x \in ds : Like(c, x) => x = d
        OBVIOUS
      <4>2. PICK b \in cs : Like(b, e)
        OBVIOUS
      <4>3. b.no = c.no
        BY <3>2, <4>1, <4>2 DEF Like
      <4>4. b = c
        BY <4>1, <4>2, <4>3 DEF Numbered
      <4> QED BY <4>1, <4>2, <4>4
    <3> QED BY <3>1, <3>2 DEF Numbered
  <2>2. HasNumber(cs) => HasNumber(ds)
    BY DEF HasNumber, Like
  <2> QED BY <2>1, <2>2 DEF Carries
<1>4. \A b, c \in cs : \A e : Like(b, e) /\ Like(c, e) => b = c
  BY DEF Numbered, Like
<1>5. \A d \in Left(cs) : \E c \in cs : d = [c EXCEPT !.here = FALSE]
  BY DEF Left
<1>6. \A d \in Closed(cs) : \E c \in cs : d = [c EXCEPT !.here = FALSE, !.window = FALSE]
  BY DEF Closed
<1>7. \A d \in Left(cs) : \E c \in cs : Like(c, d) /\ \A e \in Left(cs) : Like(c, e) => e = d
  <2> TAKE d \in Left(cs)
  <2>1. PICK c \in cs : d = [c EXCEPT !.here = FALSE]
    BY <1>5
  <2>2. ASSUME NEW e \in Left(cs), Like(c, e)
        PROVE  e = d
    <3>1. PICK b \in cs : e = [b EXCEPT !.here = FALSE]
      BY <1>5
    <3>2. b = c
      BY <1>1, <1>4, <2>2, <3>1
    <3> QED BY <2>1, <3>1, <3>2
  <2> QED BY <1>1, <2>1, <2>2
<1>8. \A d \in Closed(cs) : \E c \in cs : Like(c, d) /\ \A e \in Closed(cs) : Like(c, e) => e = d
  <2> TAKE d \in Closed(cs)
  <2>1. PICK c \in cs : d = [c EXCEPT !.here = FALSE, !.window = FALSE]
    BY <1>6
  <2>2. ASSUME NEW e \in Closed(cs), Like(c, e)
        PROVE  e = d
    <3>1. PICK b \in cs : e = [b EXCEPT !.here = FALSE, !.window = FALSE]
      BY <1>6
    <3>2. b = c
      BY <1>2, <1>4, <2>2, <3>1
    <3> QED BY <2>1, <3>1, <3>2
  <2> QED BY <1>2, <2>1, <2>2
<1>9. \A c \in cs : (\E d \in Left(cs) : Like(c, d)) /\ \E d \in Closed(cs) : Like(c, d)
  BY <1>1, <1>2 DEF Left, Closed
<1> QED BY <1>3, <1>7, <1>8, <1>9

\* The page of the start waits for its call.
RouteAsked(cs, p) == p = "checking" => \E c \in cs : RouteHere(c)

LEMMA ShowCarries ==
  ASSUME NEW cs, NEW ds, Carries(cs, ds), NEW p, HasNumber(ds) \/ p # "/", Show(ds, p)
  PROVE  Carries(cs, calls') /\ RouteAsked(calls', page')
<1>1. CASE p = "/"
  <2>1. calls' = Command(ds, "check", "route") /\ HasNumber(ds)
    BY <1>1 DEF Show
  <2>2. /\ Carries(cs, calls')
        /\ \E d \in calls' : New(d) /\ d.kind = "check" /\ d.who = "route" /\ d.here
    BY <2>1, CommandCarries
  <2> QED BY <2>2 DEF RouteAsked, RouteHere
<1>2. CASE p # "/"
  BY <1>2 DEF Show, RouteAsked
<1> QED BY <1>1, <1>2

LEMMA PagesCarry ==
  ASSUME SessionInv, Numbered(calls), RouteAsked(calls, page),
         \/ Elsewhere \/ Tick \/ SubmitAddress \/ HealthAnswered \/ SetupReset \/ SetupOver
         \/ SubmitLogin \/ AuthReset \/ AuthOver \/ OpenSection \/ ClickLogout \/ ChangeServer
  PROVE  Carries(calls, calls') /\ RouteAsked(calls', page')
<1>1. Carries(calls, calls)
  BY SubsetCarries
<1>2. CASE UNCHANGED <<calls, page>>
  BY <1>1, <1>2
<1>3. CASE Elsewhere \/ SubmitAddress \/ HealthAnswered \/ SetupReset \/ OpenSection \/ AuthReset
  BY <1>2, <1>3
     DEF Elsewhere, SubmitAddress, HealthAnswered, SetupReset, OpenSection, AuthReset, SetupChanges,
         AuthChanges, screen
<1>4. CASE Tick \/ ClickLogout \/ (SubmitLogin /\ ~UNCHANGED calls)
  <2>1. UNCHANGED page /\ Room(calls, 1)
    BY <1>4 DEF Tick, ClickLogout, SubmitLogin, AuthChanges, screen
  <2>2. PICK kind \in {"refresh", "check", "logout", "login"} :
          \E who : calls' = Command(calls, kind, who)
    BY <1>4 DEF Tick, ClickLogout, SubmitLogin
  <2>3. Carries(calls, calls')
    BY <1>1, <2>1, <2>2, RoomIsNumber, CommandCarries
  <2>4. calls \subseteq calls'
    BY <2>2 DEF Command
  <2> QED BY <2>1, <2>3, <2>4 DEF RouteAsked
<1>5. CASE SubmitLogin /\ UNCHANGED calls
  BY <1>2, <1>5 DEF SubmitLogin, AuthChanges
<1>6. CASE SetupOver
  BY <1>1, <1>6, RoomIsNumber, ShowCarries DEF SetupOver
<1>7. \A c \in calls : Whole(c)
  BY DEF SessionInv, PageCalls
<1>8. CASE AuthOver
  <2>1. Carries(calls, Left(calls)) /\ HasNumber(Left(calls))
    BY <1>7, <1>8, LeftCarries, RoomIsNumber DEF AuthOver
  <2> QED BY <1>8, <2>1, ShowCarries DEF AuthOver
<1>9. CASE ChangeServer
  <2>1. page' # "checking"
    BY <1>9 DEF ChangeServer, LoadsAnew
  <2> QED BY <1>7, <1>9, <2>1, LeftCarries DEF ChangeServer, RouteAsked
<1> QED BY <1>3, <1>4, <1>5, <1>6, <1>8, <1>9

\* A command that is over.
LEMMA OverCarries ==
  ASSUME SessionInv, Numbered(calls), RouteAsked(calls, page), NEW c \in calls,
         calls' = calls \ {c}, UNCHANGED page, ~RouteHere(c)
  PROVE  Carries(calls \ {c}, calls') /\ RouteAsked(calls', page')
<1>1. Carries(calls \ {c}, calls')
  BY SubsetCarries
<1>2. RouteAsked(calls', page')
  BY DEF RouteAsked
<1> QED BY <1>1, <1>2

LEMMA CheckReturnsCarries ==
  ASSUME SessionInv, Numbered(calls), RouteAsked(calls, page), CheckReturns
  PROVE  /\ \E c \in calls : c.kind = "check" /\ c.at \in {"somebody", "nobody"}
                             /\ Carries(calls \ {c}, calls')
         /\ RouteAsked(calls', page')
<1>1. PICK c \in calls :
        /\ c.kind = "check" /\ c.at \in {"somebody", "nobody"}
        /\ IF c.here /\ c.who = "route"
           THEN IF c.at = "nobody"
                THEN Show(calls \ {c}, "/auth")
                ELSE page' = "dashboard" /\ calls' = Command(calls \ {c}, "check", "dashboard")
           ELSE calls' = calls \ {c} /\ UNCHANGED screen
  BY DEF CheckReturns
<1>2. Carries(calls \ {c}, calls \ {c}) /\ HasNumber(calls \ {c})
  BY SubsetCarries DEF Numbered, HasNumber
<1>3. CASE ~RouteHere(c)
  BY <1>1, <1>3, OverCarries DEF RouteHere, screen
<1>4. CASE Show(calls \ {c}, "/auth")
  BY <1>1, <1>2, <1>4, ShowCarries
<1>5. CASE page' = "dashboard" /\ calls' = Command(calls \ {c}, "check", "dashboard")
  <2>1. Carries(calls \ {c}, calls')
    BY <1>2, <1>5, CommandCarries
  <2> QED BY <1>1, <1>5, <2>1 DEF RouteAsked
<1> QED BY <1>1, <1>3, <1>4, <1>5 DEF RouteHere

LEMMA LogoutReturnsCarries ==
  ASSUME SessionInv, Numbered(calls), RouteAsked(calls, page), LogoutReturns
  PROVE  /\ \E c \in calls :
              /\ c.kind = "logout" /\ Carries(calls \ {c}, calls')
              /\ (\E d \in calls \ {c} : d.kind \in {"refresh", "check"}) => amiss'
              /\ \A d \in calls' : \E b \in calls \ {c} : Like(b, d)
         /\ RouteAsked(calls', page')
<1>1. PICK c \in calls :
        /\ c.kind = "logout" /\ amiss' = \E d \in calls \ {c} : d.kind \in {"refresh", "check"}
        /\ \/ Show(Left(calls \ {c}), "/auth")
           \/ calls' = calls \ {c} /\ UNCHANGED screen
  BY DEF LogoutReturns
<1>2. (\E d \in calls \ {c} : d.kind \in {"refresh", "check"}) => amiss'
  BY <1>1
<1>3. Numbered(calls \ {c}) /\ \A d \in calls \ {c} : Whole(d)
  BY DEF Numbered, SessionInv, PageCalls
<1>4. CASE Show(Left(calls \ {c}), "/auth")
  <2>1. Carries(calls \ {c}, Left(calls \ {c}))
    BY <1>3, LeftCarries
  <2>2. Carries(calls \ {c}, calls') /\ RouteAsked(calls', page')
    BY <1>4, <2>1, ShowCarries
  <2>3. calls' = Left(calls \ {c})
    BY <1>4 DEF Show
  <2>4. \A d \in calls' : \E b \in calls \ {c} : Like(b, d)
    <3>1. \A b \in calls \ {c} : Like(b, [b EXCEPT !.here = FALSE])
      BY <1>3 DEF Whole, Like
    <3> QED BY <2>3, <3>1 DEF Left
  <2> QED BY <1>1, <1>2, <2>2, <2>4
<1>5. CASE calls' = calls \ {c} /\ UNCHANGED screen
  <2>1. UNCHANGED page /\ ~RouteHere(c)
    BY <1>1, <1>5 DEF screen, RouteHere
  <2>2. \A d \in calls' : \E b \in calls \ {c} : Like(b, d)
    BY <1>5 DEF Like
  <2> QED BY <1>1, <1>2, <1>5, <2>1, <2>2, OverCarries
<1> QED BY <1>1, <1>4, <1>5

LEMMA RestartCarries ==
  ASSUME Restart
  PROVE  /\ Carries({}, calls') /\ RouteAsked(calls', page')
         /\ \E c \in calls' : New(c) /\ c.kind = "refresh"
<1> DEFINE cs == Command({}, "refresh", "loop")
           a == Asked({}, "refresh", "loop")
<1>1. Carries({}, {}) /\ HasNumber({})
  BY SessionBounds DEF Carries, Numbered, HasNumber
<1>2. Carries({}, cs) /\ \E c \in cs : New(c) /\ c.kind = "refresh"
  BY <1>1, CommandCarries
<1>3. cs = {a}
  BY CommandWhole
<1> HIDE DEF cs, a
<1>4. HasNumber(cs)
  <2>1. 1 \in 1..MaxCalls /\ 2 \in 1..MaxCalls
    BY SessionBounds
  <2> QED BY <1>3, <2>1 DEF HasNumber
<1>5. CASE Show(cs, "/")
  <2>1. Carries({}, calls') /\ RouteAsked(calls', page')
    BY <1>2, <1>4, <1>5, ShowCarries
  <2>2. cs \subseteq calls'
    BY <1>5 DEF Show, Command
  <2> QED BY <1>2, <2>1, <2>2
<1>6. CASE page' = "setup" /\ calls' = cs
  BY <1>2, <1>6 DEF RouteAsked
<1> QED BY <1>5, <1>6 DEF Restart, cs

-----------------------------------------------------------------------------
(* Tokens.  Those that were handed out are above what is left.              *)

StageOk(c) ==
  \/ /\ c.kind = "refresh"
     /\ c.at \in {"asked", "refresh", "touched", "deleted", "granted", "refused", "lost", "end"}
  \/ /\ c.kind = "check"
     /\ c.at \in {"asked", "me", "valid", "invalid", "refresh", "touched", "deleted", "granted",
                  "refused", "lost", "somebody", "nobody"}
  \/ c.kind = "logout" /\ c.at \in {"asked", "out", "left"}
  \/ c.kind = "login" /\ c.at \in {"asked", "login", "granted", "denied"}

Given(t, n) == t \in 0..MaxTokens /\ (t = 0 \/ n < t)

CallOk(c, n) ==
  /\ StageOk(c) /\ Given(c.token, n) /\ Given(c.new, n)
  /\ c.at \in {"login", "refresh", "touched", "deleted"} => c.server \in Server
  /\ c.at \in {"touched", "deleted"} => c.line \in 1..MaxTokens /\ n < c.line

RowOk(r, n) ==
  r \in [token: 1..MaxTokens, server: Server, line: 1..MaxTokens] /\ n < r.token /\ n < r.line
RowsOk(rs, n) ==
  /\ \A r \in rs : RowOk(r, n)
  /\ \A q, r \in rs : q.token = r.token \/ q.line = r.line => q = r

\* A new token is nobody's until its command ends.
Alone(cs, c, s) ==
  /\ c.new # 0 /\ c.new # s
  /\ \A d \in cs : d.token # c.new /\ (d.at = "granted" /\ d.new = c.new => d = c)
NewAlone(cs, s) == \A c \in cs : c.at = "granted" => Alone(cs, c, s)

LeftOk(f) == f \in [DOMAIN f -> Nat] /\ "tokens" \in DOMAIN f /\ f["tokens"] <= MaxTokens

\* The tokens of a state, with n of them left.
TokensOk(cs, s, rs, n) ==
  Given(s, n) /\ RowsOk(rs, n) /\ (\A c \in cs : CallOk(c, n)) /\ NewAlone(cs, s)
TokenInv == LeftOk(sleft) /\ TokensOk(calls, store, rows, sleft["tokens"])

LEMMA SpareLeaves ==
  ASSUME LeftOk(sleft), NEW what, Spare(what)
  PROVE  /\ LeftOk(sleft')
         /\ what # "tokens" => sleft'["tokens"] = sleft["tokens"]
         /\ what = "tokens" => sleft["tokens"] > 0 /\ sleft'["tokens"] = sleft["tokens"] - 1
<1>1. sleft["tokens"] \in Nat /\ MaxTokens \in Nat
  BY SessionBounds DEF LeftOk
<1>2. DOMAIN sleft' = DOMAIN sleft
  BY DEF Spare
<1>3. \A x \in DOMAIN sleft : sleft'[x] = IF x = what THEN sleft[x] - 1 ELSE sleft[x]
  BY DEF Spare
<1>4. \A x \in DOMAIN sleft : sleft'[x] \in Nat
  BY <1>3 DEF Spare, LeftOk
<1>5. sleft' \in [DOMAIN sleft' -> Nat]
  BY <1>2, <1>4 DEF Spare
<1> QED BY <1>1, <1>2, <1>3, <1>5 DEF LeftOk, Spare

\* The calls that are carried on have their tokens, and new ones have none.
LEMMA CarriesTokens ==
  ASSUME NEW cs \in SUBSET calls, NEW ds, Numbered(calls), Carries(cs, ds),
         NEW n \in Nat, TokensOk(calls, store, rows, n), NEW s, NEW rs, RowsOk(rs, n),
         Given(s, n), \A c \in cs : c.at = "granted" => c.new # s
  PROVE  TokensOk(ds, s, rs, n)
<1>1. \A d \in ds : New(d) => CallOk(d, n) /\ d.at # "granted"
  BY SessionBounds DEF New, CallOk, StageOk, Given
<1>2. \A c \in cs : \A d \in ds : Like(c, d) => CallOk(d, n)
  BY DEF Like, CallOk, StageOk, TokensOk
<1>3. \A d \in ds : CallOk(d, n)
  BY <1>1, <1>2 DEF Carries
<1>4. ASSUME NEW d \in ds, d.at = "granted"
      PROVE  Alone(ds, d, s)
  <2>1. PICK c \in cs : Like(c, d)
    BY <1>1, <1>4 DEF Carries
  <2>2. Alone(calls, c, store) /\ c.new # s /\ d.new = c.new
    BY <1>4, <2>1 DEF TokensOk, NewAlone, Like
  <2>3. ASSUME NEW e \in ds
        PROVE  e.token # d.new /\ (e.at = "granted" /\ e.new = d.new => e = d)
    <3>1. CASE New(e)
      BY <2>2, <3>1 DEF New, Alone
    <3>2. CASE \E b \in cs : Like(b, e)
      <4>1. PICK b \in cs : Like(b, e)
        BY <3>2
      <4>2. b.token # c.new /\ (b.at = "granted" /\ b.new = c.new => b = c)
        BY <2>2 DEF Alone
      <4>3. b = c => e.no = d.no
        BY <2>1, <4>1 DEF Like
      <4> QED BY <2>2, <4>1, <4>2, <4>3 DEF Like, Carries, Numbered
    <3> QED BY <3>1, <3>2 DEF Carries
  <2> QED BY <2>2, <2>3 DEF Alone
<1> QED BY <1>3, <1>4 DEF TokensOk, NewAlone

\* A call that goes on.
LEMMA TurnsTokens ==
  ASSUME NEW n \in Nat, TokensOk(calls, store, rows, n), NEW c \in calls, NEW d, Becomes(c, d),
         NEW m \in Nat, m <= n, NEW s, Given(s, m), RowsOk(rows', m), CallOk(d, m),
         \A e \in calls \ {c} : e.at = "granted" => e.new # s /\ e.new # d.token,
         d.at = "granted" => /\ d.new # 0 /\ d.new # s /\ d.new # d.token
                             /\ \A e \in calls \ {c} : e.token # d.new /\ e.new # d.new
  PROVE  TokensOk(calls', s, rows', m)
<1>1. calls' = (calls \ {c}) \cup {d}
  BY DEF Becomes
<1>2. \A e \in calls : CallOk(e, m)
  BY SessionBounds DEF TokensOk, CallOk, StageOk, Given
<1>3. ASSUME NEW e \in calls \ {c}, e.at = "granted"
      PROVE  Alone(calls', e, s)
  <2>1. Alone(calls, e, store)
    BY <1>3 DEF TokensOk, NewAlone
  <2> QED BY <1>1, <1>3, <2>1 DEF Alone
<1>4. d.at = "granted" => Alone(calls', d, s)
  BY <1>1 DEF Alone
<1> QED BY <1>1, <1>2, <1>3, <1>4 DEF TokensOk, NewAlone

LEMMA BeginTokens ==
  ASSUME SessionInv, TokenInv, url \in Server \cup {None}, Begin
  PROVE  TokenInv'
<1> DEFINE n == sleft["tokens"]
<1>1. n \in Nat /\ TokensOk(calls, store, rows, n) /\ Given(store, n)
  BY DEF TokenInv, LeftOk, TokensOk
<1>2. UNCHANGED <<store, rows, sleft>>
  BY DEF Begin, stored
<1>3. \A c \in calls : Whole(c)
  BY DEF SessionInv, PageCalls
<1> HIDE DEF n
<1>a. PICK c \in calls : \E d : Begun(c, d)
  BY <1>3, BeginTurns
<1>4. PICK d : Begun(c, d)
  BY <1>a
<1>5. Becomes(c, d) /\ d.kind = c.kind /\ CallOk(c, n)
  BY <1>1, <1>4 DEF Begun, Turns, Same, TokensOk
<1>6. CallOk(d, n) /\ d.at # "granted" /\ (d.token = store \/ d.token = c.token)
  BY <1>1, <1>4, <1>5 DEF Begun, CallOk, StageOk
<1>7. \A e \in calls \ {c} : e.at = "granted" => e.new # store /\ e.new # d.token
  BY <1>1, <1>6 DEF TokensOk, NewAlone, Alone
<1>8. RowsOk(rows', n) /\ n <= n
  BY <1>1, <1>2 DEF TokensOk
<1>9. TokensOk(calls', store, rows', n)
  BY <1>1, <1>5, <1>6, <1>7, <1>8, TurnsTokens
<1> QED BY <1>2, <1>9 DEF TokenInv, n

LEMMA ServedTokens ==
  ASSUME SessionInv, TokenInv, Served
  PROVE  TokenInv'
<1> DEFINE n == sleft["tokens"]
<1>1. /\ n \in Nat /\ TokensOk(calls, store, rows, n) /\ Given(store, n) /\ RowsOk(rows, n)
      /\ n <= MaxTokens /\ MaxTokens \in Nat
  BY SessionBounds DEF TokenInv, LeftOk, TokensOk
<1>2. UNCHANGED store
  BY DEF Served, stored
<1>3. \A c \in calls : Whole(c)
  BY DEF SessionInv, PageCalls
<1>a. PICK c \in calls :
        \E d : Turns(c, d) /\ (Hears(c, d) \/ Finds(c, d) \/ Removes(c, d) \/ Issues(c, d))
  BY <1>3, ServedTurns
<1>4. PICK d : Turns(c, d) /\ (Hears(c, d) \/ Finds(c, d) \/ Removes(c, d) \/ Issues(c, d))
  BY <1>a
<1>5. Becomes(c, d) /\ d.kind = c.kind /\ CallOk(c, n)
  BY <1>1, <1>4 DEF Turns, Same, TokensOk
<1>6. \A e \in calls \ {c} : e.at = "granted" => e.new # store /\ e.new # c.token
  BY <1>1 DEF TokensOk, NewAlone, Alone
<1>7. CASE Hears(c, d) \/ Finds(c, d) \/ Removes(c, d)
  <2>1. UNCHANGED sleft /\ RowsOk(rows', n)
    BY <1>1, <1>7 DEF Hears, Finds, Removes, RowsOk, RowOk
  <2>2. d.at # "granted" /\ d.token = c.token
    BY <1>7 DEF Hears, Finds, Removes, Keeps
  <2>3. CallOk(d, n)
    <3>1. CASE Hears(c, d)
      BY <1>5, <3>1 DEF Hears, Keeps, CallOk, StageOk
    <3>2. CASE Finds(c, d)
      <4>1. PICK r \in Row(c) : d.line = r.line
        BY <3>2 DEF Finds
      <4>2. RowOk(r, n)
        BY <1>1, <4>1 DEF Row, RowsOk
      <4> QED BY <1>5, <3>2, <4>1, <4>2 DEF Finds, CallOk, StageOk, RowOk
    <3>3. CASE Removes(c, d)
      BY <1>5, <3>3 DEF Removes, Keeps, CallOk, StageOk
    <3> QED BY <1>7, <3>1, <3>2, <3>3
  <2> HIDE DEF n
  <2>4. TokensOk(calls', store, rows', n)
    BY <1>1, <1>5, <1>6, <2>1, <2>2, <2>3, TurnsTokens
  <2> QED BY <1>2, <2>1, <2>4 DEF TokenInv, n
<1>8. CASE Issues(c, d)
  <2> DEFINE m == n - 1
  <2>1. LeftOk(sleft') /\ n > 0 /\ sleft'["tokens"] = m
    BY <1>8, SpareLeaves DEF Issues, TokenInv
  <2>2. m \in Nat /\ m <= n /\ Given(store, m) /\ n \in 1..MaxTokens
    BY <1>1, <2>1 DEF Given
  <2>3. d.at = "granted" /\ d.new = n /\ d.token = c.token /\ d.server = c.server
    BY <1>8 DEF Issues
  <2>4. Given(c.token, n) /\ Given(d.token, m) /\ Given(d.new, m) /\ d.new # 0
    BY <1>1, <1>5, <2>2, <2>3 DEF CallOk, Given
  <2>5. \A r \in rows : RowOk(r, m) /\ r.token # n /\ r.line # n
    BY <1>1, <2>2 DEF RowsOk, RowOk
  <2>6. PICK line : /\ rows' = rows \cup {NewRow(c, line)} /\ line \in 1..MaxTokens /\ m < line
                    /\ \A r \in rows : r.line # line
    BY <1>5, <1>1, <1>8, <2>1, <2>2, <2>5 DEF Issues, CallOk
  <2>7. c.server \in Server /\ c.kind \in {"refresh", "check", "login"}
    BY <1>5, <1>8 DEF Issues, CallOk, StageOk
  <2>8. RowsOk(rows', m)
    <3> DEFINE q == NewRow(c, line)
    <3>1. q.token = n /\ q.line = line /\ RowOk(q, m)
      BY <2>2, <2>6, <2>7 DEF NewRow, RowOk
    <3> HIDE DEF q
    <3>2. rows' = rows \cup {q}
      BY <2>6 DEF q
    <3> QED BY <1>1, <2>5, <2>6, <3>1, <3>2 DEF RowsOk
  <2>9. CallOk(d, m)
    BY <1>5, <2>3, <2>4, <2>7 DEF CallOk, StageOk
  <2>10. \A e \in calls \ {c} : e.token # n /\ e.new # n
    BY <1>1, <2>1 DEF TokensOk, CallOk, Given
  <2>11. n # store /\ n # d.token
    BY <1>1, <2>1, <2>3, <2>4 DEF Given
  <2> HIDE DEF n, m
  <2>12. TokensOk(calls', store, rows', m)
    BY <1>1, <1>5, <1>6, <2>2, <2>3, <2>4, <2>8, <2>9, <2>10, <2>11, TurnsTokens
  <2> QED BY <1>2, <2>1, <2>12 DEF TokenInv
<1> QED BY <1>4, <1>7, <1>8

LEMMA FailsTokens ==
  ASSUME SessionInv, TokenInv, Fails
  PROVE  TokenInv'
<1> DEFINE n == sleft["tokens"]
<1>1. n \in Nat /\ TokensOk(calls, store, rows, n) /\ Given(store, n) /\ RowsOk(rows, n)
  BY DEF TokenInv, LeftOk, TokensOk
<1>2. UNCHANGED <<store, rows>> /\ Spare("fails")
  BY DEF Fails, stored
<1>3. LeftOk(sleft') /\ sleft'["tokens"] = n
  BY <1>2, SpareLeaves DEF TokenInv
<1>4. \A c \in calls : Whole(c)
  BY DEF SessionInv, PageCalls
<1> HIDE DEF n
<1>a. PICK c \in calls :
        \E d : Turns(c, d) /\ Keeps(c, d) /\ c.at \in OnTheWire /\ d.at \in Broken(c)
  BY <1>4, FailsTurns
<1>5. PICK d : Turns(c, d) /\ Keeps(c, d) /\ c.at \in OnTheWire /\ d.at \in Broken(c)
  BY <1>a
<1>6. Becomes(c, d) /\ d.kind = c.kind /\ CallOk(c, n)
  BY <1>1, <1>5 DEF Turns, Same, TokensOk
<1>7. d.token = c.token /\ d.new = c.new
  BY <1>5 DEF Keeps
<1>8. StageOk(d) /\ d.at \notin {"granted", "login", "refresh", "touched", "deleted"}
  BY <1>5, <1>6 DEF Broken, OnTheWire, CallOk, StageOk
<1>9. CallOk(d, n)
  BY <1>6, <1>7, <1>8 DEF CallOk
<1>10. \A e \in calls \ {c} : e.at = "granted" => e.new # store /\ e.new # d.token
  BY <1>1, <1>7 DEF TokensOk, NewAlone, Alone
<1>11. TokensOk(calls', store, rows', n)
  BY <1>1, <1>2, <1>6, <1>8, <1>9, <1>10, TurnsTokens
<1> QED BY <1>2, <1>3, <1>11 DEF TokenInv

LEMMA ContinueTokens ==
  ASSUME SessionInv, TokenInv, Numbered(calls), url \in Server \cup {None}, Continue
  PROVE  TokenInv'
<1> DEFINE n == sleft["tokens"]
<1>1. n \in Nat /\ TokensOk(calls, store, rows, n) /\ Given(store, n) /\ RowsOk(rows, n)
  BY DEF TokenInv, LeftOk, TokensOk
<1>2. UNCHANGED <<rows, sleft>>
  BY DEF Continue
<1>3. \A c \in calls : Whole(c)
  BY DEF SessionInv, PageCalls
<1> HIDE DEF n
<1>4. PICK c \in calls : CheckAnswered(c) \/ RefreshAnswered(c)
  BY DEF Continue
<1>5. CallOk(c, n) /\ RowsOk(rows', n) /\ n <= n
  BY <1>1, <1>2 DEF TokensOk
<1>6. \A e \in calls \ {c} :
        e.at = "granted" => /\ e.new # store /\ e.new # c.token /\ e.new # 0
                            /\ c.at = "granted" => e.new # c.new
  BY <1>1 DEF TokensOk, NewAlone, Alone
<1>7. CASE CheckAnswered(c)
  <2>1. PICK d : /\ Turns(c, d) /\ c.kind = "check"
                 /\ \/ Lets(c, d) \/ Retries(c, d) \/ AsksAnew(c, d) \/ Stores(c, d)
                    \/ GivesUp(c, d)
    BY <1>3, <1>7, CheckTurns
  <2>2. Becomes(c, d) /\ d.kind = "check"
    BY <2>1 DEF Turns, Same
  <2>3. d.at # "granted" /\ Given(store', n)
    BY <1>1, <1>5, <2>1, SessionBounds
       DEF Lets, Retries, AsksAnew, Stores, GivesUp, CallOk, Given
  <2>4. CallOk(d, n)
    BY <1>1, <1>5, <2>1, <2>2 DEF Lets, Retries, AsksAnew, Stores, GivesUp, Keeps, CallOk, StageOk
  <2>5. \A e \in calls \ {c} : e.at = "granted" => e.new # store' /\ e.new # d.token
    BY <1>6, <2>1 DEF Lets, Retries, AsksAnew, Stores, GivesUp, Keeps
  <2>6. TokensOk(calls', store', rows', n)
    BY <1>1, <1>5, <2>2, <2>3, <2>4, <2>5, TurnsTokens
  <2> QED BY <1>2, <2>6 DEF TokenInv, n
<1>8. CASE RefreshAnswered(c)
  <2>1. calls' = calls \ {c} /\ Carries(calls \ {c}, calls')
    BY <1>8, SubsetCarries DEF RefreshAnswered
  <2>2. store' = store \/ store' = 0 \/ (c.at = "granted" /\ store' = c.new)
    BY <1>8 DEF RefreshAnswered, Saved
  <2>3. Given(store', n) /\ \A e \in calls \ {c} : e.at = "granted" => e.new # store'
    BY <1>1, <1>5, <1>6, <2>2, SessionBounds DEF CallOk, Given
  <2>4. TokensOk(calls', store', rows', n)
    BY <1>1, <1>5, <2>1, <2>3, CarriesTokens
  <2> QED BY <1>2, <2>4 DEF TokenInv, n
<1> QED BY <1>4, <1>7, <1>8

\* The pages: the calls are carried on, and the session stays or goes, or is
\* the one of a login.
LEMMA CarriedTokens ==
  ASSUME TokenInv, Numbered(calls), NEW cs \in SUBSET calls, Carries(cs, calls'),
         rows' \in SUBSET rows, LeftOk(sleft'), sleft'["tokens"] = sleft["tokens"],
         \/ store' = store \/ store' = 0
         \/ \E c \in calls \ cs : c.at = "granted" /\ store' = c.new
  PROVE  TokenInv'
<1> DEFINE n == sleft["tokens"]
<1>1. n \in Nat /\ TokensOk(calls, store, rows, n)
  BY DEF TokenInv, LeftOk
<1>2. RowsOk(rows', n)
  BY <1>1 DEF TokensOk, RowsOk
<1>3. Given(store', n) /\ \A e \in cs : e.at = "granted" => e.new # store'
  BY <1>1, SessionBounds DEF TokensOk, CallOk, Given, NewAlone, Alone
<1> HIDE DEF n
<1>4. TokensOk(calls', store', rows', n)
  BY <1>1, <1>2, <1>3, CarriesTokens
<1> QED BY <1>4 DEF TokenInv, n

-----------------------------------------------------------------------------
(* Pages.  Only the first one is open without a server, and no logout opens *)
(* the login page from there.                                               *)

SetupType ==
  [state: {"idle", "loading", "error", "success", "saved"}, resets: Nat, asks: Nat, done: BOOLEAN]

AddressKnown(u, p, s) == p # "setup" \/ s.done \/ s.asks > 0 => u # None
SetupAlone(cs, p) == p = "setup" => \A c \in cs : c.kind = "logout" => ~c.window

PageOk ==
  /\ url \in Server \cup {None} /\ page \in {"setup", "checking", "auth", "dashboard"}
  /\ setup \in SetupType /\ AddressKnown(url, page, setup) /\ SetupAlone(calls, page)

CallsInv == SessionInv /\ Numbered(calls) /\ RouteAsked(calls, page) /\ TokenInv /\ PageOk

LEMMA NoSetupOk == NoSetup \in SetupType /\ ~NoSetup.done /\ ~(NoSetup.asks > 0)
  BY DEF NoSetup, SetupType

LEMMA CommandsKeepCalls ==
  ASSUME CallsInv, Begin \/ Served \/ Fails \/ Continue
  PROVE  CallsInv'
<1>1. UNCHANGED <<url, page, setup>>
  BY DEF Begin, Served, Fails, Continue, screen, stored
<1>2. \A c \in calls : Whole(c)
  BY DEF CallsInv, SessionInv, PageCalls
<1>3. \/ \E c \in calls : \E d : Turns(c, d)
      \/ \E c \in calls : c.kind = "refresh" /\ calls' = calls \ {c}
  <2>1. CASE Continue
    <3>1. PICK c \in calls : CheckAnswered(c) \/ RefreshAnswered(c)
      BY <2>1 DEF Continue
    <3> QED BY <1>2, <3>1, CheckTurns DEF RefreshAnswered
  <2> QED BY <1>2, <2>1, BeginTurns, ServedTurns, FailsTurns DEF Begun
<1>4. Numbered(calls') /\ RouteAsked(calls', page') /\ SetupAlone(calls', page')
  <2>1. CASE \E c \in calls : \E d : Turns(c, d)
    <3>1. PICK c \in calls : \E d : Turns(c, d)
      BY <2>1
    <3>a. PICK d : Turns(c, d)
      BY <3>1
    <3>2. calls' = (calls \ {c}) \cup {d} /\ Same(c, d)
      BY <3>a DEF Turns, Becomes
    <3>3. Numbered(calls')
      BY <3>2 DEF CallsInv, Numbered, Same
    <3>4. RouteAsked(calls', page') /\ SetupAlone(calls', page')
      BY <1>1, <3>2 DEF CallsInv, PageOk, RouteAsked, RouteHere, SetupAlone, Same
    <3> QED BY <3>3, <3>4
  <2>2. CASE \E c \in calls : c.kind = "refresh" /\ calls' = calls \ {c}
    BY <1>1, <2>2 DEF CallsInv, PageOk, Numbered, RouteAsked, RouteHere, SetupAlone
  <2> QED BY <1>3, <2>1, <2>2
<1>5. PageOk'
  BY <1>1, <1>4 DEF CallsInv, PageOk
<1>6. TokenInv'
  BY BeginTokens, ServedTokens, FailsTokens, ContinueTokens DEF CallsInv, PageOk
<1> QED BY <1>4, <1>5, <1>6, CommandsKeepInv DEF CallsInv

\* The steps of the pages and of the loop.
PageStep ==
  \/ Elsewhere \/ Tick \/ SubmitAddress \/ HealthAnswered \/ SetupReset \/ SetupOver
  \/ SubmitLogin \/ AuthReset \/ AuthOver \/ OpenSection \/ ClickLogout

LEMMA SetupSet ==
  ASSUME NEW s \in SetupType, NEW state \in {"idle", "loading", "error", "success", "saved"},
         NEW resets \in Nat, NEW asks \in Nat
  PROVE  LET t == [s EXCEPT !.state = state, !.resets = resets]
             u == [s EXCEPT !.state = state, !.asks = asks]
             v == [s EXCEPT !.state = state, !.asks = asks, !.done = TRUE]
         IN /\ t \in SetupType /\ t.done = s.done /\ t.asks = s.asks
            /\ u \in SetupType /\ v \in SetupType
  BY DEF SetupType

LEMMA PageStepsKeepPages ==
  ASSUME CallsInv, PageStep
  PROVE  PageOk'
<1>1. /\ url \in Server \cup {None} /\ page \in {"setup", "checking", "auth", "dashboard"}
      /\ setup \in SetupType /\ AddressKnown(url, page, setup) /\ SetupAlone(calls, page)
  BY DEF CallsInv, PageOk
<1>0. setup.resets \in Nat /\ setup.asks \in Nat
  BY <1>1 DEF SetupType
<1>2. CASE Elsewhere \/ OpenSection \/ AuthReset
  BY <1>1, <1>2 DEF Elsewhere, OpenSection, AuthReset, AuthChanges, screen, stored, PageOk
<1>3. CASE Tick
  <2>1. calls' = Command(calls, "refresh", "loop") /\ UNCHANGED <<url, page, setup>>
    BY <1>3 DEF Tick, screen, stored
  <2>2. SetupAlone(calls', page')
    BY <1>1, <2>1, CommandWhole DEF SetupAlone
  <2> QED BY <1>1, <2>1, <2>2 DEF PageOk
<1>4. CASE ClickLogout \/ SubmitLogin
  <2>1. page # "setup" /\ UNCHANGED <<url, page, setup>>
    BY <1>4 DEF ClickLogout, SubmitLogin, AuthChanges, screen, stored
  <2> QED BY <1>1, <2>1 DEF PageOk, SetupAlone
<1>5. CASE SetupOver \/ AuthOver
  <2>1. PICK cs, p : Show(cs, p) /\ UNCHANGED url
    BY <1>5 DEF SetupOver, AuthOver, stored
  <2>2. page' \in {"checking", "auth"} /\ url # None
    BY <1>1, <1>5, <2>1 DEF Show, SetupOver, AuthOver, AddressKnown
  <2>3. setup' \in SetupType
    BY <1>1, <1>5, NoSetupOk DEF SetupOver, AuthOver
  <2> QED BY <1>1, <2>1, <2>2, <2>3 DEF PageOk, AddressKnown, SetupAlone
<1>6. CASE SubmitAddress
  <2>1. UNCHANGED <<page, calls>> /\ page = "setup"
    BY <1>6 DEF SubmitAddress, SetupChanges
  <2>2. CASE setup' = [setup EXCEPT !.state = "error", !.resets = @ + 1] /\ UNCHANGED url
    <3> DEFINE resets == setup.resets + 1
    <3>1. resets \in Nat /\ setup' = [setup EXCEPT !.state = "error", !.resets = resets]
      BY <1>0, <2>2
    <3> HIDE DEF resets
    <3>2. setup' \in SetupType /\ setup'.done = setup.done /\ setup'.asks = setup.asks
      BY <1>1, <3>1, SetupSet
    <3> QED BY <1>1, <2>1, <2>2, <3>2 DEF PageOk, AddressKnown
  <2>3. CASE setup' = [setup EXCEPT !.state = "loading", !.asks = @ + 1] /\ url' \in Server
    <3> DEFINE asks == setup.asks + 1
    <3>1. asks \in Nat /\ setup' = [setup EXCEPT !.state = "loading", !.asks = asks]
      BY <1>0, <2>3
    <3> HIDE DEF asks
    <3>2. setup' \in SetupType
      BY <1>1, <3>1, SetupSet
    <3> QED BY <1>1, <2>1, <2>3, <3>2, NoServerAssumption DEF PageOk, AddressKnown
  <2> QED BY <1>6, <2>2, <2>3 DEF SubmitAddress, SetupChanges
<1>7. CASE HealthAnswered
  <2>1. /\ UNCHANGED <<url, page, calls>> /\ setup.asks > 0
        /\ \E state \in {"success", "saved"} :
             setup' = [setup EXCEPT !.state = state, !.asks = @ - 1, !.done = TRUE]
    BY <1>7 DEF HealthAnswered, SetupChanges
  <2>2. PICK state \in {"success", "saved"} :
          setup' = [setup EXCEPT !.state = state, !.asks = @ - 1, !.done = TRUE]
    BY <2>1
  <2> DEFINE asks == setup.asks - 1
  <2>3. asks \in Nat /\ setup' = [setup EXCEPT !.state = state, !.asks = asks, !.done = TRUE]
    BY <1>0, <2>1, <2>2
  <2> HIDE DEF asks
  <2>4. setup' \in SetupType
    BY <1>1, <2>3, SetupSet
  <2> QED BY <1>1, <2>1, <2>4 DEF PageOk, AddressKnown
<1>8. CASE SetupReset
  <2>1. /\ UNCHANGED <<url, page, calls>> /\ setup.resets > 0
        /\ setup' = [setup EXCEPT !.state = "idle", !.resets = @ - 1]
    BY <1>8 DEF SetupReset, SetupChanges
  <2>2. setup.resets - 1 \in Nat
    BY <1>0, <2>1
  <2>3. setup' \in SetupType /\ setup'.done = setup.done /\ setup'.asks = setup.asks
    BY <1>1, <2>1, <2>2, SetupSet
  <2> QED BY <1>1, <2>1, <2>3 DEF PageOk, AddressKnown
<1> QED BY <1>2, <1>3, <1>4, <1>5, <1>6, <1>7, <1>8 DEF PageStep

\* None of these steps issues a token.
LEMMA TokensStay ==
  ASSUME TokenInv,
         \/ UNCHANGED sleft
         \/ \E what \in {"acts", "others", "ticks", "restarts"} : Spare(what)
  PROVE  LeftOk(sleft') /\ sleft'["tokens"] = sleft["tokens"]
<1>1. LeftOk(sleft)
  BY DEF TokenInv
<1>2. ASSUME NEW what \in {"acts", "others", "ticks", "restarts"}, Spare(what)
      PROVE  LeftOk(sleft') /\ sleft'["tokens"] = sleft["tokens"]
  BY <1>1, <1>2, SpareLeaves
<1> QED BY <1>1, <1>2

LEMMA PageStepsKeepCalls ==
  ASSUME CallsInv, PageStep
  PROVE  CallsInv'
<1>1. SessionInv'
  BY QuietStepsKeepInv, AsksKeepInv, SetupOverKeepsInv, AuthOverKeepsInv, SubmitLoginKeepsInv,
     AuthResetKeepsInv, CommandsKeepInv DEF CallsInv, PageStep
<1>2. Carries(calls, calls') /\ RouteAsked(calls', page')
  BY PagesCarry DEF CallsInv, PageStep
<1>3. Numbered(calls')
  BY <1>2 DEF Carries
<1>4. UNCHANGED store /\ rows' \in SUBSET rows
  BY DEF PageStep, Elsewhere, Tick, SubmitAddress, HealthAnswered, SetupReset, SetupOver, SubmitLogin,
         AuthReset, AuthOver, OpenSection, ClickLogout, SetupChanges, AuthChanges, stored
<1>5. UNCHANGED sleft \/ \E what \in {"acts", "others", "ticks", "restarts"} : Spare(what)
  BY DEF PageStep, Elsewhere, Tick, SubmitAddress, HealthAnswered, SetupReset, SetupOver, SubmitLogin,
         AuthReset, AuthOver, OpenSection, ClickLogout
<1>6. LeftOk(sleft') /\ sleft'["tokens"] = sleft["tokens"]
  BY <1>5, TokensStay DEF CallsInv
<1>7. TokenInv'
  BY <1>2, <1>4, <1>6, CarriedTokens DEF CallsInv
<1> QED BY <1>1, <1>2, <1>3, <1>7, PageStepsKeepPages DEF CallsInv

LEMMA ReturnsKeepCalls ==
  ASSUME CallsInv, CheckReturns \/ LoginReturns \/ LogoutReturns
  PROVE  CallsInv'
<1>1. SessionInv'
  BY CheckReturnsKeepsInv, LoginReturnsKeepsInv, LogoutReturnsKeepsInv DEF CallsInv
<1>2. /\ UNCHANGED <<url, rows, sleft>> /\ LeftOk(sleft)
      /\ url \in Server \cup {None} /\ page \in {"setup", "checking", "auth", "dashboard"}
      /\ setup \in SetupType /\ AddressKnown(url, page, setup) /\ SetupAlone(calls, page)
  BY DEF CheckReturns, LoginReturns, LogoutReturns, AuthChanges, stored, CallsInv, PageOk, TokenInv
<1>3. CASE CheckReturns
  <2>1. PICK c \in calls :
          /\ c.kind = "check" /\ c.at \in {"somebody", "nobody"} /\ Carries(calls \ {c}, calls')
    BY <1>3, CheckReturnsCarries DEF CallsInv
  <2>2. RouteAsked(calls', page') /\ UNCHANGED <<store, setup>>
    BY <1>3, CheckReturnsCarries DEF CallsInv, CheckReturns, stored, screen
  <2>3. TokenInv'
    BY <1>2, <2>1, <2>2, CarriedTokens DEF CallsInv
  <2>4. \/ page' \in {"auth", "dashboard"} /\ page # "setup"
        \/ UNCHANGED page /\ calls' \subseteq calls
    <3>1. PICK b \in calls :
            /\ b.kind = "check"
            /\ IF b.here /\ b.who = "route"
               THEN page' \in {"auth", "dashboard"}
               ELSE calls' = calls \ {b} /\ UNCHANGED page
      BY <1>3 DEF CheckReturns, Show, screen
    <3>2. b.here /\ b.who = "route" => page = "checking"
      BY <3>1 DEF CallsInv, SessionInv, PageCalls, RouteHere
    <3> QED BY <3>1, <3>2
  <2>5. PageOk'
    BY <1>2, <2>2, <2>4 DEF PageOk, AddressKnown, SetupAlone
  <2> QED BY <1>1, <2>1, <2>2, <2>3, <2>5 DEF CallsInv, Carries
<1>4. CASE LoginReturns
  <2>1. PICK c \in calls :
          /\ c.kind = "login" /\ calls' = calls \ {c}
          /\ store' = store \/ (c.at = "granted" /\ store' = c.new)
    BY <1>4 DEF LoginReturns
  <2>2. UNCHANGED <<page, setup>>
    BY <1>4 DEF LoginReturns, AuthChanges, screen
  <2>3. Carries(calls \ {c}, calls') /\ RouteAsked(calls', page')
    BY <2>1, <2>2, OverCarries DEF CallsInv, RouteHere
  <2>4. TokenInv'
    BY <1>2, <2>1, <2>3, CarriedTokens DEF CallsInv
  <2>5. PageOk'
    BY <1>2, <2>1, <2>2 DEF PageOk, AddressKnown, SetupAlone
  <2> QED BY <1>1, <2>3, <2>4, <2>5 DEF CallsInv, Carries
<1>5. CASE LogoutReturns
  <2>1. PICK c \in calls : Carries(calls \ {c}, calls')
    BY <1>5, LogoutReturnsCarries DEF CallsInv
  <2>2. RouteAsked(calls', page') /\ store' = 0 /\ UNCHANGED setup
    BY <1>5, LogoutReturnsCarries DEF CallsInv, LogoutReturns, screen
  <2>3. TokenInv'
    BY <1>2, <2>1, <2>2, CarriedTokens DEF CallsInv
  <2>4. PICK b \in calls :
          /\ b.kind = "logout"
          /\ \/ page' = "auth" /\ b.window
             \/ calls' = calls \ {b} /\ UNCHANGED page
    BY <1>5 DEF LogoutReturns, Show, screen
  <2>5. PageOk'
    BY <1>2, <2>2, <2>4 DEF PageOk, AddressKnown, SetupAlone
  <2> QED BY <1>1, <2>1, <2>2, <2>3, <2>5 DEF CallsInv, Carries
<1> QED BY <1>3, <1>4, <1>5

LEMMA LeavesKeepCalls ==
  ASSUME CallsInv, ChangeServer \/ Restart
  PROVE  CallsInv'
<1>1. SessionInv'
  BY ChangeServerKeepsCalls, RestartKeepsInv DEF CallsInv
<1>2. UNCHANGED <<store, rows>>
  BY DEF ChangeServer, Restart, stored
<1>3. LeftOk(sleft') /\ sleft'["tokens"] = sleft["tokens"]
  <2>1. Spare("acts") \/ Spare("restarts")
    BY DEF ChangeServer, Restart
  <2> QED BY <2>1, TokensStay DEF CallsInv
<1>4. setup' \in SetupType /\ ~setup'.done /\ ~(setup'.asks > 0)
  BY NoSetupOk DEF ChangeServer, Restart
<1>5. PICK cs \in SUBSET calls : Carries(cs, calls') /\ RouteAsked(calls', page')
  <2>1. CASE ChangeServer
    BY <2>1, PagesCarry DEF CallsInv
  <2>2. CASE Restart
    BY <2>2, RestartCarries
  <2> QED BY <2>1, <2>2
<1>6. TokenInv'
  BY <1>2, <1>3, <1>5, CarriedTokens DEF CallsInv
<1>7. PageOk'
  <2>1. CASE ChangeServer
    <3>1. \A c \in calls : Whole(c)
      BY DEF CallsInv, SessionInv, PageCalls
    <3>2. \A c \in calls : [c EXCEPT !.here = FALSE, !.window = FALSE].window = FALSE
      BY <3>1 DEF Whole
    <3>3. \A d \in calls' : d.window = FALSE
      BY <2>1, <3>2 DEF ChangeServer, Closed
    <3>4. page' = "setup" /\ url' = None
      BY <2>1 DEF ChangeServer, LoadsAnew
    <3> QED BY <1>4, <3>3, <3>4 DEF PageOk, AddressKnown, SetupAlone
  <2>2. CASE Restart
    <3>1. UNCHANGED url /\ url \in Server \cup {None}
      BY <2>2 DEF Restart, stored, CallsInv, PageOk
    <3>2. CASE url = None
      <4>1. page' = "setup" /\ calls' = Command({}, "refresh", "loop")
        BY <2>2, <3>2 DEF Restart
      <4>2. SetupAlone(calls', page')
        BY <4>1, CommandWhole DEF SetupAlone
      <4> QED BY <1>4, <3>1, <4>1, <4>2 DEF PageOk, AddressKnown
    <3>3. CASE url # None
      <4>1. page' = "checking"
        BY <2>2, <3>3 DEF Restart, Show
      <4> QED BY <1>4, <3>1, <3>3, <4>1 DEF PageOk, AddressKnown, SetupAlone
    <3> QED BY <3>2, <3>3
  <2> QED BY <2>1, <2>2
<1> QED BY <1>1, <1>5, <1>6, <1>7 DEF CallsInv, Carries

LEMMA StepsKeepCalls ==
  ASSUME CallsInv, Stays \/ ChangeServer \/ Restart
  PROVE  CallsInv'
  BY CommandsKeepCalls, PageStepsKeepCalls, ReturnsKeepCalls, LeavesKeepCalls
     DEF Stays, CommandNext, PageStep

LEMMA InitHasCalls ==
  ASSUME SessionInit
  PROVE  CallsInv
<1> DEFINE cs == Command({}, "refresh", "loop")
           a == Asked({}, "refresh", "loop")
           ds == Command(cs, "check", "route")
<1>1. PICK s \in Starts :
        /\ url = s.url /\ store = s.store /\ rows = s.rows /\ sleft = s.left
        /\ page = IF url = None THEN "setup" ELSE IF s.open THEN "dashboard" ELSE "checking"
        /\ calls = CASE s.open -> {} [] url = None -> cs [] OTHER -> ds
  BY DEF SessionInit
<1>2. SessionInv
  BY SessionInitHasInv
<1>3. Carries({}, {}) /\ HasNumber({}) /\ cs = {a} /\ a.kind = "refresh"
  BY SessionBounds, CommandWhole DEF Carries, Numbered, HasNumber
<1>4. Carries({}, cs)
  BY <1>3, CommandCarries
<1> HIDE DEF a
<1>5. HasNumber(cs)
  <2>1. 1 \in 1..MaxCalls /\ 2 \in 1..MaxCalls
    BY SessionBounds
  <2> HIDE DEF cs
  <2> QED BY <1>3, <2>1 DEF HasNumber
<1>6. /\ Carries({}, ds)
      /\ \E d \in ds : New(d) /\ d.kind = "check" /\ d.who = "route" /\ d.here
  BY <1>4, <1>5, CommandCarries
<1> HIDE DEF cs, ds
<1>7. s.open => url # None
  BY <1>1, StartsAssumption
<1>8. \/ calls = {} /\ page = "dashboard"
      \/ calls = cs /\ page = "setup"
      \/ calls = ds /\ page = "checking"
  BY <1>1, <1>7
<1>9. Carries({}, calls) /\ RouteAsked(calls, page) /\ SetupAlone(calls, page)
  BY <1>3, <1>4, <1>6, <1>8 DEF RouteAsked, RouteHere, SetupAlone
<1>10. PageOk
  <2>1. page # "setup" => url # None
    BY <1>1, <1>7
  <2>2. setup \in SetupType /\ ~setup.done /\ ~(setup.asks > 0)
    BY NoSetupOk DEF SessionInit
  <2>3. url \in Server \cup {None}
    BY <1>1, StartsAssumption
  <2> QED BY <1>8, <1>9, <2>1, <2>2, <2>3 DEF PageOk, AddressKnown
<1>11. LeftOk(sleft)
  BY <1>1, StartsAssumption DEF LeftOk
<1> DEFINE n == sleft["tokens"]
<1>12. n \in Nat /\ RowsOk(rows, n)
  <2>1. /\ rows \subseteq [token : 1..MaxTokens, server : Server, line : 1..MaxTokens]
        /\ \A r \in rows : sleft.tokens < r.token /\ sleft.tokens < r.line
    BY <1>1, StartsAssumption
  <2>2. \A q, r \in rows : q.token = r.token \/ q.line = r.line => q = r
    BY <1>1, StartsAssumption
  <2> QED BY <1>11, <2>1, <2>2 DEF RowsOk, RowOk, LeftOk
<1>13. Given(store, n)
  <2>1. store \in 0..MaxTokens /\ (store # 0 => \E r \in rows : r.token = store)
    BY <1>1, StartsAssumption
  <2> QED BY <1>12, <2>1 DEF Given, RowsOk, RowOk
<1>14. TokensOk(calls, store, rows, n)
  <2>1. \A d \in calls : New(d)
    BY <1>9 DEF Carries
  <2>2. \A d \in calls : CallOk(d, n) /\ d.at # "granted"
    BY <2>1, SessionBounds DEF New, CallOk, StageOk, Given
  <2> QED BY <1>12, <1>13, <2>2 DEF TokensOk, NewAlone
<1> QED BY <1>2, <1>9, <1>10, <1>11, <1>14 DEF CallsInv, TokenInv, Carries

LEMMA CallsHaveTypes ==
  ASSUME CallsInv
  PROVE  SessionTypeOK
<1>1. /\ url \in Server \cup {None} /\ page \in {"setup", "checking", "auth", "dashboard"}
      /\ page # "setup" => url # None
  BY DEF CallsInv, PageOk, AddressKnown
<1>2. store \in 0..MaxTokens /\ \A q, r \in rows : q.token = r.token \/ q.line = r.line => q = r
  BY DEF CallsInv, TokenInv, TokensOk, Given, RowsOk
<1>3. \A c, d \in calls : c.no = d.no => c = d
  BY DEF CallsInv, Numbered
<1>4. page = "checking" <=> \E c \in calls : RouteHere(c)
  BY DEF CallsInv, RouteAsked, SessionInv, PageCalls
<1> QED BY <1>1, <1>2, <1>3, <1>4 DEF SessionTypeOK, RouteHere

-----------------------------------------------------------------------------
(* The stored session is known to its server, or a command under way has    *)
(* taken it away and will store another, or tell that it is gone.           *)

Known(s, u, rs) == \E r \in rs : r.token = s /\ r.server = u

Renews(c, s) ==
  c.kind \in {"refresh", "check"} /\ c.at \in {"deleted", "granted"} /\ c.token = s
FindsOut(c, s) ==
  c.kind = "refresh" /\ (c.at \in {"asked", "refused"} \/ (c.at = "refresh" /\ c.token = s))
Tells(c, s) == Renews(c, s) \/ FindsOut(c, s) \/ c.kind = "logout"

\* What a refresh works on is still so.
CallLive(c, u, rs) ==
  c.kind \in {"refresh", "check"} =>
    /\ c.at # "lost"
    /\ c.at \in {"refresh", "touched", "deleted"} => c.server = u
    /\ c.at = "touched" => \A r \in rs : r.line = c.line => r.token = c.token /\ r.server = c.server
    /\ c.at = "deleted" => \A r \in rs : r.line # c.line
    /\ c.at = "granted" => \E r \in rs : r.token = c.new /\ r.server = u

\* One refresh at a time replaces a row.
Replaces(c) == c.at \in {"touched", "deleted"}
LinesApart(cs) == \A c, d \in cs : Replaces(c) /\ Replaces(d) /\ c.line = d.line => c = d

Live(cs, s, u, rs) ==
  /\ s # 0 => u # None /\ (Known(s, u, rs) \/ \E c \in cs : Tells(c, s))
  /\ \A c \in cs : CallLive(c, u, rs)
  /\ LinesApart(cs)

LiveInv == ~amiss => Live(calls, store, url, rows)

LEMMA TurnsLive ==
  ASSUME LinesApart(calls), NEW c \in calls, NEW d, Becomes(c, d), NEW s, NEW rs,
         CallLive(d, url, rs), \A e \in calls \ {c} : CallLive(e, url, rs),
         Replaces(d) => \A e \in calls \ {c} : Replaces(e) => e.line # d.line,
         s # 0 => url # None /\ \/ Known(s, url, rs) \/ Tells(d, s)
                                \/ \E e \in calls \ {c} : Tells(e, s)
  PROVE  Live(calls', s, url, rs)
<1>1. calls' = (calls \ {c}) \cup {d}
  BY DEF Becomes
<1>2. LinesApart(calls')
  BY <1>1 DEF LinesApart
<1> QED BY <1>1, <1>2 DEF Live

LEMMA BeginLives ==
  ASSUME CallsInv, LiveInv, Begin
  PROVE  LiveInv'
<1>1. UNCHANGED <<store, url, rows, amiss>>
  BY DEF Begin, stored
<1>2. \A c \in calls : Whole(c) /\ StageOk(c)
  BY DEF CallsInv, SessionInv, PageCalls, TokenInv, TokensOk, CallOk
<1>a. PICK c \in calls : \E d : Begun(c, d)
  BY <1>2, BeginTurns
<1>3. PICK d : Begun(c, d)
  BY <1>a
<1>4. Becomes(c, d) /\ d.kind = c.kind
  BY <1>3 DEF Begun, Turns, Same
<1>5. SUFFICES ASSUME ~amiss, Live(calls, store, url, rows)
               PROVE  Live(calls', store, url, rows)
  BY <1>1 DEF LiveInv
<1>6. CallLive(d, url, rows) /\ ~Replaces(d)
  BY <1>3 DEF Begun, CallLive, Replaces
<1>7. store # 0 /\ Tells(c, store) => Tells(d, store)
  BY <1>3, <1>4, <1>5 DEF Begun, Live, Tells, Renews, FindsOut
<1> QED BY <1>4, <1>5, <1>6, <1>7, TurnsLive DEF Live

LEMMA ServedLives ==
  ASSUME CallsInv, LiveInv, Served
  PROVE  LiveInv'
<1> DEFINE n == sleft["tokens"]
<1>1. UNCHANGED <<store, url>>
  BY DEF Served, stored
<1>2. \A c \in calls : Whole(c) /\ StageOk(c) /\ CallOk(c, n)
  BY DEF CallsInv, SessionInv, PageCalls, TokenInv, TokensOk, CallOk
<1>3. RowsOk(rows, n) /\ NewAlone(calls, store) /\ n \in Nat
  BY DEF CallsInv, TokenInv, TokensOk, LeftOk
<1>a. PICK c \in calls :
        \E d : Turns(c, d) /\ (Hears(c, d) \/ Finds(c, d) \/ Removes(c, d) \/ Issues(c, d))
  BY <1>2, ServedTurns
<1>4. PICK d : Turns(c, d) /\ (Hears(c, d) \/ Finds(c, d) \/ Removes(c, d) \/ Issues(c, d))
  BY <1>a
<1>5. Becomes(c, d) /\ d.kind = c.kind /\ StageOk(c)
  BY <1>2, <1>4 DEF Turns, Same
<1>6. SUFFICES ASSUME ~amiss' PROVE Live(calls', store, url, rows')
  BY <1>1 DEF LiveInv
<1>7. ~amiss
  BY <1>4, <1>6 DEF Hears, Finds, Removes, Issues
<1>8. Live(calls, store, url, rows) /\ LinesApart(calls) /\ \A e \in calls : CallLive(e, url, rows)
  BY <1>7 DEF LiveInv, Live
<1>9. CASE Hears(c, d)
  <2>1. d.at \in {"valid", "invalid", "refused", "denied"} /\ UNCHANGED rows
    BY <1>9 DEF Hears
  <2>2. ~(c.at = "deleted")
    BY <1>5, <1>8, <1>9 DEF Hears, CallLive, StageOk
  <2>3. Tells(c, store) => Tells(d, store)
    BY <1>5, <1>9, <2>2 DEF Hears, Keeps, Tells, Renews, FindsOut, StageOk
  <2>4. CallLive(d, url, rows') /\ ~Replaces(d)
    BY <2>1 DEF CallLive, Replaces
  <2> QED BY <1>5, <1>8, <2>1, <2>3, <2>4, TurnsLive DEF Live
<1>10. CASE Finds(c, d)
  <2>1. PICK r \in rows : /\ r.token = c.token /\ r.server = c.server /\ d.line = r.line
                         /\ UNCHANGED rows
    BY <1>10 DEF Finds, Row
  <2>2. /\ c.at = "refresh" /\ d.at = "touched" /\ d.token = c.token /\ d.server = c.server
        /\ ~Overlaps(c)
    BY <1>6, <1>10 DEF Finds
  <2>3. c.kind \in {"refresh", "check"} /\ c.server = url
    BY <1>5, <1>8, <2>2 DEF StageOk, CallLive
  <2>4. CallLive(d, url, rows')
    BY <1>3, <1>5, <2>1, <2>2, <2>3 DEF CallLive, RowsOk
  <2>5. ASSUME NEW e \in calls \ {c}, Replaces(e)
        PROVE  e.line # d.line
    <3>1. e.kind \in {"refresh", "check"} /\ e.token # c.token
      BY <1>2, <2>2, <2>5 DEF StageOk, Replaces, Overlaps
    <3> QED BY <1>8, <2>1, <2>5, <3>1 DEF CallLive, Replaces
  <2>6. Tells(c, store) => Known(store, url, rows')
    BY <1>5, <2>1, <2>2, <2>3 DEF Tells, Renews, FindsOut, Known, StageOk
  <2> QED BY <1>5, <1>8, <2>1, <2>4, <2>5, <2>6, TurnsLive DEF Live
<1>11. CASE Removes(c, d)
  <2>1. /\ rows' = rows \ Row(c) /\ d.token = c.token /\ d.new = c.new /\ d.line = c.line
        /\ d.server = c.server
        /\ (c.at = "touched" /\ d.at = "deleted") \/ (c.at = "out" /\ d.at = "left")
    BY <1>11 DEF Removes, Keeps
  <2>2. \A e \in calls \ {c} : CallLive(e, url, rows')
    <3> SUFFICES ASSUME NEW e \in calls \ {c} PROVE CallLive(e, url, rows')
      OBVIOUS
    <3>1. e.at = "granted" => e.new # c.token
      BY <1>3 DEF NewAlone, Alone
    <3>2. e.at = "granted" => \A r \in Row(c) : r.token # e.new
      BY <3>1 DEF Row
    <3> QED BY <1>8, <2>1, <3>2 DEF CallLive
  <2>3. CallLive(d, url, rows')
    BY <1>5, <1>8, <2>1 DEF CallLive, Row, StageOk
  <2>4. Replaces(d) => Replaces(c)
    BY <2>1 DEF Replaces
  <2>5. Known(store, url, rows) => Known(store, url, rows') \/ Tells(d, store)
    <3>1. d.kind = "logout" \/ d.kind \in {"refresh", "check"}
      BY <1>5, <2>1 DEF StageOk
    <3> QED BY <2>1, <3>1, <1>5 DEF Known, Row, Tells, Renews, StageOk
  <2>6. Tells(c, store) => Tells(d, store)
    BY <1>5, <2>1 DEF Tells, Renews, FindsOut, StageOk
  <2> QED BY <1>5, <1>8, <2>1, <2>2, <2>3, <2>4, <2>5, <2>6, TurnsLive DEF Live, LinesApart
<1>12. CASE Issues(c, d)
  <2>1. /\ d.at = "granted" /\ d.new = n /\ d.token = c.token /\ d.server = c.server
        /\ c.at \in {"deleted", "login"}
    BY <1>12 DEF Issues
  <2>2. PICK line : /\ rows' = rows \cup {NewRow(c, line)}
                    /\ (c.at = "deleted" /\ line = c.line) \/ (c.at = "login" /\ line = n)
    BY <1>12 DEF Issues
  <2> DEFINE q == NewRow(c, line)
  <2>3. rows' = rows \cup {q} /\ q.token = n /\ q.server = c.server /\ q.line = line
    BY <2>2 DEF NewRow
  <2> HIDE DEF q
  <2>4. \A e \in calls \ {c} : Replaces(e) => e.line # line
    BY <1>2, <1>3, <1>8, <2>2 DEF LinesApart, Replaces, CallOk
  <2>5. \A e \in calls \ {c} : CallLive(e, url, rows')
    BY <1>8, <2>3, <2>4 DEF CallLive, Replaces
  <2>6. CallLive(d, url, rows') /\ ~Replaces(d)
    BY <1>5, <1>8, <2>1, <2>2, <2>3 DEF CallLive, Replaces, StageOk
  <2>7. Known(store, url, rows) => Known(store, url, rows')
    BY <2>3 DEF Known
  <2>8. Tells(c, store) => Tells(d, store)
    BY <1>5, <2>1 DEF Tells, Renews, FindsOut, StageOk
  <2> QED BY <1>5, <1>8, <2>5, <2>6, <2>7, <2>8, TurnsLive DEF Live
<1> QED BY <1>4, <1>9, <1>10, <1>11, <1>12

LEMMA ContinueLives ==
  ASSUME CallsInv, LiveInv, Continue
  PROVE  LiveInv'
<1>1. UNCHANGED <<url, rows, amiss>>
  BY DEF Continue
<1>2. \A c \in calls : Whole(c)
  BY DEF CallsInv, SessionInv, PageCalls
<1>3. SUFFICES ASSUME ~amiss PROVE Live(calls', store', url, rows)
  BY <1>1 DEF LiveInv
<1>4. Live(calls, store, url, rows) /\ LinesApart(calls) /\ \A e \in calls : CallLive(e, url, rows)
  BY <1>3 DEF LiveInv, Live
<1>5. PICK c \in calls : CheckAnswered(c) \/ RefreshAnswered(c)
  BY DEF Continue
<1>6. \A r \in rows : r.server # None
  BY NoServerAssumption DEF CallsInv, TokenInv, TokensOk, RowsOk, RowOk
<1>7. c.kind \in {"refresh", "check"} /\ c.at = "granted" => url # None /\ Known(c.new, url, rows)
  BY <1>4, <1>6 DEF CallLive, Known
<1>8. CASE CheckAnswered(c)
  <2>1. PICK d : /\ Turns(c, d) /\ c.kind = "check"
                 /\ \/ Lets(c, d) \/ Retries(c, d) \/ AsksAnew(c, d) \/ Stores(c, d)
                    \/ GivesUp(c, d)
    BY <1>2, <1>8, CheckTurns
  <2>2. Becomes(c, d)
    BY <2>1 DEF Turns
  <2>3. CallLive(d, url, rows) /\ ~Replaces(d)
    BY <2>1 DEF CallLive, Replaces, Lets, Retries, AsksAnew, Stores, GivesUp
  <2>4. (store' = store /\ ~Tells(c, store)) \/ store' = 0 \/ (c.at = "granted" /\ store' = c.new)
    BY <2>1 DEF Lets, Retries, AsksAnew, Stores, GivesUp, Tells, Renews, FindsOut
  <2>5. CASE store' = store /\ ~Tells(c, store)
    BY <1>4, <2>2, <2>3, <2>5, TurnsLive DEF Live
  <2>6. CASE store' = 0 \/ (c.at = "granted" /\ store' = c.new)
    <3>1. store' # 0 => url # None /\ Known(store', url, rows)
      BY <1>7, <2>1, <2>6
    <3> QED BY <1>4, <2>2, <2>3, <3>1, TurnsLive
  <2> QED BY <2>4, <2>5, <2>6
<1>9. CASE RefreshAnswered(c)
  <2>1. calls' = calls \ {c} /\ c.kind = "refresh"
    BY <1>9 DEF RefreshAnswered
  <2>2. (\A e \in calls' : CallLive(e, url, rows)) /\ LinesApart(calls')
    BY <1>4, <2>1 DEF LinesApart
  <2>3. \/ store' = 0
        \/ c.at = "granted" /\ store' = c.new
        \/ c.at = "end" /\ store' = store
    BY <1>4, <1>9 DEF RefreshAnswered, CallLive, Saved
  <2>4. store' # 0 => url # None /\ (Known(store', url, rows) \/ \E e \in calls' : Tells(e, store'))
    <3>1. CASE c.at = "end" /\ store' = store
      BY <1>4, <2>1, <3>1 DEF Live, Tells, Renews, FindsOut
    <3> QED BY <1>7, <2>1, <2>3, <3>1
  <2> QED BY <2>2, <2>4 DEF Live
<1> QED BY <1>5, <1>8, <1>9

\* Calls that are carried on, those that are over set aside.
LEMMA CarriedLives ==
  ASSUME CallsInv, NEW cs \in SUBSET calls, Carries(cs, calls'), Live(calls, store, url, rows),
         store = 0 \/ Known(store, url, rows) \/ (\E c \in calls' : FindsOut(c, store))
           \/ \A c \in calls \ cs : ~Tells(c, store)
  PROVE  Live(calls', store, url, rows)
<1>1. \A d \in calls' : New(d) => CallLive(d, url, rows) /\ ~Replaces(d)
  BY DEF New, CallLive, Replaces
<1>2. \A c \in cs : \A d \in calls' : Like(c, d) => CallLive(d, url, rows)
  BY DEF Live, Like, CallLive
<1>3. \A d \in calls' : CallLive(d, url, rows)
  BY <1>1, <1>2 DEF Carries
<1>4. LinesApart(calls')
  <2>1. SUFFICES ASSUME NEW d \in calls', NEW e \in calls', Replaces(d), Replaces(e), d.line = e.line
                 PROVE  d = e
    BY DEF LinesApart
  <2>2. PICK b \in cs, c \in cs : Like(b, d) /\ Like(c, e)
    BY <1>1, <2>1 DEF Carries
  <2>3. b = c
    BY <2>1, <2>2 DEF Live, LinesApart, Replaces, Like
  <2>4. d.no = e.no
    BY <2>2, <2>3 DEF Like
  <2> QED BY <2>4 DEF Carries, Numbered
<1>5. \A c \in cs : Tells(c, store) => \E d \in calls' : Tells(d, store)
  <2>1. \A c, d : Like(c, d) /\ Tells(c, store) => Tells(d, store)
    BY DEF Like, Tells, Renews, FindsOut
  <2> QED BY <2>1 DEF Carries
<1>6. store # 0 => Known(store, url, rows) \/ \E d \in calls' : Tells(d, store)
  BY <1>5 DEF Live, Tells
<1> QED BY <1>3, <1>4, <1>6 DEF Live

LEMMA PageStepsLive ==
  ASSUME CallsInv, LiveInv, PageStep \/ ChangeServer \/ Restart
  PROVE  LiveInv'
<1>1. SUFFICES ASSUME ~amiss' PROVE Live(calls', store', url', rows')
  BY DEF LiveInv
<1>2. UNCHANGED <<store, url, rows>> /\ ~amiss /\ ~ChangeServer
  <2>1. ~ChangeServer
    BY <1>1 DEF ChangeServer
  <2>2. CASE Elsewhere
    BY <1>1, <2>1, <2>2 DEF Elsewhere, stored
  <2>3. CASE SubmitAddress
    <3>1. UNCHANGED <<store, rows>>
      BY <2>3 DEF SubmitAddress, SetupChanges
    <3>2. CASE UNCHANGED <<url, amiss>>
      BY <1>1, <2>1, <3>1, <3>2
    <3>3. CASE \E s \in Server : url' = s /\ amiss' = (amiss \/ s # url)
      <4>1. PICK s \in Server : url' = s /\ amiss' = (amiss \/ s # url)
        BY <3>3
      <4>2. ~(amiss \/ s # url)
        BY <1>1, <4>1
      <4> QED BY <2>1, <3>1, <4>1, <4>2
    <3> QED BY <2>3, <3>2, <3>3 DEF SubmitAddress
  <2>4. CASE HealthAnswered \/ SetupReset \/ SubmitLogin \/ AuthReset
    BY <1>1, <2>1, <2>4
       DEF HealthAnswered, SetupReset, SubmitLogin, AuthReset, SetupChanges, AuthChanges
  <2>5. CASE Tick \/ SetupOver \/ AuthOver \/ OpenSection \/ ClickLogout
    BY <1>1, <2>1, <2>5 DEF Tick, SetupOver, AuthOver, OpenSection, ClickLogout, stored
  <2>6. CASE Restart
    <3>1. UNCHANGED <<store, url, rows>>
      BY <2>6 DEF Restart, stored
    <3>2. amiss' = (amiss \/ \E c \in calls : c.at \in OnTheWire)
      BY <2>6 DEF Restart
    <3>3. ~amiss
      BY <1>1, <3>2
    <3> QED BY <2>1, <3>1, <3>3
  <2> QED BY <2>1, <2>2, <2>3, <2>4, <2>5, <2>6 DEF PageStep
<1>3. Live(calls, store, url, rows)
  BY <1>2 DEF LiveInv
<1>4. CASE PageStep
  <2>1. Carries(calls, calls')
    BY <1>4, PagesCarry DEF CallsInv, PageStep
  <2>2. Live(calls', store, url, rows)
    BY <1>3, <2>1, CarriedLives
  <2> QED BY <1>2, <2>2
<1>5. CASE Restart
  <2>1. Carries({}, calls') /\ \E c \in calls' : New(c) /\ c.kind = "refresh"
    BY <1>5, RestartCarries
  <2>2. \E c \in calls' : FindsOut(c, store)
    BY <2>1 DEF New, FindsOut
  <2>3. Live(calls', store, url, rows)
    BY <1>3, <2>1, <2>2, CarriedLives
  <2> QED BY <1>2, <2>3
<1> QED BY <1>2, <1>4, <1>5

LEMMA ReturnsLive ==
  ASSUME CallsInv, LiveInv, CheckReturns \/ LoginReturns \/ LogoutReturns
  PROVE  LiveInv'
<1>1. UNCHANGED <<url, rows>>
  BY DEF CheckReturns, LoginReturns, LogoutReturns, AuthChanges, stored
<1>2. SUFFICES ASSUME ~amiss' PROVE Live(calls', store', url, rows)
  BY <1>1 DEF LiveInv
<1>3. \A c \in calls : StageOk(c)
  BY DEF CallsInv, TokenInv, TokensOk, CallOk
<1>4. CASE CheckReturns
  <2>1. UNCHANGED store /\ Live(calls, store, url, rows)
    BY <1>2, <1>4 DEF CheckReturns, stored, LiveInv
  <2>2. PICK c \in calls :
          /\ c.kind = "check" /\ c.at \in {"somebody", "nobody"} /\ Carries(calls \ {c}, calls')
    BY <1>4, CheckReturnsCarries DEF CallsInv
  <2>3. \A e \in calls \ (calls \ {c}) : ~Tells(e, store)
    BY <2>2 DEF Tells, Renews, FindsOut
  <2>4. Live(calls', store, url, rows)
    BY <2>1, <2>2, <2>3, CarriedLives
  <2> QED BY <2>1, <2>4
<1>5. CASE LogoutReturns
  <2>1. PICK c \in calls :
          /\ Carries(calls \ {c}, calls') /\ \A d \in calls' : \E b \in calls \ {c} : Like(b, d)
          /\ \A d \in calls \ {c} : d.kind \notin {"refresh", "check"}
    BY <1>2, <1>5, LogoutReturnsCarries DEF CallsInv
  <2>2. store' = 0
    BY <1>5 DEF LogoutReturns
  <2>3. \A d \in calls' : d.kind \notin {"refresh", "check"} /\ ~Replaces(d)
    BY <1>3, <2>1 DEF Like, Replaces, StageOk
  <2> QED BY <2>2, <2>3 DEF Live, CallLive, LinesApart
<1>6. CASE LoginReturns
  <2>1. PICK c \in calls :
          /\ c.kind = "login" /\ calls' = calls \ {c}
          /\ \/ c.at = "granted" /\ store' = c.new /\ (\A d \in calls \ {c} : d.kind = "login")
                /\ \E r \in rows : r.token = c.new /\ r.server = url
             \/ UNCHANGED store /\ ~amiss
    <3>1. PICK c \in calls :
            /\ c.kind = "login" /\ calls' = calls \ {c}
            /\ store' = IF c.at = "granted" THEN c.new ELSE store
            /\ amiss' = IF c.at = "granted" THEN \/ \E d \in calls \ {c} : d.kind # "login"
                           \/ ~\E r \in rows : r.token = c.new /\ r.server = url
                        ELSE amiss
      BY <1>6 DEF LoginReturns
    <3> QED BY <1>2, <3>1
  <2>2. CASE UNCHANGED store /\ ~amiss
    <3>1. Carries(calls \ {c}, calls') /\ Live(calls, store, url, rows)
      BY <2>1, <2>2, SubsetCarries DEF CallsInv, LiveInv
    <3>2. \A e \in calls \ (calls \ {c}) : ~Tells(e, store)
      BY <2>1 DEF Tells, Renews, FindsOut
    <3>3. Live(calls', store, url, rows)
      BY <3>1, <3>2, CarriedLives
    <3> QED BY <2>2, <3>3
  <2>3. CASE /\ store' = c.new /\ (\A d \in calls \ {c} : d.kind = "login")
             /\ \E r \in rows : r.token = c.new /\ r.server = url
    <3>1. Known(store', url, rows) /\ url # None
      BY <2>3, NoServerAssumption DEF Known, CallsInv, TokenInv, TokensOk, RowsOk, RowOk
    <3>2. \A d \in calls' : d.kind = "login" /\ ~Replaces(d)
      BY <1>3, <2>1, <2>3 DEF Replaces, StageOk
    <3> QED BY <3>1, <3>2 DEF Live, CallLive, LinesApart
  <2> QED BY <2>1, <2>2, <2>3
<1> QED BY <1>4, <1>5, <1>6

LEMMA StepsKeepLive ==
  ASSUME CallsInv, LiveInv, Stays \/ ChangeServer \/ Restart
  PROVE  LiveInv'
<1>1. CASE Fails
  BY <1>1 DEF Fails, LiveInv
<1> QED
  BY <1>1, BeginLives, ServedLives, ContinueLives, PageStepsLive, ReturnsLive
     DEF Stays, CommandNext, PageStep

LEMMA InitLives ==
  ASSUME SessionInit
  PROVE  LiveInv
<1>1. CallsInv /\ ~amiss
  BY InitHasCalls DEF SessionInit
<1>2. store # 0 => url # None /\ Known(store, url, rows)
  <2>1. PICK s \in Starts : url = s.url /\ store = s.store /\ rows = s.rows
    BY DEF SessionInit
  <2>2. store # 0 => Known(store, url, rows)
    BY <2>1, StartsAssumption DEF Known
  <2>3. \A r \in rows : r.server # None
    BY <1>1, NoServerAssumption DEF CallsInv, TokenInv, TokensOk, RowsOk, RowOk
  <2> QED BY <2>2, <2>3 DEF Known
<1>3. \A c \in calls : c.at = "asked"
  <2> DEFINE cs == Command({}, "refresh", "loop")
             a == Asked({}, "refresh", "loop")
             b == Asked(cs, "check", "route")
             ds == Command(cs, "check", "route")
  <2>1. calls = {} \/ calls = cs \/ calls = ds
    BY DEF SessionInit
  <2>2. cs = {a} /\ ds = cs \cup {b}
    BY CommandWhole
  <2>3. a.at = "asked" /\ b.at = "asked"
    BY DEF Asked
  <2> HIDE DEF a, b, cs, ds
  <2> QED BY <2>1, <2>2, <2>3
<1>4. (\A c \in calls : CallLive(c, url, rows)) /\ LinesApart(calls)
  BY <1>3 DEF CallLive, LinesApart, Replaces
<1> QED BY <1>2, <1>4 DEF LiveInv, Live

LEMMA LiveIsStoredLive ==
  ASSUME LiveInv
  PROVE  StoredIsLive
  BY DEF LiveInv, Live, Known, StoredIsLive

-----------------------------------------------------------------------------
\* The sessions keep their shape through every answer, page and restart: one
\* row for each token and each device, calls told apart by their numbers, no
\* page without a server but the first, and the page of the start exactly as
\* long as its check is under way (auth.rs, ProtectedRoute.tsx).
THEOREM SessionTypeCorrect ==
  SessionSpec => []SessionTypeOK
<1>1. SessionInit => CallsInv
  BY InitHasCalls
<1>2. CallsInv /\ [SessionNext]_svars => CallsInv'
  <2>1. CallsInv /\ UNCHANGED svars => CallsInv'
    BY DEF svars, screen, CallsInv, SessionInv, TokenInv, PageOk
  <2> QED BY <2>1, StepsKeepCalls DEF SessionNext
<1>3. CallsInv => SessionTypeOK
  BY CallsHaveTypes
<1> QED BY <1>1, <1>2, <1>3, PTL DEF SessionSpec

\* When no command is under way the stored session is one its server knows,
\* whatever order the statements of a refresh, the checks and the pages took: a
\* renewed token is saved, a refused one dropped (auth.rs on both sides).  It says
\* nothing of the time from one of these to the next login: a request that failed
\* or whose answer was lost, a row taken away elsewhere, two commands that refresh
\* one session at once, a change to another server.
THEOREM StoredSessionIsLive ==
  SessionSpec => []StoredIsLive
<1>1. SessionInit => CallsInv /\ LiveInv
  BY InitHasCalls, InitLives
<1>2. CallsInv /\ LiveInv /\ [SessionNext]_svars => (CallsInv /\ LiveInv)'
  <2>1. CallsInv /\ LiveInv /\ UNCHANGED svars => (CallsInv /\ LiveInv)'
    BY DEF svars, screen, CallsInv, SessionInv, TokenInv, PageOk, LiveInv
  <2> QED BY <2>1, StepsKeepCalls, StepsKeepLive DEF SessionNext
<1>3. LiveInv => StoredIsLive
  BY LiveIsStoredLive
<1> QED BY <1>1, <1>2, <1>3, PTL DEF SessionSpec

=============================================================================
