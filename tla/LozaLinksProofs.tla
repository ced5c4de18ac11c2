---------------------------- MODULE LozaLinksProofs ----------------------------
(***************************************************************************)
(* What holds of the owner's screens, a visitor's page and the server      *)
(* behind them, for any links, passwords, folders and bounds, whatever     *)
(* others do with the links meanwhile: only an open link whose password    *)
(* was given serves anything, the page shows the folder it names, and the  *)
(* owner's screen, when it waits for nothing, lists the links as they are. *)
(***************************************************************************)
EXTENDS LozaLinks, FiniteSetTheorems, TLAPS

\* A call has these fields, whatever their values.
Whole(c) ==
  c \in [kind: {c.kind}, path: {c.path}, open: {c.open}, live: {c.live}, let: {c.let},
         answer: {c.answer}, bad: {c.bad}]

VisitType ==
  [screen: {"closed", "loading", "locked", "ready", "error"}, token: {visit.token},
   access: {visit.access}, path: {visit.path}, entries: {visit.entries}, loading: BOOLEAN,
   error: {visit.error}, busy: BOOLEAN, preview: {visit.preview}]

Good(c) == c.answer # None /\ ~c.bad

\* A page without its folder has one call at most, and no folder yet.
OneWay(cs, v) ==
  /\ \A c \in cs : Whole(c) /\ c.kind \in {"meta", "unlock", "content", "file"}
  /\ \A c, d \in cs : c.kind \in {"meta", "unlock"} /\ d.kind \in {"meta", "unlock"} => c = d
  /\ \A c \in cs : c.kind = "unlock" /\ v.screen = "locked" => v.busy
  /\ \A c \in cs : c.kind = "meta" => v.screen = "loading"
  /\ \A c \in cs : c.kind \in {"content", "file"} <=> v.screen = "ready"
  /\ \A c \in cs : c.kind = "file" => ~c.live
  /\ v.screen # "ready" => v.path = <<>>

\* An access token was got with the password, if there is one.
Proved(cs, v, ps) ==
  /\ \A c \in cs : c.kind = "unlock" /\ Good(c) => v.token \in ps
  /\ v.access => v.token \in ps

\* The call that still counts is for the folder that is open.
FolderCalls(cs, v) ==
  /\ \A c, d \in cs : c.kind = "content" /\ d.kind = "content" /\ c.live /\ d.live => c = d
  /\ \A c \in cs : c.kind = "content" /\ c.live => c.path = v.path /\ v.loading
  /\ \A c \in cs : c.kind = "content" /\ Good(c) => c.answer = Children(c.path)
  /\ v.screen = "ready" /\ ~v.loading /\ ~v.error => v.entries = Children(v.path)

VisitInv ==
  visit \in VisitType /\ OneWay(vcalls, visit) /\ Proved(vcalls, visit, proven)
    /\ FolderCalls(vcalls, visit)

\* A page that waits for an unlock has one at the server, and only that one is
\* its own.
Pending(cs) == \E c \in cs : c.kind = "unlock" /\ ~Answered(c)

WholeJob(u) ==
  u \in [no: {u.no}, token: {u.token}, guess: {u.guess}, at: {u.at}, pass: {u.pass}, here: BOOLEAN]

JobsInv ==
  /\ \A u \in jobs : WholeJob(u) /\ (u.here => u.token = visit.token)
  /\ \A u, w \in jobs : u.here /\ w.here => u = w
  /\ (\E u \in jobs : u.here) <=> Pending(vcalls)

-----------------------------------------------------------------------------
(* Calls.                                                                   *)

\* A call that goes on stays what it is.
Same(c, d) ==
  Whole(d) /\ d.kind = c.kind /\ d.path = c.path /\ d.live = c.live /\ d.open = c.open

LEMMA SameCall ==
  ASSUME NEW c, Whole(c), NEW answer
  PROVE  /\ Same(c, [c EXCEPT !.answer = answer])
         /\ [c EXCEPT !.answer = answer].answer = answer
         /\ [c EXCEPT !.answer = answer].bad = c.bad
         /\ [c EXCEPT !.answer = answer].let = c.let
         /\ Same(c, [c EXCEPT !.bad = TRUE])
         /\ [c EXCEPT !.bad = TRUE].bad = TRUE
         /\ [c EXCEPT !.bad = TRUE].answer = c.answer
         /\ [c EXCEPT !.bad = TRUE].let = c.let
         /\ Same(c, [c EXCEPT !.let = TRUE])
         /\ [c EXCEPT !.let = TRUE].answer = c.answer
         /\ [c EXCEPT !.let = TRUE].bad = c.bad
  BY DEF Same, Whole

LEMMA RefusedCall ==
  ASSUME NEW c, Whole(c), Refuse(c)
  PROVE  \E d : /\ vcalls' = (vcalls \ {c}) \cup {d} /\ Same(c, d)
                /\ d.bad = TRUE /\ d.answer = c.answer /\ d.let = c.let
<1> DEFINE d == [c EXCEPT !.bad = TRUE]
<1>1. Same(c, d) /\ d.bad = TRUE /\ d.answer = c.answer /\ d.let = c.let
  BY SameCall
<1>2. vcalls' = (vcalls \ {c}) \cup {d}
  BY DEF Refuse
<1> HIDE DEF d
<1> QED BY <1>1, <1>2

LEMMA OkCall ==
  ASSUME NEW c, Whole(c), NEW answer, Ok(c, answer)
  PROVE  \E d : /\ vcalls' = (vcalls \ {c}) \cup {d} /\ Same(c, d)
                /\ d.answer = answer /\ d.bad = c.bad /\ d.let = c.let
<1> DEFINE d == [c EXCEPT !.answer = answer]
<1>1. Same(c, d) /\ d.answer = answer /\ d.bad = c.bad /\ d.let = c.let
  BY SameCall
<1>2. vcalls' = (vcalls \ {c}) \cup {d}
  BY DEF Ok
<1> HIDE DEF d
<1> QED BY <1>1, <1>2

LEMMA LetCall ==
  ASSUME NEW c, Whole(c), vcalls' = (vcalls \ {c}) \cup {[c EXCEPT !.let = TRUE]}
  PROVE  \E d : /\ vcalls' = (vcalls \ {c}) \cup {d} /\ Same(c, d)
                /\ d.answer = c.answer /\ d.bad = c.bad
<1> DEFINE d == [c EXCEPT !.let = TRUE]
<1>1. Same(c, d) /\ d.answer = c.answer /\ d.bad = c.bad
  BY SameCall
<1>2. vcalls' = (vcalls \ {c}) \cup {d}
  OBVIOUS
<1> HIDE DEF d
<1> QED BY <1>1, <1>2

LEMMA TouchedCall ==
  ASSUME NEW c, Whole(c),
         \/ Refuse(c) \/ \E answer : Ok(c, answer)
         \/ vcalls' = (vcalls \ {c}) \cup {[c EXCEPT !.let = TRUE]}
  PROVE  \E d : vcalls' = (vcalls \ {c}) \cup {d} /\ Same(c, d)
<1>1. CASE Refuse(c)
  BY <1>1, RefusedCall
<1>2. CASE \E answer : Ok(c, answer)
  BY <1>2, OkCall
<1>3. CASE vcalls' = (vcalls \ {c}) \cup {[c EXCEPT !.let = TRUE]}
  BY <1>3, LetCall
<1> QED BY <1>1, <1>2, <1>3

\* An answer, or a refusal, changes nothing else.
LEMMA AnswerKeepsInv ==
  ASSUME VisitInv, NEW c \in vcalls, NEW d, Same(c, d),
         vcalls' = (vcalls \ {c}) \cup {d}, UNCHANGED visit, proven \subseteq proven',
         Good(d) /\ d.kind = "unlock" => visit.token \in proven',
         Good(d) /\ d.kind = "content" => d.answer = Children(d.path)
  PROVE  VisitInv'
<1>1. visit' \in VisitType'
  BY DEF VisitInv, VisitType
<1>2. OneWay(vcalls', visit')
  BY DEF VisitInv, OneWay, Same
<1>3. Proved(vcalls', visit', proven')
  BY DEF VisitInv, Proved, Same
<1>4. FolderCalls(vcalls', visit')
  BY DEF VisitInv, FolderCalls, Same
<1> QED BY <1>1, <1>2, <1>3, <1>4 DEF VisitInv

LEMMA RefuseKeepsInv ==
  ASSUME VisitInv, NEW c \in vcalls, Refuse(c), UNCHANGED visit, proven \subseteq proven'
  PROVE  VisitInv'
<1> DEFINE d == [c EXCEPT !.bad = TRUE]
<1>1. Whole(c)
  BY DEF VisitInv, OneWay
<1>2. Same(c, d) /\ d.bad = TRUE
  BY <1>1, SameCall
<1>3. vcalls' = (vcalls \ {c}) \cup {d}
  BY DEF Refuse
<1> HIDE DEF d
<1> QED BY <1>2, <1>3, AnswerKeepsInv DEF Good

LEMMA OkKeepsInv ==
  ASSUME VisitInv, NEW c \in vcalls, NEW answer, Ok(c, answer), UNCHANGED visit,
         proven \subseteq proven',
         c.kind = "unlock" => visit.token \in proven',
         c.kind = "content" => answer = Children(c.path)
  PROVE  VisitInv'
<1> DEFINE d == [c EXCEPT !.answer = answer]
<1>1. Whole(c)
  BY DEF VisitInv, OneWay
<1>2. Same(c, d) /\ d.answer = answer
  BY <1>1, SameCall
<1>3. vcalls' = (vcalls \ {c}) \cup {d}
  BY DEF Ok
<1> HIDE DEF d
<1>4. d.kind = c.kind /\ d.path = c.path
  BY <1>2 DEF Same
<1> QED BY <1>2, <1>3, <1>4, AnswerKeepsInv

LEMMA UnchangedKeepsInv ==
  ASSUME VisitInv, UNCHANGED <<visit, vcalls>>, proven \subseteq proven'
  PROVE  VisitInv'
  BY DEF VisitInv, VisitType, OneWay, Proved, FolderCalls

-----------------------------------------------------------------------------
(* The server.                                                              *)

\* An unlock ends: its page, if it still waits, is let in with the password only.
LEMMA EndKeepsInv ==
  ASSUME VisitInv, JobsInv, NEW u \in jobs, NEW ok \in BOOLEAN, Ends(u, ok), UNCHANGED visit,
         proven \subseteq proven', ok => u.token \in proven'
  PROVE  VisitInv'
<1>1. CASE ~u.here
  BY <1>1, UnchangedKeepsInv DEF Ends
<1>2. CASE u.here
  <2>1. PICK c \in vcalls : c.kind = "unlock" /\ IF ok THEN Ok(c, {}) ELSE Refuse(c)
    BY <1>2 DEF Ends
  <2>2. u.token = visit.token
    BY <1>2 DEF JobsInv
  <2>3. CASE ok
    <3>1. Ok(c, {}) /\ visit.token \in proven'
      BY <2>1, <2>2, <2>3
    <3> QED BY <2>1, <3>1, OkKeepsInv
  <2>4. CASE ~ok
    <3>1. Refuse(c)
      BY <2>1, <2>4
    <3> QED BY <3>1, RefuseKeepsInv
  <2> QED BY <2>3, <2>4
<1> QED BY <1>1, <1>2

LEMMA ServerKeepsInv ==
  ASSUME VisitInv, JobsInv,
         \/ MetaServed \/ UnlockFetched \/ UnlockChecked \/ UnlockServed
         \/ ContentChecked \/ ContentServed \/ VisitorCallFails
  PROVE  VisitInv'
<1>1. CASE MetaServed
  <2>1. PICK c \in vcalls : c.kind = "meta" /\ (Refuse(c) \/ \E answer : Ok(c, answer))
    BY <1>1 DEF MetaServed
  <2>2. UNCHANGED <<visit, proven>>
    BY <1>1 DEF MetaServed
  <2> QED BY <2>1, <2>2, RefuseKeepsInv, OkKeepsInv
<1>2. CASE UnlockFetched \/ UnlockChecked
  <2>1. PICK u \in jobs : UNCHANGED vcalls \/ Ends(u, FALSE)
    BY <1>2 DEF UnlockFetched, UnlockChecked, GoesOn
  <2>2. UNCHANGED <<visit, proven>>
    BY <1>2 DEF UnlockFetched, UnlockChecked
  <2> QED BY <2>1, <2>2, UnchangedKeepsInv, EndKeepsInv
<1>3. CASE UnlockServed
  <2>1. PICK u \in jobs : \/ Ends(u, FALSE) /\ UNCHANGED proven
                          \/ Ends(u, TRUE) /\ proven' = proven \cup {u.token}
    BY <1>3 DEF UnlockServed
  <2>2. UNCHANGED visit
    BY <1>3 DEF UnlockServed
  <2>3. CASE Ends(u, FALSE) /\ UNCHANGED proven
    BY <2>2, <2>3, EndKeepsInv
  <2>4. CASE Ends(u, TRUE) /\ proven' = proven \cup {u.token}
    BY <2>2, <2>4, EndKeepsInv
  <2> QED BY <2>1, <2>3, <2>4
<1>4. CASE ContentChecked
  <2>1. PICK c \in vcalls :
          /\ c.kind \in {"content", "file"} /\ ~Answered(c)
          /\ \/ vcalls' = (vcalls \ {c}) \cup {[c EXCEPT !.let = TRUE]}
             \/ Refuse(c)
    BY <1>4 DEF ContentChecked, Content
  <2>2. UNCHANGED <<visit, proven>>
    BY <1>4 DEF ContentChecked
  <2>3. CASE vcalls' = (vcalls \ {c}) \cup {[c EXCEPT !.let = TRUE]}
    <3> DEFINE d == [c EXCEPT !.let = TRUE]
    <3>1. Whole(c)
      BY DEF VisitInv, OneWay
    <3>2. Same(c, d) /\ d.answer = c.answer /\ d.bad = c.bad
      BY <3>1, SameCall
    <3>3. vcalls' = (vcalls \ {c}) \cup {d}
      BY <2>3
    <3> HIDE DEF d
    <3>4. ~Good(d)
      BY <2>1, <3>2 DEF Good, Answered
    <3> QED BY <2>2, <3>2, <3>3, <3>4, AnswerKeepsInv
  <2> QED BY <2>1, <2>2, <2>3, RefuseKeepsInv
<1>5. CASE ContentServed
  <2>1. PICK c \in vcalls :
          \/ Refuse(c)
          \/ c.kind = "content" /\ Ok(c, Children(c.path))
          \/ c.kind = "file" /\ Ok(c, File(c.path))
    BY <1>5 DEF ContentServed
  <2>2. UNCHANGED <<visit, proven>>
    BY <1>5 DEF ContentServed
  <2> QED BY <2>1, <2>2, RefuseKeepsInv, OkKeepsInv
<1>6. CASE VisitorCallFails
  <2>1. PICK c \in vcalls : Refuse(c)
    BY <1>6 DEF VisitorCallFails
  <2>2. UNCHANGED <<visit, proven>>
    BY <1>6 DEF VisitorCallFails
  <2> QED BY <2>1, <2>2, RefuseKeepsInv
<1> QED BY <1>1, <1>2, <1>3, <1>4, <1>5, <1>6

-----------------------------------------------------------------------------
(* The page.                                                                *)

Question(kind, path, open) ==
  [kind |-> kind, path |-> path, open |-> open, live |-> kind # "file", let |-> FALSE,
   answer |-> None, bad |-> FALSE]

LEMMA AskQuestion ==
  ASSUME NEW cs, NEW kind, NEW path, NEW open
  PROVE  Ask(cs, kind, path, open) = cs \cup {Question(kind, path, open)}
  BY DEF Ask, Question

LEMMA QuestionWhole ==
  ASSUME NEW kind, NEW path, NEW open
  PROVE  /\ Whole(Question(kind, path, open))
         /\ Question(kind, path, open).kind = kind /\ Question(kind, path, open).path = path
         /\ Question(kind, path, open).open = open
         /\ kind = "file" => ~Question(kind, path, open).live
  BY DEF Whole, Question

LEMMA QuestionOpen ==
  ASSUME NEW kind, NEW path, NEW open
  PROVE  /\ ~Good(Question(kind, path, open)) /\ ~Answered(Question(kind, path, open))
         /\ ~Question(kind, path, open).let /\ Question(kind, path, open).answer = None
  BY DEF Good, Answered, Question

LEMMA OpenPageKeepsInv ==
  ASSUME OpenPage
  PROVE  VisitInv'
<1> DEFINE c == Question("meta", <<>>, {})
<1>a. vcalls' = {} \cup {c}
  BY AskQuestion DEF OpenPage
<1>b. Whole(c) /\ ~Good(c) /\ c.kind = "meta"
  BY QuestionWhole, QuestionOpen
<1>1. vcalls' = {c} /\ Whole(c) /\ ~Good(c) /\ c.kind = "meta"
  BY <1>a, <1>b
<1>2. PICK t \in Used : visit' = [Closed EXCEPT !.screen = "loading", !.token = t]
  BY DEF OpenPage
<1>3. visit' \in VisitType' /\ visit'.screen = "loading" /\ visit'.access = FALSE /\ visit'.path = <<>>
  BY <1>2 DEF Closed, VisitType
<1> HIDE DEF c
<1> QED BY <1>1, <1>3 DEF VisitInv, OneWay, Proved, FolderCalls

LEMMA MetaArrivesKeepsInv ==
  ASSUME VisitInv, MetaArrives
  PROVE  VisitInv'
<1>1. PICK c \in vcalls :
        /\ c.kind = "meta"
        /\ \/ \E screen \in {"error", "locked"} :
                visit' = [visit EXCEPT !.screen = screen] /\ vcalls' = vcalls \ {c}
           \/ UNCHANGED visit /\ vcalls' = Ask(vcalls \ {c}, "unlock", <<>>, {})
  BY DEF MetaArrives
<1>2. visit \in VisitType /\ visit.screen = "loading" /\ visit.path = <<>> /\ vcalls \ {c} = {}
  BY <1>1 DEF VisitInv, OneWay
<1>3. UNCHANGED proven
  BY DEF MetaArrives
<1>4. CASE \E screen \in {"error", "locked"} :
             visit' = [visit EXCEPT !.screen = screen] /\ vcalls' = vcalls \ {c}
  <2>1. PICK screen \in {"error", "locked"} : visit' = [visit EXCEPT !.screen = screen]
    BY <1>4
  <2>2. vcalls' = {}
    BY <1>2, <1>4
  <2>3. /\ visit' \in VisitType' /\ visit'.screen # "ready" /\ visit'.path = visit.path
        /\ visit'.access = visit.access /\ visit'.token = visit.token
    BY <1>2, <2>1 DEF VisitType
  <2> QED BY <1>2, <1>3, <2>2, <2>3 DEF VisitInv, OneWay, Proved, FolderCalls
<1>5. CASE UNCHANGED visit /\ vcalls' = Ask(vcalls \ {c}, "unlock", <<>>, {})
  <2> DEFINE q == Question("unlock", <<>>, {})
  <2>a. vcalls' = (vcalls \ {c}) \cup {q}
    BY <1>5, AskQuestion
  <2>b. Whole(q) /\ ~Good(q) /\ q.kind = "unlock"
    BY QuestionWhole, QuestionOpen
  <2>1. vcalls' = {q} /\ Whole(q) /\ ~Good(q) /\ q.kind = "unlock"
    BY <1>2, <2>a, <2>b
  <2> HIDE DEF q
  <2>2. visit' \in VisitType'
    BY <1>2, <1>5 DEF VisitType
  <2> QED BY <1>2, <1>3, <1>5, <2>1, <2>2 DEF VisitInv, OneWay, Proved, FolderCalls
<1> QED BY <1>1, <1>4, <1>5

LEMMA SubmitKeepsInv ==
  ASSUME VisitInv, Submit
  PROVE  VisitInv'
<1>1. vcalls' = Ask(vcalls, "unlock", <<>>, {})
  BY DEF Submit
<1>2. /\ visit \in VisitType /\ visit.screen = "locked" /\ ~visit.busy
      /\ visit' = [visit EXCEPT !.busy = TRUE, !.error = FALSE] /\ UNCHANGED proven
  BY DEF VisitInv, Submit
<1>3. vcalls = {}
  BY <1>2 DEF VisitInv, OneWay
<1> DEFINE q == Question("unlock", <<>>, {})
<1>a. vcalls' = vcalls \cup {q}
  BY <1>1, AskQuestion
<1>b. Whole(q) /\ ~Good(q) /\ q.kind = "unlock"
  BY QuestionWhole, QuestionOpen
<1>4. vcalls' = {q} /\ Whole(q) /\ ~Good(q) /\ q.kind = "unlock"
  BY <1>3, <1>a, <1>b
<1>5. /\ visit' \in VisitType' /\ visit'.screen = "locked" /\ visit'.path = visit.path
      /\ visit'.access = visit.access /\ visit'.token = visit.token /\ visit'.busy = TRUE
  BY <1>2 DEF VisitType
<1> HIDE DEF q
<1> QED BY <1>2, <1>4, <1>5 DEF VisitInv, OneWay, Proved, FolderCalls

LEMMA UnlockArrivesKeepsInv ==
  ASSUME VisitInv, UnlockArrives
  PROVE  VisitInv'
<1>1. PICK c \in vcalls :
        /\ c.kind = "unlock" /\ Answered(c)
        /\ IF c.bad
           THEN /\ visit' = IF visit.screen = "locked"
                            THEN [visit EXCEPT !.busy = FALSE, !.error = TRUE]
                            ELSE [visit EXCEPT !.screen = "error"]
                /\ vcalls' = vcalls \ {c}
           ELSE /\ visit' = [visit EXCEPT !.screen = "ready", !.access = TRUE, !.busy = FALSE,
                                          !.error = FALSE, !.loading = TRUE]
                /\ vcalls' = Ask(vcalls \ {c}, "content", <<>>, InForce)
  BY DEF UnlockArrives
<1>2. visit \in VisitType /\ visit.screen # "ready" /\ visit.path = <<>> /\ vcalls \ {c} = {}
  BY <1>1 DEF VisitInv, OneWay
<1>3. UNCHANGED proven
  BY DEF UnlockArrives
<1>4. CASE c.bad
  <2>1. vcalls' = {}
    BY <1>1, <1>2, <1>4
  <2>2. \/ visit' = [visit EXCEPT !.busy = FALSE, !.error = TRUE]
        \/ visit' = [visit EXCEPT !.screen = "error"]
    BY <1>1, <1>4
  <2>3. /\ visit' \in VisitType' /\ visit'.screen # "ready" /\ visit'.path = visit.path
        /\ visit'.access = visit.access /\ visit'.token = visit.token
    BY <1>2, <2>2 DEF VisitType
  <2> QED BY <1>2, <1>3, <2>1, <2>3 DEF VisitInv, OneWay, Proved, FolderCalls
<1>5. CASE ~c.bad
  <2> DEFINE q == Question("content", <<>>, InForce)
  <2>a. vcalls' = (vcalls \ {c}) \cup {q}
    BY <1>1, <1>5, AskQuestion
  <2>b. Whole(q) /\ ~Good(q) /\ q.kind = "content" /\ q.path = <<>>
    BY QuestionWhole, QuestionOpen
  <2>1. vcalls' = {q} /\ Whole(q) /\ ~Good(q) /\ q.kind = "content" /\ q.path = <<>>
    BY <1>2, <2>a, <2>b
  <2>2. visit.token \in proven
    BY <1>1, <1>5 DEF VisitInv, Proved, Good, Answered
  <2>3. visit' = [visit EXCEPT !.screen = "ready", !.access = TRUE, !.busy = FALSE,
                               !.error = FALSE, !.loading = TRUE]
    BY <1>1, <1>5
  <2>4. /\ visit' \in VisitType' /\ visit'.screen = "ready" /\ visit'.path = visit.path
        /\ visit'.token = visit.token /\ visit'.loading = TRUE
    BY <1>2, <2>3 DEF VisitType
  <2> HIDE DEF q
  <2> QED BY <1>2, <1>3, <2>1, <2>2, <2>4 DEF VisitInv, OneWay, Proved, FolderCalls
<1> QED BY <1>4, <1>5

\* Another folder is asked for, and what was asked before does not count.
LEMMA GoInsideKeepsInv ==
  ASSUME VisitInv, visit.screen = "ready", NEW path, GoInside(path)
  PROVE  VisitInv'
<1> DEFINE q == Question("content", path, InForce)
           Dead(c) == [c EXCEPT !.live = FALSE]
<1>a. vcalls' = Forget(vcalls) \cup {q}
  BY AskQuestion DEF GoInside, ForgetList
<1>b. Whole(q) /\ ~Good(q) /\ q.kind = "content" /\ q.path = path
  BY QuestionWhole, QuestionOpen
<1>1. /\ vcalls' = {Dead(c) : c \in vcalls} \cup {q}
      /\ Whole(q) /\ ~Good(q) /\ q.kind = "content" /\ q.path = path
  BY <1>a, <1>b DEF Forget
<1>2. visit \in VisitType /\ \A c \in vcalls : Whole(c) /\ c.kind \in {"content", "file"}
  BY DEF VisitInv, OneWay
<1>3. \A c \in vcalls : /\ Whole(Dead(c)) /\ Dead(c).kind = c.kind /\ Dead(c).live = FALSE
                        /\ Dead(c).answer = c.answer /\ Dead(c).bad = c.bad
                        /\ Dead(c).path = c.path
  BY <1>2 DEF Whole
<1>4. visit' = [visit EXCEPT !.path = path, !.loading = TRUE, !.error = FALSE] /\ UNCHANGED proven
  BY DEF GoInside
<1>5. /\ visit' \in VisitType' /\ visit'.screen = "ready" /\ visit'.path = path
      /\ visit'.token = visit.token /\ visit'.access = visit.access /\ visit'.loading = TRUE
  BY <1>2, <1>4 DEF VisitType
<1> HIDE DEF q, Dead
<1>6. \A d \in vcalls' : d = q \/ \E c \in vcalls : d = Dead(c)
  BY <1>1
<1>7. OneWay(vcalls', visit')
  BY <1>1, <1>2, <1>3, <1>5, <1>6 DEF OneWay
<1>8. Proved(vcalls', visit', proven')
  BY <1>1, <1>2, <1>3, <1>4, <1>5, <1>6 DEF VisitInv, Proved
<1>9. FolderCalls(vcalls', visit')
  <2>1. \A d \in vcalls' : d.live => d = q
    BY <1>3, <1>6
  <2>2. \A d \in vcalls' : d.kind = "content" /\ Good(d) => d.answer = Children(d.path)
    BY <1>1, <1>2, <1>3, <1>6 DEF VisitInv, FolderCalls, Good
  <2> QED BY <1>1, <1>5, <2>1, <2>2 DEF FolderCalls
<1> QED BY <1>5, <1>7, <1>8, <1>9 DEF VisitInv

LEMMA ContentArrivesKeepsInv ==
  ASSUME VisitInv, ContentArrives
  PROVE  VisitInv'
<1>1. PICK c \in vcalls :
        /\ c.kind \in {"content", "file"} /\ Answered(c)
        /\ vcalls' = vcalls \ {c}
        /\ visit' = IF ~c.live THEN visit
                    ELSE [visit EXCEPT !.loading = FALSE, !.error = c.bad,
                                       !.entries = IF c.bad THEN @ ELSE c.answer]
  BY DEF ContentArrives, Content
<1>2. visit \in VisitType /\ visit.screen = "ready" /\ UNCHANGED proven
  BY <1>1 DEF VisitInv, OneWay, ContentArrives
<1>3. CASE ~c.live
  <2>1. visit' \in VisitType' /\ UNCHANGED visit
    BY <1>1, <1>2, <1>3 DEF VisitType
  <2> QED BY <1>1, <1>2, <2>1 DEF VisitInv, OneWay, Proved, FolderCalls
<1>4. CASE c.live
  <2>1. /\ visit' = [visit EXCEPT !.loading = FALSE, !.error = c.bad,
                                  !.entries = IF c.bad THEN @ ELSE c.answer]
        /\ c.kind = "content"
    BY <1>1, <1>4 DEF VisitInv, OneWay
  <2>2. /\ visit'.screen = "ready" /\ visit'.path = visit.path
        /\ visit'.token = visit.token /\ visit'.access = visit.access
        /\ visit'.loading = FALSE /\ visit'.error = c.bad
        /\ ~c.bad => visit'.entries = c.answer
    BY <1>2, <2>1 DEF VisitType
  <2>3. \A d \in vcalls' : ~(d.kind = "content" /\ d.live)
    BY <1>1, <1>4, <2>1 DEF VisitInv, FolderCalls
  <2>4. ~c.bad => c.answer = Children(visit.path)
    BY <1>1, <1>4, <2>1 DEF VisitInv, FolderCalls, Good, Answered
  <2>5. visit' \in VisitType'
    BY <1>2, <2>1 DEF VisitType
  <2>6. OneWay(vcalls', visit')
    BY <1>1, <1>2, <2>2 DEF VisitInv, OneWay
  <2>7. Proved(vcalls', visit', proven')
    BY <1>1, <1>2, <2>2 DEF VisitInv, Proved
  <2>8. FolderCalls(vcalls', visit')
    BY <1>1, <2>2, <2>3, <2>4 DEF VisitInv, FolderCalls
  <2> QED BY <2>5, <2>6, <2>7, <2>8 DEF VisitInv
<1> QED BY <1>3, <1>4

LEMMA FetchKeepsInv ==
  ASSUME VisitInv, Fetch
  PROVE  VisitInv'
<1>1. PICK path : vcalls' = Ask(vcalls, "file", path, InForce)
  BY DEF Fetch
<1> DEFINE q == Question("file", path, InForce)
<1>2. vcalls' = vcalls \cup {q}
  BY <1>1, AskQuestion
<1>3. Whole(q) /\ q.kind = "file" /\ ~q.live
  BY QuestionWhole
<1>4. visit.screen = "ready" /\ UNCHANGED <<visit, proven>>
  BY DEF Fetch
<1> HIDE DEF q
<1> QED BY <1>2, <1>3, <1>4 DEF VisitInv, VisitType, OneWay, Proved, FolderCalls

\* Steps that leave the folder and its calls alone: the lightbox, time.
LEMMA QuietKeepsInv ==
  ASSUME VisitInv, UNCHANGED <<vcalls, proven>>,
         NEW access, access => visit.access, NEW preview,
         visit' = [visit EXCEPT !.access = access, !.preview = preview]
  PROVE  VisitInv'
<1>1. visit \in VisitType
  BY DEF VisitInv
<1>2. /\ visit' \in VisitType'
      /\ visit'.screen = visit.screen /\ visit'.path = visit.path /\ visit'.token = visit.token
      /\ visit'.loading = visit.loading /\ visit'.error = visit.error /\ visit'.busy = visit.busy
      /\ visit'.entries = visit.entries /\ visit'.access = access
  BY <1>1 DEF VisitType
<1> QED BY <1>2 DEF VisitInv, OneWay, Proved, FolderCalls

LEMMA LightboxKeepsInv ==
  ASSUME VisitInv, NEW p, Lightbox(p)
  PROVE  VisitInv'
<1>1. visit' = [visit EXCEPT !.preview = p] /\ UNCHANGED <<vcalls, proven>>
  BY DEF Lightbox
<1>2. visit \in VisitType
  BY DEF VisitInv
<1>3. visit' = [visit EXCEPT !.access = visit.access, !.preview = p]
  BY <1>1, <1>2 DEF VisitType
<1> QED BY <1>1, <1>3, QuietKeepsInv

LEMMA TimePassesKeepsInv ==
  ASSUME VisitInv, TimePasses
  PROVE  VisitInv'
<1>1. UNCHANGED <<vcalls, proven>>
  BY DEF TimePasses
<1>2. CASE UNCHANGED visit
  BY <1>1, <1>2, UnchangedKeepsInv
<1>3. CASE visit' = [visit EXCEPT !.access = FALSE]
  <2>1. visit \in VisitType
    BY DEF VisitInv
  <2>2. visit' = [visit EXCEPT !.access = FALSE, !.preview = visit.preview]
    BY <1>3, <2>1 DEF VisitType
  <2> QED BY <1>1, <2>2, QuietKeepsInv
<1> QED BY <1>2, <1>3 DEF TimePasses

LEMMA NextKeepsInv ==
  ASSUME VisitInv, JobsInv, [LinksNext]_lvars
  PROVE  VisitInv'
<1>1. CASE OpenPanel \/ ClosePanel \/ RefreshTab \/ ToggleProtect \/ TypePassword
             \/ CreateLink \/ Revoke \/ OwnerCallFails \/ OtherClient \/ OwnerServed
             \/ OwnerArrives \/ UNCHANGED lvars
  <2>1. UNCHANGED <<visit, vcalls, proven>>
    BY <1>1 DEF OpenPanel, ClosePanel, RefreshTab, ToggleProtect, TypePassword, Form,
                CreateLink, Revoke, OwnerCallFails, OtherClient, OwnerServed,
                OwnerArrives, lvars, visitor
  <2> QED BY <2>1, UnchangedKeepsInv
<1>2. CASE \/ MetaServed \/ UnlockFetched \/ UnlockChecked \/ UnlockServed
           \/ ContentChecked \/ ContentServed \/ VisitorCallFails
  BY <1>2, ServerKeepsInv
<1>3. CASE OpenPage \/ MetaArrives \/ Submit \/ UnlockArrives \/ ContentArrives \/ Fetch
  BY <1>3, OpenPageKeepsInv, MetaArrivesKeepsInv, SubmitKeepsInv, UnlockArrivesKeepsInv,
     ContentArrivesKeepsInv, FetchKeepsInv
<1>4. CASE OpenEntry \/ GoCrumb
  <2>1. visit.screen = "ready" /\ \E path : GoInside(path)
    BY <1>4 DEF OpenEntry, GoCrumb
  <2> QED BY <2>1, GoInsideKeepsInv
<1>5. CASE OpenLightbox \/ StepLightbox \/ CloseLightbox
  <2>1. \E p : Lightbox(p)
    BY <1>5 DEF OpenLightbox, StepLightbox, CloseLightbox
  <2> QED BY <2>1, LightboxKeepsInv
<1>6. CASE TimePasses
  BY <1>6, TimePassesKeepsInv
<1> QED BY <1>1, <1>2, <1>3, <1>4, <1>5, <1>6 DEF LinksNext

-----------------------------------------------------------------------------
(* The unlocks at the server.                                               *)

\* A step of the server, or an answer, that has nothing to do with them.
LEMMA SamePending ==
  ASSUME JobsInv, UNCHANGED jobs, visit'.token = visit.token, Pending(vcalls') <=> Pending(vcalls)
  PROVE  JobsInv'
  BY DEF JobsInv

LEMMA OtherCallAnswered ==
  ASSUME VisitInv, JobsInv, UNCHANGED <<jobs, visit>>, NEW c \in vcalls, c.kind # "unlock",
         \/ Refuse(c) \/ \E answer : Ok(c, answer)
         \/ vcalls' = (vcalls \ {c}) \cup {[c EXCEPT !.let = TRUE]}
  PROVE  JobsInv'
<1>1. Whole(c)
  BY DEF VisitInv, OneWay
<1>a. PICK d : vcalls' = (vcalls \ {c}) \cup {d} /\ Same(c, d)
  BY <1>1, TouchedCall
<1>2. vcalls' = (vcalls \ {c}) \cup {d} /\ d.kind = c.kind
  BY <1>a DEF Same
<1>3. Pending(vcalls') <=> Pending(vcalls)
  BY <1>2 DEF Pending
<1> QED BY <1>3, SamePending

LEMMA EndKeepsJobs ==
  ASSUME VisitInv, JobsInv, NEW u \in jobs, NEW ok \in BOOLEAN, Ends(u, ok), UNCHANGED visit
  PROVE  JobsInv'
<1>1. jobs' = jobs \ {u}
  BY DEF Ends
<1>2. CASE ~u.here
  <2>1. UNCHANGED vcalls
    BY <1>2 DEF Ends
  <2> QED BY <1>1, <1>2, <2>1 DEF JobsInv
<1>3. CASE u.here
  <2>1. PICK c \in vcalls : c.kind = "unlock" /\ IF ok THEN Ok(c, {}) ELSE Refuse(c)
    BY <1>3 DEF Ends
  <2>2. Whole(c) /\ \A e \in vcalls : e.kind = "unlock" => e = c
    BY <2>1 DEF VisitInv, OneWay
  <2>3. PICK d : vcalls' = (vcalls \ {c}) \cup {d} /\ Answered(d)
    <3>1. CASE ok
      BY <2>1, <2>2, <3>1, OkCall, NoneAssumption DEF Answered
    <3>2. CASE ~ok
      BY <2>1, <2>2, <3>2, RefusedCall DEF Answered
    <3> QED BY <3>1, <3>2
  <2>4. ~Pending(vcalls')
    BY <2>2, <2>3 DEF Pending
  <2>5. \A w \in jobs' : ~w.here
    BY <1>1, <1>3 DEF JobsInv
  <2> QED BY <1>1, <2>4, <2>5 DEF JobsInv
<1> QED BY <1>2, <1>3

LEMMA GoingOnKeepsJobs ==
  ASSUME JobsInv, NEW u \in jobs, NEW v, GoesOn(u, v), WholeJob(v), v.here = u.here,
         v.token = u.token, UNCHANGED visit
  PROVE  JobsInv'
<1>1. jobs' = (jobs \ {u}) \cup {v} /\ UNCHANGED vcalls
  BY DEF GoesOn
<1> QED BY <1>1 DEF JobsInv

LEMMA AbandonedJobs ==
  ASSUME JobsInv, jobs' \in Abandoned, ~Pending(vcalls')
  PROVE  JobsInv'
<1> DEFINE Gone(u) == [u EXCEPT !.here = FALSE]
<1>1. \A u \in jobs : WholeJob(Gone(u)) /\ ~Gone(u).here
  BY DEF JobsInv, WholeJob
<1>2. \A u \in jobs' : \/ \E w \in jobs : u = Gone(w)
                       \/ u \in jobs /\ ~u.here
  BY DEF Abandoned
<1> HIDE DEF Gone
<1>3. \A u \in jobs' : WholeJob(u) /\ ~u.here
  BY <1>1, <1>2 DEF JobsInv
<1> QED BY <1>3 DEF JobsInv

LEMMA UnlockAsked ==
  ASSUME JobsInv, ~Pending(vcalls), NEW guess, NEW cs \in SUBSET vcalls, visit'.token = visit.token,
         jobs' = jobs \cup {Unlock(visit.token, guess)}, vcalls' = Ask(cs, "unlock", <<>>, {})
  PROVE  JobsInv'
<1> DEFINE u == Unlock(visit.token, guess)
           q == Question("unlock", <<>>, {})
<1>1. WholeJob(u) /\ u.here /\ u.token = visit.token
  BY DEF Unlock, WholeJob
<1>2. jobs' = jobs \cup {u}
  OBVIOUS
<1>3. vcalls' = cs \cup {q} /\ q.kind = "unlock" /\ ~Answered(q)
  BY AskQuestion, QuestionWhole, QuestionOpen
<1> HIDE DEF u, q
<1>4. \A w \in jobs : ~w.here
  BY DEF JobsInv
<1>5. Pending(vcalls')
  BY <1>3 DEF Pending
<1> QED BY <1>1, <1>2, <1>4, <1>5 DEF JobsInv

LEMMA ServerKeepsJobs ==
  ASSUME VisitInv, JobsInv,
         \/ MetaServed \/ UnlockFetched \/ UnlockChecked \/ UnlockServed
         \/ ContentChecked \/ ContentServed \/ VisitorCallFails
  PROVE  JobsInv'
<1>1. CASE MetaServed \/ ContentChecked \/ ContentServed
  <2>1. PICK c \in vcalls :
          /\ c.kind # "unlock"
          /\ \/ Refuse(c) \/ \E answer : Ok(c, answer)
             \/ vcalls' = (vcalls \ {c}) \cup {[c EXCEPT !.let = TRUE]}
    BY <1>1 DEF MetaServed, ContentChecked, ContentServed, Content
  <2>2. UNCHANGED <<jobs, visit>>
    BY <1>1 DEF MetaServed, ContentChecked, ContentServed
  <2> QED BY <2>1, <2>2, OtherCallAnswered
<1>2. CASE UnlockFetched \/ UnlockChecked
  <2>1. PICK u \in jobs :
          \/ Ends(u, FALSE)
          \/ \E pass : GoesOn(u, [u EXCEPT !.at = "limit", !.pass = pass])
          \/ GoesOn(u, [u EXCEPT !.at = "verify"])
    BY <1>2 DEF UnlockFetched, UnlockChecked
  <2>2. UNCHANGED visit /\ WholeJob(u)
    BY <1>2 DEF UnlockFetched, UnlockChecked, JobsInv
  <2>3. CASE Ends(u, FALSE)
    BY <2>2, <2>3, EndKeepsJobs
  <2>4. CASE ~Ends(u, FALSE)
    <3>1. PICK v : GoesOn(u, v) /\ WholeJob(v) /\ v.here = u.here /\ v.token = u.token
      <4>1. \A pass : LET v == [u EXCEPT !.at = "limit", !.pass = pass]
                      IN  WholeJob(v) /\ v.here = u.here /\ v.token = u.token
        BY <2>2 DEF WholeJob
      <4>2. LET v == [u EXCEPT !.at = "verify"]
            IN  WholeJob(v) /\ v.here = u.here /\ v.token = u.token
        BY <2>2 DEF WholeJob
      <4> QED BY <2>1, <2>4, <4>1, <4>2
    <3> QED BY <2>2, <3>1, GoingOnKeepsJobs
  <2> QED BY <2>3, <2>4
<1>3. CASE UnlockServed
  <2>1. PICK u \in jobs : Ends(u, FALSE) \/ Ends(u, TRUE)
    BY <1>3 DEF UnlockServed
  <2>2. UNCHANGED visit
    BY <1>3 DEF UnlockServed
  <2> QED BY <2>1, <2>2, EndKeepsJobs
<1>4. CASE VisitorCallFails
  <2>1. PICK c \in vcalls :
          Refuse(c) /\ IF c.kind = "unlock" THEN jobs' \in Abandoned ELSE UNCHANGED jobs
    BY <1>4 DEF VisitorCallFails
  <2>2. UNCHANGED visit
    BY <1>4 DEF VisitorCallFails
  <2>3. CASE c.kind # "unlock"
    BY <2>1, <2>2, <2>3, OtherCallAnswered
  <2>4. CASE c.kind = "unlock"
    <3>1. Whole(c) /\ \A e \in vcalls : e.kind = "unlock" => e = c
      BY <2>4 DEF VisitInv, OneWay
    <3>2. PICK d : vcalls' = (vcalls \ {c}) \cup {d} /\ Answered(d)
      BY <2>1, <3>1, RefusedCall DEF Answered
    <3>3. ~Pending(vcalls')
      BY <3>1, <3>2 DEF Pending
    <3> QED BY <2>1, <2>4, <3>3, AbandonedJobs
  <2> QED BY <2>3, <2>4
<1> QED BY <1>1, <1>2, <1>3, <1>4

LEMMA PageKeepsJobs ==
  ASSUME VisitInv, JobsInv,
         OpenPage \/ MetaArrives \/ Submit \/ UnlockArrives \/ ContentArrives \/ Fetch
  PROVE  JobsInv'
<1>0. visit \in VisitType
  BY DEF VisitInv
<1>1. CASE OpenPage
  <2> DEFINE q == Question("meta", <<>>, {})
  <2>1. q.kind = "meta" /\ vcalls' = {} \cup {q}
    <3>1. q.kind = "meta"
      BY QuestionWhole
    <3>2. vcalls' = Ask({}, "meta", <<>>, {})
      BY <1>1 DEF OpenPage
    <3> QED BY <3>1, <3>2, AskQuestion
  <2> HIDE DEF q
  <2>2. ~Pending(vcalls')
    BY <2>1 DEF Pending
  <2> QED BY <1>1, <2>2, AbandonedJobs DEF OpenPage
<1>2. CASE MetaArrives
  <2>1. PICK c \in vcalls :
          /\ c.kind = "meta"
          /\ \/ vcalls' = vcalls \ {c} /\ UNCHANGED jobs
             \/ /\ jobs' = jobs \cup {Unlock(visit.token, None)}
                /\ vcalls' = Ask(vcalls \ {c}, "unlock", <<>>, {})
    BY <1>2 DEF MetaArrives
  <2>2. visit'.token = visit.token
    BY <1>0, <1>2 DEF MetaArrives, VisitType
  <2>3. ~Pending(vcalls)
    BY <2>1 DEF VisitInv, OneWay, Pending
  <2>4. CASE vcalls' = vcalls \ {c} /\ UNCHANGED jobs
    <3>1. ~Pending(vcalls')
      BY <2>3, <2>4 DEF Pending
    <3> QED BY <2>2, <2>3, <2>4, <3>1, SamePending
  <2>5. CASE /\ jobs' = jobs \cup {Unlock(visit.token, None)}
             /\ vcalls' = Ask(vcalls \ {c}, "unlock", <<>>, {})
    BY <2>2, <2>3, <2>5, UnlockAsked
  <2> QED BY <2>1, <2>4, <2>5
<1>3. CASE Submit
  <2>1. PICK pw \in Password : jobs' = jobs \cup {Unlock(visit.token, pw)}
    BY <1>3 DEF Submit
  <2>2. vcalls' = Ask(vcalls, "unlock", <<>>, {}) /\ visit'.token = visit.token
    BY <1>0, <1>3 DEF Submit, VisitType
  <2>3. ~Pending(vcalls)
    BY <1>3 DEF Submit, VisitInv, OneWay, Pending
  <2> QED BY <2>1, <2>2, <2>3, UnlockAsked
<1>4. CASE UnlockArrives
  <2>1. PICK c \in vcalls :
          /\ Answered(c)
          /\ \/ vcalls' = vcalls \ {c}
             \/ vcalls' = Ask(vcalls \ {c}, "content", <<>>, InForce)
    BY <1>4 DEF UnlockArrives
  <2>2. UNCHANGED jobs /\ visit'.token = visit.token
    BY <1>0, <1>4 DEF UnlockArrives, VisitType
  <2> DEFINE q == Question("content", <<>>, InForce)
  <2>3. q.kind = "content" /\ (vcalls' = vcalls \ {c} \/ vcalls' = (vcalls \ {c}) \cup {q})
    BY <2>1, AskQuestion, QuestionWhole
  <2> HIDE DEF q
  <2>4. Pending(vcalls') <=> Pending(vcalls)
    BY <2>1, <2>3 DEF Pending
  <2> QED BY <2>2, <2>4, SamePending
<1>5. CASE ContentArrives
  <2>1. PICK c \in vcalls : Answered(c) /\ vcalls' = vcalls \ {c}
    BY <1>5 DEF ContentArrives
  <2>2. UNCHANGED jobs /\ visit'.token = visit.token
    BY <1>0, <1>5 DEF ContentArrives, VisitType
  <2>3. Pending(vcalls') <=> Pending(vcalls)
    BY <2>1 DEF Pending
  <2> QED BY <2>2, <2>3, SamePending
<1>6. CASE Fetch
  <2>1. PICK path : vcalls' = Ask(vcalls, "file", path, InForce)
    BY <1>6 DEF Fetch
  <2> DEFINE q == Question("file", path, InForce)
  <2>2. vcalls' = vcalls \cup {q} /\ q.kind = "file"
    BY <2>1, AskQuestion, QuestionWhole
  <2> HIDE DEF q
  <2>3. Pending(vcalls') <=> Pending(vcalls)
    BY <2>2 DEF Pending
  <2>4. UNCHANGED <<jobs, visit>>
    BY <1>6 DEF Fetch
  <2> QED BY <2>3, <2>4, SamePending
<1> QED BY <1>1, <1>2, <1>3, <1>4, <1>5, <1>6

LEMMA FolderKeepsJobs ==
  ASSUME VisitInv, JobsInv, visit.screen = "ready", NEW path, GoInside(path)
  PROVE  JobsInv'
<1> DEFINE q == Question("content", path, InForce)
           Dead(c) == [c EXCEPT !.live = FALSE]
<1>1. vcalls' = {Dead(c) : c \in vcalls} \cup {q} /\ q.kind = "content"
  BY AskQuestion, QuestionWhole DEF GoInside, ForgetList, Forget
<1>2. \A c \in vcalls : c.kind # "unlock" /\ Dead(c).kind = c.kind
  BY DEF VisitInv, OneWay, Whole
<1>3. UNCHANGED jobs /\ visit'.token = visit.token
  BY DEF GoInside, VisitInv, VisitType
<1> HIDE DEF q, Dead
<1>4. ~Pending(vcalls') /\ ~Pending(vcalls)
  BY <1>1, <1>2 DEF Pending
<1> QED BY <1>3, <1>4, SamePending

LEMMA NextKeepsJobs ==
  ASSUME VisitInv, JobsInv, [LinksNext]_lvars
  PROVE  JobsInv'
<1>1. CASE OpenPanel \/ ClosePanel \/ RefreshTab \/ ToggleProtect \/ TypePassword
             \/ CreateLink \/ Revoke \/ OwnerCallFails \/ OtherClient \/ OwnerServed
             \/ OwnerArrives \/ OpenLightbox \/ StepLightbox \/ CloseLightbox \/ TimePasses
             \/ UNCHANGED lvars
  <2>1. UNCHANGED <<vcalls, jobs>>
    BY <1>1 DEF OpenPanel, ClosePanel, RefreshTab, ToggleProtect, TypePassword, Form,
                CreateLink, Revoke, OwnerCallFails, OtherClient, OwnerServed, OpenLightbox,
                StepLightbox, CloseLightbox, Lightbox, TimePasses,
                OwnerArrives, lvars, visitor
  <2>2. \/ UNCHANGED visit \/ visit' = [visit EXCEPT !.access = FALSE]
        \/ \E p : visit' = [visit EXCEPT !.preview = p]
    BY <1>1 DEF OpenPanel, ClosePanel, RefreshTab, ToggleProtect, TypePassword, Form,
                CreateLink, Revoke, OwnerCallFails, OtherClient, OwnerServed, OpenLightbox,
                StepLightbox, CloseLightbox, Lightbox, TimePasses,
                OwnerArrives, lvars, visitor
  <2>3. visit'.token = visit.token
    BY <2>2 DEF VisitInv, VisitType
  <2> QED BY <2>1, <2>3, SamePending
<1>2. CASE OpenEntry \/ GoCrumb
  <2>1. visit.screen = "ready" /\ \E path : GoInside(path)
    BY <1>2 DEF OpenEntry, GoCrumb
  <2> QED BY <2>1, FolderKeepsJobs
<1> QED BY <1>1, <1>2, ServerKeepsJobs, PageKeepsJobs DEF LinksNext

LEMMA InitHasInv ==
  ASSUME LinksInit
  PROVE  VisitInv
<1>1. visit = Closed /\ vcalls = {}
  BY DEF LinksInit
<1>2. visit \in VisitType /\ visit.screen = "closed" /\ visit.path = <<>> /\ visit.access = FALSE
  BY <1>1 DEF Closed, VisitType
<1> QED BY <1>1, <1>2 DEF VisitInv, OneWay, Proved, FolderCalls

LEMMA InvHolds ==
  LinksSpec => [](VisitInv /\ JobsInv)
<1>1. LinksInit => VisitInv /\ JobsInv
  BY InitHasInv DEF LinksInit, JobsInv, Pending
<1>2. VisitInv /\ JobsInv /\ [LinksNext]_lvars => (VisitInv /\ JobsInv)'
  BY NextKeepsInv, NextKeepsJobs
<1> QED BY <1>1, <1>2, PTL DEF LinksSpec

-----------------------------------------------------------------------------
(* The theorems.                                                            *)

\* Once a folder has arrived, the page shows that one and no other, in
\* whatever order the answers come and whether or not the link is revoked
\* meanwhile (App.tsx of the viewer).
THEOREM ViewerShowsItsPath ==
  LinksSpec => []ViewerShowsPath
<1>1. VisitInv => ViewerShowsPath
  BY DEF VisitInv, FolderCalls, ViewerShowsPath
<1> QED BY <1>1, InvHolds, PTL

-----------------------------------------------------------------------------
(* The lightbox.                                                            *)

LightboxInv ==
  visit.preview # None =>
    /\ visit.screen = "ready" /\ ~visit.loading /\ ~visit.error
    /\ visit.preview \in 0..(Previewables - 1)

LEMMA PreviewablesCounted ==
  ASSUME VisitInv, visit.screen = "ready", ~visit.loading, ~visit.error
  PROVE  Previewables \in Nat
<1>1. visit.entries \subseteq Inside
  BY DEF VisitInv, FolderCalls, Children
<1>2. {e \in visit.entries : e.show} \in SUBSET Inside
  BY <1>1
<1> QED BY <1>2, InsideAssumption, FS_Subset, FS_CardinalityType DEF Previewables

\* A step goes round.
LEMMA StepStays ==
  ASSUME NEW n \in Nat, NEW i \in 0..(n - 1), NEW d \in {-1, 1}
  PROVE  (i + n + d) % n \in 0..(n - 1)
  OBVIOUS

LEMMA NextKeepsLightbox ==
  ASSUME VisitInv, LightboxInv, [LinksNext]_lvars
  PROVE  LightboxInv'
<1>1. visit \in VisitType
  BY DEF VisitInv
<1>2. CASE UNCHANGED visit
  BY <1>2 DEF LightboxInv, Previewables
<1>3. CASE OpenLightbox \/ StepLightbox \/ CloseLightbox
  <2>1. PICK p : Lightbox(p) /\ (p = None \/ OpenLightbox \/ StepLightbox)
    BY <1>3 DEF OpenLightbox, StepLightbox, CloseLightbox
  <2>2. CASE p = None
    BY <1>1, <2>1, <2>2 DEF Lightbox, VisitType, LightboxInv
  <2>3. CASE OpenLightbox
    <3>1. PICK i \in 0..(Previewables - 1) : Lightbox(i)
      BY <2>3 DEF OpenLightbox
    <3>2. ~visit.loading /\ ~visit.error /\ visit.screen = "ready"
      BY <2>3, <3>1 DEF OpenLightbox, Lightbox
    <3> QED BY <1>1, <3>1, <3>2 DEF Lightbox, VisitType, LightboxInv, Previewables
  <2>4. CASE StepLightbox
    <3>1. PICK d \in {-1, 1} : Lightbox(StepTo(visit.preview + Previewables, d))
      BY <2>4 DEF StepLightbox
    <3>2. /\ ~visit.loading /\ ~visit.error /\ visit.screen = "ready"
          /\ visit.preview \in 0..(Previewables - 1)
      BY <2>4 DEF StepLightbox, LightboxInv
    <3>3. StepTo(visit.preview + Previewables, d) \in 0..(Previewables - 1)
      BY <3>2, PreviewablesCounted, StepStays DEF StepTo
    <3> QED BY <1>1, <3>1, <3>2, <3>3 DEF Lightbox, VisitType, LightboxInv, Previewables
  <2> QED BY <2>1, <2>2, <2>3, <2>4
<1>4. CASE OpenPage
  BY <1>4 DEF OpenPage, Closed, LightboxInv
<1>5. CASE visit.screen # "ready" /\ ~OpenPage
  <2>1. visit.preview = None
    BY <1>5 DEF LightboxInv
  <2>2. visit'.preview = visit.preview
    BY <1>1, <1>5 DEF LinksNext, lvars, visitor, owner, OpenPanel, ClosePanel, RefreshTab, ToggleProtect,
           TypePassword, Form, CreateLink, Revoke, OwnerCallFails, OtherClient, OwnerServed,
           OwnerArrives, MetaServed, UnlockFetched, UnlockChecked, UnlockServed, ContentChecked, ContentServed, VisitorCallFails, TimePasses,
           MetaArrives, Submit, UnlockArrives, OpenEntry, GoCrumb, GoInside, ContentArrives,
           OpenLightbox, StepLightbox, CloseLightbox, Lightbox, Fetch, VisitType
  <2> QED BY <2>1, <2>2 DEF LightboxInv
<1>6. CASE TimePasses
  <2>1. visit' = visit \/ visit' = [visit EXCEPT !.access = FALSE]
    BY <1>6 DEF TimePasses
  <2> QED BY <1>1, <2>1 DEF VisitType, LightboxInv, Previewables
<1>7. CASE OpenEntry \/ GoCrumb
  <2>1. visit.preview = None /\ \E path : GoInside(path)
    BY <1>7 DEF OpenEntry, GoCrumb
  <2>2. visit'.preview = None
    BY <1>1, <2>1 DEF GoInside, VisitType
  <2> QED BY <2>2 DEF LightboxInv
<1>8. CASE ContentArrives
  <2>1. PICK c \in vcalls :
          /\ c.kind \in {"content", "file"}
          /\ visit' = IF ~c.live THEN visit
                      ELSE [visit EXCEPT !.loading = FALSE, !.error = c.bad,
                                         !.entries = IF c.bad THEN @ ELSE c.answer]
    BY <1>8 DEF ContentArrives, Content
  <2>2. CASE c.live
    <3>1. visit.loading
      BY <2>1, <2>2 DEF VisitInv, OneWay, FolderCalls
    <3>2. visit.preview = None /\ visit'.preview = visit.preview
      BY <1>1, <2>1, <3>1 DEF LightboxInv, VisitType
    <3> QED BY <3>2 DEF LightboxInv
  <2>3. CASE ~c.live
    BY <1>2, <2>1, <2>3
  <2> QED BY <2>2, <2>3
<1>9. CASE visit.screen = "ready" /\ (MetaArrives \/ Submit \/ UnlockArrives)
  BY <1>9 DEF VisitInv, OneWay, MetaArrives, Submit, UnlockArrives
<1> QED
  BY <1>2, <1>3, <1>4, <1>5, <1>6, <1>7, <1>8, <1>9
  DEF LinksNext, lvars, visitor, owner, OpenPanel, ClosePanel, RefreshTab, ToggleProtect,
      TypePassword, Form, CreateLink, Revoke, OwnerCallFails, OtherClient, OwnerServed,
      OwnerArrives, MetaServed, UnlockFetched, UnlockChecked, UnlockServed, ContentChecked, ContentServed, VisitorCallFails, Fetch

\* The lightbox never shows a file its folder does not have: it is open only
\* over a folder that stays, and its steps go round (PreviewModal of the viewer).
THEOREM LightboxShowsItsFolder ==
  LinksSpec => []LightboxInRange
<1>1. LinksInit => LightboxInv
  BY DEF LinksInit, Closed, LightboxInv
<1>2. VisitInv /\ LightboxInv /\ [LinksNext]_lvars => LightboxInv'
  BY NextKeepsLightbox
<1>3. LightboxInv => LightboxInRange
  BY DEF LightboxInv, LightboxInRange
<1> QED BY <1>1, <1>2, <1>3, InvHolds, PTL DEF LinksSpec

-----------------------------------------------------------------------------
(* The form that makes a link.                                              *)

PanelType ==
  [at: {panel.at}, listed: {panel.listed}, loading: {panel.loading}, error: {panel.error},
   creating: BOOLEAN, protect: BOOLEAN, password: Password \cup {None}, nag: {panel.nag},
   busy: {panel.busy}]

\* The form holds a password only while the switch is on.
PanelInv == panel \in PanelType /\ (~panel.protect => panel.password = None)

\* What a step may do to the form without making a link.
Tame(p, q) ==
  /\ q.creating => p.creating
  /\ ~q.protect => q.password = None

LEMMA FreshForm ==
  ASSUME NEW at, panel' = Fresh(at)
  PROVE  panel' \in PanelType' /\ Tame(panel, panel')
  BY DEF Fresh, PanelType, Tame

\* A field of the list or of a call changes, and loading may end a creation.
LEMMA ListFieldsTame ==
  ASSUME PanelInv, NEW listed, NEW loading, NEW error, NEW busy, NEW creating \in BOOLEAN,
         creating => panel.creating,
         panel' = [panel EXCEPT !.listed = listed, !.loading = loading, !.error = error,
                                !.busy = busy, !.creating = creating]
  PROVE  panel' \in PanelType' /\ Tame(panel, panel')
  BY DEF PanelInv, PanelType, Tame

LEMMA ArrivalTame ==
  ASSUME PanelInv, OwnerArrives
  PROVE  panel' \in PanelType' /\ Tame(panel, panel')
<1> DEFINE Done(c) == IF c.then = "revoked" \/ (c.kind = "revoke" /\ c.bad)
                      THEN [panel EXCEPT !.busy = None] ELSE panel
<1>0. panel \in PanelType
  BY DEF PanelInv
<1>1. PICK c \in pcalls :
        \/ panel' = panel
        \/ panel' = [Done(c) EXCEPT !.error = TRUE, !.loading = @ /\ c.kind # "list",
                                    !.creating = @ /\ ~Stops(c, FALSE)]
        \/ panel' = [panel EXCEPT !.loading = TRUE, !.error = FALSE,
                        !.password = IF c.kind = "create" THEN None ELSE @,
                        !.protect = @ /\ c.kind # "create"]
        \/ panel' = [Done(c) EXCEPT !.listed = IF c.kind = "list" THEN c.answer ELSE @,
                                    !.loading = @ /\ c.kind # "list",
                                    !.creating = @ /\ ~Stops(c, TRUE)]
  BY DEF OwnerArrives
<1>2. /\ Done(c).creating = panel.creating /\ Done(c).protect = panel.protect
      /\ Done(c).password = panel.password
      /\ Done(c) \in [at: {panel.at}, listed: {panel.listed}, loading: {panel.loading},
                      error: {panel.error}, creating: BOOLEAN, protect: BOOLEAN,
                      password: Password \cup {None}, nag: {panel.nag}, busy: {Done(c).busy}]
  BY <1>0 DEF PanelType
<1> HIDE DEF Done
<1>3. CASE panel' = panel
  BY <1>0, <1>3 DEF PanelInv, PanelType, Tame
<1>4. CASE panel' = [Done(c) EXCEPT !.error = TRUE, !.loading = @ /\ c.kind # "list",
                                    !.creating = @ /\ ~Stops(c, FALSE)]
  BY <1>2, <1>4 DEF PanelInv, PanelType, Tame
<1>5. CASE panel' = [panel EXCEPT !.loading = TRUE, !.error = FALSE,
                        !.password = IF c.kind = "create" THEN None ELSE @,
                        !.protect = @ /\ c.kind # "create"]
  BY <1>0, <1>5 DEF PanelInv, PanelType, Tame
<1>6. CASE panel' = [Done(c) EXCEPT !.listed = IF c.kind = "list" THEN c.answer ELSE @,
                                    !.loading = @ /\ c.kind # "list",
                                    !.creating = @ /\ ~Stops(c, TRUE)]
  BY <1>2, <1>6 DEF PanelInv, PanelType, Tame
<1> QED BY <1>1, <1>3, <1>4, <1>5, <1>6

\* The switch and the field of the form.
LEMMA FormTame ==
  ASSUME PanelInv, ToggleProtect \/ TypePassword
  PROVE  panel' \in PanelType' /\ Tame(panel, panel')
<1>0. panel \in PanelType
  BY DEF PanelInv
<1>1. CASE ToggleProtect
  <2>1. panel' = [panel EXCEPT !.protect = ~panel.protect, !.nag = FALSE,
                               !.password = IF panel.protect THEN None ELSE @]
    BY <1>1 DEF ToggleProtect, Form
  <2> QED BY <1>0, <2>1 DEF PanelInv, PanelType, Tame
<1>2. CASE TypePassword
  <2>1. PICK pw \in Password \cup {None} :
          panel' = [panel EXCEPT !.password = pw, !.nag = FALSE]
    BY <1>2 DEF TypePassword, Form
  <2>2. panel.protect
    BY <1>2 DEF TypePassword
  <2> QED BY <1>0, <2>1, <2>2 DEF PanelInv, PanelType, Tame
<1> QED BY <1>1, <1>2

\* What a creation takes along.
LEMMA CreationShown ==
  ASSUME PanelInv, CreateLink
  PROVE  /\ panel' \in PanelType' /\ panel'.protect = panel.protect
         /\ panel'.password = panel.password
         /\ panel'.creating => \A c \in pcalls' \ pcalls : (c.pass # None) = panel.protect
<1>0. panel \in PanelType /\ ~panel.creating
  BY DEF PanelInv, CreateLink
<1>1. CASE panel.protect /\ panel.password = None
  <2>1. panel' = [panel EXCEPT !.nag = TRUE]
    BY <1>1 DEF CreateLink
  <2> QED BY <1>0, <2>1 DEF PanelType
<1>2. CASE ~(panel.protect /\ panel.password = None)
  <2>1. panel' = [panel EXCEPT !.nag = FALSE, !.creating = TRUE, !.error = FALSE]
    BY <1>2 DEF CreateLink
  <2>2. pcalls' = Sent(pcalls, "create", panel.password, None, "nothing")
    BY <1>2 DEF CreateLink
  <2>3. \A c \in pcalls' \ pcalls : c.pass = panel.password
    BY <2>2 DEF Sent, CallOf
  <2>4. (panel.password # None) = panel.protect
    BY <1>0, <1>2 DEF PanelInv, PanelType
  <2>5. /\ panel' \in PanelType' /\ panel'.protect = panel.protect
        /\ panel'.password = panel.password
    BY <1>0, <2>1 DEF PanelType
  <2> QED BY <2>3, <2>4, <2>5
<1> QED BY <1>1, <1>2

LEMMA PanelSteps ==
  ASSUME PanelInv, [LinksNext]_lvars
  PROVE  \/ CreateLink
         \/ panel' \in PanelType' /\ Tame(panel, panel')
<1>0. panel \in PanelType
  BY DEF PanelInv
<1>1. CASE OpenPanel \/ ClosePanel
  <2>1. \E at : panel' = Fresh(at)
    BY <1>1 DEF OpenPanel, ClosePanel
  <2> QED BY <2>1, FreshForm
<1>2. CASE RefreshTab
  <2>1. panel' = [panel EXCEPT !.loading = TRUE, !.error = FALSE]
    BY <1>2 DEF RefreshTab
  <2> QED BY <1>0, <2>1 DEF PanelInv, PanelType, Tame
<1>3. CASE ToggleProtect \/ TypePassword
  BY <1>3, FormTame
<1>4. CASE Revoke
  <2>1. \E token : panel' = [panel EXCEPT !.busy = token] \/ panel' = panel
    BY <1>4 DEF Revoke
  <2> QED BY <1>0, <2>1 DEF PanelInv, PanelType, Tame
<1>5. CASE OwnerArrives
  BY <1>5, ArrivalTame
<1>6. CASE OwnerCallFails \/ OtherClient \/ OwnerServed \/ MetaServed \/ UnlockFetched \/ UnlockChecked
             \/ UnlockServed \/ ContentChecked \/ ContentServed \/ VisitorCallFails \/ TimePasses \/ OpenPage \/ MetaArrives
             \/ Submit \/ UnlockArrives \/ OpenEntry \/ GoCrumb \/ ContentArrives
             \/ OpenLightbox \/ StepLightbox \/ CloseLightbox \/ Fetch \/ UNCHANGED lvars
  <2>1. panel' = panel
    BY <1>6 DEF OwnerCallFails, OtherClient, OwnerServed, MetaServed, UnlockFetched, UnlockChecked,
                UnlockServed, ContentChecked, ContentServed, VisitorCallFails, TimePasses, OpenPage, MetaArrives, Submit,
                UnlockArrives, OpenEntry, GoCrumb, GoInside, ContentArrives, OpenLightbox,
                StepLightbox, CloseLightbox, Lightbox, Fetch, owner, lvars
  <2> QED BY <1>0, <2>1 DEF PanelInv, PanelType, Tame
<1> QED BY <1>1, <1>2, <1>3, <1>4, <1>5, <1>6 DEF LinksNext

LEMMA PanelInvHolds ==
  LinksSpec => []PanelInv
<1>1. LinksInit => PanelInv
  BY DEF LinksInit, Fresh, PanelInv, PanelType
<1>2. PanelInv /\ [LinksNext]_lvars => PanelInv'
  BY PanelSteps, CreationShown DEF PanelInv, Tame
<1> QED BY <1>1, <1>2, PTL DEF LinksSpec

\* A link gets a password exactly if the switch is on: the form never keeps
\* one that was typed before the switch went off (handleCreate, ShareModal.tsx).
THEOREM LinksAreAsShown ==
  LinksSpec => LinkAsShown
<1> DEFINE Right ==
             /\ ~panel'.protect => panel'.password = None
             /\ panel'.creating /\ ~panel.creating =>
                  \A c \in pcalls' \ pcalls : (c.pass # None) = panel.protect
<1>1. PanelInv /\ [LinksNext]_lvars => [Right]_lvars
  BY PanelSteps, CreationShown DEF PanelInv, Tame
<1> QED BY <1>1, PanelInvHolds, PTL DEF LinksSpec, LinkAsShown

-----------------------------------------------------------------------------
(* The owner's calls.                                                       *)

WholeCall(c) ==
  c \in [no: 1..MaxCalls, kind: {"list", "create", "revoke"}, pass: {c.pass}, token: {c.token},
         then: {c.then}, here: BOOLEAN, answer: {c.answer}, bad: BOOLEAN]

\* Calls have numbers of their own; lists belong to the screen that is open.
CallsOk(cs) ==
  /\ IsFiniteSet(cs)
  /\ \A c \in cs : WholeCall(c)
  /\ \A c, d \in cs : c.no = d.no => c = d
  /\ \A c \in cs : c.kind = "list" => c.here
  /\ \A c \in cs : c.then # "nothing" => c.kind = "list"

\* What a screen waits for is on its way.
WaitsRight(cs, p) ==
  /\ p.at = "files" => p = Fresh("files") /\ \A c \in cs : ~c.here
  /\ p.creating => \E c \in cs : c.here /\ Stops(c, TRUE)
  /\ p.loading => Waiting(cs)
  /\ p.busy # None => \E c \in cs : c.here /\ (c.kind = "revoke" \/ c.then = "revoked")

Late(cs) == \E c \in cs : c.here /\ c.kind # "list"
Lists(cs) == {c \in cs : c.kind = "list"}

\* Before others interfere: a change that is not listed yet is still on its
\* way, or the one list that is asked for will tell, or has told, of it.
UpToDate(cs, p, x, rows) ==
  p.at # "files" /\ ~x =>
    /\ \A c \in cs : ~Answered(c) => c.here
    /\ \A c, d \in Lists(cs) : c = d
    /\ \/ p.error \/ Late(cs)
       \/ Lists(cs) = {} /\ p.listed = rows
       \/ Lists(cs) # {} /\ \A c \in Lists(cs) : c.bad \/ c.answer \in {None, rows}

OwnerInv ==
  /\ CallsOk(pcalls)
  /\ WaitsRight(pcalls, panel) /\ UpToDate(pcalls, panel, crossed, Rows)

LEMMA FreeNoIsFree ==
  ASSUME NEW cs, CallsOk(cs), Room(cs)
  PROVE  FreeNo(cs) \in 1..MaxCalls /\ \A c \in cs : c.no # FreeNo(cs)
<1>1. SUFFICES ASSUME \A n \in 1..MaxCalls : \E c \in cs : c.no = n
               PROVE  FALSE
  BY DEF FreeNo
<1> DEFINE g == [n \in 1..MaxCalls |-> CHOOSE c \in cs : c.no = n]
<1>2. \A n \in 1..MaxCalls : g[n] \in cs /\ g[n].no = n
  BY <1>1
<1>3. g \in Injection(1..MaxCalls, cs)
  BY <1>2 DEF Injection, IsInjective
<1>4. IsFiniteSet(cs) /\ MaxCalls \in Nat
  BY LinksBounds DEF CallsOk
<1> HIDE DEF g
<1>5. Cardinality(1..MaxCalls) <= Cardinality(cs)
  BY <1>3, <1>4, FS_Injection
<1>6. Cardinality(1..MaxCalls) = MaxCalls
  BY <1>4, FS_Interval
<1>7. Cardinality(cs) \in Nat
  BY <1>4, FS_CardinalityType
<1> QED BY <1>4, <1>5, <1>6, <1>7 DEF Room

LEMMA CallSent ==
  ASSUME NEW cs, CallsOk(cs), Room(cs), NEW kind \in {"list", "create", "revoke"},
         NEW pass, NEW token, NEW then, then # "nothing" => kind = "list",
         NEW ds, ds = Sent(cs, kind, pass, token, then)
  PROVE  /\ CallsOk(ds)
         /\ \E q : /\ ds = cs \cup {q} /\ q.kind = kind /\ q.then = then
                  /\ q.here /\ q.answer = None
<1> DEFINE q == CallOf(FreeNo(cs), kind, pass, token, then)
<1>1. /\ q.kind = kind /\ q.then = then /\ q.here /\ q.answer = None /\ q.no = FreeNo(cs)
      /\ q \in [no: {FreeNo(cs)}, kind: {kind}, pass: {q.pass}, token: {q.token}, then: {q.then},
                here: BOOLEAN, answer: {q.answer}, bad: BOOLEAN]
  BY DEF CallOf
<1>2. ds = cs \cup {q}
  BY DEF Sent
<1> HIDE DEF q
<1>3. q.no \in 1..MaxCalls /\ \A c \in cs : c.no # q.no
  BY <1>1, FreeNoIsFree
<1>4. WholeCall(q)
  BY <1>1, <1>3 DEF WholeCall
<1>5. IsFiniteSet(ds)
  BY <1>2, FS_AddElement DEF CallsOk
<1>6. CallsOk(ds)
  BY <1>1, <1>2, <1>3, <1>4, <1>5 DEF CallsOk
<1> QED BY <1>1, <1>2, <1>6

\* The server's answer, and a failure, leave the rest of a call alone.
Follows(c, d) ==
  /\ WholeCall(d) /\ d.no = c.no /\ d.kind = c.kind /\ d.then = c.then /\ d.here = c.here

LEMMA AnswerFollows ==
  ASSUME NEW c, WholeCall(c), NEW answer
  PROVE  /\ Follows(c, [c EXCEPT !.answer = answer])
         /\ [c EXCEPT !.answer = answer].answer = answer
         /\ Follows(c, [c EXCEPT !.bad = TRUE]) /\ [c EXCEPT !.bad = TRUE].bad = TRUE
  BY DEF Follows, WholeCall

LEMMA CallReplaced ==
  ASSUME NEW cs, CallsOk(cs), NEW c \in cs, NEW d, Follows(c, d)
  PROVE  CallsOk((cs \ {c}) \cup {d})
<1>1. IsFiniteSet((cs \ {c}) \cup {d})
  BY FS_AddElement, FS_RemoveElement DEF CallsOk
<1> QED BY <1>1 DEF CallsOk, Follows

LEMMA CallRemoved ==
  ASSUME NEW cs, CallsOk(cs), NEW c \in cs
  PROVE  CallsOk(cs \ {c})
<1>1. IsFiniteSet(cs \ {c})
  BY FS_RemoveElement DEF CallsOk
<1> QED BY <1>1 DEF CallsOk

\* The list is asked for anew; x: two lists, or a change of another screen's.
LEMMA ListAsked ==
  ASSUME NEW cs, CallsOk(cs), Room(cs), NEW then, NEW x, NEW p, NEW rows,
         ~x => ~Waiting(cs) /\ \A c \in cs : ~Answered(c) => c.here,
         NEW ds, ds = Sent(cs, "list", None, None, then)
  PROVE  /\ CallsOk(ds) /\ UpToDate(ds, p, x, rows)
         /\ \E q : ds = cs \cup {q} /\ q.kind = "list" /\ q.then = then /\ q.here
<1>1. PICK q : /\ ds = cs \cup {q} /\ CallsOk(ds)
               /\ q.kind = "list" /\ q.then = then /\ q.here /\ q.answer = None
  BY CallSent
<1>2. ~Waiting(cs) => Lists(ds) = {q}
  BY <1>1 DEF Waiting, Lists, CallsOk
<1>3. UpToDate(ds, p, x, rows)
  BY <1>1, <1>2 DEF UpToDate
<1> QED BY <1>1, <1>3

LEMMA OpenPanelKeepsOwner ==
  ASSUME OwnerInv, OpenPanel
  PROVE  OwnerInv'
<1>1. /\ Room(pcalls) /\ CallsOk(pcalls) /\ \A c \in pcalls : ~c.here
      /\ pcalls' = Sent(pcalls, "list", None, None, "nothing")
  BY DEF OpenPanel, OwnerInv, WaitsRight
<1>2. PICK at \in {"modal", "tab"} : panel' = Fresh(at)
  BY DEF OpenPanel
<1>3. ~crossed' => ~Waiting(pcalls) /\ \A c \in pcalls : ~Answered(c) => c.here
  BY <1>1 DEF Waiting, OpenPanel
<1>4. PICK q : /\ pcalls' = pcalls \cup {q} /\ CallsOk(pcalls')
               /\ q.kind = "list" /\ q.here
               /\ UpToDate(pcalls', panel', crossed', Rows')
  BY <1>1, <1>3, ListAsked
<1>5. panel'.at # "files" /\ ~panel'.creating /\ panel'.busy = None
  BY <1>2 DEF Fresh
<1> QED BY <1>4, <1>5 DEF OwnerInv, WaitsRight, Waiting

LEMMA ClosePanelKeepsOwner ==
  ASSUME OwnerInv, ClosePanel
  PROVE  OwnerInv'
<1> DEFINE Gone(c) == [c EXCEPT !.here = FALSE]
           kept == {c \in pcalls : c.kind # "list"}
           f == [c \in kept |-> Gone(c)]
<1>1. pcalls' = {Gone(c) : c \in kept} /\ panel' = Fresh("files") /\ CallsOk(pcalls)
  BY DEF ClosePanel, OwnerInv
<1>2. \A c \in pcalls : WholeCall(c)
  BY <1>1 DEF CallsOk
<1>3. \A c \in pcalls : /\ WholeCall(Gone(c)) /\ Gone(c).no = c.no /\ Gone(c).kind = c.kind
                        /\ Gone(c).then = c.then /\ Gone(c).here = FALSE
  BY <1>2 DEF WholeCall
<1>4. kept \subseteq pcalls /\ IsFiniteSet(kept)
  BY <1>1, FS_Subset DEF CallsOk
<1>5. f \in Surjection(kept, pcalls')
  BY <1>1 DEF Surjection
<1>6. IsFiniteSet(pcalls')
  BY <1>4, <1>5, FS_Surjection
<1>7. \A d \in pcalls' : \E c \in pcalls : c.kind # "list" /\ d = Gone(c)
  BY <1>1
<1> HIDE DEF Gone, f, kept
<1>8. CallsOk(pcalls')
  BY <1>1, <1>3, <1>6, <1>7 DEF CallsOk
<1>9. /\ panel'.at = "files" /\ ~panel'.creating /\ ~panel'.loading /\ panel'.busy = None
  BY <1>1 DEF Fresh
<1>10. WaitsRight(pcalls', panel')
  BY <1>1, <1>3, <1>7, <1>9 DEF WaitsRight
<1> QED BY <1>8, <1>9, <1>10 DEF OwnerInv, UpToDate

LEMMA RefreshKeepsOwner ==
  ASSUME PanelInv, OwnerInv, RefreshTab
  PROVE  OwnerInv'
<1>1. /\ panel.at = "tab" /\ Load(pcalls, "nothing")
      /\ panel' = [panel EXCEPT !.loading = TRUE, !.error = FALSE]
  BY DEF RefreshTab
<1>2. /\ panel'.at = "tab" /\ panel'.creating = panel.creating /\ panel'.busy = panel.busy
  BY <1>1 DEF PanelInv, PanelType
<1>3. /\ CallsOk(pcalls) /\ Room(pcalls)
      /\ pcalls' = Sent(pcalls, "list", None, None, "nothing")
      /\ ~crossed' => ~Waiting(pcalls) /\ \A c \in pcalls : ~Answered(c) => c.here
  BY <1>1 DEF Load, OwnerInv, UpToDate
<1>5. PICK q : /\ pcalls' = pcalls \cup {q} /\ CallsOk(pcalls')
               /\ q.kind = "list" /\ q.here
               /\ UpToDate(pcalls', panel', crossed', Rows')
  BY <1>3, ListAsked
<1>6. WaitsRight(pcalls', panel')
  BY <1>1, <1>2, <1>5 DEF OwnerInv, WaitsRight, Waiting
<1> QED BY <1>5, <1>6 DEF OwnerInv

\* The form is not the list.
LEMMA FormKeepsOwner ==
  ASSUME PanelInv, OwnerInv, ToggleProtect \/ TypePassword
  PROVE  OwnerInv'
<1>1. UNCHANGED <<links, pcalls, crossed>> /\ panel.at = "modal"
  BY DEF ToggleProtect, TypePassword, Form
<1>2. /\ panel'.at = panel.at /\ panel'.creating = panel.creating /\ panel'.busy = panel.busy
      /\ panel'.loading = panel.loading /\ panel'.error = panel.error
      /\ panel'.listed = panel.listed
  BY DEF ToggleProtect, TypePassword, Form, PanelInv, PanelType
<1>3. WaitsRight(pcalls', panel')
  BY <1>1, <1>2 DEF OwnerInv, WaitsRight
<1>4. UpToDate(pcalls', panel', crossed', Rows')
  BY <1>1, <1>2 DEF OwnerInv, UpToDate, Rows
<1> QED BY <1>1, <1>3, <1>4 DEF OwnerInv

\* A change is sent from an open screen.
LEMMA ChangeSent ==
  ASSUME OwnerInv, panel.at # "files", Room(pcalls), UNCHANGED <<links, crossed>>,
         NEW kind \in {"create", "revoke"}, NEW pass, NEW token,
         pcalls' = Sent(pcalls, kind, pass, token, "nothing"),
         panel'.at = panel.at, panel'.loading = panel.loading,
         panel'.creating => panel.creating \/ kind = "create",
         panel'.busy # None => panel.busy # None \/ kind = "revoke"
  PROVE  OwnerInv'
<1>2. CallsOk(pcalls)
  BY DEF OwnerInv
<1>3. PICK q : pcalls' = pcalls \cup {q} /\ CallsOk(pcalls') /\ q.kind = kind /\ q.here
  BY <1>2, CallSent
<1>4. Late(pcalls') /\ Lists(pcalls') = Lists(pcalls)
  BY <1>3 DEF Late, Lists
<1>5. WaitsRight(pcalls', panel')
  BY <1>3 DEF OwnerInv, WaitsRight, Waiting, Stops
<1>6. UpToDate(pcalls', panel', crossed', Rows')
  BY <1>3, <1>4 DEF OwnerInv, UpToDate
<1> QED BY <1>3, <1>5, <1>6 DEF OwnerInv

LEMMA CreateKeepsOwner ==
  ASSUME PanelInv, OwnerInv, CreateLink
  PROVE  OwnerInv'
<1>1. UNCHANGED <<links, crossed>> /\ panel.at = "modal"
  BY DEF CreateLink
<1>2. CASE panel.protect /\ panel.password = None
  <2>1. panel' = [panel EXCEPT !.nag = TRUE] /\ UNCHANGED pcalls
    BY <1>2 DEF CreateLink
  <2>2. /\ panel'.at = panel.at /\ panel'.creating = panel.creating /\ panel'.busy = panel.busy
        /\ panel'.loading = panel.loading /\ panel'.error = panel.error
        /\ panel'.listed = panel.listed
    BY <2>1 DEF PanelInv, PanelType
  <2>3. WaitsRight(pcalls', panel')
    BY <1>1, <2>1, <2>2 DEF OwnerInv, WaitsRight
  <2>4. UpToDate(pcalls', panel', crossed', Rows')
    BY <1>1, <2>1, <2>2 DEF OwnerInv, UpToDate, Rows
  <2> QED BY <2>1, <2>3, <2>4 DEF OwnerInv
<1>3. CASE ~(panel.protect /\ panel.password = None)
  <2>1. /\ panel' = [panel EXCEPT !.nag = FALSE, !.creating = TRUE, !.error = FALSE]
        /\ Room(pcalls) /\ pcalls' = Sent(pcalls, "create", panel.password, None, "nothing")
    BY <1>3 DEF CreateLink
  <2>2. panel'.at = panel.at /\ panel'.busy = panel.busy /\ panel'.loading = panel.loading
    BY <2>1 DEF PanelInv, PanelType
  <2> QED BY <1>1, <2>1, <2>2, ChangeSent
<1> QED BY <1>2, <1>3

LEMMA RevokeKeepsOwner ==
  ASSUME PanelInv, OwnerInv, Revoke
  PROVE  OwnerInv'
<1>1. UNCHANGED <<links, crossed>> /\ panel.at # "files" /\ Room(pcalls)
  BY DEF Revoke
<1>2. PICK r \in panel.listed :
        /\ pcalls' = Sent(pcalls, "revoke", None, r.token, "nothing")
        /\ panel' = IF panel.at = "tab" THEN [panel EXCEPT !.busy = r.token] ELSE panel
  BY DEF Revoke
<1>3. /\ panel'.at = panel.at /\ panel'.loading = panel.loading
      /\ panel'.creating = panel.creating
  BY <1>2 DEF PanelInv, PanelType
<1> QED BY <1>1, <1>2, <1>3, ChangeSent

\* The server answers, or a call fails; a change is then still on its way.
LEMMA AnswerKeepsOwner ==
  ASSUME OwnerInv, NEW c \in pcalls, NEW d, Follows(c, d),
         pcalls' = (pcalls \ {c}) \cup {d}, UNCHANGED <<panel, crossed>>,
         Answered(c) => Answered(d),
         c.kind = "list" => d.bad \/ d.answer = Rows,
         UNCHANGED Rows \/ (c.kind # "list" /\ ~Answered(c))
  PROVE  OwnerInv'
<1>1. CallsOk(pcalls')
  BY CallReplaced DEF OwnerInv
<1>2. d.kind = c.kind /\ d.then = c.then /\ d.here = c.here
  BY DEF Follows
<1>3. WaitsRight(pcalls', panel')
  BY <1>2 DEF OwnerInv, WaitsRight, Waiting, Stops
<1>4. Late(pcalls) => Late(pcalls')
  BY <1>2 DEF Late
<1>5. Lists(pcalls') = IF c.kind = "list" THEN (Lists(pcalls) \ {c}) \cup {d} ELSE Lists(pcalls)
  BY <1>2 DEF Lists
<1>6. UpToDate(pcalls', panel', crossed', Rows')
  <2>1. SUFFICES ASSUME panel.at # "files", ~crossed
                 PROVE  UpToDate(pcalls', panel', crossed', Rows')
    BY DEF UpToDate
  <2>2. /\ \A e \in pcalls : ~Answered(e) => e.here
        /\ \A e, f \in Lists(pcalls) : e = f
        /\ \/ panel.error \/ Late(pcalls)
           \/ Lists(pcalls) = {} /\ panel.listed = Rows
           \/ Lists(pcalls) # {} /\ \A e \in Lists(pcalls) : e.bad \/ e.answer \in {None, Rows}
    BY <2>1 DEF OwnerInv, UpToDate
  <2>3. /\ \A e \in pcalls' : ~Answered(e) => e.here
        /\ \A e, f \in Lists(pcalls') : e = f
    BY <1>2, <1>5, <2>2 DEF Lists
  <2>4. CASE c.kind # "list" /\ ~Answered(c)
    <3>1. Late(pcalls')
      BY <1>2, <2>2, <2>4 DEF Late
    <3> QED BY <2>2, <2>3, <3>1 DEF UpToDate
  <2>5. CASE UNCHANGED Rows
    <3>1. c.kind = "list" => c \in Lists(pcalls)
      BY DEF Lists
    <3> QED BY <1>4, <1>5, <2>2, <2>3, <2>5, <3>1 DEF UpToDate
  <2> QED BY <2>4, <2>5
<1> QED BY <1>1, <1>3, <1>6 DEF OwnerInv

LEMMA ServedKeepsOwner ==
  ASSUME OwnerInv, OwnerServed
  PROVE  OwnerInv'
<1>1. PICK c \in pcalls : ~Answered(c) /\ (CreateServed(c) \/ ListServed(c) \/ RevokeServed(c))
  BY DEF OwnerServed
<1>2. UNCHANGED <<panel, crossed>> /\ WholeCall(c)
  BY DEF OwnerServed, OwnerInv, CallsOk
<1>3. CASE ListServed(c)
  <2> DEFINE d == [c EXCEPT !.answer = Rows]
  <2>1. pcalls' = (pcalls \ {c}) \cup {d} /\ UNCHANGED links
    BY <1>3 DEF ListServed
  <2>2. Follows(c, d) /\ d.answer = Rows
    BY <1>2, AnswerFollows
  <2>3. UNCHANGED Rows
    BY <2>1 DEF Rows
  <2> HIDE DEF d
  <2> QED BY <1>1, <1>2, <2>1, <2>2, <2>3, AnswerKeepsOwner
<1>4. CASE CreateServed(c) \/ RevokeServed(c)
  <2>1. c.kind # "list"
    BY <1>4 DEF CreateServed, RevokeServed
  <2>2. PICK d : /\ pcalls' = (pcalls \ {c}) \cup {d}
                 /\ d = [c EXCEPT !.answer = {}] \/ d = [c EXCEPT !.bad = TRUE]
    BY <1>4 DEF CreateServed, RevokeServed
  <2>3. Follows(c, d)
    BY <1>2, <2>2, AnswerFollows
  <2> QED BY <1>1, <1>2, <2>1, <2>2, <2>3, AnswerKeepsOwner
<1> QED BY <1>1, <1>3, <1>4

LEMMA FailureKeepsOwner ==
  ASSUME OwnerInv, OwnerCallFails
  PROVE  OwnerInv'
<1>1. PICK c \in pcalls : pcalls' = (pcalls \ {c}) \cup {[c EXCEPT !.bad = TRUE]}
  BY DEF OwnerCallFails
<1>2. UNCHANGED <<panel, crossed>> /\ UNCHANGED Rows /\ WholeCall(c)
  BY DEF OwnerCallFails, OwnerInv, CallsOk, Rows
<1> DEFINE d == [c EXCEPT !.bad = TRUE]
<1>3. Follows(c, d) /\ d.bad
  BY <1>2, AnswerFollows
<1>4. pcalls' = (pcalls \ {c}) \cup {d}
  BY <1>1
<1> HIDE DEF d
<1> QED BY <1>2, <1>3, <1>4, AnswerKeepsOwner DEF Answered

\* The answer to a call that nobody waits for any more is dropped.
LEMMA DropKeepsOwner ==
  ASSUME OwnerInv, NEW c \in pcalls, ~c.here, pcalls' = pcalls \ {c},
         UNCHANGED <<panel, crossed, links>>
  PROVE  OwnerInv'
<1>1. CallsOk(pcalls') /\ c.kind # "list"
  BY CallRemoved DEF OwnerInv, CallsOk
<1>2. WaitsRight(pcalls', panel')
  BY DEF OwnerInv, WaitsRight, Waiting
<1>3. Lists(pcalls') = Lists(pcalls) /\ (Late(pcalls) => Late(pcalls'))
  BY <1>1 DEF Lists, Late
<1>4. UpToDate(pcalls', panel', crossed', Rows')
  BY <1>3 DEF OwnerInv, UpToDate, Rows
<1> QED BY <1>1, <1>2, <1>4 DEF OwnerInv

\* What is left of the screen's fields when an answer ends its call.
Done(c) ==
  IF c.then = "revoked" \/ (c.kind = "revoke" /\ c.bad)
  THEN [panel EXCEPT !.busy = None] ELSE panel

LEMMA DoneFields ==
  ASSUME PanelInv, NEW c
  PROVE  /\ Done(c) \in [at: {panel.at}, listed: {panel.listed}, loading: {panel.loading},
                         error: {panel.error}, creating: BOOLEAN, protect: BOOLEAN,
                         password: Password \cup {None}, nag: {panel.nag}, busy: {Done(c).busy}]
         /\ Done(c).creating = panel.creating
         /\ Done(c).busy # None =>
              panel.busy # None /\ c.then # "revoked" /\ ~(c.kind = "revoke" /\ c.bad)
  BY DEF Done, PanelInv, PanelType

\* An error ends what the call was made for, and is shown.
LEMMA BadKeepsOwner ==
  ASSUME PanelInv, OwnerInv, NEW c \in pcalls, c.here, c.bad, pcalls' = pcalls \ {c},
         UNCHANGED <<crossed, links>>,
         panel' = [Done(c) EXCEPT !.error = TRUE, !.loading = @ /\ c.kind # "list",
                                  !.creating = @ /\ ~Stops(c, FALSE)]
  PROVE  OwnerInv'
<1>1. /\ panel'.at = panel.at /\ panel'.error
      /\ panel'.loading => panel.loading /\ c.kind # "list"
      /\ panel'.creating => panel.creating /\ ~Stops(c, TRUE)
      /\ panel'.busy = Done(c).busy
  BY DoneFields DEF Stops
<1>2. panel'.busy # None =>
        panel.busy # None /\ c.then # "revoked" /\ ~(c.kind = "revoke" /\ c.bad)
  BY <1>1, DoneFields
<1>3. CallsOk(pcalls')
  BY CallRemoved DEF OwnerInv
<1>4. WaitsRight(pcalls', panel')
  <2>1. panel'.at # "files"
    BY <1>1 DEF OwnerInv, WaitsRight
  <2>2. panel'.loading => Waiting(pcalls')
    BY <1>1 DEF OwnerInv, WaitsRight, Waiting
  <2>3. panel'.creating => \E e \in pcalls' : e.here /\ Stops(e, TRUE)
    BY <1>1 DEF OwnerInv, WaitsRight
  <2>4. panel'.busy # None =>
          \E e \in pcalls' : e.here /\ (e.kind = "revoke" \/ e.then = "revoked")
    BY <1>2 DEF OwnerInv, WaitsRight
  <2> QED BY <2>1, <2>2, <2>3, <2>4 DEF WaitsRight
<1>5. UpToDate(pcalls', panel', crossed', Rows')
  BY <1>1 DEF OwnerInv, UpToDate, Lists
<1> QED BY <1>3, <1>4, <1>5 DEF OwnerInv

\* A change that was made asks for the list.
LEMMA ReloadKeepsOwner ==
  ASSUME PanelInv, OwnerInv, NEW c \in pcalls, c.here, Reloads(c), UNCHANGED links,
         Load(pcalls \ {c}, IF c.kind = "create" THEN "created" ELSE "revoked"),
         panel' = [panel EXCEPT !.loading = TRUE, !.error = FALSE,
                        !.password = IF c.kind = "create" THEN None ELSE @,
                        !.protect = @ /\ c.kind # "create"]
  PROVE  OwnerInv'
<1>1. PICK then : /\ then = IF c.kind = "create" THEN "created" ELSE "revoked"
                  /\ Load(pcalls \ {c}, then)
  OBVIOUS
<1>2. /\ panel'.at = panel.at /\ panel'.creating = panel.creating /\ panel'.busy = panel.busy
  BY DEF PanelInv, PanelType
<1>3. panel.at # "files" /\ WholeCall(c) /\ c.kind \in {"create", "revoke"}
  BY DEF OwnerInv, WaitsRight, CallsOk, WholeCall, Reloads
<1>4. CallsOk(pcalls \ {c}) /\ Room(pcalls \ {c})
  BY <1>1, CallRemoved DEF OwnerInv, Load
<1>5. pcalls' = Sent(pcalls \ {c}, "list", None, None, then)
  BY <1>1 DEF Load
<1>6. ~crossed' => ~Waiting(pcalls \ {c}) /\ \A e \in pcalls \ {c} : ~Answered(e) => e.here
  BY <1>1, <1>3 DEF Load, OwnerInv, UpToDate
<1>7. PICK q : /\ pcalls' = (pcalls \ {c}) \cup {q} /\ CallsOk(pcalls')
               /\ q.kind = "list" /\ q.then = then /\ q.here
               /\ UpToDate(pcalls', panel', crossed', Rows')
  BY <1>4, <1>5, <1>6, ListAsked
<1>8. WaitsRight(pcalls', panel')
  <2>1. panel.creating => \E e \in pcalls' : e.here /\ Stops(e, TRUE)
    <3>1. c.then = "created" => c.kind = "list"
      BY DEF OwnerInv, CallsOk
    <3> QED BY <1>1, <1>3, <1>7, <3>1 DEF OwnerInv, WaitsRight, Stops
  <2>2. panel.busy # None =>
          \E e \in pcalls' : e.here /\ (e.kind = "revoke" \/ e.then = "revoked")
    <3>1. c.then = "revoked" => c.kind = "list"
      BY DEF OwnerInv, CallsOk
    <3> QED BY <1>1, <1>3, <1>7, <3>1 DEF OwnerInv, WaitsRight
  <2> QED BY <1>2, <1>3, <1>7, <2>1, <2>2 DEF WaitsRight, Waiting
<1> QED BY <1>7, <1>8 DEF OwnerInv

\* The list that arrives is the newest there is.
LEMMA ListKeepsOwner ==
  ASSUME PanelInv, OwnerInv, NEW c \in pcalls, c.here, ~c.bad, Answered(c), c.kind = "list",
         pcalls' = pcalls \ {c}, UNCHANGED <<crossed, links>>,
         panel' = [Done(c) EXCEPT !.listed = IF c.kind = "list" THEN c.answer ELSE @,
                                  !.loading = @ /\ c.kind # "list",
                                  !.creating = @ /\ ~Stops(c, TRUE)]
  PROVE  OwnerInv'
<1>1. /\ panel'.at = panel.at /\ panel'.listed = c.answer /\ ~panel'.loading
      /\ panel'.error = panel.error
      /\ panel'.creating => panel.creating /\ ~Stops(c, TRUE)
      /\ panel'.busy = Done(c).busy
  BY DoneFields
<1>2. panel'.busy # None => panel.busy # None /\ c.then # "revoked"
  BY <1>1, DoneFields
<1>3. CallsOk(pcalls')
  BY CallRemoved DEF OwnerInv
<1>4. WaitsRight(pcalls', panel')
  <2>1. panel'.at # "files"
    BY <1>1 DEF OwnerInv, WaitsRight
  <2>2. panel'.creating => \E e \in pcalls' : e.here /\ Stops(e, TRUE)
    BY <1>1 DEF OwnerInv, WaitsRight
  <2>3. panel'.busy # None =>
          \E e \in pcalls' : e.here /\ (e.kind = "revoke" \/ e.then = "revoked")
    BY <1>2 DEF OwnerInv, WaitsRight
  <2> QED BY <1>1, <2>1, <2>2, <2>3 DEF WaitsRight
<1>5. UpToDate(pcalls', panel', crossed', Rows')
  <2>1. SUFFICES ASSUME panel.at # "files", ~crossed
                 PROVE  UpToDate(pcalls', panel', crossed', Rows')
    BY <1>1 DEF UpToDate
  <2>2. /\ \A e \in pcalls : ~Answered(e) => e.here
        /\ \A e, f \in Lists(pcalls) : e = f
        /\ panel.error \/ Late(pcalls) \/ \A e \in Lists(pcalls) : e.bad \/ e.answer \in {None, Rows}
    BY <2>1 DEF OwnerInv, UpToDate
  <2>3. c \in Lists(pcalls) /\ Lists(pcalls') = {} /\ (Late(pcalls) => Late(pcalls'))
    BY <2>2 DEF Lists, Late
  <2>4. UNCHANGED Rows
    BY DEF Rows
  <2>5. panel.error \/ Late(pcalls') \/ c.answer = Rows
    BY <2>2, <2>3 DEF Answered
  <2> QED BY <1>1, <2>2, <2>3, <2>4, <2>5 DEF UpToDate
<1> QED BY <1>3, <1>4, <1>5 DEF OwnerInv

LEMMA ArrivalKeepsOwner ==
  ASSUME PanelInv, OwnerInv, OwnerArrives
  PROVE  OwnerInv'
<1>0. UNCHANGED links
  BY DEF OwnerArrives
<1>1. PICK c \in pcalls :
        /\ Answered(c)
        /\ IF ~c.here
           THEN pcalls' = pcalls \ {c} /\ UNCHANGED <<panel, crossed>>
           ELSE IF c.bad
           THEN /\ panel' = [Done(c) EXCEPT !.error = TRUE, !.loading = @ /\ c.kind # "list",
                                            !.creating = @ /\ ~Stops(c, FALSE)]
                /\ pcalls' = pcalls \ {c} /\ UNCHANGED crossed
           ELSE IF Reloads(c)
           THEN /\ Load(pcalls \ {c}, IF c.kind = "create" THEN "created" ELSE "revoked")
                /\ panel' = [panel EXCEPT !.loading = TRUE, !.error = FALSE,
                      !.password = IF c.kind = "create" THEN None ELSE @,
                      !.protect = @ /\ c.kind # "create"]
           ELSE /\ panel' = [Done(c) EXCEPT
                      !.listed = IF c.kind = "list" THEN c.answer ELSE @,
                      !.loading = @ /\ c.kind # "list",
                      !.creating = @ /\ ~Stops(c, TRUE)]
                /\ pcalls' = pcalls \ {c} /\ UNCHANGED crossed
  BY Zenon DEF OwnerArrives, Done
<1>2. CASE ~c.here
  BY <1>0, <1>1, <1>2, DropKeepsOwner
<1>3. CASE c.here /\ c.bad
  BY <1>0, <1>1, <1>3, BadKeepsOwner
<1>4. CASE c.here /\ ~c.bad /\ Reloads(c)
  BY <1>0, <1>1, <1>4, ReloadKeepsOwner
<1>5. CASE c.here /\ ~c.bad /\ ~Reloads(c)
  <2>1. c.kind = "list"
    BY <1>5 DEF Reloads
  <2> QED BY <1>0, <1>1, <1>5, <2>1, ListKeepsOwner
<1> QED BY <1>2, <1>3, <1>4, <1>5

LEMMA NextKeepsOwner ==
  ASSUME PanelInv, OwnerInv, [LinksNext]_lvars
  PROVE  OwnerInv'
<1>1. CASE OpenPanel \/ ClosePanel \/ RefreshTab
  BY <1>1, OpenPanelKeepsOwner, ClosePanelKeepsOwner, RefreshKeepsOwner
<1>2. CASE ToggleProtect \/ TypePassword \/ CreateLink \/ Revoke
  BY <1>2, FormKeepsOwner, CreateKeepsOwner, RevokeKeepsOwner
<1>3. CASE OwnerCallFails \/ OwnerServed \/ OwnerArrives
  BY <1>3, FailureKeepsOwner, ServedKeepsOwner, ArrivalKeepsOwner
<1>4. CASE OtherClient
  <2>1. UNCHANGED <<panel, pcalls>> /\ crossed'
    BY <1>4 DEF OtherClient
  <2> QED BY <2>1 DEF OwnerInv, UpToDate, WaitsRight
<1>5. CASE MetaServed \/ UnlockFetched \/ UnlockChecked \/ UnlockServed \/ ContentChecked \/ ContentServed \/ VisitorCallFails \/ TimePasses
             \/ OpenPage \/ MetaArrives \/ Submit \/ UnlockArrives \/ OpenEntry \/ GoCrumb
             \/ ContentArrives \/ OpenLightbox \/ StepLightbox \/ CloseLightbox \/ Fetch
             \/ UNCHANGED lvars
  <2>1. UNCHANGED <<links, panel, pcalls, crossed>>
    BY <1>5 DEF MetaServed, UnlockFetched, UnlockChecked, UnlockServed, ContentChecked, ContentServed, VisitorCallFails, TimePasses, OpenPage,
                MetaArrives, Submit, UnlockArrives, OpenEntry, GoCrumb, GoInside, ContentArrives,
                OpenLightbox, StepLightbox, CloseLightbox, Lightbox, Fetch, owner, lvars
  <2> QED BY <2>1 DEF OwnerInv, UpToDate, WaitsRight, Rows
<1> QED BY <1>1, <1>2, <1>3, <1>4, <1>5 DEF LinksNext

LEMMA OwnerInvHolds ==
  LinksSpec => []OwnerInv
<1>1. LinksInit => OwnerInv
  <2> SUFFICES ASSUME LinksInit PROVE OwnerInv
    OBVIOUS
  <2>1. panel = Fresh("files") /\ pcalls = {} /\ IsFiniteSet(pcalls)
    BY FS_EmptySet DEF LinksInit
  <2>2. panel.at = "files" /\ ~panel.creating /\ ~panel.loading /\ panel.busy = None
    BY <2>1 DEF Fresh
  <2> QED BY <2>1, <2>2 DEF OwnerInv, CallsOk, WaitsRight, UpToDate
<1>2. PanelInv /\ OwnerInv /\ [LinksNext]_lvars => OwnerInv'
  BY NextKeepsOwner
<1> QED BY <1>1, <1>2, PanelInvHolds, PTL DEF LinksSpec

\* When the owner's screen waits for nothing and shows no error it lists the
\* links as they are, provided nobody else changed them and it never asked for
\* the list while it waited for one: then every creation and revocation of its
\* own is listed, also one whose screen was closed and opened again
\* (ShareModal.tsx, SharesTab.tsx).  Of lists that overtake each other, or that
\* fail, it says nothing.
THEOREM ListTellsTheLinks ==
  LinksSpec => []ListedWhenQuiet
<1>1. OwnerInv => ListedWhenQuiet
  BY DEF OwnerInv, UpToDate, Late, Lists, ListedWhenQuiet
<1> QED BY <1>1, OwnerInvHolds, PTL

-----------------------------------------------------------------------------
(* Rows, strikes, and what the page is in the middle of.                    *)

WholeLink(l) == l \in [token: Nat, pass: {l.pass}, active: BOOLEAN]

\* Numbers are handed out downwards, so that a new link has one of its own.
TokensOk ==
  /\ left \in [links : Nat, acts : Nat, visits : Nat, fails : Nat]
  /\ \A l \in links : WholeLink(l) /\ left.links < l.token
  /\ \A l, m \in links : l.token = m.token => l = m

StrikesOk == strikes \in [1..MaxLinks -> Nat]

PageWaits ==
  /\ visit.busy => visit.screen = "locked" /\ \E c \in vcalls : c.kind = "unlock"
  /\ visit.screen = "ready" => visit.token \in proven

LEMMA SpendLess ==
  ASSUME TokensOk, NEW what \in {"links", "acts", "visits", "fails"}, Spend(what)
  PROVE  /\ left' \in [links : Nat, acts : Nat, visits : Nat, fails : Nat]
         /\ left'.links <= left.links
         /\ what = "links" => left.links \in Nat /\ left'.links < left.links
  BY DEF TokensOk, Spend

LEMMA RevokedTokens ==
  ASSUME TokensOk, NEW t, links' = Revoked(t), left'.links <= left.links,
         left' \in [links : Nat, acts : Nat, visits : Nat, fails : Nat]
  PROVE  TokensOk'
<1> DEFINE Off(l) == IF l.token = t THEN [l EXCEPT !.active = FALSE] ELSE l
<1>1. links' = {Off(l) : l \in links}
  BY DEF Revoked
<1>2. \A l \in links : WholeLink(Off(l)) /\ Off(l).token = l.token
  BY DEF TokensOk, WholeLink
<1> HIDE DEF Off
<1>3. \A k \in links' : \E l \in links : k = Off(l)
  BY <1>1
<1>4. \A l \in links : left'.links < l.token
  BY DEF TokensOk, WholeLink
<1> QED BY <1>2, <1>3, <1>4 DEF TokensOk

LEMMA NextKeepsTokens ==
  ASSUME TokensOk, [LinksNext]_lvars
  PROVE  TokensOk'
<1>1. CASE UNCHANGED <<links, left>>
  BY <1>1 DEF TokensOk
<1>2. CASE UNCHANGED links /\ \E what \in {"acts", "visits", "fails"} : Spend(what)
  <2>1. /\ left' \in [links : Nat, acts : Nat, visits : Nat, fails : Nat]
        /\ left'.links <= left.links
    BY <1>2, SpendLess
  <2>2. \A l \in links : left'.links < l.token
    BY <2>1 DEF TokensOk, WholeLink
  <2> QED BY <1>2, <2>1, <2>2 DEF TokensOk
<1>3. CASE OtherClient
  <2>1. /\ left' \in [links : Nat, acts : Nat, visits : Nat, fails : Nat]
        /\ left'.links <= left.links
    BY <1>3, SpendLess DEF OtherClient
  <2>2. CASE \E l \in links : links' = Revoked(l.token)
    BY <2>1, <2>2, RevokedTokens
  <2>3. CASE links' = {}
    BY <2>1, <2>3 DEF TokensOk
  <2> QED BY <1>3, <2>2, <2>3 DEF OtherClient
<1>4. CASE OwnerServed
  <2>1. PICK c \in pcalls : CreateServed(c) \/ ListServed(c) \/ RevokeServed(c)
    BY <1>4 DEF OwnerServed
  <2>2. CASE CreateServed(c)
    <3> DEFINE new == [token |-> left.links, pass |-> c.pass, active |-> TRUE]
    <3>1. /\ left' \in [links : Nat, acts : Nat, visits : Nat, fails : Nat]
          /\ left.links \in Nat /\ left'.links < left.links
      BY <2>2, SpendLess DEF CreateServed
    <3>2. WholeLink(new) /\ new.token = left.links
      BY <3>1 DEF WholeLink
    <3>3. links' = links \cup {new}
      BY <2>2 DEF CreateServed
    <3> HIDE DEF new
    <3>4. \A l \in links' : WholeLink(l) /\ left'.links < l.token
      BY <3>1, <3>2, <3>3 DEF TokensOk, WholeLink
    <3>5. \A l \in links : l.token # new.token
      BY <3>2 DEF TokensOk, WholeLink
    <3> QED BY <3>1, <3>3, <3>4, <3>5 DEF TokensOk
  <2>3. CASE ListServed(c)
    BY <1>1, <2>3 DEF ListServed
  <2>4. CASE RevokeServed(c)
    BY <2>4, RevokedTokens DEF RevokeServed, TokensOk
  <2> QED BY <2>1, <2>2, <2>3, <2>4
<1>5. CASE OpenPanel \/ ClosePanel \/ RefreshTab \/ ToggleProtect \/ TypePassword \/ CreateLink
             \/ Revoke \/ OwnerCallFails \/ VisitorCallFails \/ TimePasses \/ OpenPage \/ Submit
             \/ OpenEntry \/ GoCrumb \/ OpenLightbox \/ StepLightbox \/ CloseLightbox \/ Fetch
  <2>1. UNCHANGED links
    BY <1>5 DEF OpenPanel, ClosePanel, RefreshTab, ToggleProtect, TypePassword, Form, CreateLink,
                Revoke, OwnerCallFails, VisitorCallFails, TimePasses, OpenPage, Submit,
                OpenEntry, GoCrumb, GoInside, OpenLightbox, StepLightbox, CloseLightbox,
                Lightbox, Fetch
  <2>2. Spend("acts") \/ Spend("visits") \/ Spend("fails")
    BY <1>5 DEF OpenPanel, ClosePanel, RefreshTab, ToggleProtect, TypePassword, Form, CreateLink,
                Revoke, OwnerCallFails, VisitorCallFails, TimePasses, OpenPage, Submit,
                OpenEntry, GoCrumb, GoInside, OpenLightbox, StepLightbox, CloseLightbox,
                Lightbox, Fetch
  <2> QED BY <1>2, <2>1, <2>2
<1> QED
  BY <1>1, <1>3, <1>4, <1>5
  DEF LinksNext, OwnerArrives, MetaServed, UnlockFetched, UnlockChecked, UnlockServed, ContentChecked, ContentServed, MetaArrives,
      UnlockArrives, ContentArrives, lvars

LEMMA NextKeepsStrikes ==
  ASSUME StrikesOk, [LinksNext]_lvars
  PROVE  StrikesOk'
<1>1. CASE UNCHANGED strikes
  BY <1>1 DEF StrikesOk
<1>2. CASE TimePasses
  BY <1>1, <1>2, LinksBounds DEF TimePasses, StrikesOk
<1>3. CASE UnlockServed
  <2>1. \E t : \/ strikes' = [strikes EXCEPT ![t] = @ + 1]
               \/ strikes' = [strikes EXCEPT ![t] = 0]
               \/ strikes' = [strikes EXCEPT ![t] = @]
    BY <1>3 DEF UnlockServed
  <2> QED BY <2>1 DEF StrikesOk
<1> QED
  BY <1>1, <1>2, <1>3
  DEF LinksNext, lvars, visitor, owner, OpenPanel, ClosePanel, RefreshTab, ToggleProtect,
      TypePassword, Form, CreateLink, Revoke, OwnerCallFails, OtherClient, OwnerServed,
      OwnerArrives, MetaServed, UnlockFetched, UnlockChecked, ContentChecked, ContentServed,
      VisitorCallFails, OpenPage, MetaArrives, Submit,
      UnlockArrives, OpenEntry, GoCrumb, GoInside, ContentArrives, OpenLightbox, StepLightbox,
      CloseLightbox, Lightbox, Fetch

\* The server's side: a call stays of its kind.
LEMMA ServerKeepsWaits ==
  ASSUME VisitInv, PageWaits,
         \/ MetaServed \/ UnlockFetched \/ UnlockChecked \/ UnlockServed
         \/ ContentChecked \/ ContentServed \/ VisitorCallFails
  PROVE  PageWaits'
<1>1. UNCHANGED visit /\ proven \subseteq proven'
  BY DEF MetaServed, UnlockFetched, UnlockChecked, UnlockServed, ContentChecked, ContentServed,
         VisitorCallFails
<1>2. CASE UNCHANGED vcalls
  BY <1>1, <1>2 DEF PageWaits
<1>3. CASE ~UNCHANGED vcalls
  <2>1. PICK c \in vcalls :
          \/ Refuse(c) \/ \E answer : Ok(c, answer)
          \/ vcalls' = (vcalls \ {c}) \cup {[c EXCEPT !.let = TRUE]}
    BY <1>3 DEF MetaServed, UnlockFetched, UnlockChecked, UnlockServed, GoesOn, Ends,
                ContentChecked, ContentServed, VisitorCallFails
  <2>2. Whole(c)
    BY DEF VisitInv, OneWay
  <2>a. PICK d : vcalls' = (vcalls \ {c}) \cup {d} /\ Same(c, d)
    BY <2>1, <2>2, TouchedCall
  <2>3. vcalls' = (vcalls \ {c}) \cup {d} /\ d.kind = c.kind
    BY <2>a DEF Same
  <2> QED BY <1>1, <2>3 DEF PageWaits
<1> QED BY <1>2, <1>3

LEMMA PageKeepsWaits ==
  ASSUME VisitInv, PageWaits, OpenPage \/ MetaArrives \/ Submit \/ UnlockArrives \/ ContentArrives
  PROVE  PageWaits'
<1>0. visit \in VisitType
  BY DEF VisitInv
<1>1. CASE OpenPage
  <2>1. visit'.screen = "loading" /\ ~visit'.busy
    BY <1>1 DEF OpenPage, Closed
  <2> QED BY <2>1 DEF PageWaits
<1>2. CASE MetaArrives
  <2>1. visit.screen = "loading"
    BY <1>2 DEF MetaArrives, VisitInv, OneWay
  <2>2. ~visit.busy
    BY <2>1 DEF PageWaits
  <2>3. visit'.busy = visit.busy /\ visit'.screen # "ready"
    BY <1>0, <1>2, <2>1 DEF MetaArrives, VisitType
  <2> QED BY <2>2, <2>3 DEF PageWaits
<1>3. CASE Submit
  <2>1. visit'.screen = "locked"
    BY <1>0, <1>3 DEF Submit, VisitType
  <2>2. \E c \in vcalls' : c.kind = "unlock"
    <3>1. vcalls' = Ask(vcalls, "unlock", <<>>, {})
      BY <1>3 DEF Submit
    <3> DEFINE q == Question("unlock", <<>>, {})
    <3>2. vcalls' = vcalls \cup {q} /\ q.kind = "unlock"
      BY <3>1, AskQuestion, QuestionWhole
    <3> HIDE DEF q
    <3> QED BY <3>2
  <2> QED BY <2>1, <2>2 DEF PageWaits
<1>4. CASE UnlockArrives
  <2>1. PICK c \in vcalls :
          /\ c.kind = "unlock" /\ Answered(c)
          /\ IF c.bad
             THEN visit' = IF visit.screen = "locked"
                           THEN [visit EXCEPT !.busy = FALSE, !.error = TRUE]
                           ELSE [visit EXCEPT !.screen = "error"]
             ELSE visit' = [visit EXCEPT !.screen = "ready", !.access = TRUE, !.busy = FALSE,
                                         !.error = FALSE, !.loading = TRUE]
    BY <1>4 DEF UnlockArrives
  <2>2. UNCHANGED proven
    BY <1>4 DEF UnlockArrives
  <2>3. visit.screen # "ready"
    BY <2>1 DEF VisitInv, OneWay
  <2>4. CASE c.bad
    <3>1. visit'.screen # "ready" /\ ~visit'.busy
      BY <1>0, <2>1, <2>3, <2>4 DEF VisitType, PageWaits
    <3> QED BY <3>1 DEF PageWaits
  <2>5. CASE ~c.bad
    <3>1. visit.token \in proven
      BY <2>1, <2>5 DEF VisitInv, Proved, Good, Answered
    <3>2. visit'.token = visit.token /\ ~visit'.busy
      BY <1>0, <2>1, <2>5 DEF VisitType
    <3> QED BY <2>2, <3>1, <3>2 DEF PageWaits
  <2> QED BY <2>4, <2>5
<1>5. CASE ContentArrives
  <2>1. visit.screen = "ready" /\ UNCHANGED proven
    BY <1>5 DEF ContentArrives, Content, VisitInv, OneWay
  <2>2. /\ visit'.screen = visit.screen /\ visit'.busy = visit.busy
        /\ visit'.token = visit.token
    BY <1>0, <1>5 DEF ContentArrives, VisitType
  <2> QED BY <2>1, <2>2 DEF PageWaits
<1> QED BY <1>1, <1>2, <1>3, <1>4, <1>5

LEMMA NextKeepsWaits ==
  ASSUME VisitInv, PageWaits, [LinksNext]_lvars
  PROVE  PageWaits'
<1>0. visit \in VisitType
  BY DEF VisitInv
<1>1. CASE UNCHANGED <<visit, vcalls, proven>>
  BY <1>1 DEF PageWaits
<1>2. CASE OpenEntry \/ GoCrumb
  <2>1. visit.screen = "ready" /\ UNCHANGED proven
    BY <1>2 DEF OpenEntry, GoCrumb, GoInside
  <2>2. visit'.screen = "ready" /\ visit'.busy = visit.busy /\ visit'.token = visit.token
    BY <1>0, <1>2, <2>1 DEF OpenEntry, GoCrumb, GoInside, VisitType
  <2> QED BY <2>1, <2>2 DEF PageWaits
<1>3. CASE OpenLightbox \/ StepLightbox \/ CloseLightbox \/ TimePasses
  <2>1. UNCHANGED <<vcalls, proven>>
    BY <1>3 DEF OpenLightbox, StepLightbox, CloseLightbox, Lightbox, TimePasses
  <2>2. \/ visit' = visit \/ visit' = [visit EXCEPT !.access = FALSE]
        \/ \E p : visit' = [visit EXCEPT !.preview = p]
    BY <1>3 DEF OpenLightbox, StepLightbox, CloseLightbox, Lightbox, TimePasses
  <2>3. /\ visit'.screen = visit.screen /\ visit'.busy = visit.busy
        /\ visit'.token = visit.token
    BY <1>0, <2>2 DEF VisitType
  <2> QED BY <2>1, <2>3 DEF PageWaits
<1>4. CASE Fetch
  <2>1. visit.screen = "ready" /\ UNCHANGED <<visit, proven>>
    BY <1>4 DEF Fetch
  <2> QED BY <2>1 DEF PageWaits
<1> QED
  BY <1>1, <1>2, <1>3, <1>4, ServerKeepsWaits, PageKeepsWaits
  DEF LinksNext, lvars, visitor, owner, OpenPanel, ClosePanel, RefreshTab, ToggleProtect,
      TypePassword, Form, CreateLink, Revoke, OwnerCallFails, OtherClient, OwnerServed,
      OwnerArrives

\* Every state of both screens and of the rows makes sense together: a token
\* names one link, a button that waits has its call on the way, and a page
\* that shows content has been let in.
THEOREM LinksTypeCorrect ==
  LinksSpec => []LinksTypeOK
<1>1. LinksInit => TokensOk /\ StrikesOk /\ PageWaits
  BY LinksBounds DEF LinksInit, TokensOk, WholeLink, StrikesOk, PageWaits, Closed
<1>2. VisitInv /\ TokensOk /\ StrikesOk /\ PageWaits /\ [LinksNext]_lvars
        => (TokensOk /\ StrikesOk /\ PageWaits)'
  BY NextKeepsTokens, NextKeepsStrikes, NextKeepsWaits
<1>3. OwnerInv /\ JobsInv /\ TokensOk /\ StrikesOk /\ PageWaits => LinksTypeOK
  <2> SUFFICES ASSUME OwnerInv, JobsInv, TokensOk, StrikesOk, PageWaits PROVE LinksTypeOK
    OBVIOUS
  <2>1. /\ \A c, d \in pcalls : c.no = d.no => c = d
        /\ panel.at = "files" => panel = Fresh("files")
        /\ panel.creating => \E c \in pcalls : c.here /\ Stops(c, TRUE)
        /\ panel.loading => Waiting(pcalls)
        /\ panel.busy # None =>
             \E c \in pcalls : c.here /\ (c.kind = "revoke" \/ c.then = "revoked")
    BY DEF OwnerInv, CallsOk, WaitsRight
  <2>2. \A l, m \in links : l.token = m.token => l = m
    BY DEF TokensOk
  <2>3. \A t \in 1..MaxLinks : strikes[t] \in Nat
    BY DEF StrikesOk
  <2> QED BY <2>1, <2>2, <2>3 DEF PageWaits, JobsInv, Pending, LinksTypeOK
<1> QED BY <1>1, <1>2, <1>3, InvHolds, OwnerInvHolds, PTL DEF LinksSpec

-----------------------------------------------------------------------------
(* What a link opens.                                                       *)

Asks(c) == c.kind \in {"content", "file"}
Given(c) == c.let \/ c.answer # None

\* A call knows the links that are in force still, and what it was given one of
\* those that were when it was asked.
OpenInv ==
  /\ vcalls # {} \/ visit.screen # "closed" => visit.token \in Nat /\ left.links < visit.token
  /\ \A c \in vcalls : Asks(c) => InForce \subseteq c.open
  /\ \A c \in vcalls : Asks(c) /\ Given(c) => \E l \in c.open : l.pass = None \/ l.token \in proven

\* No step puts a link of an open page in force.
LEMMA NoLinkComesBack ==
  ASSUME TokensOk, OpenInv, [LinksNext]_lvars, vcalls # {} \/ visit.screen # "closed",
         visit'.token = visit.token
  PROVE  InForce' \subseteq InForce
<1>1. CASE UNCHANGED links
  BY <1>1 DEF InForce, Link
<1>2. ASSUME NEW t, links' = Revoked(t) PROVE InForce' \subseteq InForce
  <2>1. \A l \in links : [l EXCEPT !.active = FALSE].active = FALSE
    BY DEF TokensOk, WholeLink
  <2>2. \A l \in links' : l \in links \/ l.active = FALSE
    BY <1>2, <2>1 DEF Revoked
  <2> QED BY <2>2 DEF InForce, Link
<1>3. CASE links' = {}
  BY <1>3 DEF InForce, Link
<1>4. CASE OwnerServed
  <2>1. PICK c \in pcalls : CreateServed(c) \/ ListServed(c) \/ RevokeServed(c)
    BY <1>4 DEF OwnerServed
  <2>2. CASE CreateServed(c)
    <3> DEFINE new == [token |-> left.links, pass |-> c.pass, active |-> TRUE]
    <3>1. links' = links \cup {new} /\ new.token = left.links
      BY <2>2 DEF CreateServed
    <3> HIDE DEF new
    <3>2. left.links \in Nat /\ visit.token \in Nat /\ left.links < visit.token
      BY DEF TokensOk, OpenInv
    <3>3. new.token # visit.token
      BY <3>1, <3>2
    <3> QED BY <3>1, <3>3 DEF InForce, Link
  <2> QED BY <1>1, <1>2, <2>1, <2>2 DEF ListServed, RevokeServed
<1> QED
  BY <1>1, <1>2, <1>3, <1>4
  DEF LinksNext, lvars, OpenPanel, ClosePanel, RefreshTab, ToggleProtect, TypePassword, Form,
      CreateLink, Revoke, OwnerCallFails, OtherClient, OwnerArrives, MetaServed, UnlockFetched,
      UnlockChecked, UnlockServed, ContentChecked, ContentServed, VisitorCallFails, TimePasses,
      OpenPage, MetaArrives, Submit, UnlockArrives, OpenEntry, GoCrumb, GoInside, ContentArrives,
      OpenLightbox, StepLightbox, CloseLightbox, Lightbox, Fetch

LEMMA LeftShrinks ==
  ASSUME TokensOk, [LinksNext]_lvars
  PROVE  left'.links \in Nat /\ left.links \in Nat /\ left'.links <= left.links
<1>1. left.links \in Nat
  BY DEF TokensOk
<1>2. CASE UNCHANGED left
  BY <1>1, <1>2
<1>3. CASE \E what \in {"links", "acts", "visits", "fails"} : Spend(what)
  BY <1>1, <1>3, SpendLess
<1> QED
  BY <1>2, <1>3
  DEF LinksNext, lvars, OpenPanel, ClosePanel, RefreshTab, ToggleProtect, TypePassword, Form,
      CreateLink, Revoke, OwnerCallFails, OtherClient, OwnerServed, CreateServed, ListServed,
      RevokeServed, OwnerArrives, MetaServed, UnlockFetched,
      UnlockChecked, UnlockServed, ContentChecked, ContentServed, VisitorCallFails, TimePasses,
      OpenPage, MetaArrives, Submit, UnlockArrives, OpenEntry, GoCrumb, GoInside, ContentArrives,
      OpenLightbox, StepLightbox, CloseLightbox, Lightbox, Fetch

\* A call of the page is one it had, which knows no more than before, or a new
\* one, or one that the server has just let through.
Had(d) == \E c \in vcalls : c.kind = d.kind /\ c.open = d.open /\ (Given(d) => Given(c))
Asked(d) == d.open = InForce /\ ~Given(d)
LetIn(d) ==
  \E c \in vcalls : /\ c.kind = d.kind /\ c.open = d.open
                    /\ visit.access /\ \E l \in Link(visit.token) : l.active

LEMMA CallsKeepOpen ==
  ASSUME VisitInv, TokensOk, OpenInv, [LinksNext]_lvars,
         vcalls # {} \/ visit.screen # "closed" \/ UNCHANGED <<visit, vcalls>>,
         visit'.token = visit.token, proven \subseteq proven',
         \A d \in vcalls' : Asks(d) => Had(d) \/ Asked(d) \/ LetIn(d)
  PROVE  OpenInv'
<1>1. left'.links \in Nat /\ left.links \in Nat /\ left'.links <= left.links
  BY LeftShrinks
<1>2. CASE ~(vcalls # {} \/ visit.screen # "closed")
  BY <1>2 DEF OpenInv
<1>3. CASE vcalls # {} \/ visit.screen # "closed"
  <2>1. visit'.token \in Nat /\ left'.links < visit'.token
    BY <1>1, <1>3 DEF OpenInv
  <2>2. InForce' \subseteq InForce
    BY <1>3, NoLinkComesBack
  <2>3. ASSUME NEW d \in vcalls', Asks(d)
        PROVE  /\ InForce \subseteq d.open
               /\ Given(d) => \E l \in d.open : l.pass = None \/ l.token \in proven
    <3>1. CASE Had(d)
      BY <2>3, <3>1 DEF Had, OpenInv, Asks
    <3>2. CASE Asked(d)
      BY <3>2 DEF Asked
    <3>3. CASE LetIn(d)
      <4>1. PICK c \in vcalls : c.kind = d.kind /\ c.open = d.open
        BY <3>3 DEF LetIn
      <4>2. InForce \subseteq d.open
        BY <2>3, <4>1 DEF OpenInv, Asks
      <4>3. PICK l \in InForce : l.token = visit.token
        BY <3>3 DEF LetIn, InForce, Link
      <4>4. visit.token \in proven
        BY <3>3 DEF LetIn, VisitInv, Proved
      <4> QED BY <4>2, <4>3, <4>4
    <3> QED BY <2>3, <3>1, <3>2, <3>3
  <2> QED BY <2>1, <2>2, <2>3 DEF OpenInv, Asks, Given
<1> QED BY <1>2, <1>3

LEMMA NextKeepsOpen ==
  ASSUME VisitInv, TokensOk, OpenInv, [LinksNext]_lvars
  PROVE  OpenInv'
<1>0. visit \in VisitType
  BY DEF VisitInv
<1>1. CASE OpenPanel \/ ClosePanel \/ RefreshTab \/ ToggleProtect \/ TypePassword
             \/ CreateLink \/ Revoke \/ OwnerCallFails \/ OtherClient \/ OwnerServed
             \/ OwnerArrives \/ UNCHANGED lvars
  <2>1. UNCHANGED <<visit, vcalls, proven>>
    BY <1>1 DEF OpenPanel, ClosePanel, RefreshTab, ToggleProtect, TypePassword, Form,
                CreateLink, Revoke, OwnerCallFails, OtherClient, OwnerServed,
                OwnerArrives, lvars, visitor
  <2> QED BY <2>1, CallsKeepOpen DEF Had
<1>2. CASE MetaServed \/ UnlockFetched \/ UnlockChecked \/ UnlockServed \/ VisitorCallFails
  <2>1. UNCHANGED visit /\ proven \subseteq proven'
    BY <1>2 DEF MetaServed, UnlockFetched, UnlockChecked, UnlockServed, VisitorCallFails
  <2>2. CASE UNCHANGED vcalls
    BY <2>1, <2>2, CallsKeepOpen DEF Had
  <2>3. CASE ~UNCHANGED vcalls
    <3>1. PICK c \in vcalls : Refuse(c) \/ (~Asks(c) /\ \E answer : Ok(c, answer))
      BY <1>2, <2>3 DEF MetaServed, UnlockFetched, UnlockChecked, UnlockServed, GoesOn, Ends,
                        VisitorCallFails, Asks
    <3>2. Whole(c)
      BY DEF VisitInv, OneWay
    <3>a. PICK d : /\ vcalls' = (vcalls \ {c}) \cup {d} /\ Same(c, d)
                   /\ ~Asks(c) \/ (d.answer = c.answer /\ d.let = c.let)
      <4>1. CASE Refuse(c)
        BY <3>2, <4>1, RefusedCall
      <4>2. CASE ~Asks(c) /\ \E answer : Ok(c, answer)
        BY <3>2, <4>2, OkCall
      <4> QED BY <3>1, <4>1, <4>2
    <3>3. /\ vcalls' = (vcalls \ {c}) \cup {d} /\ d.kind = c.kind /\ d.open = c.open
          /\ Asks(c) => (Given(d) => Given(c))
      BY <3>a DEF Same, Given
    <3>4. \A e \in vcalls' : Asks(e) => Had(e)
      BY <3>3 DEF Had, Asks
    <3> QED BY <2>1, <3>4, CallsKeepOpen
  <2> QED BY <2>2, <2>3
<1>3. CASE ContentChecked
  <2>1. PICK c \in vcalls :
          \/ /\ visit.access /\ \E l \in Link(visit.token) : l.active
             /\ vcalls' = (vcalls \ {c}) \cup {[c EXCEPT !.let = TRUE]}
          \/ Refuse(c)
    BY <1>3 DEF ContentChecked, Opens
  <2>2. UNCHANGED <<visit, proven>> /\ Whole(c)
    BY <1>3 DEF ContentChecked, VisitInv, OneWay
  <2>a. PICK d : /\ vcalls' = (vcalls \ {c}) \cup {d} /\ Same(c, d)
                 /\ \/ visit.access /\ \E l \in Link(visit.token) : l.active
                    \/ d.answer = c.answer /\ d.let = c.let
    <3>1. CASE Refuse(c)
      BY <2>2, <3>1, RefusedCall
    <3>2. CASE ~Refuse(c)
      BY <2>1, <2>2, <3>2, LetCall
    <3> QED BY <3>1, <3>2
  <2>3. /\ vcalls' = (vcalls \ {c}) \cup {d} /\ d.kind = c.kind /\ d.open = c.open
        /\ \/ visit.access /\ \E l \in Link(visit.token) : l.active
           \/ Given(d) => Given(c)
    BY <2>a DEF Same, Given
  <2>4. \A e \in vcalls' : Had(e) \/ LetIn(e)
    BY <2>3 DEF Had, LetIn
  <2> QED BY <2>2, <2>4, CallsKeepOpen
<1>4. CASE ContentServed
  <2>1. PICK c \in vcalls : Given(c) /\ (Refuse(c) \/ \E answer : Ok(c, answer))
    BY <1>4 DEF ContentServed, Given
  <2>2. UNCHANGED <<visit, proven>> /\ Whole(c)
    BY <1>4 DEF ContentServed, VisitInv, OneWay
  <2>a. PICK d : vcalls' = (vcalls \ {c}) \cup {d} /\ Same(c, d)
    BY <2>1, <2>2, TouchedCall
  <2>3. vcalls' = (vcalls \ {c}) \cup {d} /\ d.kind = c.kind /\ d.open = c.open
    BY <2>a DEF Same
  <2>4. \A e \in vcalls' : Had(e)
    BY <2>1, <2>3 DEF Had
  <2> QED BY <2>2, <2>4, CallsKeepOpen
<1>5. CASE TimePasses \/ OpenLightbox \/ StepLightbox \/ CloseLightbox
  <2>1. UNCHANGED <<vcalls, proven>>
    BY <1>5 DEF TimePasses, OpenLightbox, StepLightbox, CloseLightbox, Lightbox
  <2>2. \/ visit' = visit \/ visit' = [visit EXCEPT !.access = FALSE]
        \/ \E p : visit' = [visit EXCEPT !.preview = p]
    BY <1>5 DEF TimePasses, OpenLightbox, StepLightbox, CloseLightbox, Lightbox
  <2>3. visit'.token = visit.token /\ visit'.screen = visit.screen
    BY <1>0, <2>2 DEF VisitType
  <2>4. left'.links \in Nat /\ left.links \in Nat /\ left'.links <= left.links
    BY LeftShrinks
  <2>5. UNCHANGED links
    BY <1>5 DEF TimePasses, OpenLightbox, StepLightbox, CloseLightbox, Lightbox
  <2> QED BY <2>1, <2>3, <2>4, <2>5 DEF OpenInv, InForce, Link
<1>6. CASE OpenPage
  <2> DEFINE q == Question("meta", <<>>, {})
  <2>1. vcalls' = {} \cup {q} /\ q.kind = "meta"
    BY <1>6, AskQuestion, QuestionWhole DEF OpenPage
  <2> HIDE DEF q
  <2>2. PICK t \in Used : visit' = [Closed EXCEPT !.screen = "loading", !.token = t]
    BY <1>6 DEF OpenPage
  <2>3. visit'.token = t
    BY <2>2 DEF Closed
  <2>4. left'.links \in Nat /\ left.links \in Nat /\ left'.links <= left.links
    BY LeftShrinks
  <2>5. t \in Nat /\ left.links < t
    BY <2>4, LinksBounds DEF Used
  <2> QED BY <2>1, <2>3, <2>4, <2>5 DEF OpenInv, Asks
<1>7. CASE MetaArrives \/ Submit \/ UnlockArrives \/ ContentArrives \/ Fetch \/ OpenEntry \/ GoCrumb
  <2>1. visit'.token = visit.token /\ UNCHANGED proven
    BY <1>0, <1>7 DEF MetaArrives, Submit, UnlockArrives, ContentArrives, Fetch, OpenEntry, GoCrumb,
                      GoInside, VisitType
  <2>2. vcalls # {} \/ visit.screen # "closed"
    BY <1>7 DEF MetaArrives, Submit, UnlockArrives, ContentArrives, Fetch, OpenEntry, GoCrumb
  <2>3. CASE MetaArrives \/ Submit \/ UnlockArrives \/ ContentArrives \/ Fetch
    <3>1. PICK cs \in SUBSET vcalls :
            \/ vcalls' = cs
            \/ \E path : vcalls' = Ask(cs, "unlock", path, {})
            \/ \E kind, path : vcalls' = Ask(cs, kind, path, InForce)
      <4>1. CASE MetaArrives
        <5>1. PICK c \in vcalls : \/ vcalls' = vcalls \ {c}
                                 \/ vcalls' = Ask(vcalls \ {c}, "unlock", <<>>, {})
          BY <4>1 DEF MetaArrives
        <5> QED BY <5>1
      <4>2. CASE Submit
        BY <4>2 DEF Submit
      <4>3. CASE UnlockArrives
        <5>1. PICK c \in vcalls : \/ vcalls' = vcalls \ {c}
                                 \/ vcalls' = Ask(vcalls \ {c}, "content", <<>>, InForce)
          BY <4>3 DEF UnlockArrives
        <5> QED BY <5>1
      <4>4. CASE ContentArrives
        BY <4>4 DEF ContentArrives
      <4>5. CASE Fetch
        BY <4>5 DEF Fetch
      <4> QED BY <2>3, <4>1, <4>2, <4>3, <4>4, <4>5
    <3>2. CASE vcalls' = cs
      <4>1. \A e \in vcalls' : Had(e)
        BY <3>2 DEF Had
      <4> QED BY <2>1, <2>2, <4>1, CallsKeepOpen
    <3>3. CASE \E path : vcalls' = Ask(cs, "unlock", path, {})
      <4>1. PICK path : vcalls' = Ask(cs, "unlock", path, {})
        BY <3>3
      <4>2. \A e \in vcalls' : Asks(e) => Had(e)
        BY <4>1, AskQuestion, QuestionWhole DEF Had, Asks
      <4> QED BY <2>1, <2>2, <4>2, CallsKeepOpen
    <3>4. CASE \E kind, path : vcalls' = Ask(cs, kind, path, InForce)
      <4>1. PICK kind, path : vcalls' = Ask(cs, kind, path, InForce)
        BY <3>4
      <4>2. \A e \in vcalls' : Had(e) \/ Asked(e)
        BY <4>1, AskQuestion, QuestionWhole, QuestionOpen DEF Had, Asked, Given
      <4> QED BY <2>1, <2>2, <4>2, CallsKeepOpen
    <3> QED BY <3>1, <3>2, <3>3, <3>4
  <2>4. CASE OpenEntry \/ GoCrumb
    <3>1. PICK path : GoInside(path)
      BY <2>4 DEF OpenEntry, GoCrumb
    <3> DEFINE q == Question("content", path, InForce)
               Dead(c) == [c EXCEPT !.live = FALSE]
    <3>2. vcalls' = {Dead(c) : c \in vcalls} \cup {q}
      BY <3>1, AskQuestion DEF GoInside, ForgetList, Forget
    <3>3. q.open = InForce /\ ~Given(q)
      BY QuestionWhole, QuestionOpen DEF Given
    <3>4. \A c \in vcalls : Whole(c)
      BY DEF VisitInv, OneWay
    <3>5. \A c \in vcalls : Dead(c).kind = c.kind /\ Dead(c).open = c.open
                           /\ Dead(c).let = c.let /\ Dead(c).answer = c.answer
      BY <3>4 DEF Whole
    <3> HIDE DEF q, Dead
    <3>6. \A e \in vcalls' : Had(e) \/ Asked(e)
      BY <3>2, <3>3, <3>5 DEF Had, Asked, Given
    <3> QED BY <2>1, <2>2, <3>6, CallsKeepOpen
  <2> QED BY <1>7, <2>3, <2>4
<1> QED BY <1>1, <1>2, <1>3, <1>4, <1>5, <1>6, <1>7 DEF LinksNext

\* (shares.rs, share_list and serve_share_file)  Whatever is asked for after a
\* link was revoked or its item deleted is not given, by any page that was open
\* before, and a link with a password gives nothing before somebody said it,
\* however calls, steps of the server and revocations interleave.
THEOREM LinksServeWhenOpen ==
  LinksSpec => []OnlyOpenLinksServe
<1>1. LinksInit => TokensOk /\ OpenInv
  BY LinksBounds DEF LinksInit, TokensOk, WholeLink, OpenInv, Closed
<1>2. VisitInv /\ TokensOk /\ OpenInv /\ [LinksNext]_lvars => (TokensOk /\ OpenInv)'
  BY NextKeepsTokens, NextKeepsOpen
<1>3. OpenInv => OnlyOpenLinksServe
  BY DEF OpenInv, Asks, Given, OnlyOpenLinksServe, Content
<1> QED BY <1>1, <1>2, <1>3, InvHolds, PTL DEF LinksSpec

=============================================================================
