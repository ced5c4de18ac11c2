------------------------- MODULE LozaTransfersProofs -------------------------
(***************************************************************************)
(* What holds of the transfers of the desktop app, for any files, starts   *)
(* and bounds, while sessions, sections, windows and the process come and  *)
(* go.  The heart is that ids and roots name at most one transfer, and     *)
(* that a card whose transfer runs has not been given a result.            *)
(***************************************************************************)
EXTENDS LozaTransfers, LozaSessionProofs

RunType ==
  [id: Nat, kind: {"file", "path", "download"}, item: Item, rest: SUBSET Item, root: Nat,
   home: BOOLEAN, window: BOOLEAN, at: {"asked", "request", "open", "over"},
   watch: {"away", "looked", "waits"}, heard: BOOLEAN,
   result: {"none", "ok", "error", "CANCELLED"}]
Statuses == {"active", "cancelled", "completed", "error"}
CardType ==
  [id: Nat, kind: {"file", "path", "download"}, item: Item, root: Nat, status: Statuses]

\* Transfers: well formed, and told apart by their ids and by their roots.
RunsOk(rs, m, here) ==
  /\ m \in Nat
  /\ rs \subseteq RunType
  /\ \A r \in rs : r.id \in 1..m /\ r.root \in 1..m
  /\ \A q, r \in rs : q.id = r.id \/ q.root = r.root => q = r
  /\ \A r \in rs : r.home => r.window /\ here

\* Cards: told apart in the same way; one whose transfer runs still waits for
\* its result, in the section and the window it was made in.
CardsOk(cs, rs, m, here) ==
  /\ cs \subseteq CardType
  /\ \A c \in cs : c.id \in 1..m /\ c.root \in 1..m
  /\ \A c, d \in cs : c.id = d.id \/ c.root = d.root => c = d
  /\ \A c \in cs, r \in rs : c.root = r.root => c.id = r.id
  /\ \A c \in cs, r \in rs :
       c.id = r.id => c.status \in {"active", "cancelled"} /\ r.home
  /\ cs # {} => here

NoOrphanIn(cs, rs) ==
  \A c \in cs : c.status = "active" => \E r \in rs : r.id = c.id /\ r.window

QueueOk(cs, rs, m, here) ==
  RunsOk(rs, m, here) /\ CardsOk(cs, rs, m, here) /\ NoOrphanIn(cs, rs)

\* What the commands keep of a transfer.
KeptInv ==
  /\ registry \cup cancels \cup events \cup parts \subseteq 1..made
  /\ cloud \subseteq Item
  /\ NothingLeft

Inv == QueueOk(cards, runs, made, Here) /\ KeptInv

-----------------------------------------------------------------------------
(* How the queue stays in order when one thing of it changes.               *)

\* One transfer goes on.
LEMMA RunGoesOn ==
  ASSUME NEW cs, NEW rs, NEW m, NEW here, QueueOk(cs, rs, m, here),
         NEW r \in rs, NEW q \in RunType,
         q.id = r.id, q.root = r.root, q.home = r.home, q.window = r.window
  PROVE  QueueOk(cs, (rs \ {r}) \cup {q}, m, here)
<1>1. RunsOk((rs \ {r}) \cup {q}, m, here)
  BY DEF QueueOk, RunsOk
<1>2. CardsOk(cs, (rs \ {r}) \cup {q}, m, here)
  BY DEF QueueOk, CardsOk
<1>3. NoOrphanIn(cs, (rs \ {r}) \cup {q})
  BY DEF QueueOk, NoOrphanIn
<1> QED BY <1>1, <1>2, <1>3 DEF QueueOk

\* What giving a status does to each card.
LEMMA StatusSet ==
  ASSUME cards \subseteq CardType, NEW id, NEW status \in Statuses
  PROVE  /\ WithStatus(id, status) \subseteq CardType
         /\ \A d \in WithStatus(id, status) : \E c \in cards :
              /\ d.id = c.id /\ d.root = c.root
              /\ d.status = IF c.id = id THEN status ELSE c.status
              /\ d = IF c.id = id THEN [c EXCEPT !.status = status] ELSE c
  BY DEF WithStatus, CardType

\* The cards of an id get a status that transfers under way may have.
LEMMA StatusKeepsQueue ==
  ASSUME NEW rs, NEW m, NEW here, QueueOk(cards, rs, m, here), NEW id,
         NEW status \in {"active", "cancelled"},
         status = "active" => \E r \in rs : r.id = id /\ r.window
  PROVE  QueueOk(WithStatus(id, status), rs, m, here)
<1> DEFINE ds == WithStatus(id, status)
<1>0. cards \subseteq CardType
  BY DEF QueueOk, CardsOk
<1>s. status \in Statuses
  BY DEF Statuses
<1>1. /\ ds \subseteq CardType
      /\ \A d \in ds : \E c \in cards :
              /\ d.id = c.id /\ d.root = c.root
              /\ d.status = IF c.id = id THEN status ELSE c.status
              /\ d = IF c.id = id THEN [c EXCEPT !.status = status] ELSE c
  BY <1>0, <1>s, StatusSet
<1> HIDE DEF ds
<1>2. CardsOk(ds, rs, m, here)
  <2>1. \A c, d \in ds : c.id = d.id \/ c.root = d.root => c = d
    BY <1>1 DEF QueueOk, CardsOk
  <2>2. /\ \A c \in ds : c.id \in 1..m /\ c.root \in 1..m
        /\ \A c \in ds, r \in rs : c.root = r.root => c.id = r.id
        /\ \A c \in ds, r \in rs :
              c.id = r.id => c.status \in {"active", "cancelled"} /\ r.home
        /\ ds # {} => here
    BY <1>1 DEF QueueOk, CardsOk
  <2> QED BY <1>1, <2>1, <2>2 DEF CardsOk
<1>3. NoOrphanIn(ds, rs)
  BY <1>1 DEF QueueOk, NoOrphanIn
<1>4. QueueOk(ds, rs, m, here)
  BY <1>2, <1>3 DEF QueueOk
<1> QED BY <1>4 DEF ds

\* A transfer ends, and its card gets the result.
LEMMA RunIsOver ==
  ASSUME NEW m, NEW here, QueueOk(cards, runs, m, here), NEW r \in runs,
         NEW status \in {"completed", "error"}
  PROVE  QueueOk(IF r.home THEN WithStatus(r.id, status) ELSE cards, runs \ {r}, m, here)
<1> DEFINE ds == IF r.home THEN WithStatus(r.id, status) ELSE cards
<1>0. cards \subseteq CardType
  BY DEF QueueOk, CardsOk
<1>s. status \in Statuses
  BY DEF Statuses
<1>a. /\ WithStatus(r.id, status) \subseteq CardType
      /\ \A d \in WithStatus(r.id, status) : \E c \in cards :
              /\ d.id = c.id /\ d.root = c.root
              /\ d.status = IF c.id = r.id THEN status ELSE c.status
              /\ d = IF c.id = r.id THEN [c EXCEPT !.status = status] ELSE c
  BY <1>0, <1>s, StatusSet
<1>b. \A c \in cards : c.id = r.id => r.home
  BY DEF QueueOk, CardsOk
<1>1. /\ ds \subseteq CardType
      /\ \A d \in ds : \E c \in cards :
              /\ d.id = c.id /\ d.root = c.root
              /\ d.status = IF c.id = r.id THEN status ELSE c.status
              /\ d = IF c.id = r.id THEN [c EXCEPT !.status = status] ELSE c
  BY <1>0, <1>a, <1>b
<1> HIDE DEF ds
<1>2. \A q \in runs \ {r} : q.id # r.id /\ q.root # r.root
  BY DEF QueueOk, RunsOk
<1>3. RunsOk(runs \ {r}, m, here)
  BY DEF QueueOk, RunsOk
<1>4. CardsOk(ds, runs \ {r}, m, here)
  <2>1. \A c, d \in ds : c.id = d.id \/ c.root = d.root => c = d
    BY <1>1 DEF QueueOk, CardsOk
  <2>2. /\ \A c \in ds : c.id \in 1..m /\ c.root \in 1..m
        /\ \A c \in ds, q \in runs \ {r} : c.root = q.root => c.id = q.id
        /\ ds # {} => here
    BY <1>1 DEF QueueOk, CardsOk
  <2>3. \A c \in ds, q \in runs \ {r} :
              c.id = q.id => c.status \in {"active", "cancelled"} /\ q.home
    BY <1>1, <1>2 DEF QueueOk, CardsOk
  <2> QED BY <1>1, <2>1, <2>2, <2>3 DEF CardsOk
<1>5. NoOrphanIn(ds, runs \ {r})
  BY <1>1 DEF QueueOk, NoOrphanIn
<1>6. QueueOk(ds, runs \ {r}, m, here)
  BY <1>3, <1>4, <1>5 DEF QueueOk
<1> QED BY <1>6 DEF ds

\* A card is closed.
LEMMA CardsGo ==
  ASSUME NEW cs, NEW ds \in SUBSET cs, NEW rs, NEW m, NEW here, QueueOk(cs, rs, m, here)
  PROVE  QueueOk(ds, rs, m, here)
  BY DEF QueueOk, RunsOk, CardsOk, NoOrphanIn

\* A transfer starts whose root no other has.
LEMMA StartKeepsQueue ==
  ASSUME NEW cs, NEW rs, NEW here, QueueOk(cs, rs, made, here),
         NEW kind \in {"file", "path", "download"}, NEW item \in Item, NEW rest \in SUBSET Item,
         NEW root \in 0..made, NEW alone \in BOOLEAN, alone => here,
         \A r \in rs : r.root # root, \A c \in cs : c.root # root,
         Started(rs, cs, kind, item, rest, root, alone)
  PROVE  /\ QueueOk(cards', runs', made', here)
         /\ made' = made + 1 /\ made \in Nat
         /\ \A r \in runs' : r \in rs \/ r.id = made + 1
<1> DEFINE id == made + 1
           top == IF root = 0 THEN id ELSE root
           run == [id |-> id, kind |-> kind, item |-> item, rest |-> rest, root |-> top,
                   home |-> alone, window |-> TRUE, at |-> "asked", watch |-> "away",
                   heard |-> FALSE, result |-> "none"]
           card == [id |-> id, kind |-> kind, item |-> item, root |-> top, status |-> "active"]
<1>1. made \in Nat
  BY DEF QueueOk, RunsOk
<1>2. /\ made' = id
      /\ runs' = rs \cup {run}
      /\ cards' = cs \cup (IF alone THEN {card} ELSE {})
  BY DEF Started
<1>3. id \in 1..id /\ top \in 1..id
  BY <1>1
<1>4. run \in RunType /\ card \in CardType
  <2>1. id \in Nat /\ top \in Nat
    BY <1>1, <1>3
  <2> HIDE DEF id, top
  <2>2. run \in RunType
    BY <2>1 DEF RunType
  <2>3. card \in CardType
    BY <2>1 DEF CardType, Statuses
  <2> QED BY <2>2, <2>3
<1>5. /\ run.id = id /\ run.root = top /\ run.home = alone /\ run.window = TRUE
      /\ card.id = id /\ card.root = top /\ card.status = "active"
  OBVIOUS
<1>6. \A r \in rs : r.id # id /\ r.root # top /\ r.id \in 1..id /\ r.root \in 1..id
  BY <1>1 DEF QueueOk, RunsOk
<1>7. \A c \in cs : c.id # id /\ c.root # top /\ c.id \in 1..id /\ c.root \in 1..id
  BY <1>1 DEF QueueOk, CardsOk
<1>8. id \in Nat
  BY <1>1
<1> HIDE DEF run, card, top, id
<1>9. RunsOk(runs', made', here)
  BY <1>2, <1>3, <1>4, <1>5, <1>6, <1>8 DEF QueueOk, RunsOk
<1>10. CardsOk(cards', runs', made', here)
  <2>1. \A c \in cards' : c.id \in 1..made' /\ c.root \in 1..made'
    BY <1>2, <1>3, <1>5, <1>7
  <2>2. \A c, d \in cards' : c.id = d.id \/ c.root = d.root => c = d
    BY <1>2, <1>5, <1>7 DEF QueueOk, CardsOk
  <2>3. \A c \in cards', r \in runs' : c.root = r.root => c.id = r.id
    BY <1>2, <1>5, <1>6, <1>7 DEF QueueOk, CardsOk
  <2>4. \A c \in cards', r \in runs' :
              c.id = r.id => c.status \in {"active", "cancelled"} /\ r.home
    BY <1>2, <1>5, <1>6, <1>7 DEF QueueOk, CardsOk
  <2>5. cards' # {} => here
    BY <1>2 DEF QueueOk, CardsOk
  <2>6. cards' \subseteq CardType
    BY <1>2, <1>4 DEF QueueOk, CardsOk
  <2> QED BY <2>1, <2>2, <2>3, <2>4, <2>5, <2>6 DEF CardsOk
<1>11. NoOrphanIn(cards', runs')
  BY <1>2, <1>5 DEF QueueOk, NoOrphanIn
<1>12. \A r \in runs' : r \in rs \/ r.id = id
  BY <1>2, <1>5
<1> QED BY <1>1, <1>2, <1>9, <1>10, <1>11, <1>12 DEF QueueOk, id

-----------------------------------------------------------------------------
(* The page.                                                                *)

\* What a start leaves of the tokens and the part files.
LEMMA StartKeepsKept ==
  ASSUME KeptInv, made \in Nat, made' = made + 1, NEW rs \in SUBSET runs,
         \A r \in runs' : r \in rs \/ r.id = made + 1,
         UNCHANGED <<registry, cancels, events, cloud, parts>>
  PROVE  KeptInv'
<1>1. (registry \cup cancels \cup events \cup parts \subseteq 1..made)'
  BY DEF KeptInv
<1>2. made + 1 \notin registry \cup parts
  BY DEF KeptInv
<1>3. NothingLeft'
  BY <1>2 DEF KeptInv, NothingLeft
<1> QED BY <1>1, <1>3 DEF KeptInv

LEMMA TransferKeepsInv ==
  ASSUME Inv, Transfer, UNCHANGED Here
  PROVE  Inv'
<1>a. PICK kind \in {"file", "path", "download"}, items \in SUBSET Item :
        \E item \in items : Started(runs, cards, kind, item, items \ {item}, 0, TRUE)
  BY DEF Transfer
<1>1. PICK item \in items : Started(runs, cards, kind, item, items \ {item}, 0, TRUE)
  BY <1>a
<1>e. Here
  BY DEF Transfer
<1>2. QueueOk(cards, runs, made, Here)
  BY DEF Inv
<1>3. (\A r \in runs : r.root # 0) /\ (\A c \in cards : c.root # 0)
  BY <1>2 DEF QueueOk, RunsOk, CardsOk
<1>4. made \in Nat
  BY <1>2 DEF QueueOk, RunsOk
<1>5. 0 \in 0..made
  BY <1>4
<1>6. item \in Item /\ items \ {item} \in SUBSET Item
  OBVIOUS
<1>b. PICK alone \in BOOLEAN : alone = TRUE
  OBVIOUS
<1>c. Started(runs, cards, kind, item, items \ {item}, 0, alone)
  BY <1>1, <1>b DEF Started
<1>d. alone \in BOOLEAN /\ (alone => Here) /\ kind \in {"file", "path", "download"}
  BY <1>e
<1>7. /\ QueueOk(cards', runs', made', Here)
      /\ made' = made + 1
      /\ \A r \in runs' : r \in runs \/ r.id = made + 1
  BY <1>2, <1>3, <1>5, <1>6, <1>c, <1>d, StartKeepsQueue
<1>8. KeptInv'
  BY <1>4, <1>7, StartKeepsKept DEF Inv, Transfer
<1> QED BY <1>7, <1>8 DEF Inv

LEMMA ReturnsKeepsInv ==
  ASSUME Inv, Returns, UNCHANGED Here
  PROVE  Inv'
<1>0. QueueOk(cards, runs, made, Here)
  BY DEF Inv
<1>1. PICK r \in runs :
        LET cs == IF r.home THEN WithStatus(r.id, StatusOf(r.result)) ELSE cards
        IN \/ \E item \in r.rest :
                Started(runs \ {r}, cs, r.kind, item, r.rest \ {item}, 0, r.home)
           \/ runs' = runs \ {r} /\ cards' = cs /\ UNCHANGED made
  BY DEF Returns
<1> DEFINE cs == IF r.home THEN WithStatus(r.id, StatusOf(r.result)) ELSE cards
<1>2. StatusOf(r.result) \in {"completed", "error"}
  BY DEF StatusOf
<1>3. QueueOk(cs, runs \ {r}, made, Here)
  BY <1>0, <1>2, RunIsOver
<1>4. UNCHANGED <<registry, cancels, events, cloud, parts>>
  BY DEF Returns
<1>5. made \in Nat /\ r \in RunType /\ (r.home => Here)
  BY <1>0 DEF QueueOk, RunsOk
<1> HIDE DEF cs
<1>6. CASE \E item \in r.rest :
             Started(runs \ {r}, cs, r.kind, item, r.rest \ {item}, 0, r.home)
  <2>1. PICK item \in r.rest :
          Started(runs \ {r}, cs, r.kind, item, r.rest \ {item}, 0, r.home)
    BY <1>6
  <2>2. (\A q \in runs \ {r} : q.root # 0) /\ (\A c \in cs : c.root # 0)
    BY <1>3 DEF QueueOk, RunsOk, CardsOk
  <2>3. 0 \in 0..made
    BY <1>5
  <2>4. /\ r.kind \in {"file", "path", "download"} /\ r.home \in BOOLEAN
        /\ item \in Item /\ r.rest \ {item} \in SUBSET Item
    BY <1>5 DEF RunType
  <2>5. /\ QueueOk(cards', runs', made', Here)
        /\ made' = made + 1
        /\ \A q \in runs' : q \in runs \ {r} \/ q.id = made + 1
    BY <1>3, <1>5, <2>1, <2>2, <2>3, <2>4, StartKeepsQueue
  <2>6. KeptInv'
    BY <1>4, <1>5, <2>5, StartKeepsKept DEF Inv
  <2> QED BY <2>5, <2>6 DEF Inv
<1>7. CASE runs' = runs \ {r} /\ cards' = cs /\ UNCHANGED made
  <2>1. KeptInv'
    BY <1>4, <1>7 DEF Inv, KeptInv, NothingLeft
  <2> QED BY <1>3, <1>7, <2>1 DEF Inv
<1> QED BY <1>1, <1>6, <1>7 DEF cs

LEMMA RetryKeepsInv ==
  ASSUME Inv, Retry, UNCHANGED Here
  PROVE  Inv'
<1>0. QueueOk(cards, runs, made, Here)
  BY DEF Inv
<1>1. PICK c \in cards :
        /\ Retriable(c)
        /\ \/ Started(runs, cards \ {c}, "file", c.item, {}, c.root, TRUE)
           \/ cards' = cards \ {c} /\ UNCHANGED <<runs, made>>
  BY DEF Retry
<1>2. QueueOk(cards \ {c}, runs, made, Here)
  BY <1>0, CardsGo
<1>3. UNCHANGED <<registry, cancels, events, cloud, parts>>
  BY DEF Retry
<1>4. CASE Started(runs, cards \ {c}, "file", c.item, {}, c.root, TRUE)
  <2>1. c \in CardType /\ c.root \in 1..made /\ Here
    BY <1>0 DEF QueueOk, CardsOk
  <2>2. \A r \in runs : r.root # c.root
    BY <1>0, <1>1 DEF QueueOk, CardsOk, Retriable
  <2>3. \A d \in cards \ {c} : d.root # c.root
    BY <1>0 DEF QueueOk, CardsOk
  <2>4. made \in Nat
    BY <1>0 DEF QueueOk, RunsOk
  <2>5. /\ c.root \in 0..made /\ c.item \in Item
        /\ {} \in SUBSET Item /\ "file" \in {"file", "path", "download"}
    BY <2>1, <2>4 DEF CardType
  <2>a. PICK alone \in BOOLEAN : alone = TRUE
    OBVIOUS
  <2>b. Started(runs, cards \ {c}, "file", c.item, {}, c.root, alone)
    BY <1>4, <2>a DEF Started
  <2>c. alone \in BOOLEAN /\ (alone => Here)
    BY <2>1
  <2>6. /\ QueueOk(cards', runs', made', Here)
        /\ made' = made + 1
        /\ \A r \in runs' : r \in runs \/ r.id = made + 1
    BY <1>2, <2>2, <2>3, <2>5, <2>b, <2>c, StartKeepsQueue
  <2>7. KeptInv'
    BY <1>3, <2>4, <2>6, StartKeepsKept DEF Inv
  <2> QED BY <2>6, <2>7 DEF Inv
<1>5. CASE cards' = cards \ {c} /\ UNCHANGED <<runs, made>>
  BY <1>2, <1>3, <1>5 DEF Inv, KeptInv, NothingLeft
<1> QED BY <1>1, <1>4, <1>5

\* A progress event, a cancellation or a closed card.
LEMMA CardStepsKeepInv ==
  ASSUME Inv, EventArrives \/ Cancel \/ Close, UNCHANGED Here
  PROVE  Inv'
<1>0. QueueOk(cards, runs, made, Here)
  BY DEF Inv
<1>1. UNCHANGED <<runs, made, registry, cloud, parts>>
  BY DEF EventArrives, Cancel, Close
<1>2. CASE EventArrives
  <2>1. PICK id \in events :
          /\ events' = events \ {id}
          /\ cards' = IF Listens(id) THEN WithStatus(id, "active") ELSE cards
    BY <1>2 DEF EventArrives
  <2>2. Listens(id) => \E r \in runs : r.id = id /\ r.window
    BY DEF Listens
  <2>3. QueueOk(cards', runs, made, Here)
    BY <1>0, <2>1, <2>2, StatusKeepsQueue
  <2>4. UNCHANGED cancels
    BY <1>2 DEF EventArrives
  <2> QED BY <1>1, <2>1, <2>3, <2>4 DEF Inv, KeptInv, NothingLeft
<1>3. CASE Cancel
  <2>1. PICK c \in cards :
          cards' = WithStatus(c.id, "cancelled") /\ cancels' = cancels \cup {c.id}
    BY <1>3 DEF Cancel
  <2>2. QueueOk(cards', runs, made, Here)
    BY <1>0, <2>1, StatusKeepsQueue
  <2>3. c.id \in 1..made
    BY <1>0 DEF QueueOk, CardsOk
  <2>4. UNCHANGED events
    BY <1>3 DEF Cancel
  <2> QED BY <1>1, <2>1, <2>2, <2>3, <2>4 DEF Inv, KeptInv, NothingLeft
<1>4. CASE Close
  <2>1. PICK c \in cards : cards' = cards \ {c}
    BY <1>4 DEF Close
  <2>2. QueueOk(cards', runs, made, Here)
    BY <1>0, <2>1, CardsGo
  <2>3. UNCHANGED <<cancels, events>>
    BY <1>4 DEF Close
  <2> QED BY <1>1, <2>2, <2>3 DEF Inv, KeptInv, NothingLeft
<1> QED BY <1>2, <1>3, <1>4

-----------------------------------------------------------------------------
(* The commands.                                                            *)

\* One transfer goes on, and keeps something only while it is open.
LEMMA RunStepKeepsInv ==
  ASSUME Inv, NEW r \in runs, NEW q \in RunType, Changed(r, q),
         q.id = r.id, q.root = r.root, q.home = r.home, q.window = r.window,
         registry' \cup events' \cup parts' \subseteq registry \cup events \cup parts \cup {r.id},
         registry' \cup parts' \subseteq registry \cup parts \cup {r.id},
         q.at # "open" => r.id \notin registry' \cup parts',
         cloud' \subseteq Item, UNCHANGED <<cards, made, cancels, Here>>
  PROVE  Inv'
<1>0. QueueOk(cards, runs, made, Here)
  BY DEF Inv
<1>1. runs' = (runs \ {r}) \cup {q}
  BY DEF Changed
<1>2. QueueOk(cards', runs', made', Here')
  BY <1>0, <1>1, RunGoesOn
<1>3. r.id \in 1..made /\ \A p \in runs \ {r} : p.id # r.id
  BY <1>0 DEF QueueOk, RunsOk
<1>4. NothingLeft'
  BY <1>1, <1>3 DEF Inv, KeptInv, NothingLeft
<1>5. (registry \cup cancels \cup events \cup parts \subseteq 1..made)'
  BY <1>3 DEF Inv, KeptInv
<1> QED BY <1>2, <1>4, <1>5 DEF Inv, KeptInv

\* A transfer that ends, whatever the result.
LEMMA EndKeepsInv ==
  ASSUME Inv, NEW r \in runs, NEW result \in {"ok", "error", "CANCELLED"}, Ends(r, result),
         events' \subseteq events \cup {r.id}, UNCHANGED <<cards, made, cancels, Here>>
  PROVE  Inv'
<1>1. r \in RunType
  BY DEF Inv, QueueOk, RunsOk
<1> DEFINE q == Over(r, result)
<1>2. /\ q \in RunType /\ q.at = "over"
      /\ q.id = r.id /\ q.root = r.root /\ q.home = r.home /\ q.window = r.window
  BY <1>1 DEF Over, RunType
<1>3. Changed(r, q) /\ registry' = registry \ {r.id} /\ parts' = parts \ {r.id}
  BY DEF Ends, PartsAfter
<1>4. cloud' \subseteq Item
  <2>1. cloud \subseteq Item /\ r.item \in Item
    BY <1>1 DEF Inv, KeptInv, RunType
  <2>2. cloud' = cloud \/ cloud' = cloud \cup {r.item}
    BY DEF Ends
  <2> QED BY <2>1, <2>2
<1> HIDE DEF q
<1> QED BY <1>2, <1>3, <1>4, RunStepKeepsInv

LEMMA RunsKeepInv ==
  ASSUME Inv, Runs, UNCHANGED Here
  PROVE  Inv'
<1>0. UNCHANGED <<cards, made, cancels>>
  BY DEF Runs
<1>1. PICK r \in runs :
        \/ Opens(r) \/ Responds(r) \/ LooksAtFlag(r) \/ AwaitsWake(r) \/ Chunk(r)
        \/ EndsOk(r) \/ EndsError(r) \/ EndsCancelled(r)
  BY DEF Runs
<1>2. /\ r \in RunType
      /\ cloud \subseteq Item
      /\ r.at # "open" => r.id \notin registry \cup parts
  BY DEF Inv, QueueOk, RunsOk, KeptInv, NothingLeft
<1> DEFINE over == Over(r, "error")
<1>3. /\ over \in RunType /\ over.id = r.id /\ over.root = r.root
      /\ over.home = r.home /\ over.window = r.window
  BY <1>2 DEF Over, RunType
<1> HIDE DEF over
<1>4. CASE Opens(r)
  <2> DEFINE q == [r EXCEPT !.at = IF r.kind = "download" THEN "request" ELSE "open"]
  <2>1. /\ q \in RunType
        /\ q.id = r.id /\ q.root = r.root /\ q.home = r.home /\ q.window = r.window
        /\ q.at # "open" => r.kind = "download"
    BY <1>2 DEF RunType
  <2>2. r.at # "open" /\ UNCHANGED <<events, cloud, parts>>
    BY <1>4 DEF Opens
  <2>3. \/ Changed(r, over) /\ UNCHANGED registry
        \/ /\ Changed(r, q)
           /\ registry' = IF r.kind = "download" THEN registry ELSE registry \cup {r.id}
    BY <1>4 DEF Opens, over
  <2> HIDE DEF q
  <2>4. CASE Changed(r, over) /\ UNCHANGED registry
    BY <1>0, <1>2, <1>3, <2>2, <2>4, RunStepKeepsInv
  <2>5. CASE Changed(r, q)
             /\ registry' = IF r.kind = "download" THEN registry ELSE registry \cup {r.id}
    BY <1>0, <1>2, <2>1, <2>2, <2>5, RunStepKeepsInv
  <2> QED BY <2>3, <2>4, <2>5
<1>5. CASE Responds(r)
  <2> DEFINE q == [r EXCEPT !.at = "open"]
  <2>1. /\ q \in RunType /\ q.at = "open"
        /\ q.id = r.id /\ q.root = r.root /\ q.home = r.home /\ q.window = r.window
    BY <1>2 DEF RunType
  <2>2. r.at # "open" /\ UNCHANGED <<events, cloud>>
    BY <1>5 DEF Responds
  <2>3. \/ Changed(r, over) /\ UNCHANGED <<registry, parts>>
        \/ /\ Changed(r, q)
           /\ registry' = registry \cup {r.id} /\ parts' = parts \cup {r.id}
    BY <1>5 DEF Responds, over
  <2> HIDE DEF q
  <2>4. CASE Changed(r, over) /\ UNCHANGED <<registry, parts>>
    BY <1>0, <1>2, <1>3, <2>2, <2>4, RunStepKeepsInv
  <2>5. CASE Changed(r, q) /\ registry' = registry \cup {r.id} /\ parts' = parts \cup {r.id}
    BY <1>0, <1>2, <2>1, <2>2, <2>5, RunStepKeepsInv
  <2> QED BY <2>3, <2>4, <2>5
<1>6. CASE LooksAtFlag(r) \/ AwaitsWake(r) \/ Chunk(r)
  <2>1. PICK watch \in {"looked", "waits", "away", r.watch} :
          /\ Changed(r, [r EXCEPT !.watch = watch])
          /\ events' \subseteq events \cup {r.id}
          /\ UNCHANGED <<registry, cloud, parts>>
    <3>1. r = [r EXCEPT !.watch = r.watch]
      BY <1>2 DEF RunType
    <3> QED BY <1>6, <3>1 DEF LooksAtFlag, AwaitsWake, Chunk
  <2> DEFINE q == [r EXCEPT !.watch = watch]
  <2>2. /\ q \in RunType /\ q.at = r.at
        /\ q.id = r.id /\ q.root = r.root /\ q.home = r.home /\ q.window = r.window
    BY <1>2 DEF RunType
  <2>3. Changed(r, q)
    BY <2>1
  <2> HIDE DEF q
  <2> QED BY <1>0, <1>2, <2>1, <2>2, <2>3, RunStepKeepsInv
<1>7. CASE EndsOk(r) \/ EndsError(r) \/ EndsCancelled(r)
  <2>1. PICK result \in {"ok", "error", "CANCELLED"} :
          Ends(r, result) /\ events' \subseteq events \cup {r.id}
    BY <1>7 DEF EndsOk, EndsError, EndsCancelled
  <2> QED BY <1>0, <2>1, EndKeepsInv
<1> QED BY <1>1, <1>4, <1>5, <1>6, <1>7

\* All transfers go on at once.
LEMMA RunsGoOn ==
  ASSUME NEW cs, NEW rs, NEW m, NEW here, QueueOk(cs, rs, m, here), NEW qs \in SUBSET RunType,
         \A q \in qs : \E r \in rs :
           q.id = r.id /\ q.root = r.root /\ q.home = r.home /\ q.window = r.window,
         \A r \in rs : \E q \in qs : q.id = r.id /\ q.window = r.window,
         \A p, q \in qs : p.id = q.id \/ p.root = q.root => p = q
  PROVE  QueueOk(cs, qs, m, here)
<1>1. RunsOk(qs, m, here)
  BY DEF QueueOk, RunsOk
<1>2. CardsOk(cs, qs, m, here)
  BY DEF QueueOk, CardsOk
<1>3. NoOrphanIn(cs, qs)
  BY DEF QueueOk, NoOrphanIn
<1> QED BY <1>1, <1>2, <1>3 DEF QueueOk

LEMMA CancelServedKeepsInv ==
  ASSUME Inv, CancelServed, UNCHANGED Here
  PROVE  Inv'
<1> DEFINE Told(r, id) ==
             IF r.id # id \/ id \notin registry THEN r
             ELSE [r EXCEPT !.heard = TRUE, !.watch = IF @ = "waits" THEN "away" ELSE @]
<1>0. QueueOk(cards, runs, made, Here) /\ runs \subseteq RunType
  BY DEF Inv, QueueOk, RunsOk
<1>1. PICK id \in cancels :
        /\ cancels' = cancels \ {id}
        /\ registry' = registry \ {id}
        /\ runs' = {Told(r, id) : r \in runs}
  BY DEF CancelServed
<1>2. UNCHANGED <<cards, made, events, cloud, parts>>
  BY DEF CancelServed
<1>3. \A r \in runs : /\ Told(r, id) \in RunType
                      /\ Told(r, id).id = r.id /\ Told(r, id).root = r.root
                      /\ Told(r, id).home = r.home /\ Told(r, id).window = r.window
                      /\ Told(r, id).at = r.at
  BY <1>0 DEF RunType
<1> HIDE DEF Told
<1>4. \A p, q \in runs' : p.id = q.id \/ p.root = q.root => p = q
  <2> SUFFICES ASSUME NEW p \in runs', NEW q \in runs', p.id = q.id \/ p.root = q.root
               PROVE  p = q
    OBVIOUS
  <2>1. PICK a \in runs, b \in runs : p = Told(a, id) /\ q = Told(b, id)
    BY <1>1
  <2>2. a.id = b.id \/ a.root = b.root
    BY <1>3, <2>1
  <2>3. a = b
    BY <1>0, <2>2 DEF QueueOk, RunsOk
  <2> QED BY <2>1, <2>3
<1>5. runs' \in SUBSET RunType
  BY <1>1, <1>3
<1>6. \A q \in runs' : \E r \in runs :
        q.id = r.id /\ q.root = r.root /\ q.home = r.home /\ q.window = r.window /\ q.at = r.at
  BY <1>1, <1>3
<1>7. \A r \in runs : \E q \in runs' : q.id = r.id /\ q.window = r.window
  BY <1>1, <1>3
<1>8. QueueOk(cards, runs', made, Here)
  BY <1>0, <1>4, <1>5, <1>6, <1>7, RunsGoOn
<1>9. NothingLeft'
  BY <1>1, <1>2, <1>6 DEF Inv, KeptInv, NothingLeft
<1> QED BY <1>1, <1>2, <1>8, <1>9 DEF Inv, KeptInv

-----------------------------------------------------------------------------
(* The composition.                                                         *)

\* Transfers may lose their loop or their listener, if the cards go.
LEMMA QueueMayGo ==
  ASSUME NEW cs, NEW rs, NEW m, NEW here, QueueOk(cs, rs, m, here),
         NEW there, NEW qs \in SUBSET RunType,
         \A p, q \in qs : p.id = q.id \/ p.root = q.root => p = q,
         \A q \in qs : q.home => q.window /\ there,
         \A q \in qs : \E r \in rs :
           q.id = r.id /\ q.root = r.root /\ (there /\ r.home => q.home),
         there => \A r \in rs : \E q \in qs : q.id = r.id /\ (r.window => q.window)
  PROVE  QueueOk(IF there THEN cs ELSE {}, qs, m, there)
<1>1. RunsOk(qs, m, there)
  BY DEF QueueOk, RunsOk
<1>2. CASE there
  <2>1. CardsOk(cs, qs, m, there)
    BY <1>2 DEF QueueOk, CardsOk
  <2>2. NoOrphanIn(cs, qs)
    BY <1>2 DEF QueueOk, NoOrphanIn
  <2> QED BY <1>1, <1>2, <2>1, <2>2 DEF QueueOk
<1>3. CASE ~there
  <2>1. CardsOk({}, qs, m, there) /\ NoOrphanIn({}, qs)
    BY DEF CardsOk, NoOrphanIn
  <2> QED BY <1>1, <1>3, <2>1 DEF QueueOk
<1> QED BY <1>2, <1>3

\* A transfer whose section or window goes.
Apart(r, there, window) == [r EXCEPT !.home = @ /\ there, !.window = @ /\ window]
AllApart(qs, there, window) ==
  /\ \A q \in qs : \E r \in runs : q = Apart(r, there, window)
  /\ \A r \in runs : Apart(r, there, window) \in qs

LEMMA ApartRun ==
  ASSUME NEW r \in RunType, NEW there \in BOOLEAN, NEW window \in BOOLEAN
  PROVE  /\ Apart(r, there, window) \in RunType
         /\ Apart(r, there, window).id = r.id /\ Apart(r, there, window).root = r.root
         /\ Apart(r, there, window).home = (r.home /\ there)
         /\ Apart(r, there, window).window = (r.window /\ window)
         /\ Apart(r, there, window).at = r.at
  BY DEF Apart, RunType

\* The section or the window goes: the cards with it, and the transfers go on
\* alone, without a listener if the window goes.
LEMMA SectionMayGo ==
  ASSUME Inv, NEW there \in BOOLEAN, NEW window \in BOOLEAN, there = FALSE \/ window = TRUE,
         NEW qs, AllApart(qs, there, window)
  PROVE  /\ QueueOk(IF there THEN cards ELSE {}, qs, made, there)
         /\ \A q \in qs : \E r \in runs : q.id = r.id /\ q.at = r.at
<1>0. RunsOk(runs, made, Here)
  BY DEF Inv, QueueOk
<1>1. runs \subseteq RunType
  BY <1>0 DEF RunsOk
<1>2. \A r \in runs : /\ Apart(r, there, window) \in RunType
                      /\ Apart(r, there, window).id = r.id
                      /\ Apart(r, there, window).root = r.root
                      /\ Apart(r, there, window).home = (r.home /\ there)
                      /\ Apart(r, there, window).window = (r.window /\ window)
                      /\ Apart(r, there, window).at = r.at
  BY <1>1, ApartRun
<1>3. \A r \in runs : r.home => r.window
  BY <1>0 DEF RunsOk
<1>4. \A q \in qs : \E r \in runs :
        /\ q \in RunType /\ q.id = r.id /\ q.root = r.root /\ q.at = r.at
        /\ there /\ r.home => q.home
        /\ q.home => q.window /\ there
  <2> SUFFICES ASSUME NEW q \in qs
               PROVE  \E r \in runs :
                        /\ q \in RunType /\ q.id = r.id /\ q.root = r.root /\ q.at = r.at
                        /\ there /\ r.home => q.home
                        /\ q.home => q.window /\ there
    OBVIOUS
  <2>1. PICK r \in runs : q = Apart(r, there, window)
    BY DEF AllApart
  <2>2. there /\ r.home => q.home
    BY <1>2, <2>1
  <2>3. q.home => q.window /\ there
    BY <1>2, <1>3, <2>1
  <2> QED BY <1>2, <2>1, <2>2, <2>3
<1>5. \A p, q \in qs : p.id = q.id \/ p.root = q.root => p = q
  <2> SUFFICES ASSUME NEW p \in qs, NEW q \in qs, p.id = q.id \/ p.root = q.root
               PROVE  p = q
    OBVIOUS
  <2>1. PICK a \in runs, b \in runs : p = Apart(a, there, window) /\ q = Apart(b, there, window)
    BY DEF AllApart
  <2>2. a.id = b.id \/ a.root = b.root
    BY <1>2, <2>1
  <2>3. a = b
    BY <1>0, <2>2 DEF RunsOk
  <2> QED BY <2>1, <2>3
<1>6. there => \A r \in runs : \E q \in qs : q.id = r.id /\ (r.window => q.window)
  <2> SUFFICES ASSUME there, NEW r \in runs
               PROVE  \E q \in qs : q.id = r.id /\ (r.window => q.window)
    OBVIOUS
  <2>1. r.window => Apart(r, there, window).window
    BY <1>2
  <2>2. Apart(r, there, window) \in qs
    BY DEF AllApart
  <2> QED BY <1>2, <2>1, <2>2
<1>7. \A q \in qs : q.home => q.window /\ there
  BY <1>4
<1>8. qs \in SUBSET RunType
  BY <1>4
<1>9. \A q \in qs : \E r \in runs : q.id = r.id /\ q.root = r.root /\ (there /\ r.home => q.home)
  BY <1>4
<1>10. QueueOk(cards, runs, made, Here)
  BY DEF Inv
<1>11. QueueOk(IF there THEN cards ELSE {}, qs, made, there)
  BY <1>5, <1>6, <1>7, <1>8, <1>9, <1>10, QueueMayGo
<1> QED BY <1>4, <1>11

LEMMA FollowKeepsInv ==
  ASSUME Inv, Follow
  PROVE  Inv'
<1>1. runs \subseteq RunType
  BY DEF Inv, QueueOk, RunsOk
<1>2. PICK there \in BOOLEAN : there <=> Here'
  OBVIOUS
<1>3. PICK window \in BOOLEAN : window = TRUE
  OBVIOUS
<1>4. \A r \in runs : [r EXCEPT !.home = @ /\ Here'] = Apart(r, there, window)
  BY <1>1, <1>2, <1>3 DEF Apart, RunType
<1>5. runs' = {[r EXCEPT !.home = @ /\ Here'] : r \in runs}
  BY DEF Follow
<1>6. AllApart(runs', there, window)
  BY <1>4, <1>5 DEF AllApart
<1>8. there = FALSE \/ window = TRUE
  BY <1>3
<1>9. /\ QueueOk(IF there THEN cards ELSE {}, runs', made, there)
      /\ \A q \in runs' : \E r \in runs : q.id = r.id /\ q.at = r.at
  BY <1>6, <1>8, SectionMayGo
<1>10. cards' = IF there THEN cards ELSE {}
  BY <1>2 DEF Follow, CardsFollow
<1>11. QueueOk(cards', runs', made, Here')
  BY <1>2, <1>9, <1>10 DEF QueueOk, RunsOk, CardsOk
<1>12. KeptInv'
  BY <1>9 DEF Inv, KeptInv, NothingLeft, Follow
<1> QED BY <1>11, <1>12 DEF Inv, Follow

LEMMA ChangeServerKeepsInv ==
  ASSUME Inv, ChangeServer, WindowGoes
  PROVE  Inv'
<1>1. runs \subseteq RunType
  BY DEF Inv, QueueOk, RunsOk
<1>2. ~Here'
  BY DEF ChangeServer, LoadsAnew, Here
<1>3. PICK gone \in BOOLEAN : gone = FALSE
  OBVIOUS
<1>4. \A r \in runs : [r EXCEPT !.home = FALSE, !.window = FALSE] = Apart(r, gone, gone)
  BY <1>1, <1>3 DEF Apart, RunType
<1>5. runs' = {[r EXCEPT !.home = FALSE, !.window = FALSE] : r \in runs}
  BY DEF WindowGoes
<1>6. AllApart(runs', gone, gone)
  BY <1>4, <1>5 DEF AllApart
<1>8. /\ QueueOk(IF gone THEN cards ELSE {}, runs', made, gone)
      /\ \A q \in runs' : \E r \in runs : q.id = r.id /\ q.at = r.at
  BY <1>3, <1>6, SectionMayGo
<1>9. cards' = {}
  BY <1>2 DEF WindowGoes, CardsFollow
<1>10. QueueOk(cards', runs', made, Here')
  BY <1>2, <1>3, <1>8, <1>9 DEF QueueOk, RunsOk, CardsOk
<1>11. KeptInv'
  BY <1>8 DEF Inv, KeptInv, NothingLeft, WindowGoes
<1> QED BY <1>10, <1>11 DEF Inv, WindowGoes

LEMMA ProcessGoesKeepsInv ==
  ASSUME Inv, ProcessGoes
  PROVE  Inv'
<1>1. QueueOk(cards', runs', made', Here')
  BY DEF Inv, ProcessGoes, QueueOk, RunsOk, CardsOk, NoOrphanIn
<1>2. KeptInv'
  BY DEF Inv, ProcessGoes, KeptInv, NothingLeft
<1> QED BY <1>1, <1>2 DEF Inv

LEMMA NextKeepsInv ==
  ASSUME Inv, [DesktopNext]_desktop
  PROVE  Inv'
<1>1. CASE Stays /\ Follow
  BY <1>1, FollowKeepsInv
<1>2. CASE ChangeServer /\ WindowGoes
  BY <1>2, ChangeServerKeepsInv
<1>3. CASE Restart /\ ProcessGoes
  BY <1>3, ProcessGoesKeepsInv
<1>4. CASE TransferNext
  <2>1. UNCHANGED Here
    BY <1>4 DEF TransferNext, screen, Here
  <2>2. Transfer => Inv'
    BY <2>1, TransferKeepsInv
  <2>3. Returns => Inv'
    BY <2>1, ReturnsKeepsInv
  <2>4. EventArrives \/ Cancel \/ Close => Inv'
    BY <2>1, CardStepsKeepInv
  <2>5. Retry => Inv'
    BY <2>1, RetryKeepsInv
  <2>6. Runs => Inv'
    BY <2>1, RunsKeepInv
  <2>7. CancelServed => Inv'
    BY <2>1, CancelServedKeepsInv
  <2> QED BY <1>4, <2>2, <2>3, <2>4, <2>5, <2>6, <2>7 DEF TransferNext
<1>5. CASE UNCHANGED desktop
  BY <1>5 DEF desktop, svars, screen, tvars, Inv, QueueOk, RunsOk, CardsOk, NoOrphanIn,
              KeptInv, NothingLeft, Here
<1> QED BY <1>1, <1>2, <1>3, <1>4, <1>5 DEF DesktopNext

LEMMA InitHasInv ==
  ASSUME DesktopInit
  PROVE  Inv
  BY StoredAssumption DEF DesktopInit, Inv, QueueOk, RunsOk, CardsOk, NoOrphanIn, KeptInv, NothingLeft

LEMMA InvHolds ==
  DesktopSpec => []Inv
<1>1. DesktopInit => Inv
  BY InitHasInv
<1>2. Inv /\ [DesktopNext]_desktop => Inv'
  BY NextKeepsInv
<1> QED BY <1>1, <1>2, PTL DEF DesktopSpec

-----------------------------------------------------------------------------
(* The theorems.                                                            *)

\* The queue shows cards only in the file section, one for each id, and what
\* the commands keep belongs to an id that was given (OperationQueue.tsx).
THEOREM TransfersTypeCorrect ==
  DesktopSpec => []TransfersTypeOK
<1>1. Inv => TransfersTypeOK
  BY DEF Inv, QueueOk, RunsOk, CardsOk, KeptInv, TransfersTypeOK
<1> QED BY <1>1, InvHolds, PTL

\* A retried upload never runs beside the one it repeats, since only a card
\* with an error is sent again and a card has none while its transfer runs
\* (handleRetry in LozaTab.tsx).
THEOREM RetriesRunAlone ==
  DesktopSpec => []RetryAlone
<1>1. Inv => RetryAlone
  BY DEF Inv, QueueOk, RunsOk, RetryAlone
<1> QED BY <1>1, InvHolds, PTL

\* No progress event, late or not, brings back a card whose transfer has ended
\* (the listeners of LozaTab.tsx).
THEOREM NoCardIsOrphaned ==
  DesktopSpec => []NoOrphanCard
<1>1. Inv => NoOrphanCard
  BY DEF Inv, QueueOk, NoOrphanIn, NoOrphanCard
<1> QED BY <1>1, InvHolds, PTL

\* However a transfer ends, its token and its part file are gone then, whether
\* or not its section, its window or its session is still there (files.rs).
THEOREM TransfersLeaveNothing ==
  DesktopSpec => []NothingLeft
<1>1. Inv => NothingLeft
  BY DEF Inv, KeptInv
<1> QED BY <1>1, InvHolds, PTL

\* The transfers do not disturb the pages: the app with its transfers has one
\* login under way at most as well (AuthPage.tsx).
THEOREM OneLoginBesideTransfers ==
  DesktopSpec => []OneLogin
<1>1. DesktopInit => SessionInv
  BY SessionInitHasInv DEF DesktopInit
<1>2. SessionInv /\ [DesktopNext]_desktop => SessionInv'
  <2>1. SessionInv /\ (UNCHANGED desktop \/ TransferNext) => SessionInv'
    BY DEF desktop, svars, screen, TransferNext, SessionInv
  <2> QED BY <2>1, SessionStepsKeepInv DEF DesktopNext
<1>3. SessionInv => OneLogin
  BY InvHasOneLogin
<1> QED BY <1>1, <1>2, <1>3, PTL DEF DesktopSpec

\* What a transfer takes of the bounds is not a token.
LEMMA TransfersKeepCalls ==
  ASSUME CallsInv, LiveInv, TransferNext
  PROVE  CallsInv' /\ LiveInv'
<1>1. UNCHANGED <<stored, rows, old, calls, screen, amiss>>
  BY DEF TransferNext
<1>2. LeftOk(sleft) /\ TokenInv
  BY DEF CallsInv, TokenInv
<1>3. LeftOk(sleft') /\ sleft'["tokens"] = sleft["tokens"]
  <2>1. CASE UNCHANGED sleft
    BY <1>2, <2>1
  <2>2. CASE \E what \in {"cancels", "sends"} : Spare(what)
    BY <1>2, <2>2, SpareLeaves
  <2>3. CASE Transfer
    <3>1. PICK items \in SUBSET Item :
            /\ Cardinality(items) <= sleft.sends
            /\ sleft' = [sleft EXCEPT !.sends = @ - Cardinality(items)]
      BY <2>3 DEF Transfer
    <3> DEFINE k == Cardinality(items)
    <3>2. k \in Nat
      BY StoredAssumption, FS_Subset, FS_CardinalityType
    <3>3. k <= sleft["sends"] /\ sleft' = [sleft EXCEPT !["sends"] = sleft["sends"] - k]
      BY <3>1
    <3> HIDE DEF k
    <3>4. DOMAIN sleft' = DOMAIN sleft /\ sleft'["tokens"] = sleft["tokens"]
      BY <1>2, <3>3 DEF LeftOk
    <3>5. \A what \in DOMAIN sleft : sleft'[what] \in Nat
      BY <1>2, <3>2, <3>3 DEF LeftOk
    <3>6. sleft' \in [DOMAIN sleft' -> Nat]
      BY <3>3, <3>4, <3>5
    <3> QED BY <1>2, <3>4, <3>6 DEF LeftOk
  <2> QED
    BY <2>1, <2>2, <2>3
       DEF TransferNext, Returns, EventArrives, Cancel, Close, Retry, Runs, CancelServed
<1>4. TokenInv'
  BY <1>1, <1>2, <1>3 DEF TokenInv, stored
<1> QED BY <1>1, <1>4 DEF CallsInv, SessionInv, PageOk, LiveInv, screen, stored

\* Nor do they disturb the sessions: the app with its transfers keeps the
\* shape of its sessions, and a stored session its server knows, with the same
\* exceptions as without transfers (amiss: failures, lost answers, overlapping
\* refreshes, rows taken away, a change of server; auth.rs).
THEOREM SessionsBesideTransfers ==
  DesktopSpec => [](SessionTypeOK /\ StoredIsLive)
<1>1. DesktopInit => CallsInv /\ LiveInv
  BY InitHasCalls, InitLives DEF DesktopInit
<1>2. CallsInv /\ LiveInv /\ [DesktopNext]_desktop => (CallsInv /\ LiveInv)'
  <2>1. CallsInv /\ LiveInv /\ UNCHANGED desktop => (CallsInv /\ LiveInv)'
    BY DEF desktop, svars, screen, CallsInv, SessionInv, TokenInv, PageOk, LiveInv
  <2> QED BY <2>1, StepsKeepCalls, StepsKeepLive, TransfersKeepCalls DEF DesktopNext
<1>3. CallsInv /\ LiveInv => SessionTypeOK /\ StoredIsLive
  BY CallsHaveTypes, LiveIsStoredLive
<1> QED BY <1>1, <1>2, <1>3, PTL DEF DesktopSpec

=============================================================================
