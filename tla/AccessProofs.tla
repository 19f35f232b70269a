---------------------------- MODULE AccessProofs ----------------------------
(***************************************************************************)
(* Proofs about who is let in to charge: Cards and Roaming, for any number *)
(* of cards, groups, connections, partners, requests and faults.           *)
(***************************************************************************)
EXTENDS MCAccess, TLAPS

-----------------------------------------------------------------------------
(* The inductive invariant of Cards.                                       *)

\* A uid without a row has no history; rows are purged, never forgotten.
BlankSound ==
    \A u \in Uid :
        card[u].status = "none" => card[u].by = NoOne /\ card[u].replaces = NoOne

\* The steps at which a request still has to write or to log card uid, or new.
OnUid == {"write", "log", "insert", "swap", "log_old", "log_new"}
OnNew == {"swap", "log_old", "log_new"}

\* The cards a request is about have rows, and as long as nobody else has written
\* their status, it is the one the request is about to log.
ReqOk(r) ==
    LET k == req[r]
    IN  /\ k.pc \in OnUid => k.uid \in Uid /\ card[k.uid].status # "none"
        /\ k.pc \in {"write", "log"} => k.status \notin {"none", "purged"}
        /\ k.pc = "insert" => k.new \in Uid /\ k.uid # k.new
        /\ k.pc \in OnNew => /\ k.new \in Uid /\ k.uid # k.new
                             /\ card[k.new].status # "none"
        /\ k.pc \in {"trail", "rows"} => \A u \in k.found : u \in TestUid /\ card[u].status # "none"
        /\ k.pc = "swap" => \/ card[k.new].status = "purged"
                            \/ card[k.new].replaces = k.uid
        /\ k.pc = "log" /\ k.uid \notin torn /\ Exists(k.uid) =>
             card[k.uid].status = k.status
        /\ k.pc \in OnNew /\ k.new \notin torn /\ Exists(k.new) =>
             card[k.new].status = "active"
        /\ k.pc = "log_old" /\ k.uid \notin torn /\ Exists(k.uid) =>
             card[k.uid].status = "blocked"

ReqSound == \A r \in Req : ReqOk(r)

\* The context a connection keeps, and the one an accepted card brings, were
\* looked up on it.
LineSound ==
    \A l \in Line :
        /\ line[l].last \in vouched[l] \cup {Prepaid}
        /\ line[l].found.accept => line[l].found.ctx \in vouched[l]

\* A card whose entries a purge has deleted has none and none on the way, and nobody
\* is about to write or log a card that is purged.
PurgeSound ==
    /\ \A u \in Emptied \ torn : audit[u] = "none" /\ u \notin Unlogged
    /\ \A u \in Awaited \ torn : card[u].status # "purged"

CardsIInv ==
    /\ CardsTypeOK /\ BlankSound /\ ReqSound /\ LineSound /\ PurgeSound
    /\ AuditExplains /\ PurgeClean /\ SuccessorFirst /\ ContextTrusted

-----------------------------------------------------------------------------
(* Lemmas about the steps of Cards.                                        *)

LEMMA CardsInitIInv == CardsInit => CardsIInv
<1> SUFFICES ASSUME CardsInit PROVE CardsIInv
  OBVIOUS
<1> USE CardAssumption DEF CardsInit
<1>1. CardsTypeOK
  <2>1. NoCard \in Card /\ NoReq \in Request /\ Prepaid \in Context /\ Nothing \in Verdict
    BY DEF NoCard, Card, NoReq, Request, Prepaid, Context, Nothing, Verdict, Status
  <2> QED BY <2>1 DEF CardsTypeOK, Status
<1>2. ReqSound
  BY DEF ReqSound, ReqOk, NoReq, OnUid, OnNew
<1>3. LineSound /\ ContextTrusted
  BY DEF LineSound, ContextTrusted, Nothing
<1>4. BlankSound /\ AuditExplains /\ PurgeClean /\ SuccessorFirst
  BY DEF BlankSound, AuditExplains, PurgeClean, SuccessorFirst, NoCard, Exists
<1>5. PurgeSound
  BY DEF PurgeSound, Emptied, EmptiedBy, Awaited, AwaitedBy, UnloggedBy, NoReq
<1> QED BY <1>1, <1>2, <1>3, <1>4, <1>5 DEF CardsIInv

\* What no step does to the cards: a row does not go back to nothing, a purged one
\* stays purged, a link to the card replaced is purged or stays, and a status
\* written over one that is still to be logged is on record.
CardStep ==
    /\ \A u \in Uid :
        /\ card[u].status # "none" => card'[u].status # "none"
        /\ card'[u].status = "none" => card'[u] = card[u]
        /\ card[u].status = "purged" => card'[u].status = "purged"
        /\ card[u].status # "none" /\ card'[u].status # "purged" =>
             card'[u].replaces = card[u].replaces
        /\ u \in Unlogged /\ card'[u].status # card[u].status => u \in torn'
    /\ torn \subseteq torn'

LEMMA UnloggedIs == \A u : u \in Unlogged <=> \E r \in Req : u \in UnloggedBy(r)
BY DEF Unlogged

\* The cards a step of request r takes into its hands or out of them.
LEMMA UnloggedMoves ==
    ASSUME NEW r \in Req, \A o \in Req \ {r} : req'[o] = req[o]
    PROVE  \A u : /\ u \in Unlogged => u \in UnloggedBy(r) \/ u \in Unlogged'
                  /\ u \in UnloggedBy(r)' => u \in Unlogged'
                  /\ u \in Unlogged' => u \in UnloggedBy(r)' \/ u \in Unlogged
<1>1. \A o \in Req \ {r} : UnloggedBy(o)' = UnloggedBy(o)
  BY DEF UnloggedBy
<1>2. \A u : u \in Unlogged <=> \E o \in Req : u \in UnloggedBy(o)
  BY UnloggedIs
<1>3. \A u : u \in Unlogged' <=> \E o \in Req : u \in UnloggedBy(o)'
  BY DEF Unlogged
<1> QED BY <1>1, <1>2, <1>3

\* Card by card, what request r has written and not logged.
LEMMA UnloggedByIs ==
    ASSUME NEW r \in Req
    PROVE  \A u : u \in UnloggedBy(r) <=>
                    \/ req[r].pc \in {"log", "log_old"} /\ u = req[r].uid
                    \/ req[r].pc \in OnNew /\ u = req[r].new
BY DEF UnloggedBy, OnNew

\* The same of the cards a request will write or log, and of those a purge has left
\* without entries.
LEMMA AwaitedMoves ==
    ASSUME NEW r \in Req, \A o \in Req \ {r} : req'[o] = req[o]
    PROVE  \A u : /\ u \in Awaited' => u \in AwaitedBy(r)' \/ u \in Awaited
                  /\ u \in AwaitedBy(r) => u \in Awaited
                  /\ u \in Emptied' => u \in EmptiedBy(r)' \/ u \in Emptied
                  /\ u \in Emptied => u \in EmptiedBy(r) \/ u \in Emptied'
                  /\ u \in EmptiedBy(r)' => u \in Emptied'
                  /\ u \in EmptiedBy(r) => u \in Emptied
<1>1. \A o \in Req \ {r} : AwaitedBy(o)' = AwaitedBy(o) /\ EmptiedBy(o)' = EmptiedBy(o)
  BY DEF AwaitedBy, UnloggedBy, EmptiedBy
<1>2. \A u : /\ u \in Awaited <=> \E o \in Req : u \in AwaitedBy(o)
             /\ u \in Emptied <=> \E o \in Req : u \in EmptiedBy(o)
  BY DEF Awaited, Emptied
<1>3. \A u : /\ u \in Awaited' <=> \E o \in Req : u \in AwaitedBy(o)'
             /\ u \in Emptied' <=> \E o \in Req : u \in EmptiedBy(o)'
  BY DEF Awaited, Emptied
<1> QED BY <1>1, <1>2, <1>3

\* What a request has still to log, it has in hand.
LEMMA UnloggedAwaited == \A u : u \in Unlogged => u \in Awaited
BY DEF Unlogged, Awaited, AwaitedBy

\* A step that deletes no row and no entry, and logs only what its request has
\* written: the purges of the others see what they rely on.
LEMMA PurgeKept ==
    ASSUME CardsIInv, NEW r \in Req, CardStep,
           \A o \in Req \ {r} : req'[o] = req[o],
           req'[r].pc # "rows" \/ req' = req,
           \A u \in Uid : card'[u].status = "purged" => card[u].status = "purged",
           \A u \in Uid : audit'[u] # audit[u] => u \in UnloggedBy(r),
           \A u \in UnloggedBy(r)' : u \in UnloggedBy(r) \/ u \in torn' \/ u \notin Emptied,
           \A u \in AwaitedBy(r)' :
               u \in AwaitedBy(r) \/ u \in torn' \/ card'[u].status # "purged"
    PROVE  PurgeSound' /\ PurgeClean'
<1>1. torn \subseteq torn'
  BY DEF CardStep
<1>2. \A u : u \in UnloggedBy(r) => u \in Unlogged
  BY UnloggedIs
<1>3. EmptiedBy(r)' \subseteq EmptiedBy(r)
  BY DEF EmptiedBy
<1>4. ASSUME NEW u \in Emptied', u \notin torn' PROVE audit'[u] = "none" /\ u \notin Unlogged'
  <2>1. u \in Emptied
    BY <1>3, <1>4, AwaitedMoves
  <2>2. audit[u] = "none" /\ u \notin Unlogged
    BY <1>1, <1>4, <2>1 DEF CardsIInv, PurgeSound
  <2>3. u \in Uid
    BY <2>1 DEF Emptied, EmptiedBy, CardsIInv, CardsTypeOK, Request
  <2>4. u \notin UnloggedBy(r)'
    BY <1>2, <1>4, <2>1, <2>2
  <2> QED BY <1>2, <2>2, <2>3, <2>4, UnloggedMoves
<1>5. ASSUME NEW u \in Awaited', u \notin torn' PROVE card'[u].status # "purged"
  <2>1. CASE u \in Awaited
    <3>1. u \in Uid
      BY <2>1 DEF Awaited, AwaitedBy, UnloggedBy, CardsIInv, ReqSound, ReqOk, OnUid, OnNew
    <3> QED BY <1>1, <1>5, <2>1, <3>1 DEF CardsIInv, PurgeSound
  <2>2. CASE u \notin Awaited
    BY <1>5, <2>2, AwaitedMoves
  <2> QED BY <2>1, <2>2
<1>6. ASSUME NEW u \in Uid, card'[u].status = "purged", u \notin torn' PROVE audit'[u] = "none"
  <2>1. card[u].status = "purged" /\ u \notin torn
    BY <1>1, <1>6
  <2>2. u \notin Unlogged
    BY <2>1, UnloggedAwaited DEF CardsIInv, PurgeSound
  <2> QED BY <1>2, <2>1, <2>2 DEF CardsIInv, PurgeClean
<1> QED BY <1>4, <1>5, <1>6 DEF PurgeSound, PurgeClean

\* A step of another request leaves true what request o relies on.
LEMMA OthersOk ==
    ASSUME CardsTypeOK, CardStep, NEW o \in Req, ReqOk(o), req'[o] = req[o]
    PROVE  ReqOk(o)'
<1> DEFINE k == req[o]
<1>k. req'[o] = k
  OBVIOUS
<1>1. /\ k.pc \in OnUid => k.uid \in Uid /\ card[k.uid].status # "none"
      /\ k.pc \in OnNew => k.new \in Uid /\ card[k.new].status # "none" /\ k.uid # k.new
      /\ k.pc = "insert" => k.new \in Uid /\ k.uid # k.new
      /\ k.pc \in {"trail", "rows"} =>
            \A u \in k.found : u \in TestUid /\ card[u].status # "none"
      /\ k.pc \in {"write", "log"} => k.status \notin {"none", "purged"}
      /\ k.pc = "swap" => card[k.new].status = "purged" \/ card[k.new].replaces = k.uid
      /\ k.pc = "log" /\ k.uid \notin torn /\ Exists(k.uid) => card[k.uid].status = k.status
      /\ k.pc \in OnNew /\ k.new \notin torn /\ Exists(k.new) => card[k.new].status = "active"
      /\ k.pc = "log_old" /\ k.uid \notin torn /\ Exists(k.uid) => card[k.uid].status = "blocked"
  BY DEF ReqOk
<1>2. /\ k.pc \in {"log", "log_old"} => k.uid \in Unlogged
      /\ k.pc \in OnNew => k.new \in Unlogged
  BY UnloggedIs, UnloggedByIs
<1>f. k.found \subseteq Uid
  BY DEF CardsTypeOK, Request
<1> HIDE DEF k
<1>3. ASSUME NEW u \in Uid, u \in Unlogged, u \notin torn'
      PROVE  u \notin torn /\ card'[u].status = card[u].status /\ (Exists(u)' => Exists(u))
  BY <1>3 DEF CardStep, Exists
<1>4. k.pc \in OnUid => k.uid \in Uid /\ card'[k.uid].status # "none"
  BY <1>1 DEF CardStep
<1>5. /\ k.pc \in OnNew => k.new \in Uid /\ k.uid # k.new /\ card'[k.new].status # "none"
      /\ k.pc = "swap" => card'[k.new].status = "purged" \/ card'[k.new].replaces = k.uid
  BY <1>1 DEF CardStep, OnNew
<1>6. k.pc = "log" /\ k.uid \notin torn' => card'[k.uid].status = k.status
                                            \/ card'[k.uid].status \in {"none", "purged"}
  BY <1>1, <1>2, <1>3 DEF OnUid, Exists
<1>7. k.pc \in OnNew /\ k.new \notin torn' => card'[k.new].status = "active"
                                              \/ card'[k.new].status \in {"none", "purged"}
  BY <1>1, <1>2, <1>3 DEF OnUid, Exists
<1>8. k.pc = "log_old" /\ k.uid \notin torn' => card'[k.uid].status = "blocked"
                                                \/ card'[k.uid].status \in {"none", "purged"}
  BY <1>1, <1>2, <1>3 DEF OnUid, Exists
<1>9. k.pc \in {"trail", "rows"} => \A u \in k.found : u \in TestUid /\ card'[u].status # "none"
  BY <1>1, <1>f DEF CardStep
<1> QED BY <1>k, <1>1, <1>4, <1>5, <1>6, <1>7, <1>8, <1>9 DEF ReqOk, Exists

\* What has to be seen of a step of request r.
LEMMA RequestKeeps ==
    ASSUME CardsIInv, NEW r \in Req, CardsTypeOK', CardStep, ReqOk(r)',
           \A o \in Req \ {r} : req'[o] = req[o],
           UNCHANGED <<line, started, vouched>>, PurgeSound', PurgeClean',
           \/ req[r].pc # "rows" \/ req' = req
           \/ \A u \in EmptiedBy(r) : u \in torn' \/ card'[u].status = "purged",
           \A u \in Uid :
               card'[u].status \notin {"none", "purged"} /\ u \notin torn'
                 /\ u \notin UnloggedBy(r)' /\ u \notin EmptiedBy(r)' =>
                   \/ audit'[u] = card'[u].status
                   \/ /\ u \notin UnloggedBy(r) /\ audit'[u] = audit[u]
                      /\ card'[u].status = card[u].status,
           \A u \in Uid : \/ card'[u].by \in {card[u].by, NoOne}
                          \/ /\ card'[u].by \in Uid
                             /\ \/ card'[card'[u].by].status = "purged"
                                \/ card'[card'[u].by].replaces = u
    PROVE  CardsIInv'
<1>1. BlankSound'
  BY DEF CardsIInv, BlankSound, CardStep
<1>2. ReqSound'
  BY OthersOk DEF CardsIInv, ReqSound
<1>3. LineSound' /\ ContextTrusted'
  BY DEF CardsIInv, LineSound, ContextTrusted
<1>4. AuditExplains'
  <2> SUFFICES ASSUME NEW u \in Uid, Exists(u)', u \notin torn', u \notin Unlogged',
                      u \notin Emptied'
               PROVE  audit'[u] = card'[u].status
    BY DEF AuditExplains
  <2>1. u \notin UnloggedBy(r)' /\ (u \in Unlogged => u \in UnloggedBy(r))
    BY UnloggedMoves
  <2>e. u \notin EmptiedBy(r)' /\ (u \in Emptied => u \in EmptiedBy(r))
    BY AwaitedMoves
  <2>n. u \notin EmptiedBy(r)
    BY <2>e DEF Exists, EmptiedBy
  <2>2. u \notin torn
    BY DEF CardStep
  <2>3. CASE audit'[u] = card'[u].status
    BY <2>3
  <2>4. CASE audit'[u] # card'[u].status
    <3>1. u \notin Unlogged /\ audit'[u] = audit[u] /\ card'[u].status = card[u].status
      BY <2>1, <2>4, <2>e DEF Exists
    <3>2. Exists(u)
      BY <3>1 DEF Exists
    <3> QED BY <2>2, <2>e, <2>n, <3>1, <3>2 DEF CardsIInv, AuditExplains
  <2> QED BY <2>3, <2>4
<1>5. SuccessorFirst'
  <2> SUFFICES ASSUME NEW u \in Uid, card'[u].by # NoOne
               PROVE  card'[card'[u].by].status = "purged" \/ card'[card'[u].by].replaces = u
    BY DEF SuccessorFirst
  <2> DEFINE n == card'[u].by
  <2>1. CASE n = card[u].by
    <3>1. n \in Uid
      BY <2>1 DEF CardsIInv, CardsTypeOK, Card
    <3>2. card[n].status = "purged" \/ card[n].replaces = u
      BY <2>1 DEF CardsIInv, SuccessorFirst
    <3>3. card[n].status # "none"
      BY <3>1, <3>2, CardAssumption DEF CardsIInv, BlankSound
    <3> QED BY <3>1, <3>2, <3>3 DEF CardStep
  <2>2. CASE n # card[u].by
    BY <2>2
  <2> QED BY <2>1, <2>2
<1> QED BY <1>1, <1>2, <1>3, <1>4, <1>5 DEF CardsIInv

-----------------------------------------------------------------------------
(* The steps of Cards.                                                     *)

LEMMA RowFields ==
    ASSUME NEW c \in Card
    PROVE  /\ \A st \in Status : /\ [c EXCEPT !.status = st] \in Card
                                 /\ [c EXCEPT !.status = st].status = st
                                 /\ [c EXCEPT !.status = st].by = c.by
                                 /\ [c EXCEPT !.status = st].replaces = c.replaces
           /\ \A n \in Uid :
                 /\ [c EXCEPT !.status = "blocked", !.by = n] \in Card
                 /\ [c EXCEPT !.status = "blocked", !.by = n].status = "blocked"
                 /\ [c EXCEPT !.status = "blocked", !.by = n].by = n
                 /\ [c EXCEPT !.status = "blocked", !.by = n].replaces = c.replaces
BY DEF Card, Status

LEMMA BlankCards ==
    /\ NoCard \in Card /\ NoCard.status = "none" /\ NoCard.by = NoOne /\ NoCard.replaces = NoOne
    /\ \A g \in Group \cup {NoOne}, u \in Uid :
          LET c == [NoCard EXCEPT !.status = "active", !.group = g, !.replaces = u]
          IN  c \in Card /\ c.status = "active" /\ c.by = NoOne /\ c.replaces = u
BY DEF NoCard, Card, Status

\* The row of one card is written.
LEMMA RowWritten ==
    ASSUME CardsTypeOK, NEW u \in Uid, NEW c \in Card, card' = [card EXCEPT ![u] = c]
    PROVE  /\ card' \in [Uid -> Card] /\ card'[u] = c
           /\ \A x \in Uid \ {u} : card'[x] = card[x]
BY DEF CardsTypeOK

LEMMA RequestWritten ==
    ASSUME CardsTypeOK, NEW r \in Req, NEW k \in Request, req' = [req EXCEPT ![r] = k]
    PROVE  /\ req' \in [Req -> Request] /\ req'[r] = k
           /\ \A o \in Req \ {r} : req'[o] = req[o]
BY DEF CardsTypeOK

LEMMA Goes ==
    ASSUME CardsTypeOK, NEW r \in Req,
           NEW pc \in {"idle", "write", "log", "insert", "swap", "log_old", "log_new", "drop",
                       "trail", "rows"},
           NextStep(r, pc)
    PROVE  /\ req' \in [Req -> Request]
           /\ req'[r].pc = pc /\ req'[r].uid = req[r].uid /\ req'[r].new = req[r].new
           /\ req'[r].status = req[r].status /\ req'[r].group = req[r].group
           /\ req'[r].found = req[r].found
           /\ \A o \in Req \ {r} : req'[o] = req[o]
<1> DEFINE k == [req[r] EXCEPT !.pc = pc]
<1>1. /\ k \in Request /\ k.pc = pc /\ k.uid = req[r].uid /\ k.new = req[r].new
      /\ k.status = req[r].status /\ k.group = req[r].group /\ k.found = req[r].found
  BY DEF CardsTypeOK, Request
<1>2. req' = [req EXCEPT ![r] = k]
  BY DEF NextStep, CardsTypeOK
<1> HIDE DEF k
<1> QED BY <1>1, <1>2, RequestWritten

LEMMA Answers ==
    ASSUME CardsTypeOK, NEW r \in Req, Answer(r)
    PROVE  /\ req' \in [Req -> Request] /\ req'[r].pc = "idle"
           /\ \A o \in Req \ {r} : req'[o] = req[o]
<1>1. NoReq \in Request /\ NoReq.pc = "idle"
  BY DEF NoReq, Request, Status
<1> QED BY <1>1, RequestWritten DEF Answer

\* A request that is idle has nothing in its hands; an unlogged card has a row.
LEMMA HandsOf ==
    ASSUME CardsIInv
    PROVE  /\ \A r \in Req : req[r].pc \notin {"log", "swap", "log_old", "log_new"} =>
                               UnloggedBy(r) = {}
           /\ \A u \in Unlogged : u \in Uid /\ card[u].status # "none"
           /\ \A u \in Emptied : u \in Uid /\ card[u].status # "none"
<1>1. ASSUME NEW r \in Req, NEW u \in UnloggedBy(r)
      PROVE  u \in Uid /\ card[u].status # "none"
  BY <1>1, UnloggedByIs DEF CardsIInv, ReqSound, ReqOk, OnUid, OnNew
<1>2. \A u \in Unlogged : u \in Uid /\ card[u].status # "none"
  BY <1>1, UnloggedIs
<1>3. \A u \in Emptied : u \in Uid /\ card[u].status # "none"
  BY DEF Emptied, EmptiedBy, CardsIInv, CardsTypeOK, ReqSound, ReqOk, Request
<1> QED BY <1>2, <1>3 DEF UnloggedBy

\* A new card: its request has the status it wrote still to log.
LEMMA CreateCardKeeps ==
    ASSUME CardsIInv, NEW r \in Req, NEW u \in Uid, NEW st \in {"ordered", "active"},
           NEW g \in Group \cup {NoOne}, NEW current \in BOOLEAN,
           CreateCard(r, u, st, g, current)
    PROVE  CardsIInv'
<1>a. CardsTypeOK
  BY DEF CardsIInv
<1> DEFINE c == [NoCard EXCEPT !.status = st, !.group = g, !.current = current]
           k == [NoReq EXCEPT !.pc = "log", !.uid = u, !.status = st]
<1>1. /\ req[r].pc = "idle" /\ card[u].status = "none" /\ reqs' = reqs + 1
      /\ card' = [card EXCEPT ![u] = c] /\ req' = [req EXCEPT ![r] = k]
      /\ UNCHANGED <<audit, group, line, started, vouched, torn>>
  BY DEF CreateCard, Ask, Call
<1>2. c \in Card /\ c.status = st /\ c.by = NoOne /\ c.replaces = NoOne
  BY DEF NoCard, Card, Status
<1>3. k \in Request /\ k.pc = "log" /\ k.uid = u /\ k.status = st
  BY DEF NoReq, Request, Status
<1> HIDE DEF c, k
<1>4. /\ card' \in [Uid -> Card] /\ card'[u] = c
      /\ \A x \in Uid \ {u} : card'[x] = card[x]
  BY <1>1, <1>2, <1>a, RowWritten
<1>5. /\ req' \in [Req -> Request] /\ req'[r] = k
      /\ \A o \in Req \ {r} : req'[o] = req[o]
  BY <1>1, <1>3, <1>a, RequestWritten
<1>6. CardsTypeOK'
  BY <1>1, <1>4, <1>5, <1>a DEF CardsTypeOK
<1>7. u \notin Unlogged
  BY <1>1, HandsOf
<1>8. CardStep
  BY <1>1, <1>2, <1>4, <1>7 DEF CardStep
<1>9. ReqOk(r)'
  BY <1>2, <1>3, <1>4, <1>5 DEF ReqOk, OnUid, OnNew
<1>10. \A x \in Uid : x \notin UnloggedBy(r)' => x # u
  BY <1>3, <1>5 DEF UnloggedBy
<1>11. UnloggedBy(r) = {}
  BY <1>1, HandsOf
<1>12. /\ UnloggedBy(r)' = {u} /\ AwaitedBy(r)' = {u} /\ u \notin Emptied
       /\ card'[u].status # "purged"
  BY <1>1, <1>2, <1>3, <1>4, <1>5, HandsOf DEF UnloggedBy, AwaitedBy
<1>13. PurgeSound' /\ PurgeClean'
  BY <1>1, <1>3, <1>4, <1>5, <1>8, <1>12, PurgeKept
<1> QED BY <1>1, <1>2, <1>4, <1>5, <1>6, <1>8, <1>9, <1>10, <1>11, <1>13, RequestKeeps

\* A request is accepted; nothing is written yet.
LEMMA AcceptKeeps ==
    ASSUME CardsIInv, NEW r \in Req, NEW k \in Request, req' = [req EXCEPT ![r] = k],
           req[r].pc = "idle", reqs' = reqs + 1, k.pc \in {"write", "insert", "drop", "trail"},
           k.pc \in {"write", "insert"} => k.uid \in Uid /\ Exists(k.uid),
           k.pc = "trail" => \A u \in k.found : u \in TestUid /\ Exists(u),
           k.pc = "write" => k.status \notin {"none", "purged"},
           k.pc = "insert" => k.new \in Uid /\ k.uid # k.new,
           UNCHANGED <<card, audit, group, line, started, vouched, torn>>
    PROVE  CardsIInv'
<1>a. CardsTypeOK
  BY DEF CardsIInv
<1>1. /\ req' \in [Req -> Request] /\ req'[r] = k
      /\ \A o \in Req \ {r} : req'[o] = req[o]
  BY <1>a, RequestWritten
<1>2. CardsTypeOK'
  BY <1>1, <1>a DEF CardsTypeOK
<1>3. CardStep
  BY DEF CardStep
<1>4. ReqOk(r)'
  BY <1>1 DEF ReqOk, OnUid, OnNew, Exists
<1>5. UnloggedBy(r) = {}
  BY HandsOf
<1>6. UnloggedBy(r)' = {} /\ \A u \in AwaitedBy(r)' : card'[u].status # "purged"
  BY <1>1 DEF UnloggedBy, AwaitedBy, Exists
<1>7. PurgeSound' /\ PurgeClean'
  BY <1>1, <1>3, <1>6, PurgeKept
<1> QED BY <1>1, <1>2, <1>3, <1>4, <1>5, <1>7, RequestKeeps

LEMMA AskKeeps ==
    ASSUME CardsIInv, NEW r \in Req,
           \/ \E u \in Uid, st \in {"active", "blocked", "revoked"} : ChangeStatus(r, u, st)
           \/ \E u, n \in Uid : Replace(r, u, n)
           \/ \E g \in Group : DeleteGroup(r, g)
    PROVE  CardsIInv'
<1>1. ASSUME NEW u \in Uid, NEW st \in {"active", "blocked", "revoked"}, ChangeStatus(r, u, st)
      PROVE  CardsIInv'
  <2> DEFINE k == [NoReq EXCEPT !.pc = "write", !.uid = u, !.status = st]
  <2>1. k \in Request /\ k.pc = "write" /\ k.uid = u /\ k.status = st
    BY DEF NoReq, Request, Status
  <2>2. /\ req' = [req EXCEPT ![r] = k] /\ req[r].pc = "idle" /\ reqs' = reqs + 1 /\ Exists(u)
        /\ UNCHANGED <<card, audit, group, line, started, vouched, torn>>
    BY <1>1 DEF ChangeStatus, Ask, Call
  <2> HIDE DEF k
  <2> QED BY <2>1, <2>2, AcceptKeeps
<1>2. ASSUME NEW u \in Uid, NEW n \in Uid, Replace(r, u, n)
      PROVE  CardsIInv'
  <2> DEFINE k == [NoReq EXCEPT !.pc = "insert", !.uid = u, !.new = n, !.group = card[u].group]
  <2>0. card[u].group \in Group \cup {NoOne}
    BY DEF CardsIInv, CardsTypeOK, Card
  <2>1. k \in Request /\ k.pc = "insert" /\ k.uid = u /\ k.new = n
    BY <2>0 DEF NoReq, Request, Status
  <2>2. /\ req' = [req EXCEPT ![r] = k] /\ req[r].pc = "idle" /\ reqs' = reqs + 1
        /\ Exists(u) /\ u # n
        /\ UNCHANGED <<card, audit, group, line, started, vouched, torn>>
    BY <1>2 DEF Replace, Ask, Call
  <2> SUFFICES ASSUME NEW q \in Request, q = k PROVE CardsIInv'
    BY <2>1
  <2>3. q.pc = "insert" /\ q.uid = u /\ q.new = n /\ req' = [req EXCEPT ![r] = q]
    BY <2>1, <2>2
  <2> HIDE DEF k
  <2> QED BY <2>2, <2>3, AcceptKeeps
<1>3. ASSUME NEW g \in Group, DeleteGroup(r, g)
      PROVE  CardsIInv'
  <2> DEFINE k == [NoReq EXCEPT !.pc = "drop", !.group = g]
  <2>1. k \in Request /\ k.pc = "drop"
    BY DEF NoReq, Request, Status
  <2>2. /\ req' = [req EXCEPT ![r] = k] /\ req[r].pc = "idle" /\ reqs' = reqs + 1
        /\ UNCHANGED <<card, audit, group, line, started, vouched, torn>>
    BY <1>3 DEF DeleteGroup, Ask, Call
  <2> HIDE DEF k
  <2> QED BY <2>1, <2>2, AcceptKeeps
<1> QED BY <1>1, <1>2, <1>3

\* A write of one card's row by a request that has nothing of it in hand, and that
\* keeps its own state: the card keeps its links, and if its status changes, this
\* is on record.
LEMMA RewriteKeeps ==
    ASSUME CardsIInv, NEW r \in Req, NEW u \in Uid, NEW c \in Card,
           card' = [card EXCEPT ![u] = c], torn' \in SUBSET Uid, torn \subseteq torn',
           c.status \notin {"none", "purged"}, card[u].status # "purged",
           c.by = card[u].by, c.replaces = card[u].replaces,
           c.status # card[u].status => u \in torn',
           reqs' = reqs + 1,
           UNCHANGED <<audit, group, req, line, started, vouched>>
    PROVE  CardsIInv'
<1>a. CardsTypeOK
  BY DEF CardsIInv
<1>1. /\ card' \in [Uid -> Card] /\ card'[u] = c
      /\ \A x \in Uid \ {u} : card'[x] = card[x]
  BY <1>a, RowWritten
<1>2. CardsTypeOK'
  BY <1>1, <1>a DEF CardsTypeOK
<1>3. CardStep
  BY <1>1 DEF CardStep
<1>4. ReqOk(r)'
  BY <1>3, OthersOk DEF CardsIInv, ReqSound
<1>5. UnloggedBy(r)' = UnloggedBy(r) /\ EmptiedBy(r)' = EmptiedBy(r)
      /\ AwaitedBy(r)' = AwaitedBy(r)
  BY DEF UnloggedBy, EmptiedBy, AwaitedBy
<1>6. PurgeSound' /\ PurgeClean'
  BY <1>1, <1>3, <1>5, PurgeKept
<1> QED BY <1>1, <1>2, <1>3, <1>4, <1>5, <1>6, RequestKeeps

LEMMA OneStatementKeeps ==
    ASSUME CardsIInv, NEW r \in Req, NEW u \in Uid,
           \/ \E current \in BOOLEAN : \E g \in Group \cup {card[u].group} :
                UpdateCard(r, u, g, current)
           \/ \E st \in {"active", "blocked"}, g \in Group \cup {NoOne} :
                CompatCreate(r, u, st, g)
           \/ \E g \in Group \cup {NoOne} : \E st \in {"active", "blocked", card[u].status} :
                CompatUpdate(r, u, st, g)
           \/ CompatDelete(r, u)
    PROVE  CardsIInv'
<1>a. /\ card[u] \in Card /\ card \in [Uid -> Card] /\ torn \subseteq Uid
      /\ card[u].status = "none" => card[u].by = NoOne /\ card[u].replaces = NoOne
  BY DEF CardsIInv, CardsTypeOK, BlankSound
<1>b. card[u].group \in Group \cup {NoOne} /\ card[u].status \in Status
  BY <1>a DEF Card
<1>1. ASSUME NEW current \in BOOLEAN, NEW g \in Group \cup {card[u].group},
             UpdateCard(r, u, g, current)
      PROVE  CardsIInv'
  <2> DEFINE c == [card[u] EXCEPT !.group = g, !.current = current]
  <2>1. g \in Group \cup {NoOne}
    BY <1>b
  <2>2. c \in Card /\ c.status = card[u].status /\ c.by = card[u].by
        /\ c.replaces = card[u].replaces
    BY <1>a, <2>1 DEF Card
  <2>3. /\ Exists(u) /\ reqs' = reqs + 1 /\ card' = [card EXCEPT ![u] = c]
        /\ UNCHANGED <<audit, group, req, line, started, vouched, torn>>
    BY <1>1, <1>a DEF UpdateCard, Ask
  <2> HIDE DEF c
  <2> SUFFICES ASSUME NEW d \in Card, d = c PROVE CardsIInv'
    BY <2>2
  <2> QED BY <1>a, <2>2, <2>3, RewriteKeeps DEF Exists
<1>2. ASSUME NEW st \in {"active", "blocked"}, NEW g \in Group \cup {NoOne},
             CompatCreate(r, u, st, g)
      PROVE  CardsIInv'
  <2> DEFINE c == IF Exists(u) THEN [card[u] EXCEPT !.status = st]
                  ELSE [NoCard EXCEPT !.status = st, !.group = g]
  <2>1. /\ card[u].status # "purged" /\ reqs' = reqs + 1 /\ card' = [card EXCEPT ![u] = c]
        /\ torn' = torn \cup {u}
        /\ UNCHANGED <<audit, group, req, line, started, vouched>>
    BY <1>2 DEF CompatCreate, Ask
  <2>2. c \in Card /\ c.status = st /\ c.by = card[u].by /\ c.replaces = card[u].replaces
    <3>1. CASE Exists(u)
      BY <1>a, <3>1 DEF Card, Status
    <3>2. CASE ~Exists(u)
      <4>1. [NoCard EXCEPT !.status = st, !.group = g] \in Card
        BY DEF NoCard, Card, Status
      <4>2. LET d == [NoCard EXCEPT !.status = st, !.group = g]
            IN  d.status = st /\ d.by = NoOne /\ d.replaces = NoOne
        BY DEF NoCard
      <4>3. card[u].by = NoOne /\ card[u].replaces = NoOne
        BY <1>a, <2>1, <3>2 DEF Exists
      <4> QED BY <3>2, <4>1, <4>2, <4>3
    <3> QED BY <3>1, <3>2
  <2> HIDE DEF c
  <2> SUFFICES ASSUME NEW d \in Card, d = c PROVE CardsIInv'
    BY <2>2
  <2> QED BY <1>a, <2>1, <2>2, RewriteKeeps
<1>3. ASSUME NEW g \in Group \cup {NoOne}, NEW st \in {"active", "blocked", card[u].status},
             CompatUpdate(r, u, st, g)
      PROVE  CardsIInv'
  <2> DEFINE c == [card[u] EXCEPT !.status = st, !.group = g]
  <2>1. st \in Status
    BY <1>b DEF Status
  <2>2. c \in Card /\ c.status = st /\ c.by = card[u].by /\ c.replaces = card[u].replaces
    BY <1>a, <2>1 DEF Card
  <2>3. /\ Exists(u) /\ reqs' = reqs + 1 /\ card' = [card EXCEPT ![u] = c]
        /\ torn' = IF st = card[u].status THEN torn ELSE torn \cup {u}
        /\ UNCHANGED <<audit, group, req, line, started, vouched>>
    BY <1>3, <1>a DEF CompatUpdate, Ask
  <2>4. st \notin {"none", "purged"}
    BY <2>3 DEF Exists
  <2> HIDE DEF c
  <2> SUFFICES ASSUME NEW d \in Card, d = c PROVE CardsIInv'
    BY <2>2
  <2> QED BY <1>a, <2>2, <2>3, <2>4, RewriteKeeps DEF Exists
<1>4. ASSUME CompatDelete(r, u) PROVE CardsIInv'
  <2> DEFINE c == [card[u] EXCEPT !.status = "revoked"]
  <2>2. c \in Card /\ c.status = "revoked" /\ c.by = card[u].by
        /\ c.replaces = card[u].replaces
    BY <1>a, RowFields DEF Status
  <2>3. /\ Exists(u) /\ reqs' = reqs + 1 /\ card' = [card EXCEPT ![u] = c]
        /\ torn' = torn \cup {u}
        /\ UNCHANGED <<audit, group, req, line, started, vouched>>
    BY <1>4, <1>a DEF CompatDelete, Ask
  <2> HIDE DEF c
  <2> SUFFICES ASSUME NEW d \in Card, d = c PROVE CardsIInv'
    BY <2>2
  <2> QED BY <1>a, <2>2, <2>3, RewriteKeeps DEF Exists
<1> QED BY <1>1, <1>2, <1>3, <1>4

\* The ids of the test cards are read.
LEMMA PurgeKeeps ==
    ASSUME CardsIInv, NEW r \in Req, Purge(r)
    PROVE  CardsIInv'
<1>a. CardsTypeOK
  BY DEF CardsIInv
<1>1. /\ req[r].pc = "idle" /\ reqs' = reqs + 1
      /\ UNCHANGED <<card, audit, group, line, started, vouched, torn>>
  BY DEF Purge, Ask
<1>2. CASE UNCHANGED req
  <2>1. CardsTypeOK' /\ CardStep
    BY <1>1, <1>2, <1>a DEF CardsTypeOK, CardStep
  <2>2. ReqOk(r)'
    BY <2>1, <1>2, <1>a, OthersOk DEF CardsIInv, ReqSound
  <2>3. UnloggedBy(r) = {} /\ UnloggedBy(r)' = {} /\ AwaitedBy(r)' = {}
    BY <1>1, <1>2 DEF UnloggedBy, AwaitedBy
  <2>4. PurgeSound' /\ PurgeClean'
    BY <1>1, <1>2, <2>1, <2>3, PurgeKept
  <2> QED BY <1>1, <1>2, <2>1, <2>2, <2>3, <2>4, RequestKeeps
<1>3. CASE Call(r, [NoReq EXCEPT !.pc = "trail", !.found = Tests])
  <2> DEFINE k == [NoReq EXCEPT !.pc = "trail", !.found = Tests]
  <2>1. Tests \subseteq Uid /\ \A u \in Tests : u \in TestUid /\ Exists(u)
    BY CardAssumption DEF Tests
  <2>2. k \in Request /\ k.pc = "trail" /\ k.found = Tests
    BY <2>1 DEF NoReq, Request, Status
  <2>3. req' = [req EXCEPT ![r] = k]
    BY <1>3 DEF Call
  <2> HIDE DEF k
  <2> QED BY <1>1, <2>1, <2>2, <2>3, AcceptKeeps
<1> QED BY <1>2, <1>3 DEF Purge

\* The entries of the cards found are gone; a status that is still to be logged will
\* come back as an entry, which is on record.
LEMMA PurgeTrailKeeps ==
    ASSUME CardsIInv, NEW r \in Req, PurgeTrail(r)
    PROVE  CardsIInv'
<1>a. CardsTypeOK /\ ReqOk(r)
  BY DEF CardsIInv, ReqSound
<1> DEFINE F == req[r].found
<1>1. /\ req[r].pc = "trail" /\ NextStep(r, "rows") /\ torn' = torn \cup (F \cap Unlogged)
      /\ audit' = [u \in Uid |-> IF u \in F THEN "none" ELSE audit[u]]
      /\ UNCHANGED <<card, group, line, started, vouched, reqs>>
  BY DEF PurgeTrail, Before
<1>2. F \subseteq Uid /\ \A u \in F : u \in TestUid /\ card[u].status # "none"
  BY <1>1, <1>a DEF ReqOk, CardsTypeOK, Request
<1>3. /\ req' \in [Req -> Request] /\ req'[r].pc = "rows" /\ req'[r].found = F
      /\ \A o \in Req \ {r} : req'[o] = req[o]
  BY <1>1, <1>a, Goes
<1> HIDE DEF F
<1>4. /\ UnloggedBy(r) = {} /\ UnloggedBy(r)' = {} /\ AwaitedBy(r)' = {}
      /\ EmptiedBy(r)' = F
  BY <1>1, <1>3 DEF UnloggedBy, AwaitedBy, EmptiedBy
<1>5. CardsTypeOK' /\ CardStep
  <2>1. audit' \in [Uid -> Status] /\ torn' \subseteq Uid
    BY <1>1, <1>2, <1>a DEF CardsTypeOK, Status
  <2> QED BY <1>1, <1>3, <1>a, <2>1 DEF CardsTypeOK, CardStep
<1>6. ReqOk(r)'
  BY <1>1, <1>2, <1>3 DEF ReqOk, OnUid, OnNew
<1>7. PurgeSound'
  <2>1. ASSUME NEW u \in Emptied', u \notin torn'
        PROVE  audit'[u] = "none" /\ u \notin Unlogged'
    <3>1. CASE u \in F
      <4>1. u \in Uid /\ u \notin Unlogged
        BY <1>1, <1>2, <2>1, <3>1
      <4> QED BY <1>1, <1>3, <1>4, <3>1, <4>1, UnloggedMoves
    <3>2. CASE u \notin F
      <4>1. u \in Emptied
        BY <1>3, <1>4, <2>1, <3>2, AwaitedMoves
      <4>2. u \in Uid /\ audit[u] = "none" /\ u \notin Unlogged
        BY <1>1, <2>1, <4>1, HandsOf DEF CardsIInv, PurgeSound
      <4> QED BY <1>1, <1>3, <1>4, <3>2, <4>2, UnloggedMoves
    <3> QED BY <3>1, <3>2
  <2>2. ASSUME NEW u \in Awaited', u \notin torn' PROVE card'[u].status # "purged"
    BY <1>1, <1>3, <1>4, <2>2, AwaitedMoves DEF CardsIInv, PurgeSound
  <2> QED BY <2>1, <2>2 DEF PurgeSound
<1>8. PurgeClean'
  BY <1>1 DEF CardsIInv, PurgeClean
<1> QED BY <1>1, <1>3, <1>4, <1>5, <1>6, <1>7, <1>8, RequestKeeps

\* The rows are gone.  Those whose entries were deleted before leave nothing; on
\* record are the others, and those that a request is about to write or log.
LEMMA PurgeRowsKeeps ==
    ASSUME CardsIInv, NEW r \in Req, PurgeRows(r)
    PROVE  CardsIInv'
<1>a. CardsTypeOK /\ ReqOk(r)
  BY DEF CardsIInv, ReqSound
<1> DEFINE c == [NoCard EXCEPT !.status = "purged"]
<1>1. c \in Card /\ c.status = "purged" /\ c.by = NoOne
  BY DEF NoCard, Card, Status
<1>2. /\ req[r].pc = "rows" /\ Answer(r)
      /\ card' = [u \in Uid |-> IF u \in Tests THEN c ELSE card[u]]
      /\ torn' = torn \cup (Tests \cap Awaited) \cup (Tests \ Emptied)
      /\ UNCHANGED <<audit, group, line, started, vouched, reqs>>
  BY DEF PurgeRows, Before
<1> HIDE DEF c
<1>3. Tests \subseteq Uid /\ \A u \in Uid : u \in Tests <=> u \in TestUid /\ Exists(u)
  BY CardAssumption DEF Tests
<1>4. /\ req' \in [Req -> Request] /\ req'[r].pc = "idle"
      /\ \A o \in Req \ {r} : req'[o] = req[o]
  BY <1>2, <1>a, Answers
<1>5. UnloggedBy(r) = {} /\ UnloggedBy(r)' = {} /\ AwaitedBy(r)' = {} /\ EmptiedBy(r)' = {}
  BY <1>2, <1>4 DEF UnloggedBy, AwaitedBy, EmptiedBy
<1>6. \A u \in Uid : \/ u \in Tests /\ card'[u] = c
                     \/ u \notin Tests /\ card'[u] = card[u]
  BY <1>2
<1>7. CardsTypeOK'
  <2>1. card' \in [Uid -> Card] /\ torn' \subseteq Uid
    BY <1>1, <1>2, <1>3, <1>a DEF CardsTypeOK
  <2> QED BY <1>2, <1>4, <1>a, <2>1 DEF CardsTypeOK
<1>8. CardStep
  <2>1. \A u \in Uid : u \in Unlogged /\ u \in Tests => u \in torn'
    BY <1>2, UnloggedAwaited
  <2> QED BY <1>1, <1>2, <1>3, <1>6, <2>1 DEF CardStep, Exists
<1>9. ReqOk(r)'
  BY <1>4 DEF ReqOk, OnUid, OnNew
<1>10. PurgeSound'
  <2>1. ASSUME NEW u \in Emptied', u \notin torn'
        PROVE  audit'[u] = "none" /\ u \notin Unlogged'
    <3>1. u \in Emptied /\ u \notin torn
      BY <1>2, <1>4, <1>5, <2>1, AwaitedMoves
    <3>2. audit[u] = "none" /\ u \notin Unlogged
      BY <3>1 DEF CardsIInv, PurgeSound
    <3> QED BY <1>2, <1>4, <1>5, <3>2, UnloggedMoves
  <2>2. ASSUME NEW u \in Awaited', u \notin torn' PROVE card'[u].status # "purged"
    <3>1. u \in Awaited /\ u \notin torn /\ u \notin Tests
      BY <1>2, <1>4, <1>5, <2>2, AwaitedMoves
    <3>2. u \in Uid
      BY <3>1 DEF Awaited, AwaitedBy, UnloggedBy, CardsIInv, ReqSound, ReqOk, OnUid, OnNew
    <3> QED BY <1>6, <3>1, <3>2 DEF CardsIInv, PurgeSound
  <2> QED BY <2>1, <2>2 DEF PurgeSound
<1>11. PurgeClean'
  <2> SUFFICES ASSUME NEW u \in Uid, card'[u].status = "purged", u \notin torn'
               PROVE  audit'[u] = "none"
    BY DEF PurgeClean
  <2>1. CASE u \in Tests
    BY <1>2, <2>1 DEF CardsIInv, PurgeSound
  <2>2. CASE u \notin Tests
    BY <1>2, <1>6, <2>2 DEF CardsIInv, PurgeClean
  <2> QED BY <2>1, <2>2
<1>12. \A u \in EmptiedBy(r) : card'[u].status = "purged"
  <2> SUFFICES ASSUME NEW u \in EmptiedBy(r) PROVE card'[u].status = "purged"
    OBVIOUS
  <2>1. u \in req[r].found
    BY <1>2 DEF EmptiedBy
  <2>2. u \in TestUid /\ u \in Uid /\ card[u].status # "none"
    BY <1>2, <1>a, <2>1 DEF ReqOk, CardsTypeOK, Request
  <2> QED BY <1>1, <1>3, <1>6, <2>2 DEF Exists
<1>13. \A u \in Uid : card'[u].status = "purged" \/ card'[u] = card[u]
  BY <1>1, <1>6
<1>14. \A u \in Uid : card'[u].by \in {card[u].by, NoOne}
  BY <1>1, <1>6
<1> QED BY <1>2, <1>4, <1>5, <1>7, <1>8, <1>9, <1>10, <1>11, <1>12, <1>13, <1>14, RequestKeeps

\* What a request in progress relies on, and what follows from its step's place.
LEMMA InHand ==
    ASSUME CardsIInv, NEW r \in Req
    PROVE  /\ ReqOk(r) /\ req[r] \in Request
           /\ req[r].pc \in OnUid => req[r].uid \in Uid /\ card[req[r].uid] \in Card
           /\ req[r].pc \in {"insert"} \cup OnNew => req[r].new \in Uid /\ req[r].uid # req[r].new
<1>1. ReqOk(r) /\ req[r] \in Request
  BY DEF CardsIInv, ReqSound, CardsTypeOK
<1> QED BY <1>1 DEF ReqOk, CardsIInv, CardsTypeOK

LEMMA WriteStatusKeeps ==
    ASSUME CardsIInv, NEW r \in Req, WriteStatus(r)
    PROVE  CardsIInv'
<1>a. CardsTypeOK
  BY DEF CardsIInv
<1> DEFINE u == req[r].uid
           st == req[r].status
           c == [card[u] EXCEPT !.status = st]
<1>1. /\ req[r].pc = "write" /\ NextStep(r, "log")
      /\ torn' = torn \cup ({u} \cap (Unlogged \cup Emptied))
      /\ card' = IF Exists(u) THEN [card EXCEPT ![u] = c] ELSE card
      /\ UNCHANGED <<audit, group, line, started, vouched, reqs>>
  BY <1>a DEF WriteStatus, Before, Overtake, CardsTypeOK
<1>2. /\ u \in Uid /\ card[u].status # "none" /\ st \notin {"none", "purged"} /\ st \in Status
      /\ card[u] \in Card
  BY <1>1, InHand DEF ReqOk, OnUid, Request
<1>3. c \in Card /\ c.status = st /\ c.by = card[u].by /\ c.replaces = card[u].replaces
  BY <1>2 DEF Card
<1>4. /\ req' \in [Req -> Request] /\ req'[r].pc = "log" /\ req'[r].uid = u
      /\ req'[r].status = st /\ \A o \in Req \ {r} : req'[o] = req[o]
  BY <1>1, <1>a, Goes
<1> SUFFICES ASSUME NEW x \in Uid, x = u, NEW s, s = st, NEW d \in Card, d = c PROVE CardsIInv'
  BY <1>2, <1>3
<1> HIDE DEF u, st, c
<1>5. /\ card' \in [Uid -> Card] /\ \A y \in Uid \ {x} : card'[y] = card[y]
      /\ card'[x] = IF Exists(x) THEN d ELSE card[x]
  BY <1>1, <1>2, <1>a DEF CardsTypeOK
<1>6. CardsTypeOK'
  BY <1>1, <1>2, <1>4, <1>5, <1>a DEF CardsTypeOK
<1>7. CardStep
  BY <1>1, <1>2, <1>3, <1>5 DEF CardStep, Exists
<1>8. ReqOk(r)'
  BY <1>2, <1>3, <1>4, <1>5 DEF ReqOk, OnUid, OnNew, Exists
<1>9. UnloggedBy(r)' = {x} /\ AwaitedBy(r)' = {x}
  BY <1>4 DEF UnloggedBy, AwaitedBy
<1>10. UnloggedBy(r) = {} /\ AwaitedBy(r) = {x}
  BY <1>1, HandsOf DEF AwaitedBy, u
<1>11. card'[x].by = card[x].by
  BY <1>3, <1>5
<1>12. PurgeSound' /\ PurgeClean'
  <2>1. \A y \in Uid : card'[y].status = "purged" => card[y].status = "purged"
    BY <1>2, <1>3, <1>5
  <2>2. x \in torn' \/ x \notin Emptied
    BY <1>1
  <2> QED BY <1>1, <1>4, <1>7, <1>9, <1>10, <2>1, <2>2, PurgeKept
<1> QED BY <1>1, <1>4, <1>5, <1>6, <1>7, <1>8, <1>9, <1>10, <1>11, <1>12, RequestKeeps

\* A status is logged, the one the card has unless somebody wrote another.
LEMMA LogStatusKeeps ==
    ASSUME CardsIInv, NEW r \in Req, LogStatus(r)
    PROVE  CardsIInv'
<1>a. CardsTypeOK
  BY DEF CardsIInv
<1> DEFINE u == req[r].uid
           st == req[r].status
<1>1. /\ req[r].pc = "log" /\ audit' = [audit EXCEPT ![u] = st] /\ Answer(r)
      /\ UNCHANGED <<card, group, line, started, vouched, torn, reqs>>
  BY DEF LogStatus, Before
<1>2. u \in Uid /\ st \in Status /\ (u \notin torn /\ Exists(u) => card[u].status = st)
  BY <1>1, InHand DEF ReqOk, OnUid, Request
<1>3. UnloggedBy(r) = {u}
  BY <1>1 DEF UnloggedBy
<1>4. /\ req' \in [Req -> Request] /\ req'[r].pc = "idle"
      /\ \A o \in Req \ {r} : req'[o] = req[o]
  BY <1>1, <1>a, Answers
<1> SUFFICES ASSUME NEW x \in Uid, x = u, NEW s \in Status, s = st PROVE CardsIInv'
  BY <1>2
<1> HIDE DEF u, st
<1>5. /\ audit' \in [Uid -> Status] /\ audit'[x] = s
      /\ \A y \in Uid \ {x} : audit'[y] = audit[y]
  BY <1>1, <1>a DEF CardsTypeOK
<1>6. CardsTypeOK' /\ CardStep
  BY <1>1, <1>4, <1>5, <1>a DEF CardsTypeOK, CardStep
<1>7. ReqOk(r)'
  BY <1>4 DEF ReqOk, OnUid, OnNew
<1>8. UnloggedBy(r)' = {} /\ AwaitedBy(r)' = {} /\ x \in UnloggedBy(r)
  BY <1>3, <1>4 DEF UnloggedBy, AwaitedBy
<1>9. PurgeSound' /\ PurgeClean'
  BY <1>1, <1>4, <1>5, <1>6, <1>8, PurgeKept
<1> QED BY <1>1, <1>2, <1>3, <1>4, <1>5, <1>6, <1>7, <1>9, RequestKeeps DEF Exists

\* The new card is inserted only where there was none, with a link to the old one.
LEMMA ReplaceInsertKeeps ==
    ASSUME CardsIInv, NEW r \in Req, ReplaceInsert(r)
    PROVE  CardsIInv'
<1>a. CardsTypeOK
  BY DEF CardsIInv
<1> DEFINE u == req[r].uid
           n == req[r].new
           g == req[r].group
           c == [NoCard EXCEPT !.status = "active", !.group = g, !.replaces = u]
<1>1. /\ req[r].pc = "insert"
      /\ \/ card[n].status = "none" /\ card' = [card EXCEPT ![n] = c] /\ NextStep(r, "swap")
         \/ Answer(r) /\ UNCHANGED card
      /\ UNCHANGED <<audit, group, line, started, vouched, torn, reqs>>
  BY DEF ReplaceInsert, Before
<1>2. /\ u \in Uid /\ n \in Uid /\ u # n /\ card[u].status # "none" /\ g \in Group \cup {NoOne}
  BY <1>1, InHand DEF ReqOk, OnUid, Request
<1>3. c \in Card /\ c.status = "active" /\ c.by = NoOne /\ c.replaces = u
  BY <1>2 DEF NoCard, Card, Status
<1>4. UnloggedBy(r) = {}
  BY <1>1, HandsOf
<1>5. CASE Answer(r) /\ UNCHANGED card
  <2>1. /\ req' \in [Req -> Request] /\ req'[r].pc = "idle"
        /\ \A o \in Req \ {r} : req'[o] = req[o]
    BY <1>5, <1>a, Answers
  <2>2. CardsTypeOK' /\ CardStep
    BY <1>1, <1>5, <2>1, <1>a DEF CardsTypeOK, CardStep
  <2>3. ReqOk(r)'
    BY <2>1 DEF ReqOk, OnUid, OnNew
  <2>4. UnloggedBy(r)' = {} /\ AwaitedBy(r)' = {}
    BY <2>1 DEF UnloggedBy, AwaitedBy
  <2>5. PurgeSound' /\ PurgeClean'
    BY <1>1, <1>5, <2>1, <2>2, <2>4, PurgeKept
  <2> QED BY <1>1, <1>4, <1>5, <2>1, <2>2, <2>3, <2>5, RequestKeeps
<1>6. CASE card[n].status = "none" /\ card' = [card EXCEPT ![n] = c] /\ NextStep(r, "swap")
  <2>1. /\ req' \in [Req -> Request] /\ req'[r].pc = "swap" /\ req'[r].uid = u
        /\ req'[r].new = n /\ \A o \in Req \ {r} : req'[o] = req[o]
    BY <1>6, <1>a, Goes
  <2> SUFFICES ASSUME NEW x \in Uid, x = u, NEW y \in Uid, y = n, NEW d \in Card, d = c
               PROVE CardsIInv'
    BY <1>2, <1>3
  <2> HIDE DEF u, n, c, g
  <2>2. /\ card' \in [Uid -> Card] /\ card'[y] = d
        /\ \A z \in Uid \ {y} : card'[z] = card[z]
    BY <1>6, <1>a, RowWritten
  <2>3. CardsTypeOK'
    BY <1>1, <2>1, <2>2, <1>a DEF CardsTypeOK
  <2>4. y \notin Unlogged
    BY <1>6, HandsOf
  <2>5. CardStep
    BY <1>1, <1>3, <1>6, <2>2, <2>4 DEF CardStep
  <2>6. ReqOk(r)'
    BY <1>2, <1>3, <2>1, <2>2 DEF ReqOk, OnUid, OnNew
  <2>7. UnloggedBy(r)' = {y} /\ AwaitedBy(r)' = {x, y} /\ x \in AwaitedBy(r)
    BY <1>1, <2>1 DEF UnloggedBy, AwaitedBy, u
  <2>8. y \notin Emptied /\ card'[y].status # "purged"
    BY <1>3, <1>6, <2>2, HandsOf
  <2>9. PurgeSound' /\ PurgeClean'
    BY <1>1, <1>3, <2>1, <2>2, <2>5, <2>7, <2>8, PurgeKept
  <2> QED BY <1>1, <1>3, <1>4, <2>1, <2>2, <2>3, <2>5, <2>6, <2>7, <2>9, RequestKeeps
<1> QED BY <1>1, <1>5, <1>6

\* The old card is blocked when the new one is there.
LEMMA ReplaceSwapKeeps ==
    ASSUME CardsIInv, NEW r \in Req, ReplaceSwap(r)
    PROVE  CardsIInv'
<1>a. CardsTypeOK
  BY DEF CardsIInv
<1> DEFINE u == req[r].uid
           n == req[r].new
           c == [card[u] EXCEPT !.status = "blocked", !.by = n]
<1>1. /\ req[r].pc = "swap" /\ NextStep(r, "log_old")
      /\ torn' = torn \cup ({u} \cap (Unlogged \cup Emptied))
      /\ card' = IF Exists(u) THEN [card EXCEPT ![u] = c] ELSE card
      /\ UNCHANGED <<audit, group, line, started, vouched, reqs>>
  BY <1>a DEF ReplaceSwap, Before, Overtake, CardsTypeOK
<1>2. /\ u \in Uid /\ n \in Uid /\ u # n /\ card[u].status # "none" /\ card[n].status # "none"
      /\ card[u] \in Card
      /\ card[n].status = "purged" \/ card[n].replaces = u
      /\ n \notin torn /\ Exists(n) => card[n].status = "active"
  BY <1>1, InHand DEF ReqOk, OnUid, OnNew
<1>3. c \in Card /\ c.status = "blocked" /\ c.by = n /\ c.replaces = card[u].replaces
  BY <1>2 DEF Card, Status
<1>4. /\ req' \in [Req -> Request] /\ req'[r].pc = "log_old" /\ req'[r].uid = u
      /\ req'[r].new = n /\ \A o \in Req \ {r} : req'[o] = req[o]
  BY <1>1, <1>a, Goes
<1> SUFFICES ASSUME NEW x \in Uid, x = u, NEW y \in Uid, y = n, NEW d \in Card, d = c
             PROVE CardsIInv'
  BY <1>2, <1>3
<1> HIDE DEF u, n, c
<1>5. /\ card' \in [Uid -> Card] /\ \A z \in Uid \ {x} : card'[z] = card[z]
      /\ card'[x] = IF Exists(x) THEN d ELSE card[x]
  BY <1>1, <1>a DEF CardsTypeOK
<1>6. CardsTypeOK'
  BY <1>1, <1>2, <1>4, <1>5, <1>a DEF CardsTypeOK
<1>7. CardStep
  BY <1>1, <1>2, <1>3, <1>5 DEF CardStep, Exists
<1>8. ReqOk(r)'
  BY <1>1, <1>2, <1>3, <1>4, <1>5 DEF ReqOk, OnUid, OnNew, Exists
<1>9. /\ \A z \in Uid : z \notin UnloggedBy(r)' => z # x /\ z # y
      /\ \A z \in Uid : z \in UnloggedBy(r) => z = y
  BY <1>1, <1>4 DEF UnloggedBy, n
<1>10. \A z \in Uid : \/ card'[z].by = card[z].by
                      \/ z = x /\ card'[z].by = y
  BY <1>3, <1>5
<1>11. card'[y].status = "purged" \/ card'[y].replaces = x
  BY <1>2, <1>5
<1>12. PurgeSound' /\ PurgeClean'
  <2>1. /\ UnloggedBy(r)' = {x, y} /\ AwaitedBy(r)' = {x, y}
        /\ UnloggedBy(r) = {y} /\ AwaitedBy(r) = {x, y}
    BY <1>1, <1>4 DEF UnloggedBy, AwaitedBy, u, n
  <2>2. \A z \in Uid : card'[z].status = "purged" => card[z].status = "purged"
    BY <1>3, <1>5
  <2>3. x \in torn' \/ x \notin Emptied
    BY <1>1
  <2> QED BY <1>1, <1>4, <1>7, <2>1, <2>2, <2>3, PurgeKept
<1> QED BY <1>1, <1>4, <1>5, <1>6, <1>7, <1>8, <1>9, <1>10, <1>11, <1>12, RequestKeeps

LEMMA ReplaceLogKeeps ==
    ASSUME CardsIInv, NEW r \in Req, ReplaceLogOld(r) \/ ReplaceLogNew(r)
    PROVE  CardsIInv'
<1>a. CardsTypeOK
  BY DEF CardsIInv
<1> DEFINE u == req[r].uid
           n == req[r].new
<1>1. CASE ReplaceLogOld(r)
  <2>1. /\ req[r].pc = "log_old" /\ audit' = [audit EXCEPT ![u] = "blocked"]
        /\ NextStep(r, "log_new")
        /\ UNCHANGED <<card, group, line, started, vouched, torn, reqs>>
    BY <1>1 DEF ReplaceLogOld, Before
  <2>2. /\ u \in Uid /\ n \in Uid /\ u # n /\ card[u].status # "none" /\ card[n].status # "none"
        /\ u \notin torn /\ Exists(u) => card[u].status = "blocked"
        /\ n \notin torn /\ Exists(n) => card[n].status = "active"
    BY <2>1, InHand DEF ReqOk, OnUid, OnNew
  <2>3. /\ req' \in [Req -> Request] /\ req'[r].pc = "log_new" /\ req'[r].uid = u
        /\ req'[r].new = n /\ \A o \in Req \ {r} : req'[o] = req[o]
    BY <2>1, <1>a, Goes
  <2> SUFFICES ASSUME NEW x \in Uid, x = u, NEW y \in Uid, y = n PROVE CardsIInv'
    BY <2>2
  <2> HIDE DEF u, n
  <2>4. /\ audit' \in [Uid -> Status] /\ audit'[x] = "blocked"
        /\ \A z \in Uid \ {x} : audit'[z] = audit[z]
    BY <2>1, <1>a DEF CardsTypeOK, Status
  <2>5. CardsTypeOK' /\ CardStep
    BY <2>1, <2>3, <2>4, <1>a DEF CardsTypeOK, CardStep
  <2>6. ReqOk(r)'
    BY <2>1, <2>2, <2>3 DEF ReqOk, OnUid, OnNew, Exists
  <2>7. /\ \A z \in Uid : z \notin UnloggedBy(r)' => z # y
        /\ \A z \in Uid : z \in UnloggedBy(r) => z \in {x, y}
    BY <2>1, <2>3 DEF UnloggedBy, n, u
  <2>8. /\ UnloggedBy(r)' = {y} /\ AwaitedBy(r)' = {y}
        /\ UnloggedBy(r) = {x, y} /\ AwaitedBy(r) = {x, y}
    BY <2>1, <2>3 DEF UnloggedBy, AwaitedBy, n, u
  <2>9. PurgeSound' /\ PurgeClean'
    BY <2>1, <2>3, <2>4, <2>5, <2>8, PurgeKept
  <2> QED BY <2>1, <2>2, <2>3, <2>4, <2>5, <2>6, <2>7, <2>9, RequestKeeps DEF Exists
<1>2. CASE ReplaceLogNew(r)
  <2>1. /\ req[r].pc = "log_new" /\ audit' = [audit EXCEPT ![n] = "active"] /\ Answer(r)
        /\ UNCHANGED <<card, group, line, started, vouched, torn, reqs>>
    BY <1>2 DEF ReplaceLogNew, Before
  <2>2. n \in Uid /\ (n \notin torn /\ Exists(n) => card[n].status = "active")
    BY <2>1, InHand DEF ReqOk, OnUid, OnNew
  <2>3. /\ req' \in [Req -> Request] /\ req'[r].pc = "idle"
        /\ \A o \in Req \ {r} : req'[o] = req[o]
    BY <2>1, <1>a, Answers
  <2>4. UnloggedBy(r) = {n}
    BY <2>1 DEF UnloggedBy
  <2> SUFFICES ASSUME NEW y \in Uid, y = n PROVE CardsIInv'
    BY <2>2
  <2> HIDE DEF u, n
  <2>5. /\ audit' \in [Uid -> Status] /\ audit'[y] = "active"
        /\ \A z \in Uid \ {y} : audit'[z] = audit[z]
    BY <2>1, <1>a DEF CardsTypeOK, Status
  <2>6. CardsTypeOK' /\ CardStep
    BY <2>1, <2>3, <2>5, <1>a DEF CardsTypeOK, CardStep
  <2>7. ReqOk(r)'
    BY <2>3 DEF ReqOk, OnUid, OnNew
  <2>8. UnloggedBy(r)' = {} /\ AwaitedBy(r)' = {}
    BY <2>3 DEF UnloggedBy, AwaitedBy
  <2>9. PurgeSound' /\ PurgeClean'
    BY <2>1, <2>3, <2>4, <2>5, <2>6, <2>8, PurgeKept
  <2> QED BY <2>1, <2>2, <2>3, <2>4, <2>5, <2>6, <2>7, <2>9, RequestKeeps DEF Exists
<1> QED BY <1>1, <1>2

\* A request ends: with its group gone, or cut off, which is on record for the
\* cards it leaves unlogged, or without entries.
LEMMA RequestEndsKeeps ==
    ASSUME CardsIInv, NEW r \in Req, DropGroup(r) \/ CutRequest(r)
    PROVE  CardsIInv'
<1>a. CardsTypeOK
  BY DEF CardsIInv
<1>1. /\ Answer(r) /\ UNCHANGED <<card, audit, line, started, vouched, reqs>>
      /\ group' \subseteq group /\ torn' = torn \cup UnloggedBy(r) \cup EmptiedBy(r)
  <2>1. CASE DropGroup(r)
    <3>1. UnloggedBy(r) = {} /\ EmptiedBy(r) = {}
      BY <2>1, HandsOf DEF DropGroup, Before, EmptiedBy
    <3> QED BY <2>1, <3>1 DEF DropGroup, Before
  <2>2. CASE CutRequest(r)
    BY <2>2 DEF CutRequest
  <2> QED BY <2>1, <2>2
<1>2. /\ req' \in [Req -> Request] /\ req'[r].pc = "idle"
      /\ \A o \in Req \ {r} : req'[o] = req[o]
  BY <1>1, <1>a, Answers
<1>3. UnloggedBy(r) \subseteq Uid /\ EmptiedBy(r) \subseteq Uid
  BY HandsOf, UnloggedIs DEF Emptied
<1>4. CardsTypeOK' /\ CardStep
  BY <1>1, <1>2, <1>3, <1>a DEF CardsTypeOK, CardStep
<1>5. ReqOk(r)'
  BY <1>2 DEF ReqOk, OnUid, OnNew
<1>6. UnloggedBy(r)' = {} /\ AwaitedBy(r)' = {} /\ EmptiedBy(r) \subseteq torn'
  BY <1>1, <1>2 DEF UnloggedBy, AwaitedBy
<1>7. PurgeSound' /\ PurgeClean'
  BY <1>1, <1>2, <1>4, <1>6, PurgeKept
<1> QED BY <1>1, <1>2, <1>4, <1>5, <1>6, <1>7, RequestKeeps

\* A connection keeps what its last accepted card brought.
LEMMA LineKeeps ==
    ASSUME CardsIInv, NEW l \in Line,
           \/ \E u \in Uid : Authorize(l, u)
           \/ AuthorizeApp(l) \/ Authorized(l) \/ StartTransaction(l)
    PROVE  CardsIInv'
<1>a. CardsTypeOK
  BY DEF CardsIInv
<1>1. UNCHANGED <<card, audit, group, req, torn>> /\ reqs' \in {reqs, reqs + 1}
  BY DEF Authorize, AuthorizeApp, Authorized, StartTransaction
<1>2. BlankSound' /\ ReqSound' /\ PurgeSound' /\ AuditExplains' /\ PurgeClean'
      /\ SuccessorFirst'
  BY <1>1 DEF CardsIInv, BlankSound, ReqSound, ReqOk, OnUid, OnNew, Exists, PurgeSound,
              AuditExplains, PurgeClean, Unlogged, UnloggedBy, Awaited, AwaitedBy, Emptied,
              EmptiedBy, SuccessorFirst
<1> DEFINE L == [asks : BOOLEAN, found : Verdict, last : Context]
<1>3. line[l] \in L /\ Prepaid \in Context /\ Nothing \in Verdict /\ ~Nothing.accept
  BY <1>a, CardAssumption DEF CardsTypeOK, Prepaid, Context, Nothing, Verdict
<1>p. line[l].found.ctx \in Context /\ line[l].last \in Context
  BY <1>3 DEF Verdict
<1>4. ASSUME NEW e \in L, NEW v \in SUBSET Context, NEW s \in SUBSET Context,
             line' = [line EXCEPT ![l] = e],
             vouched' = [vouched EXCEPT ![l] = v], started' = [started EXCEPT ![l] = s],
             vouched[l] \subseteq v,
             e.last \in v \cup {Prepaid},
             e.found.accept => e.found.ctx \in v,
             s \subseteq v \cup {Prepaid}
      PROVE  CardsIInv'
  <2>1. /\ line' \in [Line -> L] /\ line'[l] = e
        /\ \A m \in Line \ {l} : line'[m] = line[m]
    BY <1>4, <1>a DEF CardsTypeOK
  <2>2. /\ vouched' \in [Line -> SUBSET Context] /\ vouched'[l] = v
        /\ \A m \in Line \ {l} : vouched'[m] = vouched[m]
    BY <1>4, <1>a DEF CardsTypeOK
  <2>3. /\ started' \in [Line -> SUBSET Context] /\ started'[l] = s
        /\ \A m \in Line \ {l} : started'[m] = started[m]
    BY <1>4, <1>a DEF CardsTypeOK
  <2>4. CardsTypeOK'
    BY <1>1, <1>a, <2>1, <2>2, <2>3 DEF CardsTypeOK
  <2>5. LineSound'
    BY <1>4, <2>1, <2>2 DEF CardsIInv, LineSound
  <2>6. ContextTrusted'
    BY <1>4, <2>2, <2>3 DEF CardsIInv, ContextTrusted
  <2> QED BY <1>2, <2>4, <2>5, <2>6 DEF CardsIInv
<1>5. /\ line[l].last \in vouched[l] \cup {Prepaid}
      /\ line[l].found.accept => line[l].found.ctx \in vouched[l]
      /\ started[l] \subseteq vouched[l] \cup {Prepaid}
      /\ vouched[l] \in SUBSET Context /\ started[l] \in SUBSET Context
  BY <1>a DEF CardsIInv, LineSound, ContextTrusted, CardsTypeOK
<1>6. /\ line = [line EXCEPT ![l] = line[l]] /\ vouched = [vouched EXCEPT ![l] = vouched[l]]
      /\ started = [started EXCEPT ![l] = started[l]]
  BY <1>a DEF CardsTypeOK
<1>7. ASSUME NEW u \in Uid, Authorize(l, u) PROVE CardsIInv'
  <2> DEFINE f == Lookup(u)
             e == [line[l] EXCEPT !.asks = TRUE, !.found = f]
             v == IF f.accept THEN vouched[l] \cup {f.ctx} ELSE vouched[l]
  <2>1. f \in Verdict /\ f.ctx \in Context
    BY <1>a DEF Lookup, Verdict, Context, CardsTypeOK, Card
  <2>2. /\ line' = [line EXCEPT ![l].asks = TRUE, ![l].found = f]
        /\ vouched' = IF f.accept THEN [vouched EXCEPT ![l] = @ \cup {f.ctx}] ELSE vouched
        /\ UNCHANGED started
    BY <1>7 DEF Authorize
  <2> HIDE DEF f
  <2>3. line' = [line EXCEPT ![l] = e]
    BY <2>2, <1>a DEF CardsTypeOK
  <2>4. vouched' = [vouched EXCEPT ![l] = v]
    BY <2>2, <1>6
  <2>5. e \in L /\ e.last = line[l].last /\ e.found = f
    BY <1>3, <2>1
  <2>6. v \in SUBSET Context /\ vouched[l] \subseteq v /\ (f.accept => f.ctx \in v)
    BY <1>5, <2>1
  <2> HIDE DEF e, v, L
  <2> QED BY <1>4, <1>5, <1>6, <2>2, <2>3, <2>4, <2>5, <2>6
<1>8. CASE AuthorizeApp(l)
  <2> DEFINE e == [line[l] EXCEPT !.last = Prepaid]
  <2>1. line' = [line EXCEPT ![l] = e] /\ UNCHANGED <<started, vouched>>
    BY <1>8, <1>a DEF AuthorizeApp, CardsTypeOK
  <2>2. e \in L /\ e.last = Prepaid /\ e.found = line[l].found
    BY <1>3
  <2> HIDE DEF e, L
  <2> QED BY <1>4, <1>5, <1>6, <2>1, <2>2
<1>9. CASE Authorized(l)
  <2> DEFINE c == IF line[l].found.accept THEN line[l].found.ctx ELSE line[l].last
             e == [asks |-> FALSE, found |-> Nothing, last |-> c]
  <2>1. line' = [line EXCEPT ![l] = e] /\ UNCHANGED <<started, vouched>>
    BY <1>9 DEF Authorized
  <2>2. c \in Context /\ c \in vouched[l] \cup {Prepaid}
    BY <1>5, <1>p
  <2>3. e \in L /\ e.last = c /\ e.found = Nothing
    BY <1>3, <2>2
  <2> HIDE DEF e, c, L
  <2> QED BY <1>3, <1>4, <1>5, <1>6, <2>1, <2>2, <2>3
<1>10. CASE StartTransaction(l)
  <2> DEFINE s == started[l] \cup {line[l].last}
  <2>1. started' = [started EXCEPT ![l] = s] /\ UNCHANGED <<line, vouched>>
    BY <1>10 DEF StartTransaction
  <2>2. s \in SUBSET Context /\ s \subseteq vouched[l] \cup {Prepaid}
    BY <1>5, <1>p
  <2> HIDE DEF s, L
  <2> QED BY <1>3, <1>4, <1>5, <1>6, <2>1, <2>2
<1> QED BY <1>7, <1>8, <1>9, <1>10

LEMMA CardsStep ==
    ASSUME CardsIInv, [CardsNext]_cardsVars
    PROVE  CardsIInv'
<1>1. ASSUME NEW r \in Req, Administer(r) PROVE CardsIInv'
  BY <1>1, CreateCardKeeps, AskKeeps, OneStatementKeeps, PurgeKeeps, PurgeTrailKeeps,
     PurgeRowsKeeps, WriteStatusKeeps, LogStatusKeeps, ReplaceInsertKeeps, ReplaceSwapKeeps, ReplaceLogKeeps,
     RequestEndsKeeps DEF Administer
<1>2. CASE UNCHANGED cardsVars
  BY <1>2 DEF cardsVars, CardsIInv, CardsTypeOK, BlankSound, ReqSound, ReqOk, OnUid, OnNew,
              Exists, LineSound, PurgeSound, AuditExplains, PurgeClean, Unlogged, UnloggedBy,
              Awaited, AwaitedBy, Emptied, EmptiedBy, SuccessorFirst, ContextTrusted
<1> QED BY <1>1, <1>2, LineKeeps DEF CardsNext

LEMMA CardsInvariance == CardsSpec => []CardsIInv
<1>1. CardsIInv /\ [CardsNext]_cardsVars => CardsIInv'
  BY CardsStep
<1> QED BY CardsInitIInv, <1>1, PTL DEF CardsSpec

\* However the requests of administrators interleave and fail between statements,
\* the audit trail of a card explains its status, a purge leaves no trail of the
\* cards it deletes, and a blocked card's successor is there before the block
\* (tokens.py:224-357, auth.py:77-137).
THEOREM CardHistory == CardsSpec => []CardsSound
<1>1. CardsIInv => CardsSound
  BY DEF CardsIInv, CardsSound
<1> QED BY CardsInvariance, <1>1, PTL

\* A session is billed to a group, or on account, only when an active card of that
\* group was looked up on the same connection (ocpp16/handler.py:231-284).
THEOREM ContextIsVouched == CardsSpec => []ContextTrusted
<1>1. CardsIInv => ContextTrusted
  BY DEF CardsIInv
<1> QED BY CardsInvariance, <1>1, PTL

-----------------------------------------------------------------------------
(* The inductive invariant of Roaming.                                     *)

CacheOf(valid) == IF valid = Unset THEN "absent" ELSE IF valid THEN "Accepted" ELSE "Blocked"

\* Push q has written the token u and not yet the cache.
Between(q, u) == push[q].pc = "cache" /\ push[q].uid = u

\* A push between its two statements is the only one of its token, and the token
\* says what the cache is about to say; a PATCH finds in the cache what it found
\* among the tokens.
PushSound ==
    /\ \A q \in Push :
        LET k == push[q]
        IN  /\ k.pc # "idle" => k.uid \in RoamUid
            /\ k.pc = "cache" /\ k.uid \notin rtorn =>
                 IF k.upsert \/ rcache[k.uid] # "absent"
                 THEN token[k.uid] = k.valid ELSE token[k.uid] = Unset
    /\ \A q, o \in Push, u \in RoamUid :
         Between(q, u) /\ Between(o, u) /\ u \notin rtorn => q = o

CacheAgrees ==
    \A u \in RoamUid :
        u \notin rtorn /\ (\A q \in Push : ~Between(q, u)) => rcache[u] = CacheOf(token[u])

\* An update under way is the only one of its partner, and will write, to the row
\* it has read, the fees that were last asked for.
EditSound ==
    /\ \A e \in Edit :
        LET k == edit[e]
        IN  /\ k.pc = "write" <=> k.who # Unset
            /\ k.pc = "write" /\ k.who \notin etorn =>
                 /\ Known(k.who) /\ partner[k.who].id = k.id
                 /\ k.fees = asked[k.who]
    /\ \A e, o \in Edit : edit[e].who = edit[o].who /\ edit[e].who # Unset
                            /\ edit[e].who \notin etorn => e = o

FeesKept ==
    \A p \in Partner :
        p \notin etorn /\ (\A e \in Edit : edit[e].who # p) => partner[p].fees = asked[p]

TokenTypeOK ==
    /\ token \in [RoamUid -> BOOLEAN \cup {Unset}]
    /\ rcache \in [RoamUid -> {"Accepted", "Blocked", "absent"}]
    /\ push \in [Push -> PushStep]
    /\ rtorn \subseteq RoamUid

PartnerTypeOK ==
    /\ partner \in [Partner -> PartnerRow]
    /\ edit \in [Edit -> EditStep]
    /\ asked \in [Partner -> Fees]
    /\ etorn \subseteq Partner
    /\ issued \in Nat

TokenIInv == TokenTypeOK /\ PushSound /\ CacheAgrees

PartnerIInv == PartnerTypeOK /\ EditSound /\ FeesKept

RoamingIInv == TokenIInv /\ PartnerIInv /\ roams \in Nat

LEMMA RoamingInitIInv == RoamingInit => RoamingIInv
<1> SUFFICES ASSUME RoamingInit PROVE RoamingIInv
  OBVIOUS
<1> USE RoamingAssumption DEF RoamingInit
<1>1. NoFees \in Fees /\ NoPush \in PushStep /\ NoEdit.pc = "idle" /\ NoEdit.who = Unset
  BY DEF NoFees, Fees, NoPush, PushStep, NoEdit
<1>2. NoEdit \in EditStep
  BY <1>1 DEF NoEdit, EditStep
<1>3. TokenIInv
  BY <1>1 DEF TokenIInv, TokenTypeOK, PushSound, CacheAgrees, Between, NoPush, CacheOf
<1>4. PartnerTypeOK
  BY <1>1, <1>2 DEF PartnerTypeOK, PartnerRow
<1>5. EditSound /\ FeesKept
  BY <1>1 DEF EditSound, FeesKept
<1> QED BY <1>3, <1>4, <1>5 DEF RoamingIInv, PartnerIInv

-----------------------------------------------------------------------------
(* The steps of the tokens.                                                *)

\* Only push q moves.
LEMMA PushWritten ==
    ASSUME TokenTypeOK, NEW q \in Push, NEW k \in PushStep, push' = [push EXCEPT ![q] = k]
    PROVE  /\ push' \in [Push -> PushStep] /\ push'[q] = k
           /\ \A o \in Push \ {q} : push'[o] = push[o]
BY DEF TokenTypeOK

LEMMA ReceiveKeeps ==
    ASSUME TokenIInv, NEW q \in Push, NEW p \in Partner, NEW u \in RoamUid,
           NEW valid \in BOOLEAN, NEW upsert \in BOOLEAN, Receive(q, p, u, valid, upsert)
    PROVE  TokenIInv'
<1> DEFINE k == [pc |-> "token", uid |-> u, valid |-> valid, upsert |-> upsert]
<1>1. /\ push[q].pc = "idle" /\ push' = [push EXCEPT ![q] = k]
      /\ UNCHANGED <<token, rcache, rtorn>>
  BY DEF Receive
<1>2. k \in PushStep /\ k.pc = "token" /\ k.uid = u
  BY DEF PushStep
<1> HIDE DEF k
<1>3. /\ push' \in [Push -> PushStep] /\ push'[q] = k
      /\ \A o \in Push \ {q} : push'[o] = push[o]
  BY <1>1, <1>2, PushWritten DEF TokenIInv
<1>4. \A o \in Push, x \in RoamUid : Between(o, x)' <=> Between(o, x)
  BY <1>1, <1>2, <1>3 DEF Between
<1>5. TokenTypeOK'
  BY <1>1, <1>3 DEF TokenIInv, TokenTypeOK
<1>6. PushSound'
  BY <1>1, <1>2, <1>3, <1>4 DEF TokenIInv, PushSound
<1>7. CacheAgrees'
  BY <1>1, <1>4 DEF TokenIInv, CacheAgrees
<1> QED BY <1>5, <1>6, <1>7 DEF TokenIInv

LEMMA WriteTokenKeeps ==
    ASSUME TokenIInv, NEW q \in Push, WriteToken(q)
    PROVE  TokenIInv'
<1> DEFINE u == push[q].uid
           k == [push[q] EXCEPT !.pc = "cache"]
<1>1. /\ push[q].pc = "token" /\ push' = [push EXCEPT ![q] = k]
      /\ token' = IF push[q].upsert \/ token[u] # Unset
                  THEN [token EXCEPT ![u] = push[q].valid] ELSE token
      /\ rtorn' = IF Overtaken(q, u) THEN rtorn \cup {u} ELSE rtorn
      /\ UNCHANGED rcache
  BY DEF WriteToken, TokenIInv, TokenTypeOK
<1>2. u \in RoamUid /\ push[q] \in PushStep /\ push[q].valid \in BOOLEAN
  BY <1>1 DEF TokenIInv, PushSound, TokenTypeOK, PushStep
<1>3. /\ k \in PushStep /\ k.pc = "cache" /\ k.uid = u /\ k.valid = push[q].valid
      /\ k.upsert = push[q].upsert
  BY <1>2 DEF PushStep
<1>4. u \notin rtorn' => \A o \in Push \ {q} : ~Between(o, u)
  BY <1>1 DEF Overtaken, Between
<1> SUFFICES ASSUME NEW x \in RoamUid, x = u, NEW d \in PushStep, d = k PROVE TokenIInv'
  BY <1>2, <1>3
<1> HIDE DEF u, k
<1>5. /\ push' \in [Push -> PushStep] /\ push'[q] = d
      /\ \A o \in Push \ {q} : push'[o] = push[o]
  BY <1>1, PushWritten DEF TokenIInv
<1>6. /\ token' \in [RoamUid -> BOOLEAN \cup {Unset}]
      /\ \A y \in RoamUid \ {x} : token'[y] = token[y]
      /\ token'[x] = IF d.upsert \/ token[x] # Unset THEN d.valid ELSE token[x]
  BY <1>1, <1>2, <1>3 DEF TokenIInv, TokenTypeOK
<1>7. /\ rtorn \subseteq rtorn' /\ rtorn' \subseteq RoamUid
      /\ \A y \in RoamUid \ {x} : y \in rtorn' => y \in rtorn
  BY <1>1 DEF TokenIInv, TokenTypeOK
<1>8. /\ \A o \in Push \ {q}, y \in RoamUid : Between(o, y)' <=> Between(o, y)
      /\ Between(q, x)' /\ \A y \in RoamUid : Between(q, y)' => y = x
      /\ \A y \in RoamUid : ~Between(q, y)
  BY <1>1, <1>3, <1>5 DEF Between
<1>9. TokenTypeOK'
  BY <1>1, <1>5, <1>6, <1>7 DEF TokenIInv, TokenTypeOK
<1>10. CacheAgrees'
  BY <1>1, <1>6, <1>7, <1>8 DEF TokenIInv, CacheAgrees
<1>11. PushSound'
  <2>1. x \notin rtorn' =>
          IF d.upsert \/ rcache'[x] # "absent" THEN token'[x] = d.valid ELSE token'[x] = Unset
    <3> SUFFICES ASSUME x \notin rtorn'
                 PROVE IF d.upsert \/ rcache'[x] # "absent"
                       THEN token'[x] = d.valid ELSE token'[x] = Unset
      OBVIOUS
    <3>1. rcache[x] = CacheOf(token[x])
      BY <1>4, <1>7, <1>8 DEF TokenIInv, CacheAgrees
    <3>2. rcache[x] = "absent" <=> token[x] = Unset
      BY <3>1 DEF CacheOf
    <3> QED BY <1>1, <1>6, <3>2
  <2>2. ASSUME NEW o \in Push
        PROVE  LET j == push'[o]
               IN  /\ j.pc # "idle" => j.uid \in RoamUid
                   /\ j.pc = "cache" /\ j.uid \notin rtorn' =>
                        IF j.upsert \/ rcache'[j.uid] # "absent"
                        THEN token'[j.uid] = j.valid ELSE token'[j.uid] = Unset
    <3>1. CASE o = q
      BY <1>3, <1>5, <2>1, <3>1
    <3>2. CASE o # q
      <4>1. push'[o] = push[o]
        BY <1>5, <3>2
      <4>2. push[o].pc = "cache" /\ push[o].uid \notin rtorn' => push[o].uid # x
        BY <1>4, <3>2 DEF Between
      <4> QED BY <1>1, <1>6, <1>7, <4>1, <4>2 DEF TokenIInv, PushSound
    <3> QED BY <3>1, <3>2
  <2>3. ASSUME NEW o \in Push, NEW j \in Push, NEW y \in RoamUid,
               Between(o, y)', Between(j, y)', y \notin rtorn'
        PROVE  o = j
    BY <1>4, <1>7, <1>8, <2>3 DEF TokenIInv, PushSound
  <2> QED BY <2>2, <2>3 DEF PushSound
<1> QED BY <1>9, <1>10, <1>11 DEF TokenIInv

\* A push ends: with the cache written, or cut off, on record if it was between.
LEMMA PushEndsKeeps ==
    ASSUME TokenIInv, NEW q \in Push, WriteCache(q) \/ CutPush(q)
    PROVE  TokenIInv'
<1> DEFINE u == push[q].uid
<1>1. /\ push[q].pc # "idle" /\ push' = [push EXCEPT ![q] = NoPush]
      /\ UNCHANGED token
  BY DEF WriteCache, CutPush
<1>2. u \in RoamUid /\ push[q] \in PushStep
  BY <1>1 DEF TokenIInv, PushSound, TokenTypeOK
<1>3. NoPush \in PushStep /\ NoPush.pc = "idle"
  BY DEF NoPush, PushStep
<1>4. /\ push' \in [Push -> PushStep] /\ push'[q] = NoPush
      /\ \A o \in Push \ {q} : push'[o] = push[o]
  BY <1>1, <1>3, PushWritten DEF TokenIInv
<1> SUFFICES ASSUME NEW x \in RoamUid, x = u PROVE TokenIInv'
  BY <1>2
<1>5. /\ rcache' \in [RoamUid -> {"Accepted", "Blocked", "absent"}]
      /\ rtorn \subseteq rtorn' /\ rtorn' \subseteq RoamUid
      /\ \A y \in RoamUid \ {x} : rcache'[y] = rcache[y] /\ (y \in rtorn' => y \in rtorn)
      /\ push[q].pc = "cache" /\ x \notin rtorn' => rcache'[x] = CacheOf(token[x])
      /\ push[q].pc # "cache" => rcache'[x] = rcache[x] /\ (x \in rtorn' => x \in rtorn)
  <2>1. CASE WriteCache(q)
    <3> DEFINE v == IF push[q].valid THEN "Accepted" ELSE "Blocked"
    <3>1. /\ push[q].pc = "cache" /\ rtorn' = rtorn
          /\ rcache' = IF push[q].upsert \/ rcache[x] # "absent"
                       THEN [rcache EXCEPT ![x] = v] ELSE rcache
      BY <2>1 DEF WriteCache
    <3>2. v \in {"Accepted", "Blocked"} /\ CacheOf(push[q].valid) = v
      BY <1>2, RoamingAssumption DEF CacheOf, PushStep
    <3> HIDE DEF v
    <3>3. /\ rcache' \in [RoamUid -> {"Accepted", "Blocked", "absent"}]
          /\ \A y \in RoamUid \ {x} : rcache'[y] = rcache[y]
          /\ rcache'[x] = IF push[q].upsert \/ rcache[x] # "absent" THEN v ELSE "absent"
      BY <3>1, <3>2 DEF TokenIInv, TokenTypeOK
    <3>4. x \notin rtorn => IF push[q].upsert \/ rcache[x] # "absent"
                            THEN token[x] = push[q].valid ELSE token[x] = Unset
      BY <3>1 DEF TokenIInv, PushSound
    <3>5. CacheOf(Unset) = "absent"
      BY DEF CacheOf
    <3>6. x \notin rtorn => rcache'[x] = CacheOf(token[x])
      BY <3>2, <3>3, <3>4, <3>5
    <3> QED BY <3>1, <3>3, <3>6 DEF TokenIInv, TokenTypeOK
  <2>2. CASE CutPush(q)
    BY <1>2, <2>2 DEF CutPush, TokenIInv, TokenTypeOK
  <2> QED BY <2>1, <2>2
<1> HIDE DEF u
<1>6. /\ \A o \in Push \ {q}, y \in RoamUid : Between(o, y)' <=> Between(o, y)
      /\ \A y \in RoamUid : ~Between(q, y)'
      /\ \A y \in RoamUid : Between(q, y) => y = x /\ push[q].pc = "cache"
      /\ push[q].pc = "cache" => Between(q, x)
  BY <1>3, <1>4 DEF Between, u
<1>7. TokenTypeOK'
  BY <1>1, <1>4, <1>5 DEF TokenIInv, TokenTypeOK
<1>8. CacheAgrees'
  <2> SUFFICES ASSUME NEW y \in RoamUid, y \notin rtorn', \A o \in Push : ~Between(o, y)'
               PROVE  rcache'[y] = CacheOf(token[y])
    BY <1>1 DEF CacheAgrees, CacheOf
  <2>1. CASE y = x /\ push[q].pc = "cache"
    BY <1>5, <2>1
  <2>2. CASE ~(y = x /\ push[q].pc = "cache")
    <3>1. rcache'[y] = rcache[y] /\ y \notin rtorn
      BY <1>5, <2>2
    <3>2. \A o \in Push : ~Between(o, y)
      BY <1>6, <2>2
    <3> QED BY <3>1, <3>2 DEF TokenIInv, CacheAgrees
  <2> QED BY <2>1, <2>2
<1>9. PushSound'
  <2>1. ASSUME NEW o \in Push
        PROVE  LET j == push'[o]
               IN  /\ j.pc # "idle" => j.uid \in RoamUid
                   /\ j.pc = "cache" /\ j.uid \notin rtorn' =>
                        IF j.upsert \/ rcache'[j.uid] # "absent"
                        THEN token'[j.uid] = j.valid ELSE token'[j.uid] = Unset
    <3>1. CASE o = q
      BY <1>3, <1>4, <3>1
    <3>2. CASE o # q
      <4>1. push'[o] = push[o]
        BY <1>4, <3>2
      <4>2. push[o].pc # "idle" => push[o].uid \in RoamUid
        BY DEF TokenIInv, PushSound
      <4>3. push[o].pc = "cache" /\ push[o].uid \notin rtorn' =>
              rcache'[push[o].uid] = rcache[push[o].uid]
        <5>1. CASE push[o].uid = x /\ push[q].pc = "cache"
          BY <1>5, <1>6, <3>2, <5>1 DEF TokenIInv, PushSound, Between
        <5>2. CASE ~(push[o].uid = x /\ push[q].pc = "cache")
          BY <1>5, <4>2, <5>2
        <5> QED BY <5>1, <5>2
      <4>4. push[o].uid \notin rtorn' => push[o].uid \notin rtorn
        BY <1>5
      <4> QED BY <1>1, <4>1, <4>2, <4>3, <4>4 DEF TokenIInv, PushSound
    <3> QED BY <3>1, <3>2
  <2>2. ASSUME NEW o \in Push, NEW j \in Push, NEW y \in RoamUid,
               Between(o, y)', Between(j, y)', y \notin rtorn'
        PROVE  o = j
    BY <1>5, <1>6, <2>2 DEF TokenIInv, PushSound
  <2> QED BY <2>1, <2>2 DEF PushSound
<1> QED BY <1>7, <1>8, <1>9 DEF TokenIInv

-----------------------------------------------------------------------------
(* The steps of the partners.                                              *)

\* One row is written, and with it, if at all, what was asked for the partner: an
\* update of it that is under way finds its row as it was.
LEMMA PartnerKeeps ==
    ASSUME PartnerIInv, NEW p \in Partner, NEW row \in PartnerRow, NEW a \in Fees,
           partner' = [partner EXCEPT ![p] = row], asked' = [asked EXCEPT ![p] = a],
           UNCHANGED edit, etorn \subseteq etorn', etorn' \subseteq Partner, issued' \in Nat,
           row.fees = a \/ (row.fees = partner[p].fees /\ a = asked[p]),
           \/ row.status # "none" /\ row.id = partner[p].id /\ a = asked[p]
           \/ p \in etorn' \/ \A e \in Edit : edit[e].who # p
    PROVE  PartnerIInv'
<1>1. /\ partner' \in [Partner -> PartnerRow] /\ partner'[p] = row
      /\ \A x \in Partner \ {p} : partner'[x] = partner[x]
  BY DEF PartnerIInv, PartnerTypeOK
<1>2. /\ asked' \in [Partner -> Fees] /\ asked'[p] = a
      /\ \A x \in Partner \ {p} : asked'[x] = asked[x]
  BY DEF PartnerIInv, PartnerTypeOK
<1>3. PartnerTypeOK'
  BY <1>1, <1>2 DEF PartnerIInv, PartnerTypeOK
<1>4. ASSUME NEW e \in Edit
      PROVE  LET k == edit'[e]
             IN  /\ k.pc = "write" <=> k.who # Unset
                 /\ k.pc = "write" /\ k.who \notin etorn' =>
                      /\ partner'[k.who].status # "none" /\ partner'[k.who].id = k.id
                      /\ k.fees = asked'[k.who]
  <2>1. edit'[e] = edit[e] /\ (edit[e].pc = "write" <=> edit[e].who # Unset)
        /\ edit[e].who \in Partner \cup {Unset}
    BY DEF PartnerIInv, EditSound, PartnerTypeOK, EditStep
  <2>2. CASE edit[e].who = p
    <3>1. p \notin etorn' => /\ row.status # "none" /\ row.id = partner[p].id
                             /\ a = asked[p] /\ p \notin etorn
      BY <2>2
    <3> QED BY <1>1, <1>2, <2>1, <2>2, <3>1 DEF PartnerIInv, EditSound, Known
  <2>3. CASE edit[e].who # p
    BY <1>1, <1>2, <2>1, <2>3 DEF PartnerIInv, EditSound, Known
  <2> QED BY <2>2, <2>3
<1>5. EditSound'
  <2>1. \A e, o \in Edit : edit'[e].who = edit'[o].who /\ edit'[e].who # Unset
                             /\ edit'[e].who \notin etorn' => e = o
    BY DEF PartnerIInv, EditSound
  <2> QED BY <1>4, <2>1 DEF EditSound, Known
<1>6. FeesKept'
  <2> SUFFICES ASSUME NEW x \in Partner, x \notin etorn', \A e \in Edit : edit'[e].who # x
               PROVE  partner'[x].fees = asked'[x]
    BY DEF FeesKept
  <2>1. partner[x].fees = asked[x]
    BY DEF PartnerIInv, FeesKept
  <2> QED BY <1>1, <1>2, <2>1
<1> QED BY <1>3, <1>5, <1>6 DEF PartnerIInv

\* A deleted partner's row stays in the model as status none; a new one replaces it.
LEMMA PartnerStepKeeps ==
    ASSUME PartnerIInv, NEW p \in Partner,
           \/ PostCredentials(p) \/ DeleteCredentials(p) \/ DeletePartner(p)
           \/ \E fees \in Fees : CreatePartner(p, fees)
           \/ \E st \in {"pending", "active", "suspended"} : UpdateStatus(p, st)
    PROVE  PartnerIInv'
<1>a. /\ partner \in [Partner -> PartnerRow] /\ partner[p] \in PartnerRow
      /\ asked \in [Partner -> Fees] /\ asked[p] \in Fees /\ issued \in Nat
      /\ etorn \subseteq Partner /\ partner[p].fees \in Fees
  BY DEF PartnerIInv, PartnerTypeOK, PartnerRow
<1>b. asked = [asked EXCEPT ![p] = asked[p]]
  BY <1>a
<1>c. partner[p].status = "none" => p \in etorn \/ \A e \in Edit : edit[e].who # p
  <2> SUFFICES ASSUME partner[p].status = "none", p \notin etorn, NEW e \in Edit, edit[e].who = p
               PROVE  FALSE
    OBVIOUS
  <2>1. edit[e].pc = "write"
    BY RoamingAssumption DEF PartnerIInv, EditSound
  <2> QED BY <2>1 DEF PartnerIInv, EditSound, Known
<1>1. CASE PostCredentials(p)
  <2>1. /\ issued' = issued + 1 /\ UNCHANGED <<edit, etorn>>
    BY <1>1 DEF PostCredentials
  <2>2. CASE Known(p)
    <3> DEFINE row == [partner[p] EXCEPT !.status = "active", !.tokenA = issued']
    <3>1. partner' = [partner EXCEPT ![p] = row] /\ UNCHANGED asked
      BY <1>1, <2>2 DEF PostCredentials
    <3>2. issued' \in Nat
      BY <2>1, <1>a
    <3>3. row \in PartnerRow /\ row.status = "active" /\ row.id = partner[p].id
          /\ row.fees = partner[p].fees
      BY <1>a, <3>2 DEF PartnerRow
    <3> SUFFICES ASSUME NEW d \in PartnerRow, d = row PROVE PartnerIInv'
      BY <3>3
    <3> HIDE DEF row
    <3> QED BY <1>a, <1>b, <2>1, <3>1, <3>2, <3>3, PartnerKeeps
  <2>3. CASE ~Known(p)
    <3> DEFINE row == [status |-> "active", id |-> issued', tokenA |-> issued', fees |-> NoFees]
    <3>1. partner' = [partner EXCEPT ![p] = row] /\ asked' = [asked EXCEPT ![p] = NoFees]
      BY <1>1, <2>3 DEF PostCredentials
    <3>2. issued' \in Nat
      BY <2>1, <1>a
    <3>3. NoFees \in Fees /\ row \in PartnerRow /\ row.fees = NoFees
      BY <3>2 DEF PartnerRow, NoFees, Fees
    <3>4. p \in etorn \/ \A e \in Edit : edit[e].who # p
      BY <1>c, <2>3 DEF Known
    <3> SUFFICES ASSUME NEW d \in PartnerRow, d = row PROVE PartnerIInv'
      BY <3>3
    <3> HIDE DEF row
    <3> QED BY <1>a, <2>1, <3>1, <3>2, <3>3, <3>4, PartnerKeeps
  <2> QED BY <2>2, <2>3
<1>2. CASE DeleteCredentials(p)
  <2> DEFINE row == [partner[p] EXCEPT !.status = "suspended"]
  <2>1. /\ partner' = [partner EXCEPT ![p] = row] /\ UNCHANGED <<edit, asked, etorn, issued>>
    BY <1>2, <1>a DEF DeleteCredentials
  <2>2. row \in PartnerRow /\ row.status = "suspended" /\ row.id = partner[p].id
        /\ row.fees = partner[p].fees
    BY <1>a DEF PartnerRow
  <2> HIDE DEF row
  <2> SUFFICES ASSUME NEW d \in PartnerRow, d = row PROVE PartnerIInv'
    BY <2>2
  <2> QED BY <1>a, <1>b, <2>1, <2>2, PartnerKeeps
<1>3. CASE DeletePartner(p)
  <2> DEFINE row == [partner[p] EXCEPT !.status = "none"]
  <2>1. /\ partner' = [partner EXCEPT ![p] = row] /\ UNCHANGED <<edit, asked, issued>>
        /\ etorn' = etorn \cup {q \in {p} : \E o \in Edit : edit[o].who = q}
    BY <1>3, <1>a DEF DeletePartner
  <2>2. row \in PartnerRow /\ row.fees = partner[p].fees
    BY <1>a DEF PartnerRow
  <2>3. /\ etorn \subseteq etorn' /\ etorn' \subseteq Partner
        /\ p \in etorn' \/ \A e \in Edit : edit[e].who # p
    BY <2>1, <1>a
  <2> HIDE DEF row
  <2> SUFFICES ASSUME NEW d \in PartnerRow, d = row PROVE PartnerIInv'
    BY <2>2
  <2> QED BY <1>a, <1>b, <2>1, <2>2, <2>3, PartnerKeeps
<1>4. ASSUME NEW fees \in Fees, CreatePartner(p, fees) PROVE PartnerIInv'
  <2> DEFINE row == [status |-> "pending", id |-> issued', tokenA |-> issued', fees |-> fees]
  <2>1. /\ partner' = [partner EXCEPT ![p] = row] /\ asked' = [asked EXCEPT ![p] = fees]
        /\ issued' = issued + 1 /\ ~Known(p) /\ UNCHANGED <<edit, etorn>>
    BY <1>4 DEF CreatePartner
  <2>2. issued' \in Nat
    BY <2>1, <1>a
  <2>3. row \in PartnerRow /\ row.fees = fees
    BY <2>2 DEF PartnerRow
  <2>4. p \in etorn \/ \A e \in Edit : edit[e].who # p
    BY <1>c, <2>1 DEF Known
  <2> SUFFICES ASSUME NEW d \in PartnerRow, d = row PROVE PartnerIInv'
    BY <2>3
  <2> HIDE DEF row
  <2> QED BY <1>a, <2>1, <2>2, <2>3, <2>4, PartnerKeeps
<1>5. ASSUME NEW st \in {"pending", "active", "suspended"}, UpdateStatus(p, st)
      PROVE  PartnerIInv'
  <2> DEFINE row == [partner[p] EXCEPT !.status = st]
  <2>1. /\ partner' = [partner EXCEPT ![p] = row] /\ UNCHANGED <<edit, asked, etorn, issued>>
    BY <1>5, <1>a DEF UpdateStatus
  <2>2. row \in PartnerRow /\ row.status # "none" /\ row.id = partner[p].id
        /\ row.fees = partner[p].fees
    BY <1>a DEF PartnerRow
  <2> HIDE DEF row
  <2> SUFFICES ASSUME NEW d \in PartnerRow, d = row PROVE PartnerIInv'
    BY <2>2
  <2> QED BY <1>a, <1>b, <2>1, <2>2, PartnerKeeps
<1> QED BY <1>1, <1>2, <1>3, <1>4, <1>5

\* An update reads the fees the partner has; they are those asked for before, as
\* no other update of it is under way.
LEMMA UpdateFeesKeeps ==
    ASSUME PartnerIInv, NEW p \in Partner, NEW e \in Edit, NEW f \in Fee, NEW a \in Amount,
           UpdateFees(e, p, f, a)
    PROVE  PartnerIInv'
<1>a. /\ partner[p] \in PartnerRow /\ asked[p] \in Fees /\ asked \in [Partner -> Fees]
      /\ etorn \subseteq Partner
  BY DEF PartnerIInv, PartnerTypeOK
<1> DEFINE m == [partner[p].fees EXCEPT ![f] = a]
           n == [asked[p] EXCEPT ![f] = a]
           k == [pc |-> "write", who |-> p, id |-> partner[p].id, fees |-> m]
<1>1. /\ edit[e].pc = "idle" /\ Known(p) /\ edit' = [edit EXCEPT ![e] = k]
      /\ asked' = [asked EXCEPT ![p] = n]
      /\ etorn' = IF \E o \in Edit \ {e} : edit[o].who = p THEN etorn \cup {p} ELSE etorn
      /\ UNCHANGED <<partner, issued>>
  BY <1>a DEF UpdateFees
<1>2. m \in Fees /\ n \in Fees /\ partner[p].id \in Nat
  BY <1>a DEF Fees, PartnerRow
<1>3. k \in EditStep /\ k.pc = "write" /\ k.who = p /\ k.id = partner[p].id /\ k.fees = m
  BY <1>2 DEF EditStep
<1>4. edit[e].who = Unset
  BY <1>1 DEF PartnerIInv, EditSound
<1>5. p \notin etorn' => m = n /\ \A o \in Edit : edit[o].who # p
  <2> SUFFICES ASSUME p \notin etorn' PROVE m = n /\ \A o \in Edit : edit[o].who # p
    OBVIOUS
  <2>1. p \notin etorn /\ \A o \in Edit : edit[o].who # p
    BY <1>1, <1>4, RoamingAssumption
  <2>2. partner[p].fees = asked[p]
    BY <2>1 DEF PartnerIInv, FeesKept
  <2> QED BY <2>1, <2>2
<1> SUFFICES ASSUME NEW d \in EditStep, d = k, NEW g \in Fees, g = n PROVE PartnerIInv'
  BY <1>2, <1>3
<1> HIDE DEF k, n, m
<1>6. /\ edit' \in [Edit -> EditStep] /\ edit'[e] = d
      /\ \A o \in Edit \ {e} : edit'[o] = edit[o]
  BY <1>1 DEF PartnerIInv, PartnerTypeOK
<1>7. /\ asked' \in [Partner -> Fees] /\ asked'[p] = g
      /\ \A x \in Partner \ {p} : asked'[x] = asked[x]
  BY <1>1 DEF PartnerIInv, PartnerTypeOK
<1>8. /\ etorn \subseteq etorn' /\ etorn' \subseteq Partner
      /\ \A x \in Partner \ {p} : x \in etorn' => x \in etorn
  BY <1>1, <1>a
<1>9. PartnerTypeOK'
  BY <1>1, <1>6, <1>7, <1>8 DEF PartnerIInv, PartnerTypeOK
<1>10. ASSUME NEW o \in Edit
       PROVE  LET j == edit'[o]
              IN  /\ j.pc = "write" <=> j.who # Unset
                  /\ j.pc = "write" /\ j.who \notin etorn' =>
                       /\ partner'[j.who].status # "none" /\ partner'[j.who].id = j.id
                       /\ j.fees = asked'[j.who]
  <2>1. CASE o = e
    BY <1>1, <1>3, <1>5, <1>6, <1>7, <2>1, RoamingAssumption DEF Known
  <2>2. CASE o # e
    <3>1. edit'[o] = edit[o] /\ edit[o].who \in Partner \cup {Unset}
      BY <1>6, <2>2 DEF PartnerIInv, PartnerTypeOK, EditStep
    <3>2. edit[o].who \notin etorn' => edit[o].who \notin etorn /\ edit[o].who # p
      BY <1>5, <1>8
    <3> QED BY <1>1, <1>7, <3>1, <3>2 DEF PartnerIInv, EditSound, Known
  <2> QED BY <2>1, <2>2
<1>11. EditSound'
  <2>1. ASSUME NEW o \in Edit, NEW j \in Edit, edit'[o].who = edit'[j].who,
               edit'[o].who # Unset, edit'[o].who \notin etorn'
        PROVE  o = j
    BY <1>3, <1>5, <1>6, <1>8, <2>1 DEF PartnerIInv, EditSound
  <2> QED BY <1>10, <2>1 DEF EditSound, Known
<1>12. FeesKept'
  <2> SUFFICES ASSUME NEW x \in Partner, x \notin etorn', \A o \in Edit : edit'[o].who # x
               PROVE  partner'[x].fees = asked'[x]
    BY DEF FeesKept
  <2>1. x # p
    BY <1>3, <1>6
  <2>2. x \notin etorn /\ \A o \in Edit : edit[o].who # x
    BY <1>4, <1>6, <1>8, RoamingAssumption
  <2> QED BY <1>1, <1>7, <2>1, <2>2 DEF PartnerIInv, FeesKept
<1> QED BY <1>9, <1>11, <1>12 DEF PartnerIInv

LEMMA WriteFeesKeeps ==
    ASSUME PartnerIInv, NEW e \in Edit, WriteFees(e)
    PROVE  PartnerIInv'
<1> DEFINE p == edit[e].who
<1>1. /\ edit[e].pc = "write" /\ edit' = [edit EXCEPT ![e] = NoEdit]
      /\ partner' = IF Known(p) /\ partner[p].id = edit[e].id
                    THEN [partner EXCEPT ![p].fees = edit[e].fees] ELSE partner
      /\ UNCHANGED <<asked, etorn, issued>>
  BY DEF WriteFees
<1>2. p \in Partner /\ edit[e].fees \in Fees /\ partner[p] \in PartnerRow
  BY <1>1 DEF PartnerIInv, EditSound, PartnerTypeOK, EditStep
<1>3. p \notin etorn => /\ Known(p) /\ partner[p].id = edit[e].id
                        /\ edit[e].fees = asked[p]
                        /\ \A o \in Edit \ {e} : edit[o].who # p
  BY <1>1, <1>2, RoamingAssumption DEF PartnerIInv, EditSound
<1> DEFINE row == [partner[p] EXCEPT !.fees = edit[e].fees]
<1>4. /\ row \in PartnerRow /\ row.fees = edit[e].fees /\ row.status = partner[p].status
      /\ row.id = partner[p].id
  BY <1>2 DEF PartnerRow
<1>5. partner' = IF Known(p) /\ partner[p].id = edit[e].id
                 THEN [partner EXCEPT ![p] = row] ELSE partner
  BY <1>1 DEF PartnerIInv, PartnerTypeOK
<1> SUFFICES ASSUME NEW x \in Partner, x = p, NEW d \in PartnerRow, d = row PROVE PartnerIInv'
  BY <1>2, <1>4
<1> HIDE DEF row
<1>6. /\ partner' \in [Partner -> PartnerRow]
      /\ \A y \in Partner \ {x} : partner'[y] = partner[y]
      /\ partner'[x].status = partner[x].status /\ partner'[x].id = partner[x].id
      /\ x \notin etorn => partner'[x].fees = asked[x]
  BY <1>3, <1>4, <1>5 DEF PartnerIInv, PartnerTypeOK
<1>7. NoEdit \in EditStep /\ NoEdit.pc = "idle" /\ NoEdit.who = Unset
  <2>1. NoFees \in Fees
    BY DEF NoFees, Fees
  <2> QED BY <2>1 DEF NoEdit, EditStep
<1>8. /\ edit' \in [Edit -> EditStep] /\ edit'[e] = NoEdit
      /\ \A o \in Edit \ {e} : edit'[o] = edit[o]
  BY <1>1, <1>7 DEF PartnerIInv, PartnerTypeOK
<1>9. PartnerTypeOK'
  BY <1>1, <1>6, <1>8 DEF PartnerIInv, PartnerTypeOK
<1>10. ASSUME NEW o \in Edit
       PROVE  LET j == edit'[o]
              IN  /\ j.pc = "write" <=> j.who # Unset
                  /\ j.pc = "write" /\ j.who \notin etorn' =>
                       /\ partner'[j.who].status # "none" /\ partner'[j.who].id = j.id
                       /\ j.fees = asked'[j.who]
  <2>1. CASE o = e
    BY <1>7, <1>8, <2>1
  <2>2. CASE o # e
    <3>1. edit'[o] = edit[o] /\ edit[o].who \in Partner \cup {Unset}
      BY <1>8, <2>2 DEF PartnerIInv, PartnerTypeOK, EditStep
    <3>2. \A y \in Partner : partner'[y].status = partner[y].status /\ partner'[y].id = partner[y].id
      BY <1>6 DEF Known
    <3>3. edit[o].pc = "write" <=> edit[o].who # Unset
      BY DEF PartnerIInv, EditSound
    <3> QED BY <1>1, <3>1, <3>2, <3>3 DEF PartnerIInv, EditSound, Known
  <2> QED BY <2>1, <2>2
<1>11. EditSound'
  <2>1. ASSUME NEW o \in Edit, NEW j \in Edit, edit'[o].who = edit'[j].who,
               edit'[o].who # Unset, edit'[o].who \notin etorn'
        PROVE  o = j
    BY <1>1, <1>7, <1>8, <2>1 DEF PartnerIInv, EditSound
  <2> QED BY <1>10, <2>1 DEF EditSound, Known
<1>12. FeesKept'
  <2> SUFFICES ASSUME NEW y \in Partner, y \notin etorn', \A o \in Edit : edit'[o].who # y
               PROVE  partner'[y].fees = asked'[y]
    BY DEF FeesKept
  <2>1. CASE y = x
    BY <1>1, <1>6, <2>1
  <2>2. CASE y # x
    <3>1. \A o \in Edit : edit[o].who # y
      BY <1>8, <2>2
    <3> QED BY <1>1, <1>6, <2>2, <3>1 DEF PartnerIInv, FeesKept
  <2> QED BY <2>1, <2>2
<1> QED BY <1>9, <1>11, <1>12 DEF PartnerIInv

-----------------------------------------------------------------------------
(* The theorems of Roaming and of the two together.                        *)

LEMMA TokensRest ==
    ASSUME TokenIInv, UNCHANGED tokenVars PROVE TokenIInv'
BY DEF tokenVars, TokenIInv, TokenTypeOK, PushSound, CacheAgrees, Between

LEMMA PartnersRest ==
    ASSUME PartnerIInv, UNCHANGED partnerVars PROVE PartnerIInv'
BY DEF partnerVars, PartnerIInv, PartnerTypeOK, EditSound, FeesKept, Known

LEMMA RoamingStep ==
    ASSUME RoamingIInv, [RoamingNext]_roamingVars
    PROVE  RoamingIInv'
<1>a. TokenIInv /\ PartnerIInv /\ roams \in Nat
  BY DEF RoamingIInv
<1>1. ASSUME NEW p \in Partner,
             \/ PostCredentials(p) \/ DeleteCredentials(p) \/ DeletePartner(p)
             \/ \E fees \in Fees : CreatePartner(p, fees)
             \/ \E st \in {"pending", "active", "suspended"} : UpdateStatus(p, st)
      PROVE  RoamingIInv'
  <2>1. UNCHANGED tokenVars /\ roams' = roams + 1
    BY <1>1 DEF PostCredentials, DeleteCredentials, DeletePartner, CreatePartner, UpdateStatus,
                NewRoam, tokenVars
  <2> QED BY <1>a, <1>1, <2>1, TokensRest, PartnerStepKeeps DEF RoamingIInv
<1>2. ASSUME NEW p \in Partner, NEW e \in Edit, NEW f \in Fee, NEW a \in Amount,
             UpdateFees(e, p, f, a)
      PROVE  RoamingIInv'
  <2>1. UNCHANGED tokenVars /\ roams' = roams + 1
    BY <1>2 DEF UpdateFees, NewRoam, tokenVars
  <2> QED BY <1>a, <1>2, <2>1, TokensRest, UpdateFeesKeeps DEF RoamingIInv
<1>3. ASSUME NEW p \in Partner, NEW q \in Push, NEW u \in RoamUid,
             NEW valid \in BOOLEAN, NEW upsert \in BOOLEAN, Receive(q, p, u, valid, upsert)
      PROVE  RoamingIInv'
  <2>1. UNCHANGED partnerVars /\ roams' = roams + 1
    BY <1>3 DEF Receive, NewRoam, partnerVars
  <2> QED BY <1>a, <1>3, <2>1, PartnersRest, ReceiveKeeps DEF RoamingIInv
<1>4. ASSUME NEW e \in Edit, WriteFees(e) PROVE RoamingIInv'
  <2>1. UNCHANGED tokenVars /\ roams' = roams
    BY <1>4 DEF WriteFees, tokenVars
  <2> QED BY <1>a, <1>4, <2>1, TokensRest, WriteFeesKeeps DEF RoamingIInv
<1>5. ASSUME NEW q \in Push, WriteToken(q) \/ WriteCache(q) \/ CutPush(q) PROVE RoamingIInv'
  <2>1. UNCHANGED partnerVars /\ roams' = roams
    BY <1>5 DEF WriteToken, WriteCache, CutPush, partnerVars
  <2> QED BY <1>a, <1>5, <2>1, PartnersRest, WriteTokenKeeps, PushEndsKeeps DEF RoamingIInv
<1>6. CASE UNCHANGED roamingVars
  <2>1. UNCHANGED tokenVars /\ UNCHANGED partnerVars /\ roams' = roams
    BY <1>6 DEF roamingVars, tokenVars, partnerVars
  <2> QED BY <1>a, <2>1, TokensRest, PartnersRest DEF RoamingIInv
<1> QED BY <1>1, <1>2, <1>3, <1>4, <1>5, <1>6 DEF RoamingNext

LEMMA RoamingInvariance == RoamingSpec => []RoamingIInv
<1>1. RoamingIInv /\ [RoamingNext]_roamingVars => RoamingIInv'
  BY RoamingStep
<1> QED BY RoamingInitIInv, <1>1, PTL DEF RoamingSpec

\* The row a charger's Authorize reads says of a token what its partner last said,
\* and a partner has the fees that were last given for it, unless two requests
\* overlapped or one was cut between its statements (ocpi/tokens.py:56-114,
\* api/ocpi_management.py:214-252).
THEOREM RoamingIsSound == RoamingSpec => []RoamingSound
<1>1. RoamingIInv => RoamingSound
  <2> SUFFICES ASSUME RoamingIInv PROVE RoamingSound
    OBVIOUS
  <2>1. RoamingCacheAgrees
    <3> SUFFICES ASSUME NEW u \in RoamUid, u \notin rtorn,
                        \A q \in Push : ~(push[q].pc = "cache" /\ push[q].uid = u)
                 PROVE  rcache[u] = CASE token[u] = Unset -> "absent"
                                      [] token[u] = TRUE  -> "Accepted"
                                      [] token[u] = FALSE -> "Blocked"
      BY DEF RoamingCacheAgrees
    <3>1. rcache[u] = CacheOf(token[u])
      BY DEF RoamingIInv, TokenIInv, CacheAgrees, Between
    <3>2. token[u] \in BOOLEAN \cup {Unset}
      BY DEF RoamingIInv, TokenIInv, TokenTypeOK
    <3> QED BY <3>1, <3>2, RoamingAssumption DEF CacheOf
  <2>2. MergeKeeps
    BY DEF RoamingIInv, PartnerIInv, FeesKept, MergeKeeps
  <2> QED BY <2>1, <2>2 DEF RoamingSound
<1> QED BY RoamingInvariance, <1>1, PTL

\* Every row, step and history variable of the two is of its kind, whichever of
\* them moves (tokens.py:224-317, ocpp16/handler.py:231-284, ocpi/tokens.py:56-114).
THEOREM AccessTypeCorrect == AccessSpec => []AccessTypeOK
<1> DEFINE I == CardsIInv /\ RoamingIInv
<1>1. AccessInit => I
  BY CardsInitIInv, RoamingInitIInv DEF AccessInit
<1>2. I /\ [AccessNext]_accessVars => I'
  <2>1. [AccessNext]_accessVars => [CardsNext]_cardsVars /\ [RoamingNext]_roamingVars
    BY DEF AccessNext, accessVars
  <2> QED BY <2>1, CardsStep, RoamingStep
<1>3. I => AccessTypeOK
  BY DEF CardsIInv, RoamingIInv, TokenIInv, PartnerIInv, TokenTypeOK, PartnerTypeOK,
         AccessTypeOK, RoamingTypeOK
<1> QED BY <1>1, <1>2, <1>3, PTL DEF AccessSpec

\* Whichever of the two moves, what was shown of each of them holds
\* (tokens.py:224-317, ocpp16/handler.py:231-284, ocpi/tokens.py:56-114).
THEOREM AccessIsSound == AccessSpec => [](CardsSound /\ ContextTrusted /\ RoamingSound)
<1>1. AccessInit => CardsInit /\ RoamingInit
  BY DEF AccessInit
<1>2. [AccessNext]_accessVars => [CardsNext]_cardsVars /\ [RoamingNext]_roamingVars
  BY DEF AccessNext, accessVars
<1>3. AccessSpec => CardsSpec /\ RoamingSpec
  BY <1>1, <1>2, PTL DEF AccessSpec, CardsSpec, RoamingSpec
<1> QED BY <1>3, CardHistory, ContextIsVouched, RoamingIsSound, PTL
=============================================================================
