------------------------- MODULE CaptureQueueProofs -------------------------
(***************************************************************************)
(* For any number of requests, instances, spellings, types and captures:   *)
(* find-or-create never creates a capture beside one that serves it.       *)
(***************************************************************************)
EXTENDS CaptureQueue, FiniteSetTheorems, TLAPS

\* Requests between their advisory lock and their commit have different identities.
LockedApart ==
    \A o, p \in Request :
        req[o].pc \in Locked /\ req[p].pc \in Locked /\ Identity(o) = Identity(p) => o = p

\* Every capture hangs off a row, which has a canonical identity unless the
\* capture is from before there were any.
RowsKeyed ==
    \A c \in Cap :
        /\ Made(c) => urls[caps[c].row] # "absent"
        /\ caps[c].op \notin {"none", "old"} => urls[caps[c].row] = "keyed"

\* The history is right: an item that is failed or partial is recorded as such.
EverRight == \A c \in Cap, t \in Type : caps[c].items[t] \in {"failed", "partial"} => t \in caps[c].ever

\* c would serve a request that needs T of the post of u.
Serves(c, u, T) ==
    /\ Made(c) /\ Reached(c, u) /\ SameIdentity(caps[c].row, u)
    /\ \A t \in T : caps[c].items[t] # "absent" /\ t \notin caps[c].ever

\* What a find-or-create that is about to create has found out stays true while
\* it holds the lock: nothing serves it.
DecisionStands ==
    \A p \in Request : req[p].pc = "creating" /\ req[p].op \in Finding =>
        \A c \in Cap : ~Serves(c, req[p].url, Needed(req[p].op, req[p].types))

\* Every request asks for what the callers ask for.
AsksRight ==
    \A p \in Request : req[p].pc # "idle" => <<req[p].op, req[p].types>> \in Ask

QueueInv ==
    TypeOK /\ LockedApart /\ RowsKeyed /\ EverRight /\ DecisionStands /\ AsksRight /\ OneLiveCapture

-----------------------------------------------------------------------------
\* The spelling an unused record carries is a spelling.
LEMMA DefaultUrl == NoCap.row \in Url
BY QueueAssumption DEF NoCap

\* An unused capture record is well typed.
LEMMA NoCapType == NoCap \in CapType
BY DefaultUrl DEF NoCap, NoItems, CapType, ItemStatus

\* Resetting a request keeps the requests well typed.
LEMMA NoReqType == NoReq \in ReqType
BY DefaultUrl DEF NoReq, ReqType

\* Captures are numbered from 1, so none has the number that stands for "none".
LEMMA CapIds == \A c \in Cap : c \in Nat /\ c # 0
BY QueueAssumption DEF Cap

\* An empty database, or one with an old capture, satisfies the invariant.
LEMMA QueueInit == Init => QueueInv
<1>1. SUFFICES ASSUME Init PROVE QueueInv
  OBVIOUS
<1>2. \A c \in Cap : caps[c] = NoCap \/ \E u \in Url : caps[c] = OldCap(u)
  BY <1>1 DEF Init
<1>3. \A c \in Cap : caps[c].op \in {"none", "old"} /\ caps[c].alias = 0
  <2>1. NoCap.op = "none" /\ NoCap.alias = 0
    BY DEF NoCap
  <2>2. \A u \in Url : OldCap(u).op = "old" /\ OldCap(u).alias = 0
    BY DEF OldCap
  <2>3. QED BY <1>2, <2>1, <2>2
<1>4. \A c \in Cap, t \in Type : caps[c].items[t] \in {"absent", "coming"}
  <2>1. \A t \in Type : NoCap.items[t] = "absent"
    BY DEF NoCap, NoItems
  <2>2. \A u \in Url, t \in Type : OldCap(u).items[t] = "coming"
    BY DEF OldCap, NewItems
  <2>3. QED BY <1>2, <2>1, <2>2
<1>5. \A c \in Cap : caps[c] \in CapType
  <2>1. ASSUME NEW u \in Url PROVE OldCap(u) \in CapType
    BY DEF OldCap, NewItems, CapType, ItemStatus
  <2>2. QED BY <1>2, <2>1, NoCapType
<1>6. caps \in [Cap -> CapType]
  <2>1. caps = [c \in Cap |-> caps[c]]
    BY <1>1 DEF Init
  <2>2. QED BY <1>5, <2>1
<1>7. ItemsOwned
  <2>1. SUFFICES ASSUME NEW c \in Cap, NEW t \in Type
                 PROVE  caps[c].items[t] # "absent" <=> Canonical(c) /\ t \in caps[c].asked
    BY DEF ItemsOwned
  <2>2. CASE caps[c] = NoCap
    BY <2>2 DEF Canonical, Made, NoCap, NoItems
  <2>3. ASSUME NEW u \in Url, caps[c] = OldCap(u)
        PROVE  caps[c].items[t] # "absent" <=> Canonical(c) /\ t \in caps[c].asked
    BY <2>3 DEF Canonical, Made, OldCap, NewItems
  <2>4. QED BY <1>2, <2>2, <2>3
<1>8. req \in [Request -> ReqType]
  BY <1>1, NoReqType DEF Init
<1>9. TypeOK
  BY <1>1, <1>6, <1>7, <1>8 DEF Init, TypeOK
<1>10. \A p \in Request : req[p].pc = "idle"
  BY <1>1 DEF Init, NoReq
<1>11. OneLiveCapture
  BY <1>3 DEF OneLiveCapture, Forestalls, Finding, Reached
<1>12. RowsKeyed
  <2>1. ASSUME NEW c \in Cap, Made(c) PROVE urls[caps[c].row] = "legacy"
    <3>1. NoCap.op = "none" /\ \A u \in Url : OldCap(u).row = u
      BY DEF NoCap, OldCap
    <3>2. QED BY <1>1, <2>1, <3>1 DEF Init, Made
  <2>2. QED BY <1>3, <2>1 DEF RowsKeyed
<1>13. EverRight /\ DecisionStands /\ AsksRight /\ LockedApart
  BY <1>4, <1>10 DEF EverRight, DecisionStands, AsksRight, LockedApart, Locked
<1>14. QED BY <1>9, <1>11, <1>12, <1>13 DEF QueueInv

-----------------------------------------------------------------------------
\* A step that changes only requests need only be right about the requests.
LEMMA RequestsOnly ==
    ASSUME QueueInv, UNCHANGED <<urls, caps>>, req' \in [Request -> ReqType],
           LockedApart', DecisionStands', AsksRight'
    PROVE  QueueInv'
BY DEF QueueInv, TypeOK, ItemsOwned, Canonical, Made, RowsKeyed, EverRight, OneLiveCapture,
       Forestalls, Reached

\* A request that ends or gives its locks back disturbs nothing.
LEMMA ReleaseStep ==
    ASSUME QueueInv, NEW p \in Request, UNCHANGED <<urls, caps>>,
           req' = [req EXCEPT ![p] = NoReq]
    PROVE  QueueInv'
<1>1. TypeOK /\ LockedApart /\ DecisionStands /\ AsksRight
  BY DEF QueueInv
<1>2. req' \in [Request -> ReqType]
  BY <1>1, NoReqType DEF TypeOK
<1>3. req'[p].pc = "idle" /\ \A o \in Request : o # p => req'[o] = req[o]
  BY <1>1 DEF TypeOK, NoReq
<1>4. LockedApart'
  BY <1>1, <1>3 DEF LockedApart, Locked, Identity
<1>5. DecisionStands'
  BY <1>1, <1>3 DEF DecisionStands, Serves, Reached, Made
<1>6. AsksRight'
  BY <1>1, <1>3 DEF AsksRight
<1>7. QED BY <1>2, <1>4, <1>5, <1>6, RequestsOnly

\* An arriving request, or one that gets its in-process lock, decides nothing yet.
LEMMA WaitStep ==
    ASSUME QueueInv, NEW p \in Request,
           (\E a \in Ask, u \in Url : Arrive(p, a, u)) \/ LockMutex(p)
    PROVE  QueueInv'
<1>1. TypeOK /\ LockedApart /\ DecisionStands /\ AsksRight
  BY DEF QueueInv
<1>2. UNCHANGED <<urls, caps>> /\ req'[p].pc \in {"mutex", "advisory"}
      /\ \A o \in Request : o # p => req'[o] = req[o]
  <2>1. CASE LockMutex(p)
    BY <1>1, <2>1 DEF LockMutex, Goto, TypeOK
  <2>2. ASSUME NEW a \in Ask, NEW u \in Url, Arrive(p, a, u)
        PROVE  /\ UNCHANGED <<urls, caps>> /\ req'[p].pc = "mutex"
               /\ \A o \in Request : o # p => req'[o] = req[o]
    BY <1>1, <2>2 DEF Arrive, TypeOK
  <2>3. QED BY <2>1, <2>2
<1>3. req' \in [Request -> ReqType] /\ <<req'[p].op, req'[p].types>> \in Ask
  <2>1. CASE LockMutex(p)
    BY <1>1, <2>1 DEF LockMutex, Goto, TypeOK, ReqType, InMutex, Locked, AsksRight
  <2>2. ASSUME NEW a \in Ask, NEW u \in Url, Arrive(p, a, u)
        PROVE  req' \in [Request -> ReqType] /\ <<req'[p].op, req'[p].types>> \in Ask
    <3>1. a[1] \in Op /\ a[2] \subseteq Type /\ a = <<a[1], a[2]>>
      BY QueueAssumption DEF Op
    <3>2. QED BY <1>1, <2>2, <3>1 DEF Arrive, TypeOK, ReqType
  <2>3. QED BY <2>1, <2>2
<1>4. LockedApart'
  BY <1>1, <1>2 DEF LockedApart, Locked, Identity
<1>5. DecisionStands'
  BY <1>1, <1>2 DEF DecisionStands, Serves, Reached, Made
<1>6. AsksRight'
  BY <1>1, <1>2, <1>3 DEF AsksRight
<1>7. QED BY <1>2, <1>3, <1>4, <1>5, <1>6, RequestsOnly

\* The advisory lock lets one request of an identity in.
LEMMA AdvisoryStep ==
    ASSUME QueueInv, NEW p \in Request, LockAdvisory(p)
    PROVE  QueueInv'
<1>1. TypeOK /\ LockedApart /\ DecisionStands /\ AsksRight
  BY DEF QueueInv
<1>2. UNCHANGED <<urls, caps>> /\ req' = [req EXCEPT ![p].pc = "reading"]
      /\ req[p].pc = "advisory"
  BY DEF LockAdvisory, Goto
<1>3. req' \in [Request -> ReqType]
  <2>1. req[p] \in ReqType /\ req \in [Request -> ReqType]
    BY <1>1 DEF TypeOK
  <2>2. [req[p] EXCEPT !.pc = "reading"] \in ReqType
    BY <2>1 DEF ReqType, InMutex, Locked
  <2>3. QED BY <1>2, <2>1, <2>2
<1>4. \A o \in Request : Identity(o)' = Identity(o)
  BY <1>1, <1>2 DEF TypeOK, Identity
<1>5. \A o \in Request : Identity(o) = Identity(p) => req[o].pc \notin Locked
  BY DEF LockAdvisory
<1>6. LockedApart'
  BY <1>1, <1>2, <1>4, <1>5 DEF TypeOK, LockedApart
<1>7. DecisionStands' /\ AsksRight'
  BY <1>1, <1>2 DEF TypeOK, DecisionStands, Serves, AsksRight, Reached, Made
<1>8. QED BY <1>2, <1>3, <1>6, <1>7, RequestsOnly

-----------------------------------------------------------------------------
\* A capture that serves a find-or-create request is a candidate it can join.
LEMMA ServedCanJoin ==
    ASSUME QueueInv, NEW p \in Request, req[p].pc # "idle", req[p].op \in Finding,
           NEW c \in Cap, Serves(c, req[p].url, Needed(req[p].op, req[p].types))
    PROVE  c \in Candidates(req[p].url) /\ Joinable(c, req[p])
<1>1. TypeOK /\ RowsKeyed /\ EverRight /\ AsksRight
  BY DEF QueueInv
<1>2. PICK t \in Needed(req[p].op, req[p].types) : t \in Type
  <2>1. <<req[p].op, req[p].types>> \in Ask
    BY <1>1 DEF AsksRight
  <2>2. QED BY <2>1, QueueAssumption DEF Needed
<1>3. Canonical(c)
  BY <1>1, <1>2 DEF Serves, TypeOK, ItemsOwned
<1>4. caps[c].row \in IdentityRows(req[p].url)
  BY <1>1 DEF RowsKeyed, Serves, IdentityRows, SameIdentity, TypeOK, CapType, Reached, Made
<1>5. c \in Candidates(req[p].url)
  BY <1>3, <1>4 DEF Candidates
<1>6. \A k \in Needed(req[p].op, req[p].types) : caps[c].items[k] \in {"coming", "completed"}
  <2>1. SUFFICES ASSUME NEW k \in Needed(req[p].op, req[p].types)
                 PROVE  caps[c].items[k] \in {"coming", "completed"}
    OBVIOUS
  <2>2. k \in Type
    BY <1>1 DEF TypeOK, ReqType, Needed
  <2>3. caps[c].items[k] \in ItemStatus
    BY <1>1, <2>2 DEF TypeOK, CapType
  <2>4. QED BY <1>1, <2>2, <2>3 DEF Serves, EverRight, ItemStatus
<1>7. Joinable(c, req[p])
  BY <1>6 DEF Joinable, IsGood
<1>8. QED BY <1>5, <1>7

\* Reading the candidates: a find-or-create goes on to create only if nothing
\* serves it.
LEMMA DecideStep ==
    ASSUME QueueInv, NEW p \in Request, Decide(p)
    PROVE  QueueInv'
<1>1. TypeOK /\ LockedApart /\ DecisionStands /\ AsksRight
  BY DEF QueueInv
<1>2. PICK c \in Cap \cup {0} :
        /\ req[p].op \in Finding => Found(c, req[p])
        /\ req' = [req EXCEPT ![p] = [req[p] EXCEPT !.found = c,
             !.pc = IF c # 0 /\ req[p].op \in Finding THEN "reply" ELSE "creating"]]
  BY DEF Decide, Finding
<1>3. req[p].pc = "reading" /\ UNCHANGED <<urls, caps>>
  BY DEF Decide
<1>4. req' \in [Request -> ReqType]
  <2>1. (IF c # 0 /\ req[p].op \in Finding THEN "reply" ELSE "creating") \in InMutex
    BY DEF InMutex, Locked
  <2>2. [req[p] EXCEPT !.found = c,
           !.pc = IF c # 0 /\ req[p].op \in Finding THEN "reply" ELSE "creating"] \in ReqType
    BY <1>1, <2>1 DEF TypeOK, ReqType
  <2>3. QED BY <1>1, <1>2, <2>2 DEF TypeOK
<1>5. /\ \A o \in Request : Identity(o)' = Identity(o) /\ (o # p => req'[o] = req[o])
      /\ req'[p].op = req[p].op /\ req'[p].types = req[p].types /\ req'[p].url = req[p].url
      /\ req'[p].pc = IF c # 0 /\ req[p].op \in Finding THEN "reply" ELSE "creating"
  BY <1>1, <1>2 DEF TypeOK, Identity
<1>6. LockedApart'
  BY <1>1, <1>3, <1>5 DEF LockedApart, Locked
<1>7. AsksRight'
  BY <1>1, <1>3, <1>5 DEF AsksRight
<1>8. ASSUME req'[p].pc = "creating", req[p].op \in Finding,
             NEW d \in Cap, Serves(d, req[p].url, Needed(req[p].op, req[p].types))
      PROVE  FALSE
  <2>1. d \in {e \in Candidates(req[p].url) : Joinable(e, req[p])}
    BY <1>3, <1>8, ServedCanJoin
  <2>2. c = 0
    BY <1>5, <1>8
  <2>3. 0 \notin Cap
    BY CapIds
  <2>4. 0 \notin Candidates(req[p].url)
    BY <2>3 DEF Candidates
  <2>5. QED BY <1>2, <1>8, <2>1, <2>2, <2>4 DEF Found, Newest
<1>9. DecisionStands'
  BY <1>1, <1>3, <1>5, <1>8 DEF DecisionStands, Serves, Reached, Made
<1>10. QED BY <1>3, <1>4, <1>6, <1>7, <1>9, RequestsOnly
-----------------------------------------------------------------------------
\* The commit.  Whatever is created hangs off a row with a canonical identity;
\* a find-or-create adds its capture where, by its decision, nothing served it;
\* and the requests of other identities do not see it.
LEMMA CreateStep ==
    ASSUME QueueInv, NEW p \in Request, Create(p)
    PROVE  QueueInv'
<1>1. TypeOK /\ LockedApart /\ RowsKeyed /\ EverRight /\ DecisionStands /\ AsksRight
      /\ OneLiveCapture
  BY DEF QueueInv
<1>2. PICK n \in Cap :
        /\ \A d \in Cap : Made(d) <=> d < n
        /\ caps' = [caps EXCEPT ![n] =
               [op |-> req[p].op, row |-> req[p].url, asked |-> req[p].types,
                alias |-> req[p].found, ever |-> {}, fresh |-> TRUE,
                items |-> IF req[p].found = 0 THEN NewItems(req[p].types) ELSE NoItems]]
        /\ req' = [req EXCEPT ![p] = IF req[p].found = 0
                                     THEN [req[p] EXCEPT !.pc = "enqueue", !.found = n]
                                     ELSE NoReq]
  BY DEF Create
<1>3. req[p].pc = "creating" /\ urls' = [urls EXCEPT ![req[p].url] = "keyed"]
  BY DEF Create
<1>4. req[p] \in ReqType /\ req[p].op \in Op
  <2>1. <<req[p].op, req[p].types>> \in Ask
    BY <1>1, <1>3 DEF AsksRight
  <2>2. QED BY <1>1, <2>1 DEF TypeOK, Op
<1>5. /\ caps'[n].op = req[p].op /\ caps'[n].row = req[p].url /\ caps'[n].asked = req[p].types
      /\ caps'[n].ever = {} /\ caps'[n].alias = req[p].found
      /\ caps'[n].items = IF req[p].found = 0 THEN NewItems(req[p].types) ELSE NoItems
      /\ \A d \in Cap : d # n => caps'[d] = caps[d]
  BY <1>1, <1>2 DEF TypeOK
<1>6. caps' \in [Cap -> CapType]
  <2>1. (IF req[p].found = 0 THEN NewItems(req[p].types) ELSE NoItems) \in [Type -> ItemStatus]
    BY DEF NewItems, NoItems, ItemStatus
  <2>2. QED BY <1>1, <1>2, <1>4, <2>1 DEF TypeOK, CapType, ReqType
<1>7. req' \in [Request -> ReqType]
  <2>1. [req[p] EXCEPT !.pc = "enqueue", !.found = n] \in ReqType
    BY <1>4 DEF ReqType
  <2>2. QED BY <1>1, <1>2, <2>1, NoReqType DEF TypeOK
<1>8. req[p].op \notin {"none", "old"}
  BY <1>4, QueueAssumption DEF Op
<1>9. ItemsOwned'
  <2>1. SUFFICES ASSUME NEW c \in Cap, NEW t \in Type
                 PROVE  (caps[c].items[t] # "absent" <=> Canonical(c) /\ t \in caps[c].asked)'
    BY DEF ItemsOwned
  <2>2. CASE c # n
    BY <1>1, <1>5, <2>2 DEF TypeOK, ItemsOwned, Canonical, Made
  <2>3. CASE c = n
    BY <1>5, <1>8, <2>3 DEF Canonical, Made, NewItems, NoItems
  <2>4. QED BY <2>2, <2>3
<1>10. TypeOK'
  BY <1>1, <1>3, <1>4, <1>6, <1>7, <1>9 DEF TypeOK, ReqType
<1>11. /\ req'[p].pc \in {"idle", "enqueue"} /\ \A o \in Request : o # p => req'[o] = req[o]
       /\ req'[p].pc # "idle" => req'[p].op = req[p].op /\ req'[p].types = req[p].types
  <2>1. NoReq.pc = "idle"
    BY DEF NoReq
  <2>2. QED BY <1>1, <1>2, <2>1 DEF TypeOK
<1>12. LockedApart' /\ AsksRight'
  BY <1>1, <1>3, <1>11 DEF LockedApart, AsksRight, Locked, Identity
<1>13. RowsKeyed'
  BY <1>1, <1>3, <1>4, <1>5 DEF TypeOK, RowsKeyed, ReqType, CapType, Made
<1>14. EverRight'
  <2>1. \A t \in Type : caps'[n].items[t] \in {"absent", "coming"}
    BY <1>5 DEF NewItems, NoItems
  <2>2. QED BY <1>1, <1>5, <2>1 DEF EverRight
<1>15. DecisionStands'
  <2>1. SUFFICES ASSUME NEW o \in Request, req'[o].pc = "creating", req'[o].op \in Finding,
                        NEW c \in Cap, Serves(c, req[o].url, Needed(req[o].op, req[o].types))'
                 PROVE  FALSE
    BY DEF DecisionStands
  <2>2. o # p /\ req'[o] = req[o]
    BY <1>11, <2>1
  <2>3. Canon[req[o].url] # Canon[req[p].url]
    BY <1>1, <1>3, <2>1, <2>2 DEF LockedApart, Locked, Identity
  <2>4. c # n
    BY <1>5, <2>1, <2>2, <2>3 DEF Serves, SameIdentity
  <2>5. Serves(c, req[o].url, Needed(req[o].op, req[o].types))
    BY <1>5, <2>1, <2>2, <2>4 DEF Serves, Reached, Made
  <2>6. QED BY <1>1, <2>1, <2>2, <2>5 DEF DecisionStands
<1>16. OneLiveCapture'
  <2>1. SUFFICES ASSUME NEW c \in Cap, NEW d \in Cap, caps'[d].op \in Finding,
                        Forestalls(c, d, Needed(caps[d].op, caps[d].asked))'
                 PROVE  FALSE
    BY DEF OneLiveCapture
  <2>2. c < d /\ c \in Nat /\ d \in Nat /\ n \in Nat
    BY <2>1, CapIds DEF Forestalls
  <2>3. CASE d = n
    <3>1. c # n /\ caps'[c] = caps[c]
      BY <1>5, <2>2, <2>3
    <3>2. Serves(c, req[p].url, Needed(req[p].op, req[p].types))
      BY <1>5, <2>1, <2>3, <3>1 DEF Forestalls, Serves, Made, Reached
    <3>3. QED BY <1>1, <1>3, <1>5, <2>1, <2>3, <3>2 DEF DecisionStands
  <2>4. CASE d # n
    <3>1. caps'[d] = caps[d] /\ d < n
      BY <1>2, <1>5, <2>1, <2>4 DEF Forestalls, Made
    <3>2. c # n /\ caps'[c] = caps[c]
      BY <1>5, <2>2, <3>1
    <3>3. Forestalls(c, d, Needed(caps[d].op, caps[d].asked))
      BY <2>1, <3>1, <3>2 DEF Forestalls, Made, Reached
    <3>4. QED BY <1>1, <2>1, <3>1, <3>3 DEF OneLiveCapture
  <2>5. QED BY <2>3, <2>4
<1>17. QED BY <1>10, <1>12, <1>13, <1>14, <1>15, <1>16 DEF QueueInv

-----------------------------------------------------------------------------
\* The startup backfill only adds canonical identities to rows.
LEMMA BackfillStep ==
    ASSUME QueueInv, NEW U \in SUBSET Url, Backfill(U)
    PROVE  QueueInv'
<1>1. urls' \in [Url -> {"absent", "legacy", "keyed"}]
      /\ \A u \in Url : /\ urls[u] = "keyed" => urls'[u] = "keyed"
                        /\ urls[u] # "absent" => urls'[u] # "absent"
  BY DEF QueueInv, TypeOK, Backfill
<1>2. caps' = caps /\ req' = req
  BY DEF Backfill
<1>3. TypeOK'
  BY <1>1, <1>2 DEF QueueInv, TypeOK, ItemsOwned, Canonical, Made
<1>4. RowsKeyed'
  <2>1. \A c \in Cap : caps[c].row \in Url
    BY DEF QueueInv, TypeOK, CapType
  <2>2. SUFFICES ASSUME NEW c \in Cap
                 PROVE  /\ Made(c) => urls'[caps[c].row] # "absent"
                        /\ caps[c].op \notin {"none", "old"} => urls'[caps[c].row] = "keyed"
    BY <1>2 DEF RowsKeyed, Made
  <2>3. /\ Made(c) => urls[caps[c].row] # "absent"
        /\ caps[c].op \notin {"none", "old"} => urls[caps[c].row] = "keyed"
    BY DEF QueueInv, RowsKeyed
  <2>4. QED BY <1>1, <2>1, <2>3, Zenon
<1>5. (LockedApart /\ EverRight /\ DecisionStands /\ AsksRight /\ OneLiveCapture)'
  BY <1>2 DEF QueueInv, LockedApart, Identity, EverRight, DecisionStands, Serves, AsksRight,
              OneLiveCapture, Forestalls, Made, Reached
<1>6. QED BY <1>3, <1>4, <1>5 DEF QueueInv

\* A capture that keeps its fields and only adds to its history serves less.
LEMMA HistoryStep ==
    ASSUME QueueInv, UNCHANGED <<urls, req>>, caps' \in [Cap -> CapType], EverRight',
           \A c \in Cap :
             /\ caps'[c].op = caps[c].op /\ caps'[c].row = caps[c].row
             /\ caps'[c].asked = caps[c].asked /\ caps'[c].alias = caps[c].alias
             /\ caps[c].ever \subseteq caps'[c].ever
             /\ \A t \in Type : caps'[c].items[t] = "absent" <=> caps[c].items[t] = "absent"
    PROVE  QueueInv'
<1>1. ItemsOwned'
  BY DEF QueueInv, TypeOK, ItemsOwned, Canonical, Made
<1>2. TypeOK' /\ RowsKeyed' /\ LockedApart' /\ AsksRight'
  BY <1>1 DEF QueueInv, TypeOK, RowsKeyed, LockedApart, Identity, AsksRight, Made
<1>3. \A p \in Request : Needed(req[p].op, req[p].types) \subseteq Type
  BY DEF QueueInv, TypeOK, ReqType, Needed
<1>4. DecisionStands'
  BY <1>3 DEF QueueInv, DecisionStands, Serves, Reached, Made
<1>5. \A d \in Cap : Needed(caps[d].op, caps[d].asked) \subseteq Type
  BY DEF QueueInv, TypeOK, CapType, Needed
<1>6. OneLiveCapture'
  BY <1>5 DEF QueueInv, OneLiveCapture, Forestalls, Made, Reached
<1>7. QED BY <1>2, <1>4, <1>6 DEF QueueInv

\* Items move as they like; a failure or an incomplete completion is recorded.
LEMMA ItemStep ==
    ASSUME QueueInv, NEW c \in Cap, NEW t \in Type, NEW st \in Moves, ItemMoves(c, t, st)
    PROVE  QueueInv'
<1>1. TypeOK /\ EverRight
  BY DEF QueueInv
<1>2. PICK ev \in SUBSET Type :
        /\ caps[c].ever \subseteq ev /\ (st \in {"failed", "partial"} => t \in ev)
        /\ caps' = [caps EXCEPT ![c] = [caps[c] EXCEPT !.items[t] = st, !.ever = ev]]
  <2>1. caps' = [caps EXCEPT ![c] = [caps[c] EXCEPT !.items[t] = st, !.ever =
                  IF st \in {"failed", "partial"} THEN caps[c].ever \cup {t} ELSE caps[c].ever]]
    BY DEF ItemMoves
  <2>2. QED BY <1>1, <2>1 DEF TypeOK, CapType
<1>3. caps[c].items[t] # "absent" /\ st # "absent" /\ st \in ItemStatus
      /\ UNCHANGED <<urls, req>>
  BY QueueAssumption DEF ItemMoves, ItemStatus
<1>4. /\ caps'[c] = [caps[c] EXCEPT !.items[t] = st, !.ever = ev]
      /\ \A d \in Cap : d # c => caps'[d] = caps[d]
  BY <1>1, <1>2 DEF TypeOK
<1>5. /\ caps'[c] \in CapType /\ caps'[c].ever = ev
      /\ caps'[c].items = [caps[c].items EXCEPT ![t] = st]
      /\ caps'[c].op = caps[c].op /\ caps'[c].row = caps[c].row
      /\ caps'[c].asked = caps[c].asked /\ caps'[c].alias = caps[c].alias
  <2>1. caps[c] \in CapType
    BY <1>1 DEF TypeOK
  <2>2. [caps[c].items EXCEPT ![t] = st] \in [Type -> ItemStatus]
    BY <1>3, <2>1 DEF CapType
  <2>3. caps'[c] = [caps[c] EXCEPT !.items = [caps[c].items EXCEPT ![t] = st], !.ever = ev]
    BY <1>4, <2>1 DEF CapType
  <2>4. caps'[c] \in CapType
    BY <2>1, <2>2, <2>3 DEF CapType
  <2>5. QED BY <2>1, <2>3, <2>4 DEF CapType
<1>6. caps' \in [Cap -> CapType]
  BY <1>1, <1>2, <1>4, <1>5 DEF TypeOK
<1>7. EverRight'
  BY <1>1, <1>2, <1>4, <1>5 DEF TypeOK, CapType, EverRight
<1>8. QED
  BY <1>1, <1>2, <1>3, <1>4, <1>5, <1>6, <1>7, HistoryStep DEF TypeOK, CapType

\* Freshness only matters to aliasing requests.
LEMMA ExpireStep ==
    ASSUME QueueInv, NEW c \in Cap, Expire(c)
    PROVE  QueueInv'
<1>1. TypeOK /\ EverRight
  BY DEF QueueInv
<1>2. caps' = [caps EXCEPT ![c].fresh = FALSE] /\ UNCHANGED <<urls, req>>
  BY DEF Expire
<1>3. caps \in [Cap -> CapType]
  BY <1>1 DEF TypeOK
<1>4. caps' = [caps EXCEPT ![c] = [caps[c] EXCEPT !.fresh = FALSE]]
  BY <1>2, <1>3
<1>5. [caps[c] EXCEPT !.fresh = FALSE] \in CapType
  BY <1>3 DEF CapType
<1>6. \A d \in Cap :
        /\ caps'[d].items = caps[d].items /\ caps'[d].ever = caps[d].ever
        /\ caps'[d].op = caps[d].op /\ caps'[d].row = caps[d].row
        /\ caps'[d].asked = caps[d].asked /\ caps'[d].alias = caps[d].alias
  BY <1>3, <1>4 DEF CapType
<1>7. caps' \in [Cap -> CapType]
  BY <1>3, <1>4, <1>5
<1>8. EverRight'
  BY <1>1, <1>6 DEF EverRight
<1>9. QED BY <1>1, <1>2, <1>3, <1>6, <1>7, <1>8, HistoryStep DEF TypeOK

\* A stopping instance rolls its transactions back and gives its locks up.
LEMMA StopStep ==
    ASSUME QueueInv, NEW n \in Instance, Stop(n)
    PROVE  QueueInv'
<1>1. TypeOK /\ LockedApart /\ DecisionStands /\ AsksRight
  BY DEF QueueInv
<1>2. UNCHANGED <<urls, caps>>
      /\ req' = [p \in Request |-> IF Host[p] = n THEN NoReq ELSE req[p]]
  BY DEF Stop
<1>3. req' \in [Request -> ReqType]
  BY <1>1, <1>2, NoReqType DEF TypeOK
<1>4. \A p \in Request : req'[p].pc = "idle" \/ req'[p] = req[p]
  BY <1>1, <1>2 DEF TypeOK, NoReq
<1>5. LockedApart'
  BY <1>1, <1>4 DEF LockedApart, Locked, Identity
<1>6. DecisionStands' /\ AsksRight'
  BY <1>1, <1>2, <1>4 DEF DecisionStands, Serves, AsksRight, Reached, Made
<1>7. QED BY <1>2, <1>3, <1>5, <1>6, RequestsOnly

-----------------------------------------------------------------------------
\* Every step preserves the invariant.
LEMMA QueueNext == QueueInv /\ [Next]_vars => QueueInv'
<1>1. SUFFICES ASSUME QueueInv, [Next]_vars PROVE QueueInv'
  OBVIOUS
<1>2. ASSUME NEW p \in Request, Transact(p) \/ Enqueue(p) PROVE QueueInv'
  <2>1. CASE LockMutex(p)
    BY <1>1, <2>1, WaitStep
  <2>2. CASE LockAdvisory(p)
    BY <1>1, <2>2, AdvisoryStep
  <2>3. CASE Decide(p)
    BY <1>1, <2>3, DecideStep
  <2>4. CASE Create(p)
    BY <1>1, <2>4, CreateStep
  <2>5. CASE Reply(p) \/ Abort(p) \/ Enqueue(p)
    BY <1>1, <2>5, ReleaseStep DEF Reply, Abort, Enqueue
  <2>6. QED BY <1>2, <2>1, <2>2, <2>3, <2>4, <2>5 DEF Transact
<1>3. CASE \E p \in Request, a \in Ask, u \in Url : Arrive(p, a, u)
  BY <1>1, <1>3, WaitStep
<1>4. CASE (\E n \in Instance : Stop(n)) \/ (\E U \in SUBSET Url : Backfill(U))
  BY <1>1, <1>4, StopStep, BackfillStep
<1>5. CASE \E c \in Cap : Expire(c) \/ \E t \in Type, st \in Moves : ItemMoves(c, t, st)
  BY <1>1, <1>5, ExpireStep, ItemStep
<1>6. CASE UNCHANGED vars
  BY <1>1, <1>6 DEF vars, QueueInv, TypeOK, ItemsOwned, Canonical, Made, LockedApart, Identity,
     RowsKeyed, EverRight, DecisionStands, Serves, AsksRight, OneLiveCapture, Forestalls, Reached
<1>7. QED BY <1>1, <1>2, <1>3, <1>4, <1>5, <1>6 DEF Next

\* The inductive invariant of capture creation.
THEOREM QueueInvariant == Spec => []QueueInv
BY QueueInit, QueueNext, PTL DEF Spec

\* Tables and requests stay well formed; an alias owns no items.
THEOREM QueueTypeCorrect == Spec => []TypeOK
<1>1. QueueInv => TypeOK
  BY DEF QueueInv
<1>2. QED BY <1>1, QueueInvariant, PTL

\* FindOrCreateCapture creates a capture only where none serves its request,
\* whatever spellings, instances, retries and crashes are involved.
THEOREM OneLive == Spec => []OneLiveCapture
<1>1. QueueInv => OneLiveCapture
  BY DEF QueueInv
<1>2. QED BY <1>1, QueueInvariant, PTL

-----------------------------------------------------------------------------
\* A request that is about to make an alias points at a capture of its post that
\* owns the items it asks for; the items may fail meanwhile, but not vanish.
ReuseStands ==
    \A p \in Request : req[p].pc = "creating" /\ req[p].found # 0 =>
        /\ Canonical(req[p].found)
        /\ SameIdentity(caps[req[p].found].row, req[p].url)
        /\ \A t \in req[p].types : caps[req[p].found].items[t] # "absent"

AliasInv == ReuseStands /\ AliasesAreDirect /\ JobsHaveItems

\* Captures keep what an alias relies on: their kind, row, types and items, though
\* not the status of the items.
CapsKept ==
    \A c \in Cap :
        /\ caps'[c].op = caps[c].op /\ caps'[c].row = caps[c].row
        /\ caps'[c].asked = caps[c].asked /\ caps'[c].alias = caps[c].alias
        /\ \A t \in Type : caps'[c].items[t] = "absent" <=> caps[c].items[t] = "absent"

\* Nothing but Create changes the captures in a way an alias could notice.
LEMMA KeepCaps ==
    ASSUME TypeOK, \/ UNCHANGED caps
                   \/ \E c \in Cap : Expire(c) \/ \E t \in Type, st \in Moves : ItemMoves(c, t, st)
    PROVE  CapsKept
<1>1. CASE UNCHANGED caps
  BY <1>1 DEF CapsKept
<1>2. ASSUME NEW c \in Cap, Expire(c) PROVE CapsKept
  BY <1>2 DEF Expire, TypeOK, CapType, CapsKept
<1>3. ASSUME NEW c \in Cap, NEW t \in Type, NEW st \in Moves, ItemMoves(c, t, st)
      PROVE  CapsKept
  <2> DEFINE ev == IF st \in {"failed", "partial"} THEN caps[c].ever \cup {t} ELSE caps[c].ever
  <2>0. caps[c] \in CapType
    BY DEF TypeOK
  <2>1. /\ ev \in SUBSET Type
        /\ caps' = [caps EXCEPT ![c] = [caps[c] EXCEPT
                     !.items = [caps[c].items EXCEPT ![t] = st], !.ever = ev]]
    BY <1>3, <2>0 DEF ItemMoves, CapType
  <2> HIDE DEF ev
  <2>2. caps[c].items[t] # "absent" /\ st # "absent"
    BY <1>3, QueueAssumption DEF ItemMoves
  <2>3. \A d \in Cap : caps[d] \in CapType
    BY DEF TypeOK
  <2>4. QED BY <2>1, <2>2, <2>3 DEF CapType, CapsKept, TypeOK
<1>4. QED BY <1>1, <1>2, <1>3

\* Steps that keep the captures, and start no request on its writes or inserts,
\* keep aliases and pending inserts right.
LEMMA AliasFrame ==
    ASSUME TypeOK, AliasInv, CapsKept,
           \A p \in Request : req'[p] = req[p] \/ req'[p].pc \notin {"creating", "enqueue"}
    PROVE  AliasInv'
<1>1. \A p \in Request : req[p].found \in Cap \cup {0} /\ req[p].types \subseteq Type
  BY DEF TypeOK, ReqType
<1>2. \A c \in Cap : caps[c].alias \in Cap \cup {0} /\ caps[c].asked \subseteq Type
  BY DEF TypeOK, CapType
<1>3. \A c \in Cap : Canonical(c)' <=> Canonical(c)
  BY DEF CapsKept, Canonical, Made
<1>4. ReuseStands'
  BY <1>1, <1>3 DEF AliasInv, ReuseStands, CapsKept, SameIdentity
<1>5. AliasesAreDirect'
  BY <1>2, <1>3 DEF AliasInv, AliasesAreDirect, CapsKept, SameIdentity
<1>6. JobsHaveItems'
  BY <1>1, <1>3 DEF AliasInv, JobsHaveItems, CapsKept
<1>7. QED BY <1>4, <1>5, <1>6 DEF AliasInv

\* What an aliasing request picks is what its alias will need.
LEMMA AliasDecide ==
    ASSUME TypeOK, AliasInv, AsksRight, NEW p \in Request, Decide(p)
    PROVE  AliasInv'
<1>1. PICK c \in Cap \cup {0} :
        /\ req[p].op = "queue" => Reusable(c, req[p])
        /\ req[p].op = "force" => c = 0
        /\ req' = [req EXCEPT ![p] = [req[p] EXCEPT !.found = c,
             !.pc = IF c # 0 /\ req[p].op \in Finding THEN "reply" ELSE "creating"]]
  BY DEF Decide, Finding
<1>2. UNCHANGED <<urls, caps>> /\ req[p].pc = "reading"
  BY DEF Decide
<1>3. /\ req'[p].pc = IF c # 0 /\ req[p].op \in Finding THEN "reply" ELSE "creating"
      /\ req'[p].found = c /\ req'[p].url = req[p].url /\ req'[p].types = req[p].types
      /\ \A o \in Request : o # p => req'[o] = req[o]
  BY <1>1 DEF TypeOK, ReqType
<1>4. req[p].op \in {"queue", "force"} \/ req[p].op \in Finding
  <2>1. <<req[p].op, req[p].types>> \in Ask
    BY <1>2 DEF AsksRight
  <2>2. QED BY <2>1, QueueAssumption DEF Finding
<1>5. ASSUME c # 0, req'[p].pc = "creating"
      PROVE  /\ Canonical(c) /\ SameIdentity(caps[c].row, req[p].url)
             /\ \A t \in req[p].types : caps[c].items[t] # "absent"
  <2>1. Reusable(c, req[p])
    BY <1>1, <1>3, <1>4, <1>5
  <2>2. c \in Candidates(req[p].url) /\ Covers(c, req[p])
    BY <1>5, <2>1 DEF Reusable, Newest
  <2>3. caps[c].row \in Url /\ req[p].url \in Url
    BY <2>2 DEF TypeOK, CapType, ReqType, Candidates
  <2>4. SameIdentity(caps[c].row, req[p].url)
    BY <2>2, <2>3, QueueAssumption DEF Candidates, IdentityRows, SameIdentity
  <2>5. QED BY <2>2, <2>4 DEF Candidates, Covers
<1>6. ReuseStands'
  BY <1>2, <1>3, <1>5 DEF AliasInv, ReuseStands, Canonical, Made, SameIdentity
<1>7. AliasesAreDirect' /\ JobsHaveItems'
  BY <1>2, <1>3 DEF AliasInv, AliasesAreDirect, JobsHaveItems, Canonical, Made, SameIdentity
<1>8. QED BY <1>6, <1>7 DEF AliasInv

\* The commit makes the alias, or the capture whose jobs are inserted next.
LEMMA AliasCreate ==
    ASSUME TypeOK, AliasInv, AsksRight, NEW p \in Request, Create(p)
    PROVE  AliasInv'
<1>1. PICK n \in Cap :
        /\ \A d \in Cap : Made(d) <=> d < n
        /\ caps' = [caps EXCEPT ![n] =
               [op |-> req[p].op, row |-> req[p].url, asked |-> req[p].types,
                alias |-> req[p].found, ever |-> {}, fresh |-> TRUE,
                items |-> IF req[p].found = 0 THEN NewItems(req[p].types) ELSE NoItems]]
        /\ req' = [req EXCEPT ![p] = IF req[p].found = 0
                                     THEN [req[p] EXCEPT !.pc = "enqueue", !.found = n]
                                     ELSE NoReq]
  BY DEF Create
<1>2. req[p].pc = "creating" /\ req[p] \in ReqType
  BY DEF Create, TypeOK
<1>3. /\ caps'[n].op = req[p].op /\ caps'[n].row = req[p].url /\ caps'[n].asked = req[p].types
      /\ caps'[n].alias = req[p].found
      /\ caps'[n].items = IF req[p].found = 0 THEN NewItems(req[p].types) ELSE NoItems
      /\ \A d \in Cap : d # n => caps'[d] = caps[d]
  BY <1>1 DEF TypeOK
<1>4. req[p].op # "none" /\ n # 0 /\ ~Made(n)
  <2>1. <<req[p].op, req[p].types>> \in Ask
    BY <1>2 DEF AsksRight
  <2>2. n \in Nat /\ n # 0
    BY CapIds
  <2>3. QED BY <1>1, <2>1, <2>2, QueueAssumption
<1>5. \A d \in Cap : Canonical(d) => d # n /\ d < n /\ caps'[d] = caps[d] /\ Canonical(d)'
  BY <1>1, <1>3, <1>4 DEF Canonical, Made
<1>6. /\ \A o \in Request : o # p => req'[o] = req[o]
      /\ req[p].found # 0 => req'[p].pc = "idle"
      /\ req[p].found = 0 => /\ req'[p].pc = "enqueue" /\ req'[p].found = n
                             /\ req'[p].types = req[p].types
  BY <1>1, <1>2 DEF TypeOK, NoReq, ReqType
<1>7. ReuseStands'
  <2>1. \A o \in Request : req'[o].pc = "creating" => o # p /\ req'[o] = req[o]
    BY <1>6
  <2>2. \A o \in Request : req[o].found \in Cap \cup {0}
    BY DEF TypeOK, ReqType
  <2>3. QED BY <1>5, <2>1, <2>2 DEF AliasInv, ReuseStands, SameIdentity
<1>8. AliasesAreDirect'
  <2>1. SUFFICES ASSUME NEW d \in Cap, caps'[d].alias # 0
                 PROVE  (/\ caps[d].alias < d /\ Canonical(caps[d].alias)
                         /\ SameIdentity(caps[caps[d].alias].row, caps[d].row)
                         /\ \A t \in caps[d].asked : caps[caps[d].alias].items[t] # "absent")'
    BY DEF AliasesAreDirect
  <2>2. CASE d = n
    <3>1. req[p].found \in Cap /\ req[p].found # 0
      BY <1>2, <1>3, <2>1, <2>2 DEF ReqType
    <3>2. Canonical(req[p].found) /\ SameIdentity(caps[req[p].found].row, req[p].url)
          /\ \A t \in req[p].types : caps[req[p].found].items[t] # "absent"
      BY <1>2, <3>1 DEF AliasInv, ReuseStands
    <3>3. QED BY <1>3, <1>5, <2>2, <3>1, <3>2 DEF SameIdentity
  <2>3. CASE d # n
    <3>1. caps'[d] = caps[d] /\ caps[d].alias \in Cap
      BY <1>3, <2>1, <2>3 DEF TypeOK, CapType
    <3>2. QED BY <1>5, <2>1, <3>1 DEF AliasInv, AliasesAreDirect, SameIdentity
  <2>4. QED BY <2>2, <2>3
<1>9. JobsHaveItems'
  <2>1. SUFFICES ASSUME NEW o \in Request, req'[o].pc = "enqueue"
                 PROVE  (/\ req[o].found # 0 /\ Canonical(req[o].found)
                         /\ \A t \in req[o].types : caps[req[o].found].items[t] # "absent")'
    BY DEF JobsHaveItems
  <2>2. CASE o = p
    <3>1. req[p].found = 0 /\ req'[p].found = n /\ req'[p].types = req[p].types
      BY <1>6, <2>1, <2>2
    <3>2. Canonical(n)'
      BY <1>3, <1>4, <3>1 DEF Canonical, Made
    <3>3. \A t \in req[p].types : caps'[n].items[t] = "coming"
      BY <1>2, <1>3, <3>1 DEF NewItems, ReqType
    <3>4. QED BY <1>4, <2>2, <3>1, <3>2, <3>3
  <2>3. CASE o # p
    <3>1. req'[o] = req[o] /\ req[o].found \in Cap \cup {0}
      BY <1>6, <2>3 DEF TypeOK, ReqType
    <3>2. QED BY <1>5, <2>1, <3>1 DEF AliasInv, JobsHaveItems
  <2>4. QED BY <2>2, <2>3
<1>10. QED BY <1>7, <1>8, <1>9 DEF AliasInv

\* Every other step is a frame.
LEMMA AliasNext == QueueInv /\ AliasInv /\ [Next]_vars => AliasInv'
<1>1. SUFFICES ASSUME QueueInv, AliasInv, [Next]_vars PROVE AliasInv'
  OBVIOUS
<1>2. TypeOK /\ AsksRight
  BY <1>1 DEF QueueInv
<1>3. ASSUME NEW p \in Request, Transact(p) \/ Enqueue(p) PROVE AliasInv'
  <2>1. CASE Decide(p)
    BY <1>1, <1>2, <2>1, AliasDecide
  <2>2. CASE Create(p)
    BY <1>1, <1>2, <2>2, AliasCreate
  <2>3. CASE LockMutex(p) \/ LockAdvisory(p) \/ Reply(p) \/ Abort(p) \/ Enqueue(p)
    <3>1. UNCHANGED caps
      BY <2>3 DEF LockMutex, LockAdvisory, Reply, Abort, Enqueue
    <3>2. \A o \in Request : req'[o] = req[o] \/ req'[o].pc \notin {"creating", "enqueue"}
      BY <1>2, <2>3 DEF LockMutex, LockAdvisory, Goto, Reply, Abort, Enqueue, NoReq, TypeOK, ReqType
    <3>3. CapsKept
      BY <1>2, <3>1, KeepCaps
    <3>4. QED BY <1>1, <1>2, <3>2, <3>3, AliasFrame
  <2>4. QED BY <1>3, <2>1, <2>2, <2>3 DEF Transact
<1>4. ASSUME NEW p \in Request, NEW a \in Ask, NEW u \in Url, Arrive(p, a, u) PROVE AliasInv'
  <2>1. UNCHANGED caps
        /\ \A o \in Request : req'[o] = req[o] \/ req'[o].pc \notin {"creating", "enqueue"}
    BY <1>2, <1>4 DEF Arrive, TypeOK
  <2>2. CapsKept
    BY <1>2, <2>1, KeepCaps
  <2>3. QED BY <1>1, <1>2, <2>1, <2>2, AliasFrame
<1>5. ASSUME NEW n \in Instance, Stop(n) PROVE AliasInv'
  <2>1. UNCHANGED caps
        /\ \A o \in Request : req'[o] = req[o] \/ req'[o].pc \notin {"creating", "enqueue"}
    BY <1>2, <1>5 DEF Stop, TypeOK, NoReq
  <2>2. CapsKept
    BY <1>2, <2>1, KeepCaps
  <2>3. QED BY <1>1, <1>2, <2>1, <2>2, AliasFrame
<1>6. CASE (\E U \in SUBSET Url : Backfill(U)) \/ UNCHANGED vars
  <2>1. UNCHANGED <<caps, req>>
    BY <1>6 DEF Backfill, vars
  <2>2. CapsKept
    BY <1>2, <2>1, KeepCaps
  <2>3. QED BY <1>1, <1>2, <2>1, <2>2, AliasFrame
<1>7. CASE \E c \in Cap : Expire(c) \/ \E t \in Type, st \in Moves : ItemMoves(c, t, st)
  <2>1. UNCHANGED req
    BY <1>7 DEF Expire, ItemMoves
  <2>2. CapsKept
    BY <1>2, <1>7, KeepCaps
  <2>3. QED BY <1>1, <1>2, <2>1, <2>2, AliasFrame
<1>8. QED BY <1>1, <1>3, <1>4, <1>5, <1>6, <1>7 DEF Next

\* No request is under way in an initial state, and no capture is an alias.
LEMMA AliasInit == Init => AliasInv
<1>1. SUFFICES ASSUME Init PROVE AliasInv
  OBVIOUS
<1>2. \A p \in Request : req[p].pc = "idle"
  BY <1>1 DEF Init, NoReq
<1>3. \A c \in Cap : caps[c] = NoCap \/ \E u \in Url : caps[c] = OldCap(u)
  BY <1>1 DEF Init
<1>4. NoCap.alias = 0 /\ \A u \in Url : OldCap(u).alias = 0
  BY DEF NoCap, OldCap
<1>5. \A c \in Cap : caps[c].alias = 0
  BY <1>3, <1>4
<1>6. QED BY <1>2, <1>5 DEF AliasInv, ReuseStands, AliasesAreDirect, JobsHaveItems

\* "Aliases always point directly at a canonical capture, never at another alias":
\* a reader is redirected once, to a capture of the same post with the items asked for.
THEOREM AliasesDirect == Spec => []AliasesAreDirect
<1>1. AliasInv => AliasesAreDirect
  BY DEF AliasInv
<1>2. QED BY <1>1, AliasInit, AliasNext, QueueInvariant, PTL DEF Spec

\* Jobs are inserted only for a committed capture that owns the items they name.
THEOREM JobsNameItems == Spec => []JobsHaveItems
<1>1. AliasInv => JobsHaveItems
  BY DEF AliasInv
<1>2. QED BY <1>1, AliasInit, AliasNext, QueueInvariant, PTL DEF Spec

-----------------------------------------------------------------------------
(* Reuse of fresh captures. *)

\* The captures of the post of u that QueueCapture would look at before c.
After(c, u) == {e \in Cap : c < e /\ Canonical(e) /\ SameIdentity(caps[e].row, u)}

\* A request that is about to start a full archive has seen every fresh capture
\* that covers it pushed out of the newest Limit, and while it holds the lock of
\* its identity none is added.
NoneIsReusable ==
    \A p \in Request : req[p].pc = "creating" /\ req[p].op = "queue" /\ req[p].found = 0 =>
        \A c \in Cap : caps[c].fresh /\ Serves(c, req[p].url, req[p].types) =>
            Cardinality(After(c, req[p].url)) >= Limit

FreshInv == NoneIsReusable /\ FreshIsReused

\* The captures between two of a post are those after the older one, when no
\* other is as new as the newer one.
Between(c, d) == {e \in Cap : /\ c < e /\ e < d /\ Canonical(e)
                             /\ SameIdentity(caps[e].row, caps[d].row)}

\* There are finitely many captures, and the more the larger their number.
LEMMA CapsCount ==
    ASSUME NEW C \in SUBSET Cap, NEW D \in SUBSET C
    PROVE  Cardinality(C) \in Nat /\ Cardinality(D) \in Nat /\ Cardinality(D) <= Cardinality(C)
<1>1. IsFiniteSet(Cap)
  BY QueueAssumption, FS_Interval DEF Cap
<1>2. IsFiniteSet(C)
  BY <1>1, FS_Subset
<1>3. IsFiniteSet(D) /\ Cardinality(D) <= Cardinality(C)
  BY <1>2, FS_Subset
<1>4. QED BY <1>2, <1>3, FS_CardinalityType

\* Captures only grow older and collect failures.
CapsAge == \A c \in Cap : (caps'[c].fresh => caps[c].fresh) /\ caps[c].ever \subseteq caps'[c].ever

LEMMA AgeCaps ==
    ASSUME TypeOK, \/ UNCHANGED caps
                   \/ \E c \in Cap : Expire(c) \/ \E t \in Type, st \in Moves : ItemMoves(c, t, st)
    PROVE  CapsAge
<1>1. CASE UNCHANGED caps
  BY <1>1 DEF CapsAge
<1>2. ASSUME NEW c \in Cap, Expire(c) PROVE CapsAge
  <2>1. caps' = [caps EXCEPT ![c] = [caps[c] EXCEPT !.fresh = FALSE]]
    BY <1>2 DEF Expire, TypeOK, CapType
  <2>2. \A d \in Cap : caps[d] \in CapType
    BY DEF TypeOK
  <2>3. caps'[c].fresh = FALSE /\ caps'[c].ever = caps[c].ever /\ \A d \in Cap : d # c => caps'[d] = caps[d]
    BY <2>1, <2>2 DEF TypeOK, CapType
  <2>4. QED BY <2>3 DEF CapsAge
<1>3. ASSUME NEW c \in Cap, NEW t \in Type, NEW st \in Moves, ItemMoves(c, t, st)
      PROVE  CapsAge
  <2> DEFINE ev == IF st \in {"failed", "partial"} THEN caps[c].ever \cup {t} ELSE caps[c].ever
  <2>2. caps[c] \in CapType
    BY DEF TypeOK
  <2>1. /\ ev \in SUBSET Type /\ caps[c].ever \subseteq ev
        /\ caps' = [caps EXCEPT ![c] = [caps[c] EXCEPT
                        !.items = [caps[c].items EXCEPT ![t] = st], !.ever = ev]]
    BY <1>3, <2>2 DEF ItemMoves, CapType
  <2> HIDE DEF ev
  <2>3. caps'[c].ever = ev /\ caps'[c].fresh = caps[c].fresh /\ \A d \in Cap : d # c => caps'[d] = caps[d]
    BY <2>1, <2>2 DEF CapType, TypeOK
  <2>4. QED BY <2>1, <2>3 DEF CapsAge
<1>4. QED BY <1>1, <1>2, <1>3

\* Steps that create nothing and decide nothing leave every post with the captures
\* it had, no more of them fresh.
LEMMA FreshFrame ==
    ASSUME TypeOK, FreshInv, CapsKept, CapsAge,
           \A p \in Request : req'[p] = req[p] \/ req'[p].pc # "creating"
    PROVE  FreshInv'
<1>1. \A p \in Request : req[p].types \subseteq Type
  BY DEF TypeOK, ReqType
<1>2. \A c \in Cap : caps[c].asked \subseteq Type
  BY DEF TypeOK, CapType
<1>3. \A c \in Cap : (Canonical(c)' <=> Canonical(c)) /\ caps'[c].row = caps[c].row
  BY DEF CapsKept, Canonical, Made
<1>4. NoneIsReusable'
  <2>1. SUFFICES ASSUME NEW p \in Request, req'[p].pc = "creating", req'[p].op = "queue", req'[p].found = 0,
                        NEW c \in Cap, caps'[c].fresh, Serves(c, req[p].url, req[p].types)'
                 PROVE  (Cardinality(After(c, req[p].url)) >= Limit)'
    BY DEF NoneIsReusable
  <2>2. req'[p] = req[p]
    BY <2>1
  <2>3. Serves(c, req[p].url, req[p].types) /\ caps[c].fresh
    BY <1>1, <2>1, <2>2 DEF CapsKept, CapsAge, Serves, SameIdentity, Reached, Made
  <2>4. After(c, req[p].url)' = After(c, req[p].url)
    BY <1>3, <2>2 DEF After, SameIdentity
  <2>5. QED BY <2>1, <2>2, <2>3, <2>4 DEF FreshInv, NoneIsReusable
<1>5. FreshIsReused'
  <2>1. SUFFICES ASSUME NEW c \in Cap, NEW d \in Cap, caps'[d].op = "queue", caps'[d].alias = 0,
                        caps'[c].fresh, Forestalls(c, d, caps[d].asked)'
                 PROVE  Cardinality(Between(c, d)') >= Limit
    BY DEF FreshIsReused, Between
  <2>2. Forestalls(c, d, caps[d].asked) /\ caps[c].fresh
    BY <1>2, <2>1 DEF CapsKept, CapsAge, Forestalls, Made, SameIdentity, Reached
  <2>3. Between(c, d)' = Between(c, d)
    BY <1>3 DEF Between, SameIdentity
  <2>4. caps[d].op = "queue" /\ caps[d].alias = 0
    BY <2>1 DEF CapsKept
  <2>5. QED BY <2>2, <2>3, <2>4 DEF FreshInv, FreshIsReused, Between
<1>6. QED BY <1>4, <1>5 DEF FreshInv

\* QueueCapture decides for a full archive only when what could serve it is out
\* of the newest Limit candidates.
LEMMA FreshDecide ==
    ASSUME QueueInv, FreshInv, NEW p \in Request, Decide(p)
    PROVE  FreshInv'
<1>1. TypeOK /\ RowsKeyed /\ EverRight /\ AsksRight
  BY DEF QueueInv
<1>2. PICK k \in Cap \cup {0} :
        /\ req[p].op = "queue" => Reusable(k, req[p])
        /\ req' = [req EXCEPT ![p] = [req[p] EXCEPT !.found = k,
             !.pc = IF k # 0 /\ req[p].op \in Finding THEN "reply" ELSE "creating"]]
  BY DEF Decide, Finding
<1>3. UNCHANGED <<urls, caps>> /\ req[p].pc = "reading"
  BY DEF Decide
<1>4. /\ req'[p].op = req[p].op /\ req'[p].found = k /\ req'[p].url = req[p].url /\ req'[p].types = req[p].types
      /\ \A o \in Request : o # p => req'[o] = req[o]
  BY <1>1, <1>2 DEF TypeOK, ReqType
<1>5. ASSUME req[p].op = "queue", k = 0,
             NEW c \in Cap, caps[c].fresh, Serves(c, req[p].url, req[p].types)
      PROVE  Cardinality(After(c, req[p].url)) >= Limit
  <2> DEFINE F == {d \in Candidates(req[p].url) : caps[d].fresh}
             newer == {e \in F : e > c}
  <2>1. <<req[p].op, req[p].types>> \in Ask
    BY <1>1, <1>3 DEF AsksRight
  <2>2. PICK t \in req[p].types : t \in Type
    BY <2>1, QueueAssumption
  <2>3. Canonical(c)
    BY <1>1, <1>5, <2>2 DEF Serves, TypeOK, ItemsOwned
  <2>4. caps[c].row \in IdentityRows(req[p].url)
    BY <1>1, <1>5 DEF RowsKeyed, Serves, IdentityRows, SameIdentity, TypeOK, CapType, Reached, Made
  <2>5. c \in F
    BY <1>5, <2>3, <2>4 DEF Candidates
  <2>6. Covers(c, req[p])
    BY <1>1, <1>5 DEF Covers, Serves, EverRight, TypeOK, ReqType
  <2>7. 0 \notin Cap
    BY CapIds
  <2>8. ~(Cardinality(newer) < Limit)
    <3>1. SUFFICES ASSUME Cardinality(newer) < Limit PROVE FALSE
      OBVIOUS
    <3>2. c \in {d \in {f \in F : Cardinality({e \in F : e > f}) < Limit} : Covers(d, req[p])}
      BY <2>5, <2>6, <3>1
    <3>3. \A d \in Candidates(req[p].url) : d \in Cap
      BY DEF Candidates
    <3>4. QED BY <1>2, <1>5, <2>7, <3>2, <3>3 DEF Reusable, Newest
  <2>9. newer \subseteq After(c, req[p].url)
    <3>1. SUFFICES ASSUME NEW e \in newer PROVE e \in After(c, req[p].url)
      OBVIOUS
    <3>2. e \in Cap /\ Canonical(e) /\ caps[e].row \in IdentityRows(req[p].url) /\ e > c
      BY DEF Candidates
    <3>3. caps[e].row \in Url /\ req[p].url \in Url
      BY <1>1, <3>2 DEF TypeOK, CapType, ReqType
    <3>4. SameIdentity(caps[e].row, req[p].url)
      BY <3>2, <3>3, QueueAssumption DEF IdentityRows, SameIdentity
    <3>5. c < e
      BY <3>2, CapIds
    <3>6. QED BY <3>2, <3>4, <3>5 DEF After
  <2>10. After(c, req[p].url) \in SUBSET Cap
    BY DEF After
  <2>11. Cardinality(newer) \in Nat /\ Cardinality(After(c, req[p].url)) \in Nat
         /\ Cardinality(newer) <= Cardinality(After(c, req[p].url))
    BY <2>9, <2>10, CapsCount
  <2> HIDE DEF newer
  <2>12. QED BY <2>8, <2>11, QueueAssumption
<1>6. NoneIsReusable'
  <2>1. SUFFICES ASSUME NEW o \in Request, req'[o].pc = "creating", req'[o].op = "queue", req'[o].found = 0,
                        NEW c \in Cap, caps[c].fresh, Serves(c, req[o].url, req[o].types)'
                 PROVE  Cardinality(After(c, req[o].url)') >= Limit
    BY <1>3 DEF NoneIsReusable
  <2>2. req'[o].url = req[o].url /\ req'[o].types = req[o].types
    BY <1>4
  <2>3. Serves(c, req[o].url, req[o].types)
    BY <1>3, <2>1, <2>2 DEF Serves, SameIdentity, Reached, Made
  <2>4. After(c, req[o].url)' = After(c, req[o].url)
    BY <1>3, <2>2 DEF After, Canonical, Made, SameIdentity
  <2>5. CASE o = p
    BY <1>4, <1>5, <2>1, <2>3, <2>4, <2>5
  <2>6. CASE o # p
    BY <1>4, <2>1, <2>3, <2>4, <2>6 DEF FreshInv, NoneIsReusable
  <2>7. QED BY <2>5, <2>6
<1>7. FreshIsReused'
  BY <1>3 DEF FreshInv, FreshIsReused, Forestalls, Made, Canonical, SameIdentity, Reached
<1>8. QED BY <1>6, <1>7 DEF FreshInv

\* A commit adds the newest capture, to its own post only.
LEMMA FreshCreate ==
    ASSUME QueueInv, FreshInv, NEW p \in Request, Create(p)
    PROVE  FreshInv'
<1>1. TypeOK /\ LockedApart
  BY DEF QueueInv
<1>2. PICK n \in Cap :
        /\ \A d \in Cap : Made(d) <=> d < n
        /\ caps' = [caps EXCEPT ![n] =
               [op |-> req[p].op, row |-> req[p].url, asked |-> req[p].types,
                alias |-> req[p].found, ever |-> {}, fresh |-> TRUE,
                items |-> IF req[p].found = 0 THEN NewItems(req[p].types) ELSE NoItems]]
        /\ req' = [req EXCEPT ![p] = IF req[p].found = 0
                                     THEN [req[p] EXCEPT !.pc = "enqueue", !.found = n]
                                     ELSE NoReq]
  BY DEF Create
<1>3. req[p].pc = "creating"
  BY DEF Create
<1>4. /\ caps'[n].op = req[p].op /\ caps'[n].row = req[p].url /\ caps'[n].asked = req[p].types
      /\ caps'[n].alias = req[p].found
      /\ \A d \in Cap : d # n => caps'[d] = caps[d]
  BY <1>1, <1>2 DEF TypeOK
<1>5. req'[p].pc # "creating" /\ \A o \in Request : o # p => req'[o] = req[o]
  BY <1>1, <1>2 DEF TypeOK, NoReq, ReqType
<1>6. \A d \in Cap : d \in Nat
  BY CapIds
<1>7. \A d \in Cap : d # n => (Canonical(d)' <=> Canonical(d)) /\ caps'[d] = caps[d]
  BY <1>4 DEF Canonical, Made
<1>8. \A d \in Cap : Canonical(d) => d < n
  BY <1>2 DEF Canonical
<1>9. NoneIsReusable'
  <2>1. SUFFICES ASSUME NEW o \in Request, req'[o].pc = "creating", req'[o].op = "queue", req'[o].found = 0,
                        NEW c \in Cap, caps'[c].fresh, Serves(c, req[o].url, req[o].types)'
                 PROVE  Cardinality(After(c, req[o].url)') >= Limit
    BY DEF NoneIsReusable
  <2>2. o # p /\ req'[o] = req[o]
    BY <1>5, <2>1
  <2>3. Canon[req[o].url] # Canon[req[p].url]
    BY <1>1, <1>3, <2>1, <2>2 DEF LockedApart, Locked, Identity
  <2>4. c # n
    BY <1>4, <2>1, <2>2, <2>3 DEF Serves, SameIdentity
  <2>5. Serves(c, req[o].url, req[o].types) /\ caps[c].fresh
    BY <1>7, <2>1, <2>2, <2>4 DEF Serves, Reached, Made
  <2>6. \A e \in Cap : /\ c < e /\ Canonical(e)' /\ SameIdentity(caps'[e].row, req[o].url)
                     <=> c < e /\ Canonical(e) /\ SameIdentity(caps[e].row, req[o].url)
    <3>1. ~Canonical(n)
      BY <1>6, <1>8
    <3>2. ~SameIdentity(caps'[n].row, req[o].url)
      BY <1>4, <2>3 DEF SameIdentity
    <3>3. QED BY <1>7, <3>1, <3>2
  <2>7. After(c, req[o].url)' = After(c, req[o].url)
    BY <2>2, <2>6 DEF After, SameIdentity
  <2>8. QED BY <2>1, <2>2, <2>5, <2>7 DEF FreshInv, NoneIsReusable
<1>10. FreshIsReused'
  <2>1. SUFFICES ASSUME NEW c \in Cap, NEW d \in Cap, caps'[d].op = "queue", caps'[d].alias = 0,
                        caps'[c].fresh, Forestalls(c, d, caps[d].asked)'
                 PROVE  Cardinality(Between(c, d)') >= Limit
    BY DEF FreshIsReused, Between
  <2>2. c < d /\ (d = n \/ d < n) /\ c < n /\ c # n
    <3>1. c < d
      BY <2>1 DEF Forestalls
    <3>2. d # n => d < n
      BY <1>2, <1>4, <2>1 DEF Forestalls, Made
    <3>3. QED BY <1>6, <3>1, <3>2
  <2>3. CASE d = n
    <3>1. req[p].op = "queue" /\ req[p].found = 0
      BY <1>4, <2>1, <2>3
    <3>2. Serves(c, req[p].url, req[p].types) /\ caps[c].fresh
      BY <1>4, <1>7, <2>1, <2>2, <2>3 DEF Forestalls, Serves, Made, Reached
    <3>3. Cardinality(After(c, req[p].url)) >= Limit
      BY <1>3, <3>1, <3>2 DEF FreshInv, NoneIsReusable
    <3>4. \A e \in Cap : /\ c < e /\ e < n /\ Canonical(e)' /\ SameIdentity(caps'[e].row, caps'[n].row)
                       <=> c < e /\ Canonical(e) /\ SameIdentity(caps[e].row, req[p].url)
      <4>1. \A e \in Cap : e < n => e # n
        BY <1>6
      <4>2. QED BY <1>4, <1>7, <1>8, <4>1
    <3>5. Between(c, n)' = After(c, req[p].url)
      BY <3>4 DEF Between, After, SameIdentity
    <3>6. QED BY <2>3, <3>3, <3>5
  <2>4. CASE d # n
    <3>1. d < n /\ caps'[d] = caps[d] /\ caps'[c] = caps[c]
      BY <1>7, <2>2, <2>4
    <3>2. Forestalls(c, d, caps[d].asked)
      BY <2>1, <3>1 DEF Forestalls, Made, Reached
    <3>3. \A e \in Cap : e < d => e # n
      BY <1>6, <3>1
    <3>4. Between(c, d)' = Between(c, d)
      BY <1>7, <3>1, <3>3 DEF Between, SameIdentity
    <3>5. QED BY <2>1, <3>1, <3>2, <3>4 DEF FreshInv, FreshIsReused, Between
  <2>5. QED BY <2>3, <2>4
<1>11. QED BY <1>9, <1>10 DEF FreshInv

\* Every other step is a frame.
LEMMA FreshNext == QueueInv /\ FreshInv /\ [Next]_vars => FreshInv'
<1>1. SUFFICES ASSUME QueueInv, FreshInv, [Next]_vars PROVE FreshInv'
  OBVIOUS
<1>2. TypeOK
  BY <1>1 DEF QueueInv
<1>3. ASSUME NEW p \in Request, Transact(p) \/ Enqueue(p) PROVE FreshInv'
  <2>1. CASE Decide(p)
    BY <1>1, <2>1, FreshDecide
  <2>2. CASE Create(p)
    BY <1>1, <2>2, FreshCreate
  <2>3. CASE LockMutex(p) \/ LockAdvisory(p) \/ Reply(p) \/ Abort(p) \/ Enqueue(p)
    <3>1. UNCHANGED caps
      BY <2>3 DEF LockMutex, LockAdvisory, Reply, Abort, Enqueue
    <3>2. \A o \in Request : req'[o] = req[o] \/ req'[o].pc # "creating"
      BY <1>2, <2>3 DEF LockMutex, LockAdvisory, Goto, Reply, Abort, Enqueue, NoReq, TypeOK, ReqType
    <3>3. QED BY <1>1, <1>2, <3>1, <3>2, KeepCaps, AgeCaps, FreshFrame
  <2>4. QED BY <1>3, <2>1, <2>2, <2>3 DEF Transact
<1>4. ASSUME NEW p \in Request, NEW a \in Ask, NEW u \in Url, Arrive(p, a, u) PROVE FreshInv'
  <2>1. UNCHANGED caps /\ \A o \in Request : req'[o] = req[o] \/ req'[o].pc # "creating"
    BY <1>2, <1>4 DEF Arrive, TypeOK
  <2>2. QED BY <1>1, <1>2, <2>1, KeepCaps, AgeCaps, FreshFrame
<1>5. ASSUME NEW n \in Instance, Stop(n) PROVE FreshInv'
  <2>1. UNCHANGED caps /\ \A o \in Request : req'[o] = req[o] \/ req'[o].pc # "creating"
    BY <1>2, <1>5 DEF Stop, TypeOK, NoReq
  <2>2. QED BY <1>1, <1>2, <2>1, KeepCaps, AgeCaps, FreshFrame
<1>6. CASE (\E U \in SUBSET Url : Backfill(U)) \/ UNCHANGED vars
  <2>1. UNCHANGED <<caps, req>>
    BY <1>6 DEF Backfill, vars
  <2>2. QED BY <1>1, <1>2, <2>1, KeepCaps, AgeCaps, FreshFrame
<1>7. CASE \E c \in Cap : Expire(c) \/ \E t \in Type, st \in Moves : ItemMoves(c, t, st)
  <2>1. UNCHANGED req
    BY <1>7 DEF Expire, ItemMoves
  <2>2. QED BY <1>1, <1>2, <1>7, <2>1, KeepCaps, AgeCaps, FreshFrame
<1>8. QED BY <1>1, <1>3, <1>4, <1>5, <1>6, <1>7 DEF Next

\* No capture of a database that starts was made by a request.
LEMMA FreshInit == Init => FreshInv
<1>1. SUFFICES ASSUME Init PROVE FreshInv
  OBVIOUS
<1>2. \A p \in Request : req[p].pc = "idle"
  BY <1>1 DEF Init, NoReq
<1>3. \A c \in Cap : caps[c] = NoCap \/ \E u \in Url : caps[c] = OldCap(u)
  BY <1>1 DEF Init
<1>4. NoCap.op = "none" /\ \A u \in Url : OldCap(u).op = "old"
  BY DEF NoCap, OldCap
<1>5. \A c \in Cap : caps[c].op # "queue"
  BY <1>3, <1>4
<1>6. QED BY <1>2, <1>5 DEF FreshInv, NoneIsReusable, FreshIsReused

\* QueueCapture starts a full archive beside a fresh capture that covers its
\* types only when Limit newer ones of the post stand before it, whatever
\* spellings, instances, failures and crashes are involved.
THEOREM FreshReused == Spec => []FreshIsReused
<1>1. FreshInv => FreshIsReused
  BY DEF FreshInv
<1>2. QED BY <1>1, FreshInit, FreshNext, QueueInvariant, PTL DEF Spec

=============================================================================
