---------------------------- MODULE CaptureQueue ----------------------------
(***************************************************************************)
(* Creating captures: QueueCapture and FindOrCreateCapture, run by several *)
(* requests of several app instances on one database.  Each decides, in a  *)
(* transaction serialized on the canonical identity of its URL, between    *)
(* reusing a capture, aliasing one, and creating one; jobs are inserted    *)
(* only after the commit.  Items meanwhile change status under the feet of *)
(* the decision, as ItemLifecycle lets them.                               *)
(***************************************************************************)
EXTENDS Naturals, FiniteSets

CONSTANTS
    Url,        \* submitted spellings; a canonical identity is a spelling too
    Canon,      \* CanonicalizeArchiveURL
    Hash,       \* hashtext of a canonical identity
    Type,       \* archive types, in canonical form
    Media,      \* the media types of a social post
    Moves,      \* bound: the statuses an item may move to
    Ask,        \* what requests ask for: <<kind of request, archive types>>
    Instance,   \* app instances on the same database
    Request,    \* requests in progress at one time
    Host,       \* the instance that serves a request
    MaxCap,     \* bound: captures
    Limit       \* candidates an aliasing request looks at (10)

ASSUME QueueAssumption ==
    /\ Url # {}
    /\ Canon \in [Url -> Url] /\ \A u \in Url : Canon[Canon[u]] = Canon[u]
    /\ DOMAIN Hash = Url
    /\ Media \subseteq Type
    /\ Moves \subseteq {"coming", "completed", "partial", "failed"}
    /\ Ask \subseteq {"queue", "force", "find", "social"} \X ((SUBSET Type) \ {{}})
    /\ \A a \in Ask : a[1] = "social" => a[2] \cap Media # {}
    /\ Host \in [Request -> Instance]
    /\ MaxCap \in Nat /\ Limit \in Nat \ {0}

VARIABLES
    urls,     \* archived_urls: per spelling no row, one without canonical_url, or one with it
    caps,     \* captures with their archive_items
    req       \* the requests in progress

vars == <<urls, caps, req>>

Cap == 1..MaxCap
Op == {a[1] : a \in Ask}
Finding == {"find", "social"}
Locked == {"reading", "creating", "reply"}   \* holds the advisory lock
InMutex == Locked \cup {"advisory"}          \* holds the in-process lock

-----------------------------------------------------------------------------
(* Captures.  op: the kind of request that made it ("old": before canonical *)
(* identities existed); asked: the types it was asked for; alias: the       *)
(* capture it is an alias of, or 0; ever: the types whose item has failed   *)
(* or completed incomplete at some time (history); fresh: within            *)
(* capture_freshness_window.  An item is "coming" while it is pending or     *)
(* processing; one that completed without its complete media or sidecars is *)
(* "partial".                                                               *)

ItemStatus == {"absent", "coming", "completed", "partial", "failed"}

NoItems == [t \in Type |-> "absent"]
NewItems(T) == [t \in Type |-> IF t \in T THEN "coming" ELSE "absent"]

NoCap == [op |-> "none", row |-> CHOOSE u \in Url : TRUE, asked |-> {}, alias |-> 0,
          items |-> NoItems, ever |-> {}, fresh |-> FALSE]

OldCap(u) == [op |-> "old", row |-> u, asked |-> Type, alias |-> 0,
              items |-> NewItems(Type), ever |-> {}, fresh |-> FALSE]

Made(c) == caps[c].op # "none"
Canonical(c) == Made(c) /\ caps[c].alias = 0
SameIdentity(u, v) == Canon[u] = Canon[v]
Newest(c, C) == c \in C /\ \A d \in C : d <= c

\* findOrCreateCriteriaFor: a default social request is settled by its media.
Needed(op, T) == IF op = "social" THEN T \cap Media ELSE T

-----------------------------------------------------------------------------
(* The reads of the transaction.                                            *)

IdentityRows_exact(u) == {v \in {u} : urls[v] # "absent"}   \* mutant: the spelling only

IdentityRows(u) ==
    {v \in Url : \/ urls[v] = "keyed" /\ SameIdentity(u, v)
                 \/ urls[v] # "absent" /\ v \in {u, Canon[u]}}

Candidates(u) == {c \in Cap : Canonical(c) /\ caps[c].row \in IdentityRows(u)}

IsGood(op, st) == st = "completed" \/ (st = "partial" /\ op # "social")

\* captureStatusForTypes
Settled(c, q) == \A t \in Needed(q.op, q.types) : IsGood(q.op, caps[c].items[t])

Joinable(c, q) ==
    \A t \in Needed(q.op, q.types) :
        IsGood(q.op, caps[c].items[t]) \/ caps[c].items[t] = "coming"

\* findFindOrCreateCandidate.  The completed candidate finished last; which one
\* that is depends on times the model does not keep.
Found(c, q) ==
    LET J == {d \in Candidates(q.url) : Joinable(d, q)}
        S == {d \in J : Settled(d, q)}
    IN  IF S # {} THEN c \in S ELSE IF J # {} THEN Newest(c, J) ELSE c = 0

\* captureCoversTypes, findReusableCapture
Covers_missingOk(c, q) ==   \* mutant: a type without an item counts as covered
    \A t \in q.types : caps[c].items[t] # "failed"

Covers(c, q) == \A t \in q.types : caps[c].items[t] \notin {"absent", "failed"}

Reusable(c, q) ==
    LET F == {d \in Candidates(q.url) : caps[d].fresh}
        L == {d \in F : Cardinality({e \in F : e > d}) < Limit}
        R == {d \in L : Covers(d, q)}
    IN  IF R # {} THEN Newest(c, R) ELSE c = 0

-----------------------------------------------------------------------------
(* A request.                                                               *)

NoReq == [pc |-> "idle", op |-> "none", url |-> NoCap.row, types |-> {}, found |-> 0]

Pending == {p \in Request : req[p].pc \notin {"idle", "enqueue"}}
Goto(p, pc) == req' = [req EXCEPT ![p].pc = pc]
Identity(p) == Canon[req[p].url]

\* The request arrives and goes for the lock of its identity.  A default request
\* for a social post is of kind "social" if its types include a media type.
Arrive(p, a, u) ==
    /\ req[p].pc = "idle"
    /\ Cardinality(Pending) + Cardinality({c \in Cap : Made(c)}) < MaxCap
    /\ req' = [req EXCEPT ![p] = [pc |-> "mutex", op |-> a[1], url |-> u,
                                  types |-> a[2], found |-> 0]]
    /\ UNCHANGED <<urls, caps>>

\* captureIdentityLocks.acquire: IdentityLock shows it to be a plain mutex.
LockMutex(p) ==
    /\ req[p].pc = "mutex"
    /\ \A o \in Request : Host[o] = Host[p] /\ Identity(o) = Identity(p)
                            => req[o].pc \notin InMutex
    /\ Goto(p, "advisory")
    /\ UNCHANGED <<urls, caps>>

LockAdvisory_raw(p) ==   \* mutant: the lock is keyed on the submitted spelling
    /\ req[p].pc = "advisory"
    /\ \A o \in Request : Hash[req[o].url] = Hash[req[p].url] => req[o].pc \notin Locked
    /\ Goto(p, "reading")
    /\ UNCHANGED <<urls, caps>>

LockAdvisory_yields(p) ==   \* mutant: those who only wait for the lock count as holders
    /\ req[p].pc = "advisory"
    /\ \A o \in Request \ {p} : Hash[Identity(o)] = Hash[Identity(p)] => req[o].pc \notin InMutex
    /\ Goto(p, "reading")
    /\ UNCHANGED <<urls, caps>>

\* pg_advisory_xact_lock(hashtext(identity)): across instances, to the commit.
LockAdvisory(p) ==
    /\ req[p].pc = "advisory"
    /\ \A o \in Request : Hash[Identity(o)] = Hash[Identity(p)] => req[o].pc \notin Locked
    /\ Goto(p, "reading")
    /\ UNCHANGED <<urls, caps>>

\* loadIdentityRows and the candidate queries.  Only holders of the lock add
\* captures of the identity, so one snapshot stands for the three queries.
Decide(p) ==
    /\ req[p].pc = "reading"
    /\ \E c \in Cap \cup {0} :
         /\ CASE req[p].op \in Finding -> Found(c, req[p])
              [] req[p].op = "queue"   -> Reusable(c, req[p])
              [] req[p].op = "force"   -> c = 0
         /\ req' = [req EXCEPT ![p] = [req[p] EXCEPT !.found = c,
                !.pc = IF c # 0 /\ req[p].op \in Finding THEN "reply" ELSE "creating"]]
    /\ UNCHANGED <<urls, caps>>

\* FindOrCreateCapture answers with the capture it found; the read-only
\* transaction ends and the locks are free.
Reply(p) ==
    /\ req[p].pc = "reply"
    /\ req' = [req EXCEPT ![p] = NoReq]
    /\ UNCHANGED <<urls, caps>>

Create_itemsOfAlias(p) ==   \* mutant: an alias gets items and jobs of its own
    /\ req[p].pc = "creating"
    /\ \E c \in Cap :
         /\ \A d \in Cap : Made(d) <=> d < c
         /\ caps' = [caps EXCEPT ![c] =
                [op |-> req[p].op, row |-> req[p].url, asked |-> req[p].types,
                 alias |-> req[p].found, ever |-> {}, fresh |-> TRUE,
                 items |-> NewItems(req[p].types)]]
         /\ req' = [req EXCEPT ![p] = [req[p] EXCEPT !.pc = "enqueue", !.found = c]]
    /\ urls' = [urls EXCEPT ![req[p].url] = "keyed"]

\* The writes of the transaction, visible to others from its commit on: the row
\* of the spelling (made, or healed if it has no canonical_url), the capture,
\* and the items unless it is an alias.
Create(p) ==
    /\ req[p].pc = "creating"
    /\ \E c \in Cap :
         /\ \A d \in Cap : Made(d) <=> d < c
         /\ caps' = [caps EXCEPT ![c] =
                [op |-> req[p].op, row |-> req[p].url, asked |-> req[p].types,
                 alias |-> req[p].found, ever |-> {}, fresh |-> TRUE,
                 items |-> IF req[p].found = 0 THEN NewItems(req[p].types) ELSE NoItems]]
         /\ req' = [req EXCEPT ![p] = IF req[p].found = 0
                                      THEN [req[p] EXCEPT !.pc = "enqueue", !.found = c]
                                      ELSE NoReq]
    /\ urls' = [urls EXCEPT ![req[p].url] = "keyed"]

\* enqueueCaptureJobs, after the commit; ArchivePipeline has the jobs, and what
\* a failed insert or a crash in the loop leaves behind.
Enqueue(p) ==
    /\ req[p].pc = "enqueue"
    /\ req' = [req EXCEPT ![p] = NoReq]
    /\ UNCHANGED <<urls, caps>>

\* A statement fails: the transaction rolls back and the request with it.
Abort(p) ==
    /\ req[p].pc \in InMutex
    /\ req' = [req EXCEPT ![p] = NoReq]
    /\ UNCHANGED <<urls, caps>>

-----------------------------------------------------------------------------
(* Around the requests.                                                     *)

\* An instance stops: its transactions roll back, its locks are gone.
Stop(n) ==
    /\ \E p \in Request : Host[p] = n /\ req[p].pc # "idle"
    /\ req' = [p \in Request |-> IF Host[p] = n THEN NoReq ELSE req[p]]
    /\ UNCHANGED <<urls, caps>>

\* backfillCanonicalURLs of an instance that starts: a batch of old rows.
Backfill(U) ==
    /\ U # {} /\ \A u \in U : urls[u] = "legacy"
    /\ urls' = [u \in Url |-> IF u \in U THEN "keyed" ELSE urls[u]]
    /\ UNCHANGED <<caps, req>>

\* Workers, cleanup and retries: ItemLifecycle allows every change of an item.
ItemMoves(c, t, st) ==
    /\ caps[c].items[t] \notin {"absent", st}
    /\ caps' = [caps EXCEPT ![c] = [caps[c] EXCEPT !.items[t] = st,
                !.ever = IF st \in {"failed", "partial"} THEN @ \cup {t} ELSE @]]
    /\ UNCHANGED <<urls, req>>

Expire(c) ==
    /\ caps[c].fresh /\ \A d \in Cap : d < c => ~caps[d].fresh
    /\ caps' = [caps EXCEPT ![c].fresh = FALSE]
    /\ UNCHANGED <<urls, req>>

-----------------------------------------------------------------------------
\* An old database may hold rows without canonical_url, and a capture of one.
Init ==
    /\ urls \in [Url -> {"absent", "legacy"}]
    /\ \/ caps = [c \in Cap |-> NoCap]
       \/ \E u \in Url : /\ urls[u] = "legacy" /\ MaxCap > 0
                         /\ caps = [c \in Cap |-> IF c = 1 THEN OldCap(u) ELSE NoCap]
    /\ req = [p \in Request |-> NoReq]

Transact(p) == LockMutex(p) \/ LockAdvisory(p) \/ Decide(p) \/ Create(p) \/ Reply(p) \/ Abort(p)

Next ==
    \/ \E p \in Request :
         \/ Transact(p) \/ Enqueue(p)
         \/ \E a \in Ask, u \in Url : Arrive(p, a, u)
    \/ \E n \in Instance : Stop(n)
    \/ \E U \in SUBSET Url : Backfill(U)
    \/ \E c \in Cap : Expire(c) \/ \E t \in Type, st \in Moves : ItemMoves(c, t, st)

Spec == Init /\ [][Next]_vars

\* Go mutexes and PostgreSQL lock queues serve their waiters in turn (strong
\* fairness); a request that may go on does (weak fairness).
Fairness ==
    \A p \in Request :
        /\ SF_vars(LockMutex(p)) /\ SF_vars(LockAdvisory(p))
        /\ WF_vars(Decide(p)) /\ WF_vars(Create(p)) /\ WF_vars(Reply(p)) /\ WF_vars(Enqueue(p))

FairSpec == Spec /\ Fairness

-----------------------------------------------------------------------------
CapType == [op : Op \cup {"none", "old"}, row : Url, asked : SUBSET Type,
            alias : Cap \cup {0}, items : [Type -> ItemStatus], ever : SUBSET Type,
            fresh : BOOLEAN]

ReqType == [pc : InMutex \cup {"idle", "mutex", "enqueue"}, op : Op \cup {"none"}, url : Url,
            types : SUBSET Type, found : Cap \cup {0}]

\* A capture owns an item of each type it was asked for, unless it is an alias
\* ("owns no archive items").
ItemsOwned ==
    \A c \in Cap, t \in Type :
        caps[c].items[t] # "absent" <=> Canonical(c) /\ t \in caps[c].asked

\* Well-formed tables and requests.
TypeOK ==
    /\ urls \in [Url -> {"absent", "legacy", "keyed"}]
    /\ caps \in [Cap -> CapType]
    /\ req \in [Request -> ReqType]
    /\ ItemsOwned

\* A capture from before canonical identities is there for those who submit its
\* own spelling, or one whose identity is spelled like it, whether or not the
\* backfill has reached its row; for the other spellings, from then on only.
Reached(c, u) == caps[c].op = "old" => caps[c].row \in {u, Canon[u]}

\* c is a capture of d's post that was there first and that d's request could
\* have used: it has every item d needs, none of which ever failed or came
\* out incomplete.
Forestalls(c, d, T) ==
    /\ Made(c) /\ Made(d) /\ c < d /\ Reached(c, caps[d].row)
    /\ SameIdentity(caps[c].row, caps[d].row)
    /\ \A t \in T : caps[c].items[t] # "absent" /\ t \notin caps[c].ever

\* "concurrent submissions of one post cannot each conclude that no capture
\* exists and each start a full archive" (withCaptureIdentityLock), whatever
\* spellings and instances they come from: FindOrCreateCapture never creates
\* beside a capture that serves its request.
OneLiveCapture ==
    \A c, d \in Cap :
        caps[d].op \in Finding => ~Forestalls(c, d, Needed(caps[d].op, caps[d].asked))

\* QueueCapture starts a full archive only if no fresh capture of the post, among
\* the Limit newest, covers the types; otherwise it makes an alias.
FreshIsReused ==
    \A c, d \in Cap :
        /\ caps[d].op = "queue" /\ caps[d].alias = 0 /\ caps[c].fresh
        /\ Forestalls(c, d, caps[d].asked)
        => Cardinality({e \in Cap : /\ c < e /\ e < d /\ Canonical(e)
                                    /\ SameIdentity(caps[e].row, caps[d].row)}) >= Limit

\* "Aliases always point directly at a canonical capture, never at another
\* alias" (Capture.AliasOfID): an older one, of the same post, that owns an item
\* of every type the alias was asked for.
AliasesAreDirect ==
    \A d \in Cap : caps[d].alias # 0 =>
        LET c == caps[d].alias
        IN  /\ c < d /\ Canonical(c)
            /\ SameIdentity(caps[c].row, caps[d].row)
            /\ \A t \in caps[d].asked : caps[c].items[t] # "absent"

\* Jobs carry no row id: a worker finds the item its job names, because jobs are
\* inserted only for a capture that is committed and owns those items (an alias
\* "enqueued no jobs").
JobsHaveItems ==
    \A p \in Request : req[p].pc = "enqueue" =>
        /\ req[p].found # 0 /\ Canonical(req[p].found)
        /\ \A t \in req[p].types : caps[req[p].found].items[t] # "absent"

\* "the pair cannot deadlock" (withCaptureIdentityLock): every request ends.
RequestsEnd == \A p \in Request : req[p].pc # "idle" ~> req[p].pc = "idle"
=============================================================================
