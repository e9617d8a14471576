------------------------------ MODULE MCParts ------------------------------
(* The parts around the pipeline that share no state with one another, as a  *)
(* disjoint sum for TLC: a behaviour is one of the part named by "part",     *)
(* every other part is parked in a state it may be in when nothing is left   *)
(* to do.                                                                    *)
EXTENDS IdentityLock, RangedFetch, PaidFallback, NativeCapture, BrowserBundle,
        PageLoad, LogWriter, LogMigration, ObjectStore, GitCache, ThumbnailPreview

VARIABLE part

OutputDef == {<<"x">>, <<"nl">>, <<"lead">>, <<"cont">>, <<"x", "x", "lead", "cont">>, <<"x", "nl", "x">>}

Part == {"lock", "fetch", "paid", "capture", "bundle", "load", "log", "mig", "store", "git", "thumb"}

---------------------------------------------------------------------------
(* Parked states *)

LockParked ==
  /\ locks = [i \in Identity |-> None] /\ refs = [k \in Lock |-> 0] /\ owner = [k \in Lock |-> None]
  /\ pc = [g \in Goroutine |-> "idle"]
  /\ want = [g \in Goroutine |-> CHOOSE i \in Identity : TRUE]
  /\ lock = [g \in Goroutine |-> CHOOSE k \in Lock : TRUE]

FetchParked ==
  /\ size = 0 /\ total = 0 /\ offset = 0 /\ try = 0
  /\ temp = FALSE /\ fetchPc = "failed" /\ lapses = {}

PaidParked ==
  /\ route = "fbVideo" /\ gated = FALSE /\ ready = FALSE /\ blocked = FALSE /\ refusals = 0 /\ attempt = 1
  /\ paidPc = "done" /\ expired = FALSE /\ plan = <<"posts">> /\ slide = 1 /\ kept = <<>> /\ geo = 2 /\ cands = 0
  /\ refreshable = FALSE /\ openErr = FALSE /\ pageFiles = FALSE /\ session = FALSE /\ temps = {}
  /\ snap = [d \in Dataset |-> "none"] /\ spent = Nothing /\ tally = Nothing
  /\ row = [p \in Product |-> "none"] /\ billed = Nothing /\ unsaved = {} /\ outcome = "native"

CaptureParked ==
  /\ tool = "git" /\ counted = FALSE /\ ctxDone = TRUE /\ child = "none" /\ landed = [a \in Asset |-> "absent"]
  /\ archivePc = "failed" /\ dir = FALSE /\ producer = "none" /\ stream = "open" /\ sent = 0 /\ closed = FALSE
  /\ storing = "waiting" /\ claim = "none"

\* The driver did not start.
BundleParked ==
  /\ jobPc = "over" /\ handed = FALSE /\ driver = "none" /\ chrome = "none" /\ window = "none" /\ held = {}
  /\ wedged = "none" /\ aged = FALSE /\ teardown = "none" /\ waiter = "none"
  /\ launches = 1 /\ closes = 0 /\ creates = 0 /\ cleanups = 0 /\ kills = 0

LoadParked ==
  /\ loadPc = "failed" /\ ctxOver = FALSE /\ inflight = [u \in Url |-> 0] /\ pending = {}
  /\ elapsed = 0 /\ quiet = 0 /\ flagged = FALSE /\ scrolled = 0

LogParked ==
  /\ said = <<>> /\ buffer = <<>> /\ chunks = <<>> /\ logPc = "done" /\ stuck = FALSE /\ unsure = FALSE

\* Everything was moved, every instance is up.
MigParked ==
  /\ column = [i \in Row |-> <<>>] /\ fresh = [i \in Row |-> <<>>]
  /\ stored = [i \in Row |-> [k \in DOMAIN Legacy |-> [line |-> Legacy[k], by |-> "committed"]]]
  /\ moves = [i \in Row |-> 1] /\ late = [i \in Row |-> FALSE]
  /\ mig = [s \in Starter |-> "up"] /\ at = [s \in Starter |-> [item |-> 0, log |-> <<>>]]
  /\ starts = 0 /\ view = NoView

StoreParked ==
  /\ backend = "fs" /\ writer = "none" /\ spool = FALSE /\ spoiled = FALSE /\ taken = 0 /\ copyErr = FALSE
  /\ object = Absent /\ saved = FALSE
  /\ body = Absent /\ broken = FALSE /\ pos = 0 /\ sizeSet = FALSE /\ failures = 0

\* The screenshot was stored with its preview.
ThumbParked ==
  /\ itemStatus = "completed" /\ artifact = 1 /\ decodable = TRUE /\ inline = FALSE /\ preview = "ready"
  /\ image = "there" /\ previewJob = "none" /\ tries = 0 /\ recent = FALSE /\ seen = 0 /\ shown = "nothing" /\ faults = 0

---------------------------------------------------------------------------

\* Nothing happens to the git cache before an artifact is completed, so that its
\* initial states serve as parked ones.
PartsInit ==
  /\ part \in Part
  /\ IF part = "lock" THEN Init ELSE LockParked
  /\ IF part = "fetch" THEN FetchInit ELSE FetchParked
  /\ IF part = "paid" THEN PaidInit ELSE PaidParked
  /\ IF part = "capture" THEN CaptureInit ELSE CaptureParked
  /\ IF part = "bundle" THEN BundleInit ELSE BundleParked
  /\ IF part = "load" THEN PageInit ELSE LoadParked
  /\ IF part = "log" THEN LogInit ELSE LogParked
  /\ IF part = "mig" THEN MigInit ELSE MigParked
  /\ IF part = "store" THEN StoreInit ELSE StoreParked
  /\ IF part = "thumb" THEN ThumbInit ELSE ThumbParked
  /\ GitInit

media == <<fetchVars, paidVars, captureVars>>
browser == <<bundleVars, loadVars>>
logs == <<logVars, migVars>>
serving == <<storeVars, gitVars, thumbVars>>
partsVars == <<part, vars, media, browser, logs, serving>>

Goes(name) == part = name /\ UNCHANGED part

PartsNext ==
  \/ Goes("lock") /\ Next /\ UNCHANGED <<media, browser, logs, serving>>
  \/ Goes("fetch") /\ FetchNext /\ UNCHANGED <<vars, paidVars, captureVars, browser, logs, serving>>
  \/ Goes("paid") /\ PaidNext /\ UNCHANGED <<vars, fetchVars, captureVars, browser, logs, serving>>
  \/ Goes("capture") /\ CaptureNext /\ UNCHANGED <<vars, fetchVars, paidVars, browser, logs, serving>>
  \/ Goes("bundle") /\ BundleNext /\ UNCHANGED <<vars, media, loadVars, logs, serving>>
  \/ Goes("load") /\ PageNext /\ UNCHANGED <<vars, media, bundleVars, logs, serving>>
  \/ Goes("log") /\ LogNext /\ UNCHANGED <<vars, media, browser, migVars, serving>>
  \/ Goes("mig") /\ MigNext /\ UNCHANGED <<vars, media, browser, logVars, serving>>
  \/ Goes("store") /\ StoreNext /\ UNCHANGED <<vars, media, browser, logs, gitVars, thumbVars>>
  \/ Goes("git") /\ GitNext /\ UNCHANGED <<vars, media, browser, logs, storeVars, thumbVars>>
  \/ Goes("thumb") /\ ThumbNext /\ UNCHANGED <<vars, media, browser, logs, storeVars, gitVars>>

\* The fairness of each part; what it is about is not enabled in a parked one.
PartsSpec ==
  /\ PartsInit /\ [][PartsNext]_partsVars
  /\ Fairness /\ CaptureFairness /\ BundleFairness /\ WF_loadVars(Loading) /\ ThumbFairness

\* The types of every part.
PartsTypeOK ==
  /\ part \in Part /\ TypeOK
  /\ FetchTypeOK /\ PaidTypeOK /\ CaptureTypeOK /\ BundleTypeOK /\ PageTypeOK
  /\ LogTypeOK /\ StoreTypeOK /\ GitTypeOK /\ ThumbTypeOK
=============================================================================
