------------------------- MODULE PaidFallbackProofs -------------------------
(* Proofs about PaidFallback, for every number of attempts and of gallery    *)
(* entries: what is spent is recorded, what is recorded as a success was     *)
(* delivered, and nothing is left behind. And about the fetch in ranges its  *)
(* sessions use: whatever the chunk size, the sizes of files and the number  *)
(* of tries, a stored file is whole.                                         *)
EXTENDS PaidFallback, RangedFetch, TLAPS

PaidPc == {"queued", "native", "trigger", "wait", "collect", "record", "download", "verify",
           "open", "candidates", "slides", "page", "ended", "crashed", "done"}
Resolving == {"trigger", "wait", "collect", "record"}
RowState == {"none", "open", "failed", "success"}
Spend == [sessions : Nat, bytes : Nat]

\* The types, with the domains of the functions and where each counter stops.
PaidTypes ==
  /\ PaidTypeOK /\ paidPc \in PaidPc
  /\ kept \in Seq({"media", "html"})
  /\ row \in [Product -> RowState] /\ snap \in [Dataset -> {"none", "triggered", "collected"}]
  /\ spent \in Spend /\ tally = spent
  /\ paidPc = "queued" => attempt < Attempts
  /\ paidPc = "page" => slide <= Slides

\* The type invariant in two halves: what the attempt is and has left, and what
\* its fetches and its datasets leave behind.
AttemptTypes ==
  /\ route \in Route /\ gated \in BOOLEAN /\ ready \in BOOLEAN /\ blocked \in BOOLEAN
  /\ refusals \in Nat /\ attempt \in 0..Attempts /\ expired \in BOOLEAN
  /\ plan \in {<<>>, <<"posts">>, <<"reels", "posts">>}
  /\ slide \in 1..Slides + 1 /\ Len(kept) < slide

FetchTypes ==
  /\ geo \in 0..3 /\ cands \in 0..2 /\ refreshable \in BOOLEAN /\ openErr \in BOOLEAN /\ pageFiles \in BOOLEAN
  /\ session \in BOOLEAN /\ temps \subseteq {"media", "dir", "zip"}
  /\ \A d \in Dataset : snap[d] \in {"none", "triggered", "collected"}
  /\ \A p \in Product : row[p] \in {"none", "open", "failed", "success"}
  /\ unsaved \subseteq Product
  /\ outcome \in {"none", "native", "complete", "partial"}

LEMMA PaidTypesSplit == PaidTypeOK <=> AttemptTypes /\ FetchTypes
BY Zenon DEF PaidTypeOK, AttemptTypes, FetchTypes

LEMMA PaidTypesNext == PaidTypeOK' <=> AttemptTypes' /\ FetchTypes'
BY Zenon DEF PaidTypeOK, AttemptTypes, FetchTypes

\* Which routes a stage of the attempt serves: only YouTube has no dataset, the
\* downloads are of videos, and a session of its own is for what a browser must fetch.
RouteKnows ==
  /\ paidPc # "queued" => (plan = <<>> <=> route = "youtube")
  /\ paidPc \in Resolving => route # "youtube"
  /\ paidPc = "download" => route \in DirectVideo
  /\ paidPc = "verify" => route \notin Gallery
  /\ paidPc \in {"open", "candidates"} => route \in BrowserVideo
  /\ paidPc \in {"slides", "page"} => route \in Gallery

\* Only the dataset that is being waited for is triggered without a row, unless
\* the process died; a collected one has its row from then on. A dataset whose
\* row could not be saved is left out until a later save succeeds.
DatasetsKnow ==
  \A d \in Dataset \ unsaved :
    /\ snap[d] = "collected" => row[d] # "none"
    /\ snap[d] = "triggered" /\ row[d] = "none" =>
         paidPc \in {"queued", "crashed"} \/ (paidPc \in {"wait", "collect"} /\ d = Current)

\* Sessions come before bytes, and an attempt that has bought a session is at a
\* stage whose every way out writes the browser row.
SpendKnows ==
  /\ spent.sessions = 0 => spent = Nothing
  /\ session => spent.sessions # 0
  /\ paidPc = "candidates" => session
  /\ paidPc \in {"native", "download"} \cup Resolving => spent = Nothing
  /\ paidPc = "verify" /\ route \in DirectVideo => spent = Nothing
  /\ Running => row["browser"] = "none" /\ "browser" \notin unsaved
  /\ paidPc = "ended" /\ "browser" \notin unsaved => IF row["browser"] = "none" THEN spent = Nothing ELSE billed = spent

\* A success before the end is TikTok's scrape, whose video the session fetches.
Early(p) == route = "ttVideo" /\ p # "browser"

VerdictsKnow ==
  /\ outcome # "none" => paidPc \in {"ended", "done"}
  /\ Running => \A p \in Product : row[p] = "success" => Early(p)
  /\ paidPc = "ended" /\ ~Paid /\ route # "igGallery" => \A p \in Product : row[p] = "success" => Early(p)
  /\ paidPc = "ended" /\ Paid /\ FinalRow \notin unsaved => row[FinalRow] = "success"

\* The files of a stage, and the stages at which a session is open.
FilesKnow ==
  /\ Running => temps = (IF paidPc = "verify" THEN {"media"} ELSE IF paidPc \in {"slides", "page"} THEN {"dir"} ELSE {})
  /\ session => paidPc \in {"candidates", "slides", "page"}
  /\ NothingLeftBehind

PaidInv == PaidTypes /\ RouteKnows /\ DatasetsKnow /\ SpendKnows /\ VerdictsKnow /\ FilesKnow

-----------------------------------------------------------------------------
(* The operators *)

Plan == {<<>>, <<"posts">>, <<"reels", "posts">>}

\* A plan is empty, at its last dataset, or before Instagram's second one.
LEMMA Plans ==
  ASSUME NEW p \in Plan
  PROVE /\ p # <<>> => Head(p) \in Dataset
        /\ Len(p) > 1 => Tail(p) = <<"posts">> /\ Head(p) = "reels"
        /\ Head(<<"posts">>) = "posts"
<1>1. CASE p = <<>>
  BY <1>1
<1>2. CASE p = <<"posts">>
  BY <1>2 DEF Dataset
<1>3. CASE p = <<"reels", "posts">>
  <2>1. Head(p) = "reels"
    BY <1>3
  <2>2. Tail(p) = <<"posts">>
    BY <1>3
  <2> QED BY <1>3, <2>1, <2>2 DEF Dataset
<1> QED BY <1>1, <1>2, <1>3 DEF Plan

\* A failed dataset leaves a row that says so; what follows is the next dataset
\* of the plan or the end of the attempt.
LEMMA NextPlan ==
  ASSUME PaidTypes, plan # <<>>, NextDataset
  PROVE /\ Current \in Dataset /\ plan' \in Plan /\ plan' # <<>>
        /\ Current' \in Dataset
        /\ \/ paidPc' = "ended" /\ plan' = plan
           \/ paidPc' = "trigger" /\ route \in InstagramVideo
<1>1. plan \in Plan
  BY DEF PaidTypes, PaidTypeOK, Plan
<1>2. Current \in Dataset /\ (Len(plan) > 1 => Tail(plan) = <<"posts">>)
  BY <1>1, Plans DEF Current
<1>3. <<"posts">> \in Plan /\ <<"posts">> # <<>> /\ Head(<<"posts">>) \in Dataset
  BY Plans DEF Plan, Dataset
<1>4. plan' \in {plan, <<"posts">>}
  BY <1>2 DEF NextDataset
<1>5. plan' \in Plan /\ plan' # <<>>
  BY <1>1, <1>3, <1>4
<1>6. Current' \in Dataset
  BY <1>5, Plans DEF Current
<1>7. \/ paidPc' = "ended" /\ plan' = plan
      \/ paidPc' = "trigger" /\ route \in InstagramVideo
  BY DEF NextDataset
<1> QED BY <1>2, <1>5, <1>6, <1>7

\* What the provider bills and what the code counts move together.
LEMMA Connects ==
  ASSUME PaidTypes, NEW yes \in BOOLEAN, Connected(yes)
  PROVE /\ spent' \in Spend /\ tally' = spent'
        /\ yes \/ spent.sessions # 0 => spent'.sessions # 0
        /\ spent'.sessions = 0 => spent' = spent
<1>1. spent \in Spend /\ tally = spent /\ spent.sessions \in Nat /\ spent.bytes \in Nat
  BY DEF PaidTypes, Spend
<1>2. spent' = [spent EXCEPT !.sessions = spent.sessions + (IF yes THEN 1 ELSE 0)] /\ tally' = spent'
  BY <1>1 DEF Connected
<1>3. CASE yes
  <2>1. spent' = [spent EXCEPT !.sessions = spent.sessions + 1]
    BY <1>2, <1>3
  <2> QED BY <1>1, <1>2, <2>1 DEF Spend
<1>4. CASE ~yes
  <2>1. spent' = [spent EXCEPT !.sessions = spent.sessions + 0]
    BY <1>2, <1>4
  <2>2. spent' = spent
    BY <1>1, <2>1 DEF Spend
  <2> QED BY <1>1, <1>2, <1>4, <2>2
<1> QED BY <1>3, <1>4

LEMMA Transfers ==
  ASSUME PaidTypes, NEW bytes \in Nat, Transferred(bytes)
  PROVE spent' \in Spend /\ tally' = spent' /\ spent'.sessions = spent.sessions
<1>1. spent \in Spend /\ tally = spent /\ spent.sessions \in Nat /\ spent.bytes \in Nat
  BY DEF PaidTypes, Spend
<1>2. spent' = [spent EXCEPT !.bytes = spent.bytes + bytes] /\ tally' = spent'
  BY <1>1 DEF Transferred
<1> QED BY <1>1, <1>2 DEF Spend

\* What a save leaves, for every set of rows it may have lost.
LEMMA Saves ==
  ASSUME PaidTypes, NEW saved \in SUBSET Product, NEW verdict \in [saved -> {"open", "failed", "success"}], Save(verdict)
  PROVE /\ row' \in [Product -> RowState] /\ unsaved' \subseteq Product
        /\ \A p \in Product \ saved : row'[p] = row[p] /\ (p \in unsaved' <=> p \in unsaved)
        /\ \A p \in saved : row'[p] \in {row[p], verdict[p]} /\ (p \notin unsaved' => row'[p] = verdict[p])
        /\ "browser" \in saved \ unsaved' => billed' = tally'
        /\ "browser" \notin saved => billed' = billed
<1>1. DOMAIN verdict = saved /\ \A p \in saved : verdict[p] \in RowState
  BY Zenon DEF RowState
<1>2. row \in [Product -> RowState] /\ unsaved \subseteq Product
  BY DEF PaidTypes, PaidTypeOK
<1>3. PICK lost \in SUBSET saved :
        /\ row' = [p \in Product |-> IF p \in saved \ lost THEN verdict[p] ELSE row[p]]
        /\ unsaved' = (unsaved \ saved) \cup lost
        /\ billed' = IF "browser" \in saved \ lost THEN tally' ELSE billed
  BY <1>1, Zenon DEF Save
<1>4. \A p \in Product : row'[p] = IF p \in saved \ lost THEN verdict[p] ELSE row[p]
  BY <1>3, Zenon
<1>5. row' \in [Product -> RowState]
  <2>1. \A p \in Product : (IF p \in saved \ lost THEN verdict[p] ELSE row[p]) \in RowState
    BY <1>1, <1>2, Zenon
  <2> QED BY <1>3, <2>1, Zenon
<1>6. \A p \in Product : p \in unsaved' <=> (p \in unsaved /\ p \notin saved) \/ p \in lost
  BY <1>3, Zenon
<1>7. unsaved' \subseteq Product
  BY <1>2, <1>3, Zenon
<1>8. \A p \in Product \ saved : row'[p] = row[p] /\ (p \in unsaved' <=> p \in unsaved)
  BY <1>3, <1>4, <1>6, Zenon
<1>9. \A p \in saved : row'[p] \in {row[p], verdict[p]} /\ (p \notin unsaved' => row'[p] = verdict[p])
  BY <1>4, <1>6, Zenon
<1>10. /\ "browser" \in saved \ unsaved' => billed' = tally'
       /\ "browser" \notin saved => billed' = billed
  BY <1>3, <1>6, Zenon
<1> QED BY <1>5, <1>7, <1>8, <1>9, <1>10

\* The same of a single row.
LEMMA Records ==
  ASSUME PaidTypes, NEW product \in Product, NEW verdict \in {"open", "failed", "success"}, Record(product, verdict)
  PROVE /\ row' \in [Product -> RowState] /\ unsaved' \subseteq Product
        /\ \A p \in Product : p # product => row'[p] = row[p] /\ (p \in unsaved' <=> p \in unsaved)
        /\ row'[product] \in {row[product], verdict} /\ (product \notin unsaved' => row'[product] = verdict)
        /\ product = "browser" /\ product \notin unsaved' => billed' = tally'
        /\ product # "browser" => billed' = billed
<1> DEFINE row1 == [p \in {product} |-> verdict]
<1>1. {product} \in SUBSET Product /\ row1 \in [{product} -> {"open", "failed", "success"}] /\ row1[product] = verdict
  BY Zenon
<1>2. Save(row1)
  BY DEF Record
<1> HIDE DEF row1
<1> QED BY <1>1, <1>2, Saves, Zenon

\* Where the routes of each stage lie.
LEMMA Routes ==
  /\ InstagramVideo \subseteq DirectVideo
  /\ DirectVideo \cap Gallery = {} /\ DirectVideo \cap BrowserVideo = {} /\ Gallery \cap BrowserVideo = {}
  /\ Route = DirectVideo \cup Gallery \cup BrowserVideo
  /\ "youtube" \in BrowserVideo /\ "ttVideo" \in BrowserVideo /\ BrowserVideo = {"ttVideo", "youtube"}
  /\ "browser" \notin Dataset /\ Dataset \subseteq Product /\ "browser" \in Product
  /\ \A p \in Product : p # "browser" => p \in Dataset
BY DEF InstagramVideo, DirectVideo, Gallery, BrowserVideo, Route, Dataset, Product

-----------------------------------------------------------------------------
(* The first state and the first steps of an attempt *)

\* The datasets a route starts with.
LEMMA FirstPlan == Datasets \in Plan /\ (Datasets = <<>> <=> route = "youtube")
BY DEF Datasets, Plan

LEMMA PaidInvInit == PaidInit => PaidInv
<1> SUFFICES ASSUME PaidInit PROVE PaidInv
  OBVIOUS
<1>1. kept \in Seq({"media", "html"}) /\ Len(kept) < slide /\ slide \in 1..Slides + 1
  BY SlidesAssumption DEF PaidInit
<1>2. route \in Route /\ gated \in BOOLEAN /\ ready \in BOOLEAN
  BY DEF PaidInit
<1>3. attempt \in 0..Attempts /\ attempt < Attempts /\ refusals \in Nat /\ geo \in 0..3 /\ cands \in 0..2
  BY AttemptsAssumption DEF PaidInit
<1>4. spent \in Spend /\ tally = spent /\ spent = Nothing /\ session = FALSE
  BY DEF PaidInit, Spend, Nothing
<1>5. snap \in [Dataset -> {"none", "triggered", "collected"}] /\ row \in [Product -> RowState]
  BY DEF PaidInit, RowState
<1>6. PaidTypeOK
  BY <1>1, <1>2, <1>3, <1>5 DEF PaidInit, PaidTypeOK, RowState
<1>7. PaidTypes
  BY <1>1, <1>3, <1>4, <1>5, <1>6 DEF PaidInit, PaidTypes, PaidPc
<1>8. RouteKnows /\ DatasetsKnow /\ VerdictsKnow /\ FilesKnow
  BY DEF PaidInit, RouteKnows, Resolving, DatasetsKnow, VerdictsKnow, Running, FilesKnow, NothingLeftBehind
<1>9. SpendKnows
  BY <1>4 DEF PaidInit, SpendKnows, Resolving, Running
<1> QED BY <1>7, <1>8, <1>9 DEF PaidInv

\* A step from one stage of an attempt to another that touches neither rows nor
\* plan nor what the datasets have done keeps what is known of them.
LEMMA Proceeds ==
  ASSUME PaidInv, Running, Running', UNCHANGED <<route, row, unsaved, snap, plan, outcome>>,
         paidPc \in {"wait", "collect"} => paidPc' \in {"wait", "collect"}
  PROVE DatasetsKnow' /\ VerdictsKnow'
<1>1. DatasetsKnow'
  BY DEF PaidInv, DatasetsKnow, Running, Current
<1>2. VerdictsKnow'
  BY DEF PaidInv, VerdictsKnow, Running, Early
<1> QED BY <1>1, <1>2

LEMMA AttemptStep ==
  ASSUME PaidInv, StartAttempt \/ NativeSucceeds \/ NativeFails
  PROVE PaidInv'
<1>0. PaidTypes /\ RouteKnows /\ DatasetsKnow /\ SpendKnows /\ VerdictsKnow /\ FilesKnow
  BY DEF PaidInv
<1> USE DEF job, process, browsing, gallery, rows
<1>1. CASE StartAttempt
  <2>1. /\ attempt' \in 0..Attempts /\ geo' \in 0..3 /\ cands' \in 0..2 /\ slide' \in 1..Slides + 1
        /\ plan' \in Plan /\ (plan' = <<>> <=> route' = "youtube")
    BY <1>0, <1>1, AttemptsAssumption, SlidesAssumption, FirstPlan
    DEF StartAttempt, PaidTypes, PaidTypeOK, Geographies
  <2>2. spent' \in Spend /\ tally' = spent' /\ spent' = Nothing
    BY <1>1 DEF StartAttempt, Spend, Nothing
  <2>3. /\ snap' \in [Dataset -> {"none", "triggered", "collected"}] /\ row' \in [Product -> RowState]
        /\ kept' \in Seq({"media", "html"}) /\ Len(kept') < slide'
    BY <1>1 DEF StartAttempt, RowState
  <2>4. PaidTypeOK'
    <3>1. (/\ route \in Route /\ gated \in BOOLEAN /\ ready \in BOOLEAN /\ blocked \in BOOLEAN
          /\ refusals \in Nat /\ attempt \in 0..Attempts /\ expired \in BOOLEAN)'
      BY <1>0, <1>1, <2>1 DEF StartAttempt, PaidTypes, PaidTypeOK
    <3>2. (/\ refreshable \in BOOLEAN /\ openErr \in BOOLEAN /\ pageFiles \in BOOLEAN /\ session \in BOOLEAN
          /\ temps \subseteq {"media", "dir", "zip"} /\ unsaved \subseteq Product
          /\ outcome \in {"none", "native", "complete", "partial"})'
      BY <1>1 DEF StartAttempt
    <3> QED BY <2>1, <2>3, <3>1, <3>2 DEF PaidTypeOK, Plan, RowState
  <2>5. PaidTypes'
    BY <1>1, <2>2, <2>3, <2>4 DEF StartAttempt, PaidTypes, PaidPc
  <2>6. RouteKnows'
    BY <1>1, <2>1 DEF StartAttempt, RouteKnows, Resolving
  <2>7. DatasetsKnow' /\ VerdictsKnow'
    BY <1>1 DEF StartAttempt, DatasetsKnow, VerdictsKnow, Running
  <2>8. SpendKnows'
    BY <1>1, <2>2, Routes DEF StartAttempt, SpendKnows, Running
  <2>9. FilesKnow'
    BY <1>1 DEF StartAttempt, FilesKnow, NothingLeftBehind, Running
  <2> QED BY <2>5, <2>6, <2>7, <2>8, <2>9 DEF PaidInv
<1>2. CASE NativeSucceeds
  <2>1. PaidTypes'
    BY <1>0, <1>2 DEF NativeSucceeds, PaidTypes, PaidTypeOK, PaidPc
  <2>2. RouteKnows' /\ DatasetsKnow'
    BY <1>0, <1>2 DEF NativeSucceeds, RouteKnows, Resolving, DatasetsKnow
  <2>3. SpendKnows'
    BY <1>0, <1>2 DEF NativeSucceeds, SpendKnows, Running, Resolving
  <2>4. VerdictsKnow'
    BY <1>0, <1>2 DEF NativeSucceeds, VerdictsKnow, Running, Paid, Early
  <2>5. FilesKnow'
    BY <1>0, <1>2 DEF NativeSucceeds, FilesKnow, NothingLeftBehind, Running, Paid
  <2> QED BY <2>1, <2>2, <2>3, <2>4, <2>5 DEF PaidInv
<1>3. CASE NativeFails
  <2>1. PaidTypes'
    BY <1>0, <1>3 DEF NativeFails, PaidTypes, PaidTypeOK, PaidPc
  <2>2. RouteKnows' /\ DatasetsKnow'
    BY <1>0, <1>3, Routes DEF NativeFails, RouteKnows, Resolving, DatasetsKnow
  <2>3. SpendKnows'
    BY <1>0, <1>3 DEF NativeFails, SpendKnows, Running, Resolving
  <2>4. VerdictsKnow'
    BY <1>0, <1>3 DEF NativeFails, VerdictsKnow, Running, Paid, Early
  <2>5. FilesKnow'
    BY <1>0, <1>3 DEF NativeFails, FilesKnow, NothingLeftBehind, Running, Paid, VerdictsKnow
  <2> QED BY <2>1, <2>2, <2>3, <2>4, <2>5 DEF PaidInv
<1> QED BY <1>1, <1>2, <1>3

-----------------------------------------------------------------------------
(* Datasets *)

\* A dataset that fails, at whatever stage, leaves its row and goes on to the
\* next dataset or ends the attempt; nothing of a browser has been bought yet.
LEMMA DatasetFailsKeeps ==
  ASSUME PaidInv, paidPc \in Resolving \cup {"download"}, DatasetFails, UNCHANGED <<temps, snap>>
  PROVE PaidInv'
<1>0. PaidTypes /\ RouteKnows /\ DatasetsKnow /\ SpendKnows /\ VerdictsKnow /\ FilesKnow
  BY DEF PaidInv
<1>1. route # "youtube" /\ plan # <<>> /\ paidPc # "queued" /\ Running /\ spent = Nothing /\ row["browser"] = "none" /\ "browser" \notin unsaved
  BY <1>0, Routes DEF RouteKnows, SpendKnows, Resolving, Running, BrowserVideo
<1>2. /\ Current \in Dataset /\ plan' \in Plan /\ plan' # <<>>
      /\ \/ paidPc' = "ended" /\ plan' = plan
         \/ paidPc' = "trigger" /\ route \in InstagramVideo
  BY <1>0, <1>1, NextPlan DEF DatasetFails
<1>3. /\ Record(Current, "failed")
      /\ UNCHANGED <<route, gated, ready, blocked, refusals, attempt, expired, slide, kept, pageFiles>>
      /\ UNCHANGED <<geo, cands, refreshable, openErr, session, spent, tally, outcome, temps, snap>>
  BY DEF DatasetFails, job, process, gallery, browsing
<1>4. /\ row' \in [Product -> RowState] /\ row'["browser"] = "none"
      /\ unsaved' \subseteq Product /\ "browser" \notin unsaved'
      /\ \A p \in Product : row'[p] = row[p] \/ row'[p] = "failed"
      /\ \A d \in Dataset \ unsaved' : IF d = Current THEN row'[d] = "failed" ELSE row'[d] = row[d] /\ d \notin unsaved
  BY <1>0, <1>1, <1>2, <1>3, Records, Routes
<1>5. PaidTypes'
  BY <1>0, <1>2, <1>3, <1>4 DEF PaidTypes, PaidTypeOK, PaidPc, Plan, RowState
<1>6. RouteKnows'
  BY <1>1, <1>2, <1>3 DEF RouteKnows, Resolving, InstagramVideo
<1>7. DatasetsKnow'
  <2>1. \A d \in Dataset \ unsaved' : row'[d] # "none" \/ snap[d] = "none"
    BY <1>0, <1>4, Routes DEF DatasetsKnow, PaidTypes, Resolving
  <2> QED BY <1>3, <2>1 DEF DatasetsKnow
<1>8. SpendKnows'
  BY <1>0, <1>1, <1>2, <1>3, <1>4 DEF SpendKnows, Running, FilesKnow, Resolving
<1>9. VerdictsKnow'
  BY <1>0, <1>1, <1>2, <1>3, <1>4 DEF VerdictsKnow, Running, Early, Paid, Resolving
<1>10. FilesKnow'
  BY <1>0, <1>1, <1>2, <1>3 DEF FilesKnow, VerdictsKnow, NothingLeftBehind, Running, Paid, Resolving
<1> QED BY <1>5, <1>6, <1>7, <1>8, <1>9, <1>10 DEF PaidInv

LEMMA DatasetStep ==
  ASSUME PaidInv, Triggered \/ Waited \/ Collected \/ RecordUnusable \/ RecordUsable \/ NoGalleryDir
  PROVE PaidInv'
<1>0. PaidTypes /\ RouteKnows /\ DatasetsKnow /\ SpendKnows /\ VerdictsKnow /\ FilesKnow
  BY DEF PaidInv
<1>1. paidPc \in Resolving
  BY DEF Triggered, Waited, Collected, RecordUnusable, RecordUsable, NoGalleryDir, Resolving
<1>2. route # "youtube" /\ plan # <<>> /\ Running /\ spent = Nothing /\ row["browser"] = "none" /\ "browser" \notin unsaved
  BY <1>0, <1>1 DEF RouteKnows, SpendKnows, Resolving, Running
<1>3. Current \in Dataset /\ Current \in Product /\ Current # "browser"
  BY <1>0, <1>2, Plans, Routes DEF PaidTypes, PaidTypeOK, Plan, Current
<1>4. CASE DatasetFails /\ UNCHANGED <<temps, snap>>
  BY <1>1, <1>4, DatasetFailsKeeps
<1> USE DEF job, process, browsing, gallery, rows
<1>5. CASE Triggered /\ ~(DatasetFails /\ UNCHANGED <<temps, snap>>)
  <2>1. /\ paidPc = "trigger" /\ paidPc' = "wait" /\ snap' = [snap EXCEPT ![Current] = "triggered"]
        /\ UNCHANGED <<job, process, attempt, expired, plan, gallery, browsing, temps, rows, outcome>>
    BY <1>5 DEF Triggered
  <2>2. /\ snap' \in [Dataset -> {"none", "triggered", "collected"}]
        /\ \A d \in Dataset : snap'[d] = (IF d = Current THEN "triggered" ELSE snap[d])
    BY <1>0, <1>3, <2>1 DEF PaidTypes
  <2>3. PaidTypes'
    BY <1>0, <2>1, <2>2 DEF PaidTypes, PaidTypeOK, PaidPc
  <2>4. RouteKnows'
    BY <1>0, <2>1 DEF RouteKnows, Resolving
  <2>5. DatasetsKnow'
    BY <1>0, <2>1, <2>2 DEF DatasetsKnow, Current
  <2>6. SpendKnows' /\ FilesKnow'
    BY <1>0, <1>2, <2>1 DEF SpendKnows, FilesKnow, NothingLeftBehind, Running, Resolving
  <2>7. VerdictsKnow'
    BY <1>0, <2>1 DEF VerdictsKnow, Running, Early
  <2> QED BY <2>3, <2>4, <2>5, <2>6, <2>7 DEF PaidInv
<1>6. CASE Waited /\ ~(DatasetFails /\ UNCHANGED <<temps, snap>>)
  <2>1. /\ paidPc = "wait" /\ paidPc' = "collect"
        /\ UNCHANGED <<job, process, attempt, expired, plan, gallery, browsing, temps, snap, rows, outcome>>
    BY <1>6 DEF Waited
  <2>2. PaidTypes'
    BY <1>0, <2>1 DEF PaidTypes, PaidTypeOK, PaidPc
  <2>3. RouteKnows'
    BY <1>0, <2>1 DEF RouteKnows, Resolving
  <2>4. DatasetsKnow' /\ VerdictsKnow'
    BY <1>2, <2>1, Proceeds DEF Running
  <2>5. SpendKnows' /\ FilesKnow'
    BY <1>0, <1>2, <2>1 DEF SpendKnows, FilesKnow, NothingLeftBehind, Running, Resolving
  <2> QED BY <2>2, <2>3, <2>4, <2>5 DEF PaidInv
<1>7. CASE Collected /\ ~(DatasetFails /\ UNCHANGED <<temps, snap>>)
  <2>1. /\ paidPc = "collect" /\ paidPc' = "record" /\ snap' = [snap EXCEPT ![Current] = "collected"]
        /\ Record(Current, "open")
        /\ UNCHANGED <<job, process, attempt, expired, plan, gallery, browsing, temps, outcome>>
    BY <1>7 DEF Collected
  <2>2. /\ snap' \in [Dataset -> {"none", "triggered", "collected"}]
        /\ \A d \in Dataset : snap'[d] = (IF d = Current THEN "collected" ELSE snap[d])
    BY <1>0, <1>3, <2>1 DEF PaidTypes
  <2>3. /\ row' \in [Product -> RowState] /\ row'["browser"] = "none"
        /\ unsaved' \subseteq Product /\ "browser" \notin unsaved'
        /\ \A p \in Product : row'[p] = row[p] \/ row'[p] = "open"
        /\ \A d \in Dataset \ unsaved' : IF d = Current THEN row'[d] = "open" ELSE row'[d] = row[d] /\ d \notin unsaved
    BY <1>0, <1>2, <1>3, <2>1, Records, Routes
  <2>4. PaidTypes'
    BY <1>0, <2>1, <2>2, <2>3 DEF PaidTypes, PaidTypeOK, PaidPc, RowState
  <2>5. RouteKnows'
    BY <1>0, <2>1 DEF RouteKnows, Resolving
  <2>6. DatasetsKnow'
    BY <1>0, <2>1, <2>2, <2>3, Routes DEF DatasetsKnow, Current
  <2>7. SpendKnows' /\ FilesKnow'
    BY <1>0, <1>2, <2>1, <2>3 DEF SpendKnows, FilesKnow, NothingLeftBehind, Running, Resolving
  <2>8. VerdictsKnow'
    BY <1>0, <2>1, <2>3 DEF VerdictsKnow, Running, Early
  <2> QED BY <2>4, <2>5, <2>6, <2>7, <2>8 DEF PaidInv
<1>8. CASE RecordUsable
  <2>1. /\ paidPc = "record" /\ UNCHANGED <<job, process, attempt, expired, plan, gallery, browsing, snap, outcome>>
        /\ \/ route \in DirectVideo /\ paidPc' = "download" /\ temps' = temps /\ UNCHANGED rows
           \/ route \in Gallery /\ paidPc' = "slides" /\ temps' = {"dir"} /\ UNCHANGED rows
           \/ route = "ttVideo" /\ paidPc' = "open" /\ temps' = temps /\ Record(Current, "success")
    BY <1>8 DEF RecordUsable
  <2>2. /\ row' \in [Product -> RowState] /\ row'["browser"] = "none"
        /\ unsaved' \subseteq Product /\ "browser" \notin unsaved'
        /\ \A p \in Product : row'[p] = row[p] \/ (p = Current /\ route = "ttVideo" /\ row'[p] = "success")
        /\ \A d \in Dataset \ unsaved' : row'[d] = "success" \/ (row'[d] = row[d] /\ d \notin unsaved)
    <3>1. CASE UNCHANGED rows
      BY <1>0, <1>2, <3>1, Zenon DEF PaidTypes, PaidTypeOK
    <3>2. CASE route = "ttVideo" /\ Record(Current, "success")
      BY <1>0, <1>2, <1>3, <3>2, Records, Routes
    <3> QED BY <2>1, <3>1, <3>2
  <2>3. temps' \subseteq {"media", "dir", "zip"}
    BY <1>0, <2>1 DEF PaidTypes, PaidTypeOK
  <2>4. PaidTypes'
    BY <1>0, <2>1, <2>2, <2>3 DEF PaidTypes, PaidTypeOK, PaidPc, RowState
  <2>5. RouteKnows'
    BY <1>0, <1>2, <2>1, Routes DEF RouteKnows, Resolving
  <2>6. DatasetsKnow'
    BY <1>0, <2>1, <2>2, Routes DEF DatasetsKnow
  <2>7. SpendKnows'
    BY <1>0, <1>2, <2>1, <2>2 DEF SpendKnows, FilesKnow, Running, Resolving
  <2>8. VerdictsKnow'
    BY <1>0, <1>2, <1>3, <2>1, <2>2 DEF VerdictsKnow, Running, Early
  <2>9. FilesKnow'
    BY <1>0, <1>2, <2>1 DEF FilesKnow, NothingLeftBehind, Running
  <2> QED BY <2>4, <2>5, <2>6, <2>7, <2>8, <2>9 DEF PaidInv
<1>9. CASE NoGalleryDir
  <2>1. /\ paidPc = "record" /\ route \in Gallery /\ paidPc' = "ended"
        /\ UNCHANGED rows \/ Record(Current, "failed")
        /\ UNCHANGED <<job, process, attempt, expired, plan, gallery, browsing, temps, snap, outcome>>
    BY <1>9 DEF NoGalleryDir
  <2>2. /\ row' \in [Product -> RowState] /\ row'["browser"] = "none"
        /\ unsaved' \subseteq Product /\ "browser" \notin unsaved'
        /\ \A p \in Product : row'[p] = row[p] \/ row'[p] = "failed"
        /\ \A d \in Dataset \ unsaved' : row'[d] = "failed" \/ (row'[d] = row[d] /\ d \notin unsaved)
    <3>1. CASE UNCHANGED rows
      BY <1>0, <1>2, <3>1, Zenon DEF PaidTypes, PaidTypeOK
    <3>2. CASE Record(Current, "failed")
      BY <1>0, <1>2, <1>3, <3>2, Records, Routes
    <3> QED BY <2>1, <3>1, <3>2
  <2>3. PaidTypes'
    BY <1>0, <2>1, <2>2 DEF PaidTypes, PaidTypeOK, PaidPc, RowState
  <2>4. RouteKnows'
    BY <1>0, <2>1 DEF RouteKnows, Resolving
  <2>5. DatasetsKnow'
    BY <1>0, <2>1, <2>2, Routes DEF DatasetsKnow
  <2>6. SpendKnows'
    BY <1>0, <1>2, <2>1, <2>2 DEF SpendKnows, FilesKnow, Running, Resolving
  <2>7. VerdictsKnow'
    BY <1>0, <1>2, <2>1, <2>2 DEF VerdictsKnow, Running, Early, Paid
  <2>8. FilesKnow'
    BY <1>0, <1>2, <2>1 DEF FilesKnow, VerdictsKnow, NothingLeftBehind, Running, Paid
  <2> QED BY <2>3, <2>4, <2>5, <2>6, <2>7, <2>8 DEF PaidInv
<1> QED BY <1>4, <1>5, <1>6, <1>7, <1>8, <1>9 DEF RecordUnusable

-----------------------------------------------------------------------------
(* One video *)

\* The final row of a video is the session's when a browser fetched it, and the
\* dataset's otherwise.
LEMMA FinalRows ==
  ASSUME PaidInv, paidPc = "verify"
  PROVE /\ FinalRow \in Product
        /\ route \in BrowserVideo => FinalRow = "browser"
        /\ route \notin BrowserVideo => /\ route \in DirectVideo /\ plan # <<>> /\ spent = Nothing
                                       /\ FinalRow = Current /\ Current \in Dataset
<1>1. PaidTypes /\ RouteKnows /\ SpendKnows /\ route \in Route /\ plan \in Plan
  BY DEF PaidInv, PaidTypes, PaidTypeOK, Plan
<1>2. route \notin BrowserVideo => route \in DirectVideo /\ plan # <<>> /\ spent = Nothing
  BY <1>1, Routes DEF RouteKnows, SpendKnows
<1>3. plan # <<>> => Current \in Dataset
  BY <1>1, Plans DEF Current
<1> QED BY <1>2, <1>3, Routes DEF FinalRow

\* What a rejected or unusable video leaves: no file, and a failure in its final
\* row with what the session cost.
LEMMA VideoGivenUp ==
  ASSUME PaidInv, paidPc = "verify", temps' = {}, Account("failed"),
         UNCHANGED <<job, process, attempt, expired, gallery, browsing, snap, outcome>>,
         plan' \in Plan,
         (paidPc' = "ended" /\ plan' = plan) \/ (paidPc' = "trigger" /\ route \in InstagramVideo /\ plan' # <<>>)
  PROVE PaidInv'
<1>0. PaidTypes /\ RouteKnows /\ DatasetsKnow /\ SpendKnows /\ VerdictsKnow /\ FilesKnow
  BY DEF PaidInv
<1>1. /\ FinalRow \in Product
      /\ route \in BrowserVideo => FinalRow = "browser"
      /\ route \notin BrowserVideo => spent = Nothing /\ FinalRow \in Dataset
  BY FinalRows
<1>2. /\ Record(FinalRow, "failed") /\ tally' = tally
      /\ UNCHANGED <<route, gated, ready, blocked, refusals, attempt, expired, slide, kept, pageFiles>>
      /\ UNCHANGED <<geo, cands, refreshable, openErr, session, spent, tally, snap, outcome>>
  BY DEF Account, job, process, gallery, browsing
<1>3. /\ row' \in [Product -> RowState] /\ unsaved' \subseteq Product
      /\ \A p \in Product : row'[p] = row[p] \/ row'[p] = "failed"
      /\ \A p \in Product : p # FinalRow => row'[p] = row[p] /\ (p \in unsaved' <=> p \in unsaved)
      /\ FinalRow \notin unsaved' => row'[FinalRow] = "failed" /\ (FinalRow = "browser" => billed' = tally)
  BY <1>0, <1>1, <1>2, Records
<1>4. /\ row["browser"] = "none" /\ "browser" \notin unsaved
      /\ session = FALSE /\ outcome = "none" /\ tally = spent /\ outcome' = "none"
  BY <1>0, <1>2 DEF SpendKnows, Running, FilesKnow, VerdictsKnow, PaidTypes, PaidTypeOK
<1>5. PaidTypes'
  BY <1>0, <1>2, <1>3 DEF PaidTypes, PaidTypeOK, PaidPc, Plan, RowState
<1>6. RouteKnows'
  BY <1>0, <1>2, Routes DEF RouteKnows, Resolving
<1>7. DatasetsKnow'
  <2>1. \A d \in Dataset \ unsaved' : row'[d] # "none" \/ snap[d] = "none"
    BY <1>0, <1>1, <1>3, Routes DEF DatasetsKnow, PaidTypes
  <2> QED BY <1>2, <2>1 DEF DatasetsKnow
<1>8. SpendKnows'
  <2>1. "browser" \notin unsaved' => IF row'["browser"] = "none" THEN spent = Nothing ELSE billed' = spent
    BY <1>1, <1>3, <1>4, Routes
  <2>2. paidPc' = "trigger" => route \notin BrowserVideo
    BY Routes
  <2>3. paidPc' = "trigger" => row'["browser"] = "none" /\ "browser" \notin unsaved'
    BY <1>1, <1>3, <1>4, <2>2, Routes
  <2> QED BY <1>0, <1>2, <1>4, <2>1, <2>3 DEF SpendKnows, Running, Resolving
<1>9. VerdictsKnow'
  BY <1>0, <1>2, <1>3, <1>4 DEF VerdictsKnow, Running, Early, Paid
<1>10. FilesKnow'
  BY <1>2, <1>4 DEF FilesKnow, NothingLeftBehind, Running, Paid
<1> QED BY <1>5, <1>6, <1>7, <1>8, <1>9, <1>10 DEF PaidInv

LEMMA VideoStep ==
  ASSUME PaidInv, Downloaded \/ NotAVideo \/ SidecarsFail \/ HandVideoOver
  PROVE PaidInv'
<1>0. PaidTypes /\ RouteKnows /\ DatasetsKnow /\ SpendKnows /\ VerdictsKnow /\ FilesKnow
  BY DEF PaidInv
<1>1. CASE Downloaded
  <2>1. CASE DatasetFails /\ UNCHANGED <<temps, snap>>
    BY <1>1, <2>1, DatasetFailsKeeps DEF Downloaded
  <2>2. CASE ~(DatasetFails /\ UNCHANGED <<temps, snap>>)
    <3>1. /\ paidPc = "download" /\ paidPc' = "verify" /\ temps' = {"media"}
          /\ UNCHANGED <<job, process, attempt, expired, plan, gallery, browsing, snap, rows, outcome>>
      BY <1>1, <2>2 DEF Downloaded
    <3> USE DEF job, process, browsing, gallery, rows
    <3>2. route \in DirectVideo /\ spent = Nothing /\ row["browser"] = "none" /\ "browser" \notin unsaved /\ session = FALSE
      BY <1>0, <3>1 DEF RouteKnows, SpendKnows, FilesKnow, Running, PaidTypes, PaidTypeOK
    <3>3. PaidTypes'
      BY <1>0, <3>1 DEF PaidTypes, PaidTypeOK, PaidPc
    <3>4. RouteKnows'
      BY <1>0, <3>1, <3>2, Routes DEF RouteKnows, Resolving
    <3>5. DatasetsKnow' /\ VerdictsKnow'
      BY <3>1, Proceeds DEF Running
    <3>6. SpendKnows' /\ FilesKnow'
      BY <1>0, <3>1, <3>2 DEF SpendKnows, FilesKnow, NothingLeftBehind, Running, Resolving
    <3> QED BY <3>3, <3>4, <3>5, <3>6 DEF PaidInv
  <2> QED BY <2>1, <2>2
<1>2. CASE NotAVideo
  <2>1. \/ NextDataset /\ route \in InstagramVideo /\ plan # <<>>
        \/ plan' = plan /\ paidPc' = "ended"
    BY <1>2, FinalRows, Routes DEF NotAVideo
  <2>2. plan' \in Plan
    BY <1>0, <2>1, NextPlan DEF PaidTypes, PaidTypeOK, Plan
  <2>3. (paidPc' = "ended" /\ plan' = plan) \/ (paidPc' = "trigger" /\ route \in InstagramVideo /\ plan' # <<>>)
    BY <1>0, <2>1, NextPlan
  <2> QED BY <1>2, <2>2, <2>3, VideoGivenUp DEF NotAVideo
<1>3. CASE SidecarsFail
  <2>1. plan' \in Plan
    BY <1>0, <1>3 DEF SidecarsFail, PaidTypes, PaidTypeOK, Plan
  <2> QED BY <1>3, <2>1, VideoGivenUp DEF SidecarsFail
<1>4. CASE HandVideoOver
  <2>1. /\ FinalRow \in Product
        /\ route \in BrowserVideo => FinalRow = "browser"
        /\ route \notin BrowserVideo => spent = Nothing /\ FinalRow \in Dataset
    BY <1>4, FinalRows DEF HandVideoOver
  <2>2. /\ paidPc = "verify" /\ paidPc' = "ended" /\ outcome' = "complete"
        /\ Record(FinalRow, "success")
        /\ UNCHANGED <<job, process, attempt, expired, plan, gallery, browsing, temps, snap>>
    BY <1>4 DEF HandVideoOver, Account
  <2> USE DEF job, process, browsing, gallery, rows
  <2>3. /\ row' \in [Product -> RowState] /\ unsaved' \subseteq Product
        /\ \A p \in Product : p # FinalRow => row'[p] = row[p] /\ (p \in unsaved' <=> p \in unsaved)
        /\ FinalRow \notin unsaved' => row'[FinalRow] = "success" /\ (FinalRow = "browser" => billed' = tally)
    BY <1>0, <2>1, <2>2, Records
  <2>4. tally = spent /\ session = FALSE /\ row["browser"] = "none" /\ "browser" \notin unsaved /\ route \notin Gallery /\ temps = {"media"}
    BY <1>0, <2>2 DEF PaidTypes, PaidTypeOK, FilesKnow, SpendKnows, Running, RouteKnows
  <2>5. PaidTypes'
    BY <1>0, <2>2, <2>3 DEF PaidTypes, PaidTypeOK, PaidPc, RowState
  <2>6. RouteKnows'
    BY <1>0, <2>2 DEF RouteKnows, Resolving
  <2>7. DatasetsKnow'
    <3>1. \A d \in Dataset \ unsaved' : row'[d] # "none" \/ snap[d] = "none"
      BY <1>0, <2>1, <2>2, <2>3, Routes DEF DatasetsKnow, PaidTypes
    <3> QED BY <2>2, <3>1 DEF DatasetsKnow
  <2>8. SpendKnows'
    <3>1. "browser" \notin unsaved' => IF row'["browser"] = "none" THEN spent = Nothing ELSE billed' = spent
      BY <2>1, <2>3, <2>4, Routes
    <3> QED BY <1>0, <2>2, <2>4, <3>1 DEF SpendKnows, Running, Resolving
  <2>9. VerdictsKnow'
    <3>1. FinalRow' = FinalRow /\ (FinalRow \notin unsaved' => row'[FinalRow] = "success")
      BY <2>1, <2>2, <2>3 DEF FinalRow, Current
    <3> QED BY <2>2, <3>1 DEF VerdictsKnow, Running, Paid
  <2>10. FilesKnow'
    BY <2>2, <2>4 DEF FilesKnow, NothingLeftBehind, Running, Paid
  <2> QED BY <2>5, <2>6, <2>7, <2>8, <2>9, <2>10 DEF PaidInv
<1> QED BY <1>1, <1>2, <1>3, <1>4

-----------------------------------------------------------------------------
(* Sessions *)

\* The end of a session, or of the wish for one: the next geography is tried, or
\* the browser row is written with what the sessions cost.
LEMMA SessionOver ==
  ASSUME PaidInv, paidPc \in {"open", "candidates"},
         spent' \in Spend, tally' = spent', spent'.sessions = 0 => spent' = Nothing,
         session' = FALSE, geo' \in 0..3, blocked' \in BOOLEAN, refusals' \in Nat,
         \/ paidPc' = "open" /\ UNCHANGED rows
         \/ FinishBrowser,
         UNCHANGED <<job, attempt, expired, plan, gallery, cands, refreshable, openErr, temps, snap, outcome>>
  PROVE PaidInv'
<1>0. PaidTypes /\ RouteKnows /\ DatasetsKnow /\ SpendKnows /\ VerdictsKnow /\ FilesKnow
  BY DEF PaidInv
<1>1. /\ UNCHANGED <<route, gated, ready, attempt, expired, plan, slide, kept, pageFiles>>
      /\ UNCHANGED <<cands, refreshable, openErr, temps, snap, outcome>>
      /\ \/ paidPc' = "open" /\ row' = row /\ unsaved' = unsaved
         \/ paidPc' = "ended" /\ Record("browser", "failed")
  BY DEF job, gallery, rows, FinishBrowser
<1>2. route \in BrowserVideo /\ Running /\ row["browser"] = "none" /\ "browser" \notin unsaved /\ outcome = "none" /\ temps = {}
  BY <1>0 DEF RouteKnows, SpendKnows, VerdictsKnow, FilesKnow, Running
<1>3. /\ row' \in [Product -> RowState] /\ unsaved' \subseteq Product
      /\ paidPc' = "open" => row'["browser"] = "none" /\ "browser" \notin unsaved'
      /\ paidPc' = "ended" /\ "browser" \notin unsaved' => row'["browser"] = "failed" /\ billed' = spent'
      /\ \A p \in Product : row'[p] = row[p] \/ row'[p] = "failed"
      /\ \A d \in Dataset : row'[d] = row[d] /\ (d \in unsaved' <=> d \in unsaved)
  <2>1. CASE paidPc' = "open" /\ row' = row /\ unsaved' = unsaved
    BY <1>0, <1>2, <2>1 DEF PaidTypes, PaidTypeOK
  <2>2. CASE paidPc' = "ended" /\ Record("browser", "failed")
    BY <1>0, <2>2, Records, Routes
  <2> QED BY <1>1, <2>1, <2>2
<1>4. PaidTypes'
  <2>1. PaidTypeOK'
    <3>1. AttemptTypes /\ FetchTypes
      BY <1>0, PaidTypesSplit DEF PaidTypes
    <3>2. AttemptTypes'
      BY <1>1, <3>1 DEF AttemptTypes
    <3>3. FetchTypes'
      BY <1>1, <1>3, <3>1 DEF FetchTypes, RowState
    <3> QED BY <3>2, <3>3, PaidTypesNext
  <2>2. UNCHANGED <<kept, attempt, snap>> /\ paidPc' \in {"open", "ended"}
    BY <1>1
  <2> QED BY <1>0, <1>3, <2>1, <2>2 DEF PaidTypes, PaidPc
<1>5. RouteKnows'
  BY <1>0, <1>1, <1>2 DEF RouteKnows, Resolving
<1>6. DatasetsKnow'
  <2>1. \A d \in Dataset \ unsaved' : row'[d] # "none" \/ snap[d] = "none"
    BY <1>0, <1>3, Routes DEF DatasetsKnow, PaidTypes
  <2> QED BY <1>1, <2>1 DEF DatasetsKnow
<1>7. SpendKnows'
  BY <1>1, <1>2, <1>3, Routes DEF SpendKnows, Running, Resolving
<1>8. VerdictsKnow'
  BY <1>0, <1>1, <1>2, <1>3 DEF VerdictsKnow, Running, Early, Paid
<1>9. FilesKnow'
  BY <1>1, <1>2 DEF FilesKnow, NothingLeftBehind, Running, Paid
<1> QED BY <1>4, <1>5, <1>6, <1>7, <1>8, <1>9 DEF PaidInv

LEMMA SessionStep ==
  ASSUME PaidInv,
         \/ PolicySkips \/ SessionFails \/ PolicyRefuses \/ SessionOpens
         \/ CandidateFails \/ RefreshCandidates \/ CandidatesExhausted \/ CandidateFetched
  PROVE PaidInv'
<1>0. PaidTypes /\ RouteKnows /\ DatasetsKnow /\ SpendKnows /\ VerdictsKnow /\ FilesKnow
  BY DEF PaidInv
<1>1. /\ paidPc \in {"open", "candidates"} /\ route \in BrowserVideo /\ Running /\ row["browser"] = "none" /\ "browser" \notin unsaved
      /\ geo \in 0..3 /\ blocked \in BOOLEAN /\ refusals \in Nat
      /\ spent \in Spend /\ tally = spent /\ (spent.sessions = 0 => spent = Nothing)
      /\ paidPc = "open" => session = FALSE
      /\ paidPc = "candidates" => spent.sessions # 0
  BY <1>0 DEF PolicySkips, SessionFails, PolicyRefuses, SessionOpens, CandidateFails, RefreshCandidates,
              CandidatesExhausted, CandidateFetched, PaidTypes, PaidTypeOK, RouteKnows, SpendKnows, FilesKnow, Running
<1>2. CASE PolicySkips
  <2>1. tally' = spent' /\ spent' = spent /\ FinishBrowser /\ session' = FALSE
    BY <1>1, <1>2 DEF PolicySkips
  <2> QED BY <1>1, <1>2, <2>1, SessionOver DEF PolicySkips, process
<1>3. CASE SessionFails
  <2>1. spent' \in Spend /\ tally' = spent' /\ (spent'.sessions = 0 => spent' = Nothing)
    BY <1>0, <1>1, <1>3, Connects DEF SessionFails
  <2>2. /\ geo' \in 0..3 /\ session' = FALSE
        /\ (paidPc' = "open" /\ UNCHANGED rows) \/ FinishBrowser
    BY <1>1, <1>3 DEF SessionFails, GiveUpSession
  <2> QED BY <1>1, <1>3, <2>1, <2>2, SessionOver DEF SessionFails, process
<1>4. CASE PolicyRefuses
  <2>1. spent' \in Spend /\ tally' = spent' /\ (spent'.sessions = 0 => spent' = Nothing)
    BY <1>0, <1>1, <1>4, Connects DEF PolicyRefuses
  <2>2. session' = FALSE /\ geo' \in 0..3 /\ blocked' \in BOOLEAN /\ refusals' \in Nat /\ FinishBrowser
    BY <1>1, <1>4 DEF PolicyRefuses
  <2> QED BY <1>1, <1>4, <2>1, <2>2, SessionOver DEF PolicyRefuses
<1>5. CASE CandidatesExhausted
  <2>1. spent' = spent /\ tally' = spent'
    BY <1>1, <1>5 DEF CandidatesExhausted
  <2>2. /\ geo' \in 0..3 /\ session' = FALSE
        /\ (paidPc' = "open" /\ UNCHANGED rows) \/ FinishBrowser
    BY <1>1, <1>5 DEF CandidatesExhausted, GiveUpSession
  <2> QED BY <1>1, <1>5, <2>1, <2>2, SessionOver DEF CandidatesExhausted, process
<1> USE DEF job, process, gallery, rows
<1>6. CASE SessionOpens
  <2>1. spent' \in Spend /\ tally' = spent' /\ spent'.sessions # 0
    BY <1>0, <1>6, Connects DEF SessionOpens
  <2>2. /\ paidPc = "open" /\ paidPc' = "candidates" /\ session' = TRUE /\ cands' \in 0..2 /\ refreshable' \in BOOLEAN
        /\ UNCHANGED <<job, process, attempt, expired, plan, gallery, geo, openErr, temps, snap, rows, outcome>>
    BY <1>6 DEF SessionOpens
  <2>3. PaidTypes'
    BY <1>0, <2>1, <2>2 DEF PaidTypes, PaidTypeOK, PaidPc
  <2>4. RouteKnows'
    BY <1>0, <1>1, <2>2 DEF RouteKnows, Resolving
  <2>5. DatasetsKnow' /\ VerdictsKnow'
    BY <2>2, Proceeds DEF Running
  <2>6. SpendKnows'
    BY <1>1, <2>1, <2>2 DEF SpendKnows, Running, Resolving
  <2>7. FilesKnow'
    BY <1>0, <2>2 DEF FilesKnow, NothingLeftBehind, Running
  <2> QED BY <2>3, <2>4, <2>5, <2>6, <2>7 DEF PaidInv
<1>7. CASE CandidateFails \/ RefreshCandidates
  <2>1. spent' \in Spend /\ tally' = spent' /\ spent'.sessions # 0 /\ paidPc = "candidates"
    BY <1>0, <1>1, <1>7, Transfers DEF CandidateFails, RefreshCandidates
  <2>2. cands' \in 0..2 /\ refreshable' \in BOOLEAN
    <3>1. cands \in 0..2 /\ refreshable \in BOOLEAN
      BY <1>0 DEF PaidTypes, PaidTypeOK
    <3>2. CASE CandidateFails
      <4>1. cands > 0 /\ (cands' = 0 \/ cands' = cands - 1) /\ refreshable' = refreshable
        BY <3>2 DEF CandidateFails
      <4> QED BY <3>1, <4>1
    <3>3. CASE RefreshCandidates
      <4>1. cands' \in {0, 1} /\ 0 \in 0..2 /\ 1 \in 0..2
        BY <3>3 DEF RefreshCandidates
      <4>2. refreshable' \in BOOLEAN
        BY <3>3 DEF RefreshCandidates
      <4> QED BY <4>1, <4>2
    <3> QED BY <1>7, <3>2, <3>3
  <2>3. UNCHANGED <<job, process, attempt, expired, paidPc, plan, gallery, geo, openErr, session, temps, snap, rows, outcome>>
    BY <1>7 DEF CandidateFails, RefreshCandidates
  <2>4. PaidTypes'
    BY <1>0, <2>1, <2>2, <2>3 DEF PaidTypes, PaidTypeOK
  <2>5. RouteKnows' /\ FilesKnow'
    BY <1>0, <2>1, <2>3 DEF RouteKnows, Resolving, FilesKnow, NothingLeftBehind, Running
  <2>6. DatasetsKnow' /\ VerdictsKnow'
    BY <2>1, <2>3, Proceeds DEF Running
  <2>7. SpendKnows'
    BY <1>0, <1>1, <2>1, <2>3 DEF SpendKnows, Running, Resolving
  <2> QED BY <2>4, <2>5, <2>6, <2>7 DEF PaidInv
<1>8. CASE CandidateFetched
  <2>1. spent' \in Spend /\ tally' = spent' /\ spent'.sessions # 0
    BY <1>0, <1>1, <1>8, Transfers DEF CandidateFetched
  <2>2. /\ paidPc = "candidates" /\ paidPc' = "verify" /\ session' = FALSE /\ temps' = {"media"}
        /\ UNCHANGED <<job, process, attempt, expired, plan, gallery, geo, cands, refreshable, openErr, snap, rows, outcome>>
    BY <1>8 DEF CandidateFetched
  <2>3. PaidTypes'
    <3>1. AttemptTypes /\ FetchTypes
      BY <1>0, PaidTypesSplit DEF PaidTypes
    <3>2. AttemptTypes'
      BY <2>2, <3>1 DEF AttemptTypes
    <3>3. FetchTypes'
      BY <2>2, <3>1 DEF FetchTypes
    <3>4. PaidTypeOK'
      BY <3>2, <3>3, PaidTypesNext
    <3>5. paidPc' \in PaidPc
      BY <2>2 DEF PaidPc
    <3> QED BY <1>0, <2>1, <2>2, <3>4, <3>5 DEF PaidTypes
  <2>4. RouteKnows'
    BY <1>0, <1>1, <2>2, Routes DEF RouteKnows, Resolving
  <2>5. DatasetsKnow' /\ VerdictsKnow'
    BY <2>2, Proceeds DEF Running
  <2>6. SpendKnows'
    BY <1>1, <2>1, <2>2, Routes DEF SpendKnows, Running, Resolving
  <2>7. FilesKnow'
    BY <2>2 DEF FilesKnow, NothingLeftBehind, Running
  <2> QED BY <2>3, <2>4, <2>5, <2>6, <2>7 DEF PaidInv
<1> QED BY <1>2, <1>3, <1>4, <1>5, <1>6, <1>7, <1>8

-----------------------------------------------------------------------------
(* Galleries *)

\* A step inside a gallery that spends at most what the provider bills keeps
\* everything but the gallery's own bookkeeping, which is given.
LEMMA GalleryProceeds ==
  ASSUME PaidInv, paidPc \in {"slides", "page"}, paidPc' \in {"slides", "page"},
         slide' \in 1..Slides + 1, kept' \in Seq({"media", "html"}), Len(kept') < slide', pageFiles' \in BOOLEAN,
         paidPc' = "page" => slide' <= Slides,
         refusals' \in Nat, openErr' \in BOOLEAN, session' \in BOOLEAN,
         spent' \in Spend, tally' = spent', spent'.sessions = 0 => spent' = Nothing /\ ~session',
         UNCHANGED <<job, blocked, attempt, expired, plan, geo, cands, refreshable, temps, snap, rows, outcome>>
  PROVE PaidInv'
<1>0. PaidTypes /\ RouteKnows /\ DatasetsKnow /\ SpendKnows /\ VerdictsKnow /\ FilesKnow
  BY DEF PaidInv
<1> USE DEF job, rows
<1>1. PaidTypes'
  <2>1. PaidTypeOK'
    BY <1>0 DEF PaidTypes, PaidTypeOK
  <2> QED BY <1>0, <2>1 DEF PaidTypes, PaidPc
<1>2. RouteKnows'
  BY <1>0 DEF RouteKnows, Resolving
<1>3. DatasetsKnow' /\ VerdictsKnow'
  BY Proceeds DEF Running
<1>4. SpendKnows'
  BY <1>0 DEF SpendKnows, Running, Resolving
<1>5. FilesKnow'
  BY <1>0 DEF FilesKnow, NothingLeftBehind, Running
<1> QED BY <1>1, <1>2, <1>3, <1>4, <1>5 DEF PaidInv

\* The end of a gallery: its row and, if a session was bought, the browser row.
LEMMA GalleryOver ==
  ASSUME PaidInv, paidPc = "slides", paidPc' = "ended", NEW delivered \in BOOLEAN, AccountGallery(delivered),
         outcome' \in {"none", "complete", "partial"}, outcome' # "none" => delivered,
         delivered => outcome' # "none" \/ route = "igGallery",
         temps' = IF outcome' = "none" THEN {} ELSE {"zip"},
         UNCHANGED <<job, process, attempt, expired, plan, gallery, geo, cands, refreshable, openErr, spent, tally, snap>>
  PROVE PaidInv'
<1>0. PaidTypes /\ RouteKnows /\ DatasetsKnow /\ SpendKnows /\ VerdictsKnow /\ FilesKnow
  BY DEF PaidInv
<1>1. /\ UNCHANGED <<route, gated, ready, blocked, refusals, attempt, expired, plan, slide, kept, pageFiles>>
      /\ UNCHANGED <<geo, cands, refreshable, openErr, spent, tally, snap>>
      /\ session' = FALSE
  BY DEF job, process, gallery, AccountGallery
<1>2. route \in Gallery /\ route \notin BrowserVideo /\ plan # <<>> /\ row["browser"] = "none" /\ "browser" \notin unsaved /\ tally = spent
  BY <1>0, Routes DEF RouteKnows, SpendKnows, Running, PaidTypes
<1>3. Current \in Dataset /\ Current # "browser"
  BY <1>0, <1>2, Plans, Routes DEF PaidTypes, PaidTypeOK, Plan, Current
<1> DEFINE closed == {Current} \cup (IF tally.sessions = 0 THEN {} ELSE {"browser"})
           verdict == [p \in closed |-> IF delivered /\ (p = "browser" => pageFiles) THEN "success" ELSE "failed"]
<1>4. /\ closed \in SUBSET Product /\ Current \in closed /\ closed \subseteq {Current, "browser"}
      /\ "browser" \in closed <=> tally.sessions # 0
  BY <1>3, Routes, Zenon
<1>5. /\ verdict \in [closed -> {"open", "failed", "success"}]
      /\ \A p \in closed : verdict[p] # "none" /\ (~delivered => verdict[p] = "failed")
      /\ delivered => verdict[Current] = "success"
  <2>1. \A p \in closed : verdict[p] = IF delivered /\ (p = "browser" => pageFiles) THEN "success" ELSE "failed"
    BY Zenon
  <2> QED BY <1>3, <1>4, <2>1, Zenon
<1>6. Save(verdict)
  BY Zenon DEF AccountGallery
<1> HIDE DEF closed, verdict
<1>7. /\ row' \in [Product -> RowState] /\ unsaved' \subseteq Product
      /\ \A p \in Product \ closed : row'[p] = row[p] /\ (p \in unsaved' <=> p \in unsaved)
      /\ \A p \in closed : row'[p] \in {row[p], verdict[p]} /\ (p \notin unsaved' => row'[p] = verdict[p])
      /\ "browser" \in closed \ unsaved' => billed' = tally'
  BY <1>0, <1>4, <1>5, <1>6, Saves, Zenon
<1>8. \A d \in Dataset \ unsaved' : row'[d] # "none" \/ (row'[d] = row[d] /\ d \notin unsaved /\ d # Current)
  <2> TAKE d \in Dataset \ unsaved'
  <2>1. d \in Product /\ d \notin unsaved'
    BY Routes, Zenon
  <2>2. CASE d \in closed
    BY <1>5, <1>7, <2>1, <2>2, Zenon
  <2>3. CASE d \notin closed
    BY <1>4, <1>7, <2>1, <2>3, Zenon
  <2> QED BY <2>2, <2>3
<1>9. "browser" \notin unsaved' => IF row'["browser"] = "none" THEN tally.sessions = 0 ELSE billed' = tally
  BY <1>1, <1>2, <1>4, <1>5, <1>7, Routes, Zenon
<1>10. PaidTypes'
  <2>1. temps' \subseteq {"media", "dir", "zip"} /\ session' \in BOOLEAN
    BY <1>1
  <2>2. PaidTypeOK'
    BY <1>0, <1>1, <1>7, <2>1 DEF PaidTypes, PaidTypeOK, RowState
  <2> QED BY <1>0, <1>1, <1>7, <2>2 DEF PaidTypes, PaidPc
<1>11. RouteKnows'
  BY <1>0, <1>1 DEF RouteKnows, Resolving
<1>12. DatasetsKnow'
  <2>1. \A d \in Dataset \ unsaved' : row'[d] # "none" \/ snap[d] = "none"
    BY <1>0, <1>8, Routes DEF DatasetsKnow, PaidTypes
  <2> QED BY <1>1, <2>1 DEF DatasetsKnow
<1>13. SpendKnows'
  <2>1. "browser" \notin unsaved' => IF row'["browser"] = "none" THEN spent' = Nothing ELSE billed' = spent'
    BY <1>0, <1>1, <1>2, <1>9 DEF SpendKnows
  <2> QED BY <1>0, <1>1, <2>1 DEF SpendKnows, Running, Resolving
<1>14. VerdictsKnow'
  <2>1. CASE delivered
    <3>1. FinalRow' = Current
      BY <1>1, <1>2, Routes DEF FinalRow, Current
    <3>2. Current \notin unsaved' => row'[Current] = "success"
      BY <1>4, <1>5, <1>7, <2>1
    <3> QED BY <1>1, <2>1, <3>1, <3>2 DEF VerdictsKnow, Running, Paid
  <2>2. CASE ~delivered
    <3>1. outcome' = "none"
      BY <2>2
    <3>2. \A p \in Product : row'[p] = "success" => row[p] = "success"
      BY <1>5, <1>7, <2>2
    <3> QED BY <1>0, <1>1, <3>1, <3>2 DEF VerdictsKnow, Running, Paid, Early
  <2> QED BY <2>1, <2>2
<1>15. FilesKnow'
  BY <1>1, <1>2 DEF FilesKnow, NothingLeftBehind, Running, Paid
<1> QED BY <1>10, <1>11, <1>12, <1>13, <1>14, <1>15 DEF PaidInv

LEMMA GalleryStep ==
  ASSUME PaidInv,
         \/ SlideStored \/ SlideLost \/ PageUnavailable \/ PageOpens \/ SlideThroughPage
         \/ GalleryFails \/ InstagramZipUnreadable \/ HandGalleryOver
  PROVE PaidInv'
<1>0. /\ PaidTypes /\ spent \in Spend /\ tally = spent
      /\ spent.sessions = 0 => spent = Nothing /\ ~session
      /\ slide \in 1..Slides + 1 /\ kept \in Seq({"media", "html"}) /\ Len(kept) < slide /\ pageFiles \in BOOLEAN
      /\ refusals \in Nat /\ openErr \in BOOLEAN /\ session \in BOOLEAN /\ ready \in BOOLEAN
      /\ paidPc = "page" => slide <= Slides
      /\ Slides \in Nat
  BY SlidesAssumption DEF PaidInv, PaidTypes, PaidTypeOK, SpendKnows
<1>1. \A c \in {"media", "html"} : Append(kept, c) \in Seq({"media", "html"}) /\ Len(Append(kept, c)) = Len(kept) + 1
  BY <1>0
<1>2. slide <= Slides => /\ slide + 1 \in 1..Slides + 1 /\ Len(kept) < slide + 1 /\ Len(kept) + 1 < slide + 1
  <2>1. Len(kept) \in Nat /\ slide \in Nat
    BY <1>0
  <2> QED BY <1>0, <2>1
<1>3. CASE SlideStored
  <2>1. /\ slide <= Slides /\ slide' = slide + 1 /\ paidPc = "slides" /\ paidPc' = "slides"
        /\ \E c \in {"media", "html"} : kept' = Append(kept, c)
    BY <1>3 DEF SlideStored, NextSlide, Accepted
  <2>2. slide' \in 1..Slides + 1 /\ kept' \in Seq({"media", "html"}) /\ Len(kept') < slide'
    BY <1>1, <1>2, <2>1
  <2>3. UNCHANGED <<job, process, attempt, expired, plan, pageFiles, browsing, temps, snap, rows, outcome>>
    BY <1>3 DEF SlideStored
  <2> QED BY <1>0, <2>1, <2>2, <2>3, GalleryProceeds DEF process, browsing
<1>4. CASE SlideLost
  <2>1. /\ slide <= Slides /\ paidPc = "slides"
        /\ (slide' = slide + 1 /\ paidPc' = "slides") \/ (slide' = slide /\ paidPc' = "page")
        /\ UNCHANGED <<job, process, attempt, expired, plan, kept, pageFiles, browsing, temps, snap, rows, outcome>>
    BY <1>4 DEF SlideLost, NextSlide
  <2>2. slide' \in 1..Slides + 1 /\ Len(kept') < slide' /\ (paidPc' = "page" => slide' <= Slides)
    BY <1>0, <1>2, <2>1
  <2> QED BY <1>0, <2>1, <2>2, GalleryProceeds DEF process, browsing
<1>5. CASE PageUnavailable
  <2>1. /\ slide <= Slides /\ slide' = slide + 1 /\ paidPc = "page" /\ paidPc' = "slides" /\ ~session
        /\ UNCHANGED <<job, blocked, attempt, expired, plan, kept, pageFiles, geo, cands, refreshable, session, temps, snap, rows, outcome>>
    BY <1>0, <1>5 DEF PageUnavailable, NextSlide
  <2>2. slide' \in 1..Slides + 1 /\ Len(kept') < slide'
    BY <1>2, <2>1
  <2>3. /\ openErr' \in BOOLEAN /\ refusals' \in {refusals, refusals + 1}
        /\ (UNCHANGED <<spent, tally>>) \/ \E yes \in BOOLEAN : Connected(yes)
    BY <1>0, <1>5 DEF PageUnavailable
  <2>4. spent' \in Spend /\ tally' = spent' /\ (spent'.sessions = 0 => spent' = Nothing /\ ~session')
    BY <1>0, <2>1, <2>3, Connects
  <2>5. refusals' \in Nat
    BY <1>0, <2>3
  <2> QED BY <1>0, <2>1, <2>2, <2>3, <2>4, <2>5, GalleryProceeds
<1>6. CASE PageOpens
  <2>1. /\ paidPc = "page" /\ paidPc' = "page" /\ session' = TRUE
        /\ UNCHANGED <<job, process, attempt, expired, plan, gallery, geo, cands, refreshable, openErr, temps, snap, rows, outcome>>
    BY <1>6 DEF PageOpens
  <2>2. spent' \in Spend /\ tally' = spent' /\ spent'.sessions # 0
    BY <1>0, <1>6, Connects DEF PageOpens
  <2> QED BY <1>0, <2>1, <2>2, GalleryProceeds DEF process, gallery
<1>7. CASE SlideThroughPage
  <2>1. /\ slide <= Slides /\ slide' = slide + 1 /\ paidPc = "page" /\ paidPc' = "slides" /\ session
        /\ UNCHANGED <<job, process, attempt, expired, plan, geo, cands, refreshable, openErr, session, temps, snap, rows, outcome>>
    BY <1>0, <1>7 DEF SlideThroughPage, NextSlide
  <2>2. kept' \in {Append(kept, "media"), kept} /\ pageFiles' \in BOOLEAN
    BY <1>0, <1>7 DEF SlideThroughPage
  <2>3. \E bytes \in Nat : Transferred(bytes)
    BY <1>7 DEF SlideThroughPage
  <2>4. slide' \in 1..Slides + 1 /\ kept' \in Seq({"media", "html"}) /\ Len(kept') < slide'
    BY <1>0, <1>1, <1>2, <2>1, <2>2
  <2>5. spent' \in Spend /\ tally' = spent' /\ spent'.sessions # 0
    BY <1>0, <2>1, <2>3, Transfers
  <2> QED BY <1>0, <2>1, <2>2, <2>4, <2>5, GalleryProceeds DEF process
<1>8. outcome = "none" \/ paidPc \in {"ended", "done"}
  BY DEF PaidInv, VerdictsKnow
<1>9. CASE GalleryFails
  <2>1. /\ paidPc = "slides" /\ paidPc' = "ended" /\ AccountGallery(FALSE) /\ temps' = {} /\ outcome' = outcome
    BY <1>9 DEF GalleryFails
  <2> QED BY <1>8, <1>9, <2>1, GalleryOver DEF GalleryFails
<1>10. CASE InstagramZipUnreadable
  <2>1. /\ paidPc = "slides" /\ paidPc' = "ended" /\ AccountGallery(TRUE) /\ temps' = {} /\ outcome' = outcome
        /\ route = "igGallery"
    BY <1>10 DEF InstagramZipUnreadable
  <2> QED BY <1>8, <1>10, <2>1, GalleryOver DEF InstagramZipUnreadable
<1>11. CASE HandGalleryOver
  <2>1. /\ paidPc = "slides" /\ paidPc' = "ended" /\ AccountGallery(TRUE) /\ temps' = {"zip"}
        /\ outcome' \in {"complete", "partial"}
    BY <1>11 DEF HandGalleryOver
  <2> QED BY <1>11, <2>1, GalleryOver DEF HandGalleryOver
<1> QED BY <1>3, <1>4, <1>5, <1>6, <1>7, <1>9, <1>10, <1>11

-----------------------------------------------------------------------------
(* Around the attempt *)

LEMMA AroundStep ==
  ASSUME PaidInv, ContextExpires \/ Restarts \/ WorkerFinishes \/ UNCHANGED paidVars
  PROVE PaidInv'
<1>0. PaidTypes /\ RouteKnows /\ DatasetsKnow /\ SpendKnows /\ VerdictsKnow /\ FilesKnow
  BY DEF PaidInv
<1> USE DEF job, process, browsing, gallery, rows
<1>1. CASE ContextExpires
  <2>1. PaidTypes'
    <3>1. AttemptTypes /\ FetchTypes
      BY <1>0, PaidTypesSplit DEF PaidTypes
    <3>2. AttemptTypes' /\ FetchTypes'
      BY <1>1, <3>1 DEF ContextExpires, AttemptTypes, FetchTypes
    <3>3. PaidTypeOK'
      BY <3>2, PaidTypesNext
    <3> QED BY <1>0, <1>1, <3>3 DEF ContextExpires, PaidTypes
  <2>2. RouteKnows' /\ FilesKnow'
    BY <1>0, <1>1 DEF ContextExpires, RouteKnows, FilesKnow, NothingLeftBehind, Running
  <2>3. DatasetsKnow' /\ VerdictsKnow'
    BY <1>1, Proceeds DEF ContextExpires, Running
  <2>4. SpendKnows'
    BY <1>0, <1>1 DEF ContextExpires, SpendKnows, Running
  <2> QED BY <2>1, <2>2, <2>3, <2>4 DEF PaidInv
<1>2. CASE Restarts
  <2>1. /\ paidPc' = IF Running THEN "crashed" ELSE paidPc
        /\ session' = FALSE /\ blocked' = FALSE /\ refusals' = 0
        /\ UNCHANGED <<route, gated, ready, attempt, expired, plan, slide, kept, pageFiles>>
        /\ UNCHANGED <<geo, cands, refreshable, openErr, temps, snap, spent, tally, rows, outcome>>
    BY <1>2 DEF Restarts
  <2>2. PaidTypes'
    <3>0. AttemptTypes /\ FetchTypes
      BY <1>0, PaidTypesSplit DEF PaidTypes
    <3>1. PaidTypeOK'
      <4>1. AttemptTypes'
        BY <2>1, <3>0 DEF AttemptTypes
      <4>2. FetchTypes'
        BY <2>1, <3>0 DEF FetchTypes
      <4> QED BY <4>1, <4>2, PaidTypesNext
    <3>2. paidPc' \in PaidPc /\ (paidPc' = "queued" => paidPc = "queued") /\ (paidPc' = "page" => paidPc = "page")
      BY <1>0, <2>1 DEF PaidTypes, PaidPc
    <3> QED BY <1>0, <2>1, <3>1, <3>2 DEF PaidTypes
  <2>3. RouteKnows' /\ FilesKnow'
    BY <1>0, <2>1 DEF RouteKnows, FilesKnow, NothingLeftBehind, Running, Resolving, Paid
  <2>4. DatasetsKnow'
    BY <1>0, <2>1 DEF DatasetsKnow, Running, Current
  <2>5. SpendKnows'
    BY <1>0, <2>1 DEF SpendKnows, Running, Resolving
  <2>6. VerdictsKnow'
    BY <1>0, <2>1 DEF VerdictsKnow, Running, Paid, Early, FinalRow, Current
  <2> QED BY <2>2, <2>3, <2>4, <2>5, <2>6 DEF PaidInv
<1>3. CASE WorkerFinishes
  <2>1. /\ paidPc \in {"ended", "crashed"}
        /\ \/ outcome # "none" /\ paidPc' = "done" /\ temps' = {}
           \/ outcome = "none" /\ attempt < Attempts /\ paidPc' = "queued" /\ temps' = temps
        /\ UNCHANGED <<job, process, attempt, expired, plan, gallery, browsing, snap, rows, outcome>>
    BY <1>3 DEF WorkerFinishes
  <2>2. PaidTypes'
    <3>1. temps' \subseteq {"media", "dir", "zip"}
      BY <1>0, <2>1 DEF PaidTypes, PaidTypeOK
    <3>2. PaidTypeOK'
      BY <1>0, <2>1, <3>1 DEF PaidTypes, PaidTypeOK
    <3> QED BY <1>0, <2>1, <3>2 DEF PaidTypes, PaidPc
  <2>3. RouteKnows' /\ FilesKnow'
    BY <1>0, <2>1 DEF RouteKnows, FilesKnow, NothingLeftBehind, Running, Resolving
  <2>4. DatasetsKnow'
    BY <1>0, <2>1 DEF DatasetsKnow, VerdictsKnow
  <2>5. SpendKnows' /\ VerdictsKnow'
    BY <1>0, <2>1 DEF SpendKnows, VerdictsKnow, Running, Resolving, FilesKnow
  <2> QED BY <2>2, <2>3, <2>4, <2>5 DEF PaidInv
<1>4. CASE UNCHANGED paidVars
  <2>1. PaidTypes' /\ RouteKnows' /\ FilesKnow' /\ SpendKnows'
    BY <1>0, <1>4 DEF paidVars, PaidTypes, PaidTypeOK, RouteKnows, FilesKnow, NothingLeftBehind, SpendKnows, Running, Paid
  <2>2. DatasetsKnow' /\ VerdictsKnow'
    BY <1>0, <1>4 DEF paidVars, DatasetsKnow, VerdictsKnow, Running, Paid, Early, FinalRow, Current
  <2> QED BY <2>1, <2>2 DEF PaidInv
<1> QED BY <1>1, <1>2, <1>3, <1>4

-----------------------------------------------------------------------------

\* The invariant holds.
THEOREM PaidInvariant == PaidSpec => []PaidInv
<1>1. PaidInv /\ [PaidNext]_paidVars => PaidInv'
  BY AttemptStep, DatasetStep, VideoStep, SessionStep, GalleryStep, AroundStep DEF PaidNext
<1> QED BY <1>1, PaidInvInit, PTL DEF PaidSpec

\* The types of the fallback.
THEOREM PaidTyped == PaidSpec => []PaidTypeOK
<1>1. PaidInv => PaidTypeOK
  BY DEF PaidInv, PaidTypes
<1> QED BY <1>1, PaidInvariant, PTL

\* Whatever an attempt of the paid fallback buys has a usage row that says so
\* when it returns, and after a crash what was collected has one, but for the
\* rows whose last save failed (client.go:300-344, 368-377, tiktok.go:88-93).
THEOREM SpendRecorded == PaidSpec => []SpendIsRecorded
<1>1. PaidInv => SpendIsRecorded
  BY DEF PaidInv, PaidTypes, DatasetsKnow, SpendKnows, SpendIsRecorded
<1> QED BY <1>1, PaidInvariant, PTL

\* A delivered post is a success in its final row unless saving that failed,
\* and outside Instagram's galleries a success there was delivered (instagram.go:267).
THEOREM SuccessDelivered == PaidSpec => []SuccessRowsAreDeliveries
<1>1. ASSUME PaidInv PROVE SuccessRowsAreDeliveries
  <2>1. SUFFICES ASSUME paidPc = "ended", ~Paid, route # "igGallery", NEW p \in {FinalRow, "browser"}
                 PROVE row[p] # "success"
    BY <1>1 DEF PaidInv, VerdictsKnow, SuccessRowsAreDeliveries
  <2>2. plan # <<>> => Current \in Dataset
    BY <1>1, Plans DEF PaidInv, PaidTypes, PaidTypeOK, Plan, Current
  <2>3. p \in Product /\ (route = "ttVideo" => p = "browser")
    BY <1>1, <2>1, <2>2, Routes DEF PaidInv, RouteKnows, FinalRow
  <2> QED BY <1>1, <2>1, <2>3 DEF PaidInv, VerdictsKnow, Early
<1> QED BY <1>1, PaidInvariant, PTL

\* An attempt that returns holds no session and no file but the one it hands
\* over, which is gone when it is stored (tempfile.go:12-24).
THEOREM NothingStaysBehind == PaidSpec => []NothingLeftBehind
<1>1. PaidInv => NothingLeftBehind
  BY DEF PaidInv, FilesKnow
<1> QED BY <1>1, PaidInvariant, PTL

-----------------------------------------------------------------------------
(* RangedFetch. StoredIsWhole is not inductive: it depends on what the loop  *)
(* knows when it asks.                                                       *)

\* While the loop runs its file exists, every answer was whole and in its place,
\* and a known length has not been reached.
LoopKnows ==
  fetchPc = "fetching" =>
    /\ temp
    /\ "restart" \notin lapses
    /\ total > 0 => offset < total

FetchInv == FetchTypeOK /\ StoredIsWhole /\ AsksForward /\ LoopKnows

-----------------------------------------------------------------------------

\* The loop knows enough to ask for something when its length is not reached.
LEMMA AsksSomething ==
  ASSUME NEW bytes \in Nat, NEW length \in Nat, length > 0 => bytes < length
  PROVE  LET asked == IF length > 0 /\ length - bytes < Chunk THEN length - bytes ELSE Chunk
         IN asked \in Nat /\ asked > 0
BY ChunkAssumption

\* What the checks after the loop let pass.
LEMMA Verdicts ==
  ASSUME NEW bytes \in Nat, NEW length \in Nat
  PROVE  /\ Verdict(bytes, length) \in {"stored", "failed"}
         /\ Verdict(bytes, length) = "stored" => bytes > 0 /\ bytes >= length
BY DEF Verdict

-----------------------------------------------------------------------------

LEMMA FetchInvInit == FetchInit => FetchInv
<1> SUFFICES ASSUME FetchInit PROVE FetchInv
  OBVIOUS
<1> USE DEF FetchInit
<1>1. FetchTypeOK
  BY SizeAssumption, TriesAssumption DEF FetchTypeOK
<1>2. StoredIsWhole /\ LoopKnows
  BY SizeAssumption DEF StoredIsWhole, LoopKnows
<1>3. AsksForward
  <2>1. offset \in Nat /\ total \in Nat /\ size \in Nat /\ offset = 0
    BY SizeAssumption
  <2>2. Requested > 0
    BY <2>1, AsksSomething DEF Requested
  <2> QED BY <2>1, <2>2 DEF AsksForward
<1> QED BY <1>1, <1>2, <1>3 DEF FetchInv

\* An answer that ends the loop, whatever it was.
LEMMA LoopEndsWith ==
  ASSUME FetchTypeOK, fetchPc' = Verdict(offset', total'), temp' = (fetchPc' # "failed"),
         size' = size, offset' \in Nat, total' \in {0} \cup FileSize, try' \in 0..MaxTries - 1, lapses' \subseteq Lapse,
         "restart" \notin lapses' /\ (total' = size \/ (total' = 0 /\ "short" \notin lapses'))
           => offset' <= size /\ (total' = 0 => offset' = size)
  PROVE  FetchInv'
<1>1. total' \in Nat /\ size \in Nat
  BY SizeAssumption DEF FetchTypeOK
<1>2. /\ fetchPc' \in {"stored", "failed"} /\ temp' \in BOOLEAN
      /\ fetchPc' = "stored" => offset' > 0 /\ offset' >= total'
  BY <1>1, Verdicts
<1>3. FetchTypeOK'
  BY <1>2 DEF FetchTypeOK
<1>4. StoredIsWhole'
  <2>1. ASSUME fetchPc' = "stored", "restart" \notin lapses', Informed' PROVE offset' = size'
    BY <1>1, <1>2, <2>1 DEF Informed
  <2> QED BY <1>2, <2>1 DEF StoredIsWhole
<1>5. AsksForward' /\ LoopKnows'
  BY <1>2 DEF AsksForward, LoopKnows
<1> QED BY <1>3, <1>4, <1>5 DEF FetchInv

LEMMA FetchInvStep == FetchInv /\ [FetchNext]_fetchVars => FetchInv'
<1> SUFFICES ASSUME FetchInv, [FetchNext]_fetchVars PROVE FetchInv'
  OBVIOUS
<1>0. FetchTypeOK /\ StoredIsWhole /\ AsksForward /\ LoopKnows
  BY DEF FetchInv
<1>00. /\ size \in Nat /\ total \in Nat /\ offset \in Nat /\ 0 \in 0..MaxTries - 1
       /\ lapses \subseteq Lapse
  BY <1>0, SizeAssumption, TriesAssumption DEF FetchTypeOK
<1>1. ASSUME GiveUp, fetchPc = "fetching" PROVE FetchInv'
  BY <1>0, <1>1 DEF FetchInv, GiveUp, FetchTypeOK, StoredIsWhole, AsksForward, LoopKnows, Informed
<1>2. CASE ChunkArrives
  <2>1. PICK n \in Sendable :
          /\ offset' = offset + n
          /\ total' \in {total, IF total = 0 THEN size ELSE total}
          /\ fetchPc' = IF LastChunk(n, offset', total') THEN Verdict(offset', total') ELSE "fetching"
          /\ lapses' = lapses \cup (IF n < Requested /\ offset' < size THEN {"short"} ELSE {})
    BY <1>2 DEF ChunkArrives
  <2>2. /\ fetchPc = "fetching" /\ try' = 0 /\ temp' = (fetchPc' # "failed") /\ size' = size
    BY <1>2 DEF ChunkArrives
  <2>3. temp /\ "restart" \notin lapses /\ offset <= size /\ (total > 0 => offset < total)
    BY <1>0, <2>2 DEF LoopKnows, AsksForward
  <2>4. Requested \in Nat /\ Requested > 0
    BY <1>00, <2>3, AsksSomething DEF Requested
  <2>5. /\ n \in 0..Requested /\ offset + n <= size
    BY <2>1 DEF Sendable
  <2>6. /\ total' \in Nat /\ total' \in {0} \cup FileSize /\ lapses' \subseteq Lapse /\ "restart" \notin lapses'
        /\ offset' \in Nat /\ offset' <= size /\ (total = 0 \/ total' = total)
    BY <1>0, <1>00, <2>1, <2>3, <2>4, <2>5 DEF FetchTypeOK, Lapse
  <2>7. CASE LastChunk(n, offset', total')
    <3>1. ASSUME total' = 0, "short" \notin lapses' PROVE offset' = size
      <4>1. n < Requested
        BY <1>00, <2>4, <2>5, <2>7, <3>1 DEF LastChunk
      <4> QED BY <1>00, <2>1, <2>6, <3>1, <4>1
    <3>2. ("restart" \notin lapses' /\ (total' = size \/ (total' = 0 /\ "short" \notin lapses')))
             => offset' <= size /\ (total' = 0 => offset' = size)
      <4>1. ASSUME total' = size, total' = 0 PROVE offset' = size
        BY <1>00, <2>6, <4>1
      <4> QED BY <2>6, <3>1, <4>1
    <3>3. try' \in 0..MaxTries - 1
      BY <1>00, <2>2
    <3> QED BY <1>0, <2>1, <2>2, <2>6, <2>7, <3>2, <3>3, LoopEndsWith
  <2>8. CASE ~LastChunk(n, offset', total')
    <3>1. fetchPc' = "fetching" /\ temp' = TRUE
      BY <2>1, <2>2, <2>8
    <3>2. total' > 0 => offset' < total'
      BY <2>6, <2>8 DEF LastChunk
    <3>3. FetchTypeOK' /\ LoopKnows'
      BY <1>0, <1>00, <2>2, <2>6, <3>1, <3>2 DEF FetchTypeOK, LoopKnows
    <3>4. AsksForward'
      <4>1. Requested' = IF total' > 0 /\ total' - offset' < Chunk THEN total' - offset' ELSE Chunk
        BY DEF Requested
      <4>2. Requested' > 0
        BY <2>6, <3>2, <4>1, AsksSomething
      <4> QED BY <2>2, <2>6, <4>2 DEF AsksForward
    <3> QED BY <3>1, <3>3, <3>4 DEF FetchInv, StoredIsWhole
  <2> QED BY <2>7, <2>8
<1>3. CASE FileArrives
  <2>1. /\ offset' = offset + size /\ total' = total /\ size' = size /\ try' = 0
        /\ fetchPc' = Verdict(offset', total') /\ temp' = (fetchPc' # "failed")
        /\ lapses' = lapses \cup (IF offset > 0 THEN {"restart"} ELSE {})
    BY <1>3 DEF FileArrives
  <2>2. /\ offset' \in Nat /\ total' \in {0} \cup FileSize /\ try' \in 0..MaxTries - 1 /\ lapses' \subseteq Lapse
    BY <1>0, <1>00, <2>1 DEF FetchTypeOK, Lapse
  <2>3. "restart" \notin lapses' => offset' = size
    BY <1>00, <2>1
  <2>4. ("restart" \notin lapses' /\ (total' = size \/ (total' = 0 /\ "short" \notin lapses')))
           => offset' <= size /\ (total' = 0 => offset' = size)
    BY <1>00, <2>3
  <2> QED BY <1>0, <2>1, <2>2, <2>4, LoopEndsWith
<1>4. CASE RangeEnds
  <2>0. fetchPc = "fetching" /\ offset = size
    BY <1>0, <1>00, <1>4 DEF RangeEnds, AsksForward
  <2>1. CASE offset = 0 /\ GiveUp
    BY <1>1, <2>0, <2>1
  <2>2. CASE /\ fetchPc' = Verdict(offset, total) /\ temp' = (fetchPc' # "failed")
             /\ UNCHANGED <<size, total, offset, try, lapses>>
    <3>1. /\ total' \in {0} \cup FileSize /\ try' \in 0..MaxTries - 1 /\ lapses' \subseteq Lapse /\ offset' \in Nat
      BY <1>0, <2>2 DEF FetchTypeOK
    <3>2. fetchPc' = Verdict(offset', total') /\ temp' = (fetchPc' # "failed") /\ size' = size
      BY <2>2
    <3>3. offset' <= size /\ (total' = 0 => offset' = size)
      BY <1>00, <2>0, <2>2
    <3> QED BY <1>0, <3>1, <3>2, <3>3, LoopEndsWith
  <2> QED BY <1>4, <2>1, <2>2 DEF RangeEnds
<1>5. CASE ChunkFails
  <2>0. fetchPc = "fetching"
    BY <1>5 DEF ChunkFails
  <2>1. CASE GiveUp
    BY <1>1, <2>0, <2>1
  <2>2. CASE try + 1 < MaxTries /\ try' = try + 1 /\ UNCHANGED <<size, total, offset, temp, fetchPc, lapses>>
    <3>1. FetchTypeOK'
      BY <1>0, <2>2, TriesAssumption DEF FetchTypeOK
    <3>2. Requested' = Requested
      BY <2>2 DEF Requested
    <3> QED BY <1>0, <2>2, <3>1, <3>2 DEF FetchInv, StoredIsWhole, AsksForward, LoopKnows, Informed
  <2> QED BY <1>5, <2>1, <2>2 DEF ChunkFails
<1>6. CASE FetchAborts
  BY <1>1, <1>6 DEF FetchAborts
<1>7. CASE UNCHANGED fetchVars
  <2>1. Requested' = Requested
    BY <1>7 DEF fetchVars, Requested
  <2> QED BY <1>0, <1>7, <2>1 DEF fetchVars, FetchInv, FetchTypeOK, StoredIsWhole, AsksForward, LoopKnows, Informed
<1> QED BY <1>2, <1>3, <1>4, <1>5, <1>6, <1>7 DEF FetchNext

\* A fetch that failed leaves no file; one that succeeded has at least what the
\* loop knows of, and is the whole file when the length is known as it is, or
\* unknown and no answer fell short, whatever the sizes of file and chunk and
\* whichever of its requests the server answers with a range; and no request is
\* empty or past the end (browser_fetch.go:376-438).
THEOREM FetchIsWhole == FetchSpec => [](StoredIsWhole /\ AsksForward)
<1>1. FetchInv => StoredIsWhole /\ AsksForward
  BY DEF FetchInv
<1> QED BY <1>1, FetchInvInit, FetchInvStep, PTL DEF FetchSpec
=============================================================================
