---------------------------- MODULE PaidFallback ----------------------------
(* The paid fallback of internal/brightdata: one archive job whose native   *)
(* flow fails buys the post through a dataset, a remote browser session or  *)
(* both, and accounts for what it spent in usage rows. One job, its River   *)
(* attempts, the process they run in, and the answers of the provider.      *)
EXTENDS Naturals, Sequences

CONSTANTS Attempts,   \* River's MaxAttempts
          Slides      \* media entries of a gallery post

ASSUME AttemptsAssumption == Attempts \in Nat \ {0}
ASSUME SlidesAssumption == Slides \in Nat \ {0}

VARIABLES route,      \* platform and item type of the job
          gated,      \* the provider's policy refuses the platform to a browser
          ready,      \* BrowserReady: browser credentials are configured
          blocked,    \* policyBlocked[host], memory of the process
          refusals,   \* sessions this process bought to be refused by policy
          attempt,    \* attempts started
          paidPc,     \* where the attempt is
          expired,    \* the attempt's context is done
          plan,       \* datasets to try, the current one first
          slide,      \* the next gallery entry
          kept,       \* what each stored entry really is
          geo,        \* session geographies left
          cands,      \* candidate URLs left in the session
          refreshable,      \* RefreshMediaURLs has not been called in the session
          openErr,    \* tiktokMediaFetcher.sessionErr is set
          pageFiles,  \* tiktokMediaFetcher.browserFiles > 0
          session,    \* a remote session is open
          temps,      \* temporary files and directories that exist
          snap,       \* dataset -> what the provider did for it in this attempt
          spent,      \* sessions and media bytes the provider will bill for this attempt
          tally,      \* the same as the code counts them
          row,        \* product -> the usage row of this attempt
          billed,     \* sessions and bytes in the browser row
          unsaved,    \* products whose row the attempt last failed to save
          outcome     \* what the attempt returned

paidVars == <<route, gated, ready, blocked, refusals, attempt, paidPc, expired, plan, slide,
              kept, geo, cands, refreshable, openErr, pageFiles, session, temps, snap, spent, tally, row, billed, unsaved, outcome>>
job == <<route, gated, ready>>
process == <<blocked, refusals>>
browsing == <<geo, cands, refreshable, openErr, session, spent, tally>>
gallery == <<slide, kept, pageFiles>>
rows == <<row, billed, unsaved>>

InstagramVideo == {"igReel", "igPost"}
DirectVideo == InstagramVideo \cup {"fbVideo"}
Gallery == {"igGallery", "postGallery", "ttPhotos"}   \* postGallery: Reddit, X, Pinterest, Facebook
BrowserVideo == {"ttVideo", "youtube"}
Route == DirectVideo \cup Gallery \cup BrowserVideo

Dataset == {"reels", "posts"}
Product == Dataset \cup {"browser"}
Nothing == [sessions |-> 0, bytes |-> 0]

\* SupportsFallback: what is signed to the resolver's address needs a browser.
Supported == route \in BrowserVideo => ready
Datasets == IF route = "igReel" THEN <<"reels", "posts">> ELSE IF route = "youtube" THEN <<>> ELSE <<"posts">>
\* tiktokSessionCountries: the region and any peer; archiveYouTube: any peer, de, gb.
Geographies == IF route = "youtube" THEN 3 ELSE 2
Current == Head(plan)

PaidInit ==
  /\ route \in Route
  /\ gated \in (IF route \in BrowserVideo \cup {"ttPhotos"} THEN BOOLEAN ELSE {FALSE})
  /\ ready \in BOOLEAN
  /\ blocked = FALSE /\ refusals = 0 /\ attempt = 0 /\ paidPc = "queued"
  /\ expired = FALSE /\ plan = <<>> /\ slide = 1 /\ kept = <<>> /\ pageFiles = FALSE
  /\ geo = 0 /\ cands = 0 /\ refreshable = FALSE /\ openErr = FALSE /\ session = FALSE
  /\ temps = {} /\ snap = [d \in Dataset |-> "none"] /\ spent = Nothing /\ tally = Nothing
  /\ row = [p \in Product |-> "none"] /\ billed = Nothing /\ unsaved = {} /\ outcome = "none"

---------------------------------------------------------------------------
(* FallbackArchiver.Archive *)

\* River runs the attempt; the usage rows of earlier ones stay as they are.
StartAttempt ==
  /\ paidPc = "queued"
  /\ attempt' = attempt + 1
  /\ paidPc' = "native" /\ expired' = FALSE /\ plan' = Datasets
  /\ slide' = 1 /\ kept' = <<>> /\ pageFiles' = FALSE /\ geo' = Geographies /\ cands' = 0
  /\ refreshable' = FALSE /\ openErr' = FALSE /\ session' = FALSE /\ temps' = {}
  /\ snap' = [d \in Dataset |-> "none"] /\ spent' = Nothing /\ tally' = Nothing
  /\ row' = [p \in Product |-> "none"] /\ billed' = Nothing /\ unsaved' = {} /\ outcome' = "none"
  /\ UNCHANGED <<job, process>>

NativeSucceeds ==
  /\ paidPc = "native" /\ ~expired
  /\ outcome' = "native" /\ paidPc' = "ended"
  /\ UNCHANGED <<job, process, attempt, expired, plan, gallery, browsing, temps, snap, rows>>

\* The native error is final when the context is done, the URL unsupported or
\* less than minFallbackBudget left; otherwise money is spent.
NativeFails ==
  /\ paidPc = "native"
  /\ \/ paidPc' = "ended"
     \/ /\ ~expired /\ Supported
        /\ paidPc' = IF plan = <<>> THEN "open" ELSE "trigger"
  /\ UNCHANGED <<job, process, attempt, expired, plan, gallery, browsing, temps, snap, rows, outcome>>

---------------------------------------------------------------------------
(* runDataset and resolveRecord *)

\* recordUsage, for one product or for two in turn: a row is created once and
\* updated in place afterwards. Usage tracking must never fail an archive: a
\* save that fails leaves the row as it was, or missing, and the attempt goes on.
Save(verdict) ==
  \E lost \in SUBSET DOMAIN verdict :
    /\ row' = [p \in Product |-> IF p \in DOMAIN verdict \ lost THEN verdict[p] ELSE row[p]]
    /\ unsaved' = (unsaved \ DOMAIN verdict) \cup lost
    /\ billed' = IF "browser" \in DOMAIN verdict \ lost THEN tally' ELSE billed

Record(product, verdict) == Save([p \in {product} |-> verdict])

\* instagramVideo goes on to its next dataset, every other route gives up.
NextDataset ==
  IF route \in InstagramVideo /\ Len(plan) > 1
  THEN plan' = Tail(plan) /\ paidPc' = "trigger"
  ELSE plan' = plan /\ paidPc' = "ended"

DatasetFails_unrecorded ==   \* mutant: no usage row for a dataset that failed
  /\ NextDataset
  /\ UNCHANGED <<job, process, attempt, expired, gallery, browsing, rows, outcome>>

DatasetFails ==
  /\ Record(Current, "failed") /\ NextDataset
  /\ UNCHANGED <<job, process, attempt, expired, gallery, browsing, outcome>>

Triggered ==
  /\ paidPc = "trigger"
  /\ \/ /\ ~expired
        /\ snap' = [snap EXCEPT ![Current] = "triggered"] /\ paidPc' = "wait"
        /\ UNCHANGED <<job, process, attempt, expired, plan, gallery, browsing, temps, rows, outcome>>
     \/ DatasetFails /\ UNCHANGED <<temps, snap>>

\* Poll errors are retried until the snapshot is ready, failed or the context done.
Waited ==
  /\ paidPc = "wait"
  /\ \/ /\ ~expired
        /\ paidPc' = "collect"
        /\ UNCHANGED <<job, process, attempt, expired, plan, gallery, browsing, temps, snap, rows, outcome>>
     \/ DatasetFails /\ UNCHANGED <<temps, snap>>

Collected ==
  /\ paidPc = "collect"
  /\ \/ /\ ~expired
        /\ snap' = [snap EXCEPT ![Current] = "collected"]
        /\ Record(Current, "open") /\ paidPc' = "record"
        /\ UNCHANGED <<job, process, attempt, expired, plan, gallery, browsing, temps, outcome>>
     \/ DatasetFails /\ UNCHANGED <<temps, snap>>

\* An error record, no record, or a record without the media the route needs.
RecordUnusable == paidPc = "record" /\ DatasetFails /\ UNCHANGED <<temps, snap>>

\* A gallery starts with a temporary directory; tiktokVideo closes its scrape
\* row before it opens a session.
RecordUsable ==
  /\ paidPc = "record"
  /\ \/ /\ route \in DirectVideo
        /\ paidPc' = "download" /\ UNCHANGED <<temps, rows>>
     \/ /\ route \in Gallery
        /\ paidPc' = "slides" /\ temps' = {"dir"} /\ UNCHANGED rows
     \/ /\ route = "ttVideo"
        /\ Record(Current, "success") /\ paidPc' = "open" /\ UNCHANGED temps
  /\ UNCHANGED <<job, process, attempt, expired, plan, gallery, browsing, snap, outcome>>

\* MkdirTemp fails: instagramGallery returns without closing its row.
NoGalleryDir ==
  /\ paidPc = "record" /\ route \in Gallery
  /\ paidPc' = "ended"
  /\ IF route = "igGallery" THEN UNCHANGED rows ELSE Record(Current, "failed")
  /\ UNCHANGED <<job, process, attempt, expired, plan, gallery, browsing, temps, snap, outcome>>

---------------------------------------------------------------------------
(* One video, downloaded directly or left by a browser session *)

Downloaded ==
  /\ paidPc = "download"
  /\ \/ /\ ~expired
        /\ temps' = {"media"} /\ paidPc' = "verify"
        /\ UNCHANGED <<job, process, attempt, expired, plan, gallery, browsing, snap, rows, outcome>>
     \/ DatasetFails /\ UNCHANGED <<temps, snap>>

\* The row a video is finally accounted in: the session's, or the dataset's.
FinalRow == IF route \in BrowserVideo THEN "browser" ELSE Current

\* finishUsage and finishBrowserUsage write what the session cost with the verdict.
Account(verdict) == tally' = tally /\ Record(FinalRow, verdict)

NotAVideo_kept ==   \* mutant: the rejected file stays
  /\ paidPc = "verify"
  /\ UNCHANGED temps
  /\ Account("failed")
  /\ IF route \in InstagramVideo THEN NextDataset ELSE plan' = plan /\ paidPc' = "ended"
  /\ UNCHANGED <<job, process, attempt, expired, gallery, browsing, snap, outcome>>

NotAVideo ==
  /\ paidPc = "verify"
  /\ temps' = {}
  /\ Account("failed")
  /\ IF route \in InstagramVideo THEN NextDataset ELSE plan' = plan /\ paidPc' = "ended"
  /\ UNCHANGED <<job, process, attempt, expired, gallery, browsing, snap, outcome>>

SidecarsFail_success ==   \* mutant: the row is closed as if the video had been handed over
  /\ paidPc = "verify"
  /\ temps' = {} /\ Account("success") /\ paidPc' = "ended"
  /\ UNCHANGED <<job, process, attempt, expired, plan, gallery, browsing, snap, outcome>>

\* The metadata cannot be built or the file cannot be opened.
SidecarsFail ==
  /\ paidPc = "verify"
  /\ temps' = {} /\ Account("failed") /\ paidPc' = "ended"
  /\ UNCHANGED <<job, process, attempt, expired, plan, gallery, browsing, snap, outcome>>

HandVideoOver ==
  /\ paidPc = "verify"
  /\ Account("success") /\ outcome' = "complete" /\ paidPc' = "ended"
  /\ UNCHANGED <<job, process, attempt, expired, plan, gallery, browsing, temps, snap>>

---------------------------------------------------------------------------
(* fetchThroughBrowser, youtubeSession: sessions in one geography after another *)

\* A session that reached the provider is billable even if its page never loads.
Connected(yes) ==
  /\ spent' = [spent EXCEPT !.sessions = @ + (IF yes THEN 1 ELSE 0)]
  /\ tally' = [tally EXCEPT !.sessions = @ + (IF yes THEN 1 ELSE 0)]

Transferred(bytes) ==
  /\ spent' = [spent EXCEPT !.bytes = @ + bytes]
  /\ tally' = [tally EXCEPT !.bytes = @ + bytes]

FinishBrowser == Record("browser", "failed") /\ paidPc' = "ended"

\* Another geography is tried while one is left and the failure may be local to this one.
GiveUpSession ==
  /\ session' = FALSE
  /\ \/ /\ ~expired /\ geo > 1
        /\ geo' = geo - 1 /\ paidPc' = "open"
        /\ UNCHANGED rows
     \/ FinishBrowser /\ UNCHANGED geo

\* fetchThroughBrowser skips a host whose refusal this process remembers.
Remembered == route = "ttVideo" /\ blocked

PolicySkips ==
  /\ paidPc = "open" /\ Remembered
  /\ UNCHANGED tally /\ FinishBrowser
  /\ UNCHANGED <<job, process, attempt, expired, plan, gallery, geo, cands, refreshable, openErr, session, spent,
                 temps, snap, outcome>>

SessionFails ==
  /\ paidPc = "open" /\ ~Remembered
  /\ \E connected \in BOOLEAN : Connected(connected)
  /\ GiveUpSession
  /\ UNCHANGED <<job, process, attempt, expired, plan, gallery, cands, refreshable, openErr, temps, snap, outcome>>

\* gotoWithRetry stops at a policy refusal; only fetchThroughBrowser remembers it.
PolicyRefuses ==
  /\ paidPc = "open" /\ ~Remembered /\ gated
  /\ Connected(TRUE)
  /\ refusals' = refusals + 1
  /\ blocked' = (blocked \/ route = "ttVideo")
  /\ FinishBrowser
  /\ UNCHANGED <<job, attempt, expired, plan, gallery, geo, cands, refreshable, openErr, session, temps, snap, outcome>>

\* The post page or, for YouTube, the player call names the candidate URLs.
SessionOpens ==
  /\ paidPc = "open" /\ ~Remembered /\ ~gated
  /\ Connected(TRUE)
  /\ session' = TRUE /\ paidPc' = "candidates"
  /\ cands' \in (IF route = "youtube" THEN {0, 1} ELSE {1, 2})
  /\ refreshable' = (route = "ttVideo")
  /\ UNCHANGED <<job, process, attempt, expired, plan, gallery, geo, openErr, temps, snap, rows, outcome>>

\* A candidate that died half-way is billed for what it moved.
CandidateFails ==
  /\ paidPc = "candidates" /\ cands > 0
  /\ \E bytes \in {0, 1} : Transferred(bytes)
  /\ cands' = IF expired THEN 0 ELSE cands - 1
  /\ UNCHANGED <<job, process, attempt, expired, paidPc, plan, gallery, geo, refreshable, openErr, session,
                 temps, snap, rows, outcome>>

RefreshCandidates ==
  /\ paidPc = "candidates" /\ cands = 0 /\ refreshable /\ ~expired
  /\ refreshable' = FALSE /\ cands' \in {0, 1}
  /\ UNCHANGED <<job, process, attempt, expired, paidPc, plan, gallery, geo, openErr, session, spent, tally,
                 temps, snap, rows, outcome>>

CandidatesExhausted ==
  /\ paidPc = "candidates" /\ cands = 0 /\ (~refreshable \/ expired)
  /\ UNCHANGED <<spent, tally>> /\ GiveUpSession
  /\ UNCHANGED <<job, process, attempt, expired, plan, gallery, cands, refreshable, openErr, temps, snap, outcome>>

CandidateFetched ==
  /\ paidPc = "candidates" /\ cands > 0 /\ ~expired
  /\ Transferred(1)
  /\ session' = FALSE /\ temps' = {"media"} /\ paidPc' = "verify"
  /\ UNCHANGED <<job, process, attempt, expired, plan, gallery, geo, cands, refreshable, openErr, snap, rows, outcome>>

---------------------------------------------------------------------------
(* buildGalleryArchive, and the older copy of it in instagramGallery *)

\* verifyGalleryMedia rejects a web page; instagramGallery does not call it.
Accepted == IF route = "igGallery" THEN {"media", "html"} ELSE {"media"}

NextSlide == slide' = slide + 1 /\ paidPc' = "slides"

SlideStored ==
  /\ paidPc = "slides" /\ slide <= Slides /\ ~expired
  /\ \E content \in Accepted : kept' = Append(kept, content)
  /\ NextSlide
  /\ UNCHANGED <<job, process, attempt, expired, plan, pageFiles, browsing, temps, snap, rows, outcome>>

\* The entry is recorded as missing. tiktokMediaFetcher.fetch first asks the
\* shared session, unless the context is done.
SlideLost ==
  /\ paidPc = "slides" /\ slide <= Slides
  /\ \/ /\ route # "ttPhotos" \/ expired
        /\ NextSlide
     \/ /\ route = "ttPhotos" /\ ~expired
        /\ paidPc' = "page" /\ UNCHANGED slide
  /\ UNCHANGED <<job, process, attempt, expired, plan, kept, pageFiles, browsing, temps, snap, rows, outcome>>

\* browserPage: the session is opened once; a failure to open is remembered
\* for this post only, and no policy memory is consulted or kept.
PageUnavailable ==
  /\ paidPc = "page" /\ ~session
  /\ \/ /\ openErr
        /\ UNCHANGED <<openErr, spent, tally, refusals>>
     \/ /\ ~openErr
        /\ openErr' = TRUE
        /\ \/ gated /\ ready /\ Connected(TRUE) /\ refusals' = refusals + 1
           \/ \E connected \in {FALSE, ready} : Connected(connected) /\ UNCHANGED refusals
  /\ NextSlide
  /\ UNCHANGED <<job, blocked, attempt, expired, plan, kept, pageFiles, geo, cands, refreshable, session, temps, snap, rows, outcome>>

PageOpens ==
  /\ paidPc = "page" /\ ~session /\ ~openErr /\ ready /\ ~gated
  /\ Connected(TRUE) /\ session' = TRUE
  /\ UNCHANGED <<job, process, attempt, expired, paidPc, plan, gallery, geo, cands, refreshable, openErr,
                 temps, snap, rows, outcome>>

\* A file the page delivered counts even if it is then rejected as a web page.
SlideThroughPage ==
  /\ paidPc = "page" /\ session
  /\ \/ /\ ~expired
        /\ Transferred(1) /\ pageFiles' = TRUE
        /\ kept' \in {Append(kept, "media"), kept}
     \/ \E bytes \in {0, 1} : Transferred(bytes) /\ UNCHANGED <<kept, pageFiles>>
  /\ NextSlide
  /\ UNCHANGED <<job, process, attempt, expired, plan, geo, cands, refreshable, openErr, session, temps, snap, rows, outcome>>

\* tiktokPhotos writes the session's row before the scrape's, and closes the
\* session when it returns.
AccountGallery(delivered) ==
  /\ tally' = tally
  /\ Save([p \in {Current} \cup (IF tally.sessions = 0 THEN {} ELSE {"browser"}) |->
             IF delivered /\ (p = "browser" => pageFiles) THEN "success" ELSE "failed"])
  /\ session' = FALSE

\* Nothing was stored, a file cannot be inspected, the ZIP cannot be built or
\* opened, or the sidecars of a single video fail. buildGalleryZip and every
\* later step remove the ZIP they give up.
GalleryFails ==
  /\ paidPc = "slides" /\ (slide > Slides \/ ~expired)
  /\ temps' = {} /\ paidPc' = "ended"
  /\ AccountGallery(FALSE)
  /\ UNCHANGED <<job, process, attempt, expired, plan, gallery, geo, cands, refreshable, openErr, spent, tally, snap, outcome>>

\* instagramGallery marks its row a success before it opens the ZIP.
InstagramZipUnreadable ==
  /\ paidPc = "slides" /\ slide > Slides /\ kept # <<>> /\ route = "igGallery"
  /\ temps' = {} /\ paidPc' = "ended"
  /\ AccountGallery(TRUE)
  /\ UNCHANGED <<job, process, attempt, expired, plan, gallery, geo, cands, refreshable, openErr, spent, tally, snap, outcome>>

\* CompletenessFromCounts: entries stored against entries in the record.
HandGalleryOver ==
  /\ paidPc = "slides" /\ slide > Slides /\ kept # <<>>
  /\ temps' = {"zip"} /\ paidPc' = "ended"
  /\ AccountGallery(TRUE)
  /\ outcome' = IF Len(kept) >= Slides THEN "complete" ELSE "partial"
  /\ UNCHANGED <<job, process, attempt, expired, plan, gallery, geo, cands, refreshable, openErr, spent, tally, snap>>

---------------------------------------------------------------------------
(* Around the attempt *)

Running == paidPc \notin {"queued", "ended", "crashed", "done"}

ContextExpires ==
  /\ Running /\ ~expired
  /\ expired' = TRUE
  /\ UNCHANGED <<job, process, attempt, paidPc, plan, gallery, browsing, temps, snap, rows, outcome>>

\* The process dies and comes back without its memory; rows are in the database.
Restarts ==
  /\ paidPc # "done"
  /\ paidPc' = IF Running THEN "crashed" ELSE paidPc
  /\ blocked' = FALSE /\ refusals' = 0 /\ session' = FALSE
  /\ UNCHANGED <<job, attempt, expired, plan, gallery, geo, cands, refreshable, openErr, temps, snap, spent, tally, rows, outcome>>

WorkerFinishes_unbounded ==   \* mutant: attempts are not counted
  /\ paidPc \in {"ended", "crashed"}
  /\ \/ /\ outcome # "none"
        /\ paidPc' = "done" /\ temps' = {}
     \/ /\ outcome = "none"
        /\ paidPc' = "queued" /\ UNCHANGED temps
  /\ UNCHANGED <<job, process, attempt, expired, plan, gallery, browsing, snap, rows, outcome>>

\* The worker stores what it was given and closes the reader, whose Close
\* deletes the file; without a result River tries again.
WorkerFinishes ==
  /\ paidPc \in {"ended", "crashed"}
  /\ \/ /\ outcome # "none"
        /\ paidPc' = "done" /\ temps' = {}
     \/ /\ outcome = "none" /\ attempt < Attempts
        /\ paidPc' = "queued" /\ UNCHANGED temps
  /\ UNCHANGED <<job, process, attempt, expired, plan, gallery, browsing, snap, rows, outcome>>

PaidNext ==
  \/ StartAttempt \/ NativeSucceeds \/ NativeFails
  \/ Triggered \/ Waited \/ Collected \/ RecordUnusable \/ RecordUsable \/ NoGalleryDir
  \/ Downloaded \/ NotAVideo \/ SidecarsFail \/ HandVideoOver
  \/ PolicySkips \/ SessionFails \/ PolicyRefuses \/ SessionOpens
  \/ CandidateFails \/ RefreshCandidates \/ CandidatesExhausted \/ CandidateFetched
  \/ SlideStored \/ SlideLost \/ PageUnavailable \/ PageOpens \/ SlideThroughPage
  \/ GalleryFails \/ InstagramZipUnreadable \/ HandGalleryOver
  \/ ContextExpires \/ Restarts \/ WorkerFinishes

PaidSpec == PaidInit /\ [][PaidNext]_paidVars

---------------------------------------------------------------------------

\* Types of the fallback's state.
PaidTypeOK ==
  /\ route \in Route /\ gated \in BOOLEAN /\ ready \in BOOLEAN /\ blocked \in BOOLEAN
  /\ refusals \in Nat /\ attempt \in 0..Attempts /\ expired \in BOOLEAN
  /\ plan \in {<<>>, <<"posts">>, <<"reels", "posts">>}
  /\ slide \in 1..Slides + 1 /\ Len(kept) < slide
  /\ geo \in 0..3 /\ cands \in 0..2 /\ refreshable \in BOOLEAN /\ openErr \in BOOLEAN /\ pageFiles \in BOOLEAN /\ session \in BOOLEAN
  /\ temps \subseteq {"media", "dir", "zip"}
  /\ \A d \in Dataset : snap[d] \in {"none", "triggered", "collected"}
  /\ \A p \in Product : row[p] \in {"none", "open", "failed", "success"}
  /\ unsaved \subseteq Product
  /\ outcome \in {"none", "native", "complete", "partial"}

Paid == outcome \in {"complete", "partial"}

\* When an attempt returns, every dataset it triggered and every session and
\* byte the provider will bill has a usage row that says so, on every path out;
\* after a crash at least the collected datasets have one. What is missing is
\* only what a failed save lost last, which the code logs and goes on from
\* (client.go:300-344, 368-377, tiktok.go:88-93, models.go:140-142).
SpendIsRecorded ==
  /\ paidPc = "ended" =>
       /\ \A d \in Dataset \ unsaved : snap[d] # "none" => row[d] # "none"
       /\ "browser" \notin unsaved => IF row["browser"] = "none" THEN spent = Nothing ELSE billed = spent
  /\ paidPc = "crashed" => \A d \in Dataset \ unsaved : snap[d] = "collected" => row[d] # "none"

\* A delivered post is marked in its final row, unless saving it failed, and a
\* final row marked a success has been delivered. The one known exception is
\* kept apart: instagramGallery marks its row before it opens the ZIP
\* (instagram.go:267).
SuccessRowsAreDeliveries ==
  paidPc = "ended" =>
    /\ Paid /\ FinalRow \notin unsaved => row[FinalRow] = "success"
    /\ ~Paid /\ route # "igGallery" => \A p \in {FinalRow, "browser"} : row[p] # "success"

\* An attempt that returns has closed its session and left no file behind but
\* the one it hands over, and storing that one removes it (tempfile.go:12-24).
NothingLeftBehind ==
  /\ paidPc = "ended" => ~session /\ temps = (IF Paid THEN {IF route \in Gallery THEN "zip" ELSE "media"} ELSE {})
  /\ paidPc = "done" => temps = {}
=============================================================================
