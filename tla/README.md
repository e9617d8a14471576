# Arker in TLA+

Arker archives web pages: a request names a URL, the server creates a
*capture* with one *item* per archive type (mhtml, screenshot, yt-dlp,
gallery-dl, git, itch), background jobs fetch and store the artifacts, and
handlers serve them. This directory holds TLA+ specifications of the parts of it
where order, concurrency and failure matter, the TLC configurations that check
them on small instances, and proofs checked by TLAPS. Every definition is
translated from the Go source; `PROJECT.json` maps each one to its lines.

## 1. Inventory

| Component | State | Operations | What makes it hard |
|---|---|---|---|
| Capture queue (`workers/queue.go`) | `archived_urls`, `captures`, `archive_items` | `QueueCapture`, `FindOrCreateCapture` | concurrent requests, several instances, several spellings of one post, items that change status during the decision, jobs inserted after the commit |
| Identity lock (`identityLockSet` in `queue.go`) | map of reference-counted mutexes | acquire, release | eviction of an entry under a waiter, growth |
| Capture pipeline (`archive_worker.go`, `cleanup_worker.go`, `cmd/main.go`, `handlers/admin.go`) | `archive_items`, `river_job`, storage | worker attempt, error handler, cleanup, retry-all, backfill | no row id in jobs, crashes between statements, dropped errors, uniqueness windows, retries |
| Canonical URLs and types (`utils/canonical_url.go`, `url_utils.go`, `archive_types.go`) | none | pure functions, startup backfill | many spellings of one post, two classifiers that must agree, rows older than the column |
| Thumbnails (`thumbnail_worker.go`, `handlers/thumb.go`) | thumbnail columns, `high_priority` jobs | inline store, on-demand generation, serving | two writers of one column, a preview that can never come |
| Git serving (`handlers/git.go`) | cache directory | unpack on first use, serve | crash during unpack, stale cache |
| Browser bundles (`archivers/pwbundle.go`, `monitoring/`) | driver, browser, pages, counters | create, clean up, reap | cleanup from several places at once, a wedged process, timeouts |
| Page load (`archivers/utils.go`, `screenshot.go`, `mhtml.go`) | requests in flight, wait timers | navigate, wait for idle, scroll, capture | pages that never settle |
| Bright Data (`brightdata/`) | usage ledger, policy memory | fallback after a native failure, polling, remote browser sessions, ranged download | paid retries, deadlines between paid steps, bookkeeping on every way out |
| Media archivers (`archivers/`) | child process, temporary directory, pipe | run a tool, stream its output, judge completeness | a killed child, a broken pipe taken for the end, partial results |
| Item logs (`db_log_writer.go`, migration) | log chunks | append, flush, migrate, merge | failed flushes, interrupted migration |
| Storage (`storage/`) | objects | write, read, seek | upload on close, temporary files |
| Serving (`handlers/serve.go`, `archive_result.go`, `alias.go`, ...) | none | read-only | the verdict a polling client gets, and its agreement with find-or-create |
| Authentication, API keys, health checks, templates | configs, keys | short handlers | little |

How they interact: a request runs the capture queue in a transaction under the
identity lock, commits, then inserts one River job per item. River claims jobs
and calls `ArchiveWorker.Work`, which runs an archiver (for some types wrapped in
the Bright Data fallback), stores the artifacts and publishes the item with one
update. River records the outcome and calls the error handler on errors. The
cleanup, the admin requests and the workers write the same rows without locks;
jobs find their row by (`short_id`, `type`). Everything in memory is lost in a
crash; the tables and stored objects survive.

What makes each part correct is stated as properties in the modules below; the
hazards they aim at are listed, with their lines, in `PROJECT.json`.

## 2. Modules

| Module | Models | State of the code it stands for |
|---|---|---|
| `ItemLifecycle` | abstract: what an item promises its readers | status, and whether the whole archive is readable |
| `ArchivePipeline` | workers, River as used here, error handler, cleanup, retry-all, media backfill, crashes | `rows` = `archive_items`, `jobs` = `river_job`, `run` = the local variables of one `Work` call, `req` = requests in progress |
| `ArchivePipelineProofs` | proofs about it | |
| `IdentityMutex` | abstract: one mutex per identity | |
| `IdentityLock` | `identityLockSet` | `locks` = the map, `refs`/`owner` = the lock objects, `pc`, `want`, `lock` = the goroutines |
| `IdentityLockProofs` | proofs about it | |
| `CaptureQueue` | `QueueCapture`, `FindOrCreateCapture`, `withCaptureIdentityLock`, the canonical-URL backfill | `urls` = `archived_urls`, `caps` = `captures` with their items, `req` = requests in progress |
| `CaptureQueueProofs` | proofs about it | |
| `PostUrl` | canonical URL, routing and classification of social posts | `url` = one spelling, `post` = what it is of, `config` = credentials |
| `ArchiveResult` | `buildSocialPost` and what it is told by items | `candidate` = the capture's media items with their artifacts, `updatedAt` = each one's place in the order of `updated_at`, `gone` = unreadable objects, `plain` = the page's own items |
| `ArchiveResultProofs` | proofs about `PostUrl` and `ArchiveResult` | |
| `NativeCapture` | gallery-dl, yt-dlp, itch-dl and git archivers up to the stored object | `child`, `dir` = process and temporary directory, `producer`/`stream` = goroutine and pipe, `storing` = `writeArchiveData` |
| `PaidFallback` | `brightdata/fallback.go`, `client.go` and the platform files | `snap` = provider's snapshots, `row` = `brightdata_usages`, `unsaved` = rows whose last save failed, `spent`/`tally` = what is billed and what the code counts, `blocked` = `policyBlocked` |
| `RangedFetch` | `fetchURLThroughPage` | its local variables; `lapses` = what the server did that looks like the end of the file |
| `PaidFallbackProofs` | proofs about `PaidFallback` and `RangedFetch` | |
| `BrowserBundle` | `setupBrowserForArchiving`, `PWBundle`, `BrowserMonitor` | `driver`, `chrome`, `window` = the processes, `held` = the bundle's fields, `teardown`/`waiter` = the two goroutines of `Cleanup` |
| `CaptureProofs` | proofs about `NativeCapture` and `BrowserBundle` | |
| `PageLoad` | `PerformCompletePageLoadWithContext` | `pending`, `elapsed`, `quiet`, `flagged` = the locals of the idle wait, `inflight` = the page |
| `LogWriter` | `DBLogWriter` and the splitting of text into chunks | `buffer` = the writer's, `chunks` = rows of `archive_item_logs`, `said` = everything written to it |
| `LogMigration` | the move of legacy logs, and the merged view | `column`, `stored` = the two places, `mig`/`at` = an instance's transaction, `view` = a reader between its statements; `fresh`, `moves`, `late` = what was written and who moved, for the properties |
| `LogProofs` | proofs about `LogWriter` and `LogMigration` | |
| `ObjectStore` | `storage/` behind `writeArchiveData` and the readers | `writer`, `spool` = an `s3Writer`, `object` = the bucket, `body`, `pos`, `sizeSet` = an `s3SeekableReader` |
| `GitCache` | `GitHandler`, `unpackGit` | `cacheDir`, `mutex` = `cacheMutex`, `cloning`, `keyRead` = requests |
| `ThumbnailPreview` | thumbnail worker, `ServeThumbnail`, the inline store | `preview`, `image` = the columns and the object, `previewJob`, `recent` = River's job and its uniqueness |
| `ServingProofs` | proofs about `ObjectStore`, `GitCache` and `ThumbnailPreview` | |
| `MCArchivePipeline`, `MCCaptureQueue`, `MCSocialPost`, `MCParts` | instances for TLC | |

The modules meet at their abstractions. `CaptureQueue` uses a plain mutex per
identity (`LockMutex`), which `IdentityLock` is shown to implement
(`ImplementsMutex`). It lets items change status freely (`ItemMoves`), as
`ItemLifecycle` allows, which `ArchivePipeline` is shown to implement
(`ImplementsLifecycle`). `ArchivePipeline` in turn takes a new capture as a
committed row and a later insert (`Submit`, `Enqueue`), which is what `Create` and
`Enqueue` of `CaptureQueue` do. `ArchiveResult` EXTENDS `PostUrl`: which item it
shows is decided by the routing of the URL.

The other parts share no variables with one another: each is a row, a bundle, a
directory or a download that one job or one request owns. They meet the pipeline
at its nondeterminism. `Archive` of the pipeline may succeed, fail or be
cancelled: `NativeCapture`, `PaidFallback`, `BrowserBundle` and `PageLoad` say how.
`StoreArtifact` is one atomic upload: `ObjectStore` says why an artifact taken for
stored is whole. `MCParts` is therefore a disjoint sum, one of the parts moves in
a behaviour and the others are parked, rather than a product that would only
multiply independent states.

### ArchivePipeline

A *slot* is a (`short_id`, `type`) pair, all that ties a job to a row. Several
rows may share one, since the schema does not forbid it. Actions follow the
statements of the code that another actor can see between: `Work` (lookup and
status update), `Archive`, `StoreArtifact` (one upload), `Publish` (the one
update), `GiveUp` (Work's own failure path), `HandleError`
(`CustomErrorHandler`), `Report` (River records the outcome); `SweepPending`,
`SweepProcessing`, `SweepDiscarded` (the three statements of `RunCleanup`);
`Submit`, `BackfillSelect`/`BackfillCreate`, `RetrySelect`/`RetryReset`, and
`Enqueue`; `Claim`, `RescueStuckJob`, `DeleteFinishedJob` (River);
`MinutePasses` (the uniqueness window), `HourPasses` (the cleanup's cutoff) and
`Crash`. Status updates whose error the code drops may have no effect when
`Faults` is set (`MaybeStatus`). Metadata and raw sidecars are members of
`Sidecar`; sizes, extensions, logs and thumbnails are left out.

Time is two bits. `recent` says that a job was inserted within the uniqueness
period; `MinutePasses` clears it. `stale` says that an unsettled row has not been
updated for an hour. An hour passes for all rows at once, so a row can be stale
while its worker still runs, which the three-hour job timeout of the code
permits.

### IdentityLock

`acquire` is two steps, `Count` (the first critical section on the map) and
`Acquire` (blocking on the lock); the release func is `Unlock` and `Forget` (the
second critical section). A lock object that neither the map nor a goroutine
refers to may be used again for a new one, as the garbage collector permits.

### CaptureQueue

A request arrives with what it asks for (`Ask`): `queue` or `force`
(`QueueCapture`), `find` (`FindOrCreateCapture` with explicit types) or `social`
(a default request for a social post, which its media types settle). It takes the
in-process lock, the advisory lock, decides, and replies or creates; both locks
end with the transaction. A transaction may abort at any point, an instance may
stop at any point. Its writes are one action, since nobody sees them before the
commit. Its reads are one action too: `captures` of an identity are added only
under the lock, and the three queries of the code read different things.

`Canon` is any idempotent function onto representatives and `Hash` any function,
so the properties do not depend on how URLs are written or on `hashtext` being
injective. Two approximations: the completed candidate that finished last is any
completed candidate, and "newest" is creation order, which under the lock is the
order of the timestamps the code compares unless instances' clocks disagree. A
failed read inside `findReusableCapture` is only logged; on PostgreSQL it aborts
the transaction, which is `Abort`.

### PostUrl and ArchiveResult

A post is a site, a kind, an id and what else its permalink names. `Spellings` are
the ways its site shares it; `Shared` adds a scheme, tracking parameters, a
referrer's parameters and a fragment, and the model canonicalizes the result
once and again. Hosts are named, paths are sequences of segments and queries are
functions; percent-encoding, ports and the order of parameters are left out.
`CanonicalizeArchiveURL`, `IsVideoURL`, `IsGalleryDLURL`, `GetArchiveTypes` and
`YtDlpFetchURL` are operators on those. Lower-casing is a function on the few
names that have capitals, so that a site that folds case and one that does not
stay apart. Of `IsGitURL` the rule for the hosting platforms is kept, with one word
for the paths that are no repository; no URL of the model ends in `.git` or names
a `git.` host.

`ArchiveResult` keeps the media items of one capture while attempts start, publish,
fail and are reset, objects disappear and credentials are configured or removed.
A result is not abstract quality but what the code looks at: the column, the keys,
the number of files, the archiver's verdict in the bundle. `buildSocialPost` is
the answer, `AnsweredWith` what find-or-create decides about the same capture: its
media items are what settles a request, and where the routing leaves none, since
nobody could log in (`Hopeless`), the page and its screenshot do. Those two are one
variable, `plain`, as the answer does not depend on them otherwise.

### NativeCapture

One `Archive` call and the worker that reads its result. The child fills a
directory one file at a time; the goroutine at the pipe may find a file missing,
be cancelled, be abandoned by a reader that closed, or finish; the worker may
fail to open its writer or to copy. `tool` chooses between the ways of the four
archivers: who removes the directory, what counts as success, what completeness is
claimed. Storing a video is different in one point, yt-dlp's file is not piped.

### PaidFallback and RangedFetch

`paidPc` follows one attempt of one job along its route: native run, gate, datasets
(trigger, wait, collect, judge the record, download), remote sessions with their
geographies and candidates, slides of a gallery, sidecars, hand-over. The context
may expire at any step and the process may die. `snap` and `spent` are what the
provider did and will bill; `row`, `tally` and `billed` are what the code recorded
of it. Any of its saves may fail, which the code logs and goes on from (`Save`):
`unsaved` names the products whose last save was lost, and the properties about the
ledger speak of the others. Prices are left out: the properties compare counts.

`RangedFetch` is the chunk loop of one such download. To each request the server may
answer with a range of any length up to the one asked for, with its length disclosed
or not, with the whole file, with a 416 or an error, whatever it did before; and the
length that is hinted may be wrong. `lapses` records the two answers the loop cannot
tell from the end of the file: a range cut short ahead of it, and a whole file after
the first answer. What is claimed depends on both (`StoredIsWhole`).

### BrowserBundle and PageLoad

`BrowserBundle` has the job's goroutine, the teardown goroutine that `Cleanup`
starts once, the worker's deferred `Cleanup`, and the reaper; Chromium or the
driver may wedge at any moment, after which calls into it do not return. Timeouts
are steps that may be taken whenever their owner waits.

`PageLoad` counts time in polls of `waitForNetworkIdle`. Requests start and end as
they like, two at a time per URL, since the listeners key them by URL.

### LogWriter and LogMigration

`LogWriter` is at the level of bytes of four kinds (a letter, a line end, the
first and the second byte of a rune), because the code cuts chunks by weight and
at rune boundaries, and a byte that is no UTF-8 grows when it is stored. An
insert may fail, or succeed and lose its acknowledgement. What decoding and
splitting make of a sequence are recursive functions over its length, one byte or
rune at a time, as the loops of the code are.

`LogMigration` is one transaction per item and instance: count the rows, insert the
chunks one statement at a time, verify, clear the column, commit; with the lines a
later attempt writes and a reader between its two statements. Nothing serializes the
instances, so the rows of two may be mixed. A stored row is `[line, by]`: `by` is the
instance or the writer whose statement inserted it, `committed`, or `nobody` after a
rollback. Places in `stored` are ids, which are taken at the insert and not at the
commit; a dead row keeps its place, and nobody reads it (`Shown`).

### ObjectStore, GitCache, ThumbnailPreview

`ObjectStore` is one artifact, whose key carries a nonce so that no other writer
uses it: spool or file, `Close`, upload, then a seekable reader. Its reader
properties are about S3, where a seek may keep or drop an open response.

`GitCache` has the stat gate and the unpack under `cacheMutex`, one tar entry at a
time. `died` and `cacheDir.of` keep its two known exceptions in view instead of
leaving crashes and second artifacts out.

`ThumbnailPreview` joins the archive worker's inline store, the handler and the
on-demand job by the columns they share. `recent` stands for River's uniqueness
window of five minutes. One job of an item runs at a time: that a second one may
start in the next window, while the first still runs, is left out.

## 3. Runs

| Run | Instance | Shows |
|---|---|---|
| `pipeline_retry` | 1 row, 2 jobs, 2 requests, 2 workers, 2 attempts, 1 crash, faults | safety and refinement under retry-all, cleanup, crash and rescue |
| `pipeline_backfill` | 2 rows of 1 slot, 2 requests, 1 worker, faults | a completed job has published, though two rows share its slot |
| `pipeline_settle` | 1 row, 2 jobs, 1 worker, 1 crash, faults, `FairSpec` | every item settles |
| `queue_find` | 2 instances, 2 spellings of one post, perhaps an old capture of one, 3 kinds of find-or-create request | no second live capture |
| `queue_mixed` | 1 instance, 2 spellings, 3 captures, aliasing, forced and find-or-create requests, `Limit` = 1 | aliases, jobs, reuse |
| `queue_live` | 2 identities with one advisory lock, `FairSpec` | requests end, no deadlock |
| `posts` | posts of every claimed site with all their spellings, pages beside them; captures of up to 2 media items | one identity per post and one post per identity, the right archiver, the same video fetched; what "fulfilled" means, agreement with find-or-create, completed items shown |
| `parts` | eleven parts, see below, each with its fairness | the lock, downloads, native captures, browsers, page loads, log writers and the log migration, storage, git and previews, one by one |
| `pipeline_premature`, `pipeline_requeue`, `page_busy`, `preview_unavailable` | | four sentences the code does not keep, see below |

Bounds. Two jobs on one slot are what retries and crashes can make compete; a
third only repeats one of them, since rows, cleanup and error handler look at
"some job of the slot". Two attempts have a last one and one before it. Two rows
are the least that share a slot. `MaxCrash` = 1 puts a crash at every point of
every attempt. Two requests race; three captures give an alias, its target and a
capture between them, and with `Limit` = 1 the cut-off of candidates happens
(the code has 10). In `CaptureQueue` a request is admitted only while
captures are left for all in progress, so that no request is stuck for want of
a number. Symmetry is used only without liveness and only where the members are
interchangeable: not for rows, which the code orders by id.

`CHECK_DEADLOCK FALSE` is set where the system really stops: when its rows or
captures are used up, a download, a capture, a bundle or a page load is over.
Waiting for one another is covered by liveness instead: `EveryoneServed` of the
lock, `RequestsEnd` of the queue.

A completed item may go back to processing when its job runs again after a crash;
its archive stays readable, which is why `ItemLifecycle` promises that and not a
final status. `RowSettles` is checked where a slot has one row: a twin row, as
concurrent backfills make it, is neither served by the jobs of the slot (they
take the first row) nor swept while an operator retries the first one again and
again, since the cleanup looks at the whole slot.

Bounds of `parts`. *Lock*: three goroutines give a holder, a waiter and a newcomer,
the trio eviction needs; two identities and two lock objects let one object serve
both in turn. *Fetch*: with `Chunk` = 2 the sizes 0 to 7 are empty, shorter than a
chunk, an exact multiple and anything in between, and any of them may be the length
that is hinted; `MaxTries` is the code's 3.
*Paid*: two attempts, so that one follows another; two slides, one to lose and
one to keep. *Capture*: two files and two parts, so that something is missing and
something is there. *Load*: `Tolerated` = 1 with two URLs has a page above the
tolerated number and one below it; `MinWait` < `GiveUpAfter` < `LoadLimit` keeps the order of the code's
constants; `MaxSteps` = 2 < `Height` = 3 reaches the step cap. *Log*: `Limit` = 3 is
less than two runes, so that a rune straddles a chunk's end and an invalid byte
overflows one; four bytes written in pieces fill a chunk and start the next.
*Migration*: items do not meet, as each transaction is about
one, so one item is enough; two starts are two rivals whose rows mix, or a stop and a
restart over what was moved; the old log has two lines, the least that can be mixed,
and a later attempt writes one, before, during or after the moves, which may be the
line the old log begins with. (Three starts and two later lines show nothing else, and
`HistoryKept` is proved for any number.) *Store*: two bytes have a
middle. *Git*: two requests, two entries, two artifacts. *Thumb*: two runs of the
item, two attempts of the job (the code's number), three transient failures, one
more than a job can take.

Bounds of `posts`: two ids where a site's ids could be confused, one elsewhere;
two pictures, so that one can be missing; one object lost. Captures have at most
two media items, which are enough for a pair of one type and a pair of both; with
two items the credentials stay as they are.

Each property of a passing run has a mutant in `PROJECT.json`: a definition of
the code changed as a plausible bug would, which the run then refutes. The
mutants stand next to the definition they change, marked `\* mutant`.

### Disagreements between the code and its words

Four runs check a sentence of the repository and are refuted by what the code does:

* `pipeline_premature` (`NoPrematureFailure`). `SweepProcessing` looks only for a
  *running* job, so an item whose job waits for its next attempt is failed after
  an hour. The run finds: a first attempt runs long, the process crashes, River
  rescues the job, and the cleanup fails the item while two attempts are left.
* `pipeline_requeue` (`PendingIsQueued`). A retry inside the uniqueness
  window resets the item and inserts nothing; the item reads pending with no job
  until the cleanup fails it an hour later.
* `page_busy` (`BusyPageIsCaptured`). The comment at `utils.go:392-396` says that
  after the fallback timeout the load goes on with the persistent requests it has.
  The flag that guards that branch is set by its own first pass, at `minWait`; if too
  many requests are in flight then, the branch is never entered again and the
  load fails at its total timeout.
* `preview_unavailable` (`UnavailableIsForGood`). `unavailable` is meant for
  screenshots that never decode. A stream from storage that breaks off while one
  is decoded is taken for that (`thumbnail_worker.go:107`).

More were met that no run checks, as they are small or concern states a model
would have to be widened for; the properties say where they set them aside.

* "A short or empty chunk means the range ran past EOF" (`browser_fetch.go:416`). A
  server may send less than it was asked for; when its page may not read the length, the
  beginning of the file is stored as the file. With the length known, the check after the
  loop notices (`StoredIsWhole`).
* `docs.html:147` makes the media extractor the required product of a social post.
  Where nobody could log in, a default request has no media item, and
  `queue.go:336-341` keeps mhtml and screenshot as its whole requirement:
  find-or-create then answers with a finished capture of those, which the result API
  calls `failed`, `authentication_required` and retryable. `RetryIsTaken` says that
  these posts are the only ones where a client is sent in circles, as long as a capture
  has one item per type.
* Two concurrent backfills create an item each (`admin.go:295`). Find-or-create
  then looks at the last row, the result at the one updated last.
* A native artifact published over a fallback's keeps `source = brightdata`
  (`archive_worker.go:243`).
* The router does not know the words `reels`, `statuses` and `video.php` that the
  canonicalizer reduces. A Facebook `watch` page with `?v=` changes once more when
  its identity is canonicalized again.
* `tiktokPhotos` and `archiveYouTube` do not ask the policy memory.
  `instagramGallery` marks its row a success before it opens the ZIP and accepts
  HTML as a slide.
* gallery-dl killed within its last file leaves it under its final name, and it
  is counted. itch-dl leaves its directory behind when it fails.
* With an S3 prefix that does not end in a slash, `Size` asks for another key, and
  seeks fail. A failed copy is still uploaded, though nothing refers to it.
* Two instances that migrate one item at the same moment store its log twice, their
  rows mixed by id, as each verifies only its own (`archive_item_logs_migration.go:73`);
  a line whose insert took its id before a move, and is committed after the move was
  verified, stands before the old log; and the merged view hides lines of a later
  attempt that repeat the old log. No line of the old log is lost by any of it.
* A wrong length hinted by another service is believed, and a 200 after some ranges is
  appended to them (`browser_fetch.go:376-418`).
* A usage row that cannot be saved is logged and missing (`client.go:370-377`).
* The error handler fails the first unsettled row of a slot (`main.go:133`): with a
  twin row it may be one that another job is archiving.
* A process that dies inside `unpackGit` leaves a partial directory that is then
  served (`git.go:48-50`), and a re-archived repository is served from its first
  unpacking.
* A ready thumbnail whose object is lost is never a candidate again, though
  `thumb.go:71-73` says that it is queued again; `markUnavailable` may overwrite a
  ready one stored meanwhile (`thumbnail_worker.go:123`).
* `NewPWBundle` counts a launch that fails; a panic inside `Archive` leaks the
  bundle, and a driver that wedges while it sets the browser up is waited for
  without a bound.
* A video whose file is lost still reads as fulfilled: only its sidecars are
  looked for (`archive_result.go:363-366`). A yt-dlp item asked for explicitly for
  a post of several assets reads as fulfilled with its one video. Legacy videos
  with both sidecars read as complete, against `models.go:94`.
  A reusable gallery whose bundle is lost is answered for ever, as a failure that is
  not retryable, since find-or-create asks the rows and not the storage.

### Fairness

`ArchivePipeline.Fairness`: attempts return, since every archiver runs under a
timeout below River's `JobTimeout`, and each statement of `Work` follows (weak
fairness of `RunStep`); River fetches jobs in order of priority and schedule, so
a queued job is not passed over for ever (strong fairness of `Claim`, needed since
other jobs may take the worker); the rescuer and the ten-minute cleanup ticker
run as long as the process does (weak fairness); and hours pass. Nothing is
assumed of requests, of statements succeeding, or of crashes.

`IdentityLock.Fairness`: a `sync.Mutex` in starvation mode hands itself to the
oldest waiter (strong fairness of `Acquire`), and transactions end.
`CaptureQueue.Fairness`: the same for its two locks (PostgreSQL queues waiters of
a lock), and weak fairness of the steps of a transaction, which its statements'
timeouts give. `Abort` and `Stop` are never assumed.

`PartsSpec` adds, each for its part: River ends every job's context and goroutines
run (`CaptureFairness`), which is what kills a child that never exits; the job and
teardown goroutines run and the reaper's ticker fires (`BundleFairness`), while
nothing is assumed of a wedged process; the loop of the page load runs, while
nothing is assumed of the page or of the context (`WF` of `Loading`); somebody looks at the
page until a job is accepted, River runs it and the archive worker ends its run
(`ThumbFairness`), while at most `Transient` failures happen: against a storage
that always fails no preview comes, nor does the code promise one.

## 4. Proofs

TLAPS proves the following for all values of the constants that satisfy the named
assumptions of the module in question, with no step left out. The assumptions say
of the constants what the code's do: that bounds are numbers, that the attempts of
a job, the entries of a clone, the bytes of an artifact or the slides of a gallery
are not zero, that an identity is found by an idempotent `Canon`, and in
`LockAssumption` that there are finitely many goroutines.

The pipeline (`ArchivePipelineProofs`):

* `TypeCorrect`: `[](TypeOK /\ Budget)`. `TypeOK` bounds `attempt` by
  `MaxAttempts`; it is inductive only with `Budget`, that a job that may still be
  claimed has attempts left.
* `CompletedStored`, `JobPublished`: from `ArchiveInv`. Neither property is
  inductive: publishing is right because of what the run holds. So the invariant adds that
  a run belongs to a job River holds as running (`RunOwnsJob`), that the row it works
  on exists and is of its job's slot (`RunRow`), that a result carries a primary
  artifact and a run that succeeded has published it (`RunProduct`), that a retry
  resets only rows that exist, and that unused rows are empty.
* `Refinement`: `Spec => ImplementsLifecycle`, each action mapped to an action of
  `ItemLifecycle` or a stutter, with the same invariant.
* `Verdict`: `Spec => FailureNeedsVerdict`, an action property. Each action that can
  fail a row is shown to be a last attempt of the row's slot (`RunOwnsJob` and
  `RunRow` tie the run to the slot) or to find no running job.

The identity lock and the queue (`IdentityLockProofs`, `CaptureQueueProofs`):

* `Exclusive`, `NoLeaks`, `NeverEvicted`, `MutexRefinement`: from `LockInv`, whose heart is
  that `refs` of a lock is the number of its users (`RefsCount`), that a user's lock
  is the one in the map (`NotEvicted`), and that two identities never share one
  (`Unshared`). Finiteness of `Goroutine` is assumed, for the cardinalities.
* `QueueTypeCorrect`, `OneLive`: from `QueueInv`. A decision is taken in one state
  and used in a later one, so the invariant says that it stands: while a
  find-or-create is about to create, no capture serves it (`DecisionStands`). That
  is preserved since holders of the advisory lock have different identities
  (`LockedApart`), since rows of captures carry their identity, or are at least there
  to be found by their spelling when the capture is from before identities, so that the
  reads find them (`RowsKeyed`, `Reached`), and since an item that could not be joined is in the
  history for good (`EverRight`).
* `AliasesDirect`, `JobsNameItems`: from `AliasInv`, whose `ReuseStands` says the same of a
  request that is about to make an alias: the capture it picked still owns the
  items, whatever became of their status.
* `FreshReused`: from `FreshInv`. A full archive is queued only if no fresh capture
  could be reused, but the read that says so looks at the newest `Limit` candidates
  and is over when the capture is created. So the invariant says of a request that
  is about to create: every fresh capture that covers its types has been pushed out
  by at least `Limit` newer ones of its post (`NoneIsReusable`, about the
  cardinality of `After`), and while it holds the lock none is added.

What the parts promise about artifacts and money:

* `FetchIsWhole` (`PaidFallbackProofs`): `FetchSpec => [](StoredIsWhole /\ AsksForward)`.
  The loop knows, whenever it asks again, that its file exists, that no whole file came
  after a range, and that a known length is not reached (`LoopKnows`); from that a chunk
  that ends the loop reaches the end of the file unless it fell short of it, which is in
  `lapses`, and a known length is then missed (`ChunkEnds`). A stored file is therefore
  whole when the length is known as it is, or unknown and no answer fell short.
* `CaptureHonest`, `CountersAreTrue` (`CaptureProofs`). A capture is honest because a
  stream ends well only with every part (`EndMeansAll`), because the call claims
  something only after its child is over (`ChildBeforeClaim`), and because every tool
  but gallery-dl exits well only with all it was asked for (`WellMeansWhole`). The
  monitor's counters follow from where the job and its two cleanup goroutines are
  (`JobAndTeardown`), what has been counted by then (`CountsKnow`), and that a timeout
  of the cleanup and the reaper kill at most once each (`KillsKnow`).
* `SpendRecorded`, `SuccessDelivered`, `NothingStaysBehind` (`PaidFallbackProofs`), from
  one invariant of five parts: the routes each stage serves (`RouteKnows`), that a
  triggered dataset without a row is the one being waited for, the process died, or
  saving its row failed last (`DatasetsKnow`), that whoever has bought something is at a stage each of whose
  ways out writes the row (`SpendKnows`), that a success row before the end is
  only TikTok's scrape (`VerdictsKnow`), and the files of each stage (`FilesKnow`).
* `ArtifactIsWhole`, `ReaderIsThere` (`ServingProofs`), from `WriterKnows`: a copy that
  ended without an error took every byte, on a writer nothing spoiled.
* `ClonesWhole` and the action property `NothingMovesUnderAClone`, from `GateKnows`,
  which ties the mutex to the one request that unpacks: it works on the artifact it
  read, nobody is served meanwhile, and while nobody unpacks a directory is whole
  unless the process once died in the middle (`died`; that exception is the hazard at
  `git.go:82`, which the theorem therefore does not hide but name).
* `VerdictHasCause`, that a preview becomes unavailable only for a screenshot that does
  not decode or after a fault, and the action property `ReadyIsKept`, from
  `VerdictKnows`. `BoundsKnow` carries the types: a job that waits has an attempt left,
  a run under way has not been counted.
* `FulfilledWhole`, `RetryTaken`, `CompletedShown` (`ArchiveResultProofs`): theorems of
  `ResultSpec`, the life of a capture of one post under one URL, where the run `posts` goes
  through several URLs. `MadeKnows` says what each archiver's completed artifact is
  like, `PostKnows` what the URL says of the post; the rest is about
  `selectSocialItem`, a CHOOSE, which is one of the candidates because the places in
  `updatedAt` are distinct (`CandidateTypes`), so that one candidate is best (`Selected`).
  `RetryTaken` rests besides on `ConfigKnows`, that the fallback covers the sites that
  ask for a login or none: a post somebody could log in to has a media item then
  (`MediaIsAsked`), and the item find-or-create looks at is the one that is shown
  (`SameItem`).

The URLs of posts (`ArchiveResultProofs`), for every set of ids, accounts, tokens and
referrers, from the invariant `Carried` that the URL under way is one of its post's:

* `IdentityKept`: one lemma says what each platform's function makes of each shape it
  claims (`YouTubeIs`, ...), one what cleaning leaves of a query (`Cleaned`), and
  `IdentityOf` puts them together for each site. That the invariant survives a second
  canonicalization is `PermalinkSubmitted`: the identity is itself a URL of the post.
* `ApartKept`: `PostAt` is an operator that reads a post from its permalink, and
  `Recovered` says that it returns the post, so two posts with one permalink are one.
* `ToolReached`: `IsVideoURL` searches the text of a URL, `IsGalleryDLURL` parses it.
  `MentionedIs` says when the two agree on the host, `SegmentIs` what a run of segments
  in a path is, and `Routed` decides each site.
* `FetchKept`: `FoundIs`, about the last numeric segment of a path.

Two assumptions name what these rest on. `NamesAssumption`: an id or an account name
is no word that a path uses (`reel`, `status`, `video`, ...), which the sites reserve;
numbers are told from other ids; folding the case of a name gives a name of the same
sort, folded; and a referrer parameter mentions no video site. The last is a limit of
the code, not of the sites: `IsYouTubeURL` and its like search the whole URL, so a post with
`youtube.com` in a parameter is given to yt-dlp as well. `PostAssumption`: a post is either one of
the kinds the canonicalizer claims (`Claimed`), or a page that it leaves alone, routed as
the page says, with URLs no other post has (`Unclaimed`). Of pages the theorems
therefore say no more than is assumed; the run `posts` evaluates the assumption for
ten pages next to the claimed shapes.

The logs (`LogProofs`):

* `HistoryKept`: `MigSpec => []HistoryIsKept`, for every number of instances, items
  and restarts, every interleaving of their inserts and whatever lines later attempts
  write. Several transactions may be open on one item and commit in any order, so the
  invariant speaks of what *would* be shown (`ItemKnows`): whoever has verified finds
  the old log's lines, in their order, among what is committed and its own, which no
  row of another transaction can undo, as rows are added at the end and never
  leave; everybody finds them once the column is empty; and before the first move
  the rows are what later attempts wrote. While no second instance has moved the log
  and no line in flight was passed by, the order is known as well (`OrderKnown`): the
  one mover's rows and what was written then read as the old log and the rest, and of
  the lasting rows at most the line in flight is not yet shown. `Transaction` ties an
  instance to the item and the rows of its transaction, `ViewKnows` says what a reader
  between its two statements has.
* `LogKept`: `LogSpec => []LogIsKept`, for every limit on a row that holds a rune, every
  split of the output into writes and every pattern of failures. Three facts carry
  it. Splitting a text keeps it and closes each row in time (`SplitIsText`,
  `SplitFits`). A prefix that ends between two runes, with nothing invalid in it, is
  read apart from the rest (`DecodedOn`). And the writer cuts only there, unless the
  prefix has an invalid byte or the last flush takes everything (`CutIsSafe`, about
  `nextFlushLenLocked`). The invariant `RowsTell` is that the output is what went into rows and
  what is in the buffer, and that the rows are the first part rune for rune. That
  invalid output is stored at all, in rows that fit, is part of it; where the
  replacement characters go is not, as a run of them that is cut becomes two.

Some of these need inductions: over the members of a set, over sequences, over what
a recursive function has computed. The induction theorems of the library take an
operator and are out of the prover's reach. They are replaced by theorems about
sets, proved by a least counterexample: `LeastOne` (a set of naturals that is not
empty has a least element), `AllNumbers` and `AllSequences` (a set that has the empty
sequence, and with a sequence all that are one longer, has all), and `FoldExists`,
`FoldUnique` and `FoldSteps`, that a recursive function of the model is the one its
equations describe.

Only model-checked:

* liveness (`RowSettles`, `EveryoneServed`, `RequestsEnd`, `CaptureReleases`,
  `BundleIsReleased`, `LoadEnds`, `PreviewSettles`), out of the prover's reach;
* `PartsTypeOK` as a whole. The types of `NativeCapture`, `BrowserBundle`, `ObjectStore`,
  `GitCache`, `ThumbnailPreview`, `PaidFallback` and, as `MigShape`, of `LogMigration` are
  proved with the invariants above, those of `PageLoad` and, as `LogTypeOK` states
  them, of the log writer are not.

## 5. Plan

The core and the parts around it are modelled, and their safety is proved. What is
left, in this order:

1. The types of `PageLoad` and `LogWriter` as their type invariants state them, and with
   them `PartsTypeOK`.
2. The hazards without a property: the columns a publish leaves alone, the row the error
   handler picks among twins, a capture whose objects are lost, and a partial or stale
   directory of the git cache, which happen and would need properties that except them.

## 6. Not modelled

Page parsing and subprocess output, templates and presentation, health checks and
tool discovery, authentication and API keys, and the text of logs and metadata:
they are sequential, or their interest is in strings that a model would have to
copy. Handlers that only read and render (pages, raw files, subtitles, manifests,
the cost summary) are left out as well. Of the parts that are modelled: the page
itself, the provider, the object store, the git protocol and image decoding are
external and may answer anything they can answer; limits on the length of a log,
prices, and the normalization of the provider's records are left out; the policy
memory is one bit, as one job asks about one host. So are a save of a usage row that
reaches the database and whose answer is lost, after which the code would create it
again; a server that sends more than it was asked for; a second line of one item while
one is in flight; two preview jobs of one item at once; a second `Close` of a
writer; and of `IsGitURL` what is not a hosting platform. A writer's insert that fails
is no step of `LogMigration`: it leaves at most an id nobody uses.

## 7. Running

    tlasany M.tla
    tlc -workers 2 -config MCArchivePipeline_retry.cfg MCArchivePipeline
    tlc -workers 2 -config MCParts.cfg MCParts
    tlapm ArchivePipelineProofs.tla      # and the other *Proofs.tla
