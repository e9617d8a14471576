---------------------------- MODULE BrowserBundle ----------------------------
(* The Playwright resources of one browser job: setupBrowserForArchiving and *)
(* PWBundle of internal/archivers, the deferred Cleanup of the worker, and   *)
(* the reaper and counters of internal/monitoring. Chromium or the driver    *)
(* may wedge; what waits for them then waits.                                *)
EXTENDS Naturals

VARIABLES jobPc,     \* the job's goroutine
          handed,    \* Archive gave its bundle to the worker
          driver,    \* "none", "up", "stopped": the Playwright driver process
          chrome,    \* "none", "up", "closed": the Chromium processes
          window,    \* the browser context: "none", "up", "closed"
          held,      \* what the bundle still refers to: subset of {"pw", "browser", "context"}
          wedged,    \* "none", "chrome" or "driver"
          aged,      \* Chromium is older than orphanReapAge
          teardown,  \* performCleanup: "none", "context", "browser", "driver", "done"
          waiter,    \* Cleanup inside once.Do: "none", "waiting", "over"
          launches, closes, creates, cleanups, kills   \* the monitor's counters

bundleVars == <<jobPc, handed, driver, chrome, window, held, wedged, aged, teardown, waiter,
                launches, closes, creates, cleanups, kills>>
processes == <<driver, chrome, window>>
closing == <<teardown, waiter>>
counters == <<launches, closes, creates, cleanups, kills>>

BundleInit ==
  /\ jobPc = "start" /\ handed = FALSE /\ driver = "none" /\ chrome = "none" /\ window = "none"
  /\ held = {} /\ wedged = "none" /\ aged = FALSE /\ teardown = "none" /\ waiter = "none"
  /\ launches = 0 /\ closes = 0 /\ creates = 0 /\ cleanups = 0 /\ kills = 0

---------------------------------------------------------------------------
(* setupBrowserForArchiving *)

\* The launch is counted before it is tried.
RunDriver ==
  /\ jobPc = "start"
  /\ launches' = launches + 1
  /\ \/ driver' = "up" /\ held' = {"pw"} /\ jobPc' = "launch"
     \/ jobPc' = "over" /\ UNCHANGED <<driver, held>>
  /\ UNCHANGED <<handed, chrome, window, wedged, aged, closing, closes, creates, cleanups, kills>>

\* A Cleanup the caller waits for: the first call starts the teardown.
StartCleanup == teardown' = "context" /\ waiter' = "waiting" /\ jobPc' = "cleaning"

LaunchBrowser ==
  /\ jobPc = "launch" /\ wedged # "driver"
  /\ \/ /\ chrome' = "up" /\ held' = held \cup {"browser"} /\ creates' = creates + 1 /\ jobPc' = "context"
        /\ UNCHANGED closing
     \/ StartCleanup /\ UNCHANGED <<chrome, held, creates>>
  /\ UNCHANGED <<handed, driver, window, wedged, aged, launches, closes, cleanups, kills>>

\* A call that Chromium must answer returns only while it is not wedged.
CreateContext ==
  /\ jobPc = "context" /\ wedged = "none"
  /\ \/ /\ chrome = "up"
        /\ window' = "up" /\ held' = held \cup {"context"} /\ jobPc' = "page" /\ UNCHANGED closing
     \/ StartCleanup /\ UNCHANGED <<window, held>>
  /\ UNCHANGED <<handed, driver, chrome, wedged, aged, counters>>

\* With or without a page the bundle goes to the worker.
CreatePage ==
  /\ jobPc = "page" /\ wedged = "none"
  /\ \/ chrome = "up" /\ jobPc' = "archiving" /\ UNCHANGED handed
     \/ jobPc' = "returned" /\ handed' = TRUE
  /\ UNCHANGED <<processes, held, wedged, aged, closing, counters>>

---------------------------------------------------------------------------
(* Archive and the worker *)

\* Page calls time out and the waits heed the context, so Archive returns, with
\* an error if it must.
ArchiveEnds ==
  /\ jobPc = "archiving"
  /\ jobPc' = "returned" /\ handed' = TRUE
  /\ UNCHANGED <<processes, held, wedged, aged, closing, counters>>

\* River recovers a panic; the worker never saw the bundle.
ArchivePanics ==
  /\ jobPc = "archiving"
  /\ jobPc' = "over"
  /\ UNCHANGED <<handed, processes, held, wedged, aged, closing, counters>>

\* Storing ended, well or not, and the deferred call runs.
WorkerCleansUp ==
  /\ jobPc = "returned" /\ StartCleanup
  /\ UNCHANGED <<handed, processes, held, wedged, aged, counters>>

CleanupReturns ==
  /\ jobPc = "cleaning" /\ waiter = "waiting" /\ teardown = "done"
  /\ waiter' = "over" /\ jobPc' = "over"
  /\ UNCHANGED <<handed, processes, held, wedged, aged, teardown, counters>>

CleanupTimesOut ==
  /\ jobPc = "cleaning" /\ waiter = "waiting" /\ teardown # "done"
  /\ waiter' = "over" /\ jobPc' = "over" /\ kills' = kills + 1
  /\ UNCHANGED <<handed, processes, held, wedged, aged, teardown, launches, closes, creates, cleanups>>

---------------------------------------------------------------------------
(* performCleanup, which goes on after Cleanup gave up on it. An error or a   *)
(* panic of a Close is logged and its process may survive.                   *)

CloseContext_ends ==   \* mutant: ends the teardown when the context fails to close
  /\ teardown = "context" /\ ("context" \in held => wedged = "none")
  /\ teardown' \in {"browser", "done"} /\ held' = held \ {"context"}
  /\ window' \in (IF "context" \in held THEN {window, "closed"} ELSE {window})
  /\ UNCHANGED <<jobPc, handed, driver, chrome, wedged, aged, waiter, counters>>

CloseContext ==
  /\ teardown = "context" /\ ("context" \in held => wedged = "none")
  /\ teardown' = "browser" /\ held' = held \ {"context"}
  /\ window' \in (IF "context" \in held THEN {window, "closed"} ELSE {window})
  /\ UNCHANGED <<jobPc, handed, driver, chrome, wedged, aged, waiter, counters>>

CloseBrowser ==
  /\ teardown = "browser" /\ ("browser" \in held => wedged = "none")
  /\ teardown' = "driver" /\ held' = held \ {"browser"}
  /\ IF "browser" \in held
     THEN chrome' \in {chrome, "closed"} /\ cleanups' = cleanups + 1
     ELSE UNCHANGED <<chrome, cleanups>>
  /\ UNCHANGED <<jobPc, handed, driver, window, wedged, aged, waiter, launches, closes, creates, kills>>

\* pw.Stop waits for the driver, which waits for its browsers.
StopDriver ==
  /\ teardown = "driver" /\ wedged = "none"
  /\ teardown' = "done" /\ held' = held \ {"pw"}
  /\ driver' = "stopped" /\ closes' = closes + 1
  /\ UNCHANGED <<jobPc, handed, chrome, window, wedged, aged, waiter, launches, creates, cleanups, kills>>

---------------------------------------------------------------------------
(* The processes and the reaper *)

Wedge ==
  /\ wedged = "none" /\ ~aged
  /\ \/ chrome = "up" /\ wedged' = "chrome"
     \/ driver = "up" /\ jobPc \notin {"launch", "context", "page"} /\ wedged' = "driver"
  /\ UNCHANGED <<jobPc, handed, processes, held, aged, closing, counters>>

\* A healthy job is over long before; ten minutes are for what stayed behind.
GrowOld ==
  /\ chrome = "up" /\ ~aged /\ (wedged # "none" \/ jobPc = "over")
  /\ aged' = TRUE
  /\ UNCHANGED <<jobPc, handed, processes, held, wedged, closing, counters>>

Reap_childOnly ==   \* mutant: what waits for Chromium goes on waiting
  /\ chrome = "up" /\ aged
  /\ chrome' = "closed" /\ kills' = kills + 1
  /\ wedged' = wedged
  /\ UNCHANGED <<jobPc, handed, driver, window, held, aged, closing, launches, closes, creates, cleanups>>

Reap ==
  /\ chrome = "up" /\ aged
  /\ chrome' = "closed" /\ kills' = kills + 1
  /\ wedged' = IF wedged = "chrome" THEN "none" ELSE wedged
  /\ UNCHANGED <<jobPc, handed, driver, window, held, aged, closing, launches, closes, creates, cleanups>>

Job == RunDriver \/ LaunchBrowser \/ CreateContext \/ CreatePage \/ ArchiveEnds \/ ArchivePanics
       \/ WorkerCleansUp \/ CleanupReturns \/ CleanupTimesOut
Teardown == CloseContext \/ CloseBrowser \/ StopDriver
Reaper == GrowOld \/ Reap

BundleNext == Job \/ Teardown \/ Reaper \/ Wedge

BundleSpec == BundleInit /\ [][BundleNext]_bundleVars

\* The goroutines run, the ticker of the reaper fires every minute.
BundleFairness == WF_bundleVars(Job) /\ WF_bundleVars(Teardown) /\ WF_bundleVars(Reaper)

---------------------------------------------------------------------------

\* Types of the bundle's state.
BundleTypeOK ==
  /\ jobPc \in {"start", "launch", "context", "page", "archiving", "returned", "cleaning", "over"}
  /\ handed \in BOOLEAN /\ aged \in BOOLEAN /\ held \subseteq {"pw", "browser", "context"}
  /\ driver \in {"none", "up", "stopped"} /\ chrome \in {"none", "up", "closed"} /\ window \in {"none", "up", "closed"}
  /\ wedged \in {"none", "chrome", "driver"}
  /\ teardown \in {"none", "context", "browser", "driver", "done"} /\ waiter \in {"none", "waiting", "over"}
  /\ {launches, closes, creates, cleanups} \subseteq 0..1 /\ kills \in 0..2

\* The job's worker slot is freed, whatever wedges and wherever, without any
\* help for the teardown (pwbundle.go:200-206). A driver that wedges while it
\* sets the browser up is the one case nothing bounds.
SlotIsFreed == <>(jobPc = "over")

\* What a job started is gone in the end: the driver is stopped, a wedged or
\* forgotten Chromium is reaped, and the teardown the worker abandoned has
\* finished (pwbundle.go:208-213, browser_monitor.go:252-256). Only a wedged
\* driver and a panic inside Archive leave a driver behind.
NothingStaysUp ==
  <>[]( /\ chrome # "up"
        /\ driver # "up" \/ wedged = "driver" \/ (jobPc = "over" /\ ~handed /\ teardown = "none") )

\* The job lets go of its slot and of its processes.
BundleIsReleased == SlotIsFreed /\ NothingStaysUp

\* A launch is closed at most once, however often a cleanup is asked for or
\* abandoned, and when a job is over the imbalance detectLeaks looks at stands
\* for something: a teardown under way, a bundle lost to a panic, or a driver
\* that never started (browser_monitor.go:186-211).
CountersTell ==
  /\ closes <= launches /\ cleanups <= creates
  /\ jobPc = "over" /\ launches > closes =>
       teardown \in {"context", "browser", "driver"} \/ ~handed
  /\ teardown = "done" => launches = closes /\ creates = cleanups
=============================================================================
