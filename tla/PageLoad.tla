------------------------------ MODULE PageLoad ------------------------------
(* PerformCompletePageLoadWithContext of internal/archivers/utils.go and the *)
(* capture after it: navigate, wait for the network to be idle, scroll, wait *)
(* again, on a page whose requests and whose length never have to settle.    *)
(* Time is counted in polls of the waiting loop.                             *)
EXTENDS Naturals, FiniteSets

CONSTANTS Url,          \* URLs a page requests, the ignored trackers left out
          Tolerated,    \* maxAcceptablePersistentRequests
          MinWait,      \* minWaitBeforeFallback
          GiveUpAfter,  \* fallbackTimeoutMs
          LoadLimit,    \* total timeout of the wait after navigation
          SettleLimit,  \* total timeout of the wait after scrolling
          Idle,         \* idleDurationMs
          Height,       \* scroll steps to the initial bottom of the page
          MaxSteps      \* maxSteps of the scrolling script

ASSUME WaitAssumption == /\ MinWait \in Nat /\ GiveUpAfter \in Nat /\ LoadLimit \in Nat /\ SettleLimit \in Nat
                         /\ MinWait < GiveUpAfter /\ GiveUpAfter < LoadLimit
ASSUME ScrollAssumption == Tolerated \in Nat /\ Idle \in Nat \ {0} /\ Height \in Nat /\ MaxSteps \in Nat

VARIABLES loadPc,    \* where the sequence is
          ctxOver,   \* the job's two minutes are over
          inflight,  \* URL -> requests the page has in flight
          pending,   \* pendingRequests of the current wait
          elapsed,   \* polls since the wait began
          quiet,     \* polls since idleStart, 0 while it is nil
          flagged,   \* fallbackTriggered
          scrolled   \* steps of the scrolling script

loadVars == <<loadPc, ctxOver, inflight, pending, elapsed, quiet, flagged, scrolled>>
waiting == <<pending, elapsed, quiet, flagged>>

PageInit ==
  /\ loadPc = "navigate" /\ ctxOver = FALSE /\ inflight = [u \in Url |-> 0]
  /\ pending = {} /\ elapsed = 0 /\ quiet = 0 /\ flagged = FALSE /\ scrolled = 0

Waits == {"idle", "settle"}

---------------------------------------------------------------------------
(* The page. Its listeners key requests by URL, and only those that start    *)
(* after the wait began. *)

RequestStarts(u) ==
  /\ loadPc \notin {"captured", "failed"} /\ inflight[u] < 2
  /\ inflight' = [inflight EXCEPT ![u] = @ + 1]
  /\ pending' = IF loadPc \in Waits THEN pending \cup {u} ELSE pending
  /\ UNCHANGED <<loadPc, ctxOver, elapsed, quiet, flagged, scrolled>>

RequestEnds(u) ==
  /\ loadPc \notin {"captured", "failed"} /\ inflight[u] > 0
  /\ inflight' = [inflight EXCEPT ![u] = @ - 1]
  /\ pending' = pending \ {u}
  /\ UNCHANGED <<loadPc, ctxOver, elapsed, quiet, flagged, scrolled>>

ContextEnds ==
  /\ ~ctxOver /\ loadPc \notin {"captured", "failed"}
  /\ ctxOver' = TRUE
  /\ UNCHANGED <<loadPc, inflight, waiting, scrolled>>

---------------------------------------------------------------------------
(* The sequence *)

\* A wait starts with an empty map of its own.
Enter(phase) ==
  /\ loadPc' = phase /\ pending' = {} /\ elapsed' = 0 /\ quiet' = 0 /\ flagged' = FALSE
  /\ UNCHANGED <<ctxOver, inflight, scrolled>>

Navigate == loadPc = "navigate" /\ ~ctxOver /\ Enter("idle")
NavigationFails == loadPc = "navigate" /\ Enter("failed")

\* Every context check but the one after the second wait ends the capture.
ContextStops == loadPc \in {"idle", "media", "scroll", "capture"} /\ ctxOver /\ Enter("failed")

WaitLimit == IF loadPc = "idle" THEN LoadLimit ELSE SettleLimit
WaitAccepted == Enter(IF loadPc = "idle" THEN "media" ELSE "capture")

\* An error of the first wait fails the load, one of the second is logged.
WaitExpires ==
  /\ loadPc \in Waits /\ elapsed > WaitLimit
  /\ Enter(IF loadPc = "idle" THEN "failed" ELSE "capture")

SettleInterrupted == loadPc = "settle" /\ ctxOver /\ Enter("capture")

Polling == loadPc \in Waits /\ elapsed <= WaitLimit
Sleep == elapsed' = elapsed + 1 /\ UNCHANGED <<loadPc, ctxOver, inflight, pending, scrolled>>

PollQuiet ==
  /\ Polling /\ pending = {}
  /\ \/ quiet > Idle /\ WaitAccepted
     \/ quiet <= Idle /\ quiet' = quiet + 1 /\ Sleep /\ UNCHANGED flagged

\* The branch is entered until the flag is set, which its first pass does
\* when there are too many requests and it is too early to give up.
Fallback == elapsed > MinWait /\ ~flagged
GoodEnough == Cardinality(pending) <= Tolerated \/ elapsed > GiveUpAfter

PollBusy_restarts ==   \* mutant: the wait starts over with every busy poll
  /\ Polling /\ pending # {}
  /\ \/ Fallback /\ GoodEnough /\ WaitAccepted
     \/ /\ Fallback => ~GoodEnough
        /\ quiet' = 0 /\ flagged' = (flagged \/ Fallback)
        /\ elapsed' = 0 /\ UNCHANGED <<loadPc, ctxOver, inflight, pending, scrolled>>

PollBusy ==
  /\ Polling /\ pending # {}
  /\ \/ Fallback /\ GoodEnough /\ WaitAccepted
     \/ /\ Fallback => ~GoodEnough
        /\ quiet' = 0 /\ flagged' = (flagged \/ Fallback)
        /\ Sleep

\* The images and videos have loaded, or the ten seconds for them are over.
MediaChecked == loadPc = "media" /\ Enter("scroll")

\* The script runs to the bottom the page had at its start.
ScrollStep ==
  /\ loadPc = "scroll" /\ scrolled < Height /\ scrolled < MaxSteps
  /\ scrolled' = scrolled + 1
  /\ UNCHANGED <<loadPc, ctxOver, inflight, waiting>>

\* The boundary, the step cap, the time cap or an error, none of which fails the load.
ScrollEnds == loadPc = "scroll" /\ ~ctxOver /\ Enter("settle")

Capture == loadPc = "capture" /\ ~ctxOver /\ Enter("captured")
CaptureFails == loadPc = "capture" /\ Enter("failed")

Loading ==
  \/ Navigate \/ NavigationFails \/ ContextStops \/ WaitExpires \/ SettleInterrupted
  \/ PollQuiet \/ PollBusy \/ MediaChecked \/ ScrollStep \/ ScrollEnds \/ Capture \/ CaptureFails

PageNext == Loading \/ ContextEnds \/ \E u \in Url : RequestStarts(u) \/ RequestEnds(u)

PageSpec == PageInit /\ [][PageNext]_loadVars
FairPageSpec == PageSpec /\ WF_loadVars(Loading)

---------------------------------------------------------------------------

\* Types of the page load's state.
PageTypeOK ==
  /\ loadPc \in Waits \cup {"navigate", "media", "scroll", "capture", "captured", "failed"}
  /\ ctxOver \in BOOLEAN /\ inflight \in [Url -> 0..2] /\ pending \subseteq Url
  /\ elapsed \in Nat /\ quiet \in 0..Idle + 1 /\ flagged \in BOOLEAN /\ scrolled \in 0..MaxSteps

\* Every page load ends, on a page that always has requests in flight and
\* grows while it is scrolled, even if the context never ends
\* (utils.go:179-183, 354-361).
LoadEnds == <>(loadPc \in {"captured", "failed"})

\* utils.go:392-396: after the fallback timeout the load continues with the
\* persistent requests it has, "better than failing completely". A busy page
\* alone never fails a capture.
BusyPageIsCaptured == [][loadPc = "idle" /\ loadPc' = "failed" => ctxOver]_loadVars
=============================================================================
