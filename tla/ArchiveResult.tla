--------------------------- MODULE ArchiveResult ---------------------------
(* What a client that polls the capture of a social post is told           *)
(* (ApiArchiveResult, buildSocialPost), over the life of the capture's      *)
(* media items: attempts, results of every quality, rows from before        *)
(* completeness was recorded, objects that can no longer be read. Beside    *)
(* it stands what find-or-create answers with the same capture.             *)
EXTENDS PostUrl, FiniteSetsExt

CONSTANTS Pictures,  \* media assets of a gallery post
          MediaRows, \* the types of the media items captures have, in load order
          Losses     \* bound on objects that cannot be read

ASSUME RowsAssumption == MediaRows \subseteq Seq({"yt-dlp", "gallery-dl"})
ASSUME PicturesAssumption == Pictures \in Nat \ {0}

VARIABLES
  assets,     \* how many assets the post has
  single,     \* the shape of its URL says it is one
  candidate,  \* the media items of the capture, in load order
  updatedAt,  \* index -> its place in the order of UpdatedAt
  gone,       \* <<index, object>> that cannot be read
  plain       \* the page's own items: "completed" all, "failed" one, or "open"

resultVars == <<assets, single, candidate, updatedAt, gone, plain>>

MediaType == {"yt-dlp", "gallery-dl"}
Object == {"artifact", "metadata", "raw"}
Candidates == DOMAIN candidate

preferredSocialType ==
  IF IsVideoURL(url) THEN "yt-dlp" ELSE IF IsGalleryDLURL(url) THEN "gallery-dl" ELSE ""
---------------------------------------------------------------------------
(* Artifacts: the completeness column and the keys of a row, the media     *)
(* files, whether some post record came with them, and, in a gallery        *)
(* bundle, the archiver's verdict and the number of files it expected (0:   *)
(* not known).                                                              *)
NoArtifact == [column |-> "", keys |-> {}, files |-> 0, described |-> FALSE,
               verdict |-> "", expected |-> 0]

Video == [NoArtifact EXCEPT !.column = "complete", !.keys = Object, !.files = 1, !.described = TRUE]

\* Kept rows: a video without one sidecar or both, a gallery without a verdict.
LegacyArtifacts(type) ==
  IF type = "yt-dlp"
  THEN {[Video EXCEPT !.column = "", !.keys = {"artifact"} \cup sidecars] :
          sidecars \in {{}, {"metadata"}, {"metadata", "raw"}}}
  ELSE {[NoArtifact EXCEPT !.keys = {"artifact"}, !.files = n, !.described = TRUE] : n \in 1..assets}

CompletenessFromCounts(expected, stored, runFailed) ==
  IF expected > 0 THEN (IF stored >= expected THEN "complete" ELSE "partial")
                  ELSE (IF runFailed THEN "partial" ELSE "unknown")

\* gallery-dl writes the record of each file after the file, so that only a
\* failed run leaves one without; the expected count is in the records, if
\* anywhere, or follows from the shape of the URL.
Gallery(stored, runFailed, described, counted) ==
  LET expected == IF counted /\ described THEN assets ELSE 0
      first == CompletenessFromCounts(expected, stored, runFailed)
      structural == first = "unknown" /\ stored = 1 /\ single
      verdict == IF structural THEN CompletenessFromCounts(1, stored, runFailed) ELSE first
  IN [column |-> verdict, keys |-> {"artifact"}, files |-> stored, described |-> described,
      verdict |-> verdict, expected |-> IF structural THEN 1 ELSE expected]

\* A fallback's bundle is one whose record counts the media.
Results(type) ==
  IF type = "yt-dlp" THEN {Video}
  ELSE {Gallery(run.stored, run.failed, TRUE, run.counted) :
          run \in [stored : 1..assets, failed : BOOLEAN, counted : BOOLEAN]}
         \cup {Gallery(1, TRUE, FALSE, c) : c \in BOOLEAN}
---------------------------------------------------------------------------
(* The answer *)
Readable(i, object) == object \in candidate[i].made.keys /\ <<i, object>> \notin gone

\* mutant: the preferred item that changed last, whatever came of it
socialRank_type(i) == IF candidate[i].type = preferredSocialType THEN 2 ELSE 0

socialRank(i) ==
  (IF candidate[i].type = preferredSocialType THEN 2 ELSE 0)
    + (IF candidate[i].status = "completed" THEN 1 ELSE 0)

\* 0: no candidate.
selectSocialItem ==
  LET Beats(i, j) == \/ socialRank(i) > socialRank(j)
                     \/ socialRank(i) = socialRank(j) /\ updatedAt[i] > updatedAt[j]
  IN IF Candidates = {} THEN 0
     ELSE CHOOSE i \in Candidates : \A j \in Candidates \ {i} : Beats(i, j)

\* A video is listed by its key; a bundle is opened and its files counted.
ServedMedia(i) ==
  IF candidate[i].type = "yt-dlp"
  THEN (IF "artifact" \in candidate[i].made.keys THEN 1 ELSE 0)
  ELSE (IF Readable(i, "artifact") THEN candidate[i].made.files ELSE 0)

PostShown(i) ==
  IF candidate[i].type = "yt-dlp" THEN Readable(i, "metadata") ELSE Readable(i, "artifact")

\* The record of a post names at least its URL or its text.
ValidPost(i) == PostShown(i) /\ candidate[i].made.described

\* A video's raw record is looked up once its metadata was read; a bundle's
\* lies beside its media.
RawAvailable(i) ==
  IF candidate[i].type = "yt-dlp" THEN PostShown(i) /\ Readable(i, "raw") ELSE ValidPost(i)

isStructurallyCompleteVideo(i) == candidate[i].type = "yt-dlp" /\ candidate[i].made.keys = Object

Bounded(state, expected, stored) ==
  IF (expected > 0 /\ stored < expected) \/ (stored = 0 /\ state = "complete") THEN "partial" ELSE state

\* mutant: media that is there is taken for all of it where nothing was recorded
socialCompletenessFor_lenient(i) ==
  Bounded(IF candidate[i].made.column = "" THEN "complete" ELSE candidate[i].made.column,
          0, ServedMedia(i))

\* The bundle's own verdict counts only while it can be opened.
socialCompletenessFor(i) ==
  LET made == candidate[i].made
      opened == candidate[i].type = "gallery-dl" /\ Readable(i, "artifact")
      state == CASE made.column # "" -> made.column
                 [] made.column = "" /\ opened /\ made.verdict # "" -> made.verdict
                 [] made.column = "" /\ ~(opened /\ made.verdict # "") ->
                      IF isStructurallyCompleteVideo(i) THEN "complete" ELSE "unknown"
      expected == IF opened /\ made.expected > 0 THEN made.expected
                  ELSE IF state = "complete" /\ candidate[i].type = "yt-dlp" THEN 1 ELSE 0
  IN Bounded(state, expected, ServedMedia(i))

socialFulfillmentFailure(i) ==
  CASE candidate[i].type = "yt-dlp" /\ "metadata" \notin candidate[i].made.keys -> "legacy_archive"
    [] OTHER ->
         IF ~ValidPost(i) THEN "metadata_unavailable"
         ELSE IF socialCompletenessFor(i) = "partial" THEN "media_incomplete"
         ELSE IF socialCompletenessFor(i) = "unknown" THEN "completeness_unknown"
         ELSE "raw_metadata_unavailable"

Retryable == {"authentication_required", "extractor_failed", "media_incomplete"}

Answer(status, failure) ==
  [status |-> status, terminal |-> status \notin {"pending", "processing"}, failure |-> failure]

buildSocialPost ==
  LET i == selectSocialItem
      fulfilled == /\ ValidPost(i) /\ RawAvailable(i) /\ ServedMedia(i) > 0
                   /\ socialCompletenessFor(i) = "complete"
  IN IF i = 0 THEN
       Answer("failed", IF /\ IsGalleryDLURL(url) /\ GalleryDLURLRequiresCookies(url)
                           /\ ~config.cookies
                        THEN "authentication_required" ELSE "unsupported_url")
     ELSE IF candidate[i].status = "failed" THEN Answer("failed", "extractor_failed")
     ELSE IF candidate[i].status # "completed" THEN Answer(candidate[i].status, "")
     ELSE IF fulfilled THEN Answer("fulfilled", "")
     ELSE Answer(IF ServedMedia(i) > 0 \/ PostShown(i) THEN "partial" ELSE "failed",
                 socialFulfillmentFailure(i))

\* capture_done, as far as the media items go.
captureDone == \A i \in Candidates : candidate[i].status \in {"completed", "failed"}
---------------------------------------------------------------------------
(* Find-or-create of the same post with default types. *)

\* mutant: any completed media item settles the request
completedSocialItemIsReusable_any(made, type) == "artifact" \in made.keys

completedSocialItemIsReusable(made, type) ==
  /\ made.column = "complete" /\ "artifact" \in made.keys
  /\ type = "yt-dlp" => {"metadata", "raw"} \subseteq made.keys

\* The request is relaxed to its media types, each found by the last of its
\* items; one that is left without them asks for the page's own items.
AnsweredWith ==
  IF MediaItems = {} THEN plain = "completed"
  ELSE \A type \in MediaItems :
         LET of == {i \in Candidates : candidate[i].type = type}
         IN /\ of # {}
            /\ candidate[Max(of)].status = "completed"
            /\ completedSocialItemIsReusable(candidate[Max(of)].made, type)
---------------------------------------------------------------------------
(* The life of the items *)
Row(type, status, made) == [type |-> type, status |-> status, made |-> made]

\* A capture with the media items of a default request, of explicit types, or
\* with twins, as concurrent backfills and the retired youtube type leave.
ResultInit ==
  /\ IF preferredSocialType = "yt-dlp" THEN assets = 1 /\ single = FALSE
     ELSE assets \in 1..Pictures /\ single \in (IF assets = 1 THEN BOOLEAN ELSE {FALSE})
  /\ \E types \in MediaRows :
       candidate \in [DOMAIN types -> UNION {
         {Row(t, "pending", NoArtifact)} \cup {Row(t, "completed", made) : made \in LegacyArtifacts(t)} :
         t \in ToSet(types)}] /\ \A i \in DOMAIN types : candidate[i].type = types[i]
  /\ updatedAt = [i \in Candidates |-> i] /\ gone = {} /\ plain = "open"

\* Every update of a row sets its UpdatedAt; the others keep their order.
Update(i, item) ==
  /\ candidate' = [candidate EXCEPT ![i] = item]
  /\ updatedAt' = [j \in Candidates |->
                    IF j = i THEN Len(candidate)
                    ELSE IF updatedAt[j] > updatedAt[i] THEN updatedAt[j] - 1 ELSE updatedAt[j]]
  /\ UNCHANGED <<assets, single>>

\* Also of an item that is completed: its job runs again after a crash.
StartAttempt(i) ==
  /\ candidate[i].status # "processing"
  /\ Update(i, [candidate[i] EXCEPT !.status = "processing"]) /\ UNCHANGED gone

\* New objects under new keys, and the columns with them.
PublishResult(i) ==
  /\ candidate[i].status = "processing"
  /\ \E made \in Results(candidate[i].type) : Update(i, Row(candidate[i].type, "completed", made))
  /\ gone' = {g \in gone : g[1] # i}

AttemptFails(i) ==
  /\ candidate[i].status = "processing"
  /\ Update(i, [candidate[i] EXCEPT !.status = "failed"]) /\ UNCHANGED gone

ResetFailed(i) ==
  /\ candidate[i].status = "failed"
  /\ Update(i, [candidate[i] EXCEPT !.status = "pending"]) /\ UNCHANGED gone

\* The preview of a completed item is stored after it.
PreviewStored(i) ==
  /\ candidate[i].status = "completed" /\ Update(i, candidate[i]) /\ UNCHANGED gone

ObjectLost(i) ==
  /\ Cardinality(gone) < Losses
  /\ \E object \in candidate[i].made.keys : gone' = gone \cup {<<i, object>>}
  /\ UNCHANGED <<assets, single, candidate, updatedAt>>

\* Attempts at the page and its screenshot end; after a crash, a failure or a
\* reset there are others.
PlainItemsMove ==
  /\ plain' \in (IF plain = "open" THEN {"completed", "failed"} ELSE {"open"})
  /\ UNCHANGED <<assets, single, candidate, updatedAt, gone>>

\* An operator gives or takes the credentials.
Reconfigured == config' = [config EXCEPT !.cookies = ~@] /\ UNCHANGED resultVars

ResultNext ==
  \/ \E i \in Candidates :
       /\ \/ StartAttempt(i) \/ PublishResult(i) \/ AttemptFails(i) \/ ResetFailed(i)
          \/ PreviewStored(i) \/ ObjectLost(i)
       /\ UNCHANGED <<plain, config>>
  \/ PlainItemsMove /\ UNCHANGED config
  \/ Reconfigured

\* The capture of one post under one URL.
ResultStep == ResultNext /\ UNCHANGED <<post, url>>
ResultSpec == Init /\ ResultInit /\ [][ResultStep]_<<vars, resultVars>>
---------------------------------------------------------------------------
(* "Fulfilled" is said only of a post whose every asset was stored and that *)
(* can still be read: the sidecars of a video, the bundle of a gallery with *)
(* its record; not of a bundle that holds a part, of one that says nothing,  *)
(* or of an earlier result. (The video file itself is not looked for, and   *)
(* an item of a type the URL does not route to speaks for its one video.)   *)
FulfilledIsWhole ==
  buildSocialPost.status = "fulfilled" =>
    LET i == selectSocialItem
    IN /\ candidate[i].type = preferredSocialType => candidate[i].made.files = assets
       /\ Readable(i, IF candidate[i].type = "yt-dlp" THEN "metadata" ELSE "artifact")
       /\ candidate[i].type = "yt-dlp" => Readable(i, "raw")
       /\ candidate[i].made.described

(* A client that does as it is told makes progress: where the answer is     *)
(* that a new attempt may help, find-or-create does not answer with the     *)
(* same finished capture, unless nobody could log in to fetch the post: its *)
(* requests are left without a media type, the page's own items settle them *)
(* (queue.go:336-341), and the result calls the capture retryable. A        *)
(* capture that answers any other post is fulfilled as long as its objects  *)
(* can be read. For captures with one item per type; twins are told apart   *)
(* in two ways (the last one, the latest updated).                          *)
RetryIsTaken ==
  /\ IsSocialMediaPostURL(url) /\ AnsweredWith
  /\ \A i, j \in Candidates : candidate[i].type = candidate[j].type => i = j
  => /\ buildSocialPost.failure \in Retryable => Hopeless
     /\ gone = {} /\ ~Hopeless => buildSocialPost.status = "fulfilled"

(* A failure or an attempt under way is never shown in place of a completed *)
(* item of the same type, however often and in whatever order the rows      *)
(* changed, and the answer is final once every item is.                      *)
CompletedIsShown ==
  /\ \A i \in Candidates :
       candidate[i].status = "completed" /\ candidate[i].type = candidate[selectSocialItem].type
         => candidate[selectSocialItem].status = "completed"
  /\ captureDone => buildSocialPost.terminal
=============================================================================
