------------------------ MODULE ArchiveResultProofs ------------------------
(* What the answer to a polling client says is true of the capture, for      *)
(* every number of media items, every number of pictures in a post and every *)
(* order of updates. And, from "What a query is once it is cleaned" on, what *)
(* PostUrl says of URLs: every spelling of a post has the post's identity,   *)
(* no other post has it, and it reaches the archiver that can fetch it.      *)
EXTENDS ArchiveResult, FiniteSetTheorems, SequenceTheorems, TLAPS

---------------------------------------------------------------------------
(* A set of numbers has a least one. *)

\* The well-foundedness of the naturals, without an operator as a parameter.
LEMMA LeastOne ==
    ASSUME NEW T \in SUBSET Nat, T # {}
    PROVE  \E n \in T : \A m \in T : n <= m
<1> DEFINE R == OpToRel(<, Nat)
<1>1. PICK n \in T : \A m \in T : ~(<<m, n>> \in R)
  <2>1. IsWellFoundedOn(R, Nat)
    BY NatLessThanWellFounded, Zenon
  <2>2. QED BY <2>1, WFMin, Zenon
<1>2. \A m \in T : ~(m < n)
  BY <1>1 DEF OpToRel
<1>3. QED BY <1>2

---------------------------------------------------------------------------
(* The invariant *)

Status == {"pending", "processing", "completed", "failed"}
Verdict == {"", "complete", "partial", "unknown"}
Artifact == [column : Verdict, keys : SUBSET Object, files : Nat, described : BOOLEAN,
             verdict : Verdict, expected : Nat]
Item == [type : MediaType, status : Status, made : Artifact]

\* What a completed video item holds: its one file, described, and a
\* completeness column only with the objects the column stands for.
VideoMade(made) ==
  /\ made.column \in {"", "complete"} /\ made.verdict = "" /\ made.expected = 0
  /\ "artifact" \in made.keys /\ (made.column = "complete" => made.keys = Object)
  /\ made.files = 1 /\ made.described

\* What a completed gallery item holds: the column is the bundle's verdict, and
\* one that says complete is of a described bundle with every asset.
GalleryMade(made) ==
  /\ made.verdict = made.column /\ made.keys = {"artifact"} /\ made.files \in 1..assets
  /\ made.column = "complete" => made.files = assets /\ made.described /\ made.expected <= made.files

CandidateTypes ==
  /\ candidate \in Seq(Item)
  /\ updatedAt \in [Candidates -> 1..Len(candidate)]
  /\ \A i, j \in Candidates : updatedAt[i] = updatedAt[j] => i = j

PostKnows ==
  /\ assets \in Nat \ {0} /\ single \in BOOLEAN /\ (single => assets = 1)
  /\ preferredSocialType = "yt-dlp" => assets = 1

MadeFor(type, made) == IF type = "yt-dlp" THEN VideoMade(made) ELSE GalleryMade(made)

MadeKnows ==
  \A i \in Candidates : candidate[i].status = "completed" => MadeFor(candidate[i].type, candidate[i].made)

ResultInv == CandidateTypes /\ PostKnows /\ MadeKnows

\* A candidate is a row of the capture, and no row has the index 0.
LEMMA RowShape ==
    ASSUME CandidateTypes, NEW i \in Candidates
    PROVE  /\ i # 0 /\ Candidates = 1..Len(candidate)
           /\ candidate[i] \in Item /\ candidate[i].type \in MediaType
           /\ candidate[i].status \in Status /\ candidate[i].made \in Artifact
<1>1. candidate \in Seq(Item) /\ i \in DOMAIN candidate
  BY DEF CandidateTypes, Candidates
<1>2. i # 0 /\ DOMAIN candidate = 1..Len(candidate) /\ candidate[i] \in Item
  BY <1>1
<1>3. QED BY <1>2 DEF Item, Candidates

---------------------------------------------------------------------------
(* The answer is about the best candidate. *)

LEMMA RanksAreSmall == \A i : socialRank(i) \in 0..3
BY DEF socialRank

\* Where there is a candidate there is one that no other beats.
LEMMA Selected ==
    ASSUME CandidateTypes, Candidates # {}
    PROVE  /\ selectSocialItem \in Candidates
           /\ \A j \in Candidates : socialRank(j) <= socialRank(selectSocialItem)
<1> DEFINE Best == {i \in Candidates : \A j \in Candidates : socialRank(j) <= socialRank(i)}
           Beats(i, j) == \/ socialRank(i) > socialRank(j)
                          \/ socialRank(i) = socialRank(j) /\ updatedAt[i] > updatedAt[j]
<1>1. PICK b \in Best : TRUE
  <2>1. PICK n \in {3 - socialRank(i) : i \in Candidates} : \A m \in {3 - socialRank(i) : i \in Candidates} : n <= m
    <3>1. {3 - socialRank(i) : i \in Candidates} \in SUBSET Nat
      BY RanksAreSmall
    <3>2. {3 - socialRank(i) : i \in Candidates} # {}
      OBVIOUS
    <3>3. QED BY <3>1, <3>2, LeastOne, Zenon
  <2>2. PICK i \in Candidates : n = 3 - socialRank(i)
    BY <2>1
  <2>3. ASSUME NEW j \in Candidates PROVE socialRank(j) <= socialRank(i)
    BY <2>1, <2>2, RanksAreSmall
  <2>4. QED BY <2>2, <2>3
<1>2. PICK k \in Best : \A j \in Best : updatedAt[j] <= updatedAt[k]
  <2>0. \A j \in Best : updatedAt[j] \in 1..Len(candidate) /\ Len(candidate) \in Nat
    BY DEF CandidateTypes
  <2> DEFINE T == {Len(candidate) - updatedAt[j] : j \in Best}
  <2>1. PICK n \in T : \A m \in T : n <= m
    <3>1. T \in SUBSET Nat
      BY <2>0
    <3>2. T # {}
      BY <1>1
    <3>3. QED BY <3>1, <3>2, LeastOne, Zenon
  <2>2. PICK k \in Best : n = Len(candidate) - updatedAt[k]
    BY <2>1
  <2>3. ASSUME NEW j \in Best PROVE updatedAt[j] <= updatedAt[k]
    <3>1. Len(candidate) - updatedAt[j] \in T
      OBVIOUS
    <3>2. n <= Len(candidate) - updatedAt[j]
      BY <2>1, <3>1
    <3>3. QED BY <2>0, <2>2, <3>2
  <2>4. QED BY <2>2, <2>3
<1>3. ASSUME NEW j \in Candidates \ {k} PROVE Beats(k, j)
  <2>1. CASE j \in Best
    <3>1. socialRank(j) <= socialRank(k) /\ socialRank(k) <= socialRank(j)
      BY <1>2, <1>3, <2>1
    <3>2. updatedAt[j] <= updatedAt[k] /\ updatedAt[j] # updatedAt[k]
      BY <1>2, <1>3, <2>1 DEF CandidateTypes
    <3>3. updatedAt[j] \in 1..Len(candidate) /\ updatedAt[k] \in 1..Len(candidate) /\ Len(candidate) \in Nat
      BY <1>2, <1>3, <2>1 DEF CandidateTypes
    <3>4. QED BY <3>1, <3>2, <3>3, RanksAreSmall
  <2>2. CASE j \notin Best
    <3>1. socialRank(j) <= socialRank(k)
      BY <1>2, <1>3
    <3>2. socialRank(j) # socialRank(k)
      BY <1>2, <1>3, <2>2
    <3>3. QED BY <3>1, <3>2, RanksAreSmall
  <2>3. QED BY <2>1, <2>2
<1>4. \E i \in Candidates : \A j \in Candidates \ {i} : Beats(i, j)
  BY <1>2, <1>3
<1>5. /\ selectSocialItem \in Candidates
      /\ \A j \in Candidates \ {selectSocialItem} : Beats(selectSocialItem, j)
  <2>1. selectSocialItem = CHOOSE i \in Candidates : \A j \in Candidates \ {i} : Beats(i, j)
    BY DEF selectSocialItem
  <2> HIDE DEF Beats
  <2>2. QED BY <1>4, <2>1
<1>6. QED BY <1>5, RanksAreSmall

---------------------------------------------------------------------------
(* What the invariant says of the answer *)

\* A "fulfilled" answer is about a completed item whose checks all passed.
LEMMA FulfilledItem ==
    ASSUME ResultInv, buildSocialPost.status = "fulfilled"
    PROVE  /\ selectSocialItem \in Candidates
           /\ candidate[selectSocialItem].status = "completed"
           /\ ValidPost(selectSocialItem) /\ RawAvailable(selectSocialItem)
           /\ socialCompletenessFor(selectSocialItem) = "complete"
<1> DEFINE i == selectSocialItem
           fulfilled == /\ ValidPost(i) /\ RawAvailable(i) /\ ServedMedia(i) > 0
                        /\ socialCompletenessFor(i) = "complete"
<1>1. i \in Candidates
  <2>1. CASE Candidates = {}
    <3>1. i = 0
      BY <2>1 DEF selectSocialItem
    <3>2. buildSocialPost.status = "failed"
      BY <3>1 DEF buildSocialPost, Answer
    <3>3. QED BY <3>2
  <2>2. CASE Candidates # {}
    BY <2>2, Selected DEF ResultInv
  <2>3. QED BY <2>1, <2>2
<1>2. i # 0 /\ candidate[i].status \in Status
  BY <1>1, RowShape DEF ResultInv
<1> HIDE DEF i
<1>3. candidate[i].status = "completed" /\ fulfilled
  <2>1. buildSocialPost =
          IF candidate[i].status = "failed" THEN Answer("failed", "extractor_failed")
          ELSE IF candidate[i].status # "completed" THEN Answer(candidate[i].status, "")
          ELSE IF fulfilled THEN Answer("fulfilled", "")
          ELSE Answer(IF ServedMedia(i) > 0 \/ PostShown(i) THEN "partial" ELSE "failed",
                      socialFulfillmentFailure(i))
    BY <1>2 DEF buildSocialPost, i
  <2>2. \A status, failure : Answer(status, failure).status = status
    BY DEF Answer
  <2> HIDE DEF fulfilled
  <2>3. QED BY <1>2, <2>1, <2>2 DEF Status
<1>4. QED BY <1>1, <1>3 DEF i

\* Only a column that says so makes a completed gallery complete.
LEMMA CompleteGallery ==
    ASSUME ResultInv, NEW i \in Candidates, candidate[i].status = "completed",
           candidate[i].type = "gallery-dl", socialCompletenessFor(i) = "complete"
    PROVE  candidate[i].made.column = "complete"
<1>1. candidate[i].made.verdict = candidate[i].made.column /\ candidate[i].made.column \in Verdict
  BY RowShape DEF ResultInv, MadeKnows, MadeFor, GalleryMade, Artifact
<1>2. ~isStructurallyCompleteVideo(i)
  BY DEF isStructurallyCompleteVideo
<1>3. QED BY <1>1, <1>2 DEF socialCompletenessFor, Bounded, Verdict

LEMMA InvFulfilled == ResultInv => FulfilledIsWhole
<1>1. SUFFICES ASSUME ResultInv, buildSocialPost.status = "fulfilled",
                      NEW i, i = selectSocialItem
               PROVE  /\ candidate[i].type = preferredSocialType => candidate[i].made.files = assets
                      /\ Readable(i, IF candidate[i].type = "yt-dlp" THEN "metadata" ELSE "artifact")
                      /\ candidate[i].type = "yt-dlp" => Readable(i, "raw")
                      /\ candidate[i].made.described
  BY DEF FulfilledIsWhole
<1>2. /\ i \in Candidates /\ candidate[i].status = "completed"
      /\ ValidPost(i) /\ RawAvailable(i) /\ socialCompletenessFor(i) = "complete"
  BY <1>1, FulfilledItem
<1>3. candidate[i].type \in MediaType
  BY <1>1, <1>2, RowShape DEF ResultInv
<1>4. CASE candidate[i].type = "yt-dlp"
  <2>1. candidate[i].made.files = 1
    BY <1>1, <1>2, <1>4 DEF ResultInv, MadeKnows, MadeFor, VideoMade
  <2>2. candidate[i].type = preferredSocialType => assets = 1
    BY <1>1, <1>4 DEF ResultInv, PostKnows
  <2>3. QED BY <1>2, <1>4, <2>1, <2>2 DEF ValidPost, PostShown, RawAvailable
<1>5. CASE candidate[i].type = "gallery-dl"
  <2>1. candidate[i].made.files = assets
    BY <1>1, <1>2, <1>5, CompleteGallery DEF ResultInv, MadeKnows, MadeFor, GalleryMade
  <2>2. QED BY <1>2, <1>5, <2>1 DEF ValidPost, PostShown
<1>6. QED BY <1>3, <1>4, <1>5 DEF MediaType

LEMMA InvShown == ResultInv => CompletedIsShown
<1> DEFINE s == selectSocialItem
<1>1. SUFFICES ASSUME ResultInv PROVE CompletedIsShown
  OBVIOUS
<1>2. ASSUME NEW i \in Candidates, candidate[i].status = "completed", candidate[i].type = candidate[s].type
      PROVE  candidate[s].status = "completed"
  <2>1. socialRank(i) <= socialRank(s)
    BY <1>1, Selected DEF ResultInv
  <2> HIDE DEF s
  <2>2. QED BY <1>2, <2>1 DEF socialRank
<1>3. ASSUME captureDone PROVE buildSocialPost.terminal
  <2>1. \A failure : \A status \in {"failed", "fulfilled", "partial"} : Answer(status, failure).terminal = TRUE
    BY DEF Answer
  <2>2. CASE Candidates = {}
    <3>1. s = 0
      BY <2>2 DEF selectSocialItem
    <3>2. PICK failure : buildSocialPost = Answer("failed", failure)
      BY <3>1 DEF buildSocialPost
    <3>3. QED BY <2>1, <3>2
  <2>3. CASE Candidates # {}
    <3>1. s \in Candidates
      BY <1>1, <2>3, Selected DEF ResultInv
    <3>2. s # 0 /\ candidate[s].status \in {"completed", "failed"}
      BY <1>1, <1>3, <3>1, RowShape DEF ResultInv, captureDone
    <3>3. \E failure : \E status \in {"failed", "fulfilled", "partial"} : buildSocialPost = Answer(status, failure)
      <4>1. CASE candidate[s].status = "failed"
        BY <3>2, <4>1 DEF buildSocialPost
      <4>2. CASE candidate[s].status = "completed"
        BY <3>2, <4>2 DEF buildSocialPost
      <4>3. QED BY <3>2, <4>1, <4>2
    <3>4. QED BY <2>1, <3>3
  <2>4. QED BY <2>2, <2>3
<1>4. QED BY <1>2, <1>3 DEF CompletedIsShown

\* A URL with media items has one of the preferred type.
LEMMA PreferredIsAsked ==
    ASSUME MediaItems # {}
    PROVE  preferredSocialType \in MediaItems /\ preferredSocialType \in MediaType
<1>1. CASE IsVideoURL(url)
  BY <1>1 DEF MediaItems, GetArchiveTypes, preferredSocialType, MediaType
<1>2. CASE ~IsVideoURL(url)
  <2>1. "gallery-dl" \in MediaItems /\ ShouldCreateGalleryDLItem(url)
    BY <1>2 DEF MediaItems, GetArchiveTypes
  <2>2. IsGalleryDLURL(url)
    BY <2>1 DEF ShouldCreateGalleryDLItem
  <2>3. QED BY <1>2, <2>1, <2>2 DEF preferredSocialType, MediaType
<1>3. QED BY <1>1, <1>2

\* The fallback covers the sites that ask for a login, or it is not configured.
ConfigKnows == config \in [cookies : BOOLEAN, rescue : {{}, LoginSites}]

LEMMA MediaIsAsked ==
    ASSUME ConfigKnows, IsSocialMediaPostURL(url), ~Hopeless
    PROVE  MediaItems # {}
<1>1. CASE IsVideoURL(url)
  <2>1. "yt-dlp" \in MediaItems
    BY <1>1 DEF MediaItems, GetArchiveTypes
  <2>2. QED BY <2>1
<1>2. CASE ~IsVideoURL(url)
  <2>1. IsGalleryDLURL(url)
    BY <1>2 DEF IsSocialMediaPostURL
  <2>2. ASSUME GalleryDLURLRequiresCookies(url), ~config.cookies PROVE BrightDataCanRescue(url)
    <3>1. config.rescue = LoginSites
      BY <2>2 DEF ConfigKnows, Hopeless
    <3>2. QED BY <2>2, <3>1 DEF BrightDataCanRescue, GalleryDLURLRequiresCookies
  <2>3. ShouldCreateGalleryDLItem(url)
    BY <2>1, <2>2, Zenon DEF ShouldCreateGalleryDLItem
  <2>4. "gallery-dl" \in MediaItems
    BY <2>3 DEF MediaItems, GetArchiveTypes
  <2>5. QED BY <2>4
<1>3. QED BY <1>1, <1>2

\* The item that answers a request is the one the client is told about.
LEMMA SameItem ==
    ASSUME ResultInv, AnsweredWith, MediaItems # {},
           \A i, j \in Candidates : candidate[i].type = candidate[j].type => i = j
    PROVE  /\ selectSocialItem \in Candidates
           /\ candidate[selectSocialItem].status = "completed"
           /\ completedSocialItemIsReusable(candidate[selectSocialItem].made, candidate[selectSocialItem].type)
<1> DEFINE of == {i \in Candidates : candidate[i].type = preferredSocialType}
<1>1. preferredSocialType \in MediaItems
  BY PreferredIsAsked
<1>2. PICK k \in Candidates : candidate[k].type = preferredSocialType
  BY <1>1 DEF AnsweredWith
<1>3. of = {k}
  BY <1>2
<1>4. Max({k}) = k
  <2>1. k \in Nat
    BY RowShape DEF ResultInv, CandidateTypes, Candidates
  <2>2. QED BY <2>1 DEF Max
<1>5. candidate[k].status = "completed" /\ completedSocialItemIsReusable(candidate[k].made, candidate[k].type)
  <2>1. /\ candidate[Max(of)].status = "completed"
        /\ completedSocialItemIsReusable(candidate[Max(of)].made, preferredSocialType)
    BY <1>1 DEF AnsweredWith
  <2>2. QED BY <1>2, <1>3, <1>4, <2>1
<1>6. selectSocialItem = k
  <2>1. selectSocialItem \in Candidates /\ socialRank(k) <= socialRank(selectSocialItem)
    BY <1>2, Selected DEF ResultInv
  <2>2. candidate[selectSocialItem].type = preferredSocialType
    BY <1>2, <1>5, <2>1 DEF socialRank
  <2>3. QED BY <1>2, <2>1, <2>2
<1>7. QED BY <1>5, <1>6

\* A reusable item whose post can be shown has all its media.
LEMMA ReusableIsComplete ==
    ASSUME ResultInv, NEW i \in Candidates, candidate[i].status = "completed", ValidPost(i),
           completedSocialItemIsReusable(candidate[i].made, candidate[i].type)
    PROVE  socialCompletenessFor(i) = "complete" /\ ServedMedia(i) > 0
<1>1. candidate[i].made.column = "complete" /\ candidate[i].type \in MediaType
      /\ candidate[i].made.expected \in Nat
  BY RowShape DEF ResultInv, completedSocialItemIsReusable, Artifact
<1>2. CASE candidate[i].type = "yt-dlp"
  <2>1. ServedMedia(i) = 1
    BY <1>2 DEF ServedMedia, completedSocialItemIsReusable
  <2>2. QED BY <1>1, <1>2, <2>1 DEF socialCompletenessFor, Bounded
<1>3. CASE candidate[i].type = "gallery-dl"
  <2>1. /\ ServedMedia(i) = candidate[i].made.files
        /\ candidate[i].made.files \in 1..assets /\ candidate[i].made.expected <= candidate[i].made.files
    BY <1>1, <1>3 DEF ResultInv, MadeKnows, MadeFor, GalleryMade, ValidPost, PostShown, ServedMedia
  <2>2. QED BY <1>1, <1>3, <2>1 DEF socialCompletenessFor, Bounded, ResultInv, PostKnows
<1>4. QED BY <1>1, <1>2, <1>3 DEF MediaType

LEMMA InvRetry == ResultInv /\ ConfigKnows => RetryIsTaken
<1> DEFINE s == selectSocialItem
           fulfilled == /\ ValidPost(s) /\ RawAvailable(s) /\ ServedMedia(s) > 0
                        /\ socialCompletenessFor(s) = "complete"
<1>1. SUFFICES ASSUME ResultInv, ConfigKnows, IsSocialMediaPostURL(url), AnsweredWith, ~Hopeless,
                      \A i, j \in Candidates : candidate[i].type = candidate[j].type => i = j
               PROVE  /\ buildSocialPost.failure \notin Retryable
                      /\ gone = {} => buildSocialPost.status = "fulfilled"
  BY DEF RetryIsTaken
<1>2. /\ s \in Candidates /\ s # 0 /\ candidate[s].status = "completed" /\ candidate[s].type \in MediaType
      /\ completedSocialItemIsReusable(candidate[s].made, candidate[s].type)
  <2>1. MediaItems # {}
    BY <1>1, MediaIsAsked
  <2>2. /\ selectSocialItem \in Candidates /\ candidate[selectSocialItem].status = "completed"
        /\ completedSocialItemIsReusable(candidate[selectSocialItem].made, candidate[selectSocialItem].type)
    BY <1>1, <2>1, SameItem
  <2>3. QED BY <1>1, <2>2, RowShape DEF ResultInv
<1>3. buildSocialPost = IF fulfilled THEN Answer("fulfilled", "")
                        ELSE Answer(IF ServedMedia(s) > 0 \/ PostShown(s) THEN "partial" ELSE "failed",
                                    socialFulfillmentFailure(s))
  BY <1>2 DEF buildSocialPost
<1>4. ValidPost(s) => socialCompletenessFor(s) = "complete" /\ ServedMedia(s) > 0
  BY <1>1, <1>2, ReusableIsComplete
<1>5. \A status, failure : Answer(status, failure).status = status /\ Answer(status, failure).failure = failure
  BY DEF Answer
<1> HIDE DEF s
<1>6. socialFulfillmentFailure(s) \notin Retryable
  <2>1. ValidPost(s) => socialCompletenessFor(s) \notin {"partial", "unknown"}
    BY <1>4
  <2>2. QED BY <2>1 DEF socialFulfillmentFailure, Retryable
<1>7. buildSocialPost.failure \notin Retryable
  <2> HIDE DEF fulfilled
  <2>1. CASE fulfilled
    <3>1. buildSocialPost.failure = ""
      BY <1>3, <1>5, <2>1
    <3>2. QED BY <3>1 DEF Retryable
  <2>2. CASE ~fulfilled
    BY <1>3, <1>5, <1>6, <2>2
  <2>3. QED BY <2>1, <2>2
<1>8. ASSUME gone = {} PROVE fulfilled
  <2>1. candidate[s].type = "yt-dlp" => VideoMade(candidate[s].made)
    BY <1>1, <1>2 DEF ResultInv, MadeKnows, MadeFor
  <2>2. candidate[s].type = "gallery-dl" => GalleryMade(candidate[s].made)
    BY <1>1, <1>2 DEF ResultInv, MadeKnows, MadeFor
  <2>3. candidate[s].made.described
    BY <1>2, <2>1, <2>2 DEF VideoMade, GalleryMade, MediaType, completedSocialItemIsReusable
  <2>4. PostShown(s)
    BY <1>2, <1>8, <2>2 DEF PostShown, Readable, completedSocialItemIsReusable, MediaType
  <2>5. ValidPost(s) /\ RawAvailable(s)
    BY <1>2, <1>8, <2>3, <2>4 DEF ValidPost, RawAvailable, Readable, completedSocialItemIsReusable
  <2>6. QED BY <1>4, <2>5
<1>9. QED BY <1>3, <1>5, <1>7, <1>8

---------------------------------------------------------------------------
(* What a capture starts with and what attempts publish *)

LEMMA LegacyMade ==
    ASSUME PostKnows, NEW type \in MediaType, NEW made \in LegacyArtifacts(type)
    PROVE  made \in Artifact /\ MadeFor(type, made)
<1>1. CASE type = "yt-dlp"
  <2>1. PICK sidecars \in {{}, {"metadata"}, {"metadata", "raw"}} :
          made = [Video EXCEPT !.column = "", !.keys = {"artifact"} \cup sidecars]
    BY <1>1 DEF LegacyArtifacts
  <2>2. made = [column |-> "", keys |-> {"artifact"} \cup sidecars, files |-> 1, described |-> TRUE,
                verdict |-> "", expected |-> 0]
    BY <2>1 DEF Video, NoArtifact
  <2>3. QED BY <1>1, <2>2 DEF Artifact, Object, Verdict, MadeFor, VideoMade
<1>2. CASE type = "gallery-dl"
  <2>1. PICK n \in 1..assets : made = [NoArtifact EXCEPT !.keys = {"artifact"}, !.files = n, !.described = TRUE]
    BY <1>2 DEF LegacyArtifacts
  <2>2. made = [column |-> "", keys |-> {"artifact"}, files |-> n, described |-> TRUE,
                verdict |-> "", expected |-> 0]
    BY <2>1 DEF NoArtifact
  <2>3. n \in Nat
    BY DEF PostKnows
  <2>4. QED BY <1>2, <2>2, <2>3 DEF Artifact, Object, Verdict, MadeFor, GalleryMade
<1>3. QED BY <1>1, <1>2 DEF MediaType

\* A bundle that says complete has every asset, whichever of the archiver's
\* ways to the verdict it took.
LEMMA GalleryIsMade ==
    ASSUME PostKnows, NEW stored \in 1..assets, NEW runFailed \in BOOLEAN,
           NEW described \in BOOLEAN, NEW counted \in BOOLEAN, ~described => runFailed
    PROVE  /\ Gallery(stored, runFailed, described, counted) \in Artifact
           /\ GalleryMade(Gallery(stored, runFailed, described, counted))
<1> DEFINE expected == IF counted /\ described THEN assets ELSE 0
           first == CompletenessFromCounts(expected, stored, runFailed)
           structural == first = "unknown" /\ stored = 1 /\ single
           verdict == IF structural THEN CompletenessFromCounts(1, stored, runFailed) ELSE first
           made == Gallery(stored, runFailed, described, counted)
<1>1. stored \in Nat /\ assets \in Nat /\ stored <= assets /\ stored >= 1
  BY DEF PostKnows
<1>2. made = [column |-> verdict, keys |-> {"artifact"}, files |-> stored, described |-> described,
              verdict |-> verdict, expected |-> IF structural THEN 1 ELSE expected]
  BY DEF Gallery
<1>3. first = "complete" => stored = assets /\ described /\ expected <= stored
  BY <1>1 DEF CompletenessFromCounts
<1>4. structural => described /\ stored = assets
  BY <1>1 DEF CompletenessFromCounts, PostKnows
<1>5. verdict \in Verdict
  BY DEF CompletenessFromCounts, Verdict
<1>6. verdict = "complete" => stored = assets /\ described
  BY <1>3, <1>4
<1>7. verdict = "complete" => (IF structural THEN 1 ELSE expected) <= stored
  BY <1>1, <1>3
<1>8. (IF structural THEN 1 ELSE expected) \in Nat
  BY <1>1
<1> HIDE DEF expected, first, structural, verdict
<1>9. made \in Artifact
  BY <1>1, <1>2, <1>5, <1>8 DEF Artifact, Object
<1>10. GalleryMade(made)
  BY <1>1, <1>2, <1>6, <1>7 DEF GalleryMade
<1>11. QED BY <1>9, <1>10

LEMMA ResultMade ==
    ASSUME PostKnows, NEW type \in MediaType, NEW made \in Results(type)
    PROVE  made \in Artifact /\ MadeFor(type, made)
<1>1. CASE type = "yt-dlp"
  <2>1. made = [column |-> "complete", keys |-> Object, files |-> 1, described |-> TRUE,
                verdict |-> "", expected |-> 0]
    <3>1. made = Video
      BY <1>1 DEF Results
    <3>2. QED BY <3>1 DEF Video, NoArtifact
  <2>2. QED BY <1>1, <2>1 DEF Artifact, Object, Verdict, MadeFor, VideoMade
<1>2. CASE type = "gallery-dl"
  <2> DEFINE Runs == [stored : 1..assets, failed : BOOLEAN, counted : BOOLEAN]
  <2>1. Results(type) = {Gallery(run.stored, run.failed, TRUE, run.counted) : run \in Runs}
                          \cup {Gallery(1, TRUE, FALSE, c) : c \in BOOLEAN}
    BY <1>2 DEF Results
  <2>2. CASE made \in {Gallery(run.stored, run.failed, TRUE, run.counted) : run \in Runs}
    <3>1. PICK run \in Runs : made = Gallery(run.stored, run.failed, TRUE, run.counted)
      BY <2>2
    <3>2. QED BY <1>2, <3>1, GalleryIsMade DEF MadeFor
  <2>3. CASE made \in {Gallery(1, TRUE, FALSE, c) : c \in BOOLEAN}
    <3>1. PICK c \in BOOLEAN : made = Gallery(1, TRUE, FALSE, c)
      BY <2>3
    <3>2. 1 \in 1..assets
      BY DEF PostKnows
    <3>3. QED BY <1>2, <3>1, <3>2, GalleryIsMade DEF MadeFor
  <2>4. QED BY <2>1, <2>2, <2>3
<1>3. QED BY <1>1, <1>2 DEF MediaType

LEMMA InvInit == Init /\ ResultInit => ResultInv
<1>1. SUFFICES ASSUME Init, ResultInit PROVE ResultInv
  OBVIOUS
<1>2. PostKnows
  <2>1. assets \in Nat \ {0} /\ single \in BOOLEAN /\ (single => assets = 1)
    <3>1. CASE preferredSocialType = "yt-dlp"
      <4>1. assets = 1 /\ single = FALSE
        BY <1>1, <3>1 DEF ResultInit
      <4>2. 1 \in Nat \ {0} /\ FALSE \in BOOLEAN
        OBVIOUS
      <4>3. QED BY <4>1, <4>2
    <3>2. CASE preferredSocialType # "yt-dlp"
      <4>1. assets \in 1..Pictures /\ single \in (IF assets = 1 THEN BOOLEAN ELSE {FALSE})
        BY <1>1, <3>2 DEF ResultInit
      <4>2. assets \in Nat \ {0}
        BY <4>1, PicturesAssumption
      <4>3. QED BY <4>1, <4>2
    <3>3. QED BY <3>1, <3>2
  <2>2. QED BY <1>1, <2>1 DEF ResultInit, PostKnows
<1> DEFINE S(types) == UNION {
             {Row(t, "pending", NoArtifact)} \cup {Row(t, "completed", made) : made \in LegacyArtifacts(t)} :
             t \in ToSet(types)}
<1>3. PICK types \in MediaRows : candidate \in [DOMAIN types -> S(types)]
  BY <1>1 DEF ResultInit
<1>4. types \in Seq(MediaType)
  BY <1>3, RowsAssumption DEF MediaType
<1>5. ToSet(types) \subseteq MediaType
  BY <1>4 DEF ToSet
<1>6. ASSUME NEW i \in DOMAIN types
      PROVE  candidate[i] \in Item
             /\ (candidate[i].status = "completed" => MadeFor(candidate[i].type, candidate[i].made))
  <2>1. PICK t \in MediaType : \/ candidate[i] = Row(t, "pending", NoArtifact)
                               \/ \E made \in LegacyArtifacts(t) : candidate[i] = Row(t, "completed", made)
    BY <1>3, <1>5, <1>6
  <2>2. CASE candidate[i] = Row(t, "pending", NoArtifact)
    <3>1. NoArtifact \in Artifact
      BY DEF NoArtifact, Artifact, Verdict
    <3>2. QED BY <2>2, <3>1 DEF Row, Item, Status
  <2>3. CASE \E made \in LegacyArtifacts(t) : candidate[i] = Row(t, "completed", made)
    <3>1. PICK made \in LegacyArtifacts(t) : candidate[i] = Row(t, "completed", made)
      BY <2>3
    <3>2. made \in Artifact /\ MadeFor(t, made)
      BY <1>2, LegacyMade
    <3>3. QED BY <3>1, <3>2 DEF Row, Item, Status
  <2>4. QED BY <2>1, <2>2, <2>3
<1>7. candidate \in Seq(Item) /\ Len(candidate) \in Nat /\ DOMAIN candidate = 1..Len(candidate)
  <2>1. Len(types) \in Nat /\ DOMAIN types = 1..Len(types)
    BY <1>4
  <2>2. candidate \in [1..Len(types) -> Item]
    BY <1>3, <1>6, <2>1
  <2>3. QED BY <2>1, <2>2
<1>8. CandidateTypes
  BY <1>1, <1>7 DEF CandidateTypes, Candidates, ResultInit
<1>9. MadeKnows
  BY <1>3, <1>6 DEF MadeKnows, Candidates
<1>10. QED BY <1>2, <1>8, <1>9 DEF ResultInv

---------------------------------------------------------------------------
(* Steps *)

\* What is preferred follows from the URL, which a capture keeps.
LEMMA PreferenceStays == ASSUME url' = url PROVE preferredSocialType' = preferredSocialType
BY DEF preferredSocialType

LEMMA PostStays ==
    ASSUME PostKnows, UNCHANGED <<url, assets, single>>
    PROVE  PostKnows'
BY PreferenceStays DEF PostKnows

\* Whoever was after the place a moves up by one.
Moved(x, a) == IF x > a THEN x - 1 ELSE x

LEMMA MovedApart ==
    ASSUME NEW n \in Nat, NEW a \in 1..n, NEW x \in (1..n) \ {a}, NEW y \in (1..n) \ {a}
    PROVE  Moved(x, a) \in 1..n /\ Moved(x, a) # n /\ (Moved(x, a) = Moved(y, a) => x = y)
BY DEF Moved

LEMMA MovedSame ==
    ASSUME NEW n \in Nat, NEW a \in 1..n, NEW x, NEW y, x \in (1..n) \ {a}, y \in (1..n) \ {a}, Moved(x, a) = Moved(y, a)
    PROVE  x = y
BY MovedApart

LEMMA MovedStays ==
    ASSUME NEW n \in Nat, NEW a \in 1..n, NEW x, x \in (1..n) \ {a}
    PROVE  Moved(x, a) \in 1..n /\ Moved(x, a) # n
BY MovedApart

\* An updated row is the last in the order, and the others move up without meeting.
LEMMA UpdateKeeps ==
    ASSUME ResultInv, NEW i \in Candidates, NEW item \in Item, Update(i, item), url' = url,
           item.status = "completed" => MadeFor(item.type, item.made)
    PROVE  ResultInv'
<1> DEFINE n == Len(candidate)
<1>1. /\ candidate \in Seq(Item) /\ n \in Nat /\ Candidates = 1..n
      /\ updatedAt \in [1..n -> 1..n] /\ i \in 1..n
  BY RowShape DEF ResultInv, CandidateTypes, Candidates
<1>2. \A j, k \in 1..n : updatedAt[j] = updatedAt[k] => j = k
  BY <1>1 DEF ResultInv, CandidateTypes
<1>3. candidate' = [candidate EXCEPT ![i] = item] /\ UNCHANGED <<assets, single>>
  BY DEF Update
<1>4. updatedAt' = [j \in 1..n |-> IF j = i THEN n ELSE Moved(updatedAt[j], updatedAt[i])]
  BY <1>1 DEF Update, Moved
<1>5. candidate' \in Seq(Item) /\ Len(candidate') = n /\ DOMAIN candidate' = 1..n
  BY <1>1, <1>3
<1> HIDE DEF n
<1>6. ASSUME NEW j \in 1..n, j # i
      PROVE  /\ updatedAt[j] \in (1..n) \ {updatedAt[i]} /\ updatedAt[i] \in 1..n
             /\ updatedAt'[j] = Moved(updatedAt[j], updatedAt[i])
             /\ updatedAt'[j] \in 1..n /\ updatedAt'[j] # n
  <2>1. updatedAt[j] \in (1..n) \ {updatedAt[i]} /\ updatedAt[i] \in 1..n
    BY <1>1, <1>2, <1>6
  <2>2. updatedAt'[j] = Moved(updatedAt[j], updatedAt[i])
    BY <1>4, <1>6
  <2>3. n \in Nat
    BY <1>1
  <2>4. Moved(updatedAt[j], updatedAt[i]) \in 1..n /\ Moved(updatedAt[j], updatedAt[i]) # n
    BY <2>1, <2>3, MovedStays
  <2>5. QED BY <2>1, <2>2, <2>4
<1>7. updatedAt' \in [1..n -> 1..n] /\ \A j, k \in 1..n : updatedAt'[j] = updatedAt'[k] => j = k
  <2>1. updatedAt'[i] = n /\ n \in Nat /\ n \in 1..n
    BY <1>1, <1>4
  <2>2. ASSUME NEW j \in 1..n PROVE updatedAt'[j] \in 1..n
    BY <1>6, <2>1
  <2>3. ASSUME NEW j \in 1..n, NEW k \in 1..n, updatedAt'[j] = updatedAt'[k] PROVE j = k
    <3>1. CASE j = i \/ k = i
      BY <1>6, <2>1, <2>3, <3>1
    <3>2. CASE j # i /\ k # i
      <4>1. Moved(updatedAt[j], updatedAt[i]) = Moved(updatedAt[k], updatedAt[i])
        BY <1>6, <2>3, <3>2
      <4>2. updatedAt[j] = updatedAt[k]
        <5>1. updatedAt[j] \in (1..n) \ {updatedAt[i]} /\ updatedAt[k] \in (1..n) \ {updatedAt[i]} /\ updatedAt[i] \in 1..n
          BY <1>6, <3>2
        <5>2. QED BY <2>1, <4>1, <5>1, MovedSame
      <4>3. QED BY <1>2, <4>2
    <3>3. QED BY <3>1, <3>2
  <2>4. QED BY <1>4, <2>2, <2>3
<1>8. CandidateTypes'
  BY <1>5, <1>7 DEF CandidateTypes, Candidates, n
<1>9. ASSUME NEW j \in 1..n PROVE (candidate[j].status = "completed" => MadeFor(candidate[j].type, candidate[j].made))'
  <2>1. candidate'[j].status = "completed" => MadeFor(candidate'[j].type, candidate'[j].made)
    BY <1>1, <1>3 DEF ResultInv, MadeKnows
  <2>2. QED BY <1>3, <2>1 DEF MadeFor, VideoMade, GalleryMade
<1>10. MadeKnows'
  BY <1>5, <1>9 DEF MadeKnows, Candidates
<1>11. QED BY <1>3, <1>8, <1>10, PostStays DEF ResultInv

\* A status alone says nothing new of an artifact, unless it is "completed".
LEMMA StatusKeeps ==
    ASSUME ResultInv, NEW i \in Candidates, NEW status \in Status \ {"completed"},
           Update(i, [candidate[i] EXCEPT !.status = status]), url' = url
    PROVE  ResultInv'
<1> DEFINE item == [candidate[i] EXCEPT !.status = status]
<1>1. item \in Item /\ item.status # "completed"
  BY RowShape DEF ResultInv, Item
<1> HIDE DEF item
<1>2. Update(i, item)
  BY DEF item
<1>3. QED BY <1>1, <1>2, UpdateKeeps

LEMMA StepKeeps ==
    ASSUME ResultInv, [ResultStep]_<<vars, resultVars>>
    PROVE  ResultInv'
<1>1. CASE UNCHANGED <<url, assets, single, candidate, updatedAt>>
  <2>1. PostKnows'
    BY <1>1, PostStays DEF ResultInv
  <2>2. CandidateTypes'
    BY <1>1 DEF ResultInv, CandidateTypes, Candidates
  <2>3. MadeKnows'
    BY <1>1 DEF ResultInv, MadeKnows, MadeFor, VideoMade, GalleryMade, Candidates
  <2>4. QED BY <2>1, <2>2, <2>3 DEF ResultInv
<1>2. CASE UNCHANGED <<vars, resultVars>>
  BY <1>1, <1>2 DEF vars, resultVars
<1>3. CASE ResultStep
  <2>1. url' = url
    BY <1>3 DEF ResultStep
  <2>2. ASSUME NEW i \in Candidates, StartAttempt(i) PROVE ResultInv'
    BY <2>1, <2>2, StatusKeeps DEF StartAttempt, Status
  <2>3. ASSUME NEW i \in Candidates, PublishResult(i) PROVE ResultInv'
    <3>1. PICK made \in Results(candidate[i].type) : Update(i, Row(candidate[i].type, "completed", made))
      BY <2>3 DEF PublishResult
    <3> DEFINE item == Row(candidate[i].type, "completed", made)
    <3>2. candidate[i].type \in MediaType
      BY RowShape DEF ResultInv
    <3>3. made \in Artifact /\ MadeFor(candidate[i].type, made)
      BY <3>1, <3>2, ResultMade DEF ResultInv
    <3>4. item \in Item /\ item.type = candidate[i].type /\ item.made = made
      BY <3>2, <3>3 DEF Row, Item, Status
    <3> HIDE DEF item
    <3>5. Update(i, item)
      BY <3>1 DEF item
    <3>6. QED BY <2>1, <3>3, <3>4, <3>5, UpdateKeeps
  <2>4. ASSUME NEW i \in Candidates, AttemptFails(i) PROVE ResultInv'
    BY <2>1, <2>4, StatusKeeps DEF AttemptFails, Status
  <2>5. ASSUME NEW i \in Candidates, ResetFailed(i) PROVE ResultInv'
    BY <2>1, <2>5, StatusKeeps DEF ResetFailed, Status
  <2>6. ASSUME NEW i \in Candidates, PreviewStored(i) PROVE ResultInv'
    <3>1. candidate[i] \in Item /\ MadeFor(candidate[i].type, candidate[i].made)
      BY <2>6, RowShape DEF ResultInv, MadeKnows, PreviewStored
    <3>2. Update(i, candidate[i])
      BY <2>6 DEF PreviewStored
    <3>3. QED BY <2>1, <3>1, <3>2, UpdateKeeps
  <2>7. ASSUME NEW i \in Candidates, ObjectLost(i) PROVE ResultInv'
    BY <1>1, <2>1, <2>7 DEF ObjectLost
  <2>8. CASE Reconfigured
    BY <1>1, <2>1, <2>8 DEF Reconfigured, resultVars
  <2>9. CASE PlainItemsMove
    BY <1>1, <2>1, <2>9 DEF PlainItemsMove
  <2>10. QED BY <1>3, <2>2, <2>3, <2>4, <2>5, <2>6, <2>7, <2>8, <2>9 DEF ResultStep, ResultNext
<1>4. QED BY <1>2, <1>3

\* Credentials come and go; what the fallback covers stays.
LEMMA ConfigStays == ConfigKnows /\ [ResultStep]_<<vars, resultVars>> => ConfigKnows'
<1>1. SUFFICES ASSUME ConfigKnows, [ResultStep]_<<vars, resultVars>> PROVE ConfigKnows'
  OBVIOUS
<1>2. UNCHANGED config \/ config' = [config EXCEPT !.cookies = ~@]
  BY <1>1 DEF ResultStep, ResultNext, Reconfigured, vars
<1>3. QED BY <1>1, <1>2 DEF ConfigKnows

---------------------------------------------------------------------------
(* Theorems *)

\* The inductive invariant of the capture and its artifacts.
THEOREM ResultInvariant == ResultSpec => []ResultInv
BY InvInit, StepKeeps, PTL DEF ResultSpec

\* "Fulfilled" is said only of a post whose every asset was stored and can be
\* read, whatever attempts, updates and losses came before.
THEOREM FulfilledWhole == ResultSpec => []FulfilledIsWhole
BY ResultInvariant, InvFulfilled, PTL

\* The answer and find-or-create agree: a capture that settles a request for a
\* post somebody could log in to is never reported as one a new attempt may
\* help, and it is fulfilled while its objects can be read.
THEOREM RetryTaken == ResultSpec => []RetryIsTaken
<1>1. ResultSpec => []ConfigKnows
  <2>1. Init => ConfigKnows
    BY DEF Init, ConfigKnows
  <2>2. QED BY <2>1, ConfigStays, PTL DEF ResultSpec
<1>2. QED BY <1>1, ResultInvariant, InvRetry, PTL

\* No failure and no attempt under way hides a completed item of its type, and
\* the answer is final once every item is.
THEOREM CompletedShown == ResultSpec => []CompletedIsShown
BY ResultInvariant, InvShown, PTL

---------------------------------------------------------------------------
(* What a query is once it is cleaned *)

\* A key on its own is kept, and everything a share sheet adds is dropped.
LEMMA Cleaned ==
  ASSUME NEW q, NEW D, NEW f, q = [k \in D |-> f[k]], NEW junk, NEW ref, NEW dropped, NEW s, NEW dress, NEW slash,
         s.query = q, D \cap dropped = {}, junk \subseteq dropped, "ref_url" \in dropped
  PROVE  Without(Shared(s, dress, slash, junk, ref).query, dropped) = q
<1> DEFINE J == [k \in junk |-> "junk"]
           R == IF ref = NoWord THEN <<>> ELSE Only("ref_url", ref)
           Q == Also(Also(q, J), R)
<1>1. Shared(s, dress, slash, junk, ref).query = Q
  BY DEF Shared
<1>2. DOMAIN q = D /\ DOMAIN J = junk /\ DOMAIN R \subseteq {"ref_url"}
  BY DEF Only
<1> HIDE DEF J, R
<1>3. DOMAIN Q = D \cup junk \cup DOMAIN R /\ \A k \in D : Q[k] = q[k]
  BY <1>2 DEF Also
<1> HIDE DEF Q
<1>4. DOMAIN Q \ dropped = D
  BY <1>2, <1>3
<1>5. [k \in D |-> Q[k]] = [k \in D |-> q[k]] /\ [k \in D |-> q[k]] = q
  BY <1>3
<1>6. QED BY <1>1, <1>4, <1>5 DEF Without, Restrict

\* The query of a spelling, without what surrounds it.
Plain(q) == q = <<>> \/ \E key \in {"v", "h"} : \E x : q = Only(key, x)

\* A platform's own parameters are dropped as well, those that select a post are not.
LEMMA CleanedOn ==
  ASSUME NEW s, NEW dress, NEW slash, NEW junk, NEW ref, NEW platform,
         Plain(s.query), junk \subseteq trackingParams \cup platform, "v" \notin platform, "h" \notin platform
  PROVE  dropParams(Shared(s, dress, slash, junk, ref).query, platform) = s.query
<1> DEFINE dropped == trackingParams \cup platform
           q == s.query
<1>1. "ref_url" \in dropped /\ "v" \notin dropped /\ "h" \notin dropped
  BY DEF trackingParams
<1> HIDE DEF dropped
<1>2. Without(Shared(s, dress, slash, junk, ref).query, dropped) = q
  <2>1. junk \subseteq dropped
    BY DEF dropped
  <2>2. CASE q = <<>>
    <3> DEFINE D == {}
               f == <<>>
    <3>1. q = [k \in D |-> f[k]] /\ D \cap dropped = {}
      BY <2>2
    <3> HIDE DEF D, f, q
    <3>2. s.query = q
      BY DEF q
    <3>3. QED BY <1>1, <2>1, <3>1, <3>2, Cleaned
  <2>3. ASSUME NEW key \in {"v", "h"}, NEW x, q = Only(key, x) PROVE Without(Shared(s, dress, slash, junk, ref).query, dropped) = q
    <3> DEFINE D == {key}
    <3>1. q = [k \in D |-> q[k]] /\ D \cap dropped = {}
      BY <1>1, <2>3 DEF Only
    <3> HIDE DEF D, q
    <3>2. s.query = q
      BY DEF q
    <3>3. QED BY <1>1, <2>1, <3>1, <3>2, Cleaned
  <2>4. QED BY <2>2, <2>3 DEF Plain
<1>3. QED BY <1>2 DEF dropParams, dropped

\* A submitted URL is a spelling, and what surrounds it.
LEMMA SubmittedIs ==
  ASSUME NEW p, NEW u \in Submitted(p)
  PROVE  \E s \in Spellings(p), dress \in Dress \ {"port"}, slash \in BOOLEAN, junk \in SUBSET Junk(p.site), ref \in RefHost \cup {NoWord} :
           /\ u = Shared(s, dress, slash, junk, ref)
           /\ u.host = s.host /\ u.path = s.path /\ u.dress # "port"
<1>1. PICK s \in Spellings(p), dress \in Dress \ {"port"}, slash \in BOOLEAN,
           junk \in {{}, Junk(p.site)} \cup {{key} : key \in Junk(p.site)}, ref \in RefHost \cup {NoWord} :
           u = Shared(s, dress, slash, junk, ref)
  BY DEF Submitted
<1>2. junk \in SUBSET Junk(p.site)
  BY <1>1
<1>3. u.host = s.host /\ u.path = s.path /\ u.dress = dress
  BY <1>1 DEF Shared
<1>4. QED BY <1>1, <1>2, <1>3

\* The hosts of each site that has an identity.
LEMMA HostSets ==
  /\ Hosts.instagram = {"instagram.com", "m.instagram.com"}
  /\ Hosts.x = {"x.com", "mobile.x.com", "m.x.com"}
  /\ Hosts.twitter = {"twitter.com", "mobile.twitter.com", "m.twitter.com"}
  /\ Hosts.reddit = {"reddit.com", "old.reddit.com", "new.reddit.com", "m.reddit.com", "np.reddit.com"}
  /\ Hosts.bluesky = {"bsky.app"}
  /\ Hosts.vimeo = {"vimeo.com", "player.vimeo.com"}
  /\ Hosts.facebook = {"facebook.com", "m.facebook.com", "web.facebook.com"}
  /\ Hosts.facebook_short = {"fb.watch"}
BY DEF Hosts

\* The sites that the canonicalizer tells by hostMatches.
LEMMA HostsMatch ==
  ASSUME NEW u
  PROVE  /\ HostMatches(u.host, "instagram") <=> u.host \in Hosts.instagram
         /\ HostMatches(u.host, "bluesky") <=> u.host \in Hosts.bluesky
         /\ HostMatches(u.host, "vimeo") <=> u.host \in Hosts.vimeo
BY DEF HostMatches

\* Which platform a host belongs to.
LEMMA Platform ==
  ASSUME NEW u, u.dress # "port"
  PROVE  /\ u.host \in {"youtube.com", "m.youtube.com", "youtu.be"} => CanonicalizeArchiveURL(u) = canonicalYouTube(u)
         /\ u.host \in {"instagram.com", "m.instagram.com"} => CanonicalizeArchiveURL(u) = canonicalInstagram(u)
         /\ u.host \in {"x.com", "twitter.com", "mobile.twitter.com"} => CanonicalizeArchiveURL(u) = canonicalTwitter(u)
         /\ u.host \in {"tiktok.com", "m.tiktok.com"} => CanonicalizeArchiveURL(u) = canonicalTikTok(u)
         /\ u.host \in {"reddit.com", "old.reddit.com", "redd.it"} => CanonicalizeArchiveURL(u) = canonicalReddit(u)
         /\ u.host = "bsky.app" => CanonicalizeArchiveURL(u) = canonicalBluesky(u)
         /\ u.host \in {"vimeo.com", "player.vimeo.com"} => CanonicalizeArchiveURL(u) = canonicalVimeo(u)
         /\ u.host \in {"facebook.com", "m.facebook.com", "web.facebook.com", "fb.watch"} =>
              CanonicalizeArchiveURL(u) = canonicalFacebook(u)
<1>1. CASE u.host \in {"youtube.com", "m.youtube.com", "youtu.be"}
  BY <1>1, HostSets, HostsMatch DEF CanonicalizeArchiveURL
<1>2. CASE u.host \in {"instagram.com", "m.instagram.com"}
  BY <1>2, HostSets, HostsMatch DEF CanonicalizeArchiveURL
<1>3. CASE u.host \in {"x.com", "twitter.com", "mobile.twitter.com"}
  BY <1>3, HostSets, HostsMatch DEF CanonicalizeArchiveURL
<1>4. CASE u.host \in {"tiktok.com", "m.tiktok.com"}
  BY <1>4, HostSets, HostsMatch DEF CanonicalizeArchiveURL
<1>5. CASE u.host \in {"reddit.com", "old.reddit.com", "redd.it"}
  BY <1>5, HostSets, HostsMatch DEF CanonicalizeArchiveURL
<1>6. CASE u.host = "bsky.app"
  BY <1>6, HostSets, HostsMatch DEF CanonicalizeArchiveURL
<1>7. CASE u.host \in {"vimeo.com", "player.vimeo.com"}
  BY <1>7, HostSets, HostsMatch DEF CanonicalizeArchiveURL
<1>8. CASE u.host \in {"facebook.com", "m.facebook.com", "web.facebook.com", "fb.watch"}
  BY <1>8, HostSets, HostsMatch DEF CanonicalizeArchiveURL
<1>9. QED BY <1>1, <1>2, <1>3, <1>4, <1>5, <1>6, <1>7, <1>8

---------------------------------------------------------------------------
(* Paths put together *)

\* Two paths of one segment make a path of two.
LEMMA JoinIs ==
  ASSUME NEW a, NEW b
  PROVE  <<a>> \o <<b>> = <<a, b>>
<1> DEFINE S == {a, b}
           s == <<a>>
           t == <<b>>
           w == <<a, b>>
<1>1. s \in Seq(S) /\ t \in Seq(S) /\ w \in Seq(S) /\ Len(w) = Len(s) + Len(t)
  OBVIOUS
<1>2. \A i \in 1 .. Len(w) : w[i] = IF i <= Len(s) THEN s[i] ELSE t[i - Len(s)]
  OBVIOUS
<1> HIDE DEF s, t, w, S
<1>3. /\ s \o t \in Seq(S) /\ Len(s \o t) = Len(w)
      /\ \A i \in 1 .. Len(w) : (s \o t)[i] = w[i]
  BY <1>1, <1>2, ConcatProperties
<1>4. s \o t = w
  BY <1>1, <1>3, SeqEqual
<1>5. QED BY <1>4 DEF s, t, w

---------------------------------------------------------------------------
(* What each platform's function makes of the shapes it claims *)

\* Ids and account names are what the predicates say and no word of a path.
LEMMA IdsAre ==
  /\ \A id \in Id : isIDLike(id) /\ id \notin Word
  /\ \A id \in Number : isNumeric(id) /\ id \in Id
  /\ \A c \in Code : ~isNumeric(c) /\ isIDLike(c) /\ c \in Id
  /\ \A w \in Word : ~isNumeric(w)
  /\ \A h \in Handle : h \notin Word /\ isHandleLike(h)
  /\ \A id \in Token : id \in Id
  /\ ~isIDLike(NoWord) /\ ~isNumeric(NoWord)
<1>1. /\ Number \cap Code = {} /\ Token \subseteq Id /\ (Id \cup Handle \cup AtHandle) \cap Word = {}
  BY NamesAssumption
<1>2. PathWord \subseteq Word /\ NoWord \in Word /\ NoWord \notin PathWord
  BY DEF Word, PathWord, NoWord
<1> HIDE DEF Word, PathWord, NoWord
<1>3. QED BY <1>1, <1>2 DEF Id, isIDLike, isNumeric, isHandleLike

\* A query of one key has that key's value.
LEMMA OnlyIs ==
  ASSUME NEW key, NEW value
  PROVE  Get(Only(key, value), key) = value
<1>1. key \in DOMAIN Only(key, value) /\ Only(key, value)[key] = value
  BY DEF Only
<1>2. QED BY <1>1 DEF Get

\* A query without keys.
LEMMA NothingIs ==
  /\ \A key : Get(<<>>, key) = NoWord
  /\ \A q : Also(q, <<>>) = [k \in DOMAIN q |-> q[k]]
  /\ \A dropped : Without(<<>>, dropped) = <<>>
<1>1. DOMAIN <<>> = {}
  OBVIOUS
<1>2. \A key : Get(<<>>, key) = NoWord
  BY <1>1 DEF Get
<1>3. \A q : Also(q, <<>>) = [k \in DOMAIN q |-> q[k]]
  BY <1>1 DEF Also
<1>4. \A dropped : Without(<<>>, dropped) = <<>>
  BY <1>1 DEF Without, Restrict
<1>5. QED BY <1>2, <1>3, <1>4

\* A watch page keeps its id, a short and a live stream keep their kind.
LEMMA YouTubeIs ==
  ASSUME NEW u, NEW id \in Id, NEW q, q = dropParams(u.query, {"si", "feature", "t", "start", "end", "app", "pp"})
  PROVE  /\ u.host \in {"youtube.com", "m.youtube.com"} /\ u.path = <<"watch">> /\ q = Only("v", id)
              => canonicalYouTube(u) = buildURL("youtube.com", <<"watch">>, FALSE, Only("v", id))
         /\ u.host = "youtu.be" /\ u.path = <<id>> /\ q = <<>>
              => canonicalYouTube(u) = buildURL("youtube.com", <<"watch">>, FALSE, Only("v", id))
         /\ \A kind \in {"shorts", "live"} :
              u.host \in {"youtube.com", "m.youtube.com"} /\ u.path = <<kind, id>> /\ q = <<>>
                => canonicalYouTube(u) = buildURL("youtube.com", <<kind, id>>, FALSE, <<>>)
<1>1. isIDLike(id)
  BY IdsAre
<1>2. CASE u.host \in {"youtube.com", "m.youtube.com"} /\ u.path = <<"watch">> /\ q = Only("v", id)
  <2>1. u.host # "youtu.be"
    BY <1>2
  <2>2. isIDLike(Get(q, "v"))
    BY <1>1, <1>2, OnlyIs
  <2>3. canonicalYouTube(u) = buildURL("youtube.com", u.path, FALSE, q)
    BY <1>2, <2>1, <2>2 DEF canonicalYouTube
  <2>4. QED BY <1>2, <2>1, <2>3
<1>3. CASE u.host = "youtu.be" /\ u.path = <<id>> /\ q = <<>>
  <2>1. Len(u.path) = 1 /\ u.path[1] = id
    BY <1>3
  <2>2. canonicalYouTube(u) = buildURL("youtube.com", <<"watch">>, FALSE, Also(Only("v", id), q))
    BY <1>1, <1>3, <2>1 DEF canonicalYouTube
  <2>3. Also(Only("v", id), <<>>) = Only("v", id)
    BY NothingIs DEF Only
  <2>4. QED BY <1>3, <2>2, <2>3
<1>4. ASSUME NEW kind \in {"shorts", "live"},
             u.host \in {"youtube.com", "m.youtube.com"}, u.path = <<kind, id>>, q = <<>>
      PROVE  canonicalYouTube(u) = buildURL("youtube.com", <<kind, id>>, FALSE, <<>>)
  <2>1. u.host # "youtu.be" /\ Len(u.path) = 2 /\ u.path[1] = kind /\ u.path[2] = id /\ u.path # <<"watch">>
    BY <1>4
  <2>2. canonicalYouTube(u) = buildURL("youtube.com", u.path, FALSE, q)
    BY <1>1, <1>4, <2>1 DEF canonicalYouTube
  <2>3. QED BY <1>4, <2>2
<1>5. QED BY <1>2, <1>3, <1>4

\* The first of some places is the least of their numbers.
LEMMA LeastIs ==
  ASSUME NEW I \in SUBSET Int, NEW n \in I, \A m \in I : n <= m
  PROVE  (IF I # {} THEN Min(I) ELSE 0) = n
<1>1. n \in I /\ \A y \in I : n <= y
  OBVIOUS
<1>2. ASSUME NEW x \in I, \A y \in I : x <= y PROVE x = n
  <2>1. x <= n /\ n <= x /\ x \in Int /\ n \in Int
    BY <1>2
  <2>2. QED BY <2>1
<1>3. (CHOOSE x \in I : \A y \in I : x <= y) = n
  BY <1>1, <1>2, Zenon
<1>4. QED BY <1>3 DEF Min

\* The kind and the id are kept, the account before them is not.
LEMMA InstagramIs ==
  ASSUME NEW u, NEW id \in Id, dropParams(u.query, {"igsh", "igshid", "share_url", "story_type"}) = <<>>
  PROVE  \A k \in {"p", "reel", "reels", "tv"} :
           u.path = <<k, id>> \/ (\E h \in Handle : u.path = <<h, k, id>>)
             => canonicalInstagram(u) =
                  buildURL("instagram.com", <<IF k = "reels" THEN "reel" ELSE k, id>>, TRUE, <<>>)
<1> DEFINE words == {"p", "reel", "reels", "tv"}
           i == SelectInSeq(u.path, LAMBDA s : s \in words)
           I == {m \in 1..Len(u.path) : u.path[m] \in words}
<1>0. i = (IF I # {} THEN Min(I) ELSE 0) /\ I \in SUBSET Int
  BY DEF SelectInSeq
<1>1. isIDLike(id)
  BY IdsAre
<1>2. ASSUME NEW k \in words, u.path = <<k, id>>
      PROVE  i = 1 /\ i + 1 = Len(u.path) /\ u.path[i + 1] = id /\ u.path[i] = k
  <2>1. 1 \in I /\ \A m \in I : 1 <= m
    BY <1>2
  <2> HIDE DEF I, i
  <2>2. i = 1
    BY <1>0, <2>1, LeastIs
  <2>3. QED BY <1>2, <2>2
<1>3. ASSUME NEW k \in words, NEW h \in Handle, u.path = <<h, k, id>>
      PROVE  i = 2 /\ i + 1 = Len(u.path) /\ u.path[i + 1] = id /\ u.path[i] = k
  <2>1. h \notin words
    <3>1. words \subseteq Word
      BY DEF Word, PathWord
    <3>2. QED BY <3>1, IdsAre
  <2>2. 2 \in I /\ 1 \notin I /\ \A m \in I : m \in 1..3
    BY <1>3, <2>1
  <2>3. \A m \in I : 2 <= m
    BY <2>2
  <2> HIDE DEF I, i
  <2>4. i = 2
    BY <1>0, <2>2, <2>3, LeastIs
  <2>5. QED BY <1>3, <2>4
<1>4. ASSUME NEW k \in words, i \in Nat, i # 0, i + 1 = Len(u.path), u.path[i + 1] = id, u.path[i] = k
      PROVE  canonicalInstagram(u) = buildURL("instagram.com", <<IF k = "reels" THEN "reel" ELSE k, id>>, TRUE, <<>>)
  BY <1>1, <1>4 DEF canonicalInstagram
<1> HIDE DEF i
<1>5. ASSUME NEW k \in words, u.path = <<k, id>> \/ (\E h \in Handle : u.path = <<h, k, id>>)
      PROVE  canonicalInstagram(u) = buildURL("instagram.com", <<IF k = "reels" THEN "reel" ELSE k, id>>, TRUE, <<>>)
  <2>1. i \in {1, 2} /\ i + 1 = Len(u.path) /\ u.path[i + 1] = id /\ u.path[i] = k
    BY <1>2, <1>3, <1>5
  <2>2. i \in Nat /\ i # 0
    BY <2>1
  <2>3. QED BY <1>4, <2>1, <2>2
<1>6. QED BY <1>5

\* The status id is kept, the account and the lightbox are not.
LEMMA TwitterIs ==
  ASSUME NEW u, NEW id \in Number, dropParams(u.query, {"s", "t", "cxt", "ref_component"}) = <<>>,
         \/ \E h \in Handle, k \in {"status", "statuses"} :
              u.path = <<h, k, id>> \/ \E n \in Number : u.path = <<h, k, id, "photo", n>>
         \/ u.path = <<"i", "web", "status", id>>
  PROVE  canonicalTwitter(u) = buildURL("x.com", <<"i", "web", "status", id>>, FALSE, <<>>)
<1> DEFINE words == {"status", "statuses"}
           i == SelectInSeq(u.path, LAMBDA s : s \in words)
           I == {m \in 1..Len(u.path) : u.path[m] \in words}
           rest == SubSeq(u.path, i + 2, Len(u.path))
           lightbox == Len(rest) = 2 /\ rest[1] \in {"photo", "video"} /\ isNumeric(rest[2])
<1>0. i = (IF I # {} THEN Min(I) ELSE 0) /\ I \in SUBSET Int
  BY DEF SelectInSeq
<1>1. isNumeric(id) /\ words \subseteq Word
  BY IdsAre DEF Word, PathWord
<1>2. ASSUME NEW h \in Handle, NEW k \in words, u.path = <<h, k, id>> \/ \E n \in Number : u.path = <<h, k, id, "photo", n>>
      PROVE  i = 2
  <2>1. h \notin words
    BY <1>1, IdsAre
  <2>2. Len(u.path) \in {3, 5} /\ u.path[1] = h /\ u.path[2] = k
    <3>1. CASE u.path = <<h, k, id>>
      BY <3>1
    <3>2. CASE \E n \in Number : u.path = <<h, k, id, "photo", n>>
      BY <3>2
    <3>3. QED BY <1>2, <3>1, <3>2
  <2>3. 2 \in I /\ \A m \in I : 2 <= m
    BY <2>1, <2>2
  <2> HIDE DEF I, i
  <2>4. QED BY <1>0, <2>3, LeastIs
<1>3. ASSUME u.path = <<"i", "web", "status", id>> PROVE i = 3
  <2>1. 3 \in I /\ \A m \in I : 3 <= m
    BY <1>3
  <2> HIDE DEF I, i
  <2>2. QED BY <1>0, <2>1, LeastIs
<1>4. i # 0 /\ i < Len(u.path) /\ u.path[i + 1] = id /\ (rest = <<>> \/ lightbox)
  <2> HIDE DEF i
  <2>1. CASE \E h \in Handle, k \in words : u.path = <<h, k, id>>
    <3>1. i = 2 /\ Len(u.path) = 3 /\ u.path[3] = id
      BY <1>2, <2>1
    <3>2. rest = <<>>
      BY <2>1, <3>1
    <3>3. QED BY <3>1, <3>2
  <2>2. CASE \E h \in Handle, k \in words, n \in Number : u.path = <<h, k, id, "photo", n>>
    <3>1. PICK h \in Handle, k \in words, n \in Number : u.path = <<h, k, id, "photo", n>>
      BY <2>2
    <3>2. i = 2 /\ Len(u.path) = 5 /\ u.path[3] = id
      BY <1>2, <3>1
    <3>3. u.path \in Seq({h, k, id, "photo", n}) /\ u.path[4] = "photo" /\ u.path[5] = n
      BY <3>1
    <3>4. Len(rest) = 2 /\ rest[1] = "photo" /\ rest[2] = n
      BY <3>2, <3>3, SubSeqProperties
    <3>5. isNumeric(n)
      BY IdsAre
    <3> HIDE DEF rest
    <3>6. lightbox
      BY <3>4, <3>5
    <3>7. QED BY <3>2, <3>6
  <2>3. CASE u.path = <<"i", "web", "status", id>>
    <3>1. i = 3 /\ Len(u.path) = 4 /\ u.path[4] = id
      BY <1>3, <2>3
    <3>2. rest = <<>>
      BY <2>3, <3>1
    <3>3. QED BY <3>1, <3>2
  <2>4. QED BY <2>1, <2>2, <2>3
<1>5. QED BY <1>1, <1>4 DEF canonicalTwitter

\* Folding the case of a name's spelling gives the name.
LEMMA Folding ==
  ASSUME NEW names \in {Handle, AtHandle}, NEW by \in Folded(names), NEW h \in Cased(by)
  PROVE  h \in names /\ LowerCase(h) = by /\ by \in names
<1>1. by \in names /\ by \notin DOMAIN Lower
  BY DEF Folded
<1>2. CASE h = by
  BY <1>1, <1>2 DEF LowerCase
<1>3. CASE h \in DOMAIN Lower /\ Lower[h] = by
  BY <1>1, <1>3, NamesAssumption DEF LowerCase
<1>4. QED BY <1>2, <1>3 DEF Cased

\* The account is kept in lower case.
LEMMA TikTokIs ==
  ASSUME NEW u, NEW id \in Number, NEW kind \in {"video", "photo"}, NEW by \in Folded(AtHandle), NEW h \in Cased(by),
         u.path = <<h, kind, id>>,
         dropParams(u.query, {"is_from_webapp", "sender_device", "web_id", "_t", "source", "q"}) = <<>>
  PROVE  canonicalTikTok(u) = buildURL("tiktok.com", <<by, kind, id>>, FALSE, <<>>)
<1>1. h \in AtHandle /\ LowerCase(h) = by /\ isNumeric(id)
  BY Folding, IdsAre
<1>2. Len(u.path) = 3 /\ u.path[1] = h /\ u.path[2] = kind /\ u.path[3] = id
  OBVIOUS
<1>3. [u.path EXCEPT ![1] = LowerCase(@)] = <<by, kind, id>>
  <2>1. [u.path EXCEPT ![1] = LowerCase(@)] = [u.path EXCEPT ![1] = by]
    BY <1>1, <1>2
  <2>2. QED BY <2>1
<1>4. QED BY <1>1, <1>2, <1>3 DEF canonicalTikTok

\* A handle is kept in lower case, a DID as it is.
LEMMA BlueskyIs ==
  ASSUME NEW u, NEW id \in Id, NEW by, NEW h,
         \/ by \in Folded(Handle) /\ h \in Cased(by)
         \/ by \in Did /\ h = by,
         u.path = <<"profile", h, "post", id>>, dropParams(u.query, {}) = <<>>
  PROVE  canonicalBluesky(u) = buildURL("bsky.app", <<"profile", by, "post", id>>, FALSE, <<>>)
<1> DEFINE actor == IF u.path[2] \in Did THEN u.path[2] ELSE LowerCase(u.path[2])
<1>1. Len(u.path) = 4 /\ u.path[1] = "profile" /\ u.path[2] = h /\ u.path[3] = "post" /\ u.path[4] = id
  OBVIOUS
<1>2. actor = by /\ isHandleLike(by)
  <2>1. CASE by \in Folded(Handle) /\ h \in Cased(by)
    <3>1. h \in Handle /\ LowerCase(h) = by /\ by \in Handle
      BY <2>1, Folding
    <3>2. QED BY <1>1, <3>1, NamesAssumption, IdsAre
  <2>2. CASE by \in Did /\ h = by
    BY <1>1, <2>2 DEF isHandleLike
  <2>3. QED BY <2>1, <2>2
<1>3. [u.path EXCEPT ![2] = by] = <<"profile", by, "post", id>>
  OBVIOUS
<1>4. isIDLike(id)
  BY IdsAre
<1> HIDE DEF actor
<1>5. QED BY <1>1, <1>2, <1>3, <1>4 DEF canonicalBluesky, actor

\* The post id is at the same place of every shape of a reddit permalink.
LEMMA RedditIs ==
  ASSUME NEW u, NEW id \in Id, dropParams(u.query, {"ref", "context", "rdt", "share_source"}) = <<>>
  PROVE  /\ u.host = "redd.it" /\ u.path = <<id>>
              => canonicalReddit(u) = buildURL("reddit.com", <<"comments", id>>, TRUE, <<>>)
         /\ \A c, d :
              u.host # "redd.it" /\ u.path \in {<<"comments", id>>, <<"comments", id, d>>,
                                                <<"r", c, "comments", id>>, <<"r", c, "comments", id, d>>}
                => canonicalReddit(u) = buildURL("reddit.com", <<"comments", id>>, TRUE, <<>>)
         /\ \A c, slug : \A sub \in Id :
              u.host # "redd.it" /\ u.path \in {<<"comments", id, slug, sub>>, <<"r", c, "comments", id, slug, sub>>}
                => canonicalReddit(u) = buildURL("reddit.com", <<"comments", id, "comment", sub>>, TRUE, <<>>)
<1> DEFINE path == u.path
           at == CASE Len(path) >= 4 /\ path[1] = "r" /\ path[3] = "comments" -> 4
                   [] Len(path) >= 2 /\ path[1] = "comments" -> 2
                   [] OTHER -> 0
           rest == SubSeq(path, at + 1, Len(path))
           comment == Len(rest) >= 2 /\ isIDLike(rest[2])
           page(p) == buildURL("reddit.com", p, TRUE, <<>>)
<1>1. isIDLike(id)
  BY IdsAre
<1>0. canonicalReddit(u) =
        CASE u.host = "redd.it" ->
               IF Len(path) = 1 /\ isIDLike(path[1]) THEN page(<<"comments", path[1]>>) ELSE u
          [] u.host # "redd.it" /\ at # 0 /\ isIDLike(path[at]) /\ comment ->
               page(<<"comments", path[at], "comment", rest[2]>>)
          [] u.host # "redd.it" /\ at # 0 /\ isIDLike(path[at]) /\ Len(rest) <= 1 ->
               page(<<"comments", path[at]>>)
          [] OTHER -> u
  BY DEF canonicalReddit
<1>2. CASE u.host = "redd.it" /\ path = <<id>>
  <2>1. Len(path) = 1 /\ path[1] = id
    BY <1>2
  <2> HIDE DEF at, rest, comment
  <2>2. QED BY <1>0, <1>1, <1>2, <2>1
<1>3. ASSUME u.host # "redd.it", at # 0, path[at] = id, Len(rest) <= 1
      PROVE  canonicalReddit(u) = buildURL("reddit.com", <<"comments", id>>, TRUE, <<>>)
  <2>1. ~comment
    <3>1. Len(rest) \in Nat
      <4>1. \A m \in at + 1 .. Len(path) : path[m] \in {path[k] : k \in at + 1 .. Len(path)}
        OBVIOUS
      <4>2. QED BY <4>1, <1>3
    <3>2. QED BY <1>3, <3>1
  <2> HIDE DEF at, rest
  <2>2. QED BY <1>1, <1>3, <2>1 DEF canonicalReddit, at, rest
<1>4. ASSUME NEW sub \in Id, u.host # "redd.it", at # 0, path[at] = id, Len(rest) = 2, rest[2] = sub
      PROVE  canonicalReddit(u) = buildURL("reddit.com", <<"comments", id, "comment", sub>>, TRUE, <<>>)
  <2>1. comment /\ ~(Len(rest) <= 1)
    BY <1>4, IdsAre
  <2>2. u.host # "redd.it" /\ at # 0 /\ isIDLike(path[at]) /\ comment
    BY <1>1, <1>4, <2>1
  <2> HIDE DEF at, rest, comment
  <2>3. canonicalReddit(u) = page(<<"comments", path[at], "comment", rest[2]>>)
    BY <1>0, <2>1, <2>2
  <2>4. QED BY <1>4, <2>3
<1>5. ASSUME NEW c, NEW d,
             path \in {<<"comments", id>>, <<"comments", id, d>>,
                       <<"r", c, "comments", id>>, <<"r", c, "comments", id, d>>}
      PROVE  at # 0 /\ path[at] = id /\ Len(rest) <= 1
  <2>1. CASE path = <<"comments", id>>
    <3>1. at = 2 /\ Len(path) = 2
      BY <2>1
    <3>2. QED BY <2>1, <3>1, SubSeqEmpty
  <2>2. CASE path = <<"comments", id, d>>
    <3>1. at = 2 /\ Len(path) = 3
      BY <2>2
    <3> HIDE DEF at
    <3>2. path \in Seq({"comments", id, d}) /\ path[2] = id
      BY <2>2
    <3>3. QED BY <3>1, <3>2, SubSeqProperties
  <2>3. CASE path = <<"r", c, "comments", id>>
    <3>1. at = 4 /\ Len(path) = 4
      BY <2>3
    <3>2. QED BY <2>3, <3>1, SubSeqEmpty
  <2>4. CASE path = <<"r", c, "comments", id, d>>
    <3>1. at = 4 /\ Len(path) = 5
      BY <2>4
    <3> HIDE DEF at
    <3>2. path \in Seq({"r", c, "comments", id, d}) /\ path[4] = id
      BY <2>4
    <3>3. QED BY <3>1, <3>2, SubSeqProperties
  <2>5. QED BY <1>5, <2>1, <2>2, <2>3, <2>4
<1>6. ASSUME NEW c, NEW slug, NEW sub \in Id,
             path \in {<<"comments", id, slug, sub>>, <<"r", c, "comments", id, slug, sub>>}
      PROVE  at # 0 /\ path[at] = id /\ Len(rest) = 2 /\ rest[2] = sub
  <2>1. CASE path = <<"comments", id, slug, sub>>
    <3>1. at = 2 /\ Len(path) = 4
      BY <2>1
    <3> HIDE DEF at
    <3>2. path \in Seq({"comments", id, slug, sub}) /\ path[2] = id /\ path[4] = sub
      BY <2>1
    <3>3. QED BY <3>1, <3>2, SubSeqProperties
  <2>2. CASE path = <<"r", c, "comments", id, slug, sub>>
    <3>1. at = 4 /\ Len(path) = 6
      BY <2>2
    <3> HIDE DEF at
    <3>2. path \in Seq({"r", c, "comments", id, slug, sub}) /\ path[4] = id /\ path[6] = sub
      BY <2>2
    <3>3. QED BY <3>1, <3>2, SubSeqProperties
  <2>3. QED BY <1>6, <2>1, <2>2
<1> HIDE DEF at, rest
<1>7. ASSUME NEW c, NEW d, u.host # "redd.it",
             path \in {<<"comments", id>>, <<"comments", id, d>>,
                       <<"r", c, "comments", id>>, <<"r", c, "comments", id, d>>}
      PROVE  canonicalReddit(u) = buildURL("reddit.com", <<"comments", id>>, TRUE, <<>>)
  <2>1. at # 0 /\ path[at] = id /\ Len(rest) <= 1
    <3> HIDE DEF path
    <3>1. QED BY <1>5, <1>7
  <2>2. QED BY <1>3, <1>7, <2>1
<1>8. ASSUME NEW c, NEW slug, NEW sub \in Id, u.host # "redd.it",
             path \in {<<"comments", id, slug, sub>>, <<"r", c, "comments", id, slug, sub>>}
      PROVE  canonicalReddit(u) = buildURL("reddit.com", <<"comments", id, "comment", sub>>, TRUE, <<>>)
  <2>1. at # 0 /\ path[at] = id /\ Len(rest) = 2 /\ rest[2] = sub
    BY <1>6, <1>8
  <2>2. QED BY <1>4, <1>8, <2>1
<1> HIDE DEF path
<1>9. QED BY <1>2, <1>7, <1>8 DEF path

\* The id is kept, with the token of an unlisted video, the container is not.
LEMMA VimeoIs ==
  ASSUME NEW u, NEW id \in Number, NEW q, q = dropParams(u.query, {"share", "autoplay", "loop", "title", "badge"})
  PROVE  /\ u.host = "vimeo.com" /\ q = <<>>
              /\ (u.path = <<id>> \/ \E c \in Code : u.path \in {<<"channels", c, id>>, <<"groups", c, "videos", id>>})
                => canonicalVimeo(u) = buildURL("vimeo.com", <<id>>, FALSE, <<>>)
         /\ u.host = "player.vimeo.com" /\ q = <<>> /\ u.path = <<"video", id>>
                => canonicalVimeo(u) = buildURL("vimeo.com", <<id>>, FALSE, <<>>)
         /\ \A sub \in Id :
              /\ u.host = "vimeo.com" /\ q = <<>> /\ u.path = <<id, sub>>
                => canonicalVimeo(u) = buildURL("vimeo.com", <<id, sub>>, FALSE, <<>>)
              /\ u.host = "player.vimeo.com" /\ q = Only("h", sub) /\ u.path = <<"video", id>>
                => canonicalVimeo(u) = buildURL("vimeo.com", <<id, sub>>, FALSE, <<>>)
<1> DEFINE path == u.path
           player == u.host = "player.vimeo.com"
           at == CASE player -> IF Len(path) = 2 /\ path[1] = "video" THEN 2 ELSE 0
                   [] ~player /\ Len(path) = 1 -> 1
                   [] ~player /\ Len(path) = 2 -> IF isIDLike(path[2]) THEN 1 ELSE 0
                   [] ~player /\ Len(path) = 3 -> IF path[1] = "channels" THEN 3 ELSE 0
                   [] ~player /\ Len(path) = 4 -> IF path[1] = "groups" /\ path[3] = "videos" THEN 4 ELSE 0
                   [] OTHER -> 0
           hash == CASE ~player /\ Len(path) = 2 -> <<path[2]>>
                     [] (player \/ Len(path) # 2) /\ isIDLike(Get(q, "h")) -> <<Get(q, "h")>>
                     [] OTHER -> <<>>
<1>1. isNumeric(id) /\ \A sub \in Id : isIDLike(sub)
  BY IdsAre
<1>2. ASSUME at # 0, path[at] = id
      PROVE  canonicalVimeo(u) = buildURL("vimeo.com", <<id>> \o hash, FALSE, Without(q, {"h"}))
  <2> HIDE DEF at, hash
  <2>1. QED BY <1>1, <1>2 DEF canonicalVimeo, at, hash
<1>3. q = <<>> => ~isIDLike(Get(q, "h")) /\ Without(q, {"h"}) = <<>>
  BY NothingIs, IdsAre
<1>4. \A sub : q = Only("h", sub) => Get(q, "h") = sub /\ Without(q, {"h"}) = <<>>
  <2>1. ASSUME NEW sub, q = Only("h", sub) PROVE Without(q, {"h"}) = <<>>
    <3>1. DOMAIN q \ {"h"} = {}
      BY <2>1 DEF Only
    <3>2. QED BY <3>1 DEF Without, Restrict
  <2>2. QED BY <2>1, OnlyIs
<1>5. ASSUME u.host = "vimeo.com", q = <<>>,
             u.path = <<id>> \/ \E c \in Code : u.path \in {<<"channels", c, id>>, <<"groups", c, "videos", id>>}
      PROVE  canonicalVimeo(u) = buildURL("vimeo.com", <<id>>, FALSE, <<>>)
  <2>1. at # 0 /\ path[at] = id /\ Len(path) # 2 /\ ~player
    <3>0. ~player
      BY <1>5
    <3>1. CASE path = <<id>>
      BY <3>0, <3>1
    <3>2. ASSUME NEW c \in Code, path = <<"channels", c, id>> PROVE at = 3 /\ path[3] = id /\ Len(path) = 3
      BY <3>0, <3>2
    <3>3. ASSUME NEW c \in Code, path = <<"groups", c, "videos", id>> PROVE at = 4 /\ path[4] = id /\ Len(path) = 4
      BY <3>0, <3>3
    <3> HIDE DEF at
    <3>4. QED BY <1>5, <3>0, <3>1, <3>2, <3>3
  <2>2. hash = <<>>
    BY <1>3, <1>5, <2>1
  <2> HIDE DEF at, hash
  <2>3. <<id>> \o <<>> = <<id>>
    OBVIOUS
  <2>4. QED BY <1>2, <1>3, <1>5, <2>1, <2>2, <2>3
<1>6. ASSUME u.host = "player.vimeo.com", q = <<>>, u.path = <<"video", id>>
      PROVE  canonicalVimeo(u) = buildURL("vimeo.com", <<id>>, FALSE, <<>>)
  <2>1. at # 0 /\ path[at] = id
    BY <1>6
  <2>2. hash = <<>>
    BY <1>3, <1>6
  <2> HIDE DEF at, hash
  <2>3. <<id>> \o <<>> = <<id>>
    OBVIOUS
  <2>4. QED BY <1>2, <1>3, <1>6, <2>1, <2>2, <2>3
<1>7. ASSUME NEW sub \in Id, u.host = "vimeo.com", q = <<>>, u.path = <<id, sub>>
      PROVE  canonicalVimeo(u) = buildURL("vimeo.com", <<id, sub>>, FALSE, <<>>)
  <2>1. at # 0 /\ path[at] = id
    BY <1>1, <1>7
  <2>2. ~player /\ Len(path) = 2 /\ path[2] = sub
    BY <1>7
  <2>3. hash = <<path[2]>>
    BY <2>2
  <2> HIDE DEF at, hash
  <2>4. <<id>> \o <<sub>> = <<id, sub>>
    BY JoinIs
  <2>5. QED BY <1>2, <1>3, <1>7, <2>1, <2>2, <2>3, <2>4
<1>8. ASSUME NEW sub \in Id, u.host = "player.vimeo.com", q = Only("h", sub), u.path = <<"video", id>>
      PROVE  canonicalVimeo(u) = buildURL("vimeo.com", <<id, sub>>, FALSE, <<>>)
  <2>1. at # 0 /\ path[at] = id
    BY <1>8
  <2>2. hash = <<sub>>
    BY <1>1, <1>4, <1>8
  <2> HIDE DEF at, hash
  <2>3. <<id>> \o <<sub>> = <<id, sub>>
    BY JoinIs
  <2>4. QED BY <1>2, <1>4, <1>8, <2>1, <2>2, <2>3
<1> HIDE DEF path
<1>9. QED BY <1>5, <1>6, <1>7, <1>8

\* Watch pages, reels and a page's videos each have a shape of their own.
LEMMA FacebookIs ==
  ASSUME NEW u, NEW q, q = dropParams(u.query, {"mibextid", "rdid", "extid", "_rdr"})
  PROVE  /\ \A id \in Id : u.host = "fb.watch" /\ u.path = <<id>> /\ q = <<>>
              => canonicalFacebook(u) = buildURL("fb.watch", <<id>>, TRUE, <<>>)
         /\ \A id \in Number : u.host # "fb.watch" /\ u.path \in {<<"watch">>, <<"video.php">>} /\ q = Only("v", id)
              => canonicalFacebook(u) = buildURL("facebook.com", <<"watch">>, TRUE, Only("v", id))
         /\ \A id \in Number : /\ u.host # "fb.watch" /\ q = <<>>
                               /\ u.path = <<"reel", id>> \/ \E h \in Handle : u.path = <<h, "reel", id>>
              => canonicalFacebook(u) = buildURL("facebook.com", <<"reel", id>>, TRUE, <<>>)
         /\ \A id \in Number, by \in Folded(Handle) : \A h \in Cased(by) :
              /\ u.host # "fb.watch" /\ q = <<>>
              /\ u.path = <<h, "videos", id>> \/ \E c \in Code : u.path = <<h, "videos", c, id>>
              => canonicalFacebook(u) = buildURL("facebook.com", <<by, "videos", id>>, TRUE, <<>>)
<1> DEFINE path == u.path
           n == Len(path)
           i == SelectInSubSeq(path, 2, n, LAMBDA s : s = "videos")
           I == {m \in 2..n : path[m] = "videos"}
           page(p) == buildURL("facebook.com", p, TRUE, q)
           watching == {"watch", "video.php"}
           reel == path[n - 1] = "reel" /\ isNumeric(path[n])
<1>0. i = (IF I # {} THEN Min(I) ELSE 0) /\ I \in SUBSET Int
  BY DEF SelectInSubSeq
<1>1. canonicalFacebook(u) =
        CASE u.host = "fb.watch" ->
               IF n = 1 /\ isIDLike(path[1]) THEN buildURL("fb.watch", path, TRUE, q) ELSE u
          [] u.host # "fb.watch" /\ n > 0 /\ path[1] \in watching ->
               IF isNumeric(Get(q, "v")) THEN page(<<"watch">>) ELSE u
          [] u.host # "fb.watch" /\ n > 1 /\ path[1] \notin watching /\ path[n - 1] = "reel" /\ isNumeric(path[n]) ->
               page(<<"reel", path[n]>>)
          [] u.host # "fb.watch" /\ n > 1 /\ path[1] \notin watching /\ ~reel
             /\ i # 0 /\ i < n /\ isNumeric(path[n]) /\ isHandleLike(LowerCase(path[1])) ->
               page(<<LowerCase(path[1]), "videos", path[n]>>)
          [] OTHER -> u
  BY DEF canonicalFacebook
<1>2. ASSUME NEW id \in Id, u.host = "fb.watch", u.path = <<id>>, q = <<>>
      PROVE  canonicalFacebook(u) = buildURL("fb.watch", <<id>>, TRUE, <<>>)
  <2>1. n = 1 /\ isIDLike(path[1])
    BY <1>2, IdsAre
  <2> HIDE DEF i, n
  <2>2. QED BY <1>1, <1>2, <2>1
<1>3. ASSUME NEW id \in Number, u.host # "fb.watch", u.path \in {<<"watch">>, <<"video.php">>}, q = Only("v", id)
      PROVE  canonicalFacebook(u) = buildURL("facebook.com", <<"watch">>, TRUE, Only("v", id))
  <2>1. n = 1 /\ path[1] \in watching
    BY <1>3
  <2>2. isNumeric(Get(q, "v"))
    BY <1>3, OnlyIs, IdsAre
  <2> HIDE DEF i, n, watching, page
  <2>3. canonicalFacebook(u) = page(<<"watch">>)
    BY <1>1, <1>3, <2>1, <2>2
  <2>4. QED BY <1>3, <2>3 DEF page
<1>4. ASSUME NEW id \in Number, u.host # "fb.watch", q = <<>>,
             u.path = <<"reel", id>> \/ \E h \in Handle : u.path = <<h, "reel", id>>
      PROVE  canonicalFacebook(u) = buildURL("facebook.com", <<"reel", id>>, TRUE, <<>>)
  <2>0. watching \subseteq Word
    BY DEF Word, PathWord
  <2>1. n \in Nat /\ n > 1 /\ path[1] \notin watching /\ path[n - 1] = "reel" /\ path[n] = id
    <3>1. CASE u.path = <<"reel", id>>
      BY <3>1
    <3>2. ASSUME NEW h \in Handle, u.path = <<h, "reel", id>>
          PROVE  n \in Nat /\ n > 1 /\ path[1] \notin watching /\ path[n - 1] = "reel" /\ path[n] = id
      <4>1. h \notin watching
        BY <2>0, IdsAre
      <4>2. n = 3 /\ path[1] = h /\ path[2] = "reel" /\ path[3] = id
        BY <3>2
      <4> HIDE DEF n, path, watching
      <4>3. QED BY <4>1, <4>2
    <3>3. QED BY <1>4, <3>1, <3>2
  <2>2. isNumeric(id)
    BY IdsAre
  <2> HIDE DEF i, n, watching
  <2>3. canonicalFacebook(u) = page(<<"reel", path[n]>>)
    BY <1>1, <1>4, <2>1, <2>2
  <2>4. QED BY <1>4, <2>1, <2>3
<1>5. ASSUME NEW id \in Number, NEW by \in Folded(Handle), NEW h \in Cased(by), u.host # "fb.watch", q = <<>>,
             u.path = <<h, "videos", id>> \/ \E c \in Code : u.path = <<h, "videos", c, id>>
      PROVE  canonicalFacebook(u) = buildURL("facebook.com", <<by, "videos", id>>, TRUE, <<>>)
  <2>0. watching \subseteq Word /\ "reel" \in Word
    BY DEF Word, PathWord
  <2>1. h \in Handle /\ LowerCase(h) = by /\ by \in Handle /\ isHandleLike(by) /\ h \notin watching /\ isNumeric(id)
    BY <2>0, Folding, IdsAre
  <2>2. n \in {3, 4} /\ path[1] = h /\ path[2] = "videos" /\ path[n] = id /\ path[n - 1] # "reel"
    <3>1. CASE u.path = <<h, "videos", id>>
      BY <3>1
    <3>2. ASSUME NEW c \in Code, u.path = <<h, "videos", c, id>>
          PROVE  n = 4 /\ path[1] = h /\ path[2] = "videos" /\ path[3] # "reel" /\ path[4] = id
      <4>1. c # "reel"
        BY <2>0, IdsAre
      <4>2. QED BY <3>2, <4>1
    <3>3. CASE \E c \in Code : u.path = <<h, "videos", c, id>>
      <4>1. PICK c \in Code : u.path = <<h, "videos", c, id>>
        BY <3>3
      <4>2. n = 4 /\ path[1] = h /\ path[2] = "videos" /\ path[3] # "reel" /\ path[4] = id
        BY <3>2, <4>1
      <4>3. QED BY <4>2
    <3>4. QED BY <1>5, <3>1, <3>3
  <2>3. i = 2
    <3>1. 2 \in I /\ \A m \in I : 2 <= m
      BY <2>2
    <3> HIDE DEF I, i
    <3>2. QED BY <1>0, <3>1, LeastIs
  <2> HIDE DEF i, n, watching
  <2>4. u.host # "fb.watch" /\ n > 1 /\ path[1] \notin watching /\ ~reel
        /\ i # 0 /\ i < n /\ isNumeric(path[n]) /\ isHandleLike(LowerCase(path[1]))
    BY <1>5, <2>1, <2>2, <2>3
  <2>5. ~(path[n - 1] = "reel" /\ isNumeric(path[n]))
    BY <2>2
  <2> HIDE DEF reel
  <2>6. canonicalFacebook(u) = page(<<LowerCase(path[1]), "videos", path[n]>>)
    BY <1>1, <2>4, <2>5
  <2>7. QED BY <1>5, <2>1, <2>2, <2>6
<1> HIDE DEF path
<1>6. QED BY <1>2, <1>3, <1>4, <1>5

---------------------------------------------------------------------------
(* Every spelling of a post has the post's permalink as its identity *)

\* What a submitted URL has of the spelling it was made from.
LEMMA SubmittedHas ==
  ASSUME NEW p, NEW u \in Submitted(p), NEW platform,
         Junk(p.site) \subseteq trackingParams \cup platform, "v" \notin platform, "h" \notin platform,
         \A s \in Spellings(p) : Plain(s.query)
  PROVE  /\ u.dress # "port"
         /\ \E s \in Spellings(p) : u.host = s.host /\ u.path = s.path /\ dropParams(u.query, platform) = s.query
<1>1. PICK s \in Spellings(p), dress \in Dress \ {"port"}, slash \in BOOLEAN, junk \in SUBSET Junk(p.site), ref \in RefHost \cup {NoWord} :
           /\ u = Shared(s, dress, slash, junk, ref)
           /\ u.host = s.host /\ u.path = s.path /\ u.dress # "port"
  BY SubmittedIs
<1>2. dropParams(u.query, platform) = s.query
  <2>1. Plain(s.query) /\ junk \subseteq trackingParams \cup platform
    BY <1>1
  <2>2. QED BY <1>1, <2>1, CleanedOn
<1>3. QED BY <1>1, <1>2

\* A spelling is of the hosts, paths and query it is made of.
LEMMA SpellIs ==
  ASSUME NEW hosts, NEW paths, NEW query, NEW s \in Spell(hosts, paths, query)
  PROVE  s.host \in hosts /\ s.path \in paths /\ s.query = query
BY DEF Spell

\* Every URL of a YouTube video has its permalink as identity.
LEMMA YouTubePost ==
  ASSUME NEW p, p.site = "youtube", p.kind \in {"watch", "shorts", "live"}, p.id \in Id, NEW u \in Submitted(p)
  PROVE  CanonicalizeArchiveURL(u) = Permalink(p)
<1> DEFINE platform == {"si", "feature", "t", "start", "end", "app", "pp"}
           q == dropParams(u.query, platform)
           spelled(s) ==
             \/ p.kind = "watch" /\ s.host \in {"youtube.com", "m.youtube.com"} /\ s.path = <<"watch">> /\ s.query = Only("v", p.id)
             \/ p.kind = "watch" /\ s.host = "youtu.be" /\ s.path = <<p.id>> /\ s.query = <<>>
             \/ p.kind # "watch" /\ s.host \in {"youtube.com", "m.youtube.com"} /\ s.path = <<p.kind, p.id>> /\ s.query = <<>>
<1>1. \A s \in Spellings(p) : spelled(s)
  BY DEF Spellings, Spell
<1>2. Junk(p.site) \subseteq trackingParams \cup platform /\ "v" \notin platform /\ "h" \notin platform
  BY DEF Junk, trackingParams
<1>3. \A s \in Spellings(p) : Plain(s.query)
  BY <1>1 DEF Plain
<1>4. u.dress # "port" /\ \E s \in Spellings(p) : spelled(s) /\ u.host = s.host /\ u.path = s.path /\ q = s.query
  <2> HIDE DEF spelled, platform
  <2>1. QED BY <1>1, <1>2, <1>3, SubmittedHas
<1> HIDE DEF q
<1>5. CanonicalizeArchiveURL(u) = canonicalYouTube(u)
  BY <1>4, Platform
<1>6. CASE p.kind = "watch"
  <2>1. Permalink(p) = buildURL("youtube.com", <<"watch">>, FALSE, Only("v", p.id))
    BY <1>6 DEF Permalink
  <2>2. QED BY <1>4, <1>5, <1>6, <2>1, YouTubeIs DEF q
<1>7. CASE p.kind # "watch"
  <2>1. Permalink(p) = buildURL("youtube.com", <<p.kind, p.id>>, FALSE, <<>>)
    BY <1>7 DEF Permalink
  <2>2. QED BY <1>4, <1>5, <1>7, <2>1, YouTubeIs DEF q
<1>8. QED BY <1>6, <1>7

\* Every URL of an Instagram post has its permalink as identity.
LEMMA InstagramPost ==
  ASSUME NEW p, p.site = "instagram", p.kind \in {"p", "reel", "tv"}, p.id \in Id, NEW u \in Submitted(p)
  PROVE  CanonicalizeArchiveURL(u) = Permalink(p)
<1> DEFINE platform == {"igsh", "igshid", "share_url", "story_type"}
           spelled(s) ==
             /\ s.host \in {"instagram.com", "m.instagram.com"} /\ s.query = <<>>
             /\ \E k \in {"p", "reel", "reels", "tv"} :
                  /\ p.kind = IF k = "reels" THEN "reel" ELSE k
                  /\ s.path = <<k, p.id>> \/ \E h \in Handle : s.path = <<h, k, p.id>>
<1>1. \A s \in Spellings(p) : spelled(s)
  BY DEF Spellings, Spell
<1>2. Junk(p.site) \subseteq trackingParams \cup platform /\ "v" \notin platform /\ "h" \notin platform
  BY DEF Junk, trackingParams
<1>3. \A s \in Spellings(p) : Plain(s.query)
  BY <1>1 DEF Plain
<1>4. u.dress # "port" /\ \E s \in Spellings(p) : spelled(s) /\ u.host = s.host /\ u.path = s.path /\ dropParams(u.query, platform) = s.query
  <2> HIDE DEF spelled, platform
  <2>1. QED BY <1>1, <1>2, <1>3, SubmittedHas
<1>5. CanonicalizeArchiveURL(u) = canonicalInstagram(u)
  BY <1>4, Platform
<1>6. Permalink(p) = buildURL("instagram.com", <<p.kind, p.id>>, TRUE, <<>>)
  BY DEF Permalink
<1>7. PICK k \in {"p", "reel", "reels", "tv"} :
           /\ p.kind = IF k = "reels" THEN "reel" ELSE k
           /\ u.path = <<k, p.id>> \/ \E h \in Handle : u.path = <<h, k, p.id>>
  BY <1>4, Zenon
<1>8. dropParams(u.query, platform) = <<>>
  BY <1>4
<1>9. canonicalInstagram(u) = buildURL("instagram.com", <<IF k = "reels" THEN "reel" ELSE k, p.id>>, TRUE, <<>>)
  BY <1>7, <1>8, InstagramIs, Zenon
<1>10. QED BY <1>5, <1>6, <1>7, <1>9, Zenon

\* Every URL of a status has its permalink as identity.
LEMMA TwitterPost ==
  ASSUME NEW p, p.site = "x", p.id \in Number, NEW u \in Submitted(p)
  PROVE  CanonicalizeArchiveURL(u) = Permalink(p)
<1> DEFINE platform == {"s", "t", "cxt", "ref_component"}
           shaped(path) ==
             \/ \E h \in Handle, k \in {"status", "statuses"} :
                  path = <<h, k, p.id>> \/ \E n \in Number : path = <<h, k, p.id, "photo", n>>
             \/ path = <<"i", "web", "status", p.id>>
           spelled(s) == s.host \in {"x.com", "twitter.com", "mobile.twitter.com"} /\ s.query = <<>> /\ shaped(s.path)
<1>1. \A s \in Spellings(p) : spelled(s)
  BY DEF Spellings, Spell
<1>2. Junk(p.site) \subseteq trackingParams \cup platform /\ "v" \notin platform /\ "h" \notin platform
  BY DEF Junk, trackingParams
<1>3. \A s \in Spellings(p) : Plain(s.query)
  BY <1>1 DEF Plain
<1>4. u.dress # "port" /\ \E s \in Spellings(p) : spelled(s) /\ u.host = s.host /\ u.path = s.path /\ dropParams(u.query, platform) = s.query
  <2> HIDE DEF spelled, platform
  <2>1. QED BY <1>1, <1>2, <1>3, SubmittedHas
<1>5. CanonicalizeArchiveURL(u) = canonicalTwitter(u)
  BY <1>4, Platform
<1>6. Permalink(p) = buildURL("x.com", <<"i", "web", "status", p.id>>, FALSE, <<>>)
  BY DEF Permalink
<1>7. QED BY <1>4, <1>5, <1>6, TwitterIs

\* Every URL of a TikTok post has its permalink as identity.
LEMMA TikTokPost ==
  ASSUME NEW p, p.site = "tiktok", p.kind \in {"video", "photo"}, p.id \in Number, p.by \in Folded(AtHandle), NEW u \in Submitted(p)
  PROVE  CanonicalizeArchiveURL(u) = Permalink(p)
<1> DEFINE platform == {"is_from_webapp", "sender_device", "web_id", "_t", "source", "q"}
           spelled(s) == s.host \in {"tiktok.com", "m.tiktok.com"} /\ s.query = <<>> /\ \E h \in Cased(p.by) : s.path = <<h, p.kind, p.id>>
<1>1. \A s \in Spellings(p) : spelled(s)
  BY DEF Spellings, Spell
<1>2. Junk(p.site) \subseteq trackingParams \cup platform /\ "v" \notin platform /\ "h" \notin platform
  BY DEF Junk, trackingParams
<1>3. \A s \in Spellings(p) : Plain(s.query)
  BY <1>1 DEF Plain
<1>4. u.dress # "port" /\ \E s \in Spellings(p) : spelled(s) /\ u.host = s.host /\ u.path = s.path /\ dropParams(u.query, platform) = s.query
  <2> HIDE DEF spelled, platform
  <2>1. QED BY <1>1, <1>2, <1>3, SubmittedHas
<1>5. CanonicalizeArchiveURL(u) = canonicalTikTok(u)
  BY <1>4, Platform
<1>6. Permalink(p) = buildURL("tiktok.com", <<p.by, p.kind, p.id>>, FALSE, <<>>)
  BY DEF Permalink
<1>7. PICK h \in Cased(p.by) : u.path = <<h, p.kind, p.id>>
  BY <1>4
<1>8. dropParams(u.query, platform) = <<>>
  BY <1>4
<1>9. canonicalTikTok(u) = buildURL("tiktok.com", <<p.by, p.kind, p.id>>, FALSE, <<>>)
  BY <1>7, <1>8, TikTokIs
<1>10. QED BY <1>5, <1>6, <1>9

\* Every URL of a Bluesky post has its permalink as identity.
LEMMA BlueskyPost ==
  ASSUME NEW p, p.site = "bluesky", p.id \in Id, p.by \in Folded(Handle) \cup Did, NEW u \in Submitted(p)
  PROVE  CanonicalizeArchiveURL(u) = Permalink(p)
<1> DEFINE platform == {}
           spelled(s) ==
             /\ s.host = "bsky.app" /\ s.query = <<>>
             /\ \E h : /\ (p.by \in Folded(Handle) /\ h \in Cased(p.by)) \/ (p.by \in Did /\ h = p.by)
                      /\ s.path = <<"profile", h, "post", p.id>>
<1>1. \A s \in Spellings(p) : spelled(s)
  BY DEF Spellings, Spell
<1>2. Junk(p.site) \subseteq trackingParams \cup platform /\ "v" \notin platform /\ "h" \notin platform
  BY DEF Junk, trackingParams
<1>3. \A s \in Spellings(p) : Plain(s.query)
  BY <1>1 DEF Plain
<1>4. u.dress # "port" /\ \E s \in Spellings(p) : spelled(s) /\ u.host = s.host /\ u.path = s.path /\ dropParams(u.query, {}) = s.query
  <2> HIDE DEF spelled
  <2>1. QED BY <1>1, <1>2, <1>3, SubmittedHas
<1>5. CanonicalizeArchiveURL(u) = canonicalBluesky(u)
  BY <1>4, Platform
<1>6. Permalink(p) = buildURL("bsky.app", <<"profile", p.by, "post", p.id>>, FALSE, <<>>)
  BY DEF Permalink
<1>7. QED BY <1>4, <1>5, <1>6, BlueskyIs

\* Every URL of a reddit post or comment has its permalink as identity.
LEMMA RedditPost ==
  ASSUME NEW p, p.site = "reddit", p.id \in Id, p.kind = "post" \/ (p.kind = "comment" /\ p.sub \in Id), NEW u \in Submitted(p)
  PROVE  CanonicalizeArchiveURL(u) = Permalink(p)
<1> DEFINE platform == {"ref", "context", "rdt", "share_source"}
           slugged(path) == \E c, d : path \in {<<"comments", p.id>>, <<"comments", p.id, d>>,
                                                       <<"r", c, "comments", p.id>>, <<"r", c, "comments", p.id, d>>}
           commented(path) == \E c, slug :
                                path \in {<<"comments", p.id, slug, p.sub>>, <<"r", c, "comments", p.id, slug, p.sub>>}
           short(s) == p.kind = "post" /\ s.host = "redd.it" /\ s.path = <<p.id>>
           long(s) == /\ s.host \in {"reddit.com", "old.reddit.com"}
                      /\ IF p.kind = "post" THEN slugged(s.path) ELSE commented(s.path)
           spelled(s) == s.query = <<>> /\ (short(s) \/ long(s))
<1>1. \A s \in Spellings(p) : spelled(s)
  <2>1. ASSUME p.kind = "post", NEW s \in Spellings(p) PROVE spelled(s)
    <3>1. /\ s.query = <<>>
          /\ \/ s.host = "redd.it" /\ s.path = <<p.id>>
             \/ /\ s.host \in {"reddit.com", "old.reddit.com"}
                /\ \/ s.path = <<"comments", p.id>> \/ \E d \in Code : s.path = <<"comments", p.id, d>>
                   \/ \E c \in Code : s.path = <<"r", c, "comments", p.id>> \/ \E d \in Code : s.path = <<"r", c, "comments", p.id, d>>
      BY <2>1 DEF Spellings, Spell
    <3>2. QED BY <2>1, <3>1
  <2>2. CASE p.kind = "comment"
    BY <2>2 DEF Spellings, Spell
  <2>3. QED BY <2>1, <2>2
<1>2. Junk(p.site) \subseteq trackingParams \cup platform /\ "v" \notin platform /\ "h" \notin platform
  BY DEF Junk, trackingParams
<1>3. \A s \in Spellings(p) : Plain(s.query)
  BY <1>1 DEF Plain
<1>4. u.dress # "port" /\ \E s \in Spellings(p) : spelled(s) /\ u.host = s.host /\ u.path = s.path /\ dropParams(u.query, platform) = s.query
  <2> HIDE DEF spelled, platform
  <2>1. QED BY <1>1, <1>2, <1>3, SubmittedHas
<1>5. CanonicalizeArchiveURL(u) = canonicalReddit(u)
  BY <1>4, Platform
<1>6. CASE p.kind = "post"
  <2>1. Permalink(p) = buildURL("reddit.com", <<"comments", p.id>>, TRUE, <<>>)
    BY <1>6 DEF Permalink
  <2>2. QED BY <1>4, <1>5, <1>6, <2>1, RedditIs
<1>7. CASE p.kind = "comment"
  <2>1. Permalink(p) = buildURL("reddit.com", <<"comments", p.id, "comment", p.sub>>, TRUE, <<>>)
    BY <1>7 DEF Permalink
  <2>2. QED BY <1>4, <1>5, <1>7, <2>1, RedditIs
<1>8. QED BY <1>6, <1>7

\* Every URL of a Vimeo video has its permalink as identity.
LEMMA VimeoPost ==
  ASSUME NEW p, p.site = "vimeo", p.id \in Number, p.sub \in Id \cup {NoWord}, NEW u \in Submitted(p)
  PROVE  CanonicalizeArchiveURL(u) = Permalink(p)
<1> DEFINE platform == {"share", "autoplay", "loop", "title", "badge"}
           q == dropParams(u.query, platform)
           listed(path) == path = <<p.id>> \/ \E c \in Code : path \in {<<"channels", c, p.id>>, <<"groups", c, "videos", p.id>>}
           spelled(s) ==
             \/ p.sub = NoWord /\ s.host = "vimeo.com" /\ listed(s.path) /\ s.query = <<>>
             \/ p.sub = NoWord /\ s.host = "player.vimeo.com" /\ s.path = <<"video", p.id>> /\ s.query = <<>>
             \/ p.sub # NoWord /\ s.host = "vimeo.com" /\ s.path = <<p.id, p.sub>> /\ s.query = <<>>
             \/ p.sub # NoWord /\ s.host = "player.vimeo.com" /\ s.path = <<"video", p.id>> /\ s.query = Only("h", p.sub)
<1>1. \A s \in Spellings(p) : spelled(s)
  BY DEF Spellings, Spell
<1>2. Junk(p.site) \subseteq trackingParams \cup platform /\ "v" \notin platform /\ "h" \notin platform
  BY DEF Junk, trackingParams
<1>3. \A s \in Spellings(p) : Plain(s.query)
  BY <1>1 DEF Plain
<1>4. u.dress # "port" /\ \E s \in Spellings(p) : spelled(s) /\ u.host = s.host /\ u.path = s.path /\ q = s.query
  <2> HIDE DEF spelled, platform
  <2>1. QED BY <1>1, <1>2, <1>3, SubmittedHas
<1> HIDE DEF q
<1>5. CanonicalizeArchiveURL(u) = canonicalVimeo(u)
  BY <1>4, Platform
<1>6. CASE p.sub = NoWord
  <2>1. Permalink(p) = buildURL("vimeo.com", <<p.id>>, FALSE, <<>>)
    <3>1. Permalink(p) = buildURL("vimeo.com", <<p.id>> \o <<>>, FALSE, <<>>)
      BY <1>6 DEF Permalink
    <3>2. <<p.id>> \o <<>> = <<p.id>>
      OBVIOUS
    <3>3. QED BY <3>1, <3>2
  <2>2. QED BY <1>4, <1>5, <1>6, <2>1, VimeoIs DEF q
<1>7. CASE p.sub # NoWord
  <2>1. Permalink(p) = buildURL("vimeo.com", <<p.id, p.sub>>, FALSE, <<>>)
    <3>1. Permalink(p) = buildURL("vimeo.com", <<p.id>> \o <<p.sub>>, FALSE, <<>>)
      BY <1>7 DEF Permalink
    <3>2. QED BY <3>1, JoinIs
  <2>2. QED BY <1>4, <1>5, <1>7, <2>1, VimeoIs DEF q
<1>8. QED BY <1>6, <1>7

\* Every URL of a Facebook video has its permalink as identity.
LEMMA FacebookPost ==
  ASSUME NEW p, NEW u \in Submitted(p),
         \/ p.site = "facebook_short" /\ p.id \in Id
         \/ p.site = "facebook" /\ p.kind \in {"watch", "reel"} /\ p.id \in Number
         \/ p.site = "facebook" /\ p.kind = "videos" /\ p.id \in Number /\ p.by \in Folded(Handle)
  PROVE  CanonicalizeArchiveURL(u) = Permalink(p)
<1> DEFINE platform == {"mibextid", "rdid", "extid", "_rdr"}
           q == dropParams(u.query, platform)
           hosts == {"facebook.com", "m.facebook.com", "web.facebook.com"}
           named(path) == \E h \in Cased(p.by) : path = <<h, "videos", p.id>> \/ \E c \in Code : path = <<h, "videos", c, p.id>>
           spelled(s) ==
             \/ p.site = "facebook_short" /\ s.host = "fb.watch" /\ s.path = <<p.id>> /\ s.query = <<>>
             \/ /\ p.site = "facebook" /\ p.kind = "watch" /\ s.host \in hosts
                /\ s.path \in {<<"watch">>, <<"video.php">>} /\ s.query = Only("v", p.id)
             \/ /\ p.site = "facebook" /\ p.kind = "reel" /\ s.host \in hosts
                /\ (s.path = <<"reel", p.id>> \/ \E h \in Handle : s.path = <<h, "reel", p.id>>) /\ s.query = <<>>
             \/ p.site = "facebook" /\ p.kind = "videos" /\ s.host \in hosts /\ named(s.path) /\ s.query = <<>>
<1>1. \A s \in Spellings(p) : spelled(s)
  BY DEF Spellings, Spell
<1>2. Junk(p.site) \subseteq trackingParams \cup platform /\ "v" \notin platform /\ "h" \notin platform
  BY DEF Junk, trackingParams
<1>3. \A s \in Spellings(p) : Plain(s.query)
  BY <1>1 DEF Plain
<1>4. u.dress # "port" /\ \E s \in Spellings(p) : spelled(s) /\ u.host = s.host /\ u.path = s.path /\ q = s.query
  <2> HIDE DEF spelled, platform
  <2>1. QED BY <1>1, <1>2, <1>3, SubmittedHas
<1> HIDE DEF q
<1>5. CanonicalizeArchiveURL(u) = canonicalFacebook(u)
  BY <1>4, Platform
<1>6. CASE p.site = "facebook_short"
  <2>1. Permalink(p) = buildURL("fb.watch", <<p.id>>, TRUE, <<>>)
    BY <1>6 DEF Permalink
  <2>2. QED BY <1>4, <1>5, <1>6, <2>1, FacebookIs DEF q
<1>7. CASE p.site = "facebook" /\ p.kind = "watch"
  <2>1. Permalink(p) = buildURL("facebook.com", <<"watch">>, TRUE, Only("v", p.id))
    BY <1>7 DEF Permalink
  <2>2. QED BY <1>4, <1>5, <1>7, <2>1, FacebookIs DEF q
<1>8. CASE p.site = "facebook" /\ p.kind = "reel"
  <2>1. Permalink(p) = buildURL("facebook.com", <<"reel", p.id>>, TRUE, <<>>)
    BY <1>8 DEF Permalink
  <2>2. QED BY <1>4, <1>5, <1>8, <2>1, FacebookIs DEF q
<1>9. CASE p.site = "facebook" /\ p.kind = "videos"
  <2>1. Permalink(p) = buildURL("facebook.com", <<p.by, "videos", p.id>>, TRUE, <<>>)
    BY <1>9 DEF Permalink
  <2>2. QED BY <1>4, <1>5, <1>9, <2>1, FacebookIs DEF q
<1>10. QED BY <1>6, <1>7, <1>8, <1>9

\* Every spelling of a claimed post has the post's permalink as its identity.
LEMMA IdentityOf ==
  ASSUME NEW p \in Claimed, NEW u \in Submitted(p)
  PROVE  CanonicalizeArchiveURL(u) = Permalink(p) /\ p.site # "page"
<1>1. CASE p \in PostOf("youtube", {"watch", "shorts", "live"}, Id, {NoWord}, {NoWord})
  BY <1>1, YouTubePost DEF PostOf
<1>2. CASE p \in PostOf("instagram", {"p", "reel", "tv"}, Id, {NoWord}, {NoWord})
  BY <1>2, InstagramPost DEF PostOf
<1>3. CASE p \in PostOf("x", {"status"}, Number, {NoWord}, {NoWord})
  BY <1>3, TwitterPost DEF PostOf
<1>4. CASE p \in PostOf("tiktok", {"video", "photo"}, Number, Folded(AtHandle), {NoWord})
  BY <1>4, TikTokPost DEF PostOf
<1>5. CASE p \in PostOf("reddit", {"post"}, Id, {NoWord}, {NoWord})
  BY <1>5, RedditPost DEF PostOf
<1>6. CASE p \in PostOf("reddit", {"comment"}, Id, {NoWord}, Id)
  BY <1>6, RedditPost DEF PostOf
<1>7. CASE p \in PostOf("bluesky", {"post"}, Id, Folded(Handle) \cup Did, {NoWord})
  BY <1>7, BlueskyPost DEF PostOf
<1>8. CASE p \in PostOf("vimeo", {"video"}, Number, {NoWord}, Number \cup Token \cup {NoWord})
  <2>1. Number \cup Token \subseteq Id
    BY NamesAssumption DEF Id
  <2>2. QED BY <1>8, <2>1, VimeoPost DEF PostOf
<1>9. CASE p \in PostOf("facebook", {"watch", "reel"}, Number, {NoWord}, {NoWord})
  BY <1>9, FacebookPost DEF PostOf
<1>10. CASE p \in PostOf("facebook", {"videos"}, Number, Folded(Handle), {NoWord})
  BY <1>10, FacebookPost DEF PostOf
<1>11. CASE p \in PostOf("facebook_short", {"short"}, Id, {NoWord}, {NoWord})
  BY <1>11, FacebookPost DEF PostOf
<1>12. QED BY <1>1, <1>2, <1>3, <1>4, <1>5, <1>6, <1>7, <1>8, <1>9, <1>10, <1>11 DEF Claimed

\* A spelling with nothing around it.
LEMMA BareIs ==
  ASSUME NEW p, NEW s \in Spellings(p), NEW slash \in BOOLEAN
  PROVE  Shared(s, "https", slash, {}, NoWord) \in Submitted(p)
BY DEF Submitted, Dress

\* The identity is a spelling as well.
LEMMA PermalinkSubmitted ==
  ASSUME NEW p \in Claimed
  PROVE  Permalink(p) \in Submitted(p)
<1>1. ASSUME NEW host, NEW path, NEW slash \in BOOLEAN, NEW query, Plain(query),
             [host |-> host, path |-> path, query |-> query] \in Spellings(p)
      PROVE  buildURL(host, path, slash, query) \in Submitted(p)
  <2> DEFINE s == [host |-> host, path |-> path, query |-> query]
             none == [key \in {} |-> "junk"]
  <2>1. Also(Also(query, none), <<>>) = query
    <3>1. DOMAIN none = {} /\ DOMAIN <<>> = {}
      OBVIOUS
    <3>2. query = [k \in DOMAIN query |-> query[k]]
      <4>1. CASE query = <<>>
        BY <4>1
      <4>2. ASSUME NEW key, NEW x, query = Only(key, x) PROVE query = [k \in DOMAIN query |-> query[k]]
        BY <4>2 DEF Only
      <4>3. QED BY <1>1, <4>1, <4>2 DEF Plain
    <3> HIDE DEF none
    <3>3. Also(query, none) = query
      BY <3>1, <3>2 DEF Also
    <3>4. QED BY <3>2, <3>3, NothingIs
  <2>2. Shared(s, "https", slash, {}, NoWord) = buildURL(host, path, slash, query)
    BY <2>1 DEF Shared, buildURL
  <2>3. QED BY <1>1, <2>2, BareIs
<1>2. Plain(<<>>) /\ \A x : Plain(Only("v", x)) /\ Plain(Only("h", x))
  BY DEF Plain
<1> DEFINE Spelt(host, path, query) == [host |-> host, path |-> path, query |-> query] \in Spellings(p)
<1>3. CASE p \in PostOf("youtube", {"watch", "shorts", "live"}, Id, {NoWord}, {NoWord})
  <2>1. p.site = "youtube"
    BY <1>3 DEF PostOf
  <2>2. p.kind = "watch" => Spelt("youtube.com", <<"watch">>, Only("v", p.id))
    BY <2>1 DEF Spellings, Spell
  <2>3. p.kind # "watch" => Spelt("youtube.com", <<p.kind, p.id>>, <<>>)
    BY <2>1 DEF Spellings, Spell
  <2>4. /\ p.kind = "watch" => Permalink(p) = buildURL("youtube.com", <<"watch">>, FALSE, Only("v", p.id))
        /\ p.kind # "watch" => Permalink(p) = buildURL("youtube.com", <<p.kind, p.id>>, FALSE, <<>>)
    BY <2>1 DEF Permalink
  <2>5. QED BY <1>1, <1>2, <2>2, <2>3, <2>4
<1>4. CASE p \in PostOf("instagram", {"p", "reel", "tv"}, Id, {NoWord}, {NoWord})
  <2>1. p.site = "instagram" /\ p.kind \in {"p", "reel", "tv"}
    BY <1>4 DEF PostOf
  <2>2. Spelt("instagram.com", <<p.kind, p.id>>, <<>>)
    BY <2>1 DEF Spellings, Spell
  <2>3. Permalink(p) = buildURL("instagram.com", <<p.kind, p.id>>, TRUE, <<>>)
    BY <2>1 DEF Permalink
  <2>4. QED BY <1>1, <1>2, <2>2, <2>3
<1>5. CASE p \in PostOf("x", {"status"}, Number, {NoWord}, {NoWord})
  <2>1. p.site = "x"
    BY <1>5 DEF PostOf
  <2>2. Spelt("x.com", <<"i", "web", "status", p.id>>, <<>>)
    BY <2>1 DEF Spellings, Spell
  <2>3. Permalink(p) = buildURL("x.com", <<"i", "web", "status", p.id>>, FALSE, <<>>)
    BY <2>1 DEF Permalink
  <2>4. QED BY <1>1, <1>2, <2>2, <2>3
<1>6. CASE p \in PostOf("tiktok", {"video", "photo"}, Number, Folded(AtHandle), {NoWord})
  <2>1. p.site = "tiktok"
    BY <1>6 DEF PostOf
  <2>2. Spelt("tiktok.com", <<p.by, p.kind, p.id>>, <<>>)
    BY <2>1 DEF Spellings, Spell, Cased
  <2>3. Permalink(p) = buildURL("tiktok.com", <<p.by, p.kind, p.id>>, FALSE, <<>>)
    BY <2>1 DEF Permalink
  <2>4. QED BY <1>1, <1>2, <2>2, <2>3
<1>7. CASE p \in PostOf("reddit", {"post"}, Id, {NoWord}, {NoWord})
  <2>1. p.site = "reddit" /\ p.kind = "post"
    BY <1>7 DEF PostOf
  <2>2. Spelt("reddit.com", <<"comments", p.id>>, <<>>)
    BY <2>1 DEF Spellings, Spell
  <2>3. Permalink(p) = buildURL("reddit.com", <<"comments", p.id>>, TRUE, <<>>)
    BY <2>1 DEF Permalink
  <2>4. QED BY <1>1, <1>2, <2>2, <2>3
<1>8. CASE p \in PostOf("reddit", {"comment"}, Id, {NoWord}, Id)
  <2>1. p.site = "reddit" /\ p.kind = "comment"
    BY <1>8 DEF PostOf
  <2>2. Spelt("reddit.com", <<"comments", p.id, "comment", p.sub>>, <<>>)
    <3>1. \A slug \in Code \cup {"comment"} : Spelt("reddit.com", <<"comments", p.id, slug, p.sub>>, <<>>)
      BY <2>1 DEF Spellings, Spell
    <3>2. QED BY <3>1
  <2>3. Permalink(p) = buildURL("reddit.com", <<"comments", p.id, "comment", p.sub>>, TRUE, <<>>)
    BY <2>1 DEF Permalink
  <2>4. QED BY <1>1, <1>2, <2>2, <2>3
<1>9. CASE p \in PostOf("bluesky", {"post"}, Id, Folded(Handle) \cup Did, {NoWord})
  <2>1. p.site = "bluesky"
    BY <1>9 DEF PostOf
  <2>2. Spelt("bsky.app", <<"profile", p.by, "post", p.id>>, <<>>)
    BY <2>1 DEF Spellings, Spell, Cased
  <2>3. Permalink(p) = buildURL("bsky.app", <<"profile", p.by, "post", p.id>>, FALSE, <<>>)
    BY <2>1 DEF Permalink
  <2>4. QED BY <1>1, <1>2, <2>2, <2>3
<1>10. CASE p \in PostOf("vimeo", {"video"}, Number, {NoWord}, Number \cup Token \cup {NoWord})
  <2>1. p.site = "vimeo"
    BY <1>10 DEF PostOf
  <2>2. CASE p.sub = NoWord
    <3>1. Spelt("vimeo.com", <<p.id>>, <<>>)
      BY <2>1, <2>2 DEF Spellings, Spell
    <3>2. <<p.id>> \o <<>> = <<p.id>>
      OBVIOUS
    <3>3. Permalink(p) = buildURL("vimeo.com", <<p.id>>, FALSE, <<>>)
      BY <2>1, <2>2, <3>2 DEF Permalink
    <3>4. QED BY <1>1, <1>2, <3>1, <3>3
  <2>3. CASE p.sub # NoWord
    <3>1. Spelt("vimeo.com", <<p.id, p.sub>>, <<>>)
      BY <2>1, <2>3 DEF Spellings, Spell
    <3>2. <<p.id>> \o <<p.sub>> = <<p.id, p.sub>>
      BY JoinIs
    <3>3. Permalink(p) = buildURL("vimeo.com", <<p.id, p.sub>>, FALSE, <<>>)
      BY <2>1, <2>3, <3>2 DEF Permalink
    <3>4. QED BY <1>1, <1>2, <3>1, <3>3
  <2>4. QED BY <2>2, <2>3
<1>11. CASE p \in PostOf("facebook", {"watch", "reel"}, Number, {NoWord}, {NoWord})
  <2>1. p.site = "facebook" /\ p.kind \in {"watch", "reel"}
    BY <1>11 DEF PostOf
  <2>2. /\ p.kind = "watch" => Spelt("facebook.com", <<"watch">>, Only("v", p.id))
        /\ p.kind = "reel" => Spelt("facebook.com", <<"reel", p.id>>, <<>>)
    <3>1. CASE p.kind = "watch"
      BY <2>1, <3>1 DEF Spellings, Spell
    <3>2. CASE p.kind = "reel"
      <4>1. \A path \in {<<"reel", p.id>>} : Spelt("facebook.com", path, <<>>)
        BY <2>1, <3>2 DEF Spellings, Spell
      <4>2. QED BY <3>2, <4>1
    <3>3. QED BY <2>1, <3>1, <3>2
  <2>3. /\ p.kind = "watch" => Permalink(p) = buildURL("facebook.com", <<"watch">>, TRUE, Only("v", p.id))
        /\ p.kind = "reel" => Permalink(p) = buildURL("facebook.com", <<"reel", p.id>>, TRUE, <<>>)
    BY <2>1 DEF Permalink
  <2>4. QED BY <1>1, <1>2, <2>1, <2>2, <2>3
<1>12. CASE p \in PostOf("facebook", {"videos"}, Number, Folded(Handle), {NoWord})
  <2>1. p.site = "facebook" /\ p.kind = "videos"
    BY <1>12 DEF PostOf
  <2>2. Spelt("facebook.com", <<p.by, "videos", p.id>>, <<>>)
    BY <2>1 DEF Spellings, Spell, Cased
  <2>3. Permalink(p) = buildURL("facebook.com", <<p.by, "videos", p.id>>, TRUE, <<>>)
    BY <2>1 DEF Permalink
  <2>4. QED BY <1>1, <1>2, <2>2, <2>3
<1>13. CASE p \in PostOf("facebook_short", {"short"}, Id, {NoWord}, {NoWord})
  <2>1. p.site = "facebook_short"
    BY <1>13 DEF PostOf
  <2>2. Spelt("fb.watch", <<p.id>>, <<>>)
    BY <2>1 DEF Spellings, Spell
  <2>3. Permalink(p) = buildURL("fb.watch", <<p.id>>, TRUE, <<>>)
    BY <2>1 DEF Permalink
  <2>4. QED BY <1>1, <1>2, <2>2, <2>3
<1>14. QED BY <1>3, <1>4, <1>5, <1>6, <1>7, <1>8, <1>9, <1>10, <1>11, <1>12, <1>13 DEF Claimed

---------------------------------------------------------------------------
(* The URL under way is always one of the post's own *)
Carried ==
  /\ post \in Post /\ url \in Submitted(post)
  /\ config \in [cookies : BOOLEAN, rescue : {{}, LoginSites}]

\* It is so at first.
LEMMA CarriedInit == Init => Carried
<1> SUFFICES ASSUME Init PROVE Carried
  OBVIOUS
<1>1. post \in Post /\ (\E s \in Spellings(post) : url = Shared(s, "https", FALSE, {}, NoWord))
      /\ config \in [cookies : BOOLEAN, rescue : {{}, LoginSites}]
  BY DEF Init
<1>2. QED BY <1>1, BareIs DEF Carried

\* Sharing chooses a URL of the same post; canonicalizing gives its permalink, which is one too.
LEMMA CarriedNext == Carried /\ [Next]_vars => Carried'
<1> SUFFICES ASSUME Carried, [Next]_vars PROVE Carried'
  OBVIOUS
<1> USE DEF Carried
<1>1. CASE Share
  BY <1>1 DEF Share
<1>2. CASE Recanonicalize
  <2>1. post' = post /\ url' = CanonicalizeArchiveURL(url) /\ config' = config
    BY <1>2 DEF Recanonicalize
  <2>2. CASE post \in Claimed
    <3>1. url' = Permalink(post)
      BY <2>1, <2>2, IdentityOf
    <3>2. QED BY <2>1, <2>2, <3>1, PermalinkSubmitted
  <2>3. CASE Unclaimed(post)
    BY <2>1, <2>3 DEF Unclaimed
  <2>4. QED BY <2>2, <2>3, PostAssumption
<1>3. CASE UNCHANGED vars
  BY <1>3 DEF vars
<1>4. QED BY <1>1, <1>2, <1>3 DEF Next

\* The URL of a post has the post's identity.
LEMMA CarriedIdentity == Carried => IdentityIsPermalink
<1> SUFFICES ASSUME Carried PROVE IdentityIsPermalink
  OBVIOUS
<1> USE DEF Carried
<1>1. CASE post \in Claimed
  BY <1>1, IdentityOf DEF IdentityIsPermalink
<1>2. CASE Unclaimed(post)
  BY <1>2 DEF IdentityIsPermalink, Unclaimed
<1>3. QED BY <1>1, <1>2, PostAssumption

(* CanonicalizeArchiveURL gives every URL of a post that it claims the      *)
(* post's permalink: for all ids and account names, all hosts and shapes,   *)
(* all tracking parameters and referrers, and the permalink itself again.   *)
THEOREM IdentityKept == Spec => []IdentityIsPermalink
<1>1. Spec => []Carried
  BY CarriedInit, CarriedNext, PTL DEF Spec
<1>2. QED BY <1>1, CarriedIdentity, PTL

---------------------------------------------------------------------------
(* The page that yt-dlp is pointed at *)

\* The last of some places is the greatest of their numbers.
LEMMA MostIs ==
  ASSUME NEW I \in SUBSET Int, NEW n \in I, \A m \in I : m <= n
  PROVE  (IF I # {} THEN Max(I) ELSE 0) = n
<1>1. n \in I /\ \A y \in I : n >= y
  OBVIOUS
<1>2. ASSUME NEW x \in I, \A y \in I : x >= y PROVE x = n
  <2>1. x <= n /\ n <= x /\ x \in Int /\ n \in Int
    BY <1>2
  <2>2. QED BY <2>1
<1>3. (CHOOSE x \in I : \A y \in I : x >= y) = n
  BY <1>1, <1>2, Zenon
<1>4. QED BY <1>3 DEF Max

\* The last numeric segment is the video, unless the token of an unlisted one is numeric too.
LEMMA FoundIs ==
  ASSUME NEW id \in Number, NEW path
  PROVE  /\ path = <<id>> \/ (\E c \in Code : path \in {<<"channels", c, id>>, <<"groups", c, "videos", id>>})
              => vimeoIDAndHash(path) = <<id, NoWord>>
         /\ \A sub \in Number \cup Token : path = <<id, sub>> => vimeoIDAndHash(path) = <<id, sub>>
<1> DEFINE at == SelectLastInSeq(path, LAMBDA s : isNumeric(s))
           I == {m \in 1..Len(path) : isNumeric(path[m])}
<1>0. at = (IF I # {} THEN Max(I) ELSE 0) /\ I \in SUBSET Int
  BY DEF SelectLastInSeq
<1>1. /\ isNumeric(id) /\ Number \cup Token \subseteq Number \cup Code
      /\ \A c \in Code : ~isNumeric(c)
      /\ ~isNumeric("channels") /\ ~isNumeric("groups") /\ ~isNumeric("videos")
  BY IdsAre, NamesAssumption DEF Id, Word, PathWord
<1>2. vimeoIDAndHash(path) =
        CASE Len(path) = 2 /\ isNumeric(path[1]) /\ isNumeric(path[2]) -> <<path[1], path[2]>>
          [] OTHER ->
               IF at = 0 THEN <<NoWord, NoWord>>
               ELSE <<path[at], IF at < Len(path) /\ path[at + 1] \in Token THEN path[at + 1] ELSE NoWord>>
  BY DEF vimeoIDAndHash
<1>3. ASSUME Len(path) \in {1, 3, 4}, path[Len(path)] = id
      PROVE  vimeoIDAndHash(path) = <<id, NoWord>>
  <2>1. Len(path) \in I /\ \A m \in I : m <= Len(path)
    BY <1>1, <1>3
  <2> HIDE DEF I, at
  <2>2. at = Len(path)
    BY <1>0, <2>1, MostIs
  <2>3. at # 0 /\ ~(at < Len(path)) /\ Len(path) # 2
    BY <1>3, <2>2
  <2>4. QED BY <1>2, <1>3, <2>2, <2>3
<1>4. ASSUME NEW sub \in Number \cup Token, path = <<id, sub>>
      PROVE  vimeoIDAndHash(path) = <<id, sub>>
  <2>0. Len(path) = 2 /\ path[1] = id /\ path[2] = sub
    BY <1>4
  <2>1. CASE isNumeric(sub)
    <3> HIDE DEF I, at
    <3>1. QED BY <1>1, <1>2, <2>0, <2>1
  <2>2. CASE ~isNumeric(sub)
    <3>1. sub \in Token
      BY <2>2 DEF isNumeric
    <3>2. 1 \in I /\ \A m \in I : m <= 1
      BY <1>1, <2>0, <2>2
    <3> HIDE DEF I, at
    <3>3. at = 1
      BY <1>0, <3>2, MostIs
    <3>4. QED BY <1>2, <2>0, <2>2, <3>1, <3>3
  <2>3. QED BY <2>1, <2>2
<1>5. ASSUME path = <<id>> \/ (\E c \in Code : path \in {<<"channels", c, id>>, <<"groups", c, "videos", id>>})
      PROVE  Len(path) \in {1, 3, 4} /\ path[Len(path)] = id
  <2>1. CASE path = <<id>>
    BY <2>1
  <2>2. ASSUME NEW c \in Code, path = <<"channels", c, id>>
        PROVE  Len(path) \in {1, 3, 4} /\ path[Len(path)] = id
    BY <2>2
  <2>3. ASSUME NEW c \in Code, path = <<"groups", c, "videos", id>>
        PROVE  Len(path) \in {1, 3, 4} /\ path[Len(path)] = id
    BY <2>3
  <2>4. QED BY <1>5, <2>1, <2>2, <2>3, Zenon
<1>6. QED BY <1>3, <1>4, <1>5

\* Every URL of a Vimeo video, its identity too, leads to the player of that video.
LEMMA VimeoFetch ==
  ASSUME NEW p, p.site = "vimeo", p.id \in Number, p.sub \in Number \cup Token \cup {NoWord}, NEW u \in Submitted(p)
  PROVE  LET fetched == YtDlpFetchURL(u)
         IN /\ fetched.host = "player.vimeo.com"
            /\ fetched.path = <<"video", p.id>>
            /\ Get(fetched.query, "h") = p.sub
<1> DEFINE fetched == YtDlpFetchURL(u)
           listed(path) == path = <<p.id>> \/ \E c \in Code : path \in {<<"channels", c, p.id>>, <<"groups", c, "videos", p.id>>}
<1>1. PICK s \in Spellings(p), dress \in Dress \ {"port"}, slash \in BOOLEAN, junk \in SUBSET Junk(p.site), ref \in RefHost \cup {NoWord} :
           /\ u = Shared(s, dress, slash, junk, ref)
           /\ u.host = s.host /\ u.path = s.path /\ u.dress # "port"
  BY SubmittedIs
<1>2. \/ p.sub = NoWord /\ s.host = "vimeo.com" /\ listed(s.path) /\ s.query = <<>>
      \/ p.sub = NoWord /\ s.host = "player.vimeo.com" /\ s.path = <<"video", p.id>> /\ s.query = <<>>
      \/ p.sub # NoWord /\ s.host = "vimeo.com" /\ s.path = <<p.id, p.sub>> /\ s.query = <<>>
      \/ p.sub # NoWord /\ s.host = "player.vimeo.com" /\ s.path = <<"video", p.id>> /\ s.query = Only("h", p.sub)
  BY <1>1 DEF Spellings, Spell
<1>3. Get(u.query, "h") = Get(s.query, "h")
  <2> DEFINE J == [k \in junk |-> "junk"]
             R == IF ref = NoWord THEN <<>> ELSE Only("ref_url", ref)
  <2>1. u.query = Also(Also(s.query, J), R)
    BY <1>1 DEF Shared
  <2>2. "h" \notin DOMAIN J /\ "h" \notin DOMAIN R
    <3>1. "h" \notin junk
      BY <1>1 DEF Junk
    <3>2. DOMAIN R \subseteq {"ref_url"}
      BY DEF Only
    <3>3. QED BY <3>1, <3>2
  <2> HIDE DEF J, R
  <2>3. QED BY <2>1, <2>2 DEF Get, Also
<1>4. Get(s.query, "h") = (IF s.host = "player.vimeo.com" THEN p.sub ELSE NoWord)
  BY <1>2, NothingIs, OnlyIs
<1>5. CASE s.host = "player.vimeo.com"
  <2>1. fetched = u
    BY <1>1, <1>5 DEF YtDlpFetchURL, VimeoPlayerURL
  <2>2. s.path = <<"video", p.id>>
    BY <1>2, <1>5
  <2>3. QED BY <1>1, <1>3, <1>4, <1>5, <2>1, <2>2
<1>6. CASE s.host = "vimeo.com"
  <2> DEFINE found == vimeoIDAndHash(u.path)
             hash == IF found[2] # NoWord THEN found[2] ELSE Get(u.query, "h")
             query == IF hash = NoWord THEN <<>> ELSE Only("h", hash)
  <2>0. (p.sub = NoWord /\ listed(u.path)) \/ (p.sub # NoWord /\ u.path = <<p.id, p.sub>>)
    <3>1. u.path = s.path /\ s.host # "player.vimeo.com"
      BY <1>1, <1>6
    <3> HIDE DEF listed
    <3>2. u.path = s.path /\ ((p.sub = NoWord /\ listed(s.path)) \/ (p.sub # NoWord /\ s.path = <<p.id, p.sub>>))
      BY <1>2, <3>1
    <3>3. QED BY <3>2
  <2>1. found = <<p.id, p.sub>>
    BY <2>0, FoundIs
  <2>2. u.path # <<>> /\ u.path[1] \notin {"event", "ondemand"}
    <3>1. p.id \notin {"event", "ondemand"}
      BY IdsAre DEF Word
    <3>2. u.path[1] \in {p.id, "channels", "groups"} /\ Len(u.path) # 0
      <4>1. CASE u.path = <<p.id>>
        BY <4>1
      <4>2. CASE u.path = <<p.id, p.sub>>
        BY <4>2
      <4>3. ASSUME NEW c \in Code, u.path = <<"channels", c, p.id>>
            PROVE  u.path[1] \in {p.id, "channels", "groups"} /\ Len(u.path) # 0
        BY <4>3
      <4>4. ASSUME NEW c \in Code, u.path = <<"groups", c, "videos", p.id>>
            PROVE  u.path[1] \in {p.id, "channels", "groups"} /\ Len(u.path) # 0
        BY <4>4
      <4>5. QED BY <2>0, <4>1, <4>2, <4>3, <4>4, Zenon
    <3>3. QED BY <3>1, <3>2
  <2>3. found[1] = p.id /\ found[2] = p.sub
    BY <2>1
  <2>4. p.id # NoWord
    BY IdsAre
  <2>5. hash = p.sub
    BY <1>3, <1>4, <1>6, <2>3
  <2>6. fetched = buildURL("player.vimeo.com", <<"video", found[1]>>, FALSE, query)
    BY <1>1, <1>6, <2>2, <2>3, <2>4 DEF YtDlpFetchURL, VimeoPlayerURL
  <2>7. Get(query, "h") = p.sub
    BY <2>5, NothingIs, OnlyIs
  <2> HIDE DEF fetched, query, found
  <2>8. QED BY <2>3, <2>6, <2>7 DEF buildURL, fetched
<1>7. QED BY <1>2, <1>5, <1>6

\* yt-dlp is pointed at the video of the post.
LEMMA CarriedFetch == Carried => FetchKeepsVideo
<1> SUFFICES ASSUME Carried, post.site = "vimeo"
             PROVE  LET fetched == YtDlpFetchURL(url)
                    IN /\ fetched.host = "player.vimeo.com"
                       /\ fetched.path = <<"video", post.id>>
                       /\ Get(fetched.query, "h") = post.sub
  BY DEF FetchKeepsVideo
<1>1. post \in Claimed
  BY PostAssumption DEF Carried, Unclaimed
<1>2. post \in PostOf("vimeo", {"video"}, Number, {NoWord}, Number \cup Token \cup {NoWord})
  BY <1>1 DEF Claimed, PostOf
<1>3. post.id \in Number /\ post.sub \in Number \cup Token \cup {NoWord}
  BY <1>2 DEF PostOf
<1>4. QED BY <1>3, VimeoFetch DEF Carried

(* VimeoPlayerURL points yt-dlp at the post's own video, with the token of  *)
(* an unlisted one, from every URL of it, for all ids and tokens.           *)
THEOREM FetchKept == Spec => []FetchKeepsVideo
<1>1. Spec => []Carried
  BY CarriedInit, CarriedNext, PTL DEF Spec
<1>2. QED BY <1>1, CarriedFetch, PTL

---------------------------------------------------------------------------
(* A permalink names one post *)

\* The post that a permalink is of.
PostAt(link) ==
  LET path == link.path
      one(site, kind, id, by, sub) == [site |-> site, kind |-> kind, id |-> id, by |-> by, sub |-> sub]
  IN CASE link.host = "youtube.com" ->
            IF Len(path) = 1 THEN one("youtube", "watch", Get(link.query, "v"), NoWord, NoWord)
            ELSE one("youtube", path[1], path[2], NoWord, NoWord)
       [] link.host = "instagram.com" -> one("instagram", path[1], path[2], NoWord, NoWord)
       [] link.host = "x.com" -> one("x", "status", path[4], NoWord, NoWord)
       [] link.host = "tiktok.com" -> one("tiktok", path[2], path[3], path[1], NoWord)
       [] link.host = "reddit.com" ->
            IF Len(path) = 2 THEN one("reddit", "post", path[2], NoWord, NoWord)
            ELSE one("reddit", "comment", path[2], NoWord, path[4])
       [] link.host = "bsky.app" -> one("bluesky", "post", path[4], path[2], NoWord)
       [] link.host = "vimeo.com" ->
            one("vimeo", "video", path[1], NoWord, IF Len(path) = 1 THEN NoWord ELSE path[2])
       [] link.host = "facebook.com" ->
            IF Len(path) = 1 THEN one("facebook", "watch", Get(link.query, "v"), NoWord, NoWord)
            ELSE IF Len(path) = 2 THEN one("facebook", "reel", path[2], NoWord, NoWord)
            ELSE one("facebook", "videos", path[3], path[1], NoWord)
       [] link.host = "fb.watch" -> one("facebook_short", "short", path[1], NoWord, NoWord)

\* A post can be read from its permalink.
LEMMA Recovered ==
  ASSUME NEW p \in Claimed
  PROVE  PostAt(Permalink(p)) = p
<1> DEFINE one(site, kind, id, by, sub) == [site |-> site, kind |-> kind, id |-> id, by |-> by, sub |-> sub]
<1>0. ASSUME NEW site, NEW kinds, NEW ids, NEW bys, NEW subs, p \in PostOf(site, kinds, ids, bys, subs)
      PROVE  p = one(site, p.kind, p.id, p.by, p.sub) /\ p.kind \in kinds /\ p.by \in bys /\ p.sub \in subs /\ p.site = site
  BY <1>0 DEF PostOf
<1>1. CASE p \in PostOf("youtube", {"watch", "shorts", "live"}, Id, {NoWord}, {NoWord})
  <2>1. p = one("youtube", p.kind, p.id, p.by, p.sub) /\ p.site = "youtube"
    BY <1>0, <1>1
  <2>2. p.kind \in {"watch", "shorts", "live"} /\ p.by = NoWord /\ p.sub = NoWord
    BY <1>0, <1>1
  <2>3. CASE p.kind = "watch"
    <3>1. Permalink(p) = buildURL("youtube.com", <<"watch">>, FALSE, Only("v", p.id))
      BY <2>1, <2>2, <2>3 DEF Permalink
    <3>2. QED BY <2>1, <2>2, <2>3, <3>1, OnlyIs DEF PostAt, buildURL
  <2>4. CASE p.kind # "watch"
    <3>1. Permalink(p) = buildURL("youtube.com", <<p.kind, p.id>>, FALSE, <<>>)
      BY <2>1, <2>2, <2>4 DEF Permalink
    <3>2. QED BY <2>1, <2>2, <2>4, <3>1, OnlyIs DEF PostAt, buildURL
  <2>5. QED BY <2>2, <2>3, <2>4
<1>2. CASE p \in PostOf("instagram", {"p", "reel", "tv"}, Id, {NoWord}, {NoWord})
  <2>1. p = one("instagram", p.kind, p.id, p.by, p.sub) /\ p.site = "instagram"
    BY <1>0, <1>2
  <2>2. p.kind \in {"p", "reel", "tv"} /\ p.by = NoWord /\ p.sub = NoWord
    BY <1>0, <1>2
  <2>3. Permalink(p) = buildURL("instagram.com", <<p.kind, p.id>>, TRUE, <<>>)
    BY <2>1, <2>2 DEF Permalink
  <2>4. QED BY <2>1, <2>2, <2>3 DEF PostAt, buildURL
<1>3. CASE p \in PostOf("x", {"status"}, Number, {NoWord}, {NoWord})
  <2>1. p = one("x", p.kind, p.id, p.by, p.sub) /\ p.site = "x"
    BY <1>0, <1>3
  <2>2. p.kind \in {"status"} /\ p.by = NoWord /\ p.sub = NoWord
    BY <1>0, <1>3
  <2>3. Permalink(p) = buildURL("x.com", <<"i", "web", "status", p.id>>, FALSE, <<>>)
    BY <2>1, <2>2 DEF Permalink
  <2>4. QED BY <2>1, <2>2, <2>3 DEF PostAt, buildURL
<1>4. CASE p \in PostOf("tiktok", {"video", "photo"}, Number, Folded(AtHandle), {NoWord})
  <2>1. p = one("tiktok", p.kind, p.id, p.by, p.sub) /\ p.site = "tiktok"
    BY <1>0, <1>4
  <2>2. p.kind \in {"video", "photo"} /\ p.sub = NoWord
    BY <1>0, <1>4
  <2>3. Permalink(p) = buildURL("tiktok.com", <<p.by, p.kind, p.id>>, FALSE, <<>>)
    BY <2>1, <2>2 DEF Permalink
  <2>4. QED BY <2>1, <2>2, <2>3 DEF PostAt, buildURL
<1>5. CASE p \in PostOf("reddit", {"post"}, Id, {NoWord}, {NoWord})
  <2>1. p = one("reddit", p.kind, p.id, p.by, p.sub) /\ p.site = "reddit"
    BY <1>0, <1>5
  <2>2. p.kind \in {"post"} /\ p.by = NoWord /\ p.sub = NoWord
    BY <1>0, <1>5
  <2>3. Permalink(p) = buildURL("reddit.com", <<"comments", p.id>>, TRUE, <<>>)
    BY <2>1, <2>2 DEF Permalink
  <2>4. QED BY <2>1, <2>2, <2>3 DEF PostAt, buildURL
<1>6. CASE p \in PostOf("reddit", {"comment"}, Id, {NoWord}, Id)
  <2>1. p = one("reddit", p.kind, p.id, p.by, p.sub) /\ p.site = "reddit"
    BY <1>0, <1>6
  <2>2. p.kind \in {"comment"} /\ p.by = NoWord
    BY <1>0, <1>6
  <2>3. Permalink(p) = buildURL("reddit.com", <<"comments", p.id, "comment", p.sub>>, TRUE, <<>>)
    BY <2>1, <2>2 DEF Permalink
  <2>4. QED BY <2>1, <2>2, <2>3 DEF PostAt, buildURL
<1>7. CASE p \in PostOf("bluesky", {"post"}, Id, Folded(Handle) \cup Did, {NoWord})
  <2>1. p = one("bluesky", p.kind, p.id, p.by, p.sub) /\ p.site = "bluesky"
    BY <1>0, <1>7
  <2>2. p.kind \in {"post"} /\ p.sub = NoWord
    BY <1>0, <1>7
  <2>3. Permalink(p) = buildURL("bsky.app", <<"profile", p.by, "post", p.id>>, FALSE, <<>>)
    BY <2>1, <2>2 DEF Permalink
  <2>4. QED BY <2>1, <2>2, <2>3 DEF PostAt, buildURL
<1>8. CASE p \in PostOf("vimeo", {"video"}, Number, {NoWord}, Number \cup Token \cup {NoWord})
  <2>1. p = one("vimeo", p.kind, p.id, p.by, p.sub) /\ p.site = "vimeo"
    BY <1>0, <1>8
  <2>2. p.kind \in {"video"} /\ p.by = NoWord
    BY <1>0, <1>8
  <2>3. CASE p.sub = NoWord
    <3>0. <<p.id>> \o <<>> = <<p.id>>
      OBVIOUS
    <3>1. Permalink(p) = buildURL("vimeo.com", <<p.id>>, FALSE, <<>>)
      BY <3>0, <2>1, <2>2, <2>3 DEF Permalink
    <3>2. QED BY <2>1, <2>2, <2>3, <3>1, OnlyIs DEF PostAt, buildURL
  <2>4. CASE p.sub # NoWord
    <3>0. <<p.id>> \o <<p.sub>> = <<p.id, p.sub>>
      BY JoinIs
    <3>1. Permalink(p) = buildURL("vimeo.com", <<p.id, p.sub>>, FALSE, <<>>)
      BY <3>0, <2>1, <2>2, <2>4 DEF Permalink
    <3>2. QED BY <2>1, <2>2, <2>4, <3>1, OnlyIs DEF PostAt, buildURL
  <2>5. QED BY <2>2, <2>3, <2>4
<1>9. CASE p \in PostOf("facebook", {"watch", "reel"}, Number, {NoWord}, {NoWord})
  <2>1. p = one("facebook", p.kind, p.id, p.by, p.sub) /\ p.site = "facebook"
    BY <1>0, <1>9
  <2>2. p.kind \in {"watch", "reel"} /\ p.by = NoWord /\ p.sub = NoWord
    BY <1>0, <1>9
  <2>3. CASE p.kind = "watch"
    <3>1. Permalink(p) = buildURL("facebook.com", <<"watch">>, TRUE, Only("v", p.id))
      BY <2>1, <2>2, <2>3 DEF Permalink
    <3>2. QED BY <2>1, <2>2, <2>3, <3>1, OnlyIs DEF PostAt, buildURL
  <2>4. CASE p.kind = "reel"
    <3>1. Permalink(p) = buildURL("facebook.com", <<"reel", p.id>>, TRUE, <<>>)
      BY <2>1, <2>2, <2>4 DEF Permalink
    <3>2. QED BY <2>1, <2>2, <2>4, <3>1, OnlyIs DEF PostAt, buildURL
  <2>5. QED BY <2>2, <2>3, <2>4
<1>10. CASE p \in PostOf("facebook", {"videos"}, Number, Folded(Handle), {NoWord})
  <2>1. p = one("facebook", p.kind, p.id, p.by, p.sub) /\ p.site = "facebook"
    BY <1>0, <1>10
  <2>2. p.kind \in {"videos"} /\ p.sub = NoWord
    BY <1>0, <1>10
  <2>3. Permalink(p) = buildURL("facebook.com", <<p.by, "videos", p.id>>, TRUE, <<>>)
    BY <2>1, <2>2 DEF Permalink
  <2>4. QED BY <2>1, <2>2, <2>3 DEF PostAt, buildURL
<1>11. CASE p \in PostOf("facebook_short", {"short"}, Id, {NoWord}, {NoWord})
  <2>1. p = one("facebook_short", p.kind, p.id, p.by, p.sub) /\ p.site = "facebook_short"
    BY <1>0, <1>11
  <2>2. p.kind \in {"short"} /\ p.by = NoWord /\ p.sub = NoWord
    BY <1>0, <1>11
  <2>3. Permalink(p) = buildURL("fb.watch", <<p.id>>, TRUE, <<>>)
    BY <2>1, <2>2 DEF Permalink
  <2>4. QED BY <2>1, <2>2, <2>3 DEF PostAt, buildURL
<1>12. QED BY <1>1, <1>2, <1>3, <1>4, <1>5, <1>6, <1>7, <1>8, <1>9, <1>10, <1>11 DEF Claimed

\* The identities that one post's captures have are URLs of that post.
LEMMA IdentitiesAre ==
  ASSUME NEW p \in Post, NEW link \in Identities[p]
  PROVE  link \in Submitted(p) /\ (p \in Claimed => link = Permalink(p))
<1>1. PICK s \in Spellings(p) : link = CanonicalizeArchiveURL(Shared(s, "https", FALSE, {}, NoWord))
  BY DEF Identities
<1>2. Shared(s, "https", FALSE, {}, NoWord) \in Submitted(p)
  BY BareIs
<1>3. CASE p \in Claimed
  BY <1>1, <1>2, <1>3, IdentityOf, PermalinkSubmitted
<1>4. CASE Unclaimed(p)
  <2>1. p \notin Claimed
    BY <1>2, <1>4, IdentityOf DEF Unclaimed
  <2>2. QED BY <1>1, <1>2, <1>4, <2>1 DEF Unclaimed
<1>5. QED BY <1>3, <1>4, PostAssumption

\* No other post has the identity.
LEMMA CarriedApart == Carried => PostsApart
<1> SUFFICES ASSUME Carried, NEW other \in Post \ {post}, CanonicalizeArchiveURL(url) \in Identities[other] PROVE FALSE
  BY DEF PostsApart
<1> DEFINE link == CanonicalizeArchiveURL(url)
<1>1. link \in Submitted(other) /\ (other \in Claimed => link = Permalink(other))
  BY IdentitiesAre
<1>2. CASE post \in Claimed /\ other \in Claimed
  <2>1. link = Permalink(post)
    BY <1>2, IdentityOf DEF Carried
  <2>2. QED BY <1>1, <1>2, <2>1, Recovered
<1>3. CASE post.site = "page" \/ other.site = "page"
  <2>1. link \in Submitted(post)
    <3>1. CASE post \in Claimed
      BY <3>1, IdentityOf, PermalinkSubmitted DEF Carried
    <3>2. CASE Unclaimed(post)
      BY <3>2 DEF Carried, Unclaimed
    <3>3. QED BY <3>1, <3>2, PostAssumption DEF Carried
  <2>2. Submitted(post) \cap Submitted(other) = {}
    BY <1>3, PostAssumption DEF Carried
  <2>3. QED BY <1>1, <2>1, <2>2
<1>4. QED BY <1>2, <1>3, PostAssumption DEF Carried, Unclaimed

(* Two posts have no identity in common, so that find-or-create never       *)
(* answers with the capture of another post: PostAt reads the whole post    *)
(* from its permalink.                                                       *)
THEOREM ApartKept == Spec => []PostsApart
<1>1. Spec => []Carried
  BY CarriedInit, CarriedNext, PTL DEF Spec
<1>2. QED BY <1>1, CarriedApart, PTL

---------------------------------------------------------------------------
(* Which archiver a URL is given to *)

\* A path has a run of one segment where it has the segment.
LEMMA SegmentIs ==
  ASSUME NEW u, NEW w, NEW S, u.path \in Seq(S)
  PROVE  HasSegments(u, <<w>>) <=> \E i \in DOMAIN u.path : u.path[i] = w
<1>1. ASSUME NEW i \in DOMAIN u.path PROVE (SubSeq(u.path, i, i) = <<w>>) <=> (u.path[i] = w)
  <2> DEFINE part == SubSeq(u.path, i, i)
             one == <<w>>
  <2>1. i \in 1 .. Len(u.path) /\ \A k \in i .. i : u.path[k] \in S
    OBVIOUS
  <2>2. part \in Seq(S) /\ Len(part) = 1 /\ part[1] = u.path[i]
    BY <2>1, SubSeqProperties
  <2>3. one \in Seq({w}) /\ Len(one) = 1 /\ one[1] = w
    OBVIOUS
  <2> HIDE DEF part, one
  <2>4. part = one => u.path[i] = w
    BY <2>2, <2>3
  <2>5. u.path[i] = w => part = one
    <3>1. part \in Seq(S \cup {w}) /\ one \in Seq(S \cup {w})
      BY <2>2, <2>3
    <3>2. QED BY <2>2, <2>3, <3>1, SeqEqual
  <2>6. QED BY <2>4, <2>5 DEF part, one
<1>2. Len(<<w>>) = 1
  OBVIOUS
<1>3. \A i \in DOMAIN u.path : i + Len(<<w>>) - 1 = i
  BY <1>2
<1>4. QED BY <1>1, <1>3 DEF HasSegments

\* The sites of gallery-dl, written out.
LEMMA GalleryIs ==
  ASSUME NEW u
  PROVE  IsGalleryDLURL(u) <=>
           \/ HostMatches(u.host, "instagram") /\ (HasSegments(u, <<"p">>) \/ HasSegments(u, <<"tv">>))
           \/ HostMatches(u.host, "tiktok") /\ HasSegments(u, <<"photo">>)
           \/ HostMatches(u.host, "twitter") /\ HasSegments(u, <<"status">>)
           \/ HostMatches(u.host, "x") /\ HasSegments(u, <<"status">>)
           \/ HostMatches(u.host, "pinterest") /\ HasSegments(u, <<"pin">>)
           \/ HostMatches(u.host, "reddit") /\ HasSegments(u, <<"comments">>)
           \/ HostMatches(u.host, "tumblr") /\ HasSegments(u, <<"post">>)
           \/ HostMatches(u.host, "bluesky") /\ HasSegments(u, <<"post">>)
           \/ HostMatches(u.host, "flickr") /\ HasSegments(u, <<"photos">>)
           \/ HostMatches(u.host, "imgur") /\ (\E w \in {"a", "gallery", "t"} : HasSegments(u, <<w>>))
           \/ HostMatches(u.host, "reddit_short") /\ u.path # <<>>
           \/ HostMatches(u.host, "facebook") /\ facebookPostShape(u)
BY DEF IsGalleryDLURL, galleryDLSites

\* The text of a URL mentions a video site only by its host.
LEMMA MentionedIs ==
  ASSUME NEW p, NEW u \in Submitted(p), NEW site \in VideoSites,
         "ref_url" \notin Junk(p.site), \A s \in Spellings(p) : Plain(s.query)
  PROVE  Mentions(u, site) <=> HostMatches(u.host, site)
<1>1. PICK s \in Spellings(p), dress \in Dress \ {"port"}, slash \in BOOLEAN, junk \in SUBSET Junk(p.site), ref \in RefHost \cup {NoWord} :
           /\ u = Shared(s, dress, slash, junk, ref)
           /\ u.host = s.host /\ u.path = s.path /\ u.dress # "port"
  BY SubmittedIs
<1> DEFINE J == [k \in junk |-> "junk"]
           R == IF ref = NoWord THEN <<>> ELSE Only("ref_url", ref)
<1>2. u.query = Also(Also(s.query, J), R)
  BY <1>1 DEF Shared
<1>3. "ref_url" \notin DOMAIN s.query
  <2>1. CASE s.query = <<>>
    BY <2>1
  <2>2. ASSUME NEW key \in {"v", "h"}, NEW x, s.query = Only(key, x) PROVE "ref_url" \notin DOMAIN s.query
    BY <2>2 DEF Only
  <2>3. QED BY <1>1, <2>1, <2>2 DEF Plain
<1>4. "ref_url" \notin DOMAIN J
  BY <1>1
<1>5. Get(R, "ref_url") = ref
  BY NothingIs, OnlyIs
<1> HIDE DEF J, R
<1>6. Get(u.query, "ref_url") = ref
  BY <1>2, <1>3, <1>4, <1>5 DEF Get, Also
<1>7. ref \notin Hosts[site]
  <2>1. NoWord \notin Hosts[site]
    BY DEF NoWord, VideoSites, Hosts
  <2>2. QED BY <1>1, <2>1, NamesAssumption
<1>8. ~HostMatches(ref, site)
  BY <1>7 DEF HostMatches
<1>9. QED BY <1>6, <1>8 DEF Mentions

\* No host is one of two sites.
LEMMA HomeIs ==
  ASSUME NEW host, NEW home \in {"youtube", "youtube_short", "instagram", "x", "twitter", "tiktok", "reddit", "reddit_short",
                                 "bluesky", "vimeo", "facebook", "facebook_short"}, host \in Hosts[home]
  PROVE  /\ HostMatches(host, home)
         /\ \A site \in DOMAIN Hosts \ {home} : ~HostMatches(host, site)
<1>1. CASE home = "youtube"
  BY <1>1 DEF HostMatches, Hosts
<1>2. CASE home = "youtube_short"
  BY <1>2 DEF HostMatches, Hosts
<1>3. CASE home = "instagram"
  BY <1>3 DEF HostMatches, Hosts
<1>4. CASE home = "x"
  BY <1>4 DEF HostMatches, Hosts
<1>5. CASE home = "twitter"
  BY <1>5 DEF HostMatches, Hosts
<1>6. CASE home = "tiktok"
  BY <1>6 DEF HostMatches, Hosts
<1>7. CASE home = "reddit"
  BY <1>7 DEF HostMatches, Hosts
<1>8. CASE home = "reddit_short"
  BY <1>8 DEF HostMatches, Hosts
<1>9. CASE home = "bluesky"
  BY <1>9 DEF HostMatches, Hosts
<1>10. CASE home = "vimeo"
  BY <1>10 DEF HostMatches, Hosts
<1>11. CASE home = "facebook"
  BY <1>11 DEF HostMatches, Hosts
<1>12. CASE home = "facebook_short"
  BY <1>12 DEF HostMatches, Hosts
<1>13. QED BY <1>1, <1>2, <1>3, <1>4, <1>5, <1>6, <1>7, <1>8, <1>9, <1>10, <1>11, <1>12

\* The host of a URL is one site's and the text mentions no video site besides.
Homed(u, home) ==
  /\ HostMatches(u.host, home)
  /\ \A site \in DOMAIN Hosts \ {home} : ~HostMatches(u.host, site)
  /\ \A site \in VideoSites : Mentions(u, site) <=> HostMatches(u.host, site)

\* The sites that have hosts, and those that the text of a URL is searched for.
LEMMA Sites ==
  /\ DOMAIN Hosts = {"youtube", "youtube_short", "instagram", "x", "twitter", "tiktok", "reddit", "reddit_short",
                     "bluesky", "vimeo", "facebook", "facebook_short", "pinterest", "flickr", "imgur", "tumblr",
                     "forge", "itch", "other"}
  /\ \A site \in VideoSites : site \in DOMAIN Hosts
BY DEF Hosts, VideoSites

\* Every page of YouTube and Vimeo is yt-dlp's.
LEMMA VideoHosts ==
  ASSUME NEW u, NEW home \in {"youtube", "youtube_short", "vimeo"}, Homed(u, home)
  PROVE  IsVideoURL(u) /\ ~IsGalleryDLURL(u)
<1>1. ~HostMatches(u.host, "instagram") /\ ~HostMatches(u.host, "tiktok") /\ ~Mentions(u, "instagram")
  BY Sites DEF Homed, VideoSites
<1>2. Mentions(u, home)
  BY DEF Homed, VideoSites
<1>3. ~IsGalleryDLURL(u)
  <2>1. \A site \in {"instagram", "tiktok", "twitter", "x", "pinterest", "reddit", "tumblr", "bluesky", "flickr",
                     "imgur", "reddit_short", "facebook"} : ~HostMatches(u.host, site)
    BY Sites DEF Homed
  <2>2. QED BY <2>1, GalleryIs
<1>4. QED BY <1>1, <1>2, <1>3 DEF IsVideoURL, IsInstagramPhotoPostURL, IsInstagramURL, IsTikTokPhotoPostURL

\* No page of these sites is yt-dlp's.
LEMMA GalleryHosts ==
  ASSUME NEW u, NEW home \in {"x", "twitter", "reddit", "reddit_short", "bluesky"}, Homed(u, home)
  PROVE  ~IsVideoURL(u)
<1>1. \A site \in {"youtube", "youtube_short", "vimeo", "instagram", "tiktok", "facebook", "facebook_short"} :
        ~HostMatches(u.host, site)
  BY Sites DEF Homed
<1>2. \A site \in VideoSites : ~Mentions(u, site)
  BY <1>1 DEF Homed, VideoSites
<1>3. u.host \notin {"vm.tiktok.com", "vt.tiktok.com"}
  BY <1>1 DEF HostMatches, Hosts
<1>4. ~IsInstagramURL(u) /\ ~IsTikTokURL(u) /\ ~IsFacebookURL(u)
  BY <1>1, <1>2, <1>3 DEF IsInstagramURL, IsTikTokURL, IsFacebookURL, VideoSites
<1>5. QED BY <1>2, <1>4 DEF IsVideoURL, VideoSites

\* A reel is yt-dlp's, another post gallery-dl's, whatever account is before it.
LEMMA InstagramRouted ==
  ASSUME NEW u, Homed(u, "instagram"), NEW id \in Id, NEW k \in {"p", "reel", "tv"},
         u.path = <<k, id>> \/ \E h \in Handle : u.path = <<h, k, id>>
  PROVE  (IsVideoURL(u) <=> k = "reel") /\ (IsGalleryDLURL(u) <=> k # "reel")
<1>0. id \notin {"p", "reel", "tv"} /\ \A h \in Handle : h \notin {"p", "reel", "tv"}
  BY IdsAre DEF Word, PathWord
<1>1. ASSUME NEW w \in {"p", "reel", "tv"} PROVE (Within(u, w) <=> k = w) /\ (HasSegments(u, <<w>>) <=> k = w)
  <2>1. CASE u.path = <<k, id>>
    <3>1. u.path \in Seq({k, id}) /\ Len(u.path) = 2 /\ DOMAIN u.path = 1 .. 2 /\ u.path[1] = k /\ u.path[2] = id
      BY <2>1
    <3>2. (\E i \in DOMAIN u.path : u.path[i] = w) <=> k = w
      BY <1>0, <3>1
    <3>3. Within(u, w) <=> k = w
      BY <1>0, <3>1 DEF Within
    <3>4. QED BY <3>1, <3>2, <3>3, SegmentIs
  <2>2. ASSUME NEW h \in Handle, u.path = <<h, k, id>>
        PROVE  (Within(u, w) <=> k = w) /\ (HasSegments(u, <<w>>) <=> k = w)
    <3>1. /\ u.path \in Seq({h, k, id}) /\ Len(u.path) = 3 /\ DOMAIN u.path = 1 .. 3
          /\ u.path[1] = h /\ u.path[2] = k /\ u.path[3] = id
      BY <2>2
    <3>2. (\E i \in DOMAIN u.path : u.path[i] = w) <=> k = w
      BY <1>0, <3>1
    <3>3. Within(u, w) <=> k = w
      BY <1>0, <3>1 DEF Within
    <3>4. QED BY <3>1, <3>2, <3>3, SegmentIs
  <2>3. QED BY <2>1, <2>2
<1>2. Mentions(u, "instagram") /\ HostMatches(u.host, "instagram")
  BY DEF Homed, VideoSites
<1>3. \A site \in {"youtube", "youtube_short", "vimeo", "tiktok", "facebook"} : ~Mentions(u, site) /\ ~HostMatches(u.host, site)
  BY Sites DEF Homed, VideoSites
<1>4. \A site \in {"twitter", "x", "pinterest", "reddit", "tumblr", "bluesky", "flickr", "imgur", "reddit_short",
                   "facebook_short"} : ~HostMatches(u.host, site)
  BY Sites DEF Homed
<1>5. IsInstagramURL(u) /\ (IsInstagramPhotoPostURL(u) <=> k # "reel")
  BY <1>1, <1>2 DEF IsInstagramURL, IsInstagramPhotoPostURL
<1>6. ~IsTikTokPhotoPostURL(u)
  BY <1>3 DEF IsTikTokPhotoPostURL
<1>7. IsVideoURL(u) <=> k = "reel"
  BY <1>5, <1>6 DEF IsVideoURL
<1>8. IsGalleryDLURL(u) <=> k # "reel"
  BY <1>1, <1>2, <1>3, <1>4, GalleryIs
<1>9. QED BY <1>7, <1>8

\* A video is yt-dlp's, a photo post gallery-dl's.
LEMMA TikTokRouted ==
  ASSUME NEW u, Homed(u, "tiktok"), NEW id \in Number, NEW kind \in {"video", "photo"}, NEW h \in AtHandle,
         u.path = <<h, kind, id>>
  PROVE  (IsVideoURL(u) <=> kind = "video") /\ (IsGalleryDLURL(u) <=> kind = "photo")
<1>0. {id, h} \cap {"video", "photo", "t"} = {}
  BY NamesAssumption DEF Id, Word, PathWord
<1>1. /\ u.path \in Seq({h, kind, id}) /\ Len(u.path) = 3 /\ DOMAIN u.path = 1 .. 3
      /\ u.path[1] = h /\ u.path[2] = kind /\ u.path[3] = id /\ u.path # <<>>
  OBVIOUS
<1>2. ASSUME NEW w \in {"video", "photo"}
      PROVE  (Within(u, w) <=> kind = w) /\ (HasSegments(u, <<w>>) <=> kind = w)
  <2>1. h # w /\ id # w
    BY <1>0
  <2>2. (\E i \in DOMAIN u.path : u.path[i] = w) <=> kind = w
    BY <1>1, <2>1
  <2>3. Within(u, w) <=> kind = w
    BY <1>1, <2>1 DEF Within
  <2>4. HasSegments(u, <<w>>) <=> \E i \in DOMAIN u.path : u.path[i] = w
    BY <1>1, SegmentIs
  <2>5. QED BY <2>2, <2>3, <2>4
<1>3. Mentions(u, "tiktok") /\ HostMatches(u.host, "tiktok") /\ ~Mentions(u, "instagram")
  BY Sites DEF Homed, VideoSites
<1>4. \A site \in {"instagram", "twitter", "x", "pinterest", "reddit", "tumblr", "bluesky", "flickr", "imgur", "reddit_short",
                   "facebook_short", "facebook", "youtube", "youtube_short", "vimeo"} : ~HostMatches(u.host, site)
  BY Sites DEF Homed
<1>5. HasSegments(u, <<"photo">>) <=> kind = "photo"
  BY <1>2
<1>6. IsTikTokPhotoPostURL(u) <=> kind = "photo"
  BY <1>2, <1>3 DEF IsTikTokPhotoPostURL
<1>7. ~IsInstagramURL(u) /\ ~IsInstagramPhotoPostURL(u) /\ (kind = "video" => IsTikTokURL(u))
  BY <1>2, <1>3 DEF IsInstagramPhotoPostURL, IsInstagramURL, IsTikTokURL
<1>8. IsVideoURL(u) <=> kind = "video"
  BY <1>6, <1>7 DEF IsVideoURL
<1>9. QED BY <1>3, <1>4, <1>5, <1>8, GalleryIs

\* Watch pages, reels and videos of Facebook are yt-dlp's, never gallery-dl's.
LEMMA FacebookRouted ==
  ASSUME NEW u, NEW id \in Id,
         \/ Homed(u, "facebook_short") /\ u.path = <<id>>
         \/ /\ Homed(u, "facebook")
            /\ \/ u.path = <<"watch">>
               \/ u.path = <<"reel", id>> \/ \E h \in Handle : u.path = <<h, "reel", id>>
               \/ \E h \in Handle : u.path = <<h, "videos", id>> \/ \E c \in Code : u.path = <<h, "videos", c, id>>,
         Get(u.query, "fbid") = NoWord
  PROVE  IsVideoURL(u) /\ ~IsGalleryDLURL(u)
<1>1. \A site \in {"instagram", "tiktok", "twitter", "x", "pinterest", "reddit", "tumblr", "bluesky", "flickr", "imgur",
                   "reddit_short"} : ~HostMatches(u.host, site)
  BY Sites DEF Homed
<1>2. ~Mentions(u, "instagram")
  BY <1>1 DEF Homed, VideoSites
<1>3. IsFacebookURL(u)
  <2>1. CASE Homed(u, "facebook_short")
    BY <2>1 DEF Homed, IsFacebookURL
  <2>2. CASE Homed(u, "facebook") /\ u.path = <<"watch">>
    <3>1. "watch" \in ToSet(u.path)
      BY <2>2 DEF ToSet
    <3>2. QED BY <2>2, <3>1 DEF Homed, VideoSites, IsFacebookURL
  <2>3. CASE Homed(u, "facebook") /\ (Within(u, "reel") \/ Within(u, "videos"))
    BY <2>3 DEF Homed, VideoSites, IsFacebookURL
  <2>4. u.path = <<"reel", id>> => Within(u, "reel")
    BY DEF Within
  <2>5. \A h \in Handle : u.path = <<h, "reel", id>> => Within(u, "reel")
    BY DEF Within
  <2>6. \A h \in Handle : /\ u.path = <<h, "videos", id>> => Within(u, "videos")
                          /\ \A c \in Code : u.path = <<h, "videos", c, id>> => Within(u, "videos")
    BY DEF Within
  <2>7. QED BY <2>1, <2>2, <2>3, <2>4, <2>5, <2>6
<1>4. ~(HostMatches(u.host, "facebook") /\ facebookPostShape(u))
  <2>1. CASE Homed(u, "facebook_short")
    BY <2>1, Sites DEF Homed
  <2>2. ASSUME Homed(u, "facebook") PROVE ~(Len(u.path) >= 3 /\ u.path[2] \in {"photos", "posts"})
    <3>0. id \notin {"photos", "posts"} /\ "reel" \notin {"photos", "posts"} /\ "videos" \notin {"photos", "posts"}
      BY IdsAre DEF Word, PathWord
    <3>1. ~Homed(u, "facebook_short")
      BY <2>2, Sites DEF Homed
    <3>2. \/ Len(u.path) = 1
          \/ Len(u.path) = 2
          \/ u.path[2] \in {"reel", "videos"}
      BY <3>1
    <3>3. QED BY <3>0, <3>2
  <2>3. QED BY <2>1, <2>2 DEF facebookPostShape
<1>5. ~IsGalleryDLURL(u)
  BY <1>1, <1>4, GalleryIs
<1>6. QED BY <1>1, <1>2, <1>3, <1>5 DEF IsVideoURL, IsInstagramPhotoPostURL, IsInstagramURL, IsTikTokPhotoPostURL

\* A spelling has no parameters but those that select the post.
LEMMA PlainIs ==
  ASSUME NEW p \in Claimed, NEW s \in Spellings(p)
  PROVE  Plain(s.query)
<1>1. p.site \in {"youtube", "instagram", "x", "tiktok", "reddit", "bluesky", "vimeo", "facebook", "facebook_short"}
  BY DEF Claimed, PostOf
<1>2. p.site = "reddit" => p.kind \in {"post", "comment"}
  BY DEF Claimed, PostOf
<1>3. p.site = "facebook" => p.kind \in {"watch", "reel", "videos"}
  BY DEF Claimed, PostOf
<1>4. CASE p.site = "youtube"
  BY <1>2, <1>3, <1>4 DEF Spellings, Spell, Plain
<1>5. CASE p.site = "instagram"
  BY <1>2, <1>3, <1>5 DEF Spellings, Spell, Plain
<1>6. CASE p.site = "x"
  BY <1>2, <1>3, <1>6 DEF Spellings, Spell, Plain
<1>7. CASE p.site = "tiktok"
  BY <1>2, <1>3, <1>7 DEF Spellings, Spell, Plain
<1>8. CASE p.site = "reddit"
  BY <1>2, <1>3, <1>8 DEF Spellings, Spell, Plain
<1>9. CASE p.site = "bluesky"
  BY <1>2, <1>3, <1>9 DEF Spellings, Spell, Plain
<1>10. CASE p.site = "vimeo"
  BY <1>2, <1>3, <1>10 DEF Spellings, Spell, Plain
<1>11. CASE p.site = "facebook"
  BY <1>2, <1>3, <1>11 DEF Spellings, Spell, Plain
<1>12. CASE p.site = "facebook_short"
  BY <1>2, <1>3, <1>12 DEF Spellings, Spell, Plain
<1>13. QED BY <1>1, <1>4, <1>5, <1>6, <1>7, <1>8, <1>9, <1>10, <1>11, <1>12

\* The host of a submitted URL of a claimed post is a host of one site.
LEMMA HomedIs ==
  ASSUME NEW p \in Claimed, NEW u \in Submitted(p),
         NEW home \in {"youtube", "youtube_short", "instagram", "x", "twitter", "tiktok", "reddit", "reddit_short",
                       "bluesky", "vimeo", "facebook", "facebook_short"}, u.host \in Hosts[home]
  PROVE  Homed(u, home)
<1>1. "ref_url" \notin Junk(p.site)
  BY DEF Junk
<1>2. \A site \in VideoSites : Mentions(u, site) <=> HostMatches(u.host, site)
  BY <1>1, PlainIs, MentionedIs
<1>3. QED BY <1>2, HomeIs DEF Homed

\* A query of a spelling has no photo's number in it.
LEMMA NoPhoto ==
  ASSUME NEW p \in Claimed, NEW u \in Submitted(p)
  PROVE  Get(u.query, "fbid") = NoWord
<1>1. PICK s \in Spellings(p), dress \in Dress \ {"port"}, slash \in BOOLEAN, junk \in SUBSET Junk(p.site), ref \in RefHost \cup {NoWord} :
           /\ u = Shared(s, dress, slash, junk, ref)
           /\ u.host = s.host /\ u.path = s.path /\ u.dress # "port"
  BY SubmittedIs
<1> DEFINE J == [k \in junk |-> "junk"]
           R == IF ref = NoWord THEN <<>> ELSE Only("ref_url", ref)
<1>2. u.query = Also(Also(s.query, J), R)
  BY <1>1 DEF Shared
<1>3. "fbid" \notin DOMAIN s.query
  <2>1. CASE s.query = <<>>
    BY <2>1
  <2>2. ASSUME NEW key \in {"v", "h"}, NEW x, s.query = Only(key, x) PROVE "fbid" \notin DOMAIN s.query
    BY <2>2 DEF Only
  <2>3. QED BY <1>1, <2>1, <2>2, PlainIs DEF Plain
<1>4. "fbid" \notin DOMAIN J /\ "fbid" \notin DOMAIN R
  <2>1. "fbid" \notin junk
    BY <1>1 DEF Junk
  <2>2. DOMAIN R \subseteq {"ref_url"}
    BY DEF Only
  <2>3. QED BY <2>1, <2>2
<1> HIDE DEF J, R
<1>5. QED BY <1>2, <1>3, <1>4 DEF Get, Also

\* Each post's URLs are claimed by the archiver that can fetch the post, and by no other.
LEMMA Routed ==
  ASSUME NEW p \in Claimed, NEW u \in Submitted(p), {"reels", "statuses", "video.php"} \cap ToSet(u.path) = {}
  PROVE  /\ IsVideoURL(u) <=> "yt-dlp" \in ToolOf(p)
         /\ IsGalleryDLURL(u) <=> "gallery-dl" \in ToolOf(p)
         /\ ToolOf(p) \in {{"yt-dlp"}, {"gallery-dl"}}
<1>0. PICK s \in Spellings(p) : u.host = s.host /\ u.path = s.path
  BY SubmittedIs
<1>1. \A i \in DOMAIN u.path : u.path[i] \notin {"reels", "statuses", "video.php"}
  BY DEF ToSet
<1>2. CASE p.site \in {"youtube", "vimeo"}
  <2>1. u.host \in {"youtube.com", "m.youtube.com", "youtu.be", "vimeo.com", "player.vimeo.com"}
    BY <1>0, <1>2 DEF Spellings, Spell
  <2>2. u.host \in Hosts["youtube"] \/ u.host \in Hosts["youtube_short"] \/ u.host \in Hosts["vimeo"]
    BY <2>1 DEF Hosts
  <2>3. IsVideoURL(u) /\ ~IsGalleryDLURL(u)
    BY <2>2, HomedIs, VideoHosts
  <2>4. ToolOf(p) = {"yt-dlp"}
    BY <1>2 DEF ToolOf
  <2>5. QED BY <2>3, <2>4
<1>3. CASE p \in PostOf("instagram", {"p", "reel", "tv"}, Id, {NoWord}, {NoWord})
  <2>0. p.site = "instagram" /\ p.kind \in {"p", "reel", "tv"} /\ p.id \in Id
    BY <1>3 DEF PostOf
  <2>1. /\ u.host \in {"instagram.com", "m.instagram.com"}
        /\ \E k \in {"p", "reel", "reels", "tv"} :
             /\ p.kind = IF k = "reels" THEN "reel" ELSE k
             /\ u.path = <<k, p.id>> \/ \E h \in Handle : u.path = <<h, k, p.id>>
    BY <1>0, <2>0 DEF Spellings, Spell
  <2>2. PICK k \in {"p", "reel", "reels", "tv"} :
             /\ p.kind = IF k = "reels" THEN "reel" ELSE k
             /\ u.path = <<k, p.id>> \/ \E h \in Handle : u.path = <<h, k, p.id>>
    BY <2>1
  <2>3. k # "reels" /\ k = p.kind
    <3>1. CASE u.path = <<k, p.id>>
      <4>1. u.path[1] = k /\ 1 \in DOMAIN u.path
        BY <3>1
      <4>2. QED BY <1>1, <2>2, <4>1
    <3>2. CASE \E h \in Handle : u.path = <<h, k, p.id>>
      <4>1. u.path[2] = k /\ 2 \in DOMAIN u.path
        BY <3>2
      <4>2. QED BY <1>1, <2>2, <4>1
    <3>3. QED BY <2>2, <3>1, <3>2
  <2>4. Homed(u, "instagram")
    BY <2>1, HomedIs, HostSets
  <2>5. (IsVideoURL(u) <=> p.kind = "reel") /\ (IsGalleryDLURL(u) <=> p.kind # "reel")
    BY <2>0, <2>2, <2>3, <2>4, InstagramRouted
  <2>6. ToolOf(p) = IF p.kind = "reel" THEN {"yt-dlp"} ELSE {"gallery-dl"}
    BY <2>0 DEF ToolOf
  <2>7. QED BY <2>5, <2>6
<1>4. CASE p \in PostOf("tiktok", {"video", "photo"}, Number, Folded(AtHandle), {NoWord})
  <2>0. p.site = "tiktok" /\ p.kind \in {"video", "photo"} /\ p.id \in Number /\ p.by \in Folded(AtHandle)
    BY <1>4 DEF PostOf
  <2>1. u.host \in {"tiktok.com", "m.tiktok.com"} /\ \E h \in Cased(p.by) : u.path = <<h, p.kind, p.id>>
    BY <1>0, <2>0 DEF Spellings, Spell
  <2>2. PICK h \in AtHandle : u.path = <<h, p.kind, p.id>>
    BY <2>0, <2>1, Folding
  <2>3. Homed(u, "tiktok")
    <3>1. u.host \in Hosts["tiktok"]
      BY <2>1 DEF Hosts
    <3>2. QED BY <3>1, HomedIs
  <2>4. (IsVideoURL(u) <=> p.kind = "video") /\ (IsGalleryDLURL(u) <=> p.kind = "photo")
    BY <2>0, <2>2, <2>3, TikTokRouted
  <2>5. ToolOf(p) = IF p.kind = "video" THEN {"yt-dlp"} ELSE {"gallery-dl"}
    BY <2>0 DEF ToolOf
  <2>6. QED BY <2>0, <2>4, <2>5
<1>5. CASE p.site \in {"x", "reddit", "bluesky"}
  <2>0. ToolOf(p) = {"gallery-dl"}
    BY <1>5 DEF ToolOf
  <2>1. ASSUME NEW home \in {"x", "twitter"}, Homed(u, home), HasSegments(u, <<"status">>) PROVE IsGalleryDLURL(u)
    BY <2>1, GalleryIs DEF Homed
  <2>2. Homed(u, "reddit") /\ HasSegments(u, <<"comments">>) => IsGalleryDLURL(u)
    BY GalleryIs DEF Homed
  <2>3. Homed(u, "reddit_short") /\ u.path # <<>> => IsGalleryDLURL(u)
    BY GalleryIs DEF Homed
  <2>4. Homed(u, "bluesky") /\ HasSegments(u, <<"post">>) => IsGalleryDLURL(u)
    BY GalleryIs DEF Homed
  <2>5. CASE p.site = "x"
    <3>1. /\ u.host \in {"x.com", "twitter.com", "mobile.twitter.com"}
          /\ \/ u.path = <<"i", "web", "status", p.id>>
             \/ \E h \in Handle, k \in {"status", "statuses"} :
                  u.path = <<h, k, p.id>> \/ \E n \in Number : u.path = <<h, k, p.id, "photo", n>>
      BY <1>0, <2>5 DEF Spellings, Spell
    <3>2. HasSegments(u, <<"status">>)
      <4>1. CASE u.path = <<"i", "web", "status", p.id>>
        <5>1. u.path \in Seq({"i", "web", "status", p.id}) /\ 3 \in DOMAIN u.path /\ u.path[3] = "status"
          BY <4>1
        <5>2. QED BY <5>1, SegmentIs
      <4>2. ASSUME NEW h \in Handle, NEW k \in {"status", "statuses"},
                   u.path = <<h, k, p.id>> \/ \E n \in Number : u.path = <<h, k, p.id, "photo", n>>
            PROVE  HasSegments(u, <<"status">>)
        <5>1. CASE u.path = <<h, k, p.id>>
          <6>1. u.path \in Seq({h, k, p.id}) /\ 2 \in DOMAIN u.path /\ u.path[2] = k
            BY <5>1
          <6>2. k = "status"
            BY <1>1, <6>1
          <6>3. QED BY <6>1, <6>2, SegmentIs
        <5>2. ASSUME NEW n \in Number, u.path = <<h, k, p.id, "photo", n>> PROVE HasSegments(u, <<"status">>)
          <6>1. u.path \in Seq({h, k, p.id, "photo", n}) /\ 2 \in DOMAIN u.path /\ u.path[2] = k
            BY <5>2
          <6>2. k = "status"
            BY <1>1, <6>1
          <6>3. QED BY <6>1, <6>2, SegmentIs
        <5>3. QED BY <4>2, <5>1, <5>2
      <4>3. QED BY <3>1, <4>1, <4>2
    <3>3. Homed(u, "x") \/ Homed(u, "twitter")
      BY <3>1, HomedIs, HostSets
    <3>4. QED BY <2>0, <2>1, <3>2, <3>3, GalleryHosts
  <2>6. CASE p.site = "reddit"
    <3>0. p.kind \in {"post", "comment"}
      BY <2>6 DEF Claimed, PostOf
    <3>1. \/ u.host = "redd.it" /\ u.path = <<p.id>>
          \/ /\ u.host \in {"reddit.com", "old.reddit.com"}
             /\ \/ u.path = <<"comments", p.id>> \/ \E d \in Code : u.path = <<"comments", p.id, d>>
                \/ \E c \in Code : u.path = <<"r", c, "comments", p.id>> \/ \E d \in Code : u.path = <<"r", c, "comments", p.id, d>>
                \/ \E slug \in Code \cup {"comment"} :
                     \/ u.path = <<"comments", p.id, slug, p.sub>>
                     \/ \E c \in Code : u.path = <<"r", c, "comments", p.id, slug, p.sub>>
      <4>1. CASE p.kind = "post"
        BY <1>0, <2>6, <4>1 DEF Spellings, Spell
      <4>2. CASE p.kind = "comment"
        BY <1>0, <2>6, <4>2 DEF Spellings, Spell
      <4>3. QED BY <3>0, <4>1, <4>2
    <3>2. CASE u.host = "redd.it"
      <4>1. Homed(u, "reddit_short")
        <5>1. u.host \in Hosts["reddit_short"]
          BY <3>2 DEF Hosts
        <5>2. QED BY <5>1, HomedIs
      <4>2. u.path # <<>>
        <5>1. "redd.it" \notin {"reddit.com", "old.reddit.com"}
          OBVIOUS
        <5>2. u.path = <<p.id>>
          BY <3>1, <3>2, <5>1, Zenon
        <5>3. QED BY <5>2
      <4>3. QED BY <2>0, <2>3, <4>1, <4>2, GalleryHosts
    <3>3. CASE u.host # "redd.it"
      <4>1. Homed(u, "reddit")
        BY <3>1, <3>3, HomedIs, HostSets
      <4>2. HasSegments(u, <<"comments">>)
        <5>1. ASSUME u.path = <<"comments", p.id>> PROVE HasSegments(u, <<"comments">>)
          <6>1. u.path \in Seq({"comments", p.id}) /\ 1 \in DOMAIN u.path /\ u.path[1] = "comments"
            BY <5>1
          <6>2. QED BY <6>1, SegmentIs
        <5>2. ASSUME NEW d, u.path = <<"comments", p.id, d>> PROVE HasSegments(u, <<"comments">>)
          <6>1. u.path \in Seq({"comments", p.id, d}) /\ 1 \in DOMAIN u.path /\ u.path[1] = "comments"
            BY <5>2
          <6>2. QED BY <6>1, SegmentIs
        <5>3. ASSUME NEW c, u.path = <<"r", c, "comments", p.id>> PROVE HasSegments(u, <<"comments">>)
          <6>1. u.path \in Seq({"r", c, "comments", p.id}) /\ 3 \in DOMAIN u.path /\ u.path[3] = "comments"
            BY <5>3
          <6>2. QED BY <6>1, SegmentIs
        <5>4. ASSUME NEW c, NEW d, u.path = <<"r", c, "comments", p.id, d>> PROVE HasSegments(u, <<"comments">>)
          <6>1. u.path \in Seq({"r", c, "comments", p.id, d}) /\ 3 \in DOMAIN u.path /\ u.path[3] = "comments"
            BY <5>4
          <6>2. QED BY <6>1, SegmentIs
        <5>5. ASSUME NEW slug, u.path = <<"comments", p.id, slug, p.sub>> PROVE HasSegments(u, <<"comments">>)
          <6>1. u.path \in Seq({"comments", p.id, slug, p.sub}) /\ 1 \in DOMAIN u.path /\ u.path[1] = "comments"
            BY <5>5
          <6>2. QED BY <6>1, SegmentIs
        <5>6. ASSUME NEW c, NEW slug, u.path = <<"r", c, "comments", p.id, slug, p.sub>> PROVE HasSegments(u, <<"comments">>)
          <6>1. u.path \in Seq({"r", c, "comments", p.id, slug, p.sub}) /\ 3 \in DOMAIN u.path /\ u.path[3] = "comments"
            BY <5>6
          <6>2. QED BY <6>1, SegmentIs
        <5>7. QED BY <3>1, <3>3, <5>1, <5>2, <5>3, <5>4, <5>5, <5>6
      <4>3. QED BY <2>0, <2>2, <4>1, <4>2, GalleryHosts
    <3>4. QED BY <3>2, <3>3
  <2>7. CASE p.site = "bluesky"
    <3>1. u.host = "bsky.app" /\ \E h : u.path = <<"profile", h, "post", p.id>>
      BY <1>0, <2>7 DEF Spellings, Spell
    <3>2. PICK h : u.path = <<"profile", h, "post", p.id>>
      BY <3>1
    <3>3. u.path \in Seq({"profile", h, "post", p.id}) /\ 3 \in DOMAIN u.path /\ u.path[3] = "post"
      BY <3>2
    <3>4. HasSegments(u, <<"post">>)
      BY <3>3, SegmentIs
    <3>5. Homed(u, "bluesky")
      BY <3>1, HomedIs, HostSets
    <3>6. QED BY <2>0, <2>4, <3>4, <3>5, GalleryHosts
  <2>8. QED BY <1>5, <2>5, <2>6, <2>7
<1>6. CASE p.site \in {"facebook", "facebook_short"}
  <2>0. ToolOf(p) = {"yt-dlp"} /\ p.id \in Id /\ (p.site = "facebook" => p.kind \in {"watch", "reel", "videos"})
        /\ (p.site = "facebook" /\ p.kind = "videos" => p.by \in Folded(Handle))
    <3>1. p.id \in Number \cup Id
      BY <1>6 DEF Claimed, PostOf
    <3>2. (p.site = "facebook" => p.kind \in {"watch", "reel", "videos"}) /\ (p.site = "facebook" /\ p.kind = "videos" => p.by \in Folded(Handle))
      BY <1>6 DEF Claimed, PostOf
    <3>3. QED BY <1>6, <3>1, <3>2 DEF ToolOf, Id
  <2>1. CASE p.site = "facebook_short"
    <3>1. u.host = "fb.watch" /\ u.path = <<p.id>>
      BY <1>0, <2>1 DEF Spellings, Spell
    <3>2. Homed(u, "facebook_short")
      BY <3>1, HomedIs, HostSets
    <3>3. QED BY <2>0, <3>1, <3>2, NoPhoto, FacebookRouted
  <2>2. CASE p.site = "facebook"
    <3>1. /\ u.host \in {"facebook.com", "m.facebook.com", "web.facebook.com"}
          /\ \/ u.path \in {<<"watch">>, <<"video.php">>}
             \/ u.path = <<"reel", p.id>> \/ \E h \in Handle : u.path = <<h, "reel", p.id>>
             \/ \E h \in Handle : u.path = <<h, "videos", p.id>> \/ \E c \in Code : u.path = <<h, "videos", c, p.id>>
      <4>1. CASE p.kind \in {"watch", "reel"}
        BY <1>0, <2>2, <4>1 DEF Spellings, Spell
      <4>2. CASE p.kind = "videos"
        <5>1. /\ u.host \in {"facebook.com", "m.facebook.com", "web.facebook.com"}
              /\ \E h \in Cased(p.by) : u.path = <<h, "videos", p.id>> \/ \E c \in Code : u.path = <<h, "videos", c, p.id>>
          BY <1>0, <2>2, <4>2 DEF Spellings, Spell
        <5>2. p.by \in Folded(Handle)
          BY <2>0, <2>2, <4>2
        <5>3. \A h \in Cased(p.by) : h \in Handle
          BY <5>2, Folding
        <5>4. QED BY <5>1, <5>3
      <4>3. QED BY <2>0, <2>2, <4>1, <4>2
    <3>2. u.path # <<"video.php">>
      <4>1. u.path = <<"video.php">> => 1 \in DOMAIN u.path /\ u.path[1] = "video.php"
        OBVIOUS
      <4>2. QED BY <1>1, <4>1
    <3>3. Homed(u, "facebook")
      BY <3>1, HomedIs, HostSets
    <3>4. QED BY <2>0, <3>1, <3>2, <3>3, NoPhoto, FacebookRouted
  <2>3. QED BY <1>6, <2>1, <2>2
<1>7. \/ p.site \in {"youtube", "vimeo", "x", "reddit", "bluesky", "facebook", "facebook_short"}
      \/ p \in PostOf("instagram", {"p", "reel", "tv"}, Id, {NoWord}, {NoWord})
      \/ p \in PostOf("tiktok", {"video", "photo"}, Number, Folded(AtHandle), {NoWord})
  BY DEF Claimed, PostOf
<1>8. QED BY <1>2, <1>3, <1>4, <1>5, <1>6, <1>7

\* The post's URLs get the post's archiver.
LEMMA CarriedTool == Carried => PostReachesItsTool
<1> SUFFICES ASSUME Carried, {"reels", "statuses", "video.php"} \cap ToSet(url.path) = {}
             PROVE  /\ MediaItems = ToolOf(post) \ (IF Hopeless THEN {"gallery-dl"} ELSE {})
                    /\ IsSocialMediaPostURL(url) = (ToolOf(post) # {})
  BY DEF PostReachesItsTool
<1>1. /\ IsVideoURL(url) <=> "yt-dlp" \in ToolOf(post)
      /\ IsGalleryDLURL(url) <=> "gallery-dl" \in ToolOf(post)
      /\ ToolOf(post) \subseteq {"yt-dlp", "gallery-dl"}
  <2>1. CASE post \in Claimed
    BY <2>1, Routed DEF Carried
  <2>2. CASE Unclaimed(post)
    <3>1. ToolOf(post) = post.tools
      BY <2>2 DEF Unclaimed, ToolOf
    <3>2. QED BY <2>2, <3>1 DEF Unclaimed, Carried
  <2>3. QED BY <2>1, <2>2, PostAssumption DEF Carried
<1>2. ShouldCreateGalleryDLItem(url) <=> IsGalleryDLURL(url) /\ ~Hopeless
  <2>1. config.cookies \in BOOLEAN /\ config.rescue \in {{}, LoginSites}
    BY DEF Carried
  <2>2. BrightDataCanRescue(url) <=> config.rescue = LoginSites /\ GalleryDLURLRequiresCookies(url)
    BY <2>1 DEF BrightDataCanRescue, GalleryDLURLRequiresCookies
  <2>3. LoginSites # {}
    BY DEF LoginSites
  <2>4. QED BY <2>1, <2>2, <2>3 DEF ShouldCreateGalleryDLItem, Hopeless
<1>3. MediaItems = (IF ShouldCreateGalleryDLItem(url) THEN {"gallery-dl"} ELSE {})
                     \cup (IF IsVideoURL(url) THEN {"yt-dlp"} ELSE {})
  BY DEF MediaItems, GetArchiveTypes
<1>4. MediaItems = ToolOf(post) \ (IF Hopeless THEN {"gallery-dl"} ELSE {})
  BY <1>1, <1>2, <1>3
<1>5. IsSocialMediaPostURL(url) = (ToolOf(post) # {})
  <2>1. IsSocialMediaPostURL(url) \in BOOLEAN
    BY DEF IsSocialMediaPostURL, IsVideoURL
  <2>2. IsSocialMediaPostURL(url) <=> ToolOf(post) # {}
    BY <1>1 DEF IsSocialMediaPostURL
  <2>3. QED BY <2>1, <2>2
<1>6. QED BY <1>4, <1>5

(* GetArchiveTypes gives every URL of a post the one media item of the      *)
(* archiver that can fetch it, unless nobody could log in, and the two      *)
(* classifiers (IsVideoURL, IsGalleryDLURL) never claim one post together.  *)
THEOREM ToolReached == Spec => []PostReachesItsTool
<1>1. Spec => []Carried
  BY CarriedInit, CarriedNext, PTL DEF Spec
<1>2. QED BY <1>1, CarriedTool, PTL
=============================================================================
