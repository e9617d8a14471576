--------------------------- MODULE MCSocialPost ---------------------------
(* PostUrl and ArchiveResult for TLC, as a sum: a behaviour either spells   *)
(* and canonicalizes the URL of a post, of every claimed kind, or keeps one *)
(* URL and follows the capture made of it.                                  *)
EXTENDS ArchiveResult

VARIABLE part

Lowered == "A.b" :> "a.b" @@ "@A.b" :> "@a.b" @@ "did:plc:Ab" :> "did:plc:ab"

\* A page that is no single post, with the media archivers that claim it.
Page(host, path, query, tools) ==
  [site |-> "page", host |-> host, path |-> path, query |-> query, tools |-> tools]

Pages == {
  Page("example.com", <<"p", "c1">>, <<>>, {}),
  Page("example.com", <<"p", "c1">>, Only("list", "c1"), {}),
  Page("vm.tiktok.com", <<"c1">>, <<>>, {"yt-dlp"}),
  Page("reddit.com", <<"r", "c1", "s", "c1">>, <<>>, {}),
  Page("v.redd.it", <<"c1">>, <<>>, {"gallery-dl"}),
  Page("x.com", <<"c1">>, <<>>, {}),
  Page("facebook.com", <<"a.b", "photos">>, <<>>, {}),
  Page("facebook.com", <<"photo">>, Only("fbid", "20"), {"gallery-dl"}),
  Page("github.com", <<"c1", "c2">>, <<>>, {}),
  Page("someone.itch.io", <<"c1">>, <<>>, {})}

Posts ==
  UNION {
    PostOf("youtube", {"watch", "shorts", "live"}, {"c1"}, {NoWord}, {NoWord}),
    PostOf("instagram", {"p", "reel", "tv"}, {"c1"}, {NoWord}, {NoWord}),
    PostOf("x", {"status"}, {"20", "21"}, {NoWord}, {NoWord}),
    PostOf("tiktok", {"video", "photo"}, {"20"}, {"@a.b", "@c1"}, {NoWord}),
    PostOf("reddit", {"post"}, {"c1"}, {NoWord}, {NoWord}),
    PostOf("reddit", {"comment"}, {"c1"}, {NoWord}, {"c1", "c2"}),
    PostOf("bluesky", {"post"}, {"c1"}, {"a.b", "did:plc:Ab", "did:plc:ab"}, {NoWord}),
    PostOf("vimeo", {"video"}, {"20"}, {NoWord}, {NoWord, "c1", "21"}),
    PostOf("facebook", {"watch", "reel"}, {"20"}, {NoWord}, {NoWord}),
    PostOf("facebook", {"videos"}, {"20"}, {"a.b"}, {NoWord}),
    PostOf("facebook_short", {"short"}, {"c1"}, {NoWord}, {NoWord}),
    Pages}
Rows == {<<>>, <<"yt-dlp">>, <<"gallery-dl">>, <<"yt-dlp", "gallery-dl">>,
         <<"yt-dlp", "yt-dlp">>, <<"gallery-dl", "gallery-dl">>}
---------------------------------------------------------------------------
\* A video, and a gallery that some configurations leave without an item.
CapturedAs(p) ==
  \/ p.site = "youtube" /\ p.kind = "watch" /\ url.host = "youtu.be"
  \/ p.site = "x" /\ p.id = "20" /\ url.path[1] = "i" /\ url.host = "x.com" /\ config.rescue = {}

PostInit ==
  /\ part \in {"url", "result"}
  /\ Init
  /\ IF part = "result" THEN CapturedAs(post) /\ ResultInit /\ (Len(candidate) = 2 => config.cookies)
     ELSE assets = 1 /\ single = FALSE /\ candidate = <<>> /\ updatedAt = <<>> /\ gone = {} /\ plain = "open"

\* Bound: the credentials stay where there are two media items, and the page's
\* own items where a media type is asked for whatever the credentials.
PostNext ==
  \/ part = "url" /\ Next /\ UNCHANGED <<part, resultVars>>
  \/ part = "result" /\ ResultStep /\ UNCHANGED part
     /\ (Len(candidate) = 2 => UNCHANGED config)
     /\ (Len(candidate) = 2 \/ post.site = "youtube" => UNCHANGED plain)

PostSpec == PostInit /\ [][PostNext]_<<part, vars, resultVars>>
=============================================================================
