------------------------------ MODULE PostUrl ------------------------------
(***************************************************************************)
(* What a URL is to arker: the identity under which its captures are       *)
(* found again (CanonicalizeArchiveURL), the archive types it gets          *)
(* (GetArchiveTypes), and the page yt-dlp is pointed at (YtDlpFetchURL).   *)
(* A post travels: people share it under other hosts, shapes and           *)
(* parameters, and arker canonicalizes what it has stored again.           *)
(*                                                                         *)
(* Strings are abstract. A URL is a host without its "www.", a path of     *)
(* segments and a query; "dress" is what surrounds them: a fragment, a    *)
(* port (http is dressed as https, which the code never tells apart).      *)
(***************************************************************************)
EXTENDS Naturals, Sequences, SequencesExt

CONSTANTS
  Number,      \* numeric ids
  Code,        \* other ids, of letters, digits, - and _
  Token,       \* the ids long enough for a token of an unlisted Vimeo video
  Handle,      \* account names
  AtHandle,    \* "@" before an account name
  Did,         \* account names of Bluesky whose case counts
  Lower,       \* Lower[s] is s in lower case, where that is not s itself
  RefHost,     \* hosts a referrer parameter may mention
  Post         \* the posts that are shared

VARIABLES
  post,        \* the post the URL was taken from
  url,         \* its URL as submitted
  config       \* the server's media configuration
vars == <<post, url, config>>
-----------------------------------------------------------------------------
(* URLs. *)
Dress == {"https", "fragment", "port"}   \* port: not 80 or 443

\* Hosts of one registrable domain; hostMatches compares with the domain.
Hosts == [
  youtube |-> {"youtube.com", "m.youtube.com", "music.youtube.com"},
  youtube_short |-> {"youtu.be"},
  instagram |-> {"instagram.com", "m.instagram.com"},
  x |-> {"x.com", "mobile.x.com", "m.x.com"},
  twitter |-> {"twitter.com", "mobile.twitter.com", "m.twitter.com"},
  tiktok |-> {"tiktok.com", "m.tiktok.com", "vm.tiktok.com", "vt.tiktok.com"},
  reddit |-> {"reddit.com", "old.reddit.com", "new.reddit.com", "m.reddit.com", "np.reddit.com"},
  reddit_short |-> {"redd.it", "v.redd.it", "i.redd.it"},
  bluesky |-> {"bsky.app"},
  vimeo |-> {"vimeo.com", "player.vimeo.com"},
  facebook |-> {"facebook.com", "m.facebook.com", "web.facebook.com"},
  facebook_short |-> {"fb.watch"},
  pinterest |-> {"pinterest.com"},
  flickr |-> {"flickr.com"},
  imgur |-> {"imgur.com"},
  tumblr |-> {"tumblr.com", "someone.tumblr.com"},
  forge |-> {"github.com", "gitlab.com", "codeberg.org"},
  itch |-> {"someone.itch.io"},
  other |-> {"example.com"}]

HostMatches(host, site) == host \in Hosts[site]

PathWord == {"watch", "shorts", "live", "p", "reel", "reels", "tv", "i", "web", "status",
             "statuses", "photo", "video", "t", "r", "comments", "comment", "s", "profile",
             "post", "channels", "groups", "videos", "photos", "posts", "pin", "a", "gallery"}
isNumeric(s) == s \in Number
isIDLike(s) == s \in Number \cup Code \cup PathWord
isHandleLike(s) == isIDLike(s) \/ s \in Handle \cup Did
LowerCase(s) == IF s \in DOMAIN Lower THEN Lower[s] ELSE s

\* Queries are functions; NoWord is what an absent key, id or name reads as.
NoWord == "-"
Only(key, value) == [k \in {key} |-> value]
Also(query, more) == [k \in DOMAIN query \cup DOMAIN more |-> IF k \in DOMAIN query THEN query[k] ELSE more[k]]
Get(query, key) == IF key \in DOMAIN query THEN query[key] ELSE NoWord
Without(query, keys) == Restrict(query, DOMAIN query \ keys)

buildURL(host, path, slash, query) ==
  [host |-> host, dress |-> "https", path |-> path, slash |-> slash, query |-> query]
-----------------------------------------------------------------------------
(* CanonicalizeArchiveURL: one function per platform, each of which leaves *)
(* a shape that it does not claim as it is.                                *)
trackingParams == {"utm_source", "__tn__", "fbclid", "igsh", "ref_url", "share_id"}

dropParams(query, platform) == Without(query, trackingParams \cup platform)

\* mutant: shorts and live streams are folded into the watch page
canonicalYouTube_folded(u) ==
  IF Len(u.path) = 2 /\ u.path[1] \in {"shorts", "live"}
  THEN buildURL("youtube.com", <<"watch">>, FALSE, Only("v", u.path[2]))
  ELSE u

canonicalYouTube(u) ==
  LET q == dropParams(u.query, {"si", "feature", "t", "start", "end", "app", "pp"})
      path == u.path
  IN CASE /\ u.host = "youtu.be"
          /\ Len(path) = 1 /\ isIDLike(path[1]) ->
            buildURL("youtube.com", <<"watch">>, FALSE, Also(Only("v", path[1]), q))
       [] /\ u.host # "youtu.be"
          /\ path = <<"watch">> /\ isIDLike(Get(q, "v")) ->
            buildURL("youtube.com", path, FALSE, q)
       [] /\ u.host # "youtu.be"
          /\ Len(path) = 2 /\ path[1] \in {"shorts", "live"} /\ isIDLike(path[2]) ->
            buildURL("youtube.com", path, FALSE, q)
       [] OTHER -> u

canonicalInstagram(u) ==
  LET q == dropParams(u.query, {"igsh", "igshid", "share_url", "story_type"})
      i == SelectInSeq(u.path, LAMBDA s : s \in {"p", "reel", "reels", "tv"})
  IN IF i # 0 /\ i + 1 = Len(u.path) /\ isIDLike(u.path[i + 1])
     THEN LET kind == IF u.path[i] = "reels" THEN "reel" ELSE u.path[i]
          IN buildURL("instagram.com", <<kind, u.path[i + 1]>>, TRUE, q)
     ELSE u

canonicalTwitter(u) ==
  LET q == dropParams(u.query, {"s", "t", "cxt", "ref_component"})
      i == SelectInSeq(u.path, LAMBDA s : s \in {"status", "statuses"})
      rest == SubSeq(u.path, i + 2, Len(u.path))
      lightbox == Len(rest) = 2 /\ rest[1] \in {"photo", "video"} /\ isNumeric(rest[2])
  IN IF /\ i # 0 /\ i < Len(u.path) /\ isNumeric(u.path[i + 1])
        /\ rest = <<>> \/ lightbox
     THEN buildURL("x.com", <<"i", "web", "status", u.path[i + 1]>>, FALSE, q)
     ELSE u

\* mutant: the account name keeps its case
canonicalTikTok_cased(u) ==
  IF Len(u.path) = 3 /\ u.path[1] \in AtHandle
  THEN buildURL("tiktok.com", u.path, FALSE, <<>>)
  ELSE u

canonicalTikTok(u) ==
  LET q == dropParams(u.query, {"is_from_webapp", "sender_device", "web_id", "_t", "source", "q"})
  IN IF /\ Len(u.path) = 3
        /\ u.path[1] \in AtHandle /\ u.path[2] \in {"video", "photo"} /\ isNumeric(u.path[3])
     THEN buildURL("tiktok.com", [u.path EXCEPT ![1] = LowerCase(@)], FALSE, q)
     ELSE u

canonicalReddit(u) ==
  LET q == dropParams(u.query, {"ref", "context", "rdt", "share_source"})
      path == u.path
      \* the index of the post id, whatever names the subreddit before it
      at == CASE Len(path) >= 4 /\ path[1] = "r" /\ path[3] = "comments" -> 4
              [] Len(path) >= 2 /\ path[1] = "comments" -> 2
              [] OTHER -> 0
      rest == SubSeq(path, at + 1, Len(path))
      \* both permalink shapes have the comment id in one position
      comment == Len(rest) >= 2 /\ isIDLike(rest[2])
      page(p) == buildURL("reddit.com", p, TRUE, q)
  IN CASE u.host = "redd.it" ->
            IF Len(path) = 1 /\ isIDLike(path[1]) THEN page(<<"comments", path[1]>>) ELSE u
       [] u.host # "redd.it" /\ at # 0 /\ isIDLike(path[at]) /\ comment ->
            page(<<"comments", path[at], "comment", rest[2]>>)
       [] u.host # "redd.it" /\ at # 0 /\ isIDLike(path[at]) /\ Len(rest) <= 1 ->
            page(<<"comments", path[at]>>)
       [] OTHER -> u

\* A handle is a domain name; a DID keeps its case.
canonicalBluesky(u) ==
  LET q == dropParams(u.query, {})
      actor == IF u.path[2] \in Did THEN u.path[2] ELSE LowerCase(u.path[2])
  IN IF /\ Len(u.path) = 4 /\ u.path[1] = "profile" /\ u.path[3] = "post"
        /\ isHandleLike(actor) /\ isIDLike(u.path[4])
     THEN buildURL("bsky.app", [u.path EXCEPT ![2] = actor], FALSE, q)
     ELSE u

canonicalVimeo(u) ==
  LET q == dropParams(u.query, {"share", "autoplay", "loop", "title", "badge"})
      path == u.path
      player == u.host = "player.vimeo.com"
      at == CASE player -> IF Len(path) = 2 /\ path[1] = "video" THEN 2 ELSE 0
              [] ~player /\ Len(path) = 1 -> 1
              [] ~player /\ Len(path) = 2 -> IF isIDLike(path[2]) THEN 1 ELSE 0
              [] ~player /\ Len(path) = 3 -> IF path[1] = "channels" THEN 3 ELSE 0
              [] ~player /\ Len(path) = 4 -> IF path[1] = "groups" /\ path[3] = "videos" THEN 4 ELSE 0
              [] OTHER -> 0
      hash == CASE ~player /\ Len(path) = 2 -> <<path[2]>>
                [] (player \/ Len(path) # 2) /\ isIDLike(Get(q, "h")) -> <<Get(q, "h")>>
                [] OTHER -> <<>>
  IN IF at # 0 /\ isNumeric(path[at])
     THEN buildURL("vimeo.com", <<path[at]>> \o hash, FALSE, Without(q, {"h"}))
     ELSE u

canonicalFacebook(u) ==
  LET q == dropParams(u.query, {"mibextid", "rdid", "extid", "_rdr"})
      path == u.path
      n == Len(path)
      i == SelectInSubSeq(path, 2, n, LAMBDA s : s = "videos")
      page(p) == buildURL("facebook.com", p, TRUE, q)
  IN CASE u.host = "fb.watch" ->
            IF n = 1 /\ isIDLike(path[1]) THEN buildURL("fb.watch", path, TRUE, q) ELSE u
       [] u.host # "fb.watch" /\ n > 0 /\ path[1] \in {"watch", "video.php"} ->
            IF isNumeric(Get(q, "v")) THEN page(<<"watch">>) ELSE u
       [] /\ u.host # "fb.watch" /\ n > 1 /\ path[1] \notin {"watch", "video.php"}
          /\ path[n - 1] = "reel" /\ isNumeric(path[n]) -> page(<<"reel", path[n]>>)
       [] /\ u.host # "fb.watch" /\ n > 1 /\ path[1] \notin {"watch", "video.php"}
          /\ ~(path[n - 1] = "reel" /\ isNumeric(path[n]))
          /\ i # 0 /\ i < n /\ isNumeric(path[n]) /\ isHandleLike(LowerCase(path[1])) ->
            page(<<LowerCase(path[1]), "videos", path[n]>>)
       [] OTHER -> u

CanonicalizeArchiveURL(u) ==
  IF u.dress = "port" THEN u
  ELSE CASE u.host \in {"youtube.com", "m.youtube.com", "youtu.be"} -> canonicalYouTube(u)
         [] HostMatches(u.host, "instagram") -> canonicalInstagram(u)
         [] u.host \in Hosts.x \cup Hosts.twitter -> canonicalTwitter(u)
         [] u.host \in {"tiktok.com", "m.tiktok.com"} -> canonicalTikTok(u)
         [] u.host \in Hosts.reddit \cup {"redd.it"} -> canonicalReddit(u)
         [] HostMatches(u.host, "bluesky") -> canonicalBluesky(u)
         [] HostMatches(u.host, "vimeo") -> canonicalVimeo(u)
         [] u.host \in Hosts.facebook \cup Hosts.facebook_short -> canonicalFacebook(u)
         [] OTHER -> u
-----------------------------------------------------------------------------
(* Routing: which archive types a URL gets. Some tests of the code parse   *)
(* the URL (host and path), others search its whole text: Mentions and     *)
(* Within are the latter, and see the query and a slash after a segment.   *)
Mentions(u, site) ==
  HostMatches(u.host, site) \/ HostMatches(Get(u.query, "ref_url"), site)

Within(u, word) ==
  \E i \in DOMAIN u.path : u.path[i] = word /\ (i < Len(u.path) \/ u.slash)

\* A run of whole segments, as in a path that is given a slash at its end.
HasSegments(u, words) ==
  \E i \in DOMAIN u.path : SubSeq(u.path, i, i + Len(words) - 1) = words

IsInstagramURL(u) ==
  Mentions(u, "instagram") /\ \E word \in {"reel", "p", "tv"} : Within(u, word)

IsInstagramPhotoPostURL(u) ==
  IsInstagramURL(u) /\ \E word \in {"p", "tv"} : Within(u, word)

IsTikTokURL(u) ==
  \/ u.host \in {"vm.tiktok.com", "vt.tiktok.com"}
  \/ /\ Mentions(u, "tiktok")
     /\ Within(u, "video") \/ (u.path # <<>> /\ u.path[1] = "t" /\ Within(u, "t"))

IsTikTokPhotoPostURL(u) == HostMatches(u.host, "tiktok") /\ Within(u, "photo")

\* "/watch" is searched without a slash behind it.
IsFacebookURL(u) ==
  \/ HostMatches(u.host, "facebook_short")
  \/ /\ Mentions(u, "facebook")
     /\ \/ \E word \in {"reel", "videos"} : Within(u, word)
        \/ "watch" \in ToSet(u.path)

\* mutant: feed posts and photo posts are not excluded
IsVideoURL_photosToo(u) ==
  \/ \E site \in {"youtube", "youtube_short", "vimeo"} : Mentions(u, site)
  \/ IsInstagramURL(u) \/ IsTikTokURL(u) \/ IsFacebookURL(u)

IsVideoURL(u) ==
  /\ ~IsInstagramPhotoPostURL(u)
  /\ ~IsTikTokPhotoPostURL(u)
  /\ \/ \E site \in {"youtube", "youtube_short", "vimeo"} : Mentions(u, site)
     \/ IsInstagramURL(u) \/ IsTikTokURL(u) \/ IsFacebookURL(u)

\* One photo or post of Facebook, never the page that holds it.
facebookPostShape(u) ==
  \/ u.path # <<>> /\ u.path[1] \in {"photo", "photo.php"} /\ Get(u.query, "fbid") # NoWord
  \/ Len(u.path) >= 3 /\ u.path[2] \in {"photos", "posts"}

\* The sites sent to gallery-dl and the path shapes of one post on them.
galleryDLSites == [
  instagram |-> {<<"p">>, <<"tv">>}, tiktok |-> {<<"photo">>},
  twitter |-> {<<"status">>}, x |-> {<<"status">>}, pinterest |-> {<<"pin">>},
  reddit |-> {<<"comments">>}, tumblr |-> {<<"post">>}, bluesky |-> {<<"post">>},
  flickr |-> {<<"photos">>}, imgur |-> {<<"a">>, <<"gallery">>, <<"t">>}]

IsGalleryDLURL(u) ==
  \/ \E site \in DOMAIN galleryDLSites :
       HostMatches(u.host, site) /\ \E words \in galleryDLSites[site] : HasSegments(u, words)
  \/ HostMatches(u.host, "reddit_short") /\ u.path # <<>>
  \/ HostMatches(u.host, "facebook") /\ facebookPostShape(u)

LoginSites == {"instagram", "twitter", "x", "pinterest", "facebook"}
GalleryDLURLRequiresCookies(u) == \E site \in LoginSites : HostMatches(u.host, site)

\* What the configured Bright Data client says of a gallery item.
BrightDataCanRescue(u) == \E site \in config.rescue : HostMatches(u.host, site)

ShouldCreateGalleryDLItem(u) ==
  /\ IsGalleryDLURL(u)
  /\ \/ ~GalleryDLURLRequiresCookies(u)
     \/ config.cookies
     \/ BrightDataCanRescue(u)

IsSocialMediaPostURL(u) == IsVideoURL(u) \/ IsGalleryDLURL(u)

\* github.com/settings, /explore and the like name no repository; "settings"
\* stands for them. No modelled URL ends in .git or holds "git.", the marks by
\* which a repository is known anywhere else.
IsGitURL(u) == HostMatches(u.host, "forge") /\ Len(u.path) >= 2 /\ u.path[1] # "settings"

IsItchURL(u) == HostMatches(u.host, "itch")

GetArchiveTypes(u) ==
  {"mhtml", "screenshot"}
    \cup (IF IsItchURL(u) THEN {"itch"} ELSE {})
    \cup (IF ShouldCreateGalleryDLItem(u) THEN {"gallery-dl"} ELSE {})
    \cup (IF IsVideoURL(u) THEN {"yt-dlp"} ELSE {})
    \cup (IF IsGitURL(u) THEN {"git"} ELSE {})
-----------------------------------------------------------------------------
(* The page yt-dlp is pointed at: Vimeo's player instead of its pages.     *)
\* mutant: two numeric segments are not told from a container and its video
vimeoIDAndHash_last(path) ==
  LET at == SelectLastInSeq(path, LAMBDA s : isNumeric(s))
  IN IF at = 0 THEN <<NoWord, NoWord>>
     ELSE <<path[at], IF at < Len(path) /\ path[at + 1] \in Token THEN path[at + 1] ELSE NoWord>>

vimeoIDAndHash(path) ==
  LET at == SelectLastInSeq(path, LAMBDA s : isNumeric(s))
  IN CASE Len(path) = 2 /\ isNumeric(path[1]) /\ isNumeric(path[2]) -> <<path[1], path[2]>>
       [] OTHER ->
            IF at = 0 THEN <<NoWord, NoWord>>
            ELSE <<path[at], IF at < Len(path) /\ path[at + 1] \in Token THEN path[at + 1] ELSE NoWord>>

VimeoPlayerURL(u) ==
  LET found == vimeoIDAndHash(u.path)
      hash == IF found[2] # NoWord THEN found[2] ELSE Get(u.query, "h")
      query == IF hash = NoWord THEN <<>> ELSE Only("h", hash)
  IN IF \/ u.host # "vimeo.com"
        \/ u.path = <<>> \/ u.path[1] \in {"event", "ondemand"}
        \/ found[1] = NoWord
     THEN u
     ELSE buildURL("player.vimeo.com", <<"video", found[1]>>, FALSE, query)

YtDlpFetchURL(u) == VimeoPlayerURL(u)
-----------------------------------------------------------------------------
(* Posts and the ways they are written: what the platforms do, as the      *)
(* tables of canonical_url_test.go record it. A post of the site "page" is *)
(* one that arker claims no identity for.                                  *)
Cased(s) == {s} \cup {h \in DOMAIN Lower : Lower[h] = s}

Spell(hosts, paths, query) == [host : hosts, path : paths, query : {query}]

Spellings(p) ==
  CASE p.site = "youtube" /\ p.kind = "watch" ->
         Spell({"youtube.com", "m.youtube.com"}, {<<"watch">>}, Only("v", p.id))
           \cup Spell({"youtu.be"}, {<<p.id>>}, <<>>)
    [] p.site = "youtube" /\ p.kind # "watch" ->
         Spell({"youtube.com", "m.youtube.com"}, {<<p.kind, p.id>>}, <<>>)
    [] p.site = "instagram" ->
         Spell({"instagram.com", "m.instagram.com"},
               UNION {{<<k, p.id>>} \cup {<<h, k, p.id>> : h \in Handle} :
                      k \in IF p.kind = "reel" THEN {"reel", "reels"} ELSE {p.kind}}, <<>>)
    [] p.site = "x" ->
         Spell({"x.com", "twitter.com", "mobile.twitter.com"},
               {<<"i", "web", "status", p.id>>}
                 \cup UNION {{<<h, k, p.id>>} \cup {<<h, k, p.id, "photo", n>> : n \in Number} :
                             h \in Handle, k \in {"status", "statuses"}}, <<>>)
    [] p.site = "tiktok" ->
         Spell({"tiktok.com", "m.tiktok.com"}, {<<h, p.kind, p.id>> : h \in Cased(p.by)}, <<>>)
    [] p.site = "reddit" /\ p.kind = "post" ->
         Spell({"reddit.com", "old.reddit.com"},
               {<<"comments", p.id>>} \cup {<<"comments", p.id, slug>> : slug \in Code}
                 \cup UNION {{<<"r", c, "comments", p.id>>} \cup {<<"r", c, "comments", p.id, slug>> : slug \in Code} :
                             c \in Code}, <<>>)
           \cup Spell({"redd.it"}, {<<p.id>>}, <<>>)
    [] p.site = "reddit" /\ p.kind = "comment" ->
         Spell({"reddit.com", "old.reddit.com"},
               UNION {{<<"comments", p.id, slug, p.sub>>} \cup {<<"r", c, "comments", p.id, slug, p.sub>> : c \in Code} :
                      slug \in Code \cup {"comment"}}, <<>>)
    [] p.site = "bluesky" ->
         Spell({"bsky.app"},
               {<<"profile", h, "post", p.id>> : h \in IF p.by \in Did THEN {p.by} ELSE Cased(p.by)}, <<>>)
    [] p.site = "vimeo" /\ p.sub = NoWord ->
         Spell({"vimeo.com"}, {<<p.id>>} \cup {<<"channels", c, p.id>> : c \in Code}
                                \cup {<<"groups", c, "videos", p.id>> : c \in Code}, <<>>)
           \cup Spell({"player.vimeo.com"}, {<<"video", p.id>>}, <<>>)
    [] p.site = "vimeo" /\ p.sub # NoWord ->
         Spell({"vimeo.com"}, {<<p.id, p.sub>>}, <<>>)
           \cup Spell({"player.vimeo.com"}, {<<"video", p.id>>}, Only("h", p.sub))
    [] p.site = "facebook" /\ p.kind = "watch" ->
         Spell({"facebook.com", "m.facebook.com"}, {<<"watch">>, <<"video.php">>}, Only("v", p.id))
    [] p.site = "facebook" /\ p.kind = "reel" ->
         Spell({"facebook.com", "web.facebook.com"},
               {<<"reel", p.id>>} \cup {<<h, "reel", p.id>> : h \in Handle}, <<>>)
    [] p.site = "facebook" /\ p.kind = "videos" ->
         Spell({"facebook.com", "m.facebook.com"},
               UNION {{<<h, "videos", p.id>>} \cup {<<h, "videos", c, p.id>> : c \in Code} : h \in Cased(p.by)}, <<>>)
    [] p.site = "facebook_short" -> Spell({"fb.watch"}, {<<p.id>>}, <<>>)
    [] p.site = "page" -> Spell({p.host}, {p.path}, p.query)

\* The one spelling of a post that is its identity.
Permalink(p) ==
  CASE p.site = "youtube" /\ p.kind = "watch" -> buildURL("youtube.com", <<"watch">>, FALSE, Only("v", p.id))
    [] p.site = "youtube" /\ p.kind # "watch" -> buildURL("youtube.com", <<p.kind, p.id>>, FALSE, <<>>)
    [] p.site = "instagram" -> buildURL("instagram.com", <<p.kind, p.id>>, TRUE, <<>>)
    [] p.site = "x" -> buildURL("x.com", <<"i", "web", "status", p.id>>, FALSE, <<>>)
    [] p.site = "tiktok" -> buildURL("tiktok.com", <<p.by, p.kind, p.id>>, FALSE, <<>>)
    [] p.site = "reddit" /\ p.kind = "post" -> buildURL("reddit.com", <<"comments", p.id>>, TRUE, <<>>)
    [] p.site = "reddit" /\ p.kind = "comment" ->
         buildURL("reddit.com", <<"comments", p.id, "comment", p.sub>>, TRUE, <<>>)
    [] p.site = "bluesky" -> buildURL("bsky.app", <<"profile", p.by, "post", p.id>>, FALSE, <<>>)
    [] p.site = "vimeo" ->
         buildURL("vimeo.com", <<p.id>> \o (IF p.sub = NoWord THEN <<>> ELSE <<p.sub>>), FALSE, <<>>)
    [] p.site = "facebook" /\ p.kind = "watch" -> buildURL("facebook.com", <<"watch">>, TRUE, Only("v", p.id))
    [] p.site = "facebook" /\ p.kind = "reel" -> buildURL("facebook.com", <<"reel", p.id>>, TRUE, <<>>)
    [] p.site = "facebook" /\ p.kind = "videos" ->
         buildURL("facebook.com", <<p.by, "videos", p.id>>, TRUE, <<>>)
    [] p.site = "facebook_short" -> buildURL("fb.watch", <<p.id>>, TRUE, <<>>)

\* What share sheets append: nothing that selects a post.
Junk(site) ==
  CASE site = "youtube" -> {"si", "t", "utm_source"}
    [] site = "instagram" -> {"igsh", "utm_source"}
    [] site = "x" -> {"s", "t"}
    [] site = "tiktok" -> {"is_from_webapp"}
    [] site = "reddit" -> {"context", "utm_source"}
    [] site = "vimeo" -> {"share", "title"}
    [] site \in {"facebook", "facebook_short"} -> {"mibextid", "__tn__"}
    [] OTHER -> {"utm_source"}

Shared(s, dress, slash, junk, ref) ==
  [host |-> s.host, dress |-> dress, path |-> s.path, slash |-> slash,
   query |-> Also(Also(s.query, [key \in junk |-> "junk"]),
                  IF ref = NoWord THEN <<>> ELSE Only("ref_url", ref))]

Submitted(p) ==
  {Shared(s, dress, slash, junk, ref) :
     s \in Spellings(p), dress \in Dress \ {"port"}, slash \in BOOLEAN,
     junk \in {{}, Junk(p.site)} \cup {{key} : key \in Junk(p.site)}, ref \in RefHost \cup {NoWord}}

\* The posts arker claims an identity for. Account names are lower-case where
\* the site folds case.
PostOf(site, kinds, ids, bys, subs) == [site : {site}, kind : kinds, id : ids, by : bys, sub : subs]
Id == Number \cup Code
Folded(names) == names \ DOMAIN Lower
Claimed ==
  UNION {
    PostOf("youtube", {"watch", "shorts", "live"}, Id, {NoWord}, {NoWord}),
    PostOf("instagram", {"p", "reel", "tv"}, Id, {NoWord}, {NoWord}),
    PostOf("x", {"status"}, Number, {NoWord}, {NoWord}),
    PostOf("tiktok", {"video", "photo"}, Number, Folded(AtHandle), {NoWord}),
    PostOf("reddit", {"post"}, Id, {NoWord}, {NoWord}),
    PostOf("reddit", {"comment"}, Id, {NoWord}, Id),
    PostOf("bluesky", {"post"}, Id, Folded(Handle) \cup Did, {NoWord}),
    PostOf("vimeo", {"video"}, Number, {NoWord}, Number \cup Token \cup {NoWord}),
    PostOf("facebook", {"watch", "reel"}, Number, {NoWord}, {NoWord}),
    PostOf("facebook", {"videos"}, Number, Folded(Handle), {NoWord}),
    PostOf("facebook_short", {"short"}, Id, {NoWord}, {NoWord})}

\* Ids, account names and the words of paths are told apart by their letters;
\* folding the case of a name leaves a name of the same sort; and a referrer is
\* no video site (the router would take the link for one of that site's).
Word == PathWord \cup {"event", "ondemand", "video.php", NoWord}
VideoSites == {"youtube", "youtube_short", "vimeo", "instagram", "tiktok", "facebook"}
ASSUME NamesAssumption ==
  /\ Number \cap Code = {} /\ Token \subseteq Id /\ Handle \cap Did = {}
  /\ (Id \cup Handle \cup AtHandle) \cap Word = {}
  /\ \A s \in DOMAIN Lower : Lower[s] \notin DOMAIN Lower
  /\ \A names \in {Handle, AtHandle, Did}, s \in DOMAIN Lower : s \in names <=> Lower[s] \in names
  /\ \A site \in VideoSites : RefHost \cap Hosts[site] = {}

\* A post is one that is claimed, or a page that is not: of no identity but its
\* URL, with the media archivers that take it and with URLs of its own.
Unclaimed(p) ==
  /\ p.site = "page" /\ p.tools \subseteq {"yt-dlp", "gallery-dl"}
  /\ \A u \in Submitted(p) : /\ CanonicalizeArchiveURL(u) = u
                             /\ IsVideoURL(u) = ("yt-dlp" \in p.tools)
                             /\ IsGalleryDLURL(u) = ("gallery-dl" \in p.tools)
ASSUME PostAssumption ==
  /\ \A p \in Post : p \in Claimed \/ Unclaimed(p)
  /\ \A p, q \in Post : p.site = "page" /\ q # p => Submitted(p) \cap Submitted(q) = {}
-----------------------------------------------------------------------------
Init ==
  /\ post \in Post
  /\ url \in {Shared(s, "https", FALSE, {}, NoWord) : s \in Spellings(post)}
  /\ config \in [cookies : BOOLEAN, rescue : {{}, LoginSites}]

\* Somebody passes the post on in another spelling. Spellings are drawn for
\* the post, not made from one another, so one bare URL to start from is enough.
Share ==
  /\ url.dress = "https" /\ ~url.slash
  /\ url' \in Submitted(post)
  /\ UNCHANGED <<post, config>>

\* The stored identity is canonicalized again, by a lookup or a backfill.
Recanonicalize ==
  /\ url' = CanonicalizeArchiveURL(url)
  /\ UNCHANGED <<post, config>>

Next == Share \/ Recanonicalize
Spec == Init /\ [][Next]_vars
-----------------------------------------------------------------------------
(* Find-or-create finds a post again whatever its spelling: all spellings, *)
(* with any tracking parameters, and the identity itself when it is        *)
(* canonicalized again, have the post's permalink as their identity. What  *)
(* arker does not claim is left as it is.                                  *)
IdentityIsPermalink ==
  CanonicalizeArchiveURL(url) = IF post.site = "page" THEN url ELSE Permalink(post)

\* The identities under which the spellings of each post are archived.
Identities == [p \in Post |-> {CanonicalizeArchiveURL(Shared(s, "https", FALSE, {}, NoWord)) : s \in Spellings(p)}]

(* A request is never answered with the archive of another post: no        *)
(* spelling of another post, of the same id under another kind, or of a    *)
(* page beside the post has the same identity.                             *)
PostsApart == \A other \in Post \ {post} : CanonicalizeArchiveURL(url) \notin Identities[other]

\* The media archiver that can fetch a post of this kind.
ToolOf(p) ==
  CASE p.site \in {"youtube", "vimeo", "facebook", "facebook_short"} -> {"yt-dlp"}
    [] p.site = "instagram" -> IF p.kind = "reel" THEN {"yt-dlp"} ELSE {"gallery-dl"}
    [] p.site = "tiktok" -> IF p.kind = "video" THEN {"yt-dlp"} ELSE {"gallery-dl"}
    [] p.site \in {"x", "reddit", "bluesky"} -> {"gallery-dl"}
    [] p.site = "page" -> p.tools

Hopeless == GalleryDLURLRequiresCookies(url) /\ ~config.cookies /\ config.rescue = {}

MediaItems == GetArchiveTypes(url) \cap {"yt-dlp", "gallery-dl"}

(* Whatever the spelling, a post gets the one media item of the archiver   *)
(* that can fetch it, and no other that would archive it twice; only a     *)
(* gallery nobody could log in to gets none, and it is still recognized as *)
(* a post. The words that only the canonicalizer knows (reels, statuses,    *)
(* video.php) are left out: the router does not recognize them.            *)
PostReachesItsTool ==
  {"reels", "statuses", "video.php"} \cap ToSet(url.path) = {} =>
    /\ MediaItems = ToolOf(post) \ (IF Hopeless THEN {"gallery-dl"} ELSE {})
    /\ IsSocialMediaPostURL(url) = (ToolOf(post) # {})

(* yt-dlp is pointed at the same video, with the token of an unlisted one, *)
(* from every spelling, and from the identity.                             *)
FetchKeepsVideo ==
  post.site = "vimeo" =>
    LET fetched == YtDlpFetchURL(url)
    IN /\ fetched.host = "player.vimeo.com"
       /\ fetched.path = <<"video", post.id>>
       /\ Get(fetched.query, "h") = post.sub
=============================================================================
