SPECIFICATION PostSpec
CONSTANTS
  Number = {"20", "21"}
  Code = {"c1", "c2"}
  Token = {"c1", "21"}
  Handle = {"a.b", "A.b"}
  AtHandle = {"@a.b", "@A.b", "@c1"}
  Did = {"did:plc:Ab", "did:plc:ab"}
  Lower <- Lowered
  RefHost = {"example.com"}
  Post <- Posts
  Pictures = 2
  MediaRows <- Rows
  Losses = 1
INVARIANTS FulfilledIsWhole RetryIsTaken CompletedIsShown
INVARIANTS IdentityIsPermalink PostsApart PostReachesItsTool FetchKeepsVideo
