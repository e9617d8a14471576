SPECIFICATION FairSpec
CONSTANTS
  canon = canon
  alt = alt
  other = other
  i1 = i1
  i2 = i2
  p1 = p1
  p2 = p2
  media = media
  page = page
  Url = {canon, other}
  Canon <- TwoSpellings
  Hash <- Colliding
  Type = {media}
  Media = {media}
  Moves = {"coming", "completed", "failed"}
  Ask <- Plain
  Instance = {i1}
  Request = {p1, p2}
  Host <- OneInstance
  MaxCap = 2
  Limit = 1
PROPERTIES RequestsEnd
CHECK_DEADLOCK FALSE
