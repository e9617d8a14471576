SPECIFICATION Spec
CONSTANTS
  canon = canon
  alt = alt
  other = other
  i1 = i1
  i2 = i2
  p1 = p1
  p2 = p2
  media = media
  page = page
  Url = {canon, alt}
  Canon <- TwoSpellings
  Hash <- Distinct
  Type = {media, page}
  Media = {media}
  Moves = {"coming", "failed"}
  Ask <- Mixed
  Instance = {i1}
  Request = {p1, p2}
  Host <- OneInstance
  MaxCap = 3
  Limit = 1
SYMMETRY OneInstanceSymmetry
INVARIANTS TypeOK FreshIsReused AliasesAreDirect JobsHaveItems
CHECK_DEADLOCK FALSE
