SPECIFICATION Spec
CONSTANTS
  canon = canon
  alt = alt
  other = other
  i1 = i1
  i2 = i2
  p1 = p1
  p2 = p2
  media = media
  page = page
  Url = {canon, alt}
  Canon <- TwoSpellings
  Hash <- Distinct
  Type = {media, page}
  Media = {media}
  Moves = {"coming", "completed", "partial", "failed"}
  Ask <- DefaultsAndMedia
  Instance = {i1, i2}
  Request = {p1, p2}
  Host <- AcrossInstances
  MaxCap = 2
  Limit = 1
SYMMETRY AcrossSymmetry
INVARIANTS OneLiveCapture
CHECK_DEADLOCK FALSE
