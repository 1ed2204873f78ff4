SPECIFICATION MCSpec
CONSTANTS
  Requests = {r1, r2}
  Categories = {front, roof, meter}
  SitePhotos = {front, roof, meter}
  MaxPhotos = 1
  MaxAttempts = 2
  MaxRows = 3
  Executives = {"ann", "bob"}
  Districts = {"east", "west"}
  Works <- MCWorks
  Managed = {"east"}
  Device = {"ann"}
  Viewers = {"manager"}
  Stock <- MCStock
  Filters <- MCFilters
  PageSize = 1
  HomeCap = 2
  MaxLeads = 3
  MaxChanges = 2
INVARIANTS
  VersionsAreSound
  SitePhotoOvershoot
  ScreensLagByDrift
  GapsAreCounted
PROPERTIES
  BlindActsWereRaced
CHECK_DEADLOCK FALSE
