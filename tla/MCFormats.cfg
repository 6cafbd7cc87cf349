SPECIFICATION FormatsSpec
CONSTANTS
  Names = {"a", "b"}
  AttrNames = {"k"}
  Chars = {"<"}
  BufLen = 6
  MaxWork = 6
  MaxFails = 1
  None = None
  Garbage = Garbage
  ByteValues = 4
  PayloadMax = 3
  SendRoom = 12
  DataSizes = {1, 4, 7}
  MaxData = 9
  Communities <- MCCommunities
  Oids <- MCOids
  Ids <- MCIds
  DeviceValues <- MCOidValues
  MaxOids = 2
  MaxCut = 30
  BufSize = 4
  Pages <- MCPages
  ReadSizes = {1, 2, 5}
  MaxOpens = 2
  Keys = {"a", "b", "c"}
  Values = {"v1", "v2"}
  Urls <- MCUrls
  Texts <- MCTexts
INVARIANT TagsUnderstood
INVARIANT BytesUnderstood
INVARIANT HttpSound
PROPERTY ArrivesAtLast
CHECK_DEADLOCK FALSE
