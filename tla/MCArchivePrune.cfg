SPECIFICATION ArchiveSpec
CONSTANTS
  group = group
  name = name
  aged = aged
  undated = undated
  Keys = {aged, undated}
  LegacyKeys = {undated}
  DateOf <- MCDateOf
  Addresses = {group}
  Names = {name}
  HomeOf <- MCHomeOf
  Titles = {lunch}
  Words = {words}
  Drafts = {draft}
  Nicknames = {nick}
  NoArc = NoArc
  NoKey = NoKey
  Undated = Undated
  NoWindow = NoWindow
  Policies <- MCPolicies
  MaxNow = 1
  NoteWeight = 3
  MaxId = 2
  MaxLoad = 4
INVARIANT PruneNeverRefused
CHECK_DEADLOCK FALSE
