SPECIFICATION HistorySpec
CONSTANTS
  Assets = {a1, a2, a3, a4, a5, a6}
  MaxSize = 3
INVARIANTS
  NoStaleToken
  SilentOnlyIfOvertaken
