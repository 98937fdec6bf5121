\* One document of eight nodes; three keys and two edits.
CONSTANTS
  Texts = {"1", "[1]", "x"}
  Long = "long"
  JSONOf <- Parses
  ViewW = 40
  ViewH = 10
  Kinds = {"string", "hash"}
  Docs <- OneDoc
  Terms = {"b", "1"}
  Names = {"a", "b"}
  Blank = ""
  CanFail = {"write"}
  MaxKeys = 3
  MaxEdits = 2
SPECIFICATION Spec
INVARIANTS PaneShowsServer OwnEditsSurvive CardsApart
PROPERTIES FindLandsOnMatch MoveShowsCard
CHECK_DEADLOCK FALSE
