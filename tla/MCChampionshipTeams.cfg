SPECIFICATION SeasonSpec
CONSTANTS
  Season <- MCSeason
  Klasses <- MCKlasses
  ResultsOf <- MCResultsOf
  Before <- MCBefore
  Champ <- MCChamp
  Teams = {"red", "blue"}
  PenaltyPoints = {0, 7}
  MaxEdits = 1
INVARIANTS PointsGoToATeam
CHECK_DEADLOCK FALSE
