SPECIFICATION FairSpec
CONSTANTS
  outer = outer inner = inner first = first second = second str = str str2 = str2
  y1 = y1 y2 = y2 y3 = y3 none = none end = end
  SourceEnd = end
  NoParent = none
  Scans = {first}
  Callers = {str, str2}
  Yields = {y1, y2, y3}
  Parent <- SharedParent
  Offers <- SharedOffers
  Workers = 1
INVARIANTS PermitsSound CleanReturn ReadAheadBounded
PROPERTIES StopIsFinal Returns
