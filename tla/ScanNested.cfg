SPECIFICATION Spec
CONSTANTS
  outer = outer inner = inner first = first second = second str = str str2 = str2
  y1 = y1 y2 = y2 y3 = y3 none = none end = end
  SourceEnd = end
  NoParent = none
  Scans = {outer, inner}
  Callers = {}
  Yields = {y1, y2}
  Parent <- NestedParent
  Offers <- NestedOffers
  Workers = 2
INVARIANTS SlotsAccounted SendsSafe NilMeansComplete
PROPERTIES ImplementsContract
