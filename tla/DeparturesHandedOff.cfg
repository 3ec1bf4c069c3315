SPECIFICATION Spec
CONSTANTS
  person1 = person1
  w1 = w1
  w2 = w2
  People <- MCPeople
  Workers <- MCWorkers
  Nobody = Nobody
  MaxRows = 2
  MaxDepartures = 1
  MaxLosses = 0
PROPERTIES
  HandedOffOnce
