SPECIFICATION Spec
CONSTANTS
  Capacity = 3
  ScriptMax = 20
  Fuel = 8

  
  
  
PROPERTIES
  ParserAdvances
  ScopesKept
CHECK_DEADLOCK FALSE
