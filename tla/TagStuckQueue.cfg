CONSTANTS
  TagIds = {x, y}
  Listed = {a}
  MaxEdits = 1
  MaxEvents = 1
  Overtaken = FALSE
SPECIFICATION TaggingSpec
PROPERTY QueueResolves
