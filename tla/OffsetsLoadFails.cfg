SPECIFICATION Spec
CONSTANTS
  Rate = 1
  UptimeRate = 1
  FirstWindow = 2
  MinWindow = 1
  MaxWindow = 2
  MaxCount = 2
  MaxUptime = 1
  MaxIncarnation = 2
  MaxTotal = 4
  MaxAge = 2
  MaxFaults = 1
  LoadFails = TRUE
PROPERTY FlushedStays
