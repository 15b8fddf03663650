SPECIFICATION FairSpec
CONSTANTS
  Sheets = {hiring, forecast}
  Switches = switches
  Nothing = Nothing
  OnServer = {hiring}
  Workbooks = {{hiring}, {hiring, forecast}}
  Refusable = {forecast}
  MaxEdits = 2
  MaxTroubles = 1
INVARIANT TypeOK
PROPERTIES UnseenIsKept PendingIsSent
