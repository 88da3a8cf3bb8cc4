SPECIFICATION DataSpec
CONSTANTS
  t1 = t1
  t2 = t2
  n1 = n1
  Torrents <- TwoTorrents
  NoTorrent = NoTorrent
  Names <- OneName
  DeleteLoaded = TRUE
  TorrentFiles <- TwoFiles
  TorrentTrackers <- OneTracker
  Trackers <- TwoTrackers
  Texts <- SomeTexts
  Places <- SomePlaces
  MaxEdits = 2
  OldConfigs <- OldVersions
CONSTRAINT Bounded
INVARIANTS RowsSummarise CopyFindsFiles AddedSurvives NothingLost NoLeftovers
PROPERTIES RestartKeepsTorrent ToldOnce
ACTION_CONSTRAINT ThreadSteps
