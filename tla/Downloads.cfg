SPECIFICATION FairSpec
CONSTANTS
  Regular <- MCRegular
  Resources <- MCResources
  Chunks <- MCChunks
  Requirements = {{"layout"}, {"page"}}
  Sessions = {1, 2}
  MaxVersion = 2
  MaxTimestamp = 2
  MaxFaults = 3
INVARIANTS
  DownloadsTypeOK
  RegularFilesAreWhole
  ResourcesAreNew
PROPERTIES
  FilesArrive
  DownloadsCease
