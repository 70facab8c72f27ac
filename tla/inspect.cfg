SPECIFICATION FairSpec
CONSTANTS
    p1 = p1
    p2 = p2
    word = word
    esc = esc
    odd = odd
    colon = colon
    scheme = scheme
    Bad = Bad
    Colon = {colon, scheme}
    Web = {scheme}
    Absent = Absent
    NoItem = NoItem
    NoMap = NoMap
    MaxChanges = 2
    RetryChoices <- Retried
    Name = {1, 2}
    MaxKeys = 1
    Path = {p1, p2}
    Entries <- OfPath
    Unreadable = {}
    Sample = 2
    Small = 6
    Sizes = {0, 1, 4, 5, 6, 7, 8, 9}
    Scanned <- ScannedMaps
    Edited <- EditedMaps
    Indexes <- SomeIndexes
    Unescape <- Unescaped
    ReadExec = 365
INVARIANTS NilMeansStored GivesUpRightly ScanExact VerifiedMeansBacked NoFalseAlarm SamplesApart HashCovers LoadedIsSaved NeverRefused ItemsOpen AllListed MountShowsIndex
PROPERTIES UploadReturns VerifyEnds
CHECK_DEADLOCK FALSE
