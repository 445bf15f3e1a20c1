SPECIFICATION Spec
CONSTANTS
    SectorCount = 6
    DirectorySize = 2
    MaxLength = 2
    Reserved = {1, 2}
    TrackOf <- MCTrackOf
    Names <- MCNames
    a = a
    ab = ab
    emoji = emoji
    long = long
    LongNames = {long}
    Shown <- MCShown
    Hidden = Hidden
    Data = {x, y}
    Initial = x
    Contents <- MCContents
    x = x
    y = y
    MaxChanges = 2
    MaxAttempts = 1
    None = None
    Lost = Lost
    Ruined = Ruined
INVARIANT DiskIntact
PROPERTY FilesSpec
