SPECIFICATION Spec
CONSTANTS
    Songs = {1, 2, 3}
    Titles = {"a", "b"}
    Names = {"x", "y"}
    Dirs = {"in", "more"}
    DirOf <- MCDirOf
    TagOf <- MCTagOf
    NameOf <- MCNameOf
    SizeOf <- MCSizeOf
    Tracks = {1, 2, 3, 4, 5, 6, 7, 8}
    Albums = {1, 2, 3, 4, 5, 6}
    Workers = {"in", "more", "manager", "boot", "upload", "refresh"}
    Managers = {"manager"}
    Boot = "boot"
    Uploader = "upload"
    Refresher = "refresh"
    MaxActs = 3
    None = None
INVARIANT ApartOnlyByMishap
PROPERTIES SongsKept  Settles
