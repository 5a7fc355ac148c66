CONSTANTS
    Dirs <- MCDirs
    Disk <- MCDisk
    Specs <- MCSpecs
    Broken <- MCBroken
    Entry = entry
    None = none
    MaxRequires = 4
    MaxDepth = 5
SPECIFICATION Spec
INVARIANTS CacheMatches DirStackMatches LoadedOnce ResolvesFromOwnDir
