SPECIFICATION Spec
CONSTANTS
    x1 = x1
    x2 = x2
    x3 = x3
    r1 = r1
    Reader = {r1}
    Chunk = {x1, x2, x3}
    Needed = {x1, x2}
    Pack = {1, 2, 3}
    Holds <- Repack
    Blob = {1, 2, 3}
    FirstPack = 2
    FirstBlob = 2
    Modes = {"cached"}
    NoFile = NoFile
    NoChunk = NoChunk
INVARIANTS SupersededIgnored
