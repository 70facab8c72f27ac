SPECIFICATION Spec
CONSTANTS
    k1 = k1
    k2 = k2
    f1 = f1
    f2 = f2
    f3 = f3
    s1 = s1
    root = root
    outer = outer
    inner = inner
    Chunk = {k1, k2}
    Misnamed = {k2}
    File = {f1, f2, f3}
    KeyOf <- Shared
    AttrOf <- Attrs
    Symlink = {s1}
    Dir = {root, outer, inner}
    DirMode <- ReadOnlyInner
    Above <- Nested
    ParentOf <- InOuter
    Mode = {"ro", "rw", "wo"}
    Writable = {"rw", "wo"}
    Readable = {"ro", "rw"}
    NewMode = "rw"
    MaxRetries = 2
    None = None
PROPERTIES FileAttrsPreserved
