SPECIFICATION Spec
CONSTANTS
    p1 = p1
    p2 = p2
    d1 = d1
    d2 = d2
    abs = abs
    dot = dot
    Process = {p1, p2}
    Dir = {d1, d2}
    Name = {abs, dot}
    At <- Means
    Unset = Unset
    Nobody = Nobody
INVARIANTS TypeOK OneWriter PidNamesRunner
