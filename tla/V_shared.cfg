CONSTANTS
    i1 = i1  i2 = i2
    c1 = c1  c2 = c2  c3 = c3
    Items = {i1, i2}
    Components = {c1, c2, c3}
    ItemOf <- Owners
    First <- Firsts
    Size <- Sizes
    Allowance <- Allowances
    DerivedSize = 1
    Capacity = 6
    Blobs = {b1, b2, b3}
    Transfers = {t1, t2}
    Sessions = {s1}
    Drafts = {d1}
    Purgers = {p1, p2}
    Null = Null
    v1 = v1  v2 = v2  v3 = v3  v4 = v4
    empty = empty  x = x  y = y
    phone = phone  desktop = desktop
    Class = {phone, desktop}
    Content = {empty, x, y, v1, v2, v3, v4}
    Item = {i1, i2}
    ItemsOf <- MediaItems
    HistoryLimit = 2
    MaxMoments = 2
    MaxCommands = 5
    Scenes = {"choices"}
SPECIFICATION MCSpec
SYMMETRY Names
CHECK_DEADLOCK FALSE
INVARIANT CopiesAreSnapshotted
