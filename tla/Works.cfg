CONSTANTS
    w1 = w1  w2 = w2  d1 = d1  s1 = s1
    r1 = r1  r2 = r2  e1 = e1
    i1 = i1
    text = text  photo = photo
    Works = {w1, w2}
    Drafts = {d1}
    Sessions = {s1}
    Requests = {r1, r2}
    Contents = {text, photo}
    Items = {i1}
    ItemsOf <- Media
    HistoryLimit = 1
    MaxVersion = 4
    TotalVersion <- ServerAndEditor
    Null = Null
    Editors = {e1}
SPECIFICATION MCSpec
SYMMETRY Symmetric
CHECK_DEADLOCK FALSE
INVARIANT ConfirmedIsSubmitted PublicAndPendingAreCurrent SubmittedOnce StoredInputIsKept MediaStaysWithItsWork NoEditIsOverwritten
PROPERTY DecisionsAreOnWhatWasRead
