CONSTANTS
    like1 = like1  like2 = like2  comment = comment
    Actions = {like1, like2, comment}
    Readers = {1, 2}
    To <- Recipients
    GroupOf <- Groups
    Workers = {w1, w2}
    PageSize = 1
    MaxAttempts = 2
    MaxGenerations = 2
    Nobody = Nobody
    Interactions = {i1, i2}
    Grants = {g1, g2}
    Requests = {q1, q2}
    MaxTickets = 2
    MaxVersion = 3
    MaxTries = 2
    None = None
    writer = writer  viewer = viewer
    Accounts = {writer, viewer}
    RequestIds = {1, 2, 3, 4, 5, 6}
    Calls = {1, 2}
    Reads = {1, 2}
    Window = 1
    MaxMessages = 3
    NoCommand = NoCommand
    Scenes = {"reading", "waking", "connecting", "talking", "viewing"}
SPECIFICATION MCSpec
SYMMETRY Symmetric
CHECK_DEADLOCK FALSE
INVARIANT UnseenStaysUnread NoWakeUpIsLost DisconnectIsFinal AuthorizedByDecision SendsActOnce HiddenUntilSomethingNew MarkersWereGiven
