SPECIFICATION FairSpec
CONSTANTS
    Jobs = {j1, j2}
    Kinds = {"research"}
    Providers = {p1}
    Slots = 1
    QueueLimit = 2
    MaxAwaits = 1
    None = None
PROPERTIES
    TasksEnd
    CancelsEnd
    SettingsReturn
