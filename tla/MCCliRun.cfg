\* Two changes of files during a session.
CONSTANTS
    CommandLines <- MCCommandLines
    Environments <- MCEnvironments
    ConfigPaths = {"xdg", "named"}
    KeyPaths = {"k1", "k2"}
    ConfigContents <- MCConfigContents
    KeyContents <- MCKeyContents
    NotUrls = {"no-url"}
    NotHeaders = {"no-header"}
    MaxEdits = 2
SPECIFICATION MCSpec
INVARIANTS
    TypeOK
    OneVersionUsed
    ShownIsUsed
    ConflictRefused
    LaxKeyWarned
    NamedFileUsed
