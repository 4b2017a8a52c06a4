SPECIFICATION FairSpec
CONSTANTS
    a = a
    c = c
    v1 = v1
    v2 = v2
    p1 = p1
    oheco = oheco
    Package = {a, oheco}
    Version = {v1, v2}
    Command = {c}
    Dir <- DirTwo
    Provides <- ProvidesTwo
    WithLauncher <- LauncherTwo
    Client = oheco
    NoVersion = NoVersion
    Plain = Plain
    Process = {p1}
    InitialSchema = 2
    NoTx = NoTx
    NoBackup = NoBackup
    NoOp = NoOp
    NoLock = NoLock
    Foreign = Foreign
    Gone = Gone
    MaxFaults = 2
INVARIANTS
    NoDanglingLink
    FilesKept
PROPERTIES
    UserFilesKept
    SuccessIsComplete
    AtomicSpec
    Recovers
