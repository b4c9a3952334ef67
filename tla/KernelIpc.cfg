SPECIFICATION Spec
CONSTANTS
    first_task = first
    idle_task = idle
    OtherTasks = {a, b}
    None = none
    TASK_TIME_SLICE_DEFAULT = 1
    OS_TICKS_MS = 10
    UINT_MOD = 65536
    SleepMs = {5}
    GDT_TABLE_SIZE = 7
    ClientMutexes = {m}
    log_mutex = logm
    gdt_mutex = gdtm
    MaxLocked = 2
    SemId = {s}
    InitCount <- NoUnits
    MaxCount = 1
    Calls = {"mutex", "sem", "log", "task_init", "sti", "yield", "sleep"}
    Creators = {first}
SYMMETRY TaskSymmetry
INVARIANTS
    IInv MutexConsistent SemNoLostUnit
PROPERTIES
    ImplementsSync

