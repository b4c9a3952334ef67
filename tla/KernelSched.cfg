SPECIFICATION TimingSpec
CONSTANTS
    first_task = first
    idle_task = idle
    OtherTasks = {a, b}
    None = none
    TASK_TIME_SLICE_DEFAULT = 2
    OS_TICKS_MS = 10
    UINT_MOD = 65536
    SleepMs = {5, 15}
    GDT_TABLE_SIZE = 7
    ClientMutexes = {}
    log_mutex = logm
    gdt_mutex = gdtm
    MaxLocked = 2
    SemId = {}
    InitCount <- NoUnits
    MaxCount = 1
    Calls = {"sleep", "log", "task_init", "sti"}
    Creators = {first}
INVARIANTS
    TypeOK NoTaskLost OnePlace RunningIsHead IrqDiscipline LogBalanced
    LogOwnerRunnable StateMatchesList SliceRunning SwitchSafe StackBounded TickAccounting
