SPECIFICATION MemorySpec
CONSTANTS
    UINT_MOD = 4096
    RAM_TOP = 512
    MEM_PAGE_SIZE = 16
    BOOT_RAM_REGION_MAX = 4
    SYS_KERNEL_ADDR = 128
    SectorWords = 32
    LoaderPageDir = 16
    MemoryMaps <- MCMemoryMaps
    Kernels <- MCKernels
    MEM_EBDA_START = 96
    MEM_EXT_START = 128
    MEM_EXT_END = 511
    MEMORY_TASK_BASE = 2048
    CONSOLE_DISP_ADDR = 112
    CONSOLE_DISP_END = 128
    CONSOLE_VIDEO_BASE = 112
INVARIANTS
    KernelIntact PoolInRam SelfMapped PanicOnlyShared
