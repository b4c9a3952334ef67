------------------------------- MODULE Memory -------------------------------
(***************************************************************************)
(* The kernel's memory management (core/memory.c) on the machine that the  *)
(* loader has set up: memory_init makes the pool of physical pages from    *)
(* the regions the loader found and puts the pool's bitmap behind the      *)
(* kernel; create_kernel_table maps the kernel; memory_create_uvm and      *)
(* memory_destroy_uvm make and free the page directories of processes.     *)
(*                                                                         *)
(* One task works here at a time (the allocator's mutex and its users are  *)
(* in PageAlloc), and paging is that of the loader throughout.  find_pte   *)
(* is called but defined nowhere in the repository; like the directories,  *)
(* its tables come from paddr_alloc, to which memory_destroy_uvm frees     *)
(* them.  The CONSOLE_ addresses are not defined either: parameters.       *)
(***************************************************************************)
EXTENDS Loader

CONSTANTS
    MEM_EBDA_START, MEM_EXT_START, MEM_EXT_END, MEMORY_TASK_BASE,
    CONSOLE_DISP_ADDR, CONSOLE_DISP_END, CONSOLE_VIDEO_BASE

\* The order of the fixed addresses: the EBDA, the video memory, 1 MB; the flags of an
\* entry are below the address in it; the pool's first page is in the first 4 MB and in
\* the memory that is modelled.
ASSUME AddressAssumption ==
    /\ MEM_PAGE_SIZE \in Nat /\ MEM_PAGE_SIZE > PTE_P + PTE_W + PDE_PS
    /\ {MEM_EBDA_START, CONSOLE_DISP_ADDR, CONSOLE_DISP_END, MEM_EXT_START, MEM_EXT_END}
          \subseteq Nat \ {0}
    /\ MEM_EBDA_START <= CONSOLE_DISP_ADDR
    /\ CONSOLE_DISP_ADDR <= CONSOLE_DISP_END
    /\ CONSOLE_DISP_END <= MEM_EXT_START
    /\ MEM_EBDA_START % MEM_PAGE_SIZE = 0 /\ MEM_EXT_START % MEM_PAGE_SIZE = 0
    /\ MEM_EXT_START + MEM_PAGE_SIZE <= MEM_PAGE_SIZE * MEM_PAGE_SIZE
    /\ MEM_EXT_START + MEM_PAGE_SIZE <= RAM_TOP

\* A program header.
Phdr == [load : BOOLEAN, p_offset : Nat, p_paddr : Nat, p_filesz : Nat, p_memsz : Nat]

\* How kernel.lds lays the kernel out: behind the loader and below where the file is
\* read to, its segments one behind the other between s_text and mem_free_start, and
\* kernel_page_dir, which has no initial value, in the part that is not in the file.
ASSUME LayoutAssumption ==
    \A k \in Kernels :
        /\ k.phdr \in Seq(Phdr) /\ Len(k.words) \in Nat
        /\ {LoaderPageDir, SYS_KERNEL_ADDR, k.s_text, k.e_text, k.kernel_page_dir,
            k.mem_free_start} \subseteq Nat
        /\ LoaderPageDir < k.s_text /\ k.s_text % MEM_PAGE_SIZE = 0
        /\ k.s_text <= k.e_text /\ k.e_text <= k.mem_free_start
        /\ k.mem_free_start <= SYS_KERNEL_ADDR
        /\ SYS_KERNEL_ADDR + Len(k.words) <= RAM_TOP
        /\ \A i \in DOMAIN k.phdr : k.phdr[i].load =>
              /\ k.s_text <= k.phdr[i].p_paddr
              /\ k.phdr[i].p_paddr + k.phdr[i].p_memsz <= k.mem_free_start
              /\ k.phdr[i].p_offset + k.phdr[i].p_filesz <= Len(k.words)
              /\ \A j \in DOMAIN k.phdr : k.phdr[j].load /\ i # j =>
                    \/ k.phdr[i].p_paddr + k.phdr[i].p_memsz <= k.phdr[j].p_paddr
                    \/ k.phdr[j].p_paddr + k.phdr[j].p_memsz <= k.phdr[i].p_paddr
        /\ \E i \in DOMAIN k.phdr :
              /\ k.phdr[i].load
              /\ k.phdr[i].p_paddr + k.phdr[i].p_filesz <= k.kernel_page_dir
              /\ k.kernel_page_dir + MEM_PAGE_SIZE <= k.phdr[i].p_paddr + k.phdr[i].p_memsz

\* An answer of the BIOS.
SmapEntry == [base : Nat, length : Nat, type : Nat]

\* The BIOS knows at least one region, and reports RAM in ascending order.
ASSUME MemoryMapAssumption ==
    /\ BOOT_RAM_REGION_MAX \in Nat \ {0}
    /\ \A m \in MemoryMaps :
          /\ m \in Seq(SmapEntry) /\ m # <<>>
          /\ \A i, j \in DOMAIN m : i < j /\ m[i].type = 1 /\ m[j].type = 1 =>
                m[i].base + m[i].length <= m[j].base

VARIABLES
    paddr_alloc,     \* [start, size, bits]: the pool, and the address of its bitmap
    search_idx,      \* the static variable of bitmap_alloc_nbits
    map_idx,         \* the region of kernel_map and
    map_page,        \* the page of it that create_kernel_table maps next
    dirs             \* the directories of processes

memoryVars == <<paddr_alloc, search_idx, map_idx, map_page, dirs>>
vars == <<loaderVars, memoryVars>>

NoPool == [start |-> 0, size |-> 0, bits |-> 0]

-----------------------------------------------------------------------------
(* Arithmetic: klib.h, mmu.h and bitmap.c.                                 *)

down2(size, bound) == size - (size % bound)

\* Mutant: a size that is a multiple of bound already is rounded up, too.
Mutant_up2(size, bound) == down2((size + bound) % UINT_MOD, bound)

up2(size, bound) == down2((size + bound - 1) % UINT_MOD, bound)

pde_index(vaddr) == vaddr \div (MEM_PAGE_SIZE * MEM_PAGE_SIZE)
pte_index(vaddr) == (vaddr \div MEM_PAGE_SIZE) % MEM_PAGE_SIZE

\* pde_paddr and pte_paddr: the address in an entry.
entry_paddr(v) == down2(v, MEM_PAGE_SIZE)

present(v) == v % 2 = 1

\* v | flag, for one flag or none.
with_flag(v, flag) == IF flag = 0 \/ (v \div flag) % 2 = 1 THEN v ELSE v + flag

\* The word at an address, also of one outside the memory that is modelled.
Word(m, a) == IF a \in Address THEN m[a] ELSE Junk

bitmap_byte_count(bitcount) == (bitcount + 7) \div 8

bitmap_get_bit(m, i) == (Word(m, paddr_alloc.bits + i \div 8) \div 2 ^ (i % 8)) % 2

bitcount == paddr_alloc.size \div MEM_PAGE_SIZE

-----------------------------------------------------------------------------
(* The pool.                                                               *)

\* An int sum.
total_mem_size(info) ==
    LET mem_size[i \in 0..Len(info)] ==
            IF i = 0 THEN 0 ELSE (mem_size[i - 1] + info[i].size) % UINT_MOD
    IN  mem_size[Len(info)]

\* addr_alloc_init: what the pool is.
addr_alloc_init(bits, start, size) == [start |-> start, size |-> size, bits |-> bits]

\* The bitmap is cleared before it is known whether it ends below the EBDA.  The page
\* directory is cleared at the start of create_kernel_table.
memory_init ==
    /\ pc = "memory_init"
    /\ LET free == (total_mem_size(boot_info) - MEM_EXT_START) % UINT_MOD
           pool == addr_alloc_init(elf.mem_free_start, MEM_EXT_START,
                                   down2(free, MEM_PAGE_SIZE))
           bytes == bitmap_byte_count(pool.size \div MEM_PAGE_SIZE)
           cleared == kernel_memset(ram, pool.bits, 0, bytes)
       IN  /\ paddr_alloc' = pool
           /\ \/ /\ pool.bits + bytes < MEM_EBDA_START
                 /\ ram' = kernel_memset(cleared, elf.kernel_page_dir, 0, MEM_PAGE_SIZE)
                 /\ pc' = "create_kernel_table"
              \/ /\ pool.bits + bytes >= MEM_EBDA_START
                 /\ ram' = cleared
                 /\ pc' = "panic"
    /\ UNCHANGED <<boot_info, cr, smap, calls, elf, phdr_idx, search_idx, map_idx, map_page, dirs>>

FreePages == {i \in search_idx..(bitcount - 1) : bitmap_get_bit(ram, i) = 0}

\* Where bitmap_alloc_nbits finds one page, or the end of the bitmap.
NextFree ==
    IF FreePages = {} THEN bitcount
    ELSE CHOOSE i \in FreePages : \A j \in FreePages : i <= j

\* addr_alloc_page(&paddr_alloc, 1).  The page is not marked: bitmap_set_bit is given
\* ~0, and that clears.  (PageAlloc has the allocator in full.)
addr_alloc_page ==
    IF FreePages = {} THEN 0 ELSE paddr_alloc.start + NextFree * MEM_PAGE_SIZE

\* addr_free_page of one page, for each of the given addresses: the bit is cleared if
\* it is one of the bitmap's.
addr_free_pages(m, addrs) ==
    LET freed == {((a - paddr_alloc.start) % UINT_MOD) \div MEM_PAGE_SIZE : a \in addrs}
        after(i) == IF i \in freed /\ i < bitcount THEN 0 ELSE bitmap_get_bit(m, i)
        byte(b) == CHOOSE v \in 0..255 :
                       \A k \in 0..7 : (v \div 2 ^ k) % 2 = after(8 * b + k)
    IN  Copy(m, paddr_alloc.bits, bitmap_byte_count(bitcount),
             [b \in 0..(bitmap_byte_count(bitcount) - 1) |-> byte(b)])

-----------------------------------------------------------------------------
(* Page tables.                                                            *)

\* find_pte(page_dir, vaddr, 1): the memory and the search index it leaves, and the
\* address of the entry or 0.  A new table is taken from the pool and cleared.
find_pte(page_dir, vaddr) ==
    LET pde == page_dir + pde_index(vaddr)
        page == addr_alloc_page
    IN  CASE present(ram[pde]) ->
                [ram |-> ram, search_idx |-> search_idx,
                 pte |-> entry_paddr(ram[pde]) + pte_index(vaddr)]
          [] ~present(ram[pde]) /\ page = 0 ->
                [ram |-> ram, search_idx |-> NextFree, pte |-> 0]
          [] ~present(ram[pde]) /\ page # 0 ->
                [ram |-> kernel_memset([ram EXCEPT ![pde] = page + PTE_P + PTE_W],
                                       page, 0, MEM_PAGE_SIZE),
                 search_idx |-> NextFree,
                 pte |-> page + pte_index(vaddr)]

\* In kernel.lds kernel_base is 0 and s_data is e_text.
kernel_map ==
    LET region(from, to, at, flags) ==
            [vstart |-> from, vend |-> to, pstart |-> at, perm |-> flags]
    IN  << region(0, elf.s_text, 0, PTE_W),
           region(elf.s_text, elf.e_text, elf.s_text, 0),
           region(elf.e_text, MEM_EBDA_START - 1, elf.e_text, PTE_W),
           region(CONSOLE_DISP_ADDR, CONSOLE_DISP_END - 1, CONSOLE_VIDEO_BASE, PTE_W),
           region(MEM_EXT_START, MEM_EXT_END, MEM_EXT_START, PTE_W) >>

vstart == down2(kernel_map[map_idx].vstart, MEM_PAGE_SIZE)
vend == up2(kernel_map[map_idx].vend, MEM_PAGE_SIZE)
page_count == (vend - vstart) \div MEM_PAGE_SIZE

NextRegion == map_idx' = map_idx + 1 /\ map_page' = 0

\* One turn of the loop in memory_create_map, for the region that create_kernel_table
\* has come to.  Its result is ignored: after a failure the next region is mapped.
memory_create_map ==
    /\ pc = "create_kernel_table"
    /\ map_idx <= Len(kernel_map)
    /\ map_page < page_count
    /\ LET vaddr == vstart + map_page * MEM_PAGE_SIZE
           paddr == kernel_map[map_idx].pstart + map_page * MEM_PAGE_SIZE
           found == find_pte(elf.kernel_page_dir, vaddr)
       IN  /\ search_idx' = found.search_idx
           /\ \/ /\ found.pte = 0
                 /\ NextRegion
                 /\ UNCHANGED <<pc, ram>>
              \/ /\ found.pte # 0
                 /\ present(Word(found.ram, found.pte))
                 /\ pc' = "panic"
                 /\ ram' = found.ram
                 /\ UNCHANGED <<map_idx, map_page>>
              \/ /\ found.pte # 0
                 /\ ~present(Word(found.ram, found.pte))
                 /\ ram' = [found.ram EXCEPT ![found.pte] =
                               with_flag(with_flag(paddr, kernel_map[map_idx].perm), PTE_P)]
                 /\ map_page' = map_page + 1
                 /\ UNCHANGED <<pc, map_idx>>
    /\ UNCHANGED <<boot_info, cr, smap, calls, elf, phdr_idx, paddr_alloc, dirs>>

\* create_kernel_table's loop over kernel_map.
create_kernel_table ==
    /\ pc = "create_kernel_table"
    /\ \/ /\ map_idx <= Len(kernel_map)
          /\ map_page >= page_count
          /\ NextRegion
          /\ UNCHANGED pc
       \/ /\ map_idx > Len(kernel_map)
          /\ pc' = "running"
          /\ UNCHANGED <<map_idx, map_page>>
    /\ UNCHANGED <<ram, boot_info, cr, smap, calls, elf, phdr_idx, paddr_alloc, search_idx, dirs>>

-----------------------------------------------------------------------------
(* The directories of processes.                                           *)

user_pde_start == pde_index(MEMORY_TASK_BASE)

memory_create_uvm ==
    /\ pc = "running"
    /\ IF addr_alloc_page = 0
       THEN UNCHANGED <<ram, dirs>>
       ELSE /\ ram' = Copy(ram, addr_alloc_page, MEM_PAGE_SIZE,
                           [i \in 0..(MEM_PAGE_SIZE - 1) |->
                               IF i < user_pde_start THEN ram[elf.kernel_page_dir + i] ELSE 0])
            /\ dirs' = dirs \cup {addr_alloc_page}
    /\ search_idx' = NextFree
    /\ UNCHANGED <<pc, boot_info, cr, smap, calls, elf, phdr_idx, paddr_alloc, map_idx, map_page>>

\* The addresses in the entries of a table that are present, from entry i on.
Entries(m, table, i) ==
    {entry_paddr(Word(m, table + j)) :
        j \in {k \in i..(MEM_PAGE_SIZE - 1) : present(Word(m, table + k))}}

memory_destroy_uvm(page_dir) ==
    /\ pc = "running"
    /\ LET tables == Entries(ram, page_dir, user_pde_start)
       IN  ram' = addr_free_pages(ram, UNION {Entries(ram, t, 0) : t \in tables}
                                       \cup tables \cup {page_dir})
    /\ dirs' = dirs \ {page_dir}
    /\ UNCHANGED <<pc, boot_info, cr, smap, calls, elf, phdr_idx,
                   paddr_alloc, search_idx, map_idx, map_page>>

\* dile_error and panic go on for ever.
Stop == pc \in {"dile_error", "panic"} /\ UNCHANGED vars

-----------------------------------------------------------------------------

MemoryInit ==
    /\ LoaderInit
    /\ paddr_alloc = NoPool
    /\ search_idx = 0
    /\ map_idx = 1 /\ map_page = 0
    /\ dirs = {}

MemoryNext ==
    \/ LoaderNext /\ UNCHANGED memoryVars
    \/ memory_init \/ memory_create_map \/ create_kernel_table
    \/ memory_create_uvm
    \/ \E d \in dirs : memory_destroy_uvm(d)
    \/ Stop

MemorySpec == MemoryInit /\ [][MemoryNext]_vars

-----------------------------------------------------------------------------

InKernel == pc \in {"memory_init", "create_kernel_table", "running", "panic"}

\* KernelIntact: from the jump to its entry on, the kernel is in memory as it was
\* linked: its segments hold what the file holds, and 0 behind that (log_printf uses
\* log_mutex before log_init, init.c:25-27).  Neither the bitmap (memory.c:242) nor page
\* tables and directories (memory.c:99, 168) are ever written over it.
KernelIntact ==
    InKernel =>
        \A i \in DOMAIN elf.phdr : elf.phdr[i].load =>
            \A j \in 0..(elf.phdr[i].p_memsz - 1) :
                LET a == elf.phdr[i].p_paddr + j
                IN  \/ a - elf.kernel_page_dir \in 0..(MEM_PAGE_SIZE - 1)
                    \/ ram[a] = IF j < elf.phdr[i].p_filesz
                                THEN elf.words[elf.phdr[i].p_offset + j + 1] ELSE 0

\* The RAM from MEM_EXT_START on is one block below 4 GB ("暂不考虑中间有空洞的情况",
\* memory.c:152).
OneBlock ==
    \A i \in DOMAIN smap : smap[i].type = 1 =>
        \/ smap[i].base + smap[i].length <= MEM_EXT_START
        \/ smap[i].base = MEM_EXT_START /\ smap[i].base + smap[i].length <= UINT_MOD

\* PoolInRam: every page of the pool is RAM, although its size comes from a sum that
\* also counts the RAM below 1 MB (memory.c:236), and whichever entries of the map the
\* loader dropped or never came to; provided that RAM is one block and that what was
\* found of it is not less than 1 MB, below which the size wraps around.
PoolInRam ==
    OneBlock /\ total_mem_size(boot_info) >= MEM_EXT_START /\ paddr_alloc # NoPool =>
        \E i \in DOMAIN smap :
            /\ smap[i].type = 1
            /\ smap[i].base <= paddr_alloc.start
            /\ paddr_alloc.start + paddr_alloc.size <= smap[i].base + smap[i].length

\* What the processor makes of a, or -1 where it faults.
Translate(a) ==
    LET pde == Word(ram, cr.cr3 + pde_index(a))
        pte == Word(ram, entry_paddr(pde) + pte_index(a))
        size == MEM_PAGE_SIZE * MEM_PAGE_SIZE
    IN  CASE ~cr.pg -> a
          [] cr.pg /\ ~present(pde) -> -1
          [] cr.pg /\ present(pde) /\ cr.pse /\ (pde \div PDE_PS) % 2 = 1 ->
                down2(pde, size) + (a % size)
          [] OTHER -> IF present(pte) THEN entry_paddr(pte) + (a % MEM_PAGE_SIZE) ELSE -1

\* The pages that the kernel's code reads and writes: its own, the bitmap, and the page
\* tables and directories.
Used ==
    {a \in elf.s_text..(MEM_EBDA_START - 1) : a % MEM_PAGE_SIZE = 0}
    \cup (IF paddr_alloc = NoPool THEN {} ELSE Entries(ram, elf.kernel_page_dir, 0))
    \cup dirs

\* SelfMapped: the page directory in CR3, which the loader made for the first 4 MB only
\* (loader_32.c:75), maps every page that the kernel uses to itself: the kernel, its
\* bitmap, and the page tables and directories that are taken from a pool which is
\* much larger than 4 MB.
SelfMapped == InKernel => \A a \in Used : Translate(a) = a

\* PanicOnlyShared: if the bitmap ends below the EBDA, the kernel stops at the ASSERT
\* that no page is mapped twice (memory.c:97) only where e_text, which is s_data too,
\* is not at a page boundary, so that two regions are widened to the same page.
PanicOnlyShared ==
    LET bitmapFits == paddr_alloc.bits + bitmap_byte_count(bitcount) < MEM_EBDA_START
    IN  pc = "panic" /\ bitmapFits => elf.e_text % MEM_PAGE_SIZE # 0
=============================================================================
