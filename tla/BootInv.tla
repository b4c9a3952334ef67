------------------------------ MODULE BootInv -------------------------------
(***************************************************************************)
(* What holds from the boot sector to the running kernel, in the form of   *)
(* an inductive invariant: where memory is written, and where it is not.   *)
(***************************************************************************)
EXTENDS Memory

Tables == {"create_kernel_table", "running"}

\* The kernel has made its pool.
Pooled == Tables \cup {"panic"}

Region == [start : 0..(UINT_MOD - 1), size : 0..(UINT_MOD - 1)]

BootTypeOK ==
    /\ pc \in {"read_loader", "detect_memory", "read_disk", "reload_elf_file", "dile_error",
               "memory_init"} \cup Pooled
    /\ DOMAIN ram = Address
    /\ boot_info \in Seq(Region)
    /\ smap \in MemoryMaps /\ elf \in Kernels
    /\ calls \in 0..Len(smap)
    /\ pc \in {"read_loader", "detect_memory"} => calls < Len(smap)
    /\ phdr_idx \in 1..(Len(elf.phdr) + 1)
    /\ map_idx \in 1..6 /\ map_page \in Nat
    /\ dirs \subseteq {MEM_EXT_START}

\* The word that the file of the kernel has for the j-th word of a segment.
Linked(ph, j) == IF j < ph.p_filesz THEN elf.words[ph.p_offset + j + 1] ELSE 0

\* The file is where read_disk has put it until its last segment is in place, and the
\* segments before phdr_idx are.
FileInv ==
    /\ pc \in {"read_loader", "detect_memory", "read_disk"} => phdr_idx = 1
    /\ pc = "reload_elf_file" =>
          /\ \A j \in 0..(Len(elf.words) - 1) : ram[SYS_KERNEL_ADDR + j] = elf.words[j + 1]
          /\ \A i \in 1..(phdr_idx - 1) : elf.phdr[i].load =>
                \A j \in 0..(elf.phdr[i].p_memsz - 1) :
                    ram[elf.phdr[i].p_paddr + j] = Linked(elf.phdr[i], j)

\* Paging is that of the loader, and its one entry stays.
PagingInv ==
    /\ pc # "read_loader" => ram[LoaderPageDir] = PTE_P + PTE_W + PDE_PS
    /\ InKernel => cr = enable_page_mode

\* An entry of the kernel's page directory is empty, or it is that of the table which all
\* of them share: bitmap_alloc_nbits never marks a page.
DirInv ==
    InKernel =>
        \A j \in 0..(MEM_PAGE_SIZE - 1) :
            ram[elf.kernel_page_dir + j] \in {0, MEM_EXT_START + PTE_P + PTE_W}

\* The RAM found so far is no more than what the last region of it ends at.
TotalInv ==
    \/ total_mem_size(boot_info) = 0
    \/ \E i \in 1..calls : /\ smap[i].type = 1
                           /\ total_mem_size(boot_info) <= smap[i].base + smap[i].length

PoolSize == down2((total_mem_size(boot_info) - MEM_EXT_START) % UINT_MOD, MEM_PAGE_SIZE)

PoolInv ==
    paddr_alloc = IF pc \in Pooled
                  THEN addr_alloc_init(elf.mem_free_start, MEM_EXT_START, PoolSize)
                  ELSE NoPool

\* The bitmap is below the EBDA and nothing is ever marked in it.
BitmapInv ==
    /\ search_idx = 0
    /\ pc \in Tables =>
          /\ paddr_alloc.bits + bitmap_byte_count(bitcount) < MEM_EBDA_START
          /\ \A b \in 0..(bitmap_byte_count(bitcount) - 1) : ram[paddr_alloc.bits + b] = 0

\* The page that memory_create_map comes to next.
Frontier == vstart + map_page * MEM_PAGE_SIZE

\* If no region shares a page with the next, what is mapped is below the frontier, in
\* whichever entry of the directory the shared table is looked at.
MapInv ==
    /\ pc \notin Pooled => map_idx = 1 /\ map_page = 0
    /\ pc = "create_kernel_table" /\ map_idx <= 5 =>
          /\ map_page = 0 \/ map_page <= page_count
          /\ elf.e_text % MEM_PAGE_SIZE = 0 =>
                \A j \in 0..(MEM_PAGE_SIZE - 1) : present(ram[elf.kernel_page_dir + j]) =>
                    /\ j * (MEM_PAGE_SIZE * MEM_PAGE_SIZE) < Frontier
                    /\ \A x \in 0..(MEM_PAGE_SIZE - 1) : present(ram[MEM_EXT_START + x]) =>
                          j * (MEM_PAGE_SIZE * MEM_PAGE_SIZE) + x * MEM_PAGE_SIZE + MEM_PAGE_SIZE
                              <= Frontier

BootInv ==
    /\ BootTypeOK
    /\ FileInv /\ KernelIntact
    /\ PagingInv /\ DirInv
    /\ TotalInv /\ PoolInv /\ BitmapInv
    /\ MapInv /\ PanicOnlyShared
=============================================================================
