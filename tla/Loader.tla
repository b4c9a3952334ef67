------------------------------- MODULE Loader -------------------------------
(***************************************************************************)
(* From the boot sector to the kernel's first instruction: the boot sector *)
(* reads the loader, the loader asks the BIOS for the memory map, reads    *)
(* the kernel's ELF file from the disk, puts its segments where they       *)
(* belong, turns paging on and jumps into the kernel.                      *)
(*                                                                         *)
(* Physical memory is a function from addresses to words; a word holds a   *)
(* byte of the kernel or an entry of a page directory or page table.  The  *)
(* sizes are parameters in the proportions of the real ones.  The BIOS and *)
(* the disk are modelled by what they answer; waiting for them and the     *)
(* messages on the screen are left out.                                    *)
(***************************************************************************)
EXTENDS Integers, Sequences

CONSTANTS
    UINT_MOD,               \* 2^32
    RAM_TOP,                \* the memory that is modelled ends here
    MEM_PAGE_SIZE,          \* in words, which is also PDE_CNT and PTE_CNT
    BOOT_RAM_REGION_MAX,
    SYS_KERNEL_ADDR,        \* where the ELF file is read to
    SectorWords,            \* the words that read_disk reads
    LoaderPageDir,          \* page_dir of enable_page_mode
    MemoryMaps,             \* the answers of the BIOS: base, length and type of each entry
    Kernels                 \* the ELF files, with the symbols of kernel.lds

\* The flags of an entry, in the words of this model.
PTE_P == 1
PTE_W == 2
PDE_PS == 8

\* The file is no longer than what read_disk reads; only its own part is kept.
ASSUME LoaderAssumption ==
    /\ UINT_MOD \in Nat /\ RAM_TOP \in 1..UINT_MOD
    /\ UINT_MOD = MEM_PAGE_SIZE * MEM_PAGE_SIZE * MEM_PAGE_SIZE
    /\ \A k \in Kernels : Len(k.words) <= SectorWords
    /\ \A k \in Kernels : \A i \in DOMAIN k.phdr : k.phdr[i].p_filesz <= k.phdr[i].p_memsz

VARIABLES
    pc,             \* the function the machine is in
    ram,
    boot_info,      \* the regions found: a sequence of [start, size]
    cr,             \* the control registers: PSE, the page directory, PG
    smap, calls,    \* the memory map of this machine, and the entries already asked for
    elf, phdr_idx   \* the kernel on the disk, and the program header that comes next

loaderVars == <<pc, ram, boot_info, cr, smap, calls, elf, phdr_idx>>

Address == 0..(RAM_TOP - 1)

\* Whatever is in memory that nobody has written.
Junk == UINT_MOD - 1

\* The words from a on are replaced by those of the function f on 0..(n - 1).
Copy(m, a, n, f) == [x \in Address |-> IF x - a \in 0..(n - 1) THEN f[x - a] ELSE m[x]]

\* kernel_memset.
kernel_memset(m, a, v, n) == Copy(m, a, n, [j \in 0..(n - 1) |-> v])

-----------------------------------------------------------------------------

\* The boot sector tries again until the BIOS has read the loader, whose data holds
\* page_dir with its one entry: the first 4 MB, mapped to themselves.
read_loader ==
    /\ pc = "read_loader"
    /\ ram' = Copy(ram, LoaderPageDir, MEM_PAGE_SIZE,
                   [j \in 0..(MEM_PAGE_SIZE - 1) |->
                       IF j = 0 THEN PTE_P + PTE_W + PDE_PS ELSE 0])
    /\ pc' = "detect_memory"
    /\ UNCHANGED <<boot_info, cr, smap, calls, elf, phdr_idx>>

read_loader_again == pc = "read_loader" /\ UNCHANGED loaderVars

\* The BIOS does not know the call (any more): detection ends with what was found.
detect_memory_fails ==
    /\ pc = "detect_memory"
    /\ pc' = "read_disk"
    /\ UNCHANGED <<ram, boot_info, cr, smap, calls, elf, phdr_idx>>

\* Mutant: regions of every type are taken.
Mutant_detect_memory ==
    /\ pc = "detect_memory"
    /\ LET entry == smap[calls + 1]
       IN  boot_info' = Append(boot_info, [start |-> entry.base, size |-> entry.length])
    /\ calls' = calls + 1
    /\ pc' = IF calls' \in {Len(smap), BOOT_RAM_REGION_MAX} THEN "read_disk" ELSE pc
    /\ UNCHANGED <<ram, cr, smap, elf, phdr_idx>>

\* One turn of the loop.  Of base and length only the low words are kept.
detect_memory ==
    /\ pc = "detect_memory"
    /\ LET entry == smap[calls + 1]
       IN  boot_info' = IF entry.type = 1
                        THEN Append(boot_info, [start |-> entry.base % UINT_MOD,
                                                size |-> entry.length % UINT_MOD])
                        ELSE boot_info
    /\ calls' = calls + 1
    /\ pc' = IF calls' \in {Len(smap), BOOT_RAM_REGION_MAX} THEN "read_disk" ELSE pc
    /\ UNCHANGED <<ram, cr, smap, elf, phdr_idx>>

read_disk ==
    /\ pc = "read_disk"
    /\ ram' = Copy(ram, SYS_KERNEL_ADDR, Len(elf.words),
                   [j \in 0..(Len(elf.words) - 1) |-> elf.words[j + 1]])
    /\ pc' = IF elf.magic THEN "reload_elf_file" ELSE "dile_error"
    /\ UNCHANGED <<boot_info, cr, smap, calls, elf, phdr_idx>>

\* Mutant: the part of the segment that is not in the file is not cleared.
Mutant_load_segment(m, ph) ==
    Copy(m, ph.p_paddr, ph.p_filesz,
         [j \in 0..(ph.p_filesz - 1) |-> m[SYS_KERNEL_ADDR + ph.p_offset + j]])

load_segment(m, ph) ==
    kernel_memset(Copy(m, ph.p_paddr, ph.p_filesz,
                       [j \in 0..(ph.p_filesz - 1) |-> m[SYS_KERNEL_ADDR + ph.p_offset + j]]),
                  ph.p_paddr + ph.p_filesz, 0, ph.p_memsz - ph.p_filesz)

\* One turn of the loop over the program headers.
reload_elf_file ==
    /\ pc = "reload_elf_file"
    /\ phdr_idx <= Len(elf.phdr)
    /\ ram' = IF elf.phdr[phdr_idx].load THEN load_segment(ram, elf.phdr[phdr_idx]) ELSE ram
    /\ phdr_idx' = phdr_idx + 1
    /\ UNCHANGED <<pc, boot_info, cr, smap, calls, elf>>

\* Mutant: CR4.PSE is not set.
Mutant_enable_page_mode == [pse |-> FALSE, cr3 |-> LoaderPageDir, pg |-> TRUE]

enable_page_mode == [pse |-> TRUE, cr3 |-> LoaderPageDir, pg |-> TRUE]

\* The rest of load_kernel: paging, and the jump to the kernel's entry.
load_kernel ==
    /\ pc = "reload_elf_file"
    /\ phdr_idx > Len(elf.phdr)
    /\ cr' = enable_page_mode
    /\ pc' = "memory_init"
    /\ UNCHANGED <<ram, boot_info, smap, calls, elf, phdr_idx>>

LoaderInit ==
    /\ pc = "read_loader"
    /\ ram = [a \in Address |-> Junk]
    /\ boot_info = <<>>
    /\ cr = [pse |-> FALSE, cr3 |-> 0, pg |-> FALSE]
    /\ smap \in MemoryMaps
    /\ calls = 0
    /\ elf \in Kernels
    /\ phdr_idx = 1

LoaderNext ==
    \/ read_loader \/ read_loader_again
    \/ detect_memory \/ detect_memory_fails
    \/ read_disk \/ reload_elf_file \/ load_kernel
=============================================================================
