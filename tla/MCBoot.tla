------------------------------- MODULE MCBoot -------------------------------
(* Machines and kernels for TLC.  A page has 16 words, so that a page      *)
(* directory covers 4096 words (4 GB) and one of its entries 256 (4 MB);   *)
(* 1 MB is at 128.                                                         *)
EXTENDS Memory, TLC

Entry(b, n, t) == [base |-> b, length |-> n, type |-> t]

MCMemoryMaps == {
    \* One block, with its end not at a page boundary.
    << Entry(0, 75, 1), Entry(75, 53, 2), Entry(128, 379, 1), Entry(507, 5, 2) >>,
    \* A hole in the middle.
    << Entry(0, 80, 1), Entry(128, 64, 1), Entry(192, 16, 2), Entry(208, 200, 1) >>,
    \* More entries than the loader asks for.
    << Entry(0, 75, 1), Entry(75, 5, 2), Entry(80, 16, 2), Entry(96, 32, 2), Entry(128, 384, 1) >>,
    \* RAM above 4 GB.
    << Entry(0, 75, 1), Entry(128, 300, 1), Entry(4096, 200, 1) >>,
    \* Less than one page in the pool.
    << Entry(0, 80, 1), Entry(128, 60, 1) >> }

Segment(l, o, a, f, n) ==
    [load |-> l, p_offset |-> o, p_paddr |-> a, p_filesz |-> f, p_memsz |-> n]

\* A kernel with its text up to e, three words of data, and bss.
Kernel(m, e) ==
    [magic |-> m, words |-> [i \in 1..(7 + e - 32) |-> 100 + i],
     phdr |-> << Segment(TRUE, 4, 32, e - 32, e - 32),
                 Segment(TRUE, 4 + e - 32, e, 3, 80 - e),
                 Segment(FALSE, 0, 0, 0, 0) >>,
     s_text |-> 32, e_text |-> e, kernel_page_dir |-> 64, mem_free_start |-> 80]

MCKernels == {Kernel(TRUE, 48), Kernel(TRUE, 41), Kernel(FALSE, 48)}
=============================================================================
