----------------------------- MODULE BootProof ------------------------------
(***************************************************************************)
(* BootInv is an invariant of the boot and of the kernel's memory          *)
(* management, for any layout, memory map and page size that meet the      *)
(* assumptions of Loader and Memory, and what follows from it.             *)
(***************************************************************************)
EXTENDS BootInv, WellFoundedInduction, TLAPS

-----------------------------------------------------------------------------
(* Arithmetic.                                                             *)

\* Division with remainder.
LEMMA DivMod ==
    ASSUME NEW x \in Int, NEW p \in Nat \ {0}
    PROVE  /\ x % p \in 0..(p - 1) /\ x \div p \in Int
           /\ x = p * (x \div p) + (x % p)
OBVIOUS

\* The product of two inequalities.
LEMMA MulLe ==
    ASSUME NEW p \in Nat, NEW a \in Int, NEW b \in Int, a <= b
    PROVE  p * a <= p * b
OBVIOUS

\* Multiples of p that are less than p apart are equal or in order.
LEMMA MulStep ==
    ASSUME NEW p \in Nat \ {0}, NEW a \in Int, NEW b \in Int, p * a < p * b + p
    PROVE  a <= b
<1>1. SUFFICES ASSUME b + 1 <= a PROVE FALSE
  OBVIOUS
<1>2. p * (b + 1) <= p * a
  BY <1>1, MulLe
<1>3. p * (b + 1) = p * b + p
  OBVIOUS
<1> QED BY <1>2, <1>3

\* A quotient is at least what the dividend has room for, and less than what it has not.
LEMMA DivBounds ==
    ASSUME NEW x \in Int, NEW p \in Nat \ {0}, NEW a \in Int
    PROVE  /\ p * a <= x => a <= x \div p
           /\ x < p * a => x \div p < a
<1> DEFINE q == x \div p
           r == x % p
<1>1. q \in Int /\ r \in 0..(p - 1) /\ x = p * q + r
  BY DivMod
<1> HIDE DEF q, r
<1>2. ASSUME p * a <= x PROVE a <= q
  <2>1. p * a < p * q + p
    BY <1>1, <1>2
  <2> QED BY <2>1, <1>1, MulStep
<1>3. ASSUME x < p * a PROVE q < a
  <2>1. SUFFICES ASSUME a <= q PROVE FALSE
    BY <1>1
  <2>2. p * a <= p * q
    BY <2>1, <1>1, MulLe
  <2> QED BY <1>1, <1>3, <2>2
<1> QED BY <1>2, <1>3 DEF q

\* down2 rounds down to a multiple, and not below a multiple.
LEMMA Down2 ==
    ASSUME NEW x \in Int, NEW p \in Nat \ {0}
    PROVE  /\ down2(x, p) \in Int /\ down2(x, p) <= x /\ x < down2(x, p) + p
           /\ down2(x, p) = p * (x \div p)
           /\ x \in Nat => down2(x, p) \in Nat
           /\ \A b \in Int : b % p = 0 /\ b <= x => b <= down2(x, p)
           /\ \A b \in Int : b % p = 0 /\ x < b + p => down2(x, p) <= b
<1> DEFINE q == x \div p
           r == x % p
<1>1. q \in Int /\ r \in 0..(p - 1) /\ x = p * q + r
  BY DivMod
<1>2. down2(x, p) = x - r
  BY DEF down2
<1> HIDE DEF q, r
<1>3. p * q \in Int
  BY <1>1
<1>4. down2(x, p) = p * q /\ down2(x, p) \in Int
  BY <1>1, <1>2, <1>3
<1>5. ASSUME NEW b \in Int, b % p = 0, b <= x PROVE b <= down2(x, p)
  <2> DEFINE c == b \div p
  <2>1. c \in Int /\ b = p * c
    <3>1. b \div p \in Int /\ b = p * (b \div p) + (b % p)
      BY DivMod
    <3> QED BY <3>1, <1>5
  <2> HIDE DEF c
  <2>2. p * c < p * q + p
    BY <1>1, <1>5, <2>1
  <2>3. c <= q
    BY <2>1, <2>2, <1>1, MulStep
  <2>4. p * c <= p * q
    BY <2>1, <2>3, <1>1, MulLe
  <2> QED BY <2>1, <2>4, <1>4
<1>6. ASSUME NEW b \in Int, b % p = 0, x < b + p PROVE down2(x, p) <= b
  <2> DEFINE c == b \div p
  <2>1. c \in Int /\ b = p * c
    <3>1. b \div p \in Int /\ b = p * (b \div p) + (b % p)
      BY DivMod
    <3> QED BY <3>1, <1>6
  <2> HIDE DEF c
  <2>2. p * q < p * c + p
    BY <1>1, <1>6, <2>1
  <2>3. q <= c
    BY <2>1, <2>2, <1>1, MulStep
  <2>4. p * q <= p * c
    BY <2>1, <2>3, <1>1, MulLe
  <2> QED BY <2>1, <2>4, <1>4
<1>7. x \in Nat => down2(x, p) \in Nat
  <2>1. 0 \in Int /\ 0 % p = 0
    OBVIOUS
  <2> QED BY <2>1, <1>4, <1>5
<1>8. down2(x, p) <= x /\ x < down2(x, p) + p
  BY <1>1, <1>2
<1> QED BY <1>4, <1>5, <1>6, <1>7, <1>8 DEF q

\* A remainder is no more than the number, and a number below the modulus is its own.
LEMMA ModLe ==
    ASSUME NEW x \in Nat, NEW p \in Nat \ {0}
    PROVE  x % p \in 0..(p - 1) /\ x % p <= x /\ (x < p => x % p = x)
<1>1. x % p \in 0..(p - 1)
  OBVIOUS
<1>2. down2(x, p) \in Nat /\ down2(x, p) = x - (x % p)
  BY Down2 DEF down2
<1>3. x < p => x % p = x
  OBVIOUS
<1> QED BY <1>1, <1>2, <1>3

\* A set of naturals that is not empty has a least element.
LEMMA LeastNat ==
    ASSUME NEW S \in SUBSET Nat, S # {}
    PROVE  \E n \in S : \A m \in S : n <= m
<1> DEFINE R == OpToRel(<, Nat)
<1>1. IsWellFoundedOn(R, Nat)
  BY NatLessThanWellFounded
<1>2. \E x \in S : \A y \in S : ~ (<<y, x>> \in R)
  BY <1>1, WFMin
<1>3. PICK x \in S : \A y \in S : ~ (<<y, x>> \in R)
  BY <1>2
<1>4. \A y \in S : ~(y < x)
  BY <1>3 DEF OpToRel
<1> QED BY <1>4

-----------------------------------------------------------------------------
(* The sum of the regions' sizes.                                          *)

\* f[i] is the sum after i turns of the loop in total_mem_size, for the first n regions.
Sums(info, f, n) ==
    \A i \in 0..n :
        f[i] = IF i = 0 THEN 0 ELSE (f[i - 1] + info[i].size) % UINT_MOD

\* The sums exist.
LEMMA SumsExist ==
    ASSUME NEW info \in Seq(Region)
    PROVE  \A n \in 0..Len(info) : \E f \in [0..n -> 0..(UINT_MOD - 1)] : Sums(info, f, n)
<1> DEFINE S == {n \in 0..Len(info) :
                   ~ \E f \in [0..n -> 0..(UINT_MOD - 1)] : Sums(info, f, n)}
<1>1. Len(info) \in Nat /\ UINT_MOD \in Nat \ {0}
  BY LoaderAssumption
<1>2. SUFFICES ASSUME S # {} PROVE FALSE
  OBVIOUS
<1>3. S \in SUBSET Nat
  BY <1>1
<1> HIDE DEF S
<1>4. PICK n \in S : \A m \in S : n <= m
  BY <1>2, <1>3, LeastNat
<1>5. n \in 0..Len(info) /\ ~ \E f \in [0..n -> 0..(UINT_MOD - 1)] : Sums(info, f, n)
  BY <1>4 DEF S
<1>6. CASE n = 0
  <2> DEFINE f == [i \in 0..0 |-> 0]
  <2>1. f \in [0..0 -> 0..(UINT_MOD - 1)] /\ f[0] = 0
    BY <1>1
  <2>2. Sums(info, f, 0)
    <3> SUFFICES ASSUME NEW i \in 0..0 PROVE f[i] = 0 /\ i = 0
      BY DEF Sums
    <3> QED BY <2>1
  <2> QED BY <1>5, <1>6, <2>1, <2>2
<1>7. CASE n # 0
  <2>1. n - 1 \in 0..Len(info) /\ n \in 1..Len(info) /\ ~(n <= n - 1)
    BY <1>1, <1>5, <1>7
  <2>2. n - 1 \notin S
    BY <1>4, <2>1
  <2>3. PICK g \in [0..(n - 1) -> 0..(UINT_MOD - 1)] : Sums(info, g, n - 1)
    BY <2>1, <2>2 DEF S
  <2> DEFINE v == (g[n - 1] + info[n].size) % UINT_MOD
             f == [i \in 0..n |-> IF i = n THEN v ELSE g[i]]
  <2>4. v \in 0..(UINT_MOD - 1)
    <3>1. g[n - 1] \in Nat
      BY <2>1, <2>3, <1>1
    <3>2. info[n].size \in Nat
      <4>1. info[n] \in Region
        BY <2>1
      <4> QED BY <4>1, <1>1 DEF Region
    <3> QED BY <3>1, <3>2, <1>1
  <2>5. f \in [0..n -> 0..(UINT_MOD - 1)]
    <3> HIDE DEF v
    <3> SUFFICES ASSUME NEW i \in 0..n PROVE (IF i = n THEN v ELSE g[i]) \in 0..(UINT_MOD - 1)
      OBVIOUS
    <3>1. i # n => i \in 0..(n - 1)
      BY <2>1
    <3> QED BY <3>1, <2>3, <2>4
  <2>6. Sums(info, f, n)
    <3> SUFFICES ASSUME NEW i \in 0..n
                 PROVE  f[i] = IF i = 0 THEN 0 ELSE (f[i - 1] + info[i].size) % UINT_MOD
      BY DEF Sums
    <3>1. i # 0 => i - 1 \in 0..n /\ i - 1 # n /\ f[i - 1] = g[i - 1]
      BY <2>1
    <3>2. CASE i = n
      BY <3>1, <3>2, <1>7
    <3>3. CASE i # n
      <4>1. i \in 0..(n - 1) /\ f[i] = g[i]
        BY <3>3, <2>1
      <4>2. g[i] = IF i = 0 THEN 0 ELSE (g[i - 1] + info[i].size) % UINT_MOD
        BY <4>1, <2>3 DEF Sums
      <4> QED BY <4>1, <4>2, <3>1
    <3> QED BY <3>2, <3>3
  <2> QED BY <1>5, <2>5, <2>6
<1> QED BY <1>6, <1>7

\* They are the same for two sequences that agree so far.
LEMMA SumsUnique ==
    ASSUME NEW info, NEW other, NEW f, NEW g, NEW n \in Nat,
           Sums(info, f, n), Sums(other, g, n), \A i \in 1..n : info[i] = other[i]
    PROVE  \A i \in 0..n : f[i] = g[i]
<1> DEFINE S == {i \in 0..n : f[i] # g[i]}
<1>1. SUFFICES ASSUME S # {} PROVE FALSE
  OBVIOUS
<1>2. S \in SUBSET Nat
  OBVIOUS
<1> HIDE DEF S
<1>3. PICK i \in S : \A m \in S : i <= m
  BY <1>1, <1>2, LeastNat
<1>4. i \in 0..n /\ f[i] # g[i]
  BY <1>3 DEF S
<1>5. i # 0 => i - 1 \in 0..n /\ i \in 1..n /\ ~(i <= i - 1)
  BY <1>4
<1>6. i # 0 => f[i - 1] = g[i - 1]
  <2>1. i # 0 => i - 1 \notin S
    BY <1>3, <1>5
  <2> QED BY <2>1, <1>5 DEF S
<1>7. /\ f[i] = IF i = 0 THEN 0 ELSE (f[i - 1] + info[i].size) % UINT_MOD
      /\ g[i] = IF i = 0 THEN 0 ELSE (g[i - 1] + other[i].size) % UINT_MOD
  BY <1>4 DEF Sums
<1> QED BY <1>4, <1>5, <1>6, <1>7

\* total_mem_size is the last of the sums.
LEMMA TotalIsSum ==
    ASSUME NEW info \in Seq(Region)
    PROVE  \E f : Sums(info, f, Len(info)) /\ total_mem_size(info) = f[Len(info)]
<1> DEFINE Body(h) == [i \in 0..Len(info) |->
                          IF i = 0 THEN 0 ELSE (h[i - 1] + info[i].size) % UINT_MOD]
           s == CHOOSE h : h = Body(h)
<1>1. Len(info) \in Nat
  OBVIOUS
<1>2. PICK g \in [0..Len(info) -> 0..(UINT_MOD - 1)] : Sums(info, g, Len(info))
  BY <1>1, SumsExist
<1>3. g = Body(g)
  BY <1>2 DEF Sums
<1>4. s = Body(s)
  <2> HIDE DEF Body
  <2> QED BY <1>3, Zenon
<1>5. total_mem_size(info) = s[Len(info)]
  BY DEF total_mem_size
<1> HIDE DEF s
<1>6. Sums(info, s, Len(info))
  <2>1. \A i \in 0..Len(info) : s[i] = Body(s)[i]
    BY <1>4
  <2> QED BY <2>1 DEF Sums
<1> QED BY <1>5, <1>6

\* It is an unsigned number, 0 without a region, and a region adds its size.
LEMMA TotalAppend ==
    ASSUME NEW info \in Seq(Region), NEW e \in Region
    PROVE  /\ total_mem_size(info) \in 0..(UINT_MOD - 1)
           /\ total_mem_size(Append(info, e)) = (total_mem_size(info) + e.size) % UINT_MOD
<1> DEFINE n == Len(info)
           more == Append(info, e)
<1>1. n \in Nat /\ more \in Seq(Region) /\ Len(more) = n + 1 /\ more[n + 1] = e
      /\ \A i \in 1..n : more[i] = info[i]
  OBVIOUS
<1> HIDE DEF more
<1>2. PICK f : Sums(info, f, n) /\ total_mem_size(info) = f[n]
  BY TotalIsSum
<1>3. PICK h : Sums(more, h, Len(more)) /\ total_mem_size(more) = h[Len(more)]
  BY <1>1, TotalIsSum
<1> HIDE DEF n
<1>4. Sums(more, h, n)
  BY <1>1, <1>3 DEF Sums
<1>5. h[n] = f[n]
  <2>1. \A i \in 0..n : h[i] = f[i]
    BY <1>1, <1>2, <1>4, SumsUnique
  <2> QED BY <1>1, <2>1
<1>6. h[n + 1] = (h[n] + e.size) % UINT_MOD
  <2>1. n + 1 \in 0..(n + 1) /\ n + 1 # 0 /\ (n + 1) - 1 = n
    BY <1>1
  <2>2. h[n + 1] = (h[(n + 1) - 1] + more[n + 1].size) % UINT_MOD
    BY <1>1, <1>3, <2>1 DEF Sums
  <2> QED BY <1>1, <2>1, <2>2
<1>7. f[n] \in 0..(UINT_MOD - 1)
  <2>1. PICK g \in [0..n -> 0..(UINT_MOD - 1)] : Sums(info, g, n)
    BY <1>1, SumsExist DEF n
  <2>2. \A i \in 0..n : f[i] = g[i]
    BY <1>1, <1>2, <2>1, SumsUnique
  <2> QED BY <1>1, <2>1, <2>2
<1> QED BY <1>1, <1>2, <1>3, <1>5, <1>6, <1>7 DEF more

\* Nothing is found yet.
LEMMA TotalEmpty == total_mem_size(<<>>) = 0
<1>1. <<>> \in Seq(Region) /\ Len(<<>>) = 0
  OBVIOUS
<1>2. PICK f : Sums(<<>>, f, 0) /\ total_mem_size(<<>>) = f[0]
  BY <1>1, TotalIsSum
<1> QED BY <1>2 DEF Sums

-----------------------------------------------------------------------------
(* The constants and the layout.                                           *)

\* The page size and the fixed addresses.
LEMMA Constants ==
    /\ MEM_PAGE_SIZE \in Nat \ {0} /\ MEM_PAGE_SIZE > 11
    /\ UINT_MOD \in Nat \ {0} /\ RAM_TOP \in Nat \ {0} /\ RAM_TOP <= UINT_MOD
    /\ MEM_PAGE_SIZE * MEM_PAGE_SIZE \in Nat \ {0}
    /\ UINT_MOD = (MEM_PAGE_SIZE * MEM_PAGE_SIZE) * MEM_PAGE_SIZE
    /\ MEM_EBDA_START \in Nat \ {0} /\ MEM_EXT_START \in Nat \ {0} /\ MEM_EXT_END \in Nat
    /\ CONSOLE_DISP_ADDR \in Nat \ {0} /\ CONSOLE_DISP_END \in Nat \ {0}
    /\ MEM_EBDA_START <= CONSOLE_DISP_ADDR
    /\ CONSOLE_DISP_ADDR <= CONSOLE_DISP_END
    /\ CONSOLE_DISP_END <= MEM_EXT_START
    /\ MEM_EBDA_START <= MEM_EXT_START
    /\ MEM_EBDA_START % MEM_PAGE_SIZE = 0 /\ MEM_EXT_START % MEM_PAGE_SIZE = 0
    /\ MEM_EXT_START + MEM_PAGE_SIZE <= MEM_PAGE_SIZE * MEM_PAGE_SIZE
    /\ MEM_EXT_START + MEM_PAGE_SIZE <= RAM_TOP
<1>1. MEM_PAGE_SIZE \in Nat /\ MEM_PAGE_SIZE > 11
  BY AddressAssumption DEF PTE_P, PTE_W, PDE_PS
<1>2. UINT_MOD \in Nat /\ RAM_TOP \in 1..UINT_MOD
      /\ UINT_MOD = MEM_PAGE_SIZE * MEM_PAGE_SIZE * MEM_PAGE_SIZE
  BY LoaderAssumption
<1>3. MEM_PAGE_SIZE * MEM_PAGE_SIZE \in Nat \ {0}
  BY <1>1
<1> QED BY <1>1, <1>2, <1>3, AddressAssumption

\* The facts of Constants without products.
LEMMA Places ==
    /\ MEM_PAGE_SIZE \in Nat \ {0} /\ MEM_PAGE_SIZE > 11
    /\ UINT_MOD \in Nat \ {0} /\ RAM_TOP \in Nat \ {0} /\ RAM_TOP <= UINT_MOD
    /\ MEM_EBDA_START \in Nat \ {0} /\ MEM_EXT_START \in Nat \ {0} /\ MEM_EXT_END \in Nat
    /\ CONSOLE_DISP_ADDR \in Nat \ {0} /\ CONSOLE_DISP_END \in Nat \ {0}
    /\ MEM_EBDA_START <= CONSOLE_DISP_ADDR
    /\ CONSOLE_DISP_ADDR <= CONSOLE_DISP_END
    /\ CONSOLE_DISP_END <= MEM_EXT_START
    /\ MEM_EBDA_START <= MEM_EXT_START
    /\ MEM_EXT_START + MEM_PAGE_SIZE <= RAM_TOP
BY Constants

\* Where the parts of a kernel are.
LEMMA ElfLayout ==
    ASSUME elf \in Kernels
    PROVE  /\ Len(elf.words) \in Nat /\ LoaderPageDir \in Nat /\ SYS_KERNEL_ADDR \in Nat
           /\ elf.s_text \in Nat /\ elf.e_text \in Nat /\ elf.kernel_page_dir \in Nat
           /\ elf.mem_free_start \in Nat
           /\ LoaderPageDir < elf.s_text /\ elf.s_text % MEM_PAGE_SIZE = 0
           /\ elf.s_text <= elf.e_text /\ elf.e_text <= elf.mem_free_start
           /\ elf.mem_free_start <= SYS_KERNEL_ADDR
           /\ SYS_KERNEL_ADDR + Len(elf.words) <= RAM_TOP
           /\ elf.phdr \in Seq(Phdr)
BY LayoutAssumption

\* Where a segment is.
LEMMA SegmentLayout ==
    ASSUME elf \in Kernels, NEW i \in DOMAIN elf.phdr, elf.phdr[i].load
    PROVE  /\ elf.phdr[i].p_offset \in Nat /\ elf.phdr[i].p_paddr \in Nat
           /\ elf.phdr[i].p_filesz \in Nat /\ elf.phdr[i].p_memsz \in Nat
           /\ elf.phdr[i].p_filesz <= elf.phdr[i].p_memsz
           /\ elf.s_text <= elf.phdr[i].p_paddr
           /\ elf.phdr[i].p_paddr + elf.phdr[i].p_memsz <= elf.mem_free_start
           /\ elf.phdr[i].p_offset + elf.phdr[i].p_filesz <= Len(elf.words)
           /\ \A j \in DOMAIN elf.phdr : elf.phdr[j].load /\ i # j =>
                \/ elf.phdr[i].p_paddr + elf.phdr[i].p_memsz <= elf.phdr[j].p_paddr
                \/ elf.phdr[j].p_paddr + elf.phdr[j].p_memsz <= elf.phdr[i].p_paddr
<1>1. elf.phdr[i] \in Phdr
  BY ElfLayout
<1>2. elf.phdr[i].p_filesz <= elf.phdr[i].p_memsz
  BY LoaderAssumption
<1>3. /\ elf.phdr[i].p_offset \in Nat /\ elf.phdr[i].p_paddr \in Nat
      /\ elf.phdr[i].p_filesz \in Nat /\ elf.phdr[i].p_memsz \in Nat
  BY <1>1 DEF Phdr
<1> QED BY <1>2, <1>3, LayoutAssumption

\* The kernel's page directory is in the part of a segment that is not in the file.
LEMMA PageDirLayout ==
    ASSUME elf \in Kernels
    PROVE  /\ \E i \in DOMAIN elf.phdr :
                /\ elf.phdr[i].load
                /\ elf.phdr[i].p_paddr + elf.phdr[i].p_filesz <= elf.kernel_page_dir
                /\ elf.kernel_page_dir + MEM_PAGE_SIZE
                     <= elf.phdr[i].p_paddr + elf.phdr[i].p_memsz
           /\ elf.s_text <= elf.kernel_page_dir
           /\ elf.kernel_page_dir + MEM_PAGE_SIZE <= elf.mem_free_start
<1>1. PICK i \in DOMAIN elf.phdr :
        /\ elf.phdr[i].load
        /\ elf.phdr[i].p_paddr + elf.phdr[i].p_filesz <= elf.kernel_page_dir
        /\ elf.kernel_page_dir + MEM_PAGE_SIZE <= elf.phdr[i].p_paddr + elf.phdr[i].p_memsz
  BY LayoutAssumption
<1>2. /\ elf.phdr[i].p_paddr \in Nat /\ elf.phdr[i].p_filesz \in Nat /\ elf.phdr[i].p_memsz \in Nat
      /\ elf.s_text <= elf.phdr[i].p_paddr
      /\ elf.phdr[i].p_paddr + elf.phdr[i].p_memsz <= elf.mem_free_start
  BY <1>1, SegmentLayout
<1>3. elf.s_text \in Nat /\ elf.kernel_page_dir \in Nat /\ elf.mem_free_start \in Nat
  BY ElfLayout
<1>4. elf.s_text <= elf.kernel_page_dir
      /\ elf.kernel_page_dir + MEM_PAGE_SIZE <= elf.mem_free_start
  BY <1>1, <1>2, <1>3, Places
<1> QED BY <1>1, <1>4

-----------------------------------------------------------------------------
(* What is written to memory.                                              *)

\* A copy changes the words it covers.
LEMMA CopyAt ==
    ASSUME NEW m, NEW a \in Int, NEW n \in Int, NEW f
    PROVE  /\ DOMAIN Copy(m, a, n, f) = Address
           /\ \A x \in Address :
                Copy(m, a, n, f)[x] = IF a <= x /\ x < a + n THEN f[x - a] ELSE m[x]
<1>1. \A x \in Address : x - a \in 0..(n - 1) <=> a <= x /\ x < a + n
  BY Places DEF Address
<1>2. Copy(m, a, n, f) = [x \in Address |-> IF x - a \in 0..(n - 1) THEN f[x - a] ELSE m[x]]
  BY DEF Copy
<1> QED BY <1>1, <1>2

\* So does kernel_memset.
LEMMA MemsetAt ==
    ASSUME NEW m, NEW a \in Int, NEW n \in Int, NEW v
    PROVE  /\ DOMAIN kernel_memset(m, a, v, n) = Address
           /\ \A x \in Address :
                kernel_memset(m, a, v, n)[x] = IF a <= x /\ x < a + n THEN v ELSE m[x]
<1> DEFINE f == [j \in 0..(n - 1) |-> v]
<1>1. \A x \in Address : a <= x /\ x < a + n => f[x - a] = v
  BY Places DEF Address
<1>2. kernel_memset(m, a, v, n) = Copy(m, a, n, f)
  BY DEF kernel_memset
<1> HIDE DEF f
<1>3. DOMAIN Copy(m, a, n, f) = Address
  BY CopyAt
<1>4. \A x \in Address : Copy(m, a, n, f)[x] = IF a <= x /\ x < a + n THEN f[x - a] ELSE m[x]
  BY CopyAt
<1> QED BY <1>1, <1>2, <1>3, <1>4

\* A segment is its words in the file, and 0 behind them.
LEMMA LoadAt ==
    ASSUME NEW m, NEW ph \in Phdr, ph.p_filesz <= ph.p_memsz, SYS_KERNEL_ADDR \in Nat
    PROVE  /\ DOMAIN load_segment(m, ph) = Address
           /\ \A x \in Address :
                load_segment(m, ph)[x] =
                    IF ph.p_paddr <= x /\ x < ph.p_paddr + ph.p_filesz
                    THEN m[SYS_KERNEL_ADDR + ph.p_offset + (x - ph.p_paddr)]
                    ELSE IF ph.p_paddr <= x /\ x < ph.p_paddr + ph.p_memsz THEN 0 ELSE m[x]
<1> DEFINE a == ph.p_paddr
           n == ph.p_filesz
           f == [j \in 0..(n - 1) |-> m[SYS_KERNEL_ADDR + ph.p_offset + j]]
           c == Copy(m, a, n, f)
<1>1. a \in Nat /\ n \in Nat /\ ph.p_memsz \in Nat /\ n <= ph.p_memsz
  BY DEF Phdr
<1>2. load_segment(m, ph) = kernel_memset(c, a + n, 0, ph.p_memsz - n)
  BY DEF load_segment
<1>3. \A x \in Address : a <= x /\ x < a + n =>
        f[x - a] = m[SYS_KERNEL_ADDR + ph.p_offset + (x - a)]
  BY <1>1, Places DEF Address
<1> HIDE DEF f, n, a
<1>4. \A x \in Address : c[x] = IF a <= x /\ x < a + n THEN f[x - a] ELSE m[x]
  BY <1>1, CopyAt
<1> HIDE DEF c
<1>5. /\ DOMAIN kernel_memset(c, a + n, 0, ph.p_memsz - n) = Address
      /\ \A x \in Address :
           kernel_memset(c, a + n, 0, ph.p_memsz - n)[x] =
               IF a + n <= x /\ x < (a + n) + (ph.p_memsz - n) THEN 0 ELSE c[x]
  BY <1>1, MemsetAt
<1>6. (a + n) + (ph.p_memsz - n) = a + ph.p_memsz
  BY <1>1
<1>7. \A x \in Address : x \in Int
  BY DEF Address
<1>8. ASSUME NEW x \in Address
      PROVE  load_segment(m, ph)[x] =
                 IF a <= x /\ x < a + n THEN m[SYS_KERNEL_ADDR + ph.p_offset + (x - a)]
                 ELSE IF a <= x /\ x < a + ph.p_memsz THEN 0 ELSE m[x]
  BY <1>1, <1>2, <1>3, <1>4, <1>5, <1>6, <1>7
<1> QED BY <1>2, <1>5, <1>8 DEF a, n

-----------------------------------------------------------------------------
(* The loader.                                                             *)

\* While the loader runs, nothing is said of the kernel.
LEMMA NotInKernel ==
    ASSUME BootInv, UNCHANGED memoryVars, pc \notin Pooled,
           pc' \in {"read_loader", "detect_memory", "read_disk", "reload_elf_file", "dile_error"}
    PROVE  KernelIntact' /\ DirInv' /\ PoolInv' /\ BitmapInv' /\ MapInv' /\ PanicOnlyShared'
<1>1. pc' \notin Pooled /\ pc' \notin Tables /\ ~InKernel'
  BY DEF Pooled, Tables, InKernel
<1>2. KernelIntact' /\ DirInv'
  BY <1>1 DEF KernelIntact, DirInv
<1>3. PoolInv'
  BY <1>1 DEF PoolInv, memoryVars, BootInv
<1>4. BitmapInv'
  BY <1>1 DEF BitmapInv, memoryVars, BootInv
<1>5. MapInv'
  BY <1>1 DEF MapInv, memoryVars, BootInv, Pooled, Tables
<1>6. PanicOnlyShared'
  BY <1>1 DEF PanicOnlyShared, Pooled
<1> QED BY <1>2, <1>3, <1>4, <1>5, <1>6

\* What was found stays what it is.
LEMMA SameTotal ==
    ASSUME TotalInv, UNCHANGED <<boot_info, smap, calls>>
    PROVE  TotalInv'
BY DEF TotalInv

\* The boot sector reads the loader, and with it the loader's page directory.
LEMMA ReadLoader ==
    ASSUME BootInv, read_loader, UNCHANGED memoryVars
    PROVE  BootInv'
<1> DEFINE f == [j \in 0..(MEM_PAGE_SIZE - 1) |-> IF j = 0 THEN PTE_P + PTE_W + PDE_PS ELSE 0]
<1>1. pc = "read_loader" /\ pc' = "detect_memory" /\ ram' = Copy(ram, LoaderPageDir, MEM_PAGE_SIZE, f)
      /\ UNCHANGED <<boot_info, cr, smap, calls, elf, phdr_idx>>
  BY DEF read_loader
<1>2. elf \in Kernels
  BY DEF BootInv, BootTypeOK
<1>3. LoaderPageDir \in Address /\ LoaderPageDir \in Int
  BY <1>2, ElfLayout, Places DEF Address
<1>4. f[0] = PTE_P + PTE_W + PDE_PS
  BY Places
<1> HIDE DEF f
<1>5. DOMAIN ram' = Address
  BY <1>1, <1>3, Places, CopyAt
<1>6. ram'[LoaderPageDir] = PTE_P + PTE_W + PDE_PS
  <2>1. ram'[LoaderPageDir] = f[LoaderPageDir - LoaderPageDir]
    BY <1>1, <1>3, Places, CopyAt
  <2> QED BY <2>1, <1>3, <1>4
<1>7. BootTypeOK'
  BY <1>1, <1>5 DEF BootInv, BootTypeOK, memoryVars
<1>8. FileInv'
  BY <1>1 DEF BootInv, FileInv
<1>9. PagingInv'
  BY <1>1, <1>6 DEF PagingInv, InKernel
<1>10. TotalInv'
  BY <1>1, SameTotal DEF BootInv
<1>11. KernelIntact' /\ DirInv' /\ PoolInv' /\ BitmapInv' /\ MapInv' /\ PanicOnlyShared'
  BY <1>1, NotInKernel DEF Pooled, Tables
<1> QED BY <1>7, <1>8, <1>9, <1>10, <1>11 DEF BootInv

\* Nothing happens.
LEMMA BootStutter ==
    ASSUME BootInv, UNCHANGED vars
    PROVE  BootInv'
<1> USE DEF vars, loaderVars, memoryVars
<1>1. BootTypeOK' /\ FileInv'
  BY DEF BootInv, BootTypeOK, FileInv, Linked
<1>2. KernelIntact'
  BY DEF BootInv, KernelIntact, InKernel
<1>3. PagingInv' /\ DirInv' /\ TotalInv' /\ PoolInv' /\ BitmapInv'
  BY DEF BootInv, PagingInv, InKernel, DirInv, TotalInv, PoolInv, PoolSize, BitmapInv, bitcount
<1>4. MapInv'
  BY DEF BootInv, MapInv, Frontier, vstart, vend, page_count, kernel_map
<1>5. PanicOnlyShared'
  BY DEF BootInv, PanicOnlyShared, bitcount
<1> QED BY <1>1, <1>2, <1>3, <1>4, <1>5 DEF BootInv

\* Detection ends.
LEMMA DetectMemoryFails ==
    ASSUME BootInv, detect_memory_fails, UNCHANGED memoryVars
    PROVE  BootInv'
<1>1. pc = "detect_memory" /\ pc' = "read_disk"
      /\ UNCHANGED <<ram, boot_info, cr, smap, calls, elf, phdr_idx>>
  BY DEF detect_memory_fails
<1>2. BootTypeOK' /\ FileInv'
  BY <1>1 DEF BootInv, BootTypeOK, FileInv, memoryVars
<1>3. PagingInv'
  BY <1>1 DEF BootInv, PagingInv, InKernel
<1>4. TotalInv'
  BY <1>1, SameTotal DEF BootInv
<1>5. KernelIntact' /\ DirInv' /\ PoolInv' /\ BitmapInv' /\ MapInv' /\ PanicOnlyShared'
  BY <1>1, NotInKernel DEF Pooled, Tables
<1> QED BY <1>2, <1>3, <1>4, <1>5 DEF BootInv

\* The RAM found is bounded by the end of the last region: the regions are in order.
LEMMA DetectTotal ==
    ASSUME BootInv, detect_memory
    PROVE  TotalInv' /\ boot_info' \in Seq(Region)
<1> DEFINE c == calls + 1
           e == smap[c]
           r == [start |-> e.base % UINT_MOD, size |-> e.length % UINT_MOD]
           t == total_mem_size(boot_info)
<1>1. /\ boot_info' = IF e.type = 1 THEN Append(boot_info, r) ELSE boot_info
      /\ calls' = c /\ smap' = smap /\ pc = "detect_memory"
  BY DEF detect_memory
<1>2. /\ smap \in MemoryMaps /\ boot_info \in Seq(Region) /\ calls \in 0..Len(smap)
      /\ calls < Len(smap)
  BY <1>1 DEF BootInv, BootTypeOK
<1>3. smap \in Seq(SmapEntry)
  BY <1>2, MemoryMapAssumption
<1>4. c \in 1..Len(smap) /\ DOMAIN smap = 1..Len(smap) /\ calls \in Nat
  BY <1>2, <1>3
<1>5. e.base \in Nat /\ e.length \in Nat
  <2>1. e \in SmapEntry
    BY <1>3, <1>4
  <2> HIDE DEF e
  <2> QED BY <2>1 DEF SmapEntry
<1> HIDE DEF e
<1>6. r \in Region
  <2>1. e.base % UINT_MOD \in 0..(UINT_MOD - 1) /\ e.length % UINT_MOD \in 0..(UINT_MOD - 1)
    BY <1>5, Places
  <2> QED BY <2>1 DEF Region
<1>7. r.size = e.length % UINT_MOD
  OBVIOUS
<1> HIDE DEF r
<1>8. boot_info' \in Seq(Region)
  BY <1>1, <1>2, <1>6
<1>9. CASE e.type # 1
  <2>1. boot_info' = boot_info /\ smap' = smap /\ calls' = calls + 1
    BY <1>1, <1>9
  <2>2. 1..calls \subseteq 1..(calls + 1)
    BY <1>4
  <2>3. TotalInv'
    BY <2>1, <2>2 DEF TotalInv, BootInv
  <2> QED BY <2>3, <1>8
<1>10. CASE e.type = 1
  <2> DEFINE u == total_mem_size(Append(boot_info, r))
  <2>1. t \in 0..(UINT_MOD - 1) /\ u = (t + r.size) % UINT_MOD
    BY <1>2, <1>6, TotalAppend
  <2>2. r.size \in Nat /\ r.size <= e.length
    <3>1. e.length % UINT_MOD \in 0..(UINT_MOD - 1) /\ e.length % UINT_MOD <= e.length
      BY <1>5, Places, ModLe
    <3> QED BY <3>1, <1>7, Places
  <2>3. t \in Nat /\ UINT_MOD \in Nat \ {0}
    BY <2>1, Places
  <2> HIDE DEF t
  <2>4. u \in Nat /\ u <= t + e.length
    <3>1. t + r.size \in Nat
      BY <2>2, <2>3
    <3>2. (t + r.size) % UINT_MOD \in 0..(UINT_MOD - 1) /\ (t + r.size) % UINT_MOD <= t + r.size
      BY <3>1, <2>3, ModLe
    <3> QED BY <3>1, <3>2, <2>1, <2>2, <2>3, <1>5
  <2> HIDE DEF u
  <2>5. u <= e.base + e.length
    <3>1. CASE t = 0
      BY <3>1, <2>4, <1>5
    <3>2. CASE t # 0
      <4>1. PICK i \in 1..calls : smap[i].type = 1 /\ t <= smap[i].base + smap[i].length
        BY <3>2 DEF TotalInv, BootInv, t
      <4>2. i \in DOMAIN smap /\ c \in DOMAIN smap /\ i < c
        BY <1>4
      <4>3. smap[i].base + smap[i].length <= smap[c].base
        BY <4>1, <4>2, <1>2, <1>10, MemoryMapAssumption DEF e
      <4>4. smap[i].base \in Nat /\ smap[i].length \in Nat
        <5>1. smap[i] \in SmapEntry
          BY <1>3, <4>2
        <5> QED BY <5>1 DEF SmapEntry
      <4>5. smap[c].base = e.base
        BY DEF e
      <4> HIDE DEF c
      <4> QED BY <4>1, <4>3, <4>4, <4>5, <2>3, <2>4, <1>5
    <3> QED BY <3>1, <3>2
  <2>6. total_mem_size(boot_info') = u /\ calls' = c /\ smap' = smap
    BY <1>1, <1>10 DEF u
  <2>7. c \in 1..c /\ smap[c].type = 1 /\ u <= smap[c].base + smap[c].length
    BY <1>4, <1>10, <2>5 DEF e
  <2> HIDE DEF c
  <2>8. TotalInv'
    BY <2>6, <2>7 DEF TotalInv
  <2> QED BY <2>8, <1>8
<1> QED BY <1>9, <1>10

\* An entry of the memory map is taken, or passed over.
LEMMA DetectMemory ==
    ASSUME BootInv, detect_memory, UNCHANGED memoryVars
    PROVE  BootInv'
<1>1. /\ pc = "detect_memory" /\ calls' = calls + 1
      /\ pc' = IF calls' \in {Len(smap), BOOT_RAM_REGION_MAX} THEN "read_disk" ELSE pc
      /\ UNCHANGED <<ram, cr, smap, elf, phdr_idx>>
  BY DEF detect_memory
<1>2. pc' \in {"detect_memory", "read_disk"}
  BY <1>1
<1>3. TotalInv' /\ boot_info' \in Seq(Region)
  BY DetectTotal
<1>4. calls' \in 0..Len(smap') /\ (pc' \in {"read_loader", "detect_memory"} => calls' < Len(smap'))
  <2>1. calls \in 0..Len(smap) /\ calls < Len(smap) /\ smap \in MemoryMaps
    BY <1>1 DEF BootInv, BootTypeOK
  <2>2. Len(smap) \in Nat
    BY <2>1, MemoryMapAssumption
  <2>3. calls' \in 0..Len(smap)
    BY <1>1, <2>1, <2>2
  <2>4. pc' = "detect_memory" => calls' # Len(smap)
    BY <1>1
  <2> QED BY <1>1, <1>2, <2>2, <2>3, <2>4
<1>5. BootTypeOK'
  BY <1>1, <1>2, <1>3, <1>4 DEF BootInv, BootTypeOK, memoryVars
<1>6. FileInv'
  BY <1>1, <1>2 DEF BootInv, FileInv
<1>7. PagingInv'
  BY <1>1, <1>2 DEF BootInv, PagingInv, InKernel
<1>8. KernelIntact' /\ DirInv' /\ PoolInv' /\ BitmapInv' /\ MapInv' /\ PanicOnlyShared'
  BY <1>1, <1>2, NotInKernel DEF Pooled, Tables
<1> QED BY <1>3, <1>5, <1>6, <1>7, <1>8 DEF BootInv

\* The file is in memory, word by word.
LEMMA ReadDisk ==
    ASSUME BootInv, read_disk, UNCHANGED memoryVars
    PROVE  BootInv'
<1> DEFINE n == Len(elf.words)
           f == [j \in 0..(n - 1) |-> elf.words[j + 1]]
<1>1. /\ pc = "read_disk" /\ pc' \in {"reload_elf_file", "dile_error"}
      /\ ram' = Copy(ram, SYS_KERNEL_ADDR, n, f)
      /\ UNCHANGED <<boot_info, cr, smap, calls, elf, phdr_idx>>
  BY DEF read_disk
<1>2. elf \in Kernels
  BY DEF BootInv, BootTypeOK
<1>3. /\ n \in Nat /\ SYS_KERNEL_ADDR \in Nat /\ SYS_KERNEL_ADDR + n <= RAM_TOP
      /\ LoaderPageDir \in Nat /\ LoaderPageDir < SYS_KERNEL_ADDR
  BY <1>2, ElfLayout
<1>4. \A j \in 0..(n - 1) : f[j] = elf.words[j + 1]
  OBVIOUS
<1> HIDE DEF n, f
<1>5. DOMAIN ram' = Address
  BY <1>1, <1>3, CopyAt
<1>6. \A x \in Address : ram'[x] = IF SYS_KERNEL_ADDR <= x /\ x < SYS_KERNEL_ADDR + n
                                   THEN f[x - SYS_KERNEL_ADDR] ELSE ram[x]
  BY <1>1, <1>3, CopyAt
<1>7. ASSUME NEW j \in 0..(n - 1) PROVE ram'[SYS_KERNEL_ADDR + j] = elf.words[j + 1]
  <2>1. SYS_KERNEL_ADDR + j \in Address /\ (SYS_KERNEL_ADDR + j) - SYS_KERNEL_ADDR = j
        /\ SYS_KERNEL_ADDR + j < SYS_KERNEL_ADDR + n /\ SYS_KERNEL_ADDR <= SYS_KERNEL_ADDR + j
    BY <1>3, Places DEF Address
  <2> QED BY <2>1, <1>6, <1>4
<1>8. ram'[LoaderPageDir] = ram[LoaderPageDir]
  <2>1. LoaderPageDir \in Address /\ ~(SYS_KERNEL_ADDR <= LoaderPageDir)
    BY <1>3, Places DEF Address
  <2> QED BY <2>1, <1>6
<1>9. BootTypeOK'
  BY <1>1, <1>5 DEF BootInv, BootTypeOK, memoryVars
<1>10. FileInv'
  <2>1. phdr_idx' = 1
    BY <1>1 DEF BootInv, FileInv
  <2>2. 1..(phdr_idx' - 1) = {}
    BY <2>1
  <2>3. \A j \in 0..(Len(elf'.words) - 1) : ram'[SYS_KERNEL_ADDR + j] = elf'.words[j + 1]
    BY <1>1, <1>7 DEF n
  <2> QED BY <1>1, <2>1, <2>2, <2>3 DEF FileInv
<1>11. PagingInv'
  BY <1>1, <1>8 DEF BootInv, PagingInv, InKernel
<1>12. TotalInv'
  BY <1>1, SameTotal DEF BootInv
<1>13. KernelIntact' /\ DirInv' /\ PoolInv' /\ BitmapInv' /\ MapInv' /\ PanicOnlyShared'
  BY <1>1, NotInKernel DEF Pooled, Tables
<1> QED BY <1>9, <1>10, <1>11, <1>12, <1>13 DEF BootInv

\* A segment is loaded from the file, over nothing that is still needed.
LEMMA LoadSegment ==
    ASSUME BootInv, pc = "reload_elf_file", phdr_idx \in DOMAIN elf.phdr, elf.phdr[phdr_idx].load,
           ram' = load_segment(ram, elf.phdr[phdr_idx]), elf' = elf
    PROVE  /\ DOMAIN ram' = Address
           /\ ram'[LoaderPageDir] = ram[LoaderPageDir]
           /\ \A j \in 0..(Len(elf.words) - 1) : ram'[SYS_KERNEL_ADDR + j] = elf.words[j + 1]
           /\ \A i \in 1..phdr_idx : elf.phdr[i].load =>
                \A j \in 0..(elf.phdr[i].p_memsz - 1) :
                    ram'[elf.phdr[i].p_paddr + j] = Linked(elf.phdr[i], j)
<1> DEFINE ph == elf.phdr[phdr_idx]
           a == ph.p_paddr
           n == ph.p_filesz
           z == ph.p_memsz
           o == ph.p_offset
<1>1. elf \in Kernels /\ elf.phdr \in Seq(Phdr) /\ DOMAIN elf.phdr = 1..Len(elf.phdr)
      /\ phdr_idx \in Nat /\ Len(elf.phdr) \in Nat
  <2>1. elf \in Kernels
    BY DEF BootInv, BootTypeOK
  <2>2. elf.phdr \in Seq(Phdr)
    BY <2>1, ElfLayout
  <2> QED BY <2>1, <2>2
<1>2. /\ a \in Nat /\ n \in Nat /\ z \in Nat /\ o \in Nat /\ n <= z
      /\ elf.s_text <= a /\ a + z <= elf.mem_free_start /\ o + n <= Len(elf.words)
      /\ \A j \in DOMAIN elf.phdr : elf.phdr[j].load /\ phdr_idx # j =>
             \/ a + z <= elf.phdr[j].p_paddr
             \/ elf.phdr[j].p_paddr + elf.phdr[j].p_memsz <= a
  BY <1>1, SegmentLayout
<1>3. /\ Len(elf.words) \in Nat /\ LoaderPageDir \in Nat /\ SYS_KERNEL_ADDR \in Nat
      /\ elf.s_text \in Nat /\ elf.mem_free_start \in Nat
      /\ LoaderPageDir < elf.s_text /\ elf.s_text <= elf.mem_free_start
      /\ elf.mem_free_start <= SYS_KERNEL_ADDR
      /\ SYS_KERNEL_ADDR + Len(elf.words) <= RAM_TOP
  BY <1>1, ElfLayout
<1>4. ph \in Phdr
  BY <1>1
<1>5. /\ DOMAIN load_segment(ram, ph) = Address
      /\ \A x \in Address :
           load_segment(ram, ph)[x] =
               IF a <= x /\ x < a + n THEN ram[SYS_KERNEL_ADDR + o + (x - a)]
               ELSE IF a <= x /\ x < a + z THEN 0 ELSE ram[x]
  BY <1>2, <1>3, <1>4, LoadAt
<1>6. /\ \A j \in 0..(Len(elf.words) - 1) : ram[SYS_KERNEL_ADDR + j] = elf.words[j + 1]
      /\ \A i \in 1..(phdr_idx - 1) : elf.phdr[i].load =>
           \A j \in 0..(elf.phdr[i].p_memsz - 1) :
               ram[elf.phdr[i].p_paddr + j] = Linked(elf.phdr[i], j)
  BY DEF BootInv, FileInv
<1>7. ram' = load_segment(ram, ph)
  OBVIOUS
<1> HIDE DEF a, n, z, o
<1>8. \A x \in Address : ~(a <= x /\ x < a + z) => ram'[x] = ram[x]
  <2>1. \A x \in Address : x \in Int
    BY DEF Address
  <2>2. \A x \in Address : x < a + n => x < a + z
    BY <1>2, <2>1
  <2> QED BY <1>5, <1>7, <2>2
<1>9. ram'[LoaderPageDir] = ram[LoaderPageDir]
  <2>1. LoaderPageDir \in Address /\ ~(a <= LoaderPageDir)
    BY <1>2, <1>3, Places DEF Address
  <2> QED BY <2>1, <1>8
<1>10. ASSUME NEW j \in 0..(Len(elf.words) - 1)
       PROVE  ram'[SYS_KERNEL_ADDR + j] = elf.words[j + 1]
  <2>1. SYS_KERNEL_ADDR + j \in Address /\ ~(SYS_KERNEL_ADDR + j < a + z)
    BY <1>2, <1>3, Places DEF Address
  <2> QED BY <2>1, <1>6, <1>8
<1>11. ASSUME NEW i \in 1..phdr_idx, elf.phdr[i].load, NEW j \in 0..(elf.phdr[i].p_memsz - 1)
       PROVE  ram'[elf.phdr[i].p_paddr + j] = Linked(elf.phdr[i], j)
  <2> DEFINE b == elf.phdr[i].p_paddr
             w == elf.phdr[i].p_memsz
             x == b + j
  <2>1. i \in DOMAIN elf.phdr
    BY <1>1
  <2>2. b \in Nat /\ w \in Nat /\ b + w <= elf.mem_free_start
    BY <1>1, <1>11, <2>1, SegmentLayout
  <2>3. j \in 0..(w - 1) /\ elf.phdr[i].p_paddr + j = x
    OBVIOUS
  <2>4. i # phdr_idx => a + z <= b \/ b + w <= a
    BY <2>1, <1>2, <1>11
  <2>5. i = phdr_idx => b = a /\ w = z /\ elf.phdr[i].p_filesz = n /\ elf.phdr[i].p_offset = o
    BY DEF a, z, n, o
  <2>6. x = b + j
    OBVIOUS
  <2> HIDE DEF b, w, x
  <2>7. x \in Address /\ x \in Int
    BY <1>3, <2>2, <2>3, <2>6, Places DEF Address
  <2>8. CASE i = phdr_idx
    <3>1. j \in Nat /\ j < z /\ x = a + j
      BY <2>2, <2>3, <2>5, <2>6, <2>8
    <3>2. CASE j < n
      <4>1. ram'[x] = ram[SYS_KERNEL_ADDR + o + (x - a)]
        BY <3>1, <3>2, <2>7, <1>2, <1>5, <1>7
      <4>2. SYS_KERNEL_ADDR + o + (x - a) = SYS_KERNEL_ADDR + (o + j)
        BY <3>1, <1>2, <1>3
      <4>3. o + j \in 0..(Len(elf.words) - 1)
        BY <3>1, <3>2, <1>2, <1>3
      <4>4. ram[SYS_KERNEL_ADDR + (o + j)] = elf.words[(o + j) + 1]
        BY <4>3, <1>6
      <4> QED BY <2>3, <2>5, <2>8, <3>2, <4>1, <4>2, <4>4 DEF Linked
    <3>3. CASE ~(j < n)
      <4>1. ram'[x] = 0
        BY <3>1, <3>3, <2>7, <1>2, <1>5, <1>7
      <4> QED BY <2>3, <2>5, <2>8, <3>3, <4>1 DEF Linked
    <3> QED BY <3>2, <3>3
  <2>9. CASE i # phdr_idx
    <3>1. ~(a <= x /\ x < a + z)
      BY <2>2, <2>3, <2>4, <2>6, <2>9, <1>2
    <3>2. i \in 1..(phdr_idx - 1)
      BY <2>9, <1>1
    <3>3. ram[x] = Linked(elf.phdr[i], j)
      BY <3>2, <1>6, <1>11, <2>3
    <3>4. ram'[x] = ram[x]
      BY <3>1, <2>7, <1>8
    <3> QED BY <2>3, <3>3, <3>4
  <2> QED BY <2>8, <2>9
<1> QED BY <1>5, <1>7, <1>9, <1>10, <1>11

\* A segment is put in its place; the file and the segments before it stay.
LEMMA ReloadElfFile ==
    ASSUME BootInv, reload_elf_file, UNCHANGED memoryVars
    PROVE  BootInv'
<1>1. /\ pc = "reload_elf_file" /\ phdr_idx <= Len(elf.phdr) /\ phdr_idx' = phdr_idx + 1
      /\ ram' = IF elf.phdr[phdr_idx].load THEN load_segment(ram, elf.phdr[phdr_idx]) ELSE ram
      /\ UNCHANGED <<pc, boot_info, cr, smap, calls, elf>>
  BY DEF reload_elf_file
<1>2. /\ elf.phdr \in Seq(Phdr) /\ Len(elf.phdr) \in Nat /\ phdr_idx \in 1..(Len(elf.phdr) + 1)
      /\ DOMAIN elf.phdr = 1..Len(elf.phdr) /\ DOMAIN ram = Address
  <2>1. elf \in Kernels /\ phdr_idx \in 1..(Len(elf.phdr) + 1) /\ DOMAIN ram = Address
    BY DEF BootInv, BootTypeOK
  <2>2. elf.phdr \in Seq(Phdr)
    BY <2>1, ElfLayout
  <2> QED BY <2>1, <2>2
<1>3. phdr_idx \in DOMAIN elf.phdr /\ phdr_idx' \in 1..(Len(elf.phdr) + 1) /\ phdr_idx' - 1 = phdr_idx
  BY <1>1, <1>2
<1>4. /\ DOMAIN ram' = Address
      /\ ram'[LoaderPageDir] = ram[LoaderPageDir]
      /\ \A j \in 0..(Len(elf.words) - 1) : ram'[SYS_KERNEL_ADDR + j] = elf.words[j + 1]
      /\ \A i \in 1..phdr_idx : elf.phdr[i].load =>
           \A j \in 0..(elf.phdr[i].p_memsz - 1) :
               ram'[elf.phdr[i].p_paddr + j] = Linked(elf.phdr[i], j)
  <2>1. CASE elf.phdr[phdr_idx].load
    BY <2>1, <1>1, <1>3, LoadSegment
  <2>2. CASE ~elf.phdr[phdr_idx].load
    <3>1. ram' = ram
      BY <2>2, <1>1
    <3>2. \A i \in 1..phdr_idx : elf.phdr[i].load => i \in 1..(phdr_idx - 1)
      BY <2>2, <1>2
    <3>3. /\ \A j \in 0..(Len(elf.words) - 1) : ram[SYS_KERNEL_ADDR + j] = elf.words[j + 1]
          /\ \A i \in 1..(phdr_idx - 1) : elf.phdr[i].load =>
               \A j \in 0..(elf.phdr[i].p_memsz - 1) :
                   ram[elf.phdr[i].p_paddr + j] = Linked(elf.phdr[i], j)
      BY <1>1 DEF BootInv, FileInv
    <3> QED BY <3>1, <3>2, <3>3, <1>2
  <2> QED BY <2>1, <2>2
<1>5. BootTypeOK'
  BY <1>1, <1>3, <1>4 DEF BootInv, BootTypeOK, memoryVars
<1>6. FileInv'
  <2>1. \A i, j : Linked(elf.phdr[i], j)' = Linked(elf.phdr[i], j)
    BY <1>1 DEF Linked
  <2> QED BY <1>1, <1>3, <1>4, <2>1 DEF FileInv, Linked
<1>7. PagingInv'
  BY <1>1, <1>4 DEF BootInv, PagingInv, InKernel
<1>8. TotalInv'
  BY <1>1, SameTotal DEF BootInv
<1>9. KernelIntact' /\ DirInv' /\ PoolInv' /\ BitmapInv' /\ MapInv' /\ PanicOnlyShared'
  BY <1>1, NotInKernel DEF Pooled, Tables
<1> QED BY <1>5, <1>6, <1>7, <1>8, <1>9 DEF BootInv

\* The jump: all segments are loaded, and the page directory, which is not in the file,
\* is empty.
LEMMA LoadKernel ==
    ASSUME BootInv, load_kernel, UNCHANGED memoryVars
    PROVE  BootInv'
<1>1. /\ pc = "reload_elf_file" /\ phdr_idx > Len(elf.phdr) /\ cr' = enable_page_mode
      /\ pc' = "memory_init" /\ UNCHANGED <<ram, boot_info, smap, calls, elf, phdr_idx>>
  BY DEF load_kernel
<1>2. /\ elf \in Kernels /\ phdr_idx \in 1..(Len(elf.phdr) + 1)
      /\ elf.phdr \in Seq(Phdr) /\ Len(elf.phdr) \in Nat
      /\ DOMAIN elf.phdr = 1..Len(elf.phdr)
  <2>1. elf \in Kernels /\ phdr_idx \in 1..(Len(elf.phdr) + 1)
    BY DEF BootInv, BootTypeOK
  <2>2. elf.phdr \in Seq(Phdr)
    BY <2>1, ElfLayout
  <2> QED BY <2>1, <2>2
<1>3. 1..(phdr_idx - 1) = DOMAIN elf.phdr
  BY <1>1, <1>2
<1>4. \A i \in DOMAIN elf.phdr : elf.phdr[i].load =>
        \A j \in 0..(elf.phdr[i].p_memsz - 1) :
            ram[elf.phdr[i].p_paddr + j] = Linked(elf.phdr[i], j)
  BY <1>1, <1>3 DEF BootInv, FileInv
<1>5. KernelIntact'
  BY <1>1, <1>4 DEF KernelIntact, Linked
<1>6. \A j \in 0..(MEM_PAGE_SIZE - 1) : ram[elf.kernel_page_dir + j] = 0
  <2>1. PICK i \in DOMAIN elf.phdr :
          /\ elf.phdr[i].load
          /\ elf.phdr[i].p_paddr + elf.phdr[i].p_filesz <= elf.kernel_page_dir
          /\ elf.kernel_page_dir + MEM_PAGE_SIZE <= elf.phdr[i].p_paddr + elf.phdr[i].p_memsz
    BY <1>2, PageDirLayout
  <2>2. /\ elf.phdr[i].p_paddr \in Nat /\ elf.phdr[i].p_filesz \in Nat
        /\ elf.phdr[i].p_memsz \in Nat /\ elf.kernel_page_dir \in Nat
    BY <1>2, <2>1, SegmentLayout, ElfLayout
  <2> SUFFICES ASSUME NEW j \in 0..(MEM_PAGE_SIZE - 1) PROVE ram[elf.kernel_page_dir + j] = 0
    OBVIOUS
  <2> DEFINE y == elf.kernel_page_dir + j - elf.phdr[i].p_paddr
  <2>3. /\ y \in 0..(elf.phdr[i].p_memsz - 1) /\ ~(y < elf.phdr[i].p_filesz)
        /\ elf.phdr[i].p_paddr + y = elf.kernel_page_dir + j
    BY <2>1, <2>2, Places
  <2> HIDE DEF y
  <2>4. ram[elf.phdr[i].p_paddr + y] = Linked(elf.phdr[i], y)
    BY <1>4, <2>1, <2>3
  <2>5. Linked(elf.phdr[i], y) = 0
    BY <2>3 DEF Linked
  <2> QED BY <2>3, <2>4, <2>5
<1>7. DirInv'
  BY <1>1, <1>6 DEF DirInv
<1>8. BootTypeOK' /\ FileInv'
  BY <1>1 DEF BootInv, BootTypeOK, FileInv, memoryVars
<1>9. PagingInv'
  BY <1>1 DEF BootInv, PagingInv, enable_page_mode
<1>10. TotalInv'
  BY <1>1, SameTotal DEF BootInv
<1>11. pc' \notin Pooled /\ pc' \notin Tables /\ pc \notin Pooled /\ pc' # "create_kernel_table" /\ pc' # "panic"
  BY <1>1 DEF Pooled, Tables
<1>12. PoolInv' /\ BitmapInv' /\ MapInv' /\ PanicOnlyShared'
  BY <1>11 DEF PoolInv, BitmapInv, MapInv, PanicOnlyShared, memoryVars, BootInv
<1> QED BY <1>5, <1>7, <1>8, <1>9, <1>10, <1>12 DEF BootInv

-----------------------------------------------------------------------------
(* The pool and its bitmap.                                                *)

\* What the kernel writes is behind its image, or in its page directory.
LEMMA ImageFrame ==
    ASSUME BootInv, InKernel, InKernel', elf' = elf, cr' = cr,
           \A x \in Address :
               x < elf.mem_free_start
               /\ ~(elf.kernel_page_dir <= x /\ x < elf.kernel_page_dir + MEM_PAGE_SIZE)
                   => ram'[x] = ram[x]
    PROVE  KernelIntact' /\ PagingInv' /\ FileInv'
<1>1. elf \in Kernels
  BY DEF BootInv, BootTypeOK
<1>2. /\ elf.mem_free_start \in Nat /\ elf.kernel_page_dir \in Nat /\ LoaderPageDir \in Nat
      /\ elf.s_text \in Nat /\ LoaderPageDir < elf.s_text /\ elf.s_text <= elf.kernel_page_dir
      /\ elf.s_text <= elf.mem_free_start /\ elf.mem_free_start <= RAM_TOP
  <2>1. /\ Len(elf.words) \in Nat /\ LoaderPageDir \in Nat /\ SYS_KERNEL_ADDR \in Nat
        /\ elf.s_text \in Nat /\ elf.e_text \in Nat /\ elf.kernel_page_dir \in Nat
        /\ elf.mem_free_start \in Nat /\ LoaderPageDir < elf.s_text
        /\ elf.s_text <= elf.e_text /\ elf.e_text <= elf.mem_free_start
        /\ elf.mem_free_start <= SYS_KERNEL_ADDR
        /\ SYS_KERNEL_ADDR + Len(elf.words) <= RAM_TOP
    BY <1>1, ElfLayout
  <2>2. elf.s_text <= elf.kernel_page_dir
    BY <1>1, PageDirLayout
  <2>3. RAM_TOP \in Nat
    BY Places
  <2> QED BY <2>1, <2>2, <2>3
<1>3. ASSUME NEW i \in DOMAIN elf.phdr, elf.phdr[i].load, NEW j \in 0..(elf.phdr[i].p_memsz - 1)
      PROVE  LET a == elf.phdr[i].p_paddr + j
             IN  \/ a - elf.kernel_page_dir \in 0..(MEM_PAGE_SIZE - 1)
                 \/ ram'[a] = IF j < elf.phdr[i].p_filesz
                              THEN elf.words[elf.phdr[i].p_offset + j + 1] ELSE 0
  <2> DEFINE b == elf.phdr[i].p_paddr
             w == elf.phdr[i].p_memsz
             a == b + j
             d == elf.kernel_page_dir
             lw == IF j < elf.phdr[i].p_filesz
                   THEN elf.words[elf.phdr[i].p_offset + j + 1] ELSE 0
  <2>1. b \in Nat /\ w \in Nat /\ b + w <= elf.mem_free_start /\ j \in 0..(w - 1)
    BY <1>1, <1>3, SegmentLayout
  <2>2. a - d \in 0..(MEM_PAGE_SIZE - 1) \/ ram[a] = lw
    BY <1>3 DEF BootInv, KernelIntact
  <2> HIDE DEF b, w, d, lw
  <2>3. d \in Nat
    BY <1>2 DEF d
  <2>4. a \in Address /\ a < elf.mem_free_start
    BY <1>2, <2>1, Places DEF Address
  <2>5. ~(d <= a /\ a < d + MEM_PAGE_SIZE) => ram'[a] = ram[a]
    BY <2>4 DEF d
  <2>6. (d <= a /\ a < d + MEM_PAGE_SIZE) => a - d \in 0..(MEM_PAGE_SIZE - 1)
    BY <2>1, <2>3, Places
  <2>7. a - d \in 0..(MEM_PAGE_SIZE - 1) \/ ram'[a] = lw
    BY <2>2, <2>5, <2>6
  <2> QED BY <2>7 DEF a, b, d, lw
<1>4. KernelIntact'
  BY <1>3 DEF KernelIntact
<1>5. ram'[LoaderPageDir] = ram[LoaderPageDir]
  <2>1. LoaderPageDir \in Address /\ LoaderPageDir < elf.mem_free_start
        /\ ~(elf.kernel_page_dir <= LoaderPageDir)
    BY <1>2, Places DEF Address
  <2> QED BY <2>1
<1>6. PagingInv'
  BY <1>5 DEF BootInv, PagingInv, InKernel, enable_page_mode
<1>7. FileInv'
  BY DEF InKernel, FileInv
<1> QED BY <1>4, <1>6, <1>7

\* The sum is a number.
LEMMA TotalNat ==
    ASSUME NEW info \in Seq(Region)
    PROVE  total_mem_size(info) \in 0..(UINT_MOD - 1)
<1>1. [start |-> 0, size |-> 0] \in Region
  BY Places DEF Region
<1> QED BY <1>1, TotalAppend

\* The size of the pool and of its bitmap.
LEMMA PoolNat ==
    ASSUME boot_info \in Seq(Region)
    PROVE  PoolSize \in Nat /\ PoolSize \div MEM_PAGE_SIZE \in Nat
<1> DEFINE free == (total_mem_size(boot_info) - MEM_EXT_START) % UINT_MOD
<1>1. free \in Nat
  <2>1. total_mem_size(boot_info) \in Int
    BY TotalNat, Places
  <2>2. total_mem_size(boot_info) - MEM_EXT_START \in Int
    BY <2>1, Places
  <2> QED BY <2>2, Places
<1>2. PoolSize = down2(free, MEM_PAGE_SIZE)
  BY DEF PoolSize
<1> HIDE DEF free
<1>3. PoolSize \in Nat
  BY <1>1, <1>2, Places, Down2
<1>4. 0 <= PoolSize \div MEM_PAGE_SIZE /\ PoolSize \div MEM_PAGE_SIZE \in Int
  <2>1. MEM_PAGE_SIZE * 0 <= PoolSize
    BY <1>3, Places
  <2>2. PoolSize \div MEM_PAGE_SIZE \in Int
    BY <1>3, Places, DivMod
  <2>3. 0 <= PoolSize \div MEM_PAGE_SIZE
    BY <1>3, <2>1, Places, DivBounds
  <2> QED BY <2>2, <2>3
<1> QED BY <1>3, <1>4

\* Every bit has its byte.
LEMMA ByteCount ==
    ASSUME NEW n \in Nat
    PROVE  /\ bitmap_byte_count(n) \in Nat
           /\ \A i \in 0..(n - 1) : i \div 8 \in 0..(bitmap_byte_count(n) - 1)
BY DEF bitmap_byte_count

\* The masks of the bits.
LEMMA PowerOfTwo ==
    ASSUME NEW k \in 0..7
    PROVE  2 ^ k \in {1, 2, 4, 8, 16, 32, 64, 128}
<1>1. 2 ^ 0 = 1 /\ 2 ^ 1 = 2 /\ 2 ^ 2 = 4 /\ 2 ^ 3 = 8
      /\ 2 ^ 4 = 16 /\ 2 ^ 5 = 32 /\ 2 ^ 6 = 64 /\ 2 ^ 7 = 128
  OBVIOUS
<1>2. k = 0 \/ k = 1 \/ k = 2 \/ k = 3 \/ k = 4 \/ k = 5 \/ k = 6 \/ k = 7
  OBVIOUS
<1>3. k = 0 => 2 ^ k = 2 ^ 0
  BY ONLY Zenon
<1>4. k = 1 => 2 ^ k = 2 ^ 1
  BY ONLY Zenon
<1>5. k = 2 => 2 ^ k = 2 ^ 2
  BY ONLY Zenon
<1>6. k = 3 => 2 ^ k = 2 ^ 3
  BY ONLY Zenon
<1>7. k = 4 => 2 ^ k = 2 ^ 4
  BY ONLY Zenon
<1>8. k = 5 => 2 ^ k = 2 ^ 5
  BY ONLY Zenon
<1>9. k = 6 => 2 ^ k = 2 ^ 6
  BY ONLY Zenon
<1>10. k = 7 => 2 ^ k = 2 ^ 7
  BY ONLY Zenon
<1> QED BY <1>1, <1>2, <1>3, <1>4, <1>5, <1>6, <1>7, <1>8, <1>9, <1>10

\* The pool while the kernel maps itself and runs.
LEMMA PoolFacts ==
    ASSUME BootInv, pc \in Tables
    PROVE  /\ paddr_alloc.bits = elf.mem_free_start /\ paddr_alloc.start = MEM_EXT_START
           /\ paddr_alloc.size = PoolSize /\ bitcount \in Nat
           /\ bitmap_byte_count(bitcount) \in Nat
           /\ \A i \in 0..(bitcount - 1) : i \div 8 \in 0..(bitmap_byte_count(bitcount) - 1)
           /\ elf.mem_free_start + bitmap_byte_count(bitcount) < MEM_EBDA_START
<1>1. paddr_alloc = addr_alloc_init(elf.mem_free_start, MEM_EXT_START, PoolSize)
  BY DEF BootInv, PoolInv, Pooled
<1>2. paddr_alloc.bits = elf.mem_free_start /\ paddr_alloc.start = MEM_EXT_START
      /\ paddr_alloc.size = PoolSize
  BY <1>1 DEF addr_alloc_init
<1>3. bitcount = PoolSize \div MEM_PAGE_SIZE
  BY <1>2 DEF bitcount
<1>4. bitcount \in Nat
  BY <1>3, PoolNat DEF BootInv, BootTypeOK
<1>5. paddr_alloc.bits + bitmap_byte_count(bitcount) < MEM_EBDA_START
  BY DEF BootInv, BitmapInv
<1> QED BY <1>2, <1>4, <1>5, ByteCount

\* memory_init makes the pool and clears its bitmap and the page directory.
LEMMA MemoryInitStep ==
    ASSUME BootInv, memory_init
    PROVE  BootInv'
<1> DEFINE bits == elf.mem_free_start
           bytes == bitmap_byte_count(PoolSize \div MEM_PAGE_SIZE)
           cleared == kernel_memset(ram, bits, 0, bytes)
           d == elf.kernel_page_dir
<1>1. /\ pc = "memory_init"
      /\ paddr_alloc' = addr_alloc_init(bits, MEM_EXT_START, PoolSize)
      /\ \/ /\ bits + bytes < MEM_EBDA_START
            /\ ram' = kernel_memset(cleared, d, 0, MEM_PAGE_SIZE)
            /\ pc' = "create_kernel_table"
         \/ /\ bits + bytes >= MEM_EBDA_START
            /\ ram' = cleared
            /\ pc' = "panic"
      /\ UNCHANGED <<boot_info, cr, smap, calls, elf, phdr_idx, search_idx, map_idx, map_page, dirs>>
  BY DEF memory_init, addr_alloc_init, PoolSize
<1>2. elf \in Kernels /\ boot_info \in Seq(Region) /\ DOMAIN ram = Address
  BY DEF BootInv, BootTypeOK
<1>3. PoolSize \in Nat /\ PoolSize \div MEM_PAGE_SIZE \in Nat /\ bytes \in Nat
  BY <1>2, PoolNat, ByteCount
<1>4. bits \in Nat /\ d \in Nat /\ d + MEM_PAGE_SIZE <= bits /\ bits <= RAM_TOP
  <2>1. bits \in Nat /\ d \in Nat /\ bits <= SYS_KERNEL_ADDR
        /\ SYS_KERNEL_ADDR \in Nat /\ Len(elf.words) \in Nat
        /\ SYS_KERNEL_ADDR + Len(elf.words) <= RAM_TOP
    BY <1>2, ElfLayout
  <2>2. d + MEM_PAGE_SIZE <= bits
    BY <1>2, PageDirLayout
  <2> QED BY <2>1, <2>2, Places
<1>5. PoolSize' = PoolSize
  BY <1>1 DEF PoolSize
<1>6. paddr_alloc'.bits = bits /\ paddr_alloc'.size = PoolSize
  BY <1>1 DEF addr_alloc_init
<1>7. bitcount' = PoolSize \div MEM_PAGE_SIZE /\ bitmap_byte_count(bitcount') = bytes
  BY <1>6 DEF bitcount
<1> HIDE DEF bits, bytes, d
<1>8. /\ DOMAIN cleared = Address
      /\ \A x \in Address : cleared[x] = IF bits <= x /\ x < bits + bytes THEN 0 ELSE ram[x]
  BY <1>3, <1>4, MemsetAt
<1> HIDE DEF cleared
<1>9. ASSUME pc' = "create_kernel_table"
      PROVE  /\ bits + bytes < MEM_EBDA_START
             /\ DOMAIN ram' = Address
             /\ \A x \in Address : ram'[x] = IF d <= x /\ x < d + MEM_PAGE_SIZE THEN 0 ELSE cleared[x]
  BY <1>1, <1>4, <1>9, Places, MemsetAt
<1>10. ASSUME pc' # "create_kernel_table"
       PROVE  pc' = "panic" /\ ram' = cleared /\ bits + bytes >= MEM_EBDA_START
  BY <1>1, <1>10
<1>11. pc' \in {"create_kernel_table", "panic"} /\ DOMAIN ram' = Address
  BY <1>1, <1>8, <1>9, <1>10
<1>12. InKernel /\ InKernel'
  BY <1>1, <1>11 DEF InKernel
<1>13. ASSUME NEW x \in Address, x < bits, ~(d <= x /\ x < d + MEM_PAGE_SIZE)
       PROVE  ram'[x] = ram[x]
  <2>1. x \in Int /\ ~(bits <= x)
    BY <1>13, <1>4 DEF Address
  <2>2. cleared[x] = ram[x]
    BY <2>1, <1>8
  <2> QED BY <2>2, <1>9, <1>10, <1>13
<1>14. KernelIntact' /\ PagingInv' /\ FileInv'
  BY <1>1, <1>12, <1>13, ImageFrame DEF bits, d
<1>15. BootTypeOK'
  BY <1>1, <1>11 DEF BootInv, BootTypeOK, Pooled, Tables
<1>16. \A j \in 0..(MEM_PAGE_SIZE - 1) :
         /\ d + j \in Address
         /\ pc' = "create_kernel_table" => ram'[d + j] = 0
         /\ pc' # "create_kernel_table" => ram'[d + j] = ram[d + j]
  <2> SUFFICES ASSUME NEW j \in 0..(MEM_PAGE_SIZE - 1)
               PROVE  /\ d + j \in Address
                      /\ pc' = "create_kernel_table" => ram'[d + j] = 0
                      /\ pc' # "create_kernel_table" => ram'[d + j] = ram[d + j]
    OBVIOUS
  <2>1. d + j \in Address /\ d <= d + j /\ d + j < d + MEM_PAGE_SIZE /\ ~(bits <= d + j)
    BY <1>4, Places DEF Address
  <2> QED BY <2>1, <1>8, <1>9, <1>10
<1>17. DirInv'
  <2>1. elf' = elf
    BY <1>1
  <2>2. \A j \in 0..(MEM_PAGE_SIZE - 1) : ram[d + j] \in {0, MEM_EXT_START + PTE_P + PTE_W}
    BY <1>12 DEF BootInv, DirInv, d
  <2>3. \A j \in 0..(MEM_PAGE_SIZE - 1) : ram'[d + j] \in {0, MEM_EXT_START + PTE_P + PTE_W}
    BY <2>2, <1>16
  <2> QED BY <2>1, <2>3 DEF DirInv, d
<1>18. TotalInv'
  BY <1>1, SameTotal DEF BootInv
<1>19. PoolInv'
  BY <1>1, <1>5, <1>11 DEF PoolInv, Pooled, Tables, addr_alloc_init, bits
<1>20. BitmapInv'
  <2>1. search_idx' = 0
    BY <1>1 DEF BootInv, BitmapInv
  <2>2. pc' \in Tables => pc' = "create_kernel_table"
    BY <1>11 DEF Tables
  <2>3. ASSUME pc' = "create_kernel_table", NEW b \in 0..(bytes - 1) PROVE ram'[bits + b] = 0
    <3>1. bits + b \in Address /\ bits <= bits + b /\ bits + b < bits + bytes
          /\ ~(bits + b < d + MEM_PAGE_SIZE)
      BY <1>3, <1>4, <1>9, <2>3, Places DEF Address
    <3> QED BY <3>1, <1>8, <1>9, <2>3
  <2> QED BY <2>1, <2>2, <2>3, <1>6, <1>7, <1>9 DEF BitmapInv
<1>21. MapInv'
  <2>1. map_page' = 0
    BY <1>1 DEF BootInv, MapInv, Pooled, Tables
  <2>2. pc' \in Pooled
    BY <1>11 DEF Pooled, Tables
  <2>3. ~present(0)
    BY DEF present
  <2>4. pc' = "create_kernel_table" =>
          \A j \in 0..(MEM_PAGE_SIZE - 1) : ~present(ram'[elf'.kernel_page_dir + j])
    BY <2>3, <1>1, <1>16 DEF d
  <2> QED BY <2>1, <2>2, <2>4 DEF MapInv
<1>22. PanicOnlyShared'
  <2>1. pc' = "panic" => ~(bits + bytes < MEM_EBDA_START)
    BY <1>3, <1>4, <1>10, Places
  <2> QED BY <2>1, <1>6, <1>7 DEF PanicOnlyShared
<1> QED BY <1>14, <1>15, <1>17, <1>18, <1>19, <1>20, <1>21, <1>22 DEF BootInv

\* No bit is set: bitmap_alloc_nbits clears the bits that it is to set.
LEMMA NoBitSet ==
    ASSUME BootInv, pc \in Tables
    PROVE  /\ \A b \in 0..(bitmap_byte_count(bitcount) - 1) :
                Word(ram, paddr_alloc.bits + b) = 0
           /\ \A i \in Nat : i \div 8 \in 0..(bitmap_byte_count(bitcount) - 1) =>
                bitmap_get_bit(ram, i) = 0
<1>1. /\ paddr_alloc.bits = elf.mem_free_start /\ bitmap_byte_count(bitcount) \in Nat
      /\ elf.mem_free_start + bitmap_byte_count(bitcount) < MEM_EBDA_START
  BY PoolFacts
<1>2. elf.mem_free_start \in Nat
  BY ElfLayout DEF BootInv, BootTypeOK
<1>3. ASSUME NEW b \in 0..(bitmap_byte_count(bitcount) - 1)
      PROVE  Word(ram, paddr_alloc.bits + b) = 0
  <2>1. ram[paddr_alloc.bits + b] = 0
    BY DEF BootInv, BitmapInv
  <2>2. paddr_alloc.bits + b \in Address
    BY <1>1, <1>2, Places DEF Address
  <2> QED BY <2>1, <2>2 DEF Word
<1>4. ASSUME NEW i \in Nat, i \div 8 \in 0..(bitmap_byte_count(bitcount) - 1)
      PROVE  bitmap_get_bit(ram, i) = 0
  <2>1. Word(ram, paddr_alloc.bits + i \div 8) = 0
    BY <1>3, <1>4
  <2>2. i % 8 \in 0..7
    OBVIOUS
  <2>3. 2 ^ (i % 8) \in Nat \ {0}
    <3> DEFINE k == i % 8
    <3>1. k \in 0..7
      BY <2>2
    <3> HIDE DEF k
    <3>2. 2 ^ k \in {1, 2, 4, 8, 16, 32, 64, 128}
      BY <3>1, PowerOfTwo
    <3>3. 2 ^ k \in Nat \ {0}
      BY <3>2
    <3> QED BY <3>3 DEF k
  <2>4. bitmap_get_bit(ram, i) = (Word(ram, paddr_alloc.bits + i \div 8) \div 2 ^ (i % 8)) % 2
    BY DEF bitmap_get_bit
  <2> DEFINE q == 2 ^ (i % 8)
  <2>5. q \in Nat \ {0}
    BY <2>3
  <2> HIDE DEF q
  <2>6. (0 \div q) % 2 = 0
    BY <2>5
  <2> QED BY <2>1, <2>4, <2>6 DEF q
<1> QED BY <1>3, <1>4

\* The allocator gives out its first page, every time, or none if it has none.
LEMMA FirstPage ==
    ASSUME BootInv, pc \in Tables
    PROVE  /\ NextFree = 0
           /\ addr_alloc_page \in {0, MEM_EXT_START}
<1>1. /\ paddr_alloc.start = MEM_EXT_START /\ bitcount \in Nat
      /\ \A i \in 0..(bitcount - 1) : i \div 8 \in 0..(bitmap_byte_count(bitcount) - 1)
  BY PoolFacts
<1>2. search_idx = 0
  BY DEF BootInv, BitmapInv
<1>3. \A i \in 0..(bitcount - 1) : i \in Nat /\ bitmap_get_bit(ram, i) = 0
  BY <1>1, NoBitSet
<1>4. FreePages = 0..(bitcount - 1)
  BY <1>2, <1>3 DEF FreePages
<1>5. NextFree = 0
  <2>1. CASE bitcount = 0
    <3>1. FreePages = {}
      BY <1>4, <2>1
    <3> QED BY <3>1, <2>1 DEF NextFree
  <2>2. CASE bitcount # 0
    <3>1. 0 \in FreePages /\ \A j \in FreePages : 0 <= j /\ j \in Int
      BY <1>1, <1>4, <2>2
    <3> DEFINE c == CHOOSE i \in FreePages : \A j \in FreePages : i <= j
    <3>2. c \in FreePages /\ \A j \in FreePages : c <= j
      BY <3>1, Zenon
    <3>3. NextFree = c
      BY <3>1 DEF NextFree
    <3> HIDE DEF c
    <3> QED BY <3>1, <3>2, <3>3
  <2> QED BY <2>1, <2>2
<1>6. addr_alloc_page \in {0, MEM_EXT_START}
  <2>1. MEM_EXT_START + 0 * MEM_PAGE_SIZE = MEM_EXT_START
    BY Places
  <2> QED BY <1>1, <1>5, <2>1 DEF addr_alloc_page
<1> QED BY <1>5, <1>6

-----------------------------------------------------------------------------
(* Addresses and page tables.                                              *)

\* The two indices of an address, and what is left of it.
LEMMA Indices ==
    ASSUME NEW v \in Nat, v < UINT_MOD
    PROVE  LET p == MEM_PAGE_SIZE
           IN  /\ pde_index(v) \in 0..(p - 1) /\ pte_index(v) \in 0..(p - 1)
               /\ (p * p) * pde_index(v) + p * pte_index(v) <= v
               /\ v < (p * p) * pde_index(v) + p * pte_index(v) + p
<1> DEFINE p == MEM_PAGE_SIZE
           q == p * p
           a == v \div p
           b == a \div p
           x == a % p
<1>1. p \in Nat \ {0} /\ q \in Nat \ {0} /\ UINT_MOD = q * p
  BY Constants
<1>2. a \in Int /\ p * a <= v /\ v < p * a + p
  <2>1. v % p \in 0..(p - 1) /\ v \div p \in Int /\ v = p * (v \div p) + (v % p)
    BY <1>1, DivMod
  <2> QED BY <2>1, <1>1
<1>3. b \in Int /\ x \in 0..(p - 1) /\ a = p * b + x
  <2> HIDE DEF a, p
  <2> QED BY <1>1, <1>2, DivMod
<1>4. pte_index(v) = x /\ pde_index(v) = v \div q
  BY DEF pte_index, pde_index
<1> HIDE DEF a, b, x, p
<1>5. p * a = q * b + p * x
  <2>1. p * (p * b + x) = p * (p * b) + p * x
    BY <1>1, <1>3
  <2>2. p * (p * b) = (p * p) * b
    BY <1>1, <1>3
  <2> QED BY <2>1, <2>2, <1>3
<1>6. p * x <= q - p /\ 0 <= p * x
  <2>1. x <= p - 1 /\ p - 1 \in Int /\ x \in Int /\ 0 <= x
    BY <1>1, <1>3
  <2>2. p * x <= p * (p - 1) /\ p * 0 <= p * x
    BY <2>1, <1>1, MulLe
  <2> QED BY <2>2, <2>1, <1>1
<1> HIDE DEF q
<1>7. q * b \in Int /\ p * x \in Int
  BY <1>1, <1>3
<1>8. v \div q = b
  <2>1. q * b <= v /\ v < q * b + q
    BY <1>1, <1>2, <1>5, <1>6, <1>7
  <2>2. q * (b + 1) = q * b + q
    BY <1>1, <1>3
  <2>3. b <= v \div q
    BY <2>1, <1>1, <1>3, DivBounds
  <2>4. v \div q < b + 1
    BY <2>1, <2>2, <1>1, <1>3, DivBounds
  <2>5. v \div q \in Int
    BY <1>1, DivMod
  <2> QED BY <2>3, <2>4, <2>5, <1>3
<1>9. b \in 0..(p - 1)
  <2>1. v < q * p /\ q * 0 <= v
    BY <1>1
  <2>2. v \div q < p /\ 0 <= v \div q
    BY <2>1, <1>1, DivBounds
  <2> QED BY <2>2, <1>1, <1>3, <1>8
<1>10. q * b + p * x <= v /\ v < q * b + p * x + p
  BY <1>1, <1>2, <1>5, <1>7
<1> QED BY <1>3, <1>4, <1>8, <1>9, <1>10 DEF q, p

\* The address in an entry for the first page of the pool.
LEMMA EntryAddress == entry_paddr(MEM_EXT_START + PTE_P + PTE_W) = MEM_EXT_START
<1> DEFINE e == MEM_EXT_START + PTE_P + PTE_W
<1>1. e \in Nat /\ MEM_EXT_START <= e /\ e < MEM_EXT_START + MEM_PAGE_SIZE
  BY Places DEF PTE_P, PTE_W
<1> HIDE DEF e
<1>2. MEM_EXT_START <= down2(e, MEM_PAGE_SIZE) /\ down2(e, MEM_PAGE_SIZE) <= MEM_EXT_START
      /\ down2(e, MEM_PAGE_SIZE) \in Int
  BY <1>1, Constants, Down2
<1> QED BY <1>2, Places DEF entry_paddr, e

\* find_pte gives no entry, or that of the shared table; a table it makes is cleared.
LEMMA FindPte ==
    ASSUME BootInv, pc = "create_kernel_table", NEW v \in Nat, v < UINT_MOD
    PROVE  LET found == find_pte(elf.kernel_page_dir, v)
               pde == elf.kernel_page_dir + pde_index(v)
           IN  /\ found.search_idx = 0
               /\ \/ found.pte = 0 /\ found.ram = ram
                  \/ /\ found.pte = MEM_EXT_START + pte_index(v) /\ found.ram = ram
                     /\ present(ram[pde])
                  \/ /\ found.pte = MEM_EXT_START + pte_index(v)
                     /\ DOMAIN found.ram = Address
                     /\ \A x \in Address :
                          found.ram[x] =
                              IF MEM_EXT_START <= x /\ x < MEM_EXT_START + MEM_PAGE_SIZE THEN 0
                              ELSE IF x = pde THEN MEM_EXT_START + PTE_P + PTE_W ELSE ram[x]
<1> DEFINE d == elf.kernel_page_dir
           pde == d + pde_index(v)
           found == find_pte(d, v)
           page == addr_alloc_page
           t == pte_index(v)
<1>1. pc \in Tables /\ InKernel
  BY DEF Tables, InKernel
<1>2. NextFree = 0 /\ page \in {0, MEM_EXT_START} /\ search_idx = 0
  BY <1>1, FirstPage DEF BootInv, BitmapInv
<1>3. pde_index(v) \in 0..(MEM_PAGE_SIZE - 1)
  BY Indices
<1>4. ram[pde] \in {0, MEM_EXT_START + PTE_P + PTE_W}
  BY <1>1, <1>3 DEF BootInv, DirInv
<1>5. CASE present(ram[pde])
  <2>1. found = [ram |-> ram, search_idx |-> search_idx, pte |-> entry_paddr(ram[pde]) + t]
    BY <1>5, Zenon DEF find_pte
  <2>2. ram[pde] = MEM_EXT_START + PTE_P + PTE_W
    <3>1. ~present(0)
      BY DEF present
    <3> QED BY <3>1, <1>4, <1>5
  <2>3. found.pte = MEM_EXT_START + t /\ found.ram = ram /\ found.search_idx = 0
    <3> HIDE DEF found, t, pde
    <3> QED BY <2>1, <2>2, <1>2, EntryAddress
  <2> QED BY <2>3, <1>5
<1>6. CASE ~present(ram[pde]) /\ page = 0
  <2>1. found = [ram |-> ram, search_idx |-> NextFree, pte |-> 0]
    BY <1>6, Zenon DEF find_pte
  <2> HIDE DEF found
  <2>2. found.pte = 0 /\ found.ram = ram /\ found.search_idx = 0
    BY <2>1, <1>2
  <2> QED BY <2>2 DEF found
<1>7. CASE ~present(ram[pde]) /\ page # 0
  <2> DEFINE m == [ram EXCEPT ![pde] = page + PTE_P + PTE_W]
             n == kernel_memset(m, page, 0, MEM_PAGE_SIZE)
  <2>1. found = [ram |-> n, search_idx |-> NextFree, pte |-> page + t]
    BY <1>7, Zenon DEF find_pte
  <2>2. page = MEM_EXT_START
    BY <1>2, <1>7
  <2>3. DOMAIN ram = Address
    BY DEF BootInv, BootTypeOK
  <2>4. \A x \in Address : m[x] = IF x = pde THEN MEM_EXT_START + PTE_P + PTE_W ELSE ram[x]
    <3> HIDE DEF pde, page
    <3> QED BY <2>2, <2>3
  <2> HIDE DEF m, page, pde
  <2>5. /\ DOMAIN n = Address
        /\ \A x \in Address :
             n[x] = IF page <= x /\ x < page + MEM_PAGE_SIZE THEN 0 ELSE m[x]
    BY <2>2, Places, MemsetAt
  <2> HIDE DEF n, found, t
  <2>6. found.ram = n /\ found.search_idx = 0 /\ found.pte = MEM_EXT_START + t
    BY <2>1, <2>2, <1>2
  <2>7. \A x \in Address :
          n[x] = IF MEM_EXT_START <= x /\ x < MEM_EXT_START + MEM_PAGE_SIZE THEN 0
                 ELSE IF x = pde THEN MEM_EXT_START + PTE_P + PTE_W ELSE ram[x]
    BY <2>2, <2>4, <2>5
  <2> QED BY <2>5, <2>6, <2>7 DEF pde, found, t
<1> QED BY <1>5, <1>6, <1>7

\* up2 does not go beyond a multiple.
LEMMA UpTo ==
    ASSUME NEW a \in Nat, NEW b \in Nat, a <= b, b % MEM_PAGE_SIZE = 0
    PROVE  up2(a, MEM_PAGE_SIZE) \in Nat /\ up2(a, MEM_PAGE_SIZE) <= b
<1> DEFINE s == (a + MEM_PAGE_SIZE - 1) % UINT_MOD
<1>1. s \in Nat /\ s <= a + MEM_PAGE_SIZE - 1
  <2> DEFINE c == a + MEM_PAGE_SIZE - 1
  <2>1. c \in Nat
    BY Places
  <2> HIDE DEF c
  <2>2. c % UINT_MOD \in 0..(UINT_MOD - 1) /\ c % UINT_MOD <= c
    BY <2>1, Places, ModLe
  <2> QED BY <2>2, Places DEF c
<1>2. up2(a, MEM_PAGE_SIZE) = down2(s, MEM_PAGE_SIZE)
  BY DEF up2
<1> HIDE DEF s
<1>3. s < b + MEM_PAGE_SIZE
  BY <1>1, Places
<1>4. s \in Int
  BY <1>1
<1>5. s \in Nat => down2(s, MEM_PAGE_SIZE) \in Nat
  BY <1>4, Places, Down2
<1>6. \A c \in Int : c % MEM_PAGE_SIZE = 0 /\ s < c + MEM_PAGE_SIZE => down2(s, MEM_PAGE_SIZE) <= c
  BY <1>4, Places, Down2
<1> QED BY <1>1, <1>2, <1>3, <1>5, <1>6

\* up2 gives an unsigned number.
LEMMA UpBelow ==
    ASSUME NEW a \in Nat
    PROVE  up2(a, MEM_PAGE_SIZE) \in Nat /\ up2(a, MEM_PAGE_SIZE) < UINT_MOD
<1> DEFINE s == (a + MEM_PAGE_SIZE - 1) % UINT_MOD
<1>1. s \in Nat /\ s < UINT_MOD
  BY Places
<1>2. up2(a, MEM_PAGE_SIZE) = down2(s, MEM_PAGE_SIZE)
  BY DEF up2
<1> HIDE DEF s
<1>3. down2(s, MEM_PAGE_SIZE) \in Nat /\ down2(s, MEM_PAGE_SIZE) <= s
  BY <1>1, Places, Down2
<1> QED BY <1>1, <1>2, <1>3, Places

\* The regions of the kernel's map.
LEMMA KernelMap ==
    /\ Len(kernel_map) = 5
    /\ kernel_map[1].vstart = 0 /\ kernel_map[1].vend = elf.s_text
    /\ kernel_map[2].vstart = elf.s_text /\ kernel_map[2].vend = elf.e_text
    /\ kernel_map[3].vstart = elf.e_text /\ kernel_map[3].vend = MEM_EBDA_START - 1
    /\ kernel_map[4].vstart = CONSOLE_DISP_ADDR /\ kernel_map[4].vend = CONSOLE_DISP_END - 1
    /\ kernel_map[5].vstart = MEM_EXT_START /\ kernel_map[5].vend = MEM_EXT_END
BY DEF kernel_map

\* The pages of a region are addresses.
LEMMA RegionBounds ==
    ASSUME elf \in Kernels, map_idx \in 1..5
    PROVE  vstart \in Nat /\ vend \in Nat /\ vend < UINT_MOD /\ page_count \in Int
           /\ MEM_PAGE_SIZE * page_count <= vend - vstart
<1>1. elf.s_text \in Nat /\ elf.e_text \in Nat
  BY ElfLayout
<1>2. map_idx = 1 \/ map_idx = 2 \/ map_idx = 3 \/ map_idx = 4 \/ map_idx = 5
  OBVIOUS
<1>3. kernel_map[map_idx].vstart \in Nat /\ kernel_map[map_idx].vend \in Nat
  BY <1>1, <1>2, KernelMap, Places
<1>4. vstart \in Nat /\ vend \in Nat /\ vend < UINT_MOD
  <2> DEFINE a == kernel_map[map_idx].vstart
             b == kernel_map[map_idx].vend
  <2>1. vstart = down2(a, MEM_PAGE_SIZE) /\ vend = up2(b, MEM_PAGE_SIZE)
    BY DEF vstart, vend
  <2>2. a \in Nat /\ a \in Int /\ b \in Nat
    BY <1>3
  <2> HIDE DEF a, b
  <2>3. down2(a, MEM_PAGE_SIZE) \in Nat
    BY <2>2, Places, Down2
  <2>4. up2(b, MEM_PAGE_SIZE) \in Nat /\ up2(b, MEM_PAGE_SIZE) < UINT_MOD
    BY <2>2, UpBelow
  <2> QED BY <2>1, <2>3, <2>4
<1>5. page_count \in Int /\ MEM_PAGE_SIZE * page_count <= vend - vstart
  <2> DEFINE w == vend - vstart
  <2>1. w \in Int
    BY <1>4
  <2>2. page_count = w \div MEM_PAGE_SIZE
    BY DEF page_count
  <2> HIDE DEF w
  <2>3. /\ w % MEM_PAGE_SIZE \in 0..(MEM_PAGE_SIZE - 1) /\ w \div MEM_PAGE_SIZE \in Int
        /\ w = MEM_PAGE_SIZE * (w \div MEM_PAGE_SIZE) + (w % MEM_PAGE_SIZE)
    BY <2>1, Places, DivMod
  <2> DEFINE c == w \div MEM_PAGE_SIZE
             z == MEM_PAGE_SIZE * c
  <2>4. z \in Int
    BY <2>3, Places
  <2> HIDE DEF c
  <2>5. z <= w
    <3> HIDE DEF z
    <3> QED BY <2>1, <2>3, <2>4, Places DEF c, z
  <2> QED BY <2>2, <2>3, <2>5 DEF c, w
<1> QED BY <1>4, <1>5

\* Where e_text is at a page boundary, a region begins where the one before has ended.
LEMMA NextStart ==
    ASSUME elf \in Kernels, elf.mem_free_start < MEM_EBDA_START, elf.e_text % MEM_PAGE_SIZE = 0,
           map_idx \in 1..4, map_idx' = map_idx + 1, elf' = elf
    PROVE  vstart' \in Nat /\ vstart <= vstart' /\ vend <= vstart'
<1> DEFINE p == MEM_PAGE_SIZE
           V(i) == down2(kernel_map[i].vstart, p)
           U(i) == up2(kernel_map[i].vend, p)
<1>1. /\ elf.s_text \in Nat /\ elf.e_text \in Nat /\ elf.s_text % p = 0 /\ elf.e_text % p = 0
      /\ elf.s_text <= elf.e_text /\ elf.e_text <= MEM_EBDA_START
  BY ElfLayout, Places
<1>2. vstart = V(map_idx) /\ vend = U(map_idx)
  BY DEF vstart, vend
<1>3. vstart' = V(map_idx + 1)
  <2>1. kernel_map' = kernel_map
    BY DEF kernel_map
  <2> QED BY <2>1 DEF vstart
<1>4. map_idx = 1 \/ map_idx = 2 \/ map_idx = 3 \/ map_idx = 4
  OBVIOUS
<1>5. /\ V(1) \in Nat /\ V(1) <= 0 /\ V(2) \in Nat /\ V(2) <= elf.s_text
      /\ V(3) \in Nat /\ V(3) <= elf.e_text /\ V(4) \in Nat /\ V(4) <= CONSOLE_DISP_ADDR
      /\ V(5) \in Nat
  <2>1. ASSUME NEW x \in Nat PROVE down2(x, p) \in Nat /\ down2(x, p) <= x
    <3>1. x \in Int
      OBVIOUS
    <3> QED BY <3>1, Places, Down2
  <2>2. 0 \in Nat /\ elf.s_text \in Nat /\ elf.e_text \in Nat /\ CONSOLE_DISP_ADDR \in Nat
        /\ MEM_EXT_START \in Nat
    BY <1>1, Places
  <2> QED BY <2>1, <2>2, KernelMap
<1>6. elf.s_text <= V(2)
  <2>1. elf.s_text \in Int /\ elf.s_text <= elf.s_text
    BY <1>1
  <2>2. elf.s_text <= down2(elf.s_text, p)
    BY <2>1, <1>1, Places, Down2
  <2> QED BY <2>2, KernelMap
<1>7. elf.e_text <= V(3)
  <2>1. elf.e_text \in Int /\ elf.e_text <= elf.e_text
    BY <1>1
  <2>2. elf.e_text <= down2(elf.e_text, p)
    BY <2>1, <1>1, Places, Down2
  <2> QED BY <2>2, KernelMap
<1>8. MEM_EBDA_START <= V(4)
  BY KernelMap, Constants, Down2
<1>9. MEM_EXT_START <= V(5)
  BY KernelMap, Constants, Down2
<1>10. U(1) \in Nat /\ U(1) <= elf.s_text
  BY <1>1, KernelMap, UpTo
<1>11. U(2) \in Nat /\ U(2) <= elf.e_text
  BY <1>1, KernelMap, UpTo
<1>12. U(3) \in Nat /\ U(3) <= MEM_EBDA_START
  BY KernelMap, Constants, UpTo
<1>13. U(4) \in Nat /\ U(4) <= MEM_EXT_START
  BY KernelMap, Constants, UpTo
<1> HIDE DEF V, U, p
<1>14. /\ V(1) <= V(2) /\ V(2) <= V(3) /\ V(3) <= V(4) /\ V(4) <= V(5)
       /\ U(1) <= V(2) /\ U(2) <= V(3) /\ U(3) <= V(4) /\ U(4) <= V(5)
  BY <1>1, <1>5, <1>6, <1>7, <1>8, <1>9, <1>10, <1>11, <1>12, <1>13, Places
<1>15. /\ map_idx = 1 => map_idx + 1 = 2
       /\ map_idx = 2 => map_idx + 1 = 3
       /\ map_idx = 3 => map_idx + 1 = 4
       /\ map_idx = 4 => map_idx + 1 = 5
  OBVIOUS
<1> QED BY <1>2, <1>3, <1>4, <1>5, <1>14, <1>15

-----------------------------------------------------------------------------
(* The kernel's page table and the directories of processes.               *)

\* A step of the running kernel leaves alone what is below the pool, but for entries of
\* its page directory, and the bitmap stays empty.
LEMMA TableFrame ==
    ASSUME BootInv, pc \in Tables, pc' \in Pooled,
           UNCHANGED <<boot_info, cr, smap, calls, elf, phdr_idx, paddr_alloc>>,
           search_idx' = 0, DOMAIN ram' = Address,
           map_idx' \in 1..6, map_page' \in Nat, dirs' \subseteq {MEM_EXT_START},
           \A x \in Address :
               x < elf.mem_free_start
               /\ ~(elf.kernel_page_dir <= x /\ x < elf.kernel_page_dir + MEM_PAGE_SIZE)
                   => ram'[x] = ram[x],
           \A j \in 0..(MEM_PAGE_SIZE - 1) :
               ram'[elf.kernel_page_dir + j]
                   \in {ram[elf.kernel_page_dir + j], MEM_EXT_START + PTE_P + PTE_W},
           \A b \in 0..(bitmap_byte_count(bitcount) - 1) : ram'[elf.mem_free_start + b] = 0
    PROVE  /\ BootTypeOK' /\ FileInv' /\ KernelIntact' /\ PagingInv' /\ DirInv'
           /\ TotalInv' /\ PoolInv' /\ BitmapInv'
<1>1. InKernel /\ InKernel' /\ pc \in Pooled
  BY DEF InKernel, Tables, Pooled
<1>2. KernelIntact' /\ PagingInv' /\ FileInv'
  BY <1>1, ImageFrame
<1>3. BootTypeOK'
  BY DEF BootInv, BootTypeOK, Pooled, Tables
<1>4. DirInv'
  <2>1. \A j \in 0..(MEM_PAGE_SIZE - 1) :
          ram[elf.kernel_page_dir + j] \in {0, MEM_EXT_START + PTE_P + PTE_W}
    BY <1>1 DEF BootInv, DirInv
  <2>2. \A j \in 0..(MEM_PAGE_SIZE - 1) :
          ram'[elf.kernel_page_dir + j] \in {0, MEM_EXT_START + PTE_P + PTE_W}
    BY <2>1
  <2> QED BY <2>2 DEF DirInv
<1>5. TotalInv'
  BY SameTotal DEF BootInv
<1>6. PoolInv'
  <2>1. PoolSize' = PoolSize
    BY DEF PoolSize
  <2> QED BY <2>1, <1>1 DEF BootInv, PoolInv
<1>7. BitmapInv'
  <2>1. bitcount' = bitcount /\ paddr_alloc'.bits = elf.mem_free_start
    BY PoolFacts DEF bitcount
  <2>2. elf.mem_free_start + bitmap_byte_count(bitcount) < MEM_EBDA_START
    BY PoolFacts
  <2> QED BY <2>1, <2>2 DEF BitmapInv
<1> QED BY <1>2, <1>3, <1>4, <1>5, <1>6, <1>7

\* So it is if only the page at the start of the pool is written, and an entry for it in
\* the page directory.
LEMMA PoolFrame ==
    ASSUME BootInv, pc \in Tables,
           \A x \in Address :
               x < MEM_EXT_START
               /\ ~(elf.kernel_page_dir <= x /\ x < elf.kernel_page_dir + MEM_PAGE_SIZE)
                   => ram'[x] = ram[x]
    PROVE  /\ \A x \in Address :
                x < elf.mem_free_start
                /\ ~(elf.kernel_page_dir <= x /\ x < elf.kernel_page_dir + MEM_PAGE_SIZE)
                    => ram'[x] = ram[x]
           /\ \A b \in 0..(bitmap_byte_count(bitcount) - 1) : ram'[elf.mem_free_start + b] = 0
<1> DEFINE d == elf.kernel_page_dir
           f == elf.mem_free_start
           n == bitmap_byte_count(bitcount)
<1>1. elf \in Kernels
  BY DEF BootInv, BootTypeOK
<1>2. d \in Nat /\ f \in Nat /\ d + MEM_PAGE_SIZE <= f
  BY <1>1, ElfLayout, PageDirLayout
<1>3. n \in Nat /\ f + n < MEM_EBDA_START
  BY PoolFacts
<1>4. \A b \in 0..(n - 1) : ram[f + b] = 0
  BY PoolFacts DEF BootInv, BitmapInv
<1>5. \A x \in Address : x < MEM_EXT_START /\ ~(d <= x /\ x < d + MEM_PAGE_SIZE) => ram'[x] = ram[x]
  OBVIOUS
<1> HIDE DEF d, f, n
<1>6. ASSUME NEW b \in 0..(n - 1) PROVE ram'[f + b] = 0
  <2>1. f + b \in Address /\ f + b < MEM_EXT_START /\ ~(f + b < d + MEM_PAGE_SIZE)
    BY <1>2, <1>3, Places DEF Address
  <2> QED BY <2>1, <1>4, <1>5
<1>7. ASSUME NEW x \in Address, x < f, ~(d <= x /\ x < d + MEM_PAGE_SIZE) PROVE ram'[x] = ram[x]
  <2>1. x < MEM_EXT_START
    BY <1>2, <1>3, <1>7, Places DEF Address
  <2> QED BY <2>1, <1>5, <1>7
<1> QED BY <1>6, <1>7 DEF d, f, n

\* What is mapped when a region is left is below where the next one begins.
LEMMA RegionStep ==
    ASSUME BootInv, pc = "create_kernel_table", map_idx <= 5, NextRegion,
           UNCHANGED <<pc, ram, elf>>
    PROVE  MapInv'
<1>1. map_idx \in 1..5 /\ map_page \in Nat /\ elf \in Kernels /\ map_idx \in Int
  BY DEF BootInv, BootTypeOK
<1>2. map_idx' = map_idx + 1 /\ map_page' = 0
  BY DEF NextRegion
<1>3. pc' \in Pooled /\ map_page' \in Int
  BY <1>2 DEF Pooled, Tables
<1>4. SUFFICES ASSUME map_idx' <= 5, elf.e_text % MEM_PAGE_SIZE = 0,
                      NEW j \in 0..(MEM_PAGE_SIZE - 1), present(ram[elf.kernel_page_dir + j])
               PROVE  /\ j * (MEM_PAGE_SIZE * MEM_PAGE_SIZE) < Frontier'
                      /\ \A x \in 0..(MEM_PAGE_SIZE - 1) : present(ram[MEM_EXT_START + x]) =>
                           j * (MEM_PAGE_SIZE * MEM_PAGE_SIZE) + x * MEM_PAGE_SIZE + MEM_PAGE_SIZE
                               <= Frontier'
  BY <1>2, <1>3 DEF MapInv
<1>5. /\ map_page = 0 \/ map_page <= page_count
      /\ j * (MEM_PAGE_SIZE * MEM_PAGE_SIZE) < Frontier
      /\ \A x \in 0..(MEM_PAGE_SIZE - 1) : present(ram[MEM_EXT_START + x]) =>
           j * (MEM_PAGE_SIZE * MEM_PAGE_SIZE) + x * MEM_PAGE_SIZE + MEM_PAGE_SIZE <= Frontier
  BY <1>4 DEF BootInv, MapInv
<1>6. elf.mem_free_start < MEM_EBDA_START
  <2>1. /\ elf.mem_free_start + bitmap_byte_count(bitcount) < MEM_EBDA_START
        /\ bitmap_byte_count(bitcount) \in Nat
    BY PoolFacts DEF Tables
  <2> QED BY <2>1, <1>1, ElfLayout, Places
<1>7. map_idx \in 1..4
  BY <1>1, <1>2, <1>4
<1>8. vstart' \in Nat /\ vstart <= vstart' /\ vend <= vstart'
  BY <1>1, <1>2, <1>4, <1>6, <1>7, NextStart
<1>9. vstart \in Nat /\ vend \in Nat /\ page_count \in Int
      /\ MEM_PAGE_SIZE * page_count <= vend - vstart
  BY <1>1, RegionBounds
<1>10. Frontier \in Nat /\ Frontier <= vstart'
  <2> DEFINE z == MEM_PAGE_SIZE * map_page
  <2>1. z \in Nat /\ Frontier = vstart + z
    BY <1>1, <1>9, Places DEF Frontier
  <2>2. CASE map_page = 0
    <3>1. z = 0
      BY <2>2, Places
    <3> HIDE DEF z
    <3> QED BY <2>1, <3>1, <1>8, <1>9
  <2>3. CASE map_page <= page_count
    <3>1. z <= MEM_PAGE_SIZE * page_count
      BY <2>3, <1>1, <1>9, Places, MulLe
    <3> DEFINE y == MEM_PAGE_SIZE * page_count
    <3>2. y \in Int /\ z <= y /\ y <= vend - vstart
      BY <3>1, <1>9, Places
    <3> HIDE DEF z, y
    <3> QED BY <2>1, <3>2, <1>8, <1>9
  <2> QED BY <2>2, <2>3, <1>5
<1>11. Frontier' = vstart'
  <2>1. Frontier' = vstart' + map_page' * MEM_PAGE_SIZE
    BY DEF Frontier
  <2>2. 0 * MEM_PAGE_SIZE = 0
    BY Places
  <2> QED BY <2>1, <2>2, <1>2, <1>8
<1> DEFINE q == j * (MEM_PAGE_SIZE * MEM_PAGE_SIZE)
<1>12. q \in Int
  BY Places
<1>13. q < Frontier'
  <2>1. q < Frontier
    BY <1>5
  <2> HIDE DEF q
  <2> QED BY <2>1, <1>8, <1>10, <1>11, <1>12
<1>14. ASSUME NEW x \in 0..(MEM_PAGE_SIZE - 1), present(ram[MEM_EXT_START + x])
       PROVE  q + x * MEM_PAGE_SIZE + MEM_PAGE_SIZE <= Frontier'
  <2>1. q + x * MEM_PAGE_SIZE + MEM_PAGE_SIZE <= Frontier
    BY <1>5, <1>14
  <2> DEFINE y == q + x * MEM_PAGE_SIZE + MEM_PAGE_SIZE
  <2>2. y \in Int
    <3>1. x * MEM_PAGE_SIZE \in Int
      BY Places
    <3> HIDE DEF q
    <3> QED BY <3>1, <1>12, Places
  <2>3. y <= Frontier
    BY <2>1
  <2> HIDE DEF y
  <2>4. y <= Frontier'
    BY <2>2, <2>3, <1>8, <1>10, <1>11
  <2> QED BY <2>4 DEF y
<1> QED BY <1>13, <1>14

\* create_kernel_table goes on to the next region, or is done.
LEMMA CreateKernelTable ==
    ASSUME BootInv, create_kernel_table
    PROVE  BootInv'
<1>1. /\ pc = "create_kernel_table"
      /\ \/ map_idx <= Len(kernel_map) /\ NextRegion /\ UNCHANGED pc
         \/ pc' = "running" /\ UNCHANGED <<map_idx, map_page>>
      /\ UNCHANGED <<ram, boot_info, cr, smap, calls, elf, phdr_idx, paddr_alloc, search_idx, dirs>>
  BY DEF create_kernel_table
<1>2. map_idx \in 1..6 /\ map_page \in Nat /\ dirs \subseteq {MEM_EXT_START}
      /\ DOMAIN ram = Address /\ search_idx = 0
  BY DEF BootInv, BootTypeOK, BitmapInv
<1>3. pc \in Tables /\ pc' \in Pooled
  BY <1>1 DEF Tables, Pooled
<1>4. map_idx' \in 1..6 /\ map_page' \in Nat
  BY <1>1, <1>2, KernelMap DEF NextRegion
<1>5. \A x \in Address : ram'[x] = ram[x]
  BY <1>1
<1>6. /\ BootTypeOK' /\ FileInv' /\ KernelIntact' /\ PagingInv' /\ DirInv'
      /\ TotalInv' /\ PoolInv' /\ BitmapInv'
  <2>1. /\ \A x \in Address :
             x < elf.mem_free_start
             /\ ~(elf.kernel_page_dir <= x /\ x < elf.kernel_page_dir + MEM_PAGE_SIZE)
                 => ram'[x] = ram[x]
        /\ \A b \in 0..(bitmap_byte_count(bitcount) - 1) : ram'[elf.mem_free_start + b] = 0
    BY <1>3, <1>5, PoolFrame
  <2> QED BY <2>1, <1>1, <1>2, <1>3, <1>4, TableFrame
<1>7. MapInv'
  <2>1. CASE pc' = "running"
    BY <2>1 DEF MapInv, Pooled, Tables
  <2>2. CASE pc' # "running"
    BY <2>2, <1>1, KernelMap, RegionStep
  <2> QED BY <2>1, <2>2
<1>8. PanicOnlyShared'
  BY <1>1 DEF PanicOnlyShared
<1> QED BY <1>6, <1>7, <1>8 DEF BootInv

\* What find_pte does to the directory and to the table, entry by entry.
LEMMA FoundEntry ==
    ASSUME BootInv, pc = "create_kernel_table", NEW v \in Nat, v < UINT_MOD,
           find_pte(elf.kernel_page_dir, v).pte # 0
    PROVE  LET found == find_pte(elf.kernel_page_dir, v)
               d == elf.kernel_page_dir
           IN  /\ found.pte = MEM_EXT_START + pte_index(v)
               /\ DOMAIN found.ram = Address
               /\ \A x \in Address : x < MEM_EXT_START /\ ~(d <= x /\ x < d + MEM_PAGE_SIZE)
                      => found.ram[x] = ram[x]
               /\ \A j \in 0..(MEM_PAGE_SIZE - 1) :
                      found.ram[d + j] = IF j = pde_index(v) THEN MEM_EXT_START + PTE_P + PTE_W
                                         ELSE ram[d + j]
               /\ \/ /\ present(ram[d + pde_index(v)])
                     /\ \A x \in 0..(MEM_PAGE_SIZE - 1) :
                          found.ram[MEM_EXT_START + x] = ram[MEM_EXT_START + x]
                  \/ \A x \in 0..(MEM_PAGE_SIZE - 1) : found.ram[MEM_EXT_START + x] = 0
<1> DEFINE d == elf.kernel_page_dir
           found == find_pte(d, v)
           m == found.ram
           c == pde_index(v)
           e == MEM_EXT_START + PTE_P + PTE_W
<1>1. c \in 0..(MEM_PAGE_SIZE - 1)
  BY Indices
<1>2. d \in Nat /\ d + MEM_PAGE_SIZE < MEM_EXT_START
  <2>1. elf \in Kernels /\ pc \in Tables
    BY DEF BootInv, BootTypeOK, Tables
  <2>2. /\ d \in Nat /\ elf.mem_free_start \in Nat
        /\ d + MEM_PAGE_SIZE <= elf.mem_free_start
    BY <2>1, ElfLayout, PageDirLayout
  <2>3. /\ bitmap_byte_count(bitcount) \in Nat
        /\ elf.mem_free_start + bitmap_byte_count(bitcount) < MEM_EBDA_START
    BY <2>1, PoolFacts
  <2> QED BY <2>2, <2>3, Places
<1>3. \A j \in 0..(MEM_PAGE_SIZE - 1) : ram[d + j] \in {0, e}
  BY DEF BootInv, DirInv, InKernel
<1>4. DOMAIN ram = Address
  BY DEF BootInv, BootTypeOK
<1>5. \/ found.pte = 0
      \/ found.pte = MEM_EXT_START + pte_index(v) /\ m = ram /\ present(ram[d + c])
      \/ /\ found.pte = MEM_EXT_START + pte_index(v)
         /\ DOMAIN m = Address
         /\ \A x \in Address :
              m[x] = IF MEM_EXT_START <= x /\ x < MEM_EXT_START + MEM_PAGE_SIZE THEN 0
                     ELSE IF x = d + c THEN e ELSE ram[x]
  BY FindPte
<1>6. found.pte # 0
  OBVIOUS
<1> HIDE DEF d, m, c, e, found
<1>7. CASE found.pte = MEM_EXT_START + pte_index(v) /\ m = ram /\ present(ram[d + c])
  <2>1. ~present(0)
    BY DEF present
  <2>2. ram[d + c] = e
    BY <2>1, <1>1, <1>3, <1>7
  <2>3. \A j \in 0..(MEM_PAGE_SIZE - 1) : m[d + j] = IF j = c THEN e ELSE ram[d + j]
    BY <2>2, <1>7
  <2> QED BY <2>3, <1>4, <1>7 DEF d, m, c, e, found
<1>8. CASE /\ found.pte = MEM_EXT_START + pte_index(v)
           /\ DOMAIN m = Address
           /\ \A x \in Address :
                m[x] = IF MEM_EXT_START <= x /\ x < MEM_EXT_START + MEM_PAGE_SIZE THEN 0
                       ELSE IF x = d + c THEN e ELSE ram[x]
  <2>1. ASSUME NEW x \in Address, x < MEM_EXT_START, ~(d <= x /\ x < d + MEM_PAGE_SIZE)
        PROVE  m[x] = ram[x]
    <3>1. ~(MEM_EXT_START <= x) /\ x # d + c
      BY <2>1, <1>1, <1>2, Places DEF Address
    <3> QED BY <3>1, <1>8
  <2>2. ASSUME NEW j \in 0..(MEM_PAGE_SIZE - 1)
        PROVE  m[d + j] = IF j = c THEN e ELSE ram[d + j]
    <3>1. d + j \in Address /\ ~(MEM_EXT_START <= d + j) /\ (d + j = d + c <=> j = c)
      BY <1>1, <1>2, Places DEF Address
    <3> QED BY <3>1, <1>8
  <2>3. ASSUME NEW x \in 0..(MEM_PAGE_SIZE - 1) PROVE m[MEM_EXT_START + x] = 0
    <3>1. /\ MEM_EXT_START + x \in Address /\ MEM_EXT_START <= MEM_EXT_START + x
          /\ MEM_EXT_START + x < MEM_EXT_START + MEM_PAGE_SIZE
      BY Places DEF Address
    <3> QED BY <3>1, <1>8
  <2> QED BY <2>1, <2>2, <2>3, <1>8 DEF d, m, c, e, found
<1> QED BY <1>5, <1>6, <1>7, <1>8

\* The page that memory_create_map comes to is an address of its region.
LEMMA FrontierBounds ==
    ASSUME elf \in Kernels, map_idx \in 1..5, map_page \in Nat, map_page < page_count
    PROVE  Frontier \in Nat /\ Frontier < UINT_MOD /\ map_page + 1 <= page_count
<1>1. /\ vstart \in Nat /\ vend \in Nat /\ vend < UINT_MOD /\ page_count \in Int
      /\ MEM_PAGE_SIZE * page_count <= vend - vstart
  BY RegionBounds
<1>2. map_page + 1 \in Int /\ map_page + 1 <= page_count
  BY <1>1
<1>3. MEM_PAGE_SIZE * (map_page + 1) <= MEM_PAGE_SIZE * page_count
  BY <1>1, <1>2, Places, MulLe
<1> DEFINE z == MEM_PAGE_SIZE * map_page
           y == MEM_PAGE_SIZE * page_count
<1>4. MEM_PAGE_SIZE * (map_page + 1) = z + MEM_PAGE_SIZE /\ z \in Nat /\ y \in Int
  BY <1>1, Places
<1>5. Frontier = vstart + z
  BY <1>1, Places DEF Frontier
<1>6. z + MEM_PAGE_SIZE <= y /\ y <= vend - vstart
  BY <1>1, <1>3, <1>4
<1> HIDE DEF z, y
<1> QED BY <1>1, <1>2, <1>4, <1>5, <1>6, Places

\* A page in another entry of the directory, one that begins below v, ends at v or below.
LEMMA OtherEntry ==
    ASSUME NEW v \in Nat, v < UINT_MOD, NEW j \in 0..(MEM_PAGE_SIZE - 1), j # pde_index(v),
           j * (MEM_PAGE_SIZE * MEM_PAGE_SIZE) < v, NEW x \in 0..(MEM_PAGE_SIZE - 1)
    PROVE  j * (MEM_PAGE_SIZE * MEM_PAGE_SIZE) + x * MEM_PAGE_SIZE + MEM_PAGE_SIZE <= v
<1> DEFINE p == MEM_PAGE_SIZE
           q == p * p
           c == pde_index(v)
           y == pte_index(v)
<1>1. p \in Nat \ {0} /\ q \in Nat \ {0} /\ j \in Int /\ x \in Int /\ x <= p - 1
  BY Places
<1>2. c \in 0..(p - 1) /\ y \in 0..(p - 1) /\ q * c + p * y <= v /\ v < q * c + p * y + p
  BY Indices
<1>3. j # c /\ j * q < v
  OBVIOUS
<1>4. SUFFICES j * q + x * p + p <= v
  OBVIOUS
<1> HIDE DEF p, c, y
<1>5. \A z \in 0..(p - 1) : p * z \in Nat /\ p * z + p <= q
  <2> SUFFICES ASSUME NEW z \in 0..(p - 1) PROVE p * z \in Nat /\ p * z + p <= q
    OBVIOUS
  <2>1. z + 1 <= p /\ z + 1 \in Int /\ p \in Int /\ p \in Nat
    BY <1>1
  <2>2. p * (z + 1) <= p * p
    BY <2>1, MulLe
  <2>3. p * (z + 1) = p * z + p /\ p * z \in Nat
    BY <1>1
  <2> QED BY <2>2, <2>3
<1> HIDE DEF q
<1> DEFINE py == p * y
           px == p * x
           qc == q * c
           qj == q * j
<1>6. py \in Nat /\ py + p <= q /\ px \in Nat /\ px + p <= q
  BY <1>1, <1>2, <1>5
<1>7. qc \in Nat /\ qj \in Nat /\ c \in Int
  BY <1>1, <1>2
<1>8. j * q = qj /\ x * p = px
  BY <1>1
<1>9. qj < v /\ qc + py <= v /\ v < qc + py + p
  BY <1>2, <1>3, <1>8
<1> HIDE DEF py, px
<1>10. qj < qc + q
  <2> HIDE DEF qj, qc
  <2> QED BY <1>1, <1>6, <1>7, <1>9
<1>11. j <= c
  BY <1>10, <1>1, <1>7, MulStep
<1>12. j + 1 <= c /\ j + 1 \in Int
  BY <1>1, <1>3, <1>7, <1>11
<1>13. q * (j + 1) <= q * c
  BY <1>1, <1>7, <1>12, MulLe
<1>14. q * (j + 1) = qj + q
  BY <1>1
<1>15. qj + q <= qc
  BY <1>13, <1>14
<1>16. qj + px + p <= v
  <2> HIDE DEF qj, qc
  <2> QED BY <1>1, <1>6, <1>7, <1>9, <1>15
<1> QED BY <1>8, <1>16

\* An entry is written: the frontier moves on by its page.
LEMMA MapWrite ==
    ASSUME BootInv, pc = "create_kernel_table", map_idx \in 1..5, map_page < page_count,
           UNCHANGED <<pc, elf, map_idx>>, map_page' = map_page + 1,
           NEW m, DOMAIN m = Address,
           NEW w, ram' = [m EXCEPT ![MEM_EXT_START + pte_index(Frontier)] = w],
           \A j \in 0..(MEM_PAGE_SIZE - 1) :
               m[elf.kernel_page_dir + j] = IF j = pde_index(Frontier)
                                            THEN MEM_EXT_START + PTE_P + PTE_W
                                            ELSE ram[elf.kernel_page_dir + j],
           \/ /\ present(ram[elf.kernel_page_dir + pde_index(Frontier)])
              /\ \A x \in 0..(MEM_PAGE_SIZE - 1) : m[MEM_EXT_START + x] = ram[MEM_EXT_START + x]
           \/ \A x \in 0..(MEM_PAGE_SIZE - 1) : m[MEM_EXT_START + x] = 0,
           elf.kernel_page_dir \in Nat, elf.kernel_page_dir + MEM_PAGE_SIZE < MEM_EXT_START
    PROVE  MapInv'
<1> DEFINE v == Frontier
           p == MEM_PAGE_SIZE
           q == p * p
           d == elf.kernel_page_dir
           c == pde_index(v)
           y == pte_index(v)
<1>1. elf \in Kernels /\ map_page \in Nat
  BY DEF BootInv, BootTypeOK
<1>2. v \in Nat /\ v < UINT_MOD /\ map_page + 1 <= page_count
  BY <1>1, FrontierBounds
<1>3. c \in 0..(p - 1) /\ y \in 0..(p - 1) /\ q * c + p * y <= v /\ v < q * c + p * y + p
  BY <1>2, Indices
<1>4. vstart' = vstart /\ vend' = vend /\ page_count' = page_count
  <2>1. kernel_map' = kernel_map
    BY DEF kernel_map
  <2>2. vstart' = vstart /\ vend' = vend
    BY <2>1 DEF vstart, vend
  <2> QED BY <2>2 DEF page_count
<1>5. Frontier' = v + p
  <2>1. vstart \in Nat
    BY <1>1, RegionBounds
  <2>2. (map_page + 1) * p = map_page * p + p /\ map_page * p \in Nat
    BY <1>1, Places
  <2>3. Frontier' = vstart + (map_page + 1) * p /\ v = vstart + map_page * p
    BY <1>4 DEF Frontier
  <2> QED BY <2>1, <2>2, <2>3, Places
<1>6. p \in Nat \ {0} /\ q \in Nat \ {0}
  BY Places
<1>7. pc' \in Pooled
  BY DEF Pooled, Tables
<1>8. SUFFICES ASSUME elf.e_text % MEM_PAGE_SIZE = 0,
                      NEW j \in 0..(p - 1), present(ram'[d + j])
               PROVE  /\ j * q < v + p
                      /\ \A x \in 0..(p - 1) : present(ram'[MEM_EXT_START + x]) =>
                           j * q + x * p + p <= v + p
  BY <1>2, <1>4, <1>5, <1>7 DEF MapInv
<1>9. \A i \in 0..(p - 1) : present(ram[d + i]) =>
        /\ i * q < v
        /\ \A x \in 0..(p - 1) : present(ram[MEM_EXT_START + x]) => i * q + x * p + p <= v
  BY <1>8 DEF BootInv, MapInv
<1>10. \A i \in 0..(p - 1) : ram'[d + i] = m[d + i]
  <2> SUFFICES ASSUME NEW i \in 0..(p - 1) PROVE ram'[d + i] = m[d + i]
    OBVIOUS
  <2>1. d \in Nat /\ d + p < MEM_EXT_START
    OBVIOUS
  <2> HIDE DEF d, v, c, y
  <2>2. d + i # MEM_EXT_START + y /\ d + i \in Address
    BY <2>1, <1>3, Places DEF Address
  <2> QED BY <2>2 DEF y, v
<1>11. \A x \in 0..(p - 1) : x # y => ram'[MEM_EXT_START + x] = m[MEM_EXT_START + x]
  <2> SUFFICES ASSUME NEW x \in 0..(p - 1), x # y
               PROVE  ram'[MEM_EXT_START + x] = m[MEM_EXT_START + x]
    OBVIOUS
  <2> HIDE DEF v, c, y
  <2>1. MEM_EXT_START + x # MEM_EXT_START + y /\ MEM_EXT_START + x \in Address
    BY <1>3, Places DEF Address
  <2> QED BY <2>1 DEF y, v
<1>12. j # c => present(ram[d + j])
  BY <1>8, <1>10
<1>13. \/ /\ present(ram[d + c])
          /\ \A x \in 0..(p - 1) : m[MEM_EXT_START + x] = ram[MEM_EXT_START + x]
       \/ \A x \in 0..(p - 1) : m[MEM_EXT_START + x] = 0
  OBVIOUS
<1>14. ~present(0)
  BY DEF present
<1> DEFINE qc == q * c
           py == p * y
<1>15. qc \in Nat /\ py \in Nat /\ c * q = qc /\ y * p = py /\ qc + py <= v
  BY <1>3, <1>6
<1> HIDE DEF v, d, c, y, qc, py
<1>16. CASE j # c
  <2>1. j * q < v
    BY <1>9, <1>12, <1>16
  <2>2. \A x \in 0..(p - 1) : j * q + x * p + p <= v
    BY <2>1, <1>2, <1>16, OtherEntry DEF c
  <2> DEFINE t == j * q
  <2>3. t \in Nat
    BY <1>6
  <2>4. t < v + p
    <3> HIDE DEF t
    <3> QED BY <2>1, <2>3, <1>2, <1>6 DEF t
  <2>5. ASSUME NEW x \in 0..(p - 1) PROVE t + x * p + p <= v + p
    <3> DEFINE u == t + x * p + p
    <3>1. u \in Nat
      <4>1. x * p \in Nat
        BY <1>6
      <4> HIDE DEF t
      <4> QED BY <4>1, <2>3, <1>6
    <3>2. u <= v
      BY <2>2
    <3> HIDE DEF u
    <3>3. u <= v + p
      BY <3>1, <3>2, <1>2, <1>6
    <3> QED BY <3>3 DEF u
  <2> QED BY <2>4, <2>5
<1>17. CASE j = c
  <2>1. qc < v + p
    BY <1>2, <1>6, <1>15
  <2>2. ASSUME NEW x \in 0..(p - 1), present(ram'[MEM_EXT_START + x])
        PROVE  qc + x * p + p <= v + p
    <3>1. CASE x = y
      <4>1. x * p = py
        BY <3>1, <1>15
      <4> QED BY <4>1, <1>2, <1>6, <1>15
    <3>2. CASE x # y
      <4>1. present(m[MEM_EXT_START + x])
        BY <3>2, <2>2, <1>11
      <4>2. present(ram[d + c]) /\ present(ram[MEM_EXT_START + x])
        BY <4>1, <1>13, <1>14
      <4>3. c * q + x * p + p <= v
        BY <4>2, <1>3, <1>9
      <4> DEFINE u == x * p
      <4>4. u \in Nat
        BY <1>6
      <4>5. qc + u + p <= v
        BY <4>3, <1>15
      <4> HIDE DEF u
      <4>6. qc + u + p <= v + p
        BY <4>4, <4>5, <1>2, <1>6, <1>15
      <4> QED BY <4>6 DEF u
    <3> QED BY <3>1, <3>2
  <2> QED BY <2>1, <2>2, <1>15, <1>17
<1> QED BY <1>16, <1>17

\* The three ways through a turn of memory_create_map's loop.
LEMMA CreateMapTurn ==
    ASSUME BootInv, memory_create_map
    PROVE  LET found == find_pte(elf.kernel_page_dir, Frontier)
           IN  /\ pc = "create_kernel_table" /\ map_idx \in 1..5 /\ map_page \in Nat
               /\ map_page < page_count
               /\ search_idx' = found.search_idx
               /\ \/ found.pte = 0 /\ NextRegion /\ UNCHANGED <<pc, ram>>
                  \/ /\ found.pte # 0
                     /\ present(Word(found.ram, found.pte))
                     /\ pc' = "panic" /\ ram' = found.ram
                     /\ UNCHANGED <<map_idx, map_page>>
                  \/ /\ found.pte # 0
                     /\ \E w : ram' = [found.ram EXCEPT ![found.pte] = w]
                     /\ map_page' = map_page + 1
                     /\ UNCHANGED <<pc, map_idx>>
               /\ UNCHANGED <<boot_info, cr, smap, calls, elf, phdr_idx, paddr_alloc, dirs>>
<1>1. map_idx \in 1..6 /\ map_page \in Nat
  BY DEF BootInv, BootTypeOK
<1>2. map_idx <= Len(kernel_map)
  BY DEF memory_create_map
<1>3. map_idx \in 1..5
  BY <1>1, <1>2, KernelMap
<1> QED BY <1>1, <1>3, Zenon DEF memory_create_map, Frontier

\* memory_create_map keeps the invariant; it stops at a page that is mapped already only
\* if two regions share one.
LEMMA MemoryCreateMap ==
    ASSUME BootInv, memory_create_map
    PROVE  BootInv'
<1> DEFINE v == Frontier
           d == elf.kernel_page_dir
           found == find_pte(d, v)
           m == found.ram
           e == MEM_EXT_START + PTE_P + PTE_W
           c == pde_index(v)
           y == pte_index(v)
           p == MEM_PAGE_SIZE
<1>1. /\ pc = "create_kernel_table" /\ map_idx \in 1..5 /\ map_page \in Nat
      /\ map_page < page_count
      /\ search_idx' = found.search_idx
      /\ \/ found.pte = 0 /\ NextRegion /\ UNCHANGED <<pc, ram>>
         \/ /\ found.pte # 0
            /\ present(Word(m, found.pte))
            /\ pc' = "panic" /\ ram' = m
            /\ UNCHANGED <<map_idx, map_page>>
         \/ /\ found.pte # 0
            /\ \E w : ram' = [m EXCEPT ![found.pte] = w]
            /\ map_page' = map_page + 1
            /\ UNCHANGED <<pc, map_idx>>
      /\ UNCHANGED <<boot_info, cr, smap, calls, elf, phdr_idx, paddr_alloc, dirs>>
  BY CreateMapTurn
<1>2. elf \in Kernels /\ dirs \subseteq {MEM_EXT_START} /\ DOMAIN ram = Address
  BY DEF BootInv, BootTypeOK
<1>3. v \in Nat /\ v < UINT_MOD
  BY <1>1, <1>2, FrontierBounds
<1>4. search_idx' = 0
  BY <1>1, <1>3, FindPte
<1>5. pc \in Tables /\ pc' \in Pooled
  BY <1>1 DEF Tables, Pooled
<1>6. map_idx' \in 1..6 /\ map_page' \in Nat
  BY <1>1 DEF NextRegion
<1>7. d \in Nat /\ d + p < MEM_EXT_START
  <2>1. d \in Nat /\ elf.mem_free_start \in Nat /\ d + p <= elf.mem_free_start
    BY <1>2, ElfLayout, PageDirLayout
  <2>2. /\ bitmap_byte_count(bitcount) \in Nat
        /\ elf.mem_free_start + bitmap_byte_count(bitcount) < MEM_EBDA_START
    BY <1>5, PoolFacts
  <2> QED BY <2>1, <2>2, Places
<1>8. c \in 0..(p - 1) /\ y \in 0..(p - 1)
      /\ (p * p) * c + p * y <= v /\ v < (p * p) * c + p * y + p
  BY <1>3, Indices
<1>9. ASSUME found.pte # 0
      PROVE  /\ found.pte = MEM_EXT_START + y
             /\ DOMAIN m = Address
             /\ \A x \in Address : x < MEM_EXT_START /\ ~(d <= x /\ x < d + p) => m[x] = ram[x]
             /\ \A j \in 0..(p - 1) : m[d + j] = IF j = c THEN e ELSE ram[d + j]
             /\ \/ /\ present(ram[d + c])
                   /\ \A x \in 0..(p - 1) : m[MEM_EXT_START + x] = ram[MEM_EXT_START + x]
                \/ \A x \in 0..(p - 1) : m[MEM_EXT_START + x] = 0
  BY <1>1, <1>3, <1>9, FoundEntry
<1>10. \A j \in 0..(p - 1) : d + j # MEM_EXT_START + y
  <2> HIDE DEF d, y
  <2> QED BY <1>7, <1>8, Places
<1>11. \A x \in Address : x < MEM_EXT_START => x # MEM_EXT_START + y
  <2> HIDE DEF y
  <2> QED BY <1>8, Places DEF Address
<1> HIDE DEF found, m, d, c, y, v
<1>12. ASSUME NEW x \in Address, x < MEM_EXT_START, ~(d <= x /\ x < d + p) PROVE ram'[x] = ram[x]
  BY <1>1, <1>9, <1>11, <1>12
<1>13. \A j \in 0..(p - 1) : ram'[d + j] \in {ram[d + j], e}
  <2> HIDE DEF e
  <2> SUFFICES ASSUME NEW j \in 0..(p - 1) PROVE ram'[d + j] \in {ram[d + j], e}
    OBVIOUS
  <2>1. d + j # MEM_EXT_START + y /\ d + j \in Address
    BY <1>7, <1>10, Places DEF Address
  <2>2. ASSUME found.pte # 0 PROVE ram'[d + j] = m[d + j]
    BY <2>1, <2>2, <1>1, <1>9
  <2>3. ASSUME found.pte # 0 PROVE m[d + j] \in {ram[d + j], e}
    BY <2>3, <1>9
  <2>4. found.pte = 0 => ram'[d + j] = ram[d + j]
    BY <1>1
  <2> QED BY <2>2, <2>3, <2>4
<1>14. DOMAIN ram' = Address
  BY <1>1, <1>2, <1>9
<1>15. /\ \A x \in Address : x < elf.mem_free_start /\ ~(d <= x /\ x < d + p) => ram'[x] = ram[x]
       /\ \A b \in 0..(bitmap_byte_count(bitcount) - 1) : ram'[elf.mem_free_start + b] = 0
  BY <1>5, <1>12, PoolFrame DEF d
<1>16. /\ BootTypeOK' /\ FileInv' /\ KernelIntact' /\ PagingInv' /\ DirInv'
       /\ TotalInv' /\ PoolInv' /\ BitmapInv'
  BY <1>1, <1>2, <1>4, <1>5, <1>6, <1>13, <1>14, <1>15, TableFrame DEF d
<1>17. CASE found.pte = 0 /\ NextRegion /\ UNCHANGED <<pc, ram>>
  <2>1. map_idx <= 5
    BY <1>1
  <2>2. MapInv'
    BY <2>1, <1>1, <1>17, RegionStep
  <2>3. PanicOnlyShared'
    BY <1>1, <1>17 DEF PanicOnlyShared
  <2> QED BY <2>2, <2>3, <1>16 DEF BootInv
<1>18. CASE /\ found.pte # 0
            /\ present(Word(m, found.pte))
            /\ pc' = "panic" /\ ram' = m
            /\ UNCHANGED <<map_idx, map_page>>
  <2>1. MapInv'
    BY <1>18 DEF MapInv, Pooled
  <2>2. PanicOnlyShared'
    <3>1. SUFFICES ASSUME elf.e_text % p = 0 PROVE FALSE
      BY <1>1 DEF PanicOnlyShared
    <3>2. MEM_EXT_START + y \in Address
      BY <1>8, Places DEF Address
    <3>3. present(m[MEM_EXT_START + y])
      BY <3>2, <1>9, <1>18 DEF Word
    <3>4. ~present(0)
      BY DEF present
    <3>5. present(ram[d + c]) /\ present(ram[MEM_EXT_START + y])
      BY <3>3, <3>4, <1>8, <1>9, <1>18
    <3>6. c * (p * p) + y * p + p <= v
      <4>1. map_idx <= 5
        BY <1>1
      <4> QED BY <4>1, <3>1, <3>5, <1>1, <1>8 DEF BootInv, MapInv, d, v
    <3> DEFINE qc == (p * p) * c
               py == p * y
    <3>7. qc \in Nat /\ py \in Nat /\ c * (p * p) = qc /\ y * p = py
      BY <1>8, Places
    <3>8. v < qc + py + p
      BY <1>8
    <3>9. qc + py + p <= v
      BY <3>6, <3>7
    <3> HIDE DEF qc, py
    <3> QED BY <3>7, <3>8, <3>9, <1>3, Places
  <2> QED BY <2>1, <2>2, <1>16 DEF BootInv
<1>19. CASE /\ found.pte # 0
            /\ \E w : ram' = [m EXCEPT ![found.pte] = w]
            /\ map_page' = map_page + 1
            /\ UNCHANGED <<pc, map_idx>>
  <2>1. PICK w : ram' = [m EXCEPT ![MEM_EXT_START + y] = w]
    BY <1>9, <1>19
  <2>2. MapInv'
    BY <2>1, <1>1, <1>7, <1>9, <1>19, MapWrite DEF v, d, c, y
  <2>3. PanicOnlyShared'
    BY <1>1, <1>19 DEF PanicOnlyShared
  <2> QED BY <2>2, <2>3, <1>16 DEF BootInv
<1> QED BY <1>1, <1>17, <1>18, <1>19

\* memory_create_uvm writes the page that it is given, the first of the pool.
LEMMA MemoryCreateUvm ==
    ASSUME BootInv, memory_create_uvm
    PROVE  BootInv'
<1> DEFINE d == elf.kernel_page_dir
           f == [i \in 0..(MEM_PAGE_SIZE - 1) |->
                    IF i < user_pde_start THEN ram[elf.kernel_page_dir + i] ELSE 0]
<1>1. /\ pc = "running"
      /\ \/ addr_alloc_page = 0 /\ UNCHANGED <<ram, dirs>>
         \/ /\ addr_alloc_page # 0
            /\ ram' = Copy(ram, addr_alloc_page, MEM_PAGE_SIZE, f)
            /\ dirs' = dirs \cup {addr_alloc_page}
      /\ search_idx' = NextFree
      /\ UNCHANGED <<pc, boot_info, cr, smap, calls, elf, phdr_idx, paddr_alloc, map_idx, map_page>>
  BY DEF memory_create_uvm
<1> HIDE DEF f
<1>2. pc \in Tables /\ pc' \in Pooled
  BY <1>1 DEF Tables, Pooled
<1>3. NextFree = 0 /\ addr_alloc_page \in {0, MEM_EXT_START}
  BY <1>2, FirstPage
<1>4. elf \in Kernels /\ dirs \subseteq {MEM_EXT_START} /\ DOMAIN ram = Address
      /\ map_idx \in 1..6 /\ map_page \in Nat
  BY DEF BootInv, BootTypeOK
<1>5. /\ DOMAIN Copy(ram, MEM_EXT_START, MEM_PAGE_SIZE, f) = Address
      /\ \A x \in Address : x < MEM_EXT_START =>
           Copy(ram, MEM_EXT_START, MEM_PAGE_SIZE, f)[x] = ram[x]
  <2>1. MEM_EXT_START \in Int /\ MEM_PAGE_SIZE \in Int
    BY Places
  <2>2. \A x \in Address : x < MEM_EXT_START => ~(MEM_EXT_START <= x)
    BY Places DEF Address
  <2>3. /\ DOMAIN Copy(ram, MEM_EXT_START, MEM_PAGE_SIZE, f) = Address
        /\ \A x \in Address :
             Copy(ram, MEM_EXT_START, MEM_PAGE_SIZE, f)[x] =
                 IF MEM_EXT_START <= x /\ x < MEM_EXT_START + MEM_PAGE_SIZE
                 THEN f[x - MEM_EXT_START] ELSE ram[x]
    BY <2>1, CopyAt
  <2> QED BY <2>2, <2>3
<1>6. DOMAIN ram' = Address /\ (\A x \in Address : x < MEM_EXT_START => ram'[x] = ram[x])
      /\ dirs' \subseteq {MEM_EXT_START}
  BY <1>1, <1>3, <1>4, <1>5
<1>7. /\ \A x \in Address :
           x < elf.mem_free_start /\ ~(d <= x /\ x < d + MEM_PAGE_SIZE) => ram'[x] = ram[x]
      /\ \A b \in 0..(bitmap_byte_count(bitcount) - 1) : ram'[elf.mem_free_start + b] = 0
  BY <1>2, <1>6, PoolFrame
<1>8. \A j \in 0..(MEM_PAGE_SIZE - 1) : ram'[d + j] = ram[d + j]
  <2>1. d \in Nat /\ elf.mem_free_start \in Nat /\ d + MEM_PAGE_SIZE <= elf.mem_free_start
    BY <1>4, ElfLayout, PageDirLayout
  <2>2. /\ bitmap_byte_count(bitcount) \in Nat
        /\ elf.mem_free_start + bitmap_byte_count(bitcount) < MEM_EBDA_START
    BY <1>2, PoolFacts
  <2>3. d + MEM_PAGE_SIZE < MEM_EXT_START
    BY <2>1, <2>2, Places
  <2> HIDE DEF d
  <2>4. \A j \in 0..(MEM_PAGE_SIZE - 1) : d + j \in Address /\ d + j < MEM_EXT_START
    BY <2>1, <2>3, Places DEF Address
  <2> QED BY <2>4, <1>6
<1>9. /\ BootTypeOK' /\ FileInv' /\ KernelIntact' /\ PagingInv' /\ DirInv'
      /\ TotalInv' /\ PoolInv' /\ BitmapInv'
  BY <1>1, <1>2, <1>3, <1>4, <1>6, <1>7, <1>8, TableFrame
<1>10. MapInv' /\ PanicOnlyShared'
  BY <1>1 DEF MapInv, PanicOnlyShared, Pooled, Tables
<1> QED BY <1>9, <1>10 DEF BootInv

\* A byte without a bit is 0.
LEMMA ZeroByte ==
    ASSUME NEW v \in 0..255, \A k \in 0..7 : (v \div 2 ^ k) % 2 = 0
    PROVE  v = 0
<1>1. 2 ^ 0 = 1 /\ 2 ^ 1 = 2 /\ 2 ^ 2 = 4 /\ 2 ^ 3 = 8
      /\ 2 ^ 4 = 16 /\ 2 ^ 5 = 32 /\ 2 ^ 6 = 64 /\ 2 ^ 7 = 128
  OBVIOUS
<1>2. 0 \in 0..7 /\ 1 \in 0..7 /\ 2 \in 0..7 /\ 3 \in 0..7
      /\ 4 \in 0..7 /\ 5 \in 0..7 /\ 6 \in 0..7 /\ 7 \in 0..7
  OBVIOUS
<1>3. /\ (v \div 2 ^ 0) % 2 = 0 /\ (v \div 2 ^ 1) % 2 = 0 /\ (v \div 2 ^ 2) % 2 = 0
      /\ (v \div 2 ^ 3) % 2 = 0 /\ (v \div 2 ^ 4) % 2 = 0 /\ (v \div 2 ^ 5) % 2 = 0
      /\ (v \div 2 ^ 6) % 2 = 0 /\ (v \div 2 ^ 7) % 2 = 0
  BY <1>2, Zenon
<1>4. /\ (v \div 1) % 2 = 0 /\ (v \div 2) % 2 = 0 /\ (v \div 4) % 2 = 0
      /\ (v \div 8) % 2 = 0 /\ (v \div 16) % 2 = 0 /\ (v \div 32) % 2 = 0
      /\ (v \div 64) % 2 = 0 /\ (v \div 128) % 2 = 0
  BY <1>1, <1>3
<1> QED BY <1>4

\* Freeing pages leaves the bitmap empty.
LEMMA FreePagesEmpty ==
    ASSUME BootInv, pc \in Tables, NEW addrs
    PROVE  LET m == addr_free_pages(ram, addrs)
           IN  /\ DOMAIN m = Address
               /\ \A x \in Address : m[x] = ram[x]
<1> DEFINE n == bitmap_byte_count(bitcount)
           freed == {((a - paddr_alloc.start) % UINT_MOD) \div MEM_PAGE_SIZE : a \in addrs}
           after(i) == IF i \in freed /\ i < bitcount THEN 0 ELSE bitmap_get_bit(ram, i)
           byte(b) == CHOOSE v \in 0..255 :
                          \A k \in 0..7 : (v \div 2 ^ k) % 2 = after(8 * b + k)
           g == [b \in 0..(n - 1) |-> byte(b)]
           f == elf.mem_free_start
           m == addr_free_pages(ram, addrs)
<1>1. m = Copy(ram, paddr_alloc.bits, n, g)
  BY Zenon DEF addr_free_pages
<1>2. paddr_alloc.bits = f /\ n \in Nat /\ f + n < MEM_EBDA_START
  BY PoolFacts
<1>3. f \in Nat
  BY ElfLayout DEF BootInv, BootTypeOK
<1>4. \A b \in 0..(n - 1) : g[b] = 0
  <2> SUFFICES ASSUME NEW b \in 0..(n - 1) PROVE byte(b) = 0
    OBVIOUS
  <2>1. ASSUME NEW k \in 0..7 PROVE after(8 * b + k) = 0
    <3>1. 8 * b + k \in Nat /\ (8 * b + k) \div 8 = b
      BY <1>2
    <3>2. bitmap_get_bit(ram, 8 * b + k) = 0
      BY <3>1, NoBitSet
    <3> QED BY <3>2
  <2>2. ASSUME NEW k \in 0..7 PROVE (0 \div 2 ^ k) % 2 = 0
    <3> DEFINE q == 2 ^ k
    <3>1. q \in {1, 2, 4, 8, 16, 32, 64, 128}
      BY PowerOfTwo
    <3> HIDE DEF q
    <3>2. (0 \div q) % 2 = 0
      BY <3>1
    <3> QED BY <3>2 DEF q
  <2> HIDE DEF after
  <2>3. 0 \in 0..255 /\ \A k \in 0..7 : (0 \div 2 ^ k) % 2 = after(8 * b + k)
    BY <2>1, <2>2
  <2>4. byte(b) \in 0..255 /\ \A k \in 0..7 : (byte(b) \div 2 ^ k) % 2 = after(8 * b + k)
    BY <2>3, Zenon
  <2> HIDE DEF byte
  <2>5. \A k \in 0..7 : (byte(b) \div 2 ^ k) % 2 = 0
    BY <2>1, <2>4
  <2> QED BY <2>4, <2>5, ZeroByte
<1> HIDE DEF g, n, f, m
<1>5. /\ DOMAIN m = Address
      /\ \A x \in Address : m[x] = IF f <= x /\ x < f + n THEN g[x - f] ELSE ram[x]
  <2>1. f \in Int /\ n \in Int
    BY <1>2, <1>3
  <2> QED BY <1>1, <1>2, <2>1, CopyAt
<1>6. \A b \in 0..(n - 1) : ram[f + b] = 0
  BY <1>2 DEF BootInv, BitmapInv, n
<1>7. ASSUME NEW x \in Address PROVE m[x] = ram[x]
  <2>1. CASE f <= x /\ x < f + n
    <3>1. x - f \in 0..(n - 1) /\ f + (x - f) = x
      BY <2>1, <1>2, <1>3 DEF Address
    <3> QED BY <3>1, <2>1, <1>4, <1>5, <1>6
  <2>2. CASE ~(f <= x /\ x < f + n)
    BY <2>2, <1>5
  <2> QED BY <2>1, <2>2
<1> QED BY <1>5, <1>7 DEF m

\* memory_destroy_uvm clears bits that are clear.
LEMMA MemoryDestroyUvm ==
    ASSUME BootInv, NEW page_dir, memory_destroy_uvm(page_dir)
    PROVE  BootInv'
<1>1. /\ pc = "running"
      /\ \E addrs : ram' = addr_free_pages(ram, addrs)
      /\ dirs' = dirs \ {page_dir}
      /\ UNCHANGED <<pc, boot_info, cr, smap, calls, elf, phdr_idx,
                     paddr_alloc, search_idx, map_idx, map_page>>
  BY Zenon DEF memory_destroy_uvm
<1>2. pc \in Tables /\ pc' \in Pooled
  BY <1>1 DEF Tables, Pooled
<1>3. DOMAIN ram' = Address /\ \A x \in Address : ram'[x] = ram[x]
  BY <1>1, <1>2, FreePagesEmpty
<1>4. elf \in Kernels /\ dirs \subseteq {MEM_EXT_START} /\ DOMAIN ram = Address
      /\ map_idx \in 1..6 /\ map_page \in Nat /\ search_idx = 0
  BY DEF BootInv, BootTypeOK, BitmapInv
<1>5. /\ \A x \in Address :
           x < elf.mem_free_start
           /\ ~(elf.kernel_page_dir <= x /\ x < elf.kernel_page_dir + MEM_PAGE_SIZE)
               => ram'[x] = ram[x]
      /\ \A b \in 0..(bitmap_byte_count(bitcount) - 1) : ram'[elf.mem_free_start + b] = 0
  BY <1>2, <1>3, PoolFrame
<1>6. \A j \in 0..(MEM_PAGE_SIZE - 1) : ram'[elf.kernel_page_dir + j] = ram[elf.kernel_page_dir + j]
  <2> DEFINE d == elf.kernel_page_dir
  <2>1. d \in Nat /\ d + MEM_PAGE_SIZE <= RAM_TOP
    <3>1. /\ d \in Nat /\ elf.mem_free_start \in Nat /\ SYS_KERNEL_ADDR \in Nat
          /\ d + MEM_PAGE_SIZE <= elf.mem_free_start /\ elf.mem_free_start <= SYS_KERNEL_ADDR
          /\ Len(elf.words) \in Nat /\ SYS_KERNEL_ADDR + Len(elf.words) <= RAM_TOP
      BY <1>4, ElfLayout, PageDirLayout
    <3> QED BY <3>1, Places
  <2> HIDE DEF d
  <2>2. \A j \in 0..(MEM_PAGE_SIZE - 1) : d + j \in Address
    BY <2>1, Places DEF Address
  <2> QED BY <2>2, <1>3 DEF d
<1>7. dirs' \subseteq {MEM_EXT_START}
  BY <1>1, <1>4
<1>8. /\ BootTypeOK' /\ FileInv' /\ KernelIntact' /\ PagingInv' /\ DirInv'
      /\ TotalInv' /\ PoolInv' /\ BitmapInv'
  BY <1>1, <1>2, <1>3, <1>4, <1>5, <1>6, <1>7, TableFrame
<1>9. MapInv' /\ PanicOnlyShared'
  BY <1>1 DEF MapInv, PanicOnlyShared, Pooled, Tables
<1> QED BY <1>8, <1>9 DEF BootInv

-----------------------------------------------------------------------------
(* The theorems.                                                           *)

\* The machine is switched on.
LEMMA BootInitial ==
    ASSUME MemoryInit
    PROVE  BootInv
<1>1. /\ pc = "read_loader" /\ ram = [a \in Address |-> Junk] /\ boot_info = <<>>
      /\ smap \in MemoryMaps /\ calls = 0 /\ elf \in Kernels /\ phdr_idx = 1
      /\ paddr_alloc = NoPool /\ search_idx = 0 /\ map_idx = 1 /\ map_page = 0 /\ dirs = {}
  BY DEF MemoryInit, LoaderInit
<1>2. pc \notin Pooled /\ pc \notin Tables /\ ~InKernel
  BY <1>1 DEF Pooled, Tables, InKernel
<1>3. BootTypeOK
  <2>1. smap \in Seq(SmapEntry) /\ smap # <<>>
    BY <1>1, MemoryMapAssumption
  <2>2. 0 < Len(smap) /\ Len(smap) \in Nat
    BY <2>1
  <2>3. Len(elf.phdr) \in Nat
    BY <1>1, ElfLayout
  <2>4. boot_info \in Seq(Region)
    BY <1>1
  <2> QED BY <1>1, <2>2, <2>3, <2>4 DEF BootTypeOK
<1>4. FileInv
  BY <1>1 DEF FileInv
<1>5. KernelIntact /\ DirInv /\ PagingInv
  BY <1>1, <1>2 DEF KernelIntact, DirInv, PagingInv
<1>6. TotalInv
  BY <1>1, TotalEmpty DEF TotalInv
<1>7. PoolInv /\ BitmapInv /\ MapInv
  BY <1>1, <1>2 DEF PoolInv, BitmapInv, MapInv, Pooled, Tables
<1>8. PanicOnlyShared
  BY <1>1 DEF PanicOnlyShared
<1> QED BY <1>3, <1>4, <1>5, <1>6, <1>7, <1>8 DEF BootInv

\* Every step of the boot and of the kernel's memory management keeps the invariant.
LEMMA BootStep ==
    ASSUME BootInv, [MemoryNext]_vars
    PROVE  BootInv'
<1>1. CASE UNCHANGED vars
  BY <1>1, BootStutter
<1>2. CASE LoaderNext /\ UNCHANGED memoryVars
  <2>1. CASE read_loader
    BY <1>2, <2>1, ReadLoader
  <2>2. CASE read_loader_again
    <3>1. UNCHANGED vars
      BY <1>2, <2>2 DEF read_loader_again, vars
    <3> QED BY <3>1, BootStutter
  <2>3. CASE detect_memory
    BY <1>2, <2>3, DetectMemory
  <2>4. CASE detect_memory_fails
    BY <1>2, <2>4, DetectMemoryFails
  <2>5. CASE read_disk
    BY <1>2, <2>5, ReadDisk
  <2>6. CASE reload_elf_file
    BY <1>2, <2>6, ReloadElfFile
  <2>7. CASE load_kernel
    BY <1>2, <2>7, LoadKernel
  <2> QED BY <1>2, <2>1, <2>2, <2>3, <2>4, <2>5, <2>6, <2>7 DEF LoaderNext
<1>3. CASE memory_init
  BY <1>3, MemoryInitStep
<1>4. CASE memory_create_map
  BY <1>4, MemoryCreateMap
<1>5. CASE create_kernel_table
  BY <1>5, CreateKernelTable
<1>6. CASE memory_create_uvm
  BY <1>6, MemoryCreateUvm
<1>7. CASE \E d \in dirs : memory_destroy_uvm(d)
  BY <1>7, MemoryDestroyUvm
<1>8. CASE Stop
  BY <1>8, BootStutter DEF Stop
<1> QED BY <1>1, <1>2, <1>3, <1>4, <1>5, <1>6, <1>7, <1>8 DEF MemoryNext

\* BootInv is an invariant, from the boot sector to the running kernel: what is written,
\* and where, by read_loader, detect_memory, read_disk, reload_elf_file, memory_init,
\* create_kernel_table, memory_create_uvm and memory_destroy_uvm.
THEOREM BootInvariant == MemorySpec => []BootInv
<1>1. MemoryInit => BootInv
  BY BootInitial
<1>2. BootInv /\ [MemoryNext]_vars => BootInv'
  BY BootStep
<1> QED BY <1>1, <1>2, PTL DEF MemorySpec

\* Whatever the kernel's file holds and however it is laid out: the segments that the
\* loader has put in place are never written over by the bitmap, by page tables or by
\* page directories (loader_32.c:44, memory.c:242, 99, 168).
THEOREM KernelIntactAlways == MemorySpec => []KernelIntact
<1>1. BootInv => KernelIntact
  BY DEF BootInv
<1> QED BY <1>1, BootInvariant, PTL

\* The ASSERT that no page is mapped twice (memory.c:97) fails only where two regions of
\* kernel_map are widened to the same page, for any page size and any layout.
THEOREM PanicOnlySharedAlways == MemorySpec => []PanicOnlyShared
<1>1. BootInv => PanicOnlyShared
  BY DEF BootInv
<1> QED BY <1>1, BootInvariant, PTL

\* The pool is RAM: the sum of the regions is no more than the end of the last of them.
LEMMA PoolIsRam ==
    ASSUME BootInv
    PROVE  PoolInRam
<1> DEFINE t == total_mem_size(boot_info)
<1>1. SUFFICES ASSUME OneBlock, t >= MEM_EXT_START, paddr_alloc # NoPool
               PROVE  \E i \in DOMAIN smap :
                          /\ smap[i].type = 1
                          /\ smap[i].base <= paddr_alloc.start
                          /\ paddr_alloc.start + paddr_alloc.size <= smap[i].base + smap[i].length
  BY DEF PoolInRam
<1>2. paddr_alloc = addr_alloc_init(elf.mem_free_start, MEM_EXT_START, PoolSize)
  BY <1>1 DEF BootInv, PoolInv
<1>3. paddr_alloc.start = MEM_EXT_START /\ paddr_alloc.size = PoolSize
  BY <1>2 DEF addr_alloc_init
<1>4. t \in Nat /\ t < UINT_MOD
  <2>1. t \in 0..(UINT_MOD - 1)
    BY TotalNat DEF BootInv, BootTypeOK
  <2> HIDE DEF t
  <2> QED BY <2>1, Places
<1>5. PoolSize \in Nat /\ PoolSize <= t - MEM_EXT_START
  <2> DEFINE r == t - MEM_EXT_START
  <2>1. PoolSize = down2(r % UINT_MOD, MEM_PAGE_SIZE)
    BY DEF PoolSize
  <2>2. t >= MEM_EXT_START
    BY <1>1
  <2> HIDE DEF t
  <2>3. r \in Nat /\ r < UINT_MOD
    BY <2>2, <1>4, Places
  <2> HIDE DEF r
  <2>4. r % UINT_MOD = r /\ r \in Int
    BY <2>3, Places, ModLe
  <2>5. down2(r, MEM_PAGE_SIZE) \in Nat /\ down2(r, MEM_PAGE_SIZE) <= r
    BY <2>3, <2>4, Places, Down2
  <2>6. PoolSize \in Nat /\ PoolSize <= r
    BY <2>1, <2>4, <2>5
  <2> QED BY <2>6 DEF r
<1>6. PICK i \in 1..calls : smap[i].type = 1 /\ t <= smap[i].base + smap[i].length
  <2>1. t # 0
    <3> HIDE DEF t
    <3> QED BY <1>1, <1>4, Places
  <2> QED BY <2>1 DEF BootInv, TotalInv
<1>7. i \in DOMAIN smap
  <2>1. smap \in Seq(SmapEntry) /\ calls \in 0..Len(smap)
    BY MemoryMapAssumption DEF BootInv, BootTypeOK
  <2> QED BY <2>1
<1>8. smap[i].base \in Nat /\ smap[i].length \in Nat
  <2>1. smap[i] \in SmapEntry
    BY <1>7, MemoryMapAssumption DEF BootInv, BootTypeOK
  <2> QED BY <2>1 DEF SmapEntry
<1>9. \/ smap[i].base + smap[i].length <= MEM_EXT_START
      \/ smap[i].base = MEM_EXT_START
  BY <1>1, <1>6, <1>7 DEF OneBlock
<1> HIDE DEF t
<1> DEFINE b == smap[i].base
           l == smap[i].length
<1>10. /\ b \in Nat /\ l \in Nat /\ t <= b + l
       /\ b + l <= MEM_EXT_START \/ b = MEM_EXT_START
  BY <1>6, <1>8, <1>9
<1> HIDE DEF b, l
<1>11. b <= MEM_EXT_START /\ MEM_EXT_START + PoolSize <= b + l
  BY <1>1, <1>4, <1>5, <1>10, Places
<1>12. smap[i].type = 1 /\ smap[i].base <= MEM_EXT_START
       /\ MEM_EXT_START + PoolSize <= smap[i].base + smap[i].length
  BY <1>6, <1>11 DEF b, l
<1> QED BY <1>3, <1>7, <1>12

\* Every page of the pool is RAM, for any memory map of the BIOS in which RAM from 1 MB on
\* is one block and any part of it that the loader has found (memory.c:152, 236).
THEOREM PoolInRamAlways == MemorySpec => []PoolInRam
<1>1. BootInv => PoolInRam
  BY PoolIsRam
<1> QED BY <1>1, BootInvariant, PTL

\* The first 4 MB are mapped to themselves.
LEMMA FirstFourMB ==
    ASSUME BootInv, InKernel, NEW a \in Nat, a < MEM_PAGE_SIZE * MEM_PAGE_SIZE
    PROVE  Translate(a) = a
<1> DEFINE q == MEM_PAGE_SIZE * MEM_PAGE_SIZE
           pde == Word(ram, cr.cr3 + pde_index(a))
<1>1. cr.pg = TRUE /\ cr.pse = TRUE /\ cr.cr3 = LoaderPageDir
  BY DEF BootInv, PagingInv, enable_page_mode
<1>2. q \in Nat \ {0} /\ q > 11
  <2>1. 12 <= MEM_PAGE_SIZE /\ 1 <= MEM_PAGE_SIZE /\ MEM_PAGE_SIZE \in Nat
    BY Places
  <2>2. MEM_PAGE_SIZE * 1 <= MEM_PAGE_SIZE * MEM_PAGE_SIZE
    BY <2>1, MulLe
  <2> QED BY <2>1, <2>2, Places
<1>3. pde_index(a) = a \div q
  BY DEF pde_index
<1>4. ASSUME cr.pg, present(pde), cr.pse, (pde \div PDE_PS) % 2 = 1
      PROVE  Translate(a) = down2(pde, q) + (a % q)
  BY <1>4, Zenon DEF Translate
<1>5. a < q
  OBVIOUS
<1> HIDE DEF q
<1>6. a \div q = 0 /\ a % q = a
  BY <1>2, <1>5
<1>7. LoaderPageDir \in Address /\ LoaderPageDir \in Nat
  <2>1. elf \in Kernels
    BY DEF BootInv, BootTypeOK
  <2>2. /\ LoaderPageDir \in Nat /\ elf.s_text \in Nat /\ LoaderPageDir < elf.s_text
        /\ elf.s_text <= elf.kernel_page_dir /\ elf.kernel_page_dir \in Nat
        /\ elf.kernel_page_dir + MEM_PAGE_SIZE <= elf.mem_free_start
        /\ elf.mem_free_start \in Nat /\ SYS_KERNEL_ADDR \in Nat
        /\ elf.mem_free_start <= SYS_KERNEL_ADDR
        /\ Len(elf.words) \in Nat /\ SYS_KERNEL_ADDR + Len(elf.words) <= RAM_TOP
    BY <2>1, ElfLayout, PageDirLayout
  <2> QED BY <2>2, Places DEF Address
<1>8. pde = 11
  <2>1. cr.cr3 + pde_index(a) = LoaderPageDir
    BY <1>1, <1>3, <1>6, <1>7
  <2>2. pc # "read_loader"
    BY DEF InKernel
  <2>3. ram[LoaderPageDir] = PTE_P + PTE_W + PDE_PS
    BY <2>2 DEF BootInv, PagingInv
  <2>4. ram[LoaderPageDir] = 11
    BY <2>3 DEF PTE_P, PTE_W, PDE_PS
  <2> QED BY <2>1, <2>4, <1>7 DEF Word
<1> HIDE DEF pde
<1>9. present(pde) /\ (pde \div PDE_PS) % 2 = 1
  BY <1>8 DEF present, PDE_PS
<1>10. down2(pde, q) = 0
  <2>1. 11 % q = 11
    BY <1>2
  <2> QED BY <2>1, <1>8 DEF down2
<1> QED BY <1>1, <1>4, <1>6, <1>9, <1>10

\* What the kernel uses is in the first 4 MB.
LEMMA UsedBelow ==
    ASSUME BootInv, InKernel, NEW a \in Used
    PROVE  a \in Nat /\ a < MEM_PAGE_SIZE * MEM_PAGE_SIZE
<1> DEFINE q == MEM_PAGE_SIZE * MEM_PAGE_SIZE
           d == elf.kernel_page_dir
           e == MEM_EXT_START + PTE_P + PTE_W
<1>1. elf \in Kernels /\ dirs \subseteq {MEM_EXT_START}
  BY DEF BootInv, BootTypeOK
<1>2. /\ elf.s_text \in Nat /\ d \in Nat /\ elf.mem_free_start \in Nat
      /\ d + MEM_PAGE_SIZE <= elf.mem_free_start /\ elf.mem_free_start <= SYS_KERNEL_ADDR
      /\ SYS_KERNEL_ADDR \in Nat /\ Len(elf.words) \in Nat
      /\ SYS_KERNEL_ADDR + Len(elf.words) <= RAM_TOP
  BY <1>1, ElfLayout, PageDirLayout
<1>3. MEM_EXT_START \in Nat /\ MEM_EXT_START < q /\ MEM_EBDA_START \in Nat /\ MEM_EBDA_START < q
  BY Constants
<1>4. \/ a \in elf.s_text..(MEM_EBDA_START - 1)
      \/ a \in Entries(ram, d, 0)
      \/ a \in dirs
  BY DEF Used
<1>5. CASE a \in elf.s_text..(MEM_EBDA_START - 1)
  <2> HIDE DEF q
  <2>1. q \in Nat
    BY Places DEF q
  <2>2. a \in Nat /\ a < q
    BY <2>1, <1>2, <1>3, <1>5
  <2> QED BY <2>2 DEF q
<1>6. CASE a \in Entries(ram, d, 0)
  <2>1. PICK j \in 0..(MEM_PAGE_SIZE - 1) :
          present(Word(ram, d + j)) /\ a = entry_paddr(Word(ram, d + j))
    BY <1>6 DEF Entries
  <2>2. ram[d + j] \in {0, e}
    BY DEF BootInv, DirInv
  <2> HIDE DEF d, e, q
  <2>3. d + j \in Address
    <3>1. d + j \in Nat /\ d + j < d + MEM_PAGE_SIZE
      BY <1>2, Places
    <3>2. d + MEM_PAGE_SIZE <= RAM_TOP
      BY <1>2, Places
    <3> QED BY <1>2, <3>1, <3>2, Places DEF Address
  <2>4. Word(ram, d + j) = ram[d + j]
    BY <2>3 DEF Word
  <2>5. ~present(0)
    BY DEF present
  <2>6. a = entry_paddr(e)
    BY <2>1, <2>2, <2>4, <2>5
  <2>7. a = MEM_EXT_START
    BY <2>6, EntryAddress DEF e
  <2> QED BY <2>7, <1>3 DEF q
<1>7. CASE a \in dirs
  BY <1>1, <1>3, <1>7
<1> QED BY <1>4, <1>5, <1>6, <1>7

\* The loader's page directory, with one entry for the first 4 MB, maps to itself every
\* page that the kernel uses, however large the pool is (loader_32.c:75, memory.c:56, 168):
\* it is only ever the first page of the pool that is given out.
THEOREM SelfMappedAlways == MemorySpec => []SelfMapped
<1>1. ASSUME BootInv PROVE SelfMapped
  <2>1. SUFFICES ASSUME InKernel, NEW a \in Used PROVE Translate(a) = a
    BY DEF SelfMapped
  <2>2. a \in Nat /\ a < MEM_PAGE_SIZE * MEM_PAGE_SIZE
    BY <1>1, <2>1, UsedBelow
  <2> QED BY <1>1, <2>1, <2>2, FirstFourMB
<1>2. BootInv => SelfMapped
  BY <1>1
<1> QED BY <1>2, BootInvariant, PTL
=============================================================================
