------------------------------- MODULE Memory -------------------------------
(***************************************************************************)
(* How VMs get their memory, src/core/mmu/mem.c and vm_init_mem_regions of *)
(* src/core/vm.c: page tables that are filled, split and searched, over    *)
(* the page pools of PagePool.                                             *)
(*                                                                         *)
(* Core c is the master of VM c.  What it does for its VM is a list of     *)
(* calls (todo): VmInitMemRegions writes it down from the configuration,   *)
(* and every call is one step, as it holds the lock of its address space,  *)
(* and of its section if cores share it.  The masters run at the same time *)
(* and share the pools and the GLOBAL section.  Addresses are numbers of   *)
(* pages.  A table of the first level has RootN entries and Lvls levels    *)
(* below it F entries each, all of which may be leaves (RISC-V).  Flags    *)
(* and the TLB, which is invalidated on all cores, are left out.           *)
(***************************************************************************)
EXTENDS PagePool, SequencesExt

CONSTANTS
    Cores,      \* masters, each of one VM
    Lvls, F,    \* levels of a page table, entries of a table
    RootN,      \* entries of a table of the first level
    PoolSize,   \* pages of the memory region
    HypPages,   \* of these, the pages of the hypervisor's image, cpus and bit map
    Configs     \* configurations of the VMs and of the shared memory

INVALID == -1

\* A configuration: vms, for each core [colors, img, regions, devs, ipcs, restarts] with
\*   img : [load, base, n, inplace],  regions : sequence of [base, n, phys, colors],
\*   devs : sequence of [base, n, phys],  ipcs : sequence of [base, n, id],
\* the bound restarts of its restarts, and shmem, a sequence of [n, phys, colors].
\* phys is INVALID if it is not fixed.
ASSUME MemoryAssumption ==
    /\ Lvls \in Nat \ {0, 1} /\ F \in Nat \ {0, 1} /\ RootN \in Nat /\ RootN % F = 0
    /\ PoolSize \in Nat /\ HypPages \in 0..PoolSize
    /\ \A cfg \in Configs : DOMAIN cfg.vms = Cores

VARIABLES
    config,     \* the configuration
    shmem,      \* shmem_table: phys, n, colors and cpu_masters
    pools,      \* page_pool_list
    tab,        \* page -> the page table in it
    as,         \* <<"HYP" or "VM", c>> -> its struct addr_space: root, colors
    content,    \* page -> what is in it: <<c, i>>, page i of the image of VM c, or <<>>
    todo,       \* core -> calls it still makes
    reg,        \* core -> its local variables
    restarts,   \* core -> how often its VM was restarted
    failed      \* core -> it has stopped with ERROR, or has faulted

vars == <<config, shmem, pools, tab, as, content, todo, reg, restarts, failed>>

-----------------------------------------------------------------------------
(* Page tables.  An entry is invalid, a table or a leaf, and may be reserved. *)

RootPages == RootN \div F
VaPages   == RootN * F ^ (Lvls - 1)
LvlPages(l) == F ^ (Lvls - 1 - l)
NEntries(l) == IF l = 0 THEN RootN ELSE F
Idx(l, va)  == (va \div LvlPages(l)) % NEntries(l)

Inv(rsv)  == [t |-> "inv", pa |-> 0, rsv |-> rsv]
Tab(page) == [t |-> "table", pa |-> page, rsv |-> FALSE]
Leaf(page) == [t |-> "leaf", pa |-> page, rsv |-> FALSE]

\* SEC_HYP_GLOBAL and SEC_HYP_VM in different entries of the root table;
\* SEC_VM_ANY is all of a VM's space.
SecBeg(sec) == IF sec = "HYP_VM" THEN VaPages \div 2 ELSE 0
SecEnd(sec) == IF sec = "GLOBAL" THEN VaPages \div 2 - 1 ELSE VaPages - 1

\* pt_get_pte: the table at a level that an address leads to, and its entry.
TabAt(s, a, l, va) ==
    LET t[k \in 0..l] == IF k = 0 THEN a.root ELSE s.tab[t[k - 1]][Idx(k - 1, va)].pa IN t[l]
Pte(s, a, l, va) == s.tab[TabAt(s, a, l, va)][Idx(l, va)]
SetPte(s, a, l, va, pte) == [s EXCEPT !.tab[TabAt(s, a, l, va)][Idx(l, va)] = pte]

\* The level at which the walk of an address ends, and what is there.
EndLvl(s, a, va) ==
    LET f[k \in 0..(Lvls - 1)] == IF Pte(s, a, k, va).t = "table" THEN f[k + 1] ELSE k IN f[0]
Mapped(s, a, va) == Pte(s, a, EndLvl(s, a, va), va).t = "leaf"
mem_translate(s, a, va) ==
    LET l == EndLvl(s, a, va) IN Pte(s, a, l, va).pa + (va % LvlPages(l))

\* A loop: rounds until one that changes nothing.
Loop(Round(_), x) ==
    LET RECURSIVE From(_)
        From(y) == LET z == Round(y) IN IF z = y THEN y ELSE From(z)
    IN From(x)

\* A new table below an entry; its entries are reserved if that was.
mem_alloc_pt(s, a, l, va) ==
    LET new == [i \in 0..(F - 1) |-> Inv(Pte(s, a, l, va).rsv)]
        With(r) ==
            IF r.pp.n = 0 THEN [s EXCEPT !.err = TRUE]
            ELSE [SetPte([s EXCEPT !.pools = r.pools], a, l, va, Tab(r.pp.base))
                    EXCEPT !.tab = (r.pp.base :> new) @@ @]
    IN With(mem_alloc_ppages(s.pools, a.colors, 1, FALSE))

\* A leaf, or a reserved entry, becomes a table with the same meaning.
mem_expand_pte(s, a, l, va) ==
    LET Fill(s1, old) ==
            IF old.t # "leaf" \/ s1.err THEN s1
            ELSE [s1 EXCEPT !.tab[Pte(s1, a, l, va).pa] =
                              [i \in 0..(F - 1) |-> Leaf(old.pa + i * LvlPages(l + 1))]]
    IN IF EndLvl(s, a, va) # l \/ l = Lvls - 1 THEN s
       ELSE Fill(mem_alloc_pt(s, a, l, va), Pte(s, a, l, va))

mem_inflate_pt(s, a, va, n) ==
    LET Level(x) ==
            LET Round(y) == IF y.va >= va + n THEN y
                           ELSE [s  |-> mem_expand_pte(y.s, a, x.l, y.va),
                                 va |-> y.va + LvlPages(x.l)]
            IN IF x.l = Lvls - 1 THEN x
               ELSE [s |-> Loop(Round, [s |-> x.s, va |-> va]).s, l |-> x.l + 1]
    IN Loop(Level, [s |-> s, l |-> 0]).s

-----------------------------------------------------------------------------
(* Allocation of virtual pages. *)

\* pte_allocable, of an entry that is invalid and not reserved.
Allocable(l, left, addr) ==
    l = Lvls - 1 \/ (LvlPages(l) <= left /\ addr % LvlPages(l) = 0)

\* Mutant: reserved entries are not skipped.
InUseIfLeaf(pte) == pte.t = "leaf"

InUse(pte) == pte.rsv \/ pte.t = "leaf"

\* The search, entry by entry.  enter is the top of its outer loop, where it
\* compares all n pages, not those still missing, with the rest of the section.
FindVpage(s, a, sec, at, n) ==
    LET Look(x, pte) ==
          IF InUse(pte) THEN [x EXCEPT !.count = 0, !.va = INVALID, !.stop = at # INVALID]
          ELSE IF pte.t = "table" THEN x
          ELSE IF Allocable(x.lvl, n - x.count, x.addr)
          THEN [x EXCEPT !.count = @ + LvlPages(x.lvl),
                         !.va = IF x.count = 0 THEN x.addr ELSE @]
          ELSE [x EXCEPT !.s = mem_alloc_pt(x.s, a, x.lvl, x.addr)]
        MoveOn(x) ==
          LET next == x.addr + LvlPages(x.lvl) IN
          IF x.stop \/ x.s.err THEN x
          ELSE IF Pte(x.s, a, x.lvl, x.addr).t = "table"
          THEN [x EXCEPT !.lvl = @ + 1, !.enter = TRUE]
          ELSE IF Idx(x.lvl, next) = 0 THEN [x EXCEPT !.addr = next, !.lvl = 0, !.enter = TRUE]
          ELSE [x EXCEPT !.addr = next, !.enter = FALSE]
        Round(x) ==
          IF x.stop \/ x.count >= n \/ x.s.err THEN x
          ELSE IF x.enter /\ SecEnd(sec) + 1 - x.addr < n
          THEN [x EXCEPT !.stop = TRUE, !.va = INVALID]
          ELSE MoveOn(Look(x, Pte(x.s, a, x.lvl, x.addr)))
        from == IF at = INVALID THEN SecBeg(sec) ELSE at
    IN Loop(Round, [s |-> s, addr |-> from, lvl |-> 0, count |-> 0, va |-> INVALID,
                   stop |-> FALSE, enter |-> TRUE])

\* The pages found are marked as reserved, in the entries that hold them.
ReserveVpage(s, a, va, n) ==
    LET Round(x) ==
          LET l == EndLvl(x.s, a, x.va) IN
          IF x.va >= va + n THEN x
          ELSE [s |-> SetPte(x.s, a, l, x.va, [Pte(x.s, a, l, x.va) EXCEPT !.rsv = TRUE]),
                va |-> x.va + LvlPages(l)]
    IN Loop(Round, [s |-> s, va |-> va]).s

mem_alloc_vpage(s, a, sec, at, n) ==
    LET Mark(x) == [s  |-> IF x.va = INVALID \/ x.s.err THEN x.s
                           ELSE ReserveVpage(x.s, a, x.va, n),
                    va |-> x.va]
    IN IF n = 0 THEN [s |-> s, va |-> INVALID] ELSE Mark(FindVpage(s, a, sec, at, n))

-----------------------------------------------------------------------------
(* Mapping and unmapping. *)

\* pt_pte_mappable.
Mappable(pte, l, left, va, pa) ==
    /\ pte.t = "inv"
    /\ LvlPages(l) <= left /\ va % LvlPages(l) = 0 /\ pa % LvlPages(l) = 0

\* n pages at va: the given ones, or new ones if null, with the largest leaves
\* that fit.  Once a level is chosen the run goes on to the end of the table
\* without looking at its entries.
MapRun(s, a, va, pp, n, null) ==
    LET Choose(x, pte, pa) ==
          IF Mappable(pte, x.lvl, va + n - x.va, x.va, pa) THEN [x EXCEPT !.run = TRUE]
          ELSE IF pte.t = "leaf" THEN [x EXCEPT !.s.err = TRUE]
          ELSE [x EXCEPT !.s = IF pte.t = "inv" THEN mem_alloc_pt(x.s, a, x.lvl, x.va) ELSE @,
                         !.lvl = @ + 1]
        Fill(x, s1, pa) ==
          LET next == x.va + LvlPages(x.lvl)
              end  == Idx(x.lvl, next) = 0
          IN [s |-> SetPte(s1, a, x.lvl, x.va, Leaf(pa)), va |-> next, run |-> ~end,
              lvl |-> IF end THEN 0 ELSE x.lvl]
        FillNew(x, r) ==
          IF r.pp.n = LvlPages(x.lvl) THEN Fill(x, [x.s EXCEPT !.pools = r.pools], r.pp.base)
          ELSE IF x.lvl = Lvls - 1 THEN [x EXCEPT !.s.err = TRUE]
          ELSE [x EXCEPT !.run = FALSE, !.lvl = 0,
                         !.s = IF Pte(@, a, x.lvl, x.va).t # "inv" THEN @
                               ELSE mem_alloc_pt(@, a, x.lvl, x.va)]
        Round(x) ==
          LET pa == pp.base + (x.va - va) IN
          IF x.va = va + n \/ x.s.err THEN x
          ELSE IF ~x.run THEN Choose(x, Pte(x.s, a, x.lvl, x.va), IF null THEN 0 ELSE pa)
          ELSE IF va + n - x.va < LvlPages(x.lvl) THEN [x EXCEPT !.run = FALSE, !.lvl = 0]
          ELSE IF null
          THEN FillNew(x, mem_alloc_ppages(x.s.pools, a.colors, LvlPages(x.lvl), TRUE))
          ELSE Fill(x, x.s, pa)
    IN Loop(Round, [s |-> s, va |-> va, run |-> FALSE, lvl |-> 0]).s

\* Pages of some colours, one leaf of the last level for each.
MapColored(s, a, va, pp) ==
    LET Round(x) ==
          IF x.i = pp.n \/ x.s.err THEN x
          ELSE IF EndLvl(x.s, a, va + x.i) # Lvls - 1 THEN [x EXCEPT !.s.err = TRUE]
          ELSE [s |-> SetPte(x.s, a, Lvls - 1, va + x.i, Leaf(PageAt(pp, x.i))), i |-> x.i + 1]
    IN Loop(Round, [s |-> mem_inflate_pt(s, a, va, pp.n), i |-> 0]).s

mem_map(s, a, va, pp, n, null) ==
    LET New(r) == IF r.pp.n < n THEN [s EXCEPT !.err = TRUE]
                  ELSE MapColored([s EXCEPT !.pools = r.pools], a, va, r.pp)
    IN IF null /\ ~all_clrs(a.colors) THEN New(mem_alloc_ppages(s.pools, a.colors, n, FALSE))
       ELSE IF ~null /\ ~all_clrs(pp.colors) THEN MapColored(s, a, va, pp)
       ELSE MapRun(s, a, va, pp, n, null)

\* Mutant: the last page stays.
UnmapShort(s, a, va, n) ==
    LET Round(x) ==
          LET l == EndLvl(x.s, a, x.va) IN
          IF x.va >= va + n - 1 \/ x.s.err THEN x
          ELSE [s |-> SetPte(x.s, a, l, x.va, Inv(FALSE)), va |-> x.va + LvlPages(l)]
    IN Loop(Round, [s |-> s, va |-> va]).s

\* A large leaf of which only a part is unmapped is split first.  in is the
\* inner loop, along a table; at its end the search goes up by one level.
mem_unmap(s, a, va, n) ==
    LET Round(x) ==
          LET pte   == Pte(x.s, a, x.lvl, x.va)
              size  == LvlPages(x.lvl)
              whole == x.va % size = 0 /\ x.va + size <= va + n
              last  == Idx(x.lvl, x.va + size) = 0
          IN IF x.va >= va + n \/ x.s.err THEN x
             ELSE IF EndLvl(x.s, a, x.va) < x.lvl THEN [x EXCEPT !.s.err = TRUE]
             ELSE IF pte.t = "table" THEN [x EXCEPT !.lvl = @ + 1, !.in = FALSE]
             ELSE IF pte.t = "inv" /\ ~x.in THEN [x EXCEPT !.va = @ + size]
             ELSE IF ~whole
             THEN [x EXCEPT !.s = mem_expand_pte(@, a, x.lvl, x.va), !.lvl = @ + 1, !.in = FALSE]
             ELSE [s |-> SetPte(x.s, a, x.lvl, x.va, Inv(FALSE)), va |-> x.va + size,
                   in |-> ~last, lvl |-> IF last THEN x.lvl - 1 ELSE x.lvl]
    IN Loop(Round, [s |-> s, va |-> va, in |-> FALSE, lvl |-> 0]).s

\* Mutant: a piece begins where its leaf does.
MapCpyFloor(s, from, vas, to, vad, n) ==
    LET Round(x) ==
          LET l    == EndLvl(x.s, from, vas + x.i)
              size == IF LvlPages(l) < n - x.i THEN LvlPages(l) ELSE n - x.i
              pp   == mem_ppages_get(Pte(x.s, from, l, vas + x.i).pa, size)
          IN IF x.i >= n \/ x.s.err THEN x
             ELSE [s |-> mem_map(x.s, to, vad + x.i, pp, size, FALSE), i |-> x.i + size]
    IN Loop(Round, [s |-> s, i |-> 0]).s

\* The pages at vas of one space at vad of another, leaf by leaf.  A piece has
\* the size of the leaf even if it begins inside of it.
mem_map_cpy(s, from, vas, to, vad, n) ==
    LET Round(x) ==
          LET l    == EndLvl(x.s, from, vas + x.i)
              size == IF LvlPages(l) < n - x.i THEN LvlPages(l) ELSE n - x.i
              pp   == mem_ppages_get(mem_translate(x.s, from, vas + x.i), size)
          IN IF x.i >= n \/ x.s.err THEN x
             ELSE [s |-> mem_map(x.s, to, vad + x.i, pp, size, FALSE), i |-> x.i + size]
    IN Loop(Round, [s |-> s, i |-> 0]).s

-----------------------------------------------------------------------------
(* What a master does for its VM: a list of calls. *)

\* to: the local variable for the virtual address; src: whose pages are mapped,
\* given ones (pp), those of the last allocation, or new ones.
Call(op, sp, sec, at, n, to, src, pp) ==
    [op |-> op, sp |-> sp, sec |-> sec, at |-> at, n |-> n, to |-> to, src |-> src, pp |-> pp]
Do(op, to, n, pp) == <<Call(op, "HYP", "GLOBAL", INVALID, n, to, "given", pp)>>

mem_alloc_map(sp, sec, at, n, to, src, pp) ==
    <<Call("vpage", sp, sec, at, n, to, src, pp), Call("map", sp, sec, at, n, to, src, pp)>>

\* vm_mem_prot_init: the root table, in pages aligned to its size, is mapped in
\* the hypervisor's space (mem_alloc_page).
as_init ==
    Do("ppages", "va", RootPages, Ppages(0, 0, {})) \o
    mem_alloc_map("HYP", "HYP_VM", INVALID, RootPages, "va", "last", NoPages) \o
    Do("as_init", "va", 0, NoPages)

vm_map_mem_region(r) ==
    mem_alloc_map("VM", "ANY", r.base, r.n, "va", IF r.phys = INVALID THEN "new" ELSE "given",
                  Ppages(r.phys, r.n, r.colors))

\* Both copies are mapped in the hypervisor's space, and unmapped after.
vm_install_image(img, r) ==
    IF r.phys # INVALID /\ img.base = img.load THEN <<>>
    ELSE mem_alloc_map("HYP", "GLOBAL", INVALID, img.n, "src", "given",
                       mem_ppages_get(img.load, img.n)) \o
         <<Call("vpage", "HYP", "GLOBAL", INVALID, img.n, "dst", "given", NoPages)>> \o
         Do("mem_map_cpy", "dst", img.n, NoPages) \o
         Do("memcpy", "dst", img.n, NoPages) \o
         Do("unmap", "src", img.n, NoPages) \o Do("unmap", "dst", img.n, NoPages)

\* mem_map_reclr: the pages of an image that do not have the VM's colours are
\* copied to new pages that have, and freed.
Recolored(img, colors) ==
    Cardinality({i \in 0..(img.n - 1) : ColorOf(img.load + i) \notin colors})
mem_map_reclr(img, colors) ==
    LET pp == mem_ppages_get(img.load, img.n)
        k  == Recolored(img, colors)
    IN IF k = 0 THEN <<Call("map", "VM", "ANY", img.base, img.n, "at", "given", pp)>>
       ELSE <<Call("vpage", "HYP", "HYP_VM", INVALID, k, "src", "last", NoPages)>> \o
            Do("ppages", "va", k, Ppages(0, 0, colors)) \o
            <<Call("map", "HYP", "HYP_VM", INVALID, k, "src", "last", NoPages)>> \o
            mem_alloc_map("HYP", "HYP_VM", INVALID, img.n, "dst", "given", pp) \o
            Do("reclr", "dst", img.n, pp) \o
            Do("free", "va", k, Ppages(img.load, k, (0..(COLOR_NUM - 1)) \ colors)) \o
            Do("unmap", "src", k, NoPages) \o Do("unmap", "dst", img.n, NoPages)

vm_map_img_rgn_inplace(img, r, colors) ==
    LET New(base, n) == mem_alloc_map("VM", "ANY", base, n, "opt", "new", NoPages) IN
    New(r.base, img.base - r.base) \o
    (IF all_clrs(colors)
     THEN mem_alloc_map("VM", "ANY", img.base, img.n, "opt", "given",
                        mem_ppages_get(img.load, img.n))
     ELSE mem_map_reclr(img, colors)) \o
    New(img.base + img.n, r.base + r.n - (img.base + img.n))

\* Concatenation of Op(s[i]).
Each(s, Op(_)) ==
    LET f[i \in 0..Len(s)] == IF i = 0 THEN <<>> ELSE f[i - 1] \o Op(s[i]) IN f[Len(s)]

HasImage(img, r) == range_in_range(img.base, img.n, r.base, r.n)
vm_init_mem_regions(cfg) ==
    LET Rgn(r) ==
            IF ~HasImage(cfg.img, r) THEN vm_map_mem_region(r)
            ELSE IF r.phys = INVALID /\ cfg.img.inplace
            THEN vm_map_img_rgn_inplace(cfg.img, r, cfg.colors)
            ELSE vm_map_mem_region(r) \o vm_install_image(cfg.img, r)
    IN Each(cfg.regions, Rgn)

\* The device is mapped if its address is free.
vm_init_dev(cfg) ==
    Each(cfg.devs, LAMBDA d : mem_alloc_map("VM", "ANY", d.base, d.n, "opt", "given",
                                            mem_ppages_get(d.phys, d.n)))

\* At most the size of the shared memory is mapped.
vm_init_ipc(cfg, table) ==
    Each(cfg.ipcs, LAMBDA i :
        IF i.id \notin DOMAIN table THEN <<>>
        ELSE LET n == IF i.n > table[i.id].n THEN table[i.id].n ELSE i.n IN
             Do("ipc", "va", i.id, NoPages) \o
             vm_map_mem_region([base |-> i.base, n |-> n, phys |-> table[i.id].phys,
                                colors |-> table[i.id].colors]))

\* vm_init, what the master does alone.
VmInit(cfg, table) ==
    as_init \o vm_init_mem_regions(cfg) \o vm_init_dev(cfg) \o vm_init_ipc(cfg, table)

vm_reinstall_image(cfg) ==
    LET in == SelectSeq(cfg.regions, LAMBDA r : HasImage(cfg.img, r)) IN
    IF in = <<>> THEN <<>> ELSE vm_install_image(cfg.img, in[1])

-----------------------------------------------------------------------------
(* mem_init: the pool without the hypervisor's pages, the images and the *)
(* regions at fixed places.                                              *)

\* The hypervisor's own pages: its image, its cpus and the bit map.
pp_root_init == mem_reserve_ppool_ppages(Pool(0, PoolSize), mem_ppages_get(0, HypPages))

\* An image inside of a region of its VM at a fixed place comes with it.
Fixed(rgns) == SelectSeq(rgns, LAMBDA r : r.phys # INVALID)
mem_vm_img_in_phys_rgn(cfg) ==
    \E i \in DOMAIN Fixed(cfg.regions) :
        LET r == Fixed(cfg.regions)[i] IN range_in_range(cfg.img.load, cfg.img.n, r.phys, r.n)
mem_reserve_physical_memory(p, cfg) ==
    LET vms == SetToSortSeq({cfg.vms[c] @@ [id |-> c] : c \in Cores}, LAMBDA x, y : x.id < y.id)
        Pps(r) == <<mem_ppages_get(r.phys, r.n)>>
        Img(v) == IF mem_vm_img_in_phys_rgn(v) THEN <<>>
                  ELSE <<mem_ppages_get(v.img.load, v.img.n)>>
        Rgn(v) == Each(Fixed(v.regions), Pps)
    IN ReserveAll(p, Each(vms, Img) \o Each(vms, Rgn) \o Each(Fixed(cfg.shmem), Pps))

ipc_alloc_shmem(p, list) ==
    LET f[i \in 0..Len(list)] ==
            IF i = 0 THEN [ok |-> TRUE, pools |-> <<p>>, table |-> <<>>]
            ELSE LET r   == mem_alloc_ppages(f[i - 1].pools, list[i].colors, list[i].n, FALSE)
                     new == list[i].phys = INVALID
                 IN [ok    |-> f[i - 1].ok /\ (new => r.pp.n = list[i].n),
                     pools |-> IF new THEN r.pools ELSE f[i - 1].pools,
                     table |-> Append(f[i - 1].table,
                                 [list[i] EXCEPT !.phys = IF new THEN r.pp.base ELSE @]
                                 @@ [cpu_masters |-> {}])]
    IN f[Len(list)]

\* The tables of the hypervisor's spaces at boot: a root for each core, whose
\* entries of the GLOBAL section lead to tables that the cores share.  They are
\* not in the pool.
HypRoot(c) == -10 - c
Shared(i)  == -100 - i

Img(c) == config.vms[c].img
ImgPages(c) == PagesOf(mem_ppages_get(Img(c).load, Img(c).n))

Init ==
    /\ config \in Configs
    /\ LET q == mem_reserve_physical_memory(pp_root_init.pool, config)
           r == ipc_alloc_shmem(q.pool, config.shmem)
       IN q.ok /\ r.ok /\ pools = r.pools /\ shmem = r.table
    /\ tab = [t \in {HypRoot(c) : c \in Cores} |->
                 [i \in 0..(RootN - 1) |->
                     IF i < RootN \div 2 THEN Tab(Shared(i)) ELSE Inv(FALSE)]]
             @@ [t \in {Shared(i) : i \in 0..(RootN \div 2 - 1)} |->
                    [i \in 0..(F - 1) |-> Inv(FALSE)]]
    /\ as = [a \in {"HYP", "VM"} \X Cores |->
               [root   |-> HypRoot(a[2]),
                colors |-> IF a[1] = "VM" THEN config.vms[a[2]].colors ELSE {}]]
    /\ content = [q \in 0..(PoolSize - 1) |->
          IF \E c \in Cores : q \in ImgPages(c)
          THEN LET c == CHOOSE c \in Cores : q \in ImgPages(c) IN <<c, q - Img(c).load>>
          ELSE <<>>]
    /\ todo = [c \in Cores |-> VmInit(config.vms[c], shmem)]
    /\ reg = [c \in Cores |->
                 [pp |-> NoPages, va |-> INVALID, src |-> INVALID, dst |-> INVALID]]
    /\ restarts = [c \in Cores |-> 0]
    /\ failed = [c \in Cores |-> FALSE]

-----------------------------------------------------------------------------
(* Steps: the next call of a core. *)

St == [pools |-> pools, tab |-> tab, err |-> FALSE]

Calls(c, op) == ~failed[c] /\ todo[c] # <<>> /\ Head(todo[c]).op = op
Set(s) == pools' = s.pools /\ tab' = s.tab
Return(c, bad) ==
    /\ todo' = [todo EXCEPT ![c] = Tail(@)]
    /\ failed' = [failed EXCEPT ![c] = bad]
    /\ UNCHANGED <<config, restarts>>

AllocPpages(c) ==
    LET k == Head(todo[c]) IN
    /\ Calls(c, "ppages")
    /\ \E r \in {mem_alloc_ppages(pools, k.pp.colors, k.n, k.pp.colors = {})} :
       /\ pools' = r.pools
       /\ reg' = [reg EXCEPT ![c].pp = r.pp]
       /\ Return(c, r.pp.n # k.n)
    /\ UNCHANGED <<shmem, tab, as, content>>

\* vm_map_mem_region stops if it does not get its address; an image mapped in
\* place goes on without the pages.
AllocVpage(c) ==
    LET k == Head(todo[c]) IN
    /\ Calls(c, "vpage")
    /\ \E r \in {mem_alloc_vpage(St, as[<<k.sp, c>>], k.sec, k.at, k.n)} :
       /\ Set(r.s)
       /\ reg' = [reg EXCEPT ![c][IF k.to = "opt" THEN "va" ELSE k.to] = r.va]
       /\ Return(c, r.s.err \/ (r.va = INVALID /\ k.to # "opt"))
    /\ UNCHANGED <<shmem, as, content>>

Map(c) ==
    LET k  == Head(todo[c])
        va == IF k.to = "at" THEN k.at ELSE IF k.to = "opt" THEN reg[c].va ELSE reg[c][k.to]
        pp == IF k.src = "last" THEN reg[c].pp ELSE k.pp
    IN /\ Calls(c, "map")
       /\ \E s \in {IF va = INVALID THEN St
                   ELSE mem_map(St, as[<<k.sp, c>>], va, pp, k.n, k.src = "new")} :
          Set(s) /\ Return(c, s.err)
       /\ UNCHANGED <<shmem, as, content, reg>>

\* The root table is cleared and belongs to the VM's space.
AsInit(c) ==
    LET root == reg[c].pp.base IN
    /\ Calls(c, "as_init")
    /\ tab' = (root :> [i \in 0..(RootN - 1) |-> Inv(FALSE)]) @@ tab
    /\ as' = [as EXCEPT ![<<"VM", c>>].root = root]
    /\ Return(c, FALSE)
    /\ UNCHANGED <<shmem, pools, content, reg>>

MapCpy(c) ==
    /\ Calls(c, "mem_map_cpy")
    /\ \E s \in {mem_map_cpy(St, as[<<"VM", c>>], Img(c).base, as[<<"HYP", c>>], reg[c].dst,
                             Img(c).n)} :
          Set(s) /\ Return(c, s.err)
    /\ UNCHANGED <<shmem, as, content, reg>>

\* Page i of the copy is what the hypervisor's space has at src + i.
Memcpy(c) ==
    LET At(va) == mem_translate(St, as[<<"HYP", c>>], va)
        n == Img(c).n
    IN /\ Calls(c, "memcpy")
       /\ content' = [q \in DOMAIN content |->
              IF \E i \in 0..(n - 1) : At(reg[c].dst + i) = q
              THEN content[At(reg[c].src + CHOOSE i \in 0..(n - 1) : At(reg[c].dst + i) = q)]
              ELSE content[q]]
       /\ Return(c, FALSE)
       /\ UNCHANGED <<shmem, pools, tab, as, reg>>

Unmap(c) ==
    LET k == Head(todo[c]) IN
    /\ Calls(c, "unmap")
    /\ \E s \in {mem_unmap(St, as[<<"HYP", c>>], reg[c][k.to], k.n)} :
          Set(s) /\ Return(c, s.err)
    /\ UNCHANGED <<shmem, as, content, reg>>

\* The loop of mem_map_reclr over the pages of the image: map a page of the
\* VM's colours, copy the others to the new pages.
Reclr(c) ==
    LET pp  == Head(todo[c]).pp
        own == as[<<"VM", c>>].colors
        Moved(i) == Cardinality({j \in 0..(i - 1) : ColorOf(pp.base + j) \notin own})
        To(i) == IF ColorOf(pp.base + i) \in own THEN pp.base + i
                 ELSE PageAt(reg[c].pp, Moved(i))
        Round(x) ==
          LET va == Img(c).base + x.i IN
          IF x.i = pp.n \/ x.s.err THEN x
          ELSE IF EndLvl(x.s, as[<<"VM", c>>], va) # Lvls - 1 THEN [x EXCEPT !.s.err = TRUE]
          ELSE [s |-> SetPte(x.s, as[<<"VM", c>>], Lvls - 1, va, Leaf(To(x.i))), i |-> x.i + 1]
        new == [s |-> mem_inflate_pt(St, as[<<"VM", c>>], Img(c).base, pp.n), i |-> 0]
    IN /\ Calls(c, "reclr")
       /\ \E s \in {Loop(Round, new).s} : Set(s) /\ Return(c, s.err)
       /\ content' = [q \in DOMAIN content |->
              IF \E i \in 0..(pp.n - 1) : To(i) = q
              THEN content[pp.base + CHOOSE i \in 0..(pp.n - 1) : To(i) = q] ELSE content[q]]
       /\ UNCHANGED <<shmem, as, reg>>

FreePpages(c) ==
    /\ Calls(c, "free")
    /\ pools' = mem_free_ppages(pools, Head(todo[c]).pp)
    /\ Return(c, FALSE)
    /\ UNCHANGED <<shmem, tab, as, content, reg>>

\* The VM takes part in a shared memory.
Ipc(c) ==
    /\ Calls(c, "ipc")
    /\ shmem' = [shmem EXCEPT ![Head(todo[c]).n].cpu_masters = @ \cup {c}]
    /\ Return(c, FALSE)
    /\ UNCHANGED <<pools, tab, as, content, reg>>

VmPages(c) ==
    LET a == as[<<"VM", c>>] IN
    {mem_translate(St, a, va) : va \in {v \in 0..(VaPages - 1) : Mapped(St, a, v)}}

\* The VM has run, and written all of its memory, and is restarted.
Restart(c) ==
    /\ todo[c] = <<>> /\ ~failed[c] /\ restarts[c] < config.vms[c].restarts
    /\ content' = [q \in DOMAIN content |-> IF q \in VmPages(c) THEN <<>> ELSE content[q]]
    /\ todo' = [todo EXCEPT ![c] = vm_reinstall_image(config.vms[c])]
    /\ restarts' = [restarts EXCEPT ![c] = @ + 1]
    /\ UNCHANGED <<config, shmem, pools, tab, as, reg, failed>>

Work(c) ==
    \/ AllocPpages(c) \/ AllocVpage(c) \/ Map(c) \/ AsInit(c) \/ MapCpy(c)
    \/ Memcpy(c) \/ Unmap(c) \/ Reclr(c) \/ FreePpages(c) \/ Ipc(c)

Next == \E c \in Cores : Work(c) \/ Restart(c)

\* A core whose next call is not waiting for anything but a lock makes it.  The
\* fairness of Work(c), by what all of its actions do.
Proceeds(c) ==
    todo[c] # <<>> /\ ~failed[c] /\ todo' = [todo EXCEPT ![c] = Tail(@)]

Spec == Init /\ [][Next]_vars /\ \A c \in Cores : WF_todo(Proceeds(c))
-----------------------------------------------------------------------------
(* Properties. *)

Built(c) == as[<<"VM", c>>].root # HypRoot(c)
Ready(c) == todo[c] = <<>> /\ ~failed[c]

\* The pages of the page tables of a space.
Tables(a) ==
    LET f[l \in 0..(Lvls - 1)] ==
            IF l = 0 THEN {a.root}
            ELSE {e.pa : e \in {x \in UNION {Range(tab[t]) : t \in f[l - 1]} : x.t = "table"}}
    IN UNION {f[l] : l \in 0..(Lvls - 1)}

SharedPages ==
    UNION {PagesOf(Ppages(shmem[i].phys, shmem[i].n, shmem[i].colors)) : i \in DOMAIN shmem}

TypeOK ==
    /\ \A e \in UNION {Range(tab[t]) : t \in DOMAIN tab} :
          e.t \in {"inv", "table", "leaf"} /\ (e.t = "table" => e.pa \in DOMAIN tab)
    /\ \A i \in DOMAIN pools : pools[i].free \in 0..(SizeMod - 1) /\ pools[i].bits \subseteq Nat

\* However the masters interleave, what a VM sees of the pool is marked in its
\* bit map (mem_alloc_ppages), is neither a page of the hypervisor nor a page
\* table of any space (mem_alloc_pt), and is seen by another VM only if it is
\* shared memory (mem_map).
VmIsolation ==
    /\ TypeOK
    /\ \A c \in Cores : Built(c) =>
        LET mine == VmPages(c) \cap (0..(PoolSize - 1)) IN
        /\ mine \subseteq pools[1].bits
        /\ mine \cap (0..(HypPages - 1)) = {}
        /\ \A a \in DOMAIN as : mine \cap Tables(as[a]) = {}
        /\ \A d \in Cores \ {c} : Built(d) => mine \cap VmPages(d) \subseteq SharedPages

\* A VM that is ready to start has every page of its regions, those at a fixed
\* place where the configuration says, sees the shared memory it takes part in,
\* and has its image where it expects it (vm_init_mem_regions, mem_map_cpy,
\* mem_map_reclr, vm_init_ipc).  So has a VM that is restarted, unless its image
\* was mapped in place (vm_reinstall_image).
MemoryAsConfigured ==
    \A c \in Cores : Ready(c) =>
        LET cfg    == config.vms[c]
            At(va) == mem_translate(St, as[<<"VM", c>>], va)
            Fits(base, n, phys) == \A j \in 0..(n - 1) :
                /\ Mapped(St, as[<<"VM", c>>], base + j)
                /\ phys # INVALID => At(base + j) = phys + j
        IN /\ \A i \in DOMAIN cfg.regions :
                 Fits(cfg.regions[i].base, cfg.regions[i].n, cfg.regions[i].phys)
           /\ \A i \in DOMAIN cfg.ipcs :
                 LET sh == shmem[cfg.ipcs[i].id] IN
                 c \in sh.cpu_masters /\ Fits(cfg.ipcs[i].base, sh.n, sh.phys)
           /\ (restarts[c] > 0 => ~Img(c).inplace) =>
                 \A i \in 0..(Img(c).n - 1) : content[At(Img(c).base + i)] = <<c, i>>

\* Once no master is at work, nothing is left in the GLOBAL section, neither
\* mapped nor reserved: an image can be installed again any number of times
\* (mem_alloc_vpage, mem_map, mem_unmap in vm_install_image).
GlobalGivenBack ==
    (\A c \in Cores : Ready(c)) =>
        \A va \in 0..SecEnd("GLOBAL") :
            LET a == as[<<"HYP", 0>>] IN Pte(St, a, EndLvl(St, a, va), va) = Inv(FALSE)

\* In memory that is large enough no interleaving of the masters makes one stop
\* with an ERROR or run out of virtual pages: every VM gets ready to start.
EveryVmIsBuilt == \A c \in Cores : <>[]Ready(c)
=============================================================================
