------------------------------ MODULE PagePool ------------------------------
(***************************************************************************)
(* The allocator of physical pages, src/core/mem.c with the allocation by  *)
(* colour of src/core/mmu/mem.c and the bit maps of src/lib/bitmap.c.      *)
(*                                                                         *)
(* Addresses are numbers of pages.  A pool is a record: base, size, the    *)
(* count of free pages (a size_t), the position last of the next search    *)
(* and bits, the set of the indices whose bit is set.  The bits after the  *)
(* last page of a pool, up to the end of the pages of its bit map, are     *)
(* clear: an allocation can set them.  Every operation holds the lock of   *)
(* its pool throughout, and is one function here.                          *)
(***************************************************************************)
EXTENDS Integers, Sequences, FiniteSets

CONSTANTS
    COLOR_NUM, COLOR_SIZE,  \* cache colours, and pages in a row with one colour
    SizeMod                 \* 2^64, the range of a size_t

ASSUME PoolAssumption ==
    /\ COLOR_NUM \in Nat \ {0} /\ COLOR_SIZE \in Nat \ {0} /\ SizeMod \in Nat \ {0}

Pool(base, size) == [base |-> base, size |-> size, free |-> size, last |-> 0, bits |-> {}]

\* struct ppages: a run of pages, or of the pages of some colours.
Ppages(base, n, colors) == [base |-> base, n |-> n, colors |-> colors]
NoPages == Ppages(0, 0, {})
mem_ppages_get(base, n) == Ppages(base, n, {})

First(S) == CHOOSE i \in S : \A j \in S : i <= j

range_in_range(b1, n1, b2, n2) == b1 >= b2 /\ b1 + n1 <= b2 + n2

all_clrs(colors) == colors = {} \/ colors = 0..(COLOR_NUM - 1)
ColorOf(page) == (page \div COLOR_SIZE) % COLOR_NUM

pp_next_clr(base, from, colors) ==
    First({i \in from..(from + COLOR_NUM * COLOR_SIZE) : ColorOf(base + i) \in colors})

\* The i-th page of a struct ppages, from 0, and the set of all of them.
PageAt(pp, i) ==
    LET f[k \in 0..i] == IF k = 0 THEN pp_next_clr(pp.base, 0, pp.colors)
                         ELSE pp_next_clr(pp.base, f[k - 1] + 1, pp.colors)
    IN IF all_clrs(pp.colors) THEN pp.base + i ELSE pp.base + f[i]
PagesOf(pp) == {PageAt(pp, i) : i \in 0..(pp.n - 1)}

-----------------------------------------------------------------------------
(* Allocation. *)

\* The first n clear bits in a row from start, -1 for none.  The size bounds the
\* first of them only: bitmap_count_consecutive does not look at it.
bitmap_find_consec(p, start, n) ==
    LET runs == {i \in start..(p.size - 1) : \A j \in i..(i + n - 1) : j \notin p.bits}
    IN IF runs = {} THEN -1 ELSE First(runs)

Failed(p) == [ok |-> FALSE, pp |-> NoPages, pool |-> p]

\* Mutant: the pages are not marked.
TakeUnmarked(p, pages, pp) ==
    [ok |-> TRUE, pp |-> pp,
     pool |-> [p EXCEPT !.free = (@ - pp.n) % SizeMod,
                        !.last = 1 + CHOOSE i \in pages : \A j \in pages : j <= i]]

Take(p, pages, pp) ==
    [ok |-> TRUE, pp |-> pp,
     pool |-> [p EXCEPT !.bits = @ \cup pages, !.free = (@ - pp.n) % SizeMod,
                        !.last = 1 + CHOOSE i \in pages : \A j \in pages : j <= i]]

\* The result of an allocation that found its first page, or did not.
Found(p, pages, pp) == IF pp.base < p.base THEN Failed(p) ELSE Take(p, pages, pp)
OrElse(bit, other) == IF bit >= 0 THEN bit ELSE other

\* Two searches, from last and from the first page that is aligned.  A run that
\* is not aligned moves the search on by as much as it is out of line.
pp_alloc(p, n, aligned) ==
    LET start == IF aligned THEN p.base % n ELSE 0
        Search[c \in 0..(p.size + 2 * n)] ==
            LET Check(bit) == IF bit >= 0 /\ aligned /\ (bit + start) % n # 0
                              THEN Search[bit + ((bit + start) % n)] ELSE bit
            IN Check(bitmap_find_consec(p, c, n))
        At(bit) == Found(p, bit..(bit + n - 1), mem_ppages_get(p.base + bit, n))
    IN IF n = 0 THEN [Failed(p) EXCEPT !.ok = TRUE]
       ELSE IF p.free = 0 THEN Failed(p)
       ELSE At(OrElse(Search[p.last + ((p.last + start) % n)],
                      Search[IF aligned THEN (n - (p.base % n)) % n ELSE 0]))

\* Pages of some colours.  A search goes from a page to the next one of the
\* colours, but begins at any page: at 0 the second time, and after a run that
\* was too short one past the page that ended it.
pp_alloc_clr(p, n, colors) ==
    LET Cand(i) == {i} \cup {j \in (i + 1)..(p.size - 1) : ColorOf(p.base + j) \in colors}
        Search[i \in 0..(p.size + 1)] ==
            LET Run(open) ==
                    LET Ends(first, stop) ==
                            IF Cardinality({j \in Cand(first) : j < stop}) >= n THEN first
                            ELSE Search[stop + 1]
                        From(first) ==
                            Ends(first, First({j \in Cand(first) : j \in p.bits} \cup {p.size}))
                    IN IF open = {} THEN -1 ELSE From(First(open))
            IN Run({j \in Cand(i) : j < p.size /\ j \notin p.bits})
        At(bit) == LET pp == Ppages(p.base + bit, n, colors)
                   IN Found(p, {q - p.base : q \in PagesOf(pp)}, pp)
        Next(from) == IF from >= p.size THEN -1 ELSE Search[from]
    IN At(OrElse(Next(pp_next_clr(p.base, p.last, colors)), Search[0]))

\* Over the list of pools; NoPages if none has the pages.
mem_alloc_ppages(pools, colors, n, aligned) ==
    LET Choice(tried) ==
            LET good == {i \in DOMAIN tried : tried[i].ok} IN
            IF good = {} THEN [pp |-> NoPages, pools |-> pools]
            ELSE [pp    |-> tried[First(good)].pp,
                  pools |-> [pools EXCEPT ![First(good)] = tried[First(good)].pool]]
    IN Choice([i \in DOMAIN pools |->
                  IF ~all_clrs(colors) /\ ~aligned THEN pp_alloc_clr(pools[i], n, colors)
                  ELSE pp_alloc(pools[i], n, aligned)])

\* Clears the bits; the count of free pages stays.
mem_free_ppages(pools, pp) ==
    [i \in DOMAIN pools |->
        IF range_in_range(pp.base, 0, pools[i].base, pools[i].size)
        THEN [pools[i] EXCEPT !.bits = @ \ {q - pools[i].base : q \in PagesOf(pp)}]
        ELSE pools[i]]

-----------------------------------------------------------------------------
(* Reservation. *)

mem_are_ppages_reserved_in_pool(p, pp) ==
    /\ range_in_range(pp.base, pp.n, p.base, p.size)
    /\ \E q \in PagesOf(pp) : q - p.base \in p.bits

\* Marks the pages and counts them, whether they were free or not.
mem_reserve_ppool_ppages(p, pp) ==
    IF ~range_in_range(pp.base, pp.n, p.base, p.size) THEN [ok |-> TRUE, pool |-> p]
    ELSE [ok   |-> ~mem_are_ppages_reserved_in_pool(p, pp),
          pool |-> [p EXCEPT !.bits = @ \cup {q - p.base : q \in PagesOf(pp)},
                             !.free = (@ - pp.n) % SizeMod]]

\* One after the other; the first that was reserved already ends it.
ReserveAll(p, pps) ==
    LET f[i \in 0..Len(pps)] ==
            IF i = 0 THEN [ok |-> TRUE, pool |-> p]
            ELSE IF ~f[i - 1].ok THEN f[i - 1]
            ELSE mem_reserve_ppool_ppages(f[i - 1].pool, pps[i])
    IN f[Len(pps)]
=============================================================================
