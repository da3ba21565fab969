--------------------------------- MODULE Vm ---------------------------------
(***************************************************************************)
(* Virtual memory of lab 3 (vm/ of src/lab3/pintos3_all_passed): page      *)
(* faults, the locking of user pages by system calls, the frame table with *)
(* its clock hand, eviction to swap or to the file, and the ways a page    *)
(* goes away (munmap, exit).                                               *)
(*                                                                         *)
(* A page stands for a user address of one process, its struct page and    *)
(* its page-table entry.  A step is one access to memory that another      *)
(* process also uses, with the work around it that nobody else can see:    *)
(* the fields of a struct page belong to the holder of its frame's lock,   *)
(* or to the owner of the page if it is in no frame.                       *)
(*                                                                         *)
(* A copy of a page is told by whether it is up to date: a frame or a slot *)
(* holds q if it has what q was last written, and NULL if it has anything  *)
(* else, so that a write makes every other copy of the page worthless.     *)
(***************************************************************************)
EXTENDS Integers, FiniteSets

CONSTANTS
    Procs, Pages,
    Owner,     \* the process whose address space a page is in
    Stack,     \* the pages of the stacks
    FCount,    \* f_count: the loops see frames[0] .. frames[FCount - 1]
    Slots,     \* the number of slots of the swap device
    NULL

Frames   == 0..FCount - 1
Unusable == 0          \* frames[0]
Boot     == "boot"

ASSUME VmAssumption ==
    /\ Owner \in [Pages -> Procs] /\ Stack \subseteq Pages
    /\ FCount \in Nat \ {0} /\ Slots \in Nat
    /\ NULL \notin Procs \cup Pages \cup Frames \cup (0..Slots)
    /\ Boot \notin Procs

VARIABLES
    pc, cur, fr, i, why,     \* of each process: where it is and its locals
    exiting,                 \* the processes in thread_exit
    page, lock, data,        \* of each frame; lock is the holder
    vm_sc_lock, hand,
    pages, kind,             \* the pages in their owner's table, and their use
    frame, sector, file, private,   \* fields of struct page; file: not NULL
    present, dirty, accessed,       \* the pages whose entry has that bit
    used, swap,              \* s_bitmap and the slots
    store,                   \* the pages whose part of the file, or whose zeroes
                             \* for a stack page, is up to date
    panic,                   \* the kernel has faulted
    spoiled                  \* ghost: the pages that swap had no room for, or
                             \* that their file refused

local  == <<cur, fr, i, why, exiting>>
frames == <<page, lock, data, vm_sc_lock, hand>>
spt    == <<pages, kind, frame, sector, file, private>>
ptes   == <<present, dirty, accessed>>
disk   == <<used, swap, store>>
vars   == <<pc, local, frames, spt, ptes, disk, panic, spoiled>>

PCs == {"new", "user", "lock", "recheck", "alloc", "scan", "clock", "clear", "slot",
        "swap", "write", "take", "fill", "reset", "forget", "map", "kernel", "failed",
        "writeback", "dealloc", "free", "gone", "exit", "dead"}
Kinds == {"stack", "data", "text", "map"}

TypeOK ==
    /\ pc \in [Procs -> PCs]
    /\ cur \in [Procs -> Pages \cup {NULL}]
    /\ fr \in [Procs -> Frames \cup {NULL}]
    /\ i \in [Procs -> 0..2 * FCount]
    /\ why \in [Procs -> {"none", "load", "fault", "access", "unmap", "exit"}]
    /\ exiting \subseteq Procs
    /\ page \in [Frames -> Pages \cup {NULL}]
    /\ lock \in [Frames -> Procs \cup {NULL, Boot}]
    /\ data \in [Frames -> Pages \cup {NULL}]
    /\ vm_sc_lock \in Procs \cup {NULL} /\ hand \in Frames
    /\ pages \subseteq Pages /\ kind \in [Pages -> Kinds]
    /\ frame \in [Pages -> Frames \cup {NULL}]
    /\ sector \in [Pages -> 0..Slots - 1 \cup {NULL}]
    /\ file \in [Pages -> BOOLEAN] /\ private \in [Pages -> BOOLEAN]
    /\ present \subseteq Pages /\ dirty \subseteq Pages /\ accessed \subseteq Pages
    /\ used \subseteq 0..Slots - 1
    /\ swap \in [0..Slots - 1 -> Pages \cup {NULL}] /\ store \subseteq Pages
    /\ panic \in BOOLEAN /\ spoiled \subseteq Pages

\* frame_init increments f_count before it uses it: frames[0] stays as malloc
\* left it, in memory that was never used, where a semaphore of value 0 can
\* never be downed.  The last frame it did initialise is past the loops' end.
Init ==
    /\ pc = [p \in Procs |-> "new"]
    /\ cur = [p \in Procs |-> NULL] /\ fr = [p \in Procs |-> NULL]
    /\ i = [p \in Procs |-> 0] /\ why = [p \in Procs |-> "none"]
    /\ exiting = {}
    /\ page = [f \in Frames |-> NULL] /\ data = [f \in Frames |-> NULL]
    /\ lock = [f \in Frames |-> IF f = Unusable THEN Boot ELSE NULL]
    /\ vm_sc_lock = NULL /\ hand = 0
    /\ pages = {} /\ kind = [q \in Pages |-> "stack"]
    /\ frame = [q \in Pages |-> NULL] /\ sector = [q \in Pages |-> NULL]
    /\ file = [q \in Pages |-> FALSE] /\ private = [q \in Pages |-> FALSE]
    /\ present = {} /\ dirty = {} /\ accessed = {}
    /\ used = {} /\ swap = [s \in 0..Slots - 1 |-> NULL] /\ store = Pages
    /\ panic = FALSE /\ spoiled = {}

PagesOf(p) == {q \in Pages : Owner[q] = p}
Goto(p, place) == pc' = [pc EXCEPT ![p] = place]

\* A call is over: its locals are no more.
Return(p, place) ==
    /\ Goto(p, place)
    /\ cur' = [cur EXCEPT ![p] = NULL]
    /\ fr' = [fr EXCEPT ![p] = NULL]
    /\ why' = [why EXCEPT ![p] = "none"]
    /\ UNCHANGED i

-----------------------------------------------------------------------------
(* Processes.                                                              *)

\* page_allocate for every q in the domain of use, and what its caller sets.
Allocate(use) ==
    LET new == DOMAIN use
        Now(q, then, before) == IF q \in new THEN then ELSE before IN
    /\ pages' = pages \cup new
    /\ kind' = [q \in Pages |-> IF q \in new THEN use[q] ELSE kind[q]]
    /\ frame' = [q \in Pages |-> Now(q, NULL, frame[q])]
    /\ sector' = [q \in Pages |-> Now(q, NULL, sector[q])]
    /\ file' = [q \in Pages |-> Now(q, kind'[q] # "stack", file[q])]
    /\ private' = [q \in Pages |-> Now(q, kind'[q] = "data", private[q])]
    /\ store' = store \cup new

\* load: a segment or none at every address that is not the stack, and
\* setup_stack up to frame_alloc_and_lock.
Load(p) ==
    /\ pc[p] = "new"
    /\ \E q \in PagesOf(p) \cap Stack, segments \in SUBSET (PagesOf(p) \ Stack) :
          /\ \E use \in [segments \cup {q} -> {"stack", "data", "text"}] :
                /\ \A r \in segments \cup {q} : use[r] = "stack" <=> r = q
                /\ Allocate(use)
          /\ cur' = [cur EXCEPT ![p] = q]
    /\ why' = [why EXCEPT ![p] = "load"]
    /\ Goto(p, "alloc")
    /\ UNCHANGED <<fr, i, exiting, frames, ptes, used, swap, panic, spoiled>>

\* Through frame f, page q gets a new content.
NewContent(q, f) ==
    /\ data' = [data EXCEPT ![f] = q]
    /\ swap' = [s \in 0..Slots - 1 |-> IF swap[s] = q THEN NULL ELSE swap[s]]
    /\ store' = store \ {q}

\* A write to its user address sets the bits of its entry too.
Write(q, f) ==
    /\ NewContent(q, f)
    /\ dirty' = dirty \cup {q}
    /\ accessed' = accessed \cup {q}

\* The program reads or writes a page that is present.
UserReads(p) ==
    /\ pc[p] = "user"
    /\ \E q \in PagesOf(p) \cap present : accessed' = accessed \cup {q}
    /\ UNCHANGED <<pc, local, frames, spt, present, dirty, disk, panic, spoiled>>

UserWrites(p) ==
    /\ pc[p] = "user"
    /\ \E q \in PagesOf(p) \cap present : kind[q] # "text" /\ Write(q, frame[q])
    /\ UNCHANGED <<pc, local, page, lock, vm_sc_lock, hand, spt, present, used, panic,
                   spoiled>>

\* exit, or an access that page_in, page_lock or page_fault refuses: the page
\* is not in the table, or a read-only page is written.
Exits(p) ==
    /\ pc[p] = "user"
    /\ Goto(p, "exit")
    /\ exiting' = exiting \cup {p}
    /\ UNCHANGED <<cur, fr, i, why, frames, spt, ptes, disk, panic, spoiled>>

\* sys_mmap.  The entry of the page keeps the dirty bit of an earlier mapping.
Mmap(p) ==
    /\ pc[p] = "user"
    /\ \E q \in PagesOf(p) \ (pages \cup Stack) : Allocate([r \in {q} |-> "map"])
    /\ UNCHANGED <<pc, local, frames, ptes, used, swap, panic, spoiled>>

-----------------------------------------------------------------------------
(* frame_lock, and its callers before it.                                  *)

NotResident(w) == IF w \in {"fault", "access"} THEN "alloc" ELSE "gone"

\* The read of p->frame.
StartsFrameLock(p, q, w) ==
    /\ cur' = [cur EXCEPT ![p] = q]
    /\ why' = [why EXCEPT ![p] = w]
    /\ fr' = [fr EXCEPT ![p] = frame[q]]
    /\ Goto(p, IF frame[q] = NULL THEN NotResident(w) ELSE "lock")
    /\ UNCHANGED <<i, exiting, frames, ptes, used, swap, panic, spoiled>>

\* page_fault with page_in, or page_lock: get_page_with_addr grows the stack.
Faults(p, w) ==
    /\ pc[p] = "user"
    /\ \E q \in PagesOf(p) :
          /\ w = "fault" => q \notin present
          /\ \/ q \in pages /\ UNCHANGED <<spt, store>>
             \/ q \in Stack \ pages /\ Allocate([r \in {q} |-> "stack"])
          /\ StartsFrameLock(p, q, w)

\* pagedir_set_page: a new entry.
SetPage(q) ==
    /\ present' = present \cup {q}
    /\ dirty' = dirty \ {q}
    /\ accessed' = accessed \ {q}

\* page_in ends with the entry set and the frame unlocked, page_lock with the
\* frame locked; it sets the entry only if it brought the page in.
Resident(p, brought_in) ==
    /\ IF why[p] = "fault" \/ (why[p] = "access" /\ brought_in)
       THEN SetPage(cur[p]) ELSE UNCHANGED ptes
    /\ IF why[p] = "access"
       THEN Goto(p, "kernel") /\ UNCHANGED <<cur, fr, i, why, lock>>
       ELSE Return(p, "user") /\ lock' = [lock EXCEPT ![fr[p]] = NULL]

StillThere(p) == frame[cur[p]] = fr[p]

\* What the caller does with the page in its frame, and the frame locked.
Locked(q, w) ==
    CASE w = "fault"  -> "map"
      [] w = "access" -> "kernel"
      [] w = "unmap"  -> IF file[q] /\ ~private[q] THEN "clear" ELSE "free"
      [] w = "exit"   -> "free"

\* lock_acquire (&f->lock), and whether f is still the page's frame.
FrameLockGets(p) ==
    /\ pc[p] = "lock"
    /\ lock[fr[p]] = NULL
    /\ lock' = [lock EXCEPT ![fr[p]] = p]
    /\ Goto(p, IF StillThere(p) THEN Locked(cur[p], why[p]) ELSE "recheck")
    /\ UNCHANGED <<local, page, data, vm_sc_lock, hand, spt, ptes, disk, panic, spoiled>>

\* Mutant: the frame of another page stays locked.
LockAfterRecheck_Kept(p) == p

LockAfterRecheck(p) == NULL

FrameLockRechecks(p) ==
    /\ pc[p] = "recheck"
    /\ lock' = [lock EXCEPT ![fr[p]] = LockAfterRecheck(p)]
    /\ fr' = [fr EXCEPT ![p] = NULL]
    /\ Goto(p, NotResident(why[p]))
    /\ UNCHANGED <<cur, i, why, exiting, page, data, vm_sc_lock, hand, spt, ptes, disk,
                   panic, spoiled>>

Maps(p) ==
    /\ pc[p] = "map"
    /\ Resident(p, FALSE)
    /\ UNCHANGED <<exiting, page, data, vm_sc_lock, hand, spt, disk, panic, spoiled>>

-----------------------------------------------------------------------------
(* frame_alloc_and_lock for cur[p].                                        *)

AllocStarts(p) ==
    /\ pc[p] = "alloc"
    /\ vm_sc_lock = NULL
    /\ vm_sc_lock' = p
    /\ Goto(p, "scan")
    /\ UNCHANGED <<local, page, lock, data, hand, spt, ptes, disk, panic, spoiled>>

\* f->page = page, and the caller's p->frame = f.
TakeFrame(p, f) ==
    /\ lock' = [lock EXCEPT ![f] = p]
    /\ page' = [page EXCEPT ![f] = cur[p]]
    /\ frame' = [frame EXCEPT ![cur[p]] = f]
    /\ fr' = [fr EXCEPT ![p] = f]
    /\ i' = [i EXCEPT ![p] = 0]
    /\ vm_sc_lock' = NULL
    /\ Goto(p, "fill")
    /\ UNCHANGED accessed

NextTry(p, bound, place) ==
    /\ i' = [i EXCEPT ![p] = (i[p] + 1) % bound]
    /\ Goto(p, IF i[p] + 1 < bound THEN pc[p] ELSE place)
    /\ vm_sc_lock' = IF i[p] + 1 < bound \/ place = "clock" THEN p ELSE NULL
    /\ UNCHANGED <<fr, lock, page, frame>>

\* lock_try_acquire
CanLock(f) == lock[f] = NULL

Scans(p) ==
    /\ pc[p] = "scan"
    /\ IF CanLock(i[p]) /\ page[i[p]] = NULL THEN TakeFrame(p, i[p])
       ELSE NextTry(p, FCount, "clock") /\ UNCHANGED accessed
    /\ UNCHANGED <<cur, why, exiting, data, hand, pages, kind, sector, file, private, present,
                   dirty, disk, panic, spoiled>>

\* Mutant: ++hand > f_count
NextHand_Past(h) == (h + 1) % (FCount + 1)

NextHand(h) == (h + 1) % FCount

Clocks(p) ==
    /\ pc[p] = "clock"
    /\ hand' = NextHand(hand)
    /\ \/ lock[hand] = NULL /\ page[hand] = NULL /\ TakeFrame(p, hand)
       \/ /\ lock[hand] # NULL
          /\ NextTry(p, 2 * FCount, "failed") /\ UNCHANGED accessed
       \/ /\ lock[hand] = NULL /\ page[hand] \in accessed
          /\ NextTry(p, 2 * FCount, "failed")
          /\ accessed' = accessed \ {page[hand]}
       \/ /\ lock[hand] = NULL /\ page[hand] # NULL /\ page[hand] \notin accessed
          /\ lock' = [lock EXCEPT ![hand] = p]
          /\ fr' = [fr EXCEPT ![p] = hand]
          /\ i' = [i EXCEPT ![p] = 0]
          /\ vm_sc_lock' = NULL
          /\ Goto(p, "clear")
          /\ UNCHANGED <<page, frame, accessed>>
    /\ UNCHANGED <<cur, why, exiting, data, pages, kind, sector, file, private, present, dirty,
                   disk, panic, spoiled>>

\* page_lock evaluates p->frame->base after the failure.  page_in fails, and
\* the process exits.  setup_stack returns what is in the register.
AllocFails(p) ==
    /\ pc[p] = "failed"
    /\ \/ why[p] = "access" /\ panic' = TRUE /\ UNCHANGED <<pc, local>>
       \/ /\ why[p] \in {"fault", "load"}
          /\ Return(p, "exit")
          /\ exiting' = exiting \cup {p}
          /\ UNCHANGED panic
       \/ why[p] = "load" /\ Return(p, "user") /\ UNCHANGED <<exiting, panic>>
    /\ UNCHANGED <<frames, spt, ptes, disk, spoiled>>

-----------------------------------------------------------------------------
(* page_out of the page in frame fr[p]: evicted, or unmapped by its owner.  *)

Victim(p) == page[fr[p]]

\* Mutant: only modified pages are kept.
Destination_Dirty(q) ==
    IF q \notin dirty THEN "take" ELSE IF file[q] /\ ~private[q] THEN "write" ELSE "slot"

\* Mutant: shared pages are not written.
Destination_Shared(q) == IF ~file[q] \/ (q \in dirty /\ private[q]) THEN "slot" ELSE "take"

Destination(q) ==
    IF ~file[q] \/ (q \in dirty /\ private[q]) THEN "slot"
    ELSE IF q \in dirty THEN "write"
    ELSE "take"

\* Mutant: the entry stays valid while the page is written.
PresentAfterClear_Late(q) == IF Destination(q) = "take" THEN present \ {q} ELSE present

PresentAfterClear(q) == present \ {q}

PageOutClears(p) ==
    /\ pc[p] = "clear"
    /\ present' = PresentAfterClear(Victim(p))
    /\ Goto(p, Destination(Victim(p)))
    /\ UNCHANGED <<local, frames, spt, dirty, accessed, disk, panic, spoiled>>

\* swap_out: bitmap_scan_and_flip under s_lock.
SwapOutGetsSlot(p) ==
    /\ pc[p] = "slot"
    /\ \E s \in (0..Slots - 1) \ used :
          /\ 0..s - 1 \subseteq used
          /\ used' = used \cup {s}
          /\ sector' = [sector EXCEPT ![Victim(p)] = s]
    /\ Goto(p, "swap")
    /\ UNCHANGED <<local, frames, pages, kind, frame, file, private, ptes, swap, store, panic,
                   spoiled>>

\* No slot, or the file denies writes because it is being executed: page_out
\* fails, and frame_alloc_and_lock with it; page_deallocate does not look.
PageOutFails(p) ==
    /\ \/ pc[p] = "slot" /\ used = 0..Slots - 1
       \/ pc[p] = "write"
    /\ spoiled' = spoiled \cup {Victim(p)}
    /\ IF why[p] = "unmap" THEN Goto(p, "free") /\ UNCHANGED <<lock, fr>>
       ELSE /\ lock' = [lock EXCEPT ![fr[p]] = NULL]
            /\ fr' = [fr EXCEPT ![p] = NULL]
            /\ Goto(p, "failed")
    /\ UNCHANGED <<cur, i, why, exiting, page, data, vm_sc_lock, hand, spt, ptes, disk, panic>>

SwapOutWrites(p) ==
    /\ pc[p] = "swap"
    /\ swap' = [swap EXCEPT ![sector[Victim(p)]] = data[fr[p]]]
    /\ file' = [file EXCEPT ![Victim(p)] = FALSE]
    /\ private' = [private EXCEPT ![Victim(p)] = FALSE]
    /\ Goto(p, "take")
    /\ UNCHANGED <<local, frames, pages, kind, frame, sector, ptes, used, store, panic, spoiled>>

\* The files after frame f has been written to the part that q maps.
Written(q, f) == IF data[f] = q THEN store \cup {q} ELSE store \ {q}

FileWrites(p) ==
    /\ pc[p] = "write"
    /\ store' = Written(Victim(p), fr[p])
    /\ Goto(p, "take")
    /\ UNCHANGED <<local, frames, spt, ptes, used, swap, panic, spoiled>>

\* p->frame = NULL; then f->page = page, or page_deallocate goes on.
PageOutReturns(p) ==
    /\ pc[p] = "take"
    /\ IF why[p] = "unmap"
       THEN /\ frame' = [frame EXCEPT ![Victim(p)] = NULL]
            /\ Goto(p, "free")
            /\ UNCHANGED page
       ELSE /\ frame' = [frame EXCEPT ![Victim(p)] = NULL, ![cur[p]] = fr[p]]
            /\ page' = [page EXCEPT ![fr[p]] = cur[p]]
            /\ Goto(p, "fill")
    /\ UNCHANGED <<local, lock, data, vm_sc_lock, hand, pages, kind, sector, file, private,
                   ptes, disk, panic, spoiled>>

-----------------------------------------------------------------------------
(* install_page_in, and system calls that use a page.                      *)

\* What is stored of page q outside its frame.
Stored(q) == IF sector[q] # NULL THEN swap[sector[q]]
             ELSE IF q \in store /\ (file[q] <=> kind[q] # "stack") THEN q
             ELSE NULL

Fills(p) ==
    /\ pc[p] = "fill" /\ why[p] # "load"
    /\ data' = [data EXCEPT ![fr[p]] = Stored(cur[p])]
    /\ IF sector[cur[p]] = NULL THEN Resident(p, TRUE)
       ELSE Goto(p, "reset") /\ UNCHANGED <<cur, fr, i, why, lock, ptes>>
    /\ UNCHANGED <<exiting, page, vm_sc_lock, hand, spt, disk, panic, spoiled>>

\* setup_stack goes on in the frame it has got: map_to_user writes through the
\* kernel's address, so that the entry is left to the first fault, and fails if
\* the arguments do not fit.
SetsUpStack(p) ==
    /\ pc[p] = "fill" /\ why[p] = "load"
    /\ NewContent(cur[p], fr[p])
    /\ lock' = [lock EXCEPT ![fr[p]] = NULL]
    /\ \/ Return(p, "user") /\ UNCHANGED exiting
       \/ Return(p, "exit") /\ exiting' = exiting \cup {p}
    /\ UNCHANGED <<page, vm_sc_lock, hand, spt, ptes, used, panic, spoiled>>

\* swap_in after the reads: bitmap_reset, without s_lock.
SwapInResets(p) ==
    /\ pc[p] = "reset"
    /\ used' = used \ {sector[cur[p]]}
    /\ Goto(p, "forget")
    /\ UNCHANGED <<local, frames, spt, ptes, swap, store, panic, spoiled>>

\* Mutant: the page goes on naming the slot.
SectorAfterSwapIn_Kept(q) == sector[q]

SectorAfterSwapIn(q) == NULL

\* p->sector = -1: in between another page may have got the slot.
SwapInForgets(p) ==
    /\ pc[p] = "forget"
    /\ sector' = [sector EXCEPT ![cur[p]] = SectorAfterSwapIn(cur[p])]
    /\ Resident(p, TRUE)
    /\ UNCHANGED <<exiting, page, data, vm_sc_lock, hand, pages, kind, frame, file, private,
                   disk, panic, spoiled>>

\* A system call reads or writes the page at its user address, then page_unlock.
KernelAccesses(p) ==
    /\ pc[p] = "kernel"
    /\ IF cur[p] \notin present
       THEN panic' = TRUE /\ UNCHANGED <<pc, local, lock, data, swap, store, dirty, accessed>>
       ELSE /\ \/ accessed' = accessed \cup {cur[p]} /\ UNCHANGED <<data, swap, store, dirty>>
               \/ kind[cur[p]] # "text" /\ Write(cur[p], frame[cur[p]])
            /\ lock' = [lock EXCEPT ![frame[cur[p]]] = NULL]
            /\ Return(p, "user")
            /\ UNCHANGED <<exiting, panic>>
    /\ UNCHANGED <<page, vm_sc_lock, hand, spt, present, used, spoiled>>

-----------------------------------------------------------------------------
(* munmap and exit.                                                        *)

AfterTest(q) == IF q \in dirty THEN "writeback" ELSE "dealloc"

\* unmap of a mapping of one page, up to pagedir_is_dirty.
Unmaps(p, place) ==
    /\ pc[p] = place
    /\ \E q \in PagesOf(p) \cap pages :
          /\ kind[q] = "map"
          /\ cur' = [cur EXCEPT ![p] = q]
          /\ Goto(p, AfterTest(q))
    /\ UNCHANGED <<fr, i, why, exiting, frames, spt, ptes, disk, panic, spoiled>>

\* file_write_at from the user address; a file that denies writes is left as
\* it is, without reading the page.
UnmapWrites(p) ==
    /\ pc[p] = "writeback"
    /\ \/ /\ spoiled' = spoiled \cup {cur[p]}
          /\ Goto(p, "dealloc")
          /\ UNCHANGED <<panic, store, accessed>>
       \/ /\ cur[p] \notin present
          /\ panic' = TRUE
          /\ UNCHANGED <<pc, store, accessed, spoiled>>
       \/ /\ cur[p] \in present
          /\ store' = Written(cur[p], frame[cur[p]])
          /\ accessed' = accessed \cup {cur[p]}
          /\ Goto(p, "dealloc")
          /\ UNCHANGED <<panic, spoiled>>
    /\ UNCHANGED <<local, frames, spt, present, dirty, used, swap>>

\* page_deallocate
Deallocates(p) ==
    /\ pc[p] = "dealloc"
    /\ StartsFrameLock(p, cur[p], "unmap")
    /\ UNCHANGED <<spt, store>>

\* page_exit, once syscall_exit has unmapped everything: page_destroy of q.
Destroys(p) ==
    /\ pc[p] = "exit"
    /\ \A q \in PagesOf(p) \cap pages : kind[q] # "map"
    /\ \E q \in PagesOf(p) \cap pages : StartsFrameLock(p, q, "exit")
    /\ UNCHANGED <<spt, store>>

\* The struct page is freed and what was in it is forgotten.  A slot it had in
\* swap stays used.
FreesPage(p) ==
    /\ pages' = pages \ {cur[p]}
    /\ frame' = [frame EXCEPT ![cur[p]] = NULL]
    /\ sector' = [sector EXCEPT ![cur[p]] = NULL]
    /\ Return(p, IF p \in exiting THEN "exit" ELSE "user")
    /\ UNCHANGED <<exiting, kind, file, private>>

\* frame_free
FreesFrame(p) ==
    /\ pc[p] = "free"
    /\ page' = [page EXCEPT ![fr[p]] = NULL]
    /\ lock' = [lock EXCEPT ![fr[p]] = NULL]
    /\ FreesPage(p)
    /\ UNCHANGED <<data, vm_sc_lock, hand, ptes, disk, panic, spoiled>>

FreesNoFrame(p) ==
    /\ pc[p] = "gone"
    /\ FreesPage(p)
    /\ UNCHANGED <<frames, ptes, disk, panic, spoiled>>

\* pagedir_destroy
Dies(p) ==
    /\ pc[p] = "exit"
    /\ PagesOf(p) \cap pages = {}
    /\ present' = present \ PagesOf(p)
    /\ dirty' = dirty \ PagesOf(p)
    /\ accessed' = accessed \ PagesOf(p)
    /\ Goto(p, "dead")
    /\ UNCHANGED <<local, frames, spt, disk, panic, spoiled>>

-----------------------------------------------------------------------------
Locking(p) == ~panic /\ (FrameLockGets(p) \/ AllocStarts(p))

Kernel(p) ==
    /\ ~panic
    /\ \/ FrameLockRechecks(p) \/ Maps(p)
       \/ Scans(p) \/ Clocks(p) \/ AllocFails(p)
       \/ PageOutClears(p) \/ SwapOutGetsSlot(p) \/ PageOutFails(p) \/ SwapOutWrites(p)
       \/ FileWrites(p) \/ PageOutReturns(p)
       \/ Fills(p) \/ SetsUpStack(p) \/ SwapInResets(p) \/ SwapInForgets(p)
       \/ KernelAccesses(p)
       \/ Unmaps(p, "exit") \/ UnmapWrites(p) \/ Deallocates(p)
       \/ Destroys(p) \/ FreesFrame(p) \/ FreesNoFrame(p) \/ Dies(p)

User(p) ==
    /\ ~panic
    /\ \/ Load(p) \/ UserReads(p) \/ UserWrites(p) \/ Exits(p) \/ Mmap(p)
       \/ Faults(p, "fault") \/ Faults(p, "access") \/ Unmaps(p, "user")

\* After PANIC nothing moves, nor when all processes are dead.
Stopped == (panic \/ \A p \in Procs : pc[p] = "dead") /\ UNCHANGED vars

Next == (\E p \in Procs : Locking(p) \/ Kernel(p) \/ User(p)) \/ Stopped

Spec == Init /\ [][Next]_vars

\* A thread in the kernel runs again and again (round robin), and a semaphore
\* hands itself to its waiters in turn.
FairSpec == Spec /\ \A p \in Procs : WF_vars(Kernel(p)) /\ SF_vars(Locking(p))

-----------------------------------------------------------------------------
\* A page whose entry is present is in the frame both sides agree on, and the
\* program reads there what it last wrote, whatever was evicted in between
\* (page.c:67-91, frame.c:79-89).
PresentCurrent ==
    \A q \in present \cap pages : Owner[q] \notin exiting =>
        /\ frame[q] # NULL /\ page[frame[q]] = q
        /\ q \notin spoiled => data[frame[q]] = q

\* A page that is in no frame can be had again: its slot or its file holds
\* what was last written (swap.c:45-66, page.c:78-85).
NothingLost ==
    \A q \in pages : frame[q] = NULL /\ q \notin spoiled => Stored(q) = q

\* swap_in has given the slot of q back and is about to forget it: until then
\* p->sector is stale (swap.c:41-42).
Stale(q) == \E p \in Procs : pc[p] = "forget" /\ cur[p] = q

\* No two pages share a slot, and a slot a page refers to is not free: it
\* would be overwritten.  Only a page whose slot swap_in has just given back
\* still names it, free or another's by then (swap.c:41-42 and 48-50).
SlotsExclusive ==
    \A q \in pages : sector[q] # NULL /\ ~Stale(q) =>
        /\ sector[q] \in used
        /\ \A r \in pages \ {q} : sector[r] = sector[q] => Stale(r)

\* The clock hand looks through the page of every frame it can lock: that page
\* still exists and believes to be there (frame.c:73, page.c:125-128).
NoDanglingPage ==
    \A f \in Frames : lock[f] = NULL /\ page[f] # NULL =>
        page[f] \in pages /\ frame[page[f]] = f

\* No process runs user code, or is gone, with a frame locked: nobody else
\* could ever evict or free it (page.c:62, 125-128, frame.c:82-86).
LocksReturned ==
    \A f \in Frames : lock[f] \in Procs => pc[lock[f]] \notin {"user", "exit", "dead"}

\* What the three tables say of each other while frames are evicted, brought in
\* and freed: swap slots (but for the stale one of a swap_in that has not
\* returned), the frame table and the locks of frames.
TablesAgree == SlotsExclusive /\ NoDanglingPage /\ LocksReturned

\* When a mapping goes away the file holds what the program last wrote into
\* it, unless the file refused (syscall.c:484-503).
WrittenBack ==
    [][\A q \in pages \ pages' : kind[q] = "map" /\ q \notin spoiled => q \in store']_vars

\* A fault is answered: the program goes on, or it is ended, whatever the
\* others hold and evict (exception.c:153-158).
FaultReturns ==
    \A p \in Procs :
        pc[p] \in {"lock", "alloc"} ~> (pc[p] \in {"user", "exit", "dead"} \/ panic)

\* syscall.c:482-483, of unmap: "Remove mapping M from the virtual address
\* space, writing back any pages that have changed."  The page it writes back
\* from is there to be read.
UnmapFindsPage == \A p \in Procs : pc[p] = "writeback" => cur[p] \in present
=============================================================================
