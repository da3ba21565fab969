------------------------------ MODULE VmProofs ------------------------------
(***************************************************************************)
(* A page is where both tables say and its content is never lost, for any  *)
(* number of processes, pages, frames and slots.                           *)
(***************************************************************************)
EXTENDS Vm, TLAPS

\* Where a process has a frame locked, fr, and where it is in page_out.
Holders == {"recheck", "clear", "slot", "swap", "write", "take", "fill", "reset", "forget",
            "map", "kernel", "free"}
Outside == {"new", "user", "exit", "dead"}
PageOut == {"clear", "slot", "swap", "write", "take"}
Brings  == {"load", "fault", "access"}

\* What each place says of the locals of its process.
Locals ==
    \A p \in Procs :
        /\ pc[p] \notin Outside => cur[p] \in pages /\ Owner[cur[p]] = p
        /\ pc[p] \in Holders \cup {"lock"} => fr[p] \in Frames
        /\ pc[p] = "scan" => i[p] < FCount
        /\ pc[p] = "clock" => i[p] < 2 * FCount
        /\ pc[p] \notin {"scan", "clock"} => i[p] = 0

Reasons ==
    \A p \in Procs :
        /\ pc[p] \in Outside \cup {"writeback", "dealloc"} => why[p] = "none"
        /\ pc[p] \in {"alloc", "scan", "clock", "failed", "fill", "reset", "forget"} =>
              why[p] \in Brings
        /\ pc[p] \in PageOut => why[p] \in Brings \cup {"unmap"}
        /\ pc[p] \in {"lock", "recheck"} => why[p] \in {"fault", "access", "unmap", "exit"}
        /\ pc[p] = "map" => why[p] = "fault"
        /\ pc[p] = "kernel" => why[p] = "access"
        /\ pc[p] \in {"free", "gone"} => why[p] \in {"unmap", "exit"}
        /\ pc[p] \in {"exit", "dead"} \/ why[p] = "exit" => p \in exiting
        /\ p \in exiting => pc[p] \notin {"new", "user"} /\ why[p] \notin Brings

\* A frame is locked by the process that is working on it.
Holding ==
    /\ \A p \in Procs : pc[p] \in Holders => lock[fr[p]] = p
    /\ \A f \in Frames : lock[f] \in Procs => pc[lock[f]] \in Holders /\ fr[lock[f]] = f

\* The process that has frame f locked is at one of the places.
WorkedOn(f, places) == lock[f] \in Procs /\ pc[lock[f]] \in places

\* Frames and pages refer to each other.
Residence ==
    /\ \A q \in Pages : frame[q] # NULL => q \in pages /\ page[frame[q]] = q
    /\ \A f \in Frames : page[f] # NULL =>
          page[f] \in pages /\ (frame[page[f]] = f \/ WorkedOn(f, {"free"}))
    /\ \A p \in Procs :
          /\ pc[p] \in {"alloc", "scan", "clock", "failed", "recheck", "gone"} =>
                frame[cur[p]] = NULL
          /\ pc[p] \in {"lock", "free"} => frame[cur[p]] \in {fr[p], NULL}
          /\ pc[p] \in {"fill", "reset", "forget", "map", "kernel"} => frame[cur[p]] = fr[p]
          /\ pc[p] \in PageOut =>
                /\ page[fr[p]] # NULL /\ frame[page[fr[p]]] = fr[p]
                /\ IF why[p] = "unmap" THEN page[fr[p]] = cur[p] ELSE frame[cur[p]] = NULL
          /\ pc[p] = "free" => page[fr[p]] = cur[p]

\* Page q is in the frame of a swap_in that has given its slot back.
Forgetting(q) == frame[q] # NULL /\ WorkedOn(frame[q], {"forget"})

\* Slots belong to pages that are outside or on their way.
Slotted ==
    /\ \A q \in Pages : sector[q] # NULL =>
          /\ q \in pages /\ (Forgetting(q) \/ sector[q] \in used)
          /\ frame[q] # NULL => WorkedOn(frame[q], {"swap", "take", "fill", "reset", "forget"})
          /\ file[q] => frame[q] # NULL /\ WorkedOn(frame[q], {"swap"})
          /\ \A r \in Pages \ {q} : sector[r] = sector[q] => Forgetting(q) \/ Forgetting(r)
    /\ \A p \in Procs : pc[p] \in {"swap", "reset", "forget"} => sector[page[fr[p]]] # NULL

\* The uses of a page, and what backs it.
Backed ==
    /\ \A q \in pages : /\ kind[q] = "stack" => ~file[q]
                        /\ kind[q] = "map" => file[q] /\ ~private[q]
    /\ \A p \in Procs :
          /\ pc[p] = "new" => PagesOf(p) \cap pages = {}
          /\ pc[p] \notin Outside =>
                /\ why[p] = "load" => kind[cur[p]] = "stack" /\ sector[cur[p]] = NULL
                /\ why[p] = "unmap" \/ pc[p] \in {"writeback", "dealloc"} => kind[cur[p]] = "map"
                /\ why[p] = "exit" => kind[cur[p]] # "map"
          /\ pc[p] \in {"slot", "swap"} => kind[page[fr[p]]] # "map"
          /\ pc[p] = "write" => file[page[fr[p]]]

\* Page-table entries.
Presence ==
    /\ \A q \in present : IF q \in pages THEN frame[q] # NULL ELSE Owner[q] \in exiting
    /\ \A p \in Procs :
          /\ pc[p] \in PageOut \ {"clear"} => page[fr[p]] \notin present
          /\ pc[p] \in {"fill", "reset", "forget"} => cur[p] \notin present
          /\ why[p] = "fault" => cur[p] \notin present
          /\ pc[p] = "free" /\ why[p] = "unmap" => cur[p] \notin present
    /\ \A q \in pages \ spoiled : frame[q] # NULL /\ q \notin present /\ file[q] =>
          WorkedOn(frame[q], {"slot", "swap", "write", "take", "fill", "reset", "forget"})

\* Where the content of a page is.
Contents ==
    /\ \A q \in pages \ spoiled :
          /\ frame[q] = NULL => Stored(q) = q
          /\ frame[q] # NULL => data[frame[q]] = q \/ WorkedOn(frame[q], {"fill"})
          /\ frame[q] # NULL /\ file[q] /\ q \notin dirty => q \in store
    /\ \A p \in Procs :
          /\ pc[p] = "fill" /\ cur[p] \notin spoiled => Stored(cur[p]) = cur[p]
          /\ pc[p] = "take" /\ page[fr[p]] \notin spoiled => Stored(page[fr[p]]) = page[fr[p]]
          /\ pc[p] = "free" /\ why[p] = "unmap" /\ cur[p] \notin spoiled => frame[cur[p]] = NULL

Inv == /\ TypeOK /\ Locals /\ Reasons /\ Holding /\ Residence /\ Slotted /\ Backed
       /\ Presence /\ Contents

-----------------------------------------------------------------------------
(* Types.  TypeOK in four parts, as no action changes variables of all.    *)

TypeLocals ==
    /\ pc \in [Procs -> PCs]
    /\ cur \in [Procs -> Pages \cup {NULL}]
    /\ fr \in [Procs -> Frames \cup {NULL}]
    /\ i \in [Procs -> 0..2 * FCount]
    /\ why \in [Procs -> {"none", "load", "fault", "access", "unmap", "exit"}]
    /\ exiting \subseteq Procs

TypeFrames ==
    /\ page \in [Frames -> Pages \cup {NULL}]
    /\ lock \in [Frames -> Procs \cup {NULL, Boot}]
    /\ data \in [Frames -> Pages \cup {NULL}]
    /\ vm_sc_lock \in Procs \cup {NULL} /\ hand \in Frames

TypePages ==
    /\ pages \subseteq Pages /\ kind \in [Pages -> Kinds]
    /\ frame \in [Pages -> Frames \cup {NULL}]
    /\ sector \in [Pages -> 0..Slots - 1 \cup {NULL}]
    /\ file \in [Pages -> BOOLEAN] /\ private \in [Pages -> BOOLEAN]

TypeDisk ==
    /\ present \subseteq Pages /\ dirty \subseteq Pages /\ accessed \subseteq Pages
    /\ used \subseteq 0..Slots - 1
    /\ swap \in [0..Slots - 1 -> Pages \cup {NULL}] /\ store \subseteq Pages
    /\ spoiled \subseteq Pages

\* TypeOK is its four parts and the type of panic.
LEMMA TypeParts ==
    TypeOK <=> TypeLocals /\ TypeFrames /\ TypePages /\ TypeDisk /\ panic \in BOOLEAN
BY DEF TypeOK, TypeLocals, TypeFrames, TypePages, TypeDisk

\* The constants, and the arithmetic of the two loops and of the clock hand.
LEMMA Constants ==
    /\ NULL \notin Frames /\ NULL \notin Pages /\ NULL \notin Procs /\ NULL \notin 0..Slots - 1
    /\ 0 \in 0..2 * FCount /\ 0 < FCount /\ 0 < 2 * FCount
    /\ \A h \in Frames : NextHand(h) \in Frames
    /\ \A n \in {FCount, 2 * FCount} : \A j \in Nat : j < n =>
          /\ (j + 1) % n = IF j + 1 < n THEN j + 1 ELSE 0
          /\ j + 1 < n => j + 1 \in 0..2 * FCount
BY VmAssumption DEF Frames, NextHand

\* Where a process is says that its locals have a value.
LEMMA Where ==
    ASSUME TypeOK, Locals, NEW p \in Procs
    PROVE  /\ pc[p] \notin Outside => cur[p] \in Pages
           /\ pc[p] \in Holders \cup {"lock"} => fr[p] \in Frames
           /\ pc[p] = "scan" => i[p] \in Frames /\ i[p] \in Nat /\ i[p] < FCount
           /\ pc[p] = "clock" => i[p] \in Nat /\ i[p] < 2 * FCount
BY VmAssumption DEF TypeOK, Locals, Frames

\* What page_allocate does to pages that are in no table: the others keep
\* everything, and the new ones are in no frame and have no slot.
Grown ==
    /\ pages \subseteq pages' /\ frame' = frame /\ sector' = sector
    /\ store' = store \cup (pages' \ pages)
    /\ \A q \in pages : kind'[q] = kind[q] /\ file'[q] = file[q] /\ private'[q] = private[q]
    /\ \A q \in pages' \ pages : /\ file'[q] = (kind'[q] # "stack")
                                 /\ private'[q] = (kind'[q] = "data")

\* page_allocate does that, and keeps the types.
LEMMA Allocated ==
    ASSUME TypeOK, Residence, Slotted, NEW new \in SUBSET (Pages \ pages),
           NEW use \in [new -> Kinds], Allocate(use)
    PROVE  /\ Grown /\ TypePages' /\ pages' = pages \cup new
           /\ \A q \in new : kind'[q] = use[q]
<1>1. pages' = pages \cup new /\ store' = store \cup new /\ DOMAIN use = new
  BY DEF Allocate
<1>2. pages' \ pages = new
  BY <1>1
<1>3. /\ kind' \in [Pages -> Kinds]
      /\ \A q \in new : kind'[q] = use[q]
      /\ \A q \in pages : kind'[q] = kind[q]
  BY <1>1 DEF Allocate, TypeOK
<1>4. frame' = frame
  <2>1. \A q \in new : frame[q] = NULL
    BY DEF Residence
  <2> QED BY <1>1, <2>1 DEF Allocate, TypeOK
<1>5. sector' = sector
  <2>1. \A q \in new : sector[q] = NULL
    BY DEF Slotted
  <2> QED BY <1>1, <2>1 DEF Allocate, TypeOK
<1>6. /\ \A q \in pages : file'[q] = file[q] /\ private'[q] = private[q]
      /\ \A q \in new : file'[q] = (kind'[q] # "stack") /\ private'[q] = (kind'[q] = "data")
  BY <1>1 DEF Allocate, TypeOK
<1>7. file' \in [Pages -> BOOLEAN] /\ private' \in [Pages -> BOOLEAN]
  BY <1>1 DEF Allocate, TypeOK
<1> QED BY <1>1, <1>2, <1>3, <1>4, <1>5, <1>6, <1>7 DEF Grown, TypePages, TypeOK

\* load adds its segments and one stack page to a table that was empty, and
\* goes to frame_alloc_and_lock for the stack page.
LEMMA LoadGrows ==
    ASSUME TypeOK, Residence, Slotted, Backed, NEW p \in Procs, Load(p)
    PROVE  /\ Grown /\ TypePages'
           /\ \E q \in PagesOf(p) : /\ cur' = [cur EXCEPT ![p] = q]
                                    /\ q \in pages' /\ kind'[q] = "stack"
           /\ \A q \in pages' \ pages : kind'[q] # "map" /\ Owner[q] = p
<1>1. PagesOf(p) \cap pages = {}
  BY DEF Load, Backed
<1>2. PICK q \in PagesOf(p) \cap Stack, segments \in SUBSET (PagesOf(p) \ Stack) :
         /\ \E use \in [segments \cup {q} -> {"stack", "data", "text"}] :
               /\ \A r \in segments \cup {q} : use[r] = "stack" <=> r = q
               /\ Allocate(use)
         /\ cur' = [cur EXCEPT ![p] = q]
  BY DEF Load
<1>3. PICK use \in [segments \cup {q} -> {"stack", "data", "text"}] :
         /\ \A r \in segments \cup {q} : use[r] = "stack" <=> r = q
         /\ Allocate(use)
  BY <1>2
<1>4. segments \cup {q} \in SUBSET (Pages \ pages) /\ \A r \in segments \cup {q} : Owner[r] = p
  BY <1>1 DEF PagesOf
<1>5. use \in [segments \cup {q} -> Kinds] /\ \A r \in segments \cup {q} : use[r] # "map"
  BY DEF Kinds
<1>6. /\ Grown /\ TypePages' /\ pages' = pages \cup (segments \cup {q})
      /\ \A r \in segments \cup {q} : kind'[r] = use[r]
  BY <1>3, <1>4, <1>5, Allocated
<1> QED BY <1>2, <1>3, <1>4, <1>5, <1>6

\* sys_mmap adds mapped pages of the process only.
LEMMA MmapGrows ==
    ASSUME TypeOK, Residence, Slotted, NEW p \in Procs, Mmap(p)
    PROVE  /\ Grown /\ TypePages'
           /\ \A q \in pages' \ pages : kind'[q] = "map" /\ Owner[q] = p
<1>1. PICK q \in PagesOf(p) \ (pages \cup Stack) : Allocate([r \in {q} |-> "map"])
  BY DEF Mmap
<1>2. {q} \in SUBSET (Pages \ pages) /\ [r \in {q} |-> "map"] \in [{q} -> Kinds] /\ Owner[q] = p
  BY DEF Kinds, PagesOf
<1>3. /\ Grown /\ TypePages' /\ pages' = pages \cup {q}
      /\ \A r \in {q} : kind'[r] = [s \in {q} |-> "map"][r]
  BY <1>1, <1>2, Allocated
<1> QED BY <1>2, <1>3

\* page_fault and page_lock look up a page of the process, which
\* get_page_with_addr may have added to its stack.
LEMMA FaultGrows ==
    ASSUME TypeOK, Residence, Slotted, NEW p \in Procs, NEW w, Faults(p, w)
    PROVE  /\ Grown /\ TypePages'
           /\ \E q \in PagesOf(p) \cap pages' :
                 StartsFrameLock(p, q, w) /\ (w = "fault" => q \notin present)
           /\ \A q \in pages' \ pages : kind'[q] = "stack" /\ Owner[q] = p
<1>1. PICK q \in PagesOf(p) :
         /\ w = "fault" => q \notin present
         /\ \/ q \in pages /\ UNCHANGED <<spt, store>>
            \/ q \in Stack \ pages /\ Allocate([r \in {q} |-> "stack"])
         /\ StartsFrameLock(p, q, w)
  BY DEF Faults
<1>2. CASE q \in pages /\ UNCHANGED <<spt, store>>
  <2>1. Grown /\ TypePages' /\ pages' = pages
    BY <1>2 DEF Grown, TypePages, TypeOK, spt
  <2> QED BY <1>1, <1>2, <2>1
<1>3. CASE q \in Stack \ pages /\ Allocate([r \in {q} |-> "stack"])
  <2>1. {q} \in SUBSET (Pages \ pages) /\ [r \in {q} |-> "stack"] \in [{q} -> Kinds]
        /\ Owner[q] = p
    BY <1>3 DEF Kinds, PagesOf
  <2>2. /\ Grown /\ TypePages' /\ pages' = pages \cup {q}
        /\ \A r \in {q} : kind'[r] = [s \in {q} |-> "stack"][r]
    BY <1>3, <2>1, Allocated
  <2> QED BY <1>1, <2>1, <2>2
<1> QED BY <1>1, <1>2, <1>3

\* A step of the two loops of frame_alloc_and_lock takes a frame without a
\* page, goes on to the next frame, or locks a frame to evict its page.
Passes(p) ==
    /\ \E j \in 0..2 * FCount, place \in {"scan", "clock", "failed"} :
          /\ i' = [i EXCEPT ![p] = j] /\ Goto(p, place)
          /\ place = "scan" => j < FCount
          /\ place = "clock" => j < 2 * FCount
          /\ place = "failed" => j = 0
    /\ vm_sc_lock' \in {p, NULL}
    /\ UNCHANGED <<fr, lock, page, frame>>

Evicts(p, f) ==
    /\ lock[f] = NULL /\ page[f] # NULL
    /\ lock' = [lock EXCEPT ![f] = p]
    /\ fr' = [fr EXCEPT ![p] = f]
    /\ i' = [i EXCEPT ![p] = 0]
    /\ vm_sc_lock' = NULL
    /\ Goto(p, "clear")
    /\ UNCHANGED <<page, frame>>

Searches(p) ==
    /\ pc[p] \in {"scan", "clock"}
    /\ \/ Passes(p)
       \/ \E f \in Frames : \/ lock[f] = NULL /\ page[f] = NULL /\ TakeFrame(p, f)
                            \/ Evicts(p, f)
    /\ accessed' \subseteq accessed /\ hand' \in Frames
    /\ UNCHANGED <<cur, why, exiting, data, pages, kind, sector, file, private, present, dirty,
                   disk, panic, spoiled>>

\* One turn of either loop of frame_alloc_and_lock goes on, gives up, or leaves
\* with a frame locked.
LEMMA Searched ==
    ASSUME TypeOK, Locals, NEW p \in Procs, Scans(p) \/ Clocks(p)
    PROVE  Searches(p)
<1> USE Where, Constants
<1>0. hand \in Frames /\ FCount \in Nat \ {0} /\ pc \in [Procs -> PCs]
  BY VmAssumption DEF TypeOK
<1>1. CASE Scans(p)
  <2>0. pc[p] = "scan" /\ i[p] \in Frames /\ i[p] \in Nat /\ i[p] < FCount
    BY <1>1 DEF Scans
  <2>1. CASE CanLock(i[p]) /\ page[i[p]] = NULL
    <3>1. TakeFrame(p, i[p]) /\ lock[i[p]] = NULL
      BY <1>1, <2>1 DEF Scans, CanLock
    <3>2. accessed' = accessed
      BY <3>1 DEF TakeFrame
    <3> QED BY <1>0, <1>1, <2>0, <2>1, <3>1, <3>2 DEF Scans, Searches
  <2>2. CASE ~(CanLock(i[p]) /\ page[i[p]] = NULL)
    <3>1. NextTry(p, FCount, "clock") /\ UNCHANGED accessed
      BY <1>1, <2>2 DEF Scans
    <3>2. Passes(p)
      BY <2>0, <3>1 DEF NextTry, Passes
    <3> QED BY <1>0, <1>1, <2>0, <3>1, <3>2 DEF Scans, Searches
  <2> QED BY <2>1, <2>2
<1>2. CASE Clocks(p)
  <2>0. pc[p] = "clock" /\ i[p] \in Nat /\ i[p] < 2 * FCount /\ hand' \in Frames
    BY <1>0, <1>2 DEF Clocks
  <2>1. CASE lock[hand] = NULL /\ page[hand] = NULL /\ TakeFrame(p, hand)
    BY <1>0, <1>2, <2>0, <2>1 DEF Clocks, Searches, TakeFrame
  <2>2. CASE NextTry(p, 2 * FCount, "failed") /\ accessed' \subseteq accessed
    <3>1. Passes(p)
      BY <2>0, <2>2 DEF NextTry, Passes
    <3> QED BY <1>2, <2>0, <2>2, <3>1 DEF Clocks, Searches
  <2>3. CASE Evicts(p, hand) /\ UNCHANGED accessed
    BY <1>0, <1>2, <2>0, <2>3 DEF Clocks, Searches
  <2>4. \/ lock[hand] = NULL /\ page[hand] = NULL /\ TakeFrame(p, hand)
        \/ NextTry(p, 2 * FCount, "failed") /\ accessed' \subseteq accessed
        \/ Evicts(p, hand) /\ UNCHANGED accessed
    BY <1>2 DEF Clocks, Evicts
  <2> QED BY <2>1, <2>2, <2>3, <2>4
<1> QED BY <1>1, <1>2

Step(p) == Locking(p) \/ Kernel(p) \/ User(p)

\* A step leaves the process and its locals at a place and with values of
\* their types: page_fault, frame_alloc_and_lock and the others return nothing
\* else.
LEMMA TypeLocalsStep ==
    ASSUME TypeOK, Locals, Reasons, Residence, Slotted, Backed, NEW p \in Procs, Step(p)
    PROVE  TypeLocals'
<1> USE Where, Constants DEF PCs, Goto
<1>0. TypeLocals
  BY TypeParts
<1>1. CASE Load(p)
  <2>1. PICK q \in Pages : cur' = [cur EXCEPT ![p] = q]
    BY <1>1 DEF Load, PagesOf
  <2> QED BY <1>0, <1>1, <2>1 DEF Load, TypeLocals
<1>10. CASE UserReads(p) \/ UserWrites(p) \/ Exits(p) \/ Mmap(p)
  BY <1>0, <1>10 DEF UserReads, UserWrites, Exits, Mmap, local, PagesOf, TypeLocals
<1>2. CASE Faults(p, "fault") \/ Faults(p, "access") \/ Deallocates(p) \/ Destroys(p)
  <2>1. PICK q \in Pages, w \in {"fault", "access", "unmap", "exit"} : StartsFrameLock(p, q, w)
    BY <1>2 DEF Faults, Deallocates, Destroys, PagesOf, Outside
  <2> QED BY <1>0, <2>1 DEF StartsFrameLock, NotResident, TypeLocals, TypeOK
<1>3. CASE Unmaps(p, "user") \/ Unmaps(p, "exit") \/ UnmapWrites(p) \/ Dies(p)
  BY <1>0, <1>3 DEF Unmaps, AfterTest, UnmapWrites, Dies, local, PagesOf, TypeLocals
<1>4. CASE FrameLockGets(p)
  <2>1. Locked(cur[p], why[p]) \in PCs
    BY <1>4 DEF FrameLockGets, Locked, Reasons
  <2> QED BY <1>0, <1>4, <2>1 DEF FrameLockGets, local, TypeLocals
<1>5. CASE FrameLockRechecks(p) \/ AllocStarts(p)
  BY <1>0, <1>5 DEF FrameLockRechecks, NotResident, AllocStarts, local, TypeLocals
<1>6. CASE Maps(p) \/ Fills(p) \/ SwapInResets(p) \/ SwapInForgets(p)
  <2>1. \/ \E b \in BOOLEAN : Resident(p, b)
        \/ \E place \in {"reset", "forget"} : Goto(p, place) /\ UNCHANGED <<cur, fr, i, why>>
    BY <1>6 DEF Maps, Fills, SwapInResets, SwapInForgets, local
  <2>2. exiting' = exiting
    BY <1>6 DEF Maps, Fills, SwapInResets, SwapInForgets, local
  <2> QED BY <1>0, <2>1, <2>2 DEF Resident, Return, TypeLocals
<1>11. CASE KernelAccesses(p)
  <2>1. UNCHANGED <<pc, local>> \/ (Return(p, "user") /\ UNCHANGED exiting)
    BY <1>11 DEF KernelAccesses
  <2> QED BY <1>0, <2>1 DEF Return, local, TypeLocals
<1>7. CASE Scans(p) \/ Clocks(p)
  <2>1. Searches(p)
    BY <1>7, Searched
  <2>2. CASE Passes(p)
    BY <1>0, <2>1, <2>2 DEF Searches, Passes, TypeLocals
  <2>3. ASSUME NEW f \in Frames, TakeFrame(p, f) \/ Evicts(p, f) PROVE TypeLocals'
    BY <1>0, <2>1, <2>3 DEF Searches, TakeFrame, Evicts, TypeLocals
  <2> QED BY <2>1, <2>2, <2>3 DEF Searches
<1>8. CASE AllocFails(p) \/ SetsUpStack(p) \/ FreesFrame(p) \/ FreesNoFrame(p)
  BY <1>0, <1>8 DEF AllocFails, SetsUpStack, FreesFrame, FreesNoFrame, FreesPage, Return, local,
     TypeLocals
<1>9. CASE PageOutClears(p) \/ SwapOutGetsSlot(p) \/ PageOutFails(p) \/ SwapOutWrites(p)
           \/ FileWrites(p) \/ PageOutReturns(p)
  BY <1>0, <1>9 DEF PageOutClears, Destination, SwapOutGetsSlot, PageOutFails, SwapOutWrites,
     FileWrites, PageOutReturns, local, TypeLocals
<1> QED BY <1>1, <1>2, <1>3, <1>4, <1>5, <1>6, <1>7, <1>8, <1>9, <1>10, <1>11 DEF Step, Locking,
   Kernel, User

\* A step keeps the types of the frame table and of the clock hand, which
\* frame_alloc_and_lock moves.
LEMMA TypeFramesStep ==
    ASSUME TypeOK, Locals, Residence, NEW p \in Procs, Step(p)
    PROVE  TypeFrames'
<1> USE Where, Constants DEF Holders, Outside
<1>0. TypeFrames
  BY TypeParts
<1>1. CASE \/ Load(p) \/ UserReads(p) \/ Exits(p) \/ Mmap(p)
           \/ Faults(p, "fault") \/ Faults(p, "access") \/ Unmaps(p, "user")
           \/ AllocFails(p) \/ PageOutClears(p) \/ SwapOutGetsSlot(p) \/ SwapOutWrites(p)
           \/ FileWrites(p) \/ Unmaps(p, "exit") \/ UnmapWrites(p) \/ Deallocates(p)
           \/ Destroys(p) \/ FreesNoFrame(p) \/ Dies(p)
  <2>1. UNCHANGED frames
    BY <1>1 DEF Load, UserReads, Exits, Mmap, Faults, StartsFrameLock, Unmaps, AllocFails,
       PageOutClears, SwapOutGetsSlot, SwapOutWrites, FileWrites, UnmapWrites, Deallocates,
       Destroys, FreesNoFrame, Dies
  <2> QED BY <1>0, <2>1 DEF frames, TypeFrames
<1>2. CASE UserWrites(p) \/ KernelAccesses(p)
  <2>1. \/ UNCHANGED data
        \/ \E q \in Pages : \E f : data' = [data EXCEPT ![f] = q]
    BY <1>2 DEF UserWrites, KernelAccesses, Write, NewContent, PagesOf
  <2>2. lock' = lock \/ lock' = [lock EXCEPT ![frame[cur[p]]] = NULL]
    BY <1>2 DEF UserWrites, KernelAccesses
  <2>3. UNCHANGED <<page, vm_sc_lock, hand>>
    BY <1>2 DEF UserWrites, KernelAccesses
  <2> QED BY <1>0, <2>1, <2>2, <2>3 DEF TypeFrames
<1>3. CASE FrameLockGets(p) \/ AllocStarts(p) \/ FrameLockRechecks(p) \/ PageOutFails(p)
  BY <1>0, <1>3 DEF FrameLockGets, AllocStarts, FrameLockRechecks, LockAfterRecheck,
     PageOutFails, TypeFrames
<1>4. CASE Maps(p) \/ Fills(p) \/ SwapInResets(p) \/ SwapInForgets(p)
  <2>1. lock' = lock \/ lock' = [lock EXCEPT ![fr[p]] = NULL]
    BY <1>4 DEF Maps, Fills, SwapInResets, SwapInForgets, frames, Resident
  <2>2. UNCHANGED <<page, vm_sc_lock, hand>>
    BY <1>4 DEF Maps, Fills, SwapInResets, SwapInForgets, frames
  <2>3. data' = data \/ data' = [data EXCEPT ![fr[p]] = Stored(cur[p])]
    BY <1>4 DEF Maps, Fills, SwapInResets, SwapInForgets, frames
  <2>4. Stored(cur[p]) \in Pages \cup {NULL}
    BY <1>4 DEF Maps, Fills, SwapInResets, SwapInForgets, local, Stored, TypeOK
  <2> QED BY <1>0, <2>1, <2>2, <2>3, <2>4 DEF TypeFrames
<1>5. CASE Scans(p) \/ Clocks(p)
  <2>1. Searches(p) /\ cur[p] \in Pages
    BY <1>5, Searched DEF Searches
  <2>2. CASE Passes(p)
    BY <1>0, <2>1, <2>2 DEF Searches, Passes, TypeFrames
  <2>3. ASSUME NEW f \in Frames, TakeFrame(p, f) \/ Evicts(p, f) PROVE TypeFrames'
    BY <1>0, <2>1, <2>3 DEF Searches, TakeFrame, Evicts, TypeFrames
  <2> QED BY <2>1, <2>2, <2>3 DEF Searches
<1>6. CASE PageOutReturns(p) \/ FreesFrame(p)
  BY <1>0, <1>6 DEF PageOutReturns, FreesFrame, TypeFrames
<1>7. CASE SetsUpStack(p)
  BY <1>0, <1>7 DEF SetsUpStack, NewContent, TypeFrames
<1> QED BY <1>1, <1>2, <1>3, <1>4, <1>5, <1>6, <1>7 DEF Step, Locking, Kernel, User

\* A step keeps the types of struct page and of the tables of pages, the
\* sector that swap_out finds included.
LEMMA TypePagesStep ==
    ASSUME TypeOK, Locals, Residence, Slotted, Backed, NEW p \in Procs, Step(p)
    PROVE  TypePages'
<1> USE Where, Constants DEF Holders, Outside
<1>0. TypePages
  BY TypeParts
<1>1. CASE Load(p) \/ Mmap(p) \/ Faults(p, "fault") \/ Faults(p, "access")
  BY <1>1, LoadGrows, MmapGrows, FaultGrows
<1>2. CASE \/ UserReads(p) \/ UserWrites(p) \/ Exits(p) \/ Unmaps(p, "user")
           \/ FrameLockGets(p) \/ AllocStarts(p) \/ FrameLockRechecks(p) \/ Maps(p)
           \/ AllocFails(p) \/ PageOutClears(p) \/ PageOutFails(p) \/ FileWrites(p) \/ Fills(p)
           \/ SetsUpStack(p) \/ SwapInResets(p)
           \/ KernelAccesses(p) \/ Unmaps(p, "exit") \/ UnmapWrites(p) \/ Deallocates(p)
           \/ Destroys(p) \/ Dies(p)
  <2>1. UNCHANGED spt
    BY <1>2 DEF UserReads, UserWrites, Exits, Unmaps, FrameLockGets, AllocStarts,
       FrameLockRechecks, Maps, AllocFails, PageOutClears, PageOutFails, FileWrites, Fills,
       SetsUpStack, SwapInResets, KernelAccesses, UnmapWrites, Deallocates, Destroys, Dies
  <2> QED BY <1>0, <2>1 DEF spt, TypePages
<1>3. CASE Scans(p) \/ Clocks(p)
  <2>1. Searches(p) /\ cur[p] \in Pages
    BY <1>3, Searched DEF Searches
  <2>2. CASE Passes(p)
    BY <1>0, <2>1, <2>2 DEF Searches, Passes, TypePages
  <2>3. ASSUME NEW f \in Frames, TakeFrame(p, f) \/ Evicts(p, f) PROVE TypePages'
    BY <1>0, <2>1, <2>3 DEF Searches, TakeFrame, Evicts, TypePages
  <2> QED BY <2>1, <2>2, <2>3 DEF Searches
<1>4. CASE SwapOutGetsSlot(p)
  <2>1. PICK s \in 0..Slots - 1 : sector' = [sector EXCEPT ![Victim(p)] = s]
    BY <1>4 DEF SwapOutGetsSlot
  <2> QED BY <1>0, <1>4, <2>1 DEF SwapOutGetsSlot, TypePages
<1>5. CASE SwapOutWrites(p)
  <2>1. file' \in [Pages -> BOOLEAN]
    BY <1>0, <1>5 DEF SwapOutWrites, TypePages
  <2>2. private' \in [Pages -> BOOLEAN]
    BY <1>0, <1>5 DEF SwapOutWrites, TypePages
  <2> QED BY <1>0, <1>5, <2>1, <2>2 DEF SwapOutWrites, TypePages
<1>6. CASE PageOutReturns(p) \/ SwapInForgets(p) \/ FreesFrame(p) \/ FreesNoFrame(p)
  BY <1>0, <1>6 DEF PageOutReturns, SwapInForgets, SectorAfterSwapIn, FreesFrame, FreesNoFrame,
     FreesPage, TypePages
<1> QED BY <1>1, <1>2, <1>3, <1>4, <1>5, <1>6 DEF Step, Locking, Kernel, User

\* A step keeps the types of the page-table entries, of the swap bitmap, of
\* the slots and of the files.
LEMMA TypeDiskStep ==
    ASSUME TypeOK, Locals, Residence, Slotted, Backed, NEW p \in Procs, Step(p)
    PROVE  TypeDisk'
<1> USE Where, Constants DEF Holders, Outside
<1>0. TypeDisk
  BY TypeParts
<1>1. CASE \/ Exits(p) \/ Unmaps(p, "user") \/ FrameLockGets(p) \/ AllocStarts(p)
           \/ FrameLockRechecks(p) \/ AllocFails(p) \/ PageOutReturns(p) \/ Unmaps(p, "exit")
           \/ Deallocates(p) \/ Destroys(p) \/ FreesFrame(p) \/ FreesNoFrame(p)
  <2>1. UNCHANGED <<ptes, used, swap, store, spoiled>>
    BY <1>1 DEF Exits, Unmaps, FrameLockGets, AllocStarts, FrameLockRechecks, AllocFails,
       PageOutReturns, Deallocates, Destroys, StartsFrameLock, FreesFrame, FreesNoFrame, disk
  <2> QED BY <1>0, <2>1 DEF ptes, TypeDisk
<1>2. CASE Load(p) \/ Mmap(p) \/ Faults(p, "fault") \/ Faults(p, "access")
  <2>1. UNCHANGED <<ptes, used, swap, spoiled>>
    BY <1>2 DEF Load, Mmap, Faults, StartsFrameLock
  <2>2. Grown /\ TypePages'
    BY <1>2, LoadGrows, MmapGrows, FaultGrows
  <2> QED BY <1>0, <2>1, <2>2 DEF Grown, TypePages, ptes, TypeDisk
<1>3. CASE UserReads(p) \/ UserWrites(p)
  BY <1>0, <1>3 DEF UserReads, UserWrites, Write, NewContent, disk, PagesOf, TypeDisk
<1>4. CASE KernelAccesses(p)
  <2>1. UNCHANGED <<present, used, spoiled>> /\ cur[p] \in Pages
    BY <1>4 DEF KernelAccesses
  <2>2. \/ UNCHANGED <<swap, store, dirty, accessed>>
        \/ accessed' = accessed \cup {cur[p]} /\ UNCHANGED <<swap, store, dirty>>
        \/ Write(cur[p], frame[cur[p]])
    BY <1>4 DEF KernelAccesses
  <2> QED BY <1>0, <2>1, <2>2 DEF Write, NewContent, TypeDisk
<1>10. CASE SetsUpStack(p)
  BY <1>0, <1>10 DEF SetsUpStack, NewContent, ptes, TypeDisk
<1>5. CASE Maps(p) \/ Fills(p) \/ SwapInResets(p) \/ SwapInForgets(p)
  <2>1. cur[p] \in Pages
    BY <1>5 DEF Maps, Fills, SwapInResets, SwapInForgets, local
  <2>2. SetPage(cur[p]) \/ UNCHANGED ptes
    BY <1>5 DEF Maps, Fills, SwapInResets, SwapInForgets, local, Resident
  <2>3. UNCHANGED <<swap, store, spoiled>> /\ used' \subseteq used
    BY <1>5 DEF Maps, Fills, SwapInResets, SwapInForgets, local, disk
  <2> QED BY <1>0, <2>1, <2>2, <2>3 DEF SetPage, ptes, TypeDisk
<1>6. CASE Scans(p) \/ Clocks(p)
  <2>1. Searches(p)
    BY <1>6, Searched
  <2> QED BY <1>0, <2>1 DEF Searches, disk, TypeDisk
<1>7. CASE PageOutClears(p) \/ SwapOutGetsSlot(p) \/ PageOutFails(p) \/ SwapOutWrites(p)
           \/ FileWrites(p)
  <2>1. Victim(p) \in Pages /\ fr[p] \in Frames
    BY <1>7 DEF PageOutClears, SwapOutGetsSlot, PageOutFails, SwapOutWrites, FileWrites,
       Victim, Residence, PageOut, TypeOK
  <2>2. CASE PageOutClears(p) \/ SwapOutGetsSlot(p)
    BY <1>0, <2>2 DEF PageOutClears, PresentAfterClear, SwapOutGetsSlot, ptes, disk, TypeDisk
  <2>3. CASE PageOutFails(p)
    BY <1>0, <2>1, <2>3 DEF PageOutFails, ptes, disk, TypeDisk
  <2>4. CASE SwapOutWrites(p)
    <3>1. data[fr[p]] \in Pages \cup {NULL}
      BY <2>1 DEF TypeOK
    <3> QED BY <1>0, <2>4, <3>1 DEF SwapOutWrites, ptes, TypeDisk
  <2>5. CASE FileWrites(p)
    BY <1>0, <2>1, <2>5 DEF FileWrites, Written, ptes, TypeDisk
  <2> QED BY <1>7, <2>2, <2>3, <2>4, <2>5
<1>8. CASE UnmapWrites(p)
  <2>1. cur[p] \in Pages /\ UNCHANGED <<present, dirty, used, swap>>
    BY <1>8 DEF UnmapWrites
  <2> QED BY <1>0, <1>8, <2>1 DEF UnmapWrites, Written, TypeDisk
<1>9. CASE Dies(p)
  BY <1>0, <1>9 DEF Dies, disk, TypeDisk
<1> QED BY <1>1, <1>2, <1>3, <1>4, <1>5, <1>6, <1>7, <1>8, <1>9, <1>10
       DEF Step, Locking, Kernel, User

\* A step keeps the type of panic.
LEMMA PanicStep ==
    ASSUME panic \in BOOLEAN, NEW p \in Procs, Step(p)
    PROVE  panic' \in BOOLEAN
BY DEF Step, Locking, Kernel, User, Load, UserReads, UserWrites, Exits, Mmap, Faults,
   StartsFrameLock, Unmaps, FrameLockGets, AllocStarts, FrameLockRechecks, Maps, Scans, Clocks,
   AllocFails, PageOutClears, SwapOutGetsSlot, PageOutFails, SwapOutWrites, FileWrites,
   PageOutReturns, Fills, SetsUpStack, SwapInResets, SwapInForgets, KernelAccesses, UnmapWrites,
      Deallocates, Destroys,
   FreesFrame, FreesNoFrame, Dies

-----------------------------------------------------------------------------
(* What a step of p leaves alone.                                          *)

OthersKept(p) ==
    /\ \A r \in Procs \ {p} : /\ pc'[r] = pc[r] /\ cur'[r] = cur[r] /\ fr'[r] = fr[r]
                              /\ i'[r] = i[r] /\ why'[r] = why[r]
                              /\ r \in exiting' <=> r \in exiting
    /\ exiting \subseteq exiting'

\* A step of p leaves the locals of every other process alone, and ends no
\* other process.
LEMMA OthersStep ==
    ASSUME TypeOK, Locals, Reasons, NEW p \in Procs, Step(p)
    PROVE  OthersKept(p)
<1> USE DEF Goto
<1>0. TypeLocals
  BY TypeParts
<1>1. CASE Load(p) \/ UserReads(p) \/ UserWrites(p) \/ Exits(p) \/ Mmap(p)
  BY <1>0, <1>1 DEF Load, UserReads, UserWrites, Exits, Mmap, local, TypeLocals, OthersKept
<1>2. CASE Faults(p, "fault") \/ Faults(p, "access") \/ Deallocates(p) \/ Destroys(p)
  <2>1. PICK q, w : StartsFrameLock(p, q, w)
    BY <1>2 DEF Faults, Deallocates, Destroys
  <2> QED BY <1>0, <2>1 DEF StartsFrameLock, TypeLocals, OthersKept
<1>3. CASE Unmaps(p, "user") \/ Unmaps(p, "exit") \/ UnmapWrites(p) \/ Dies(p)
  BY <1>0, <1>3 DEF Unmaps, UnmapWrites, Dies, local, TypeLocals, OthersKept
<1>4. CASE FrameLockGets(p) \/ FrameLockRechecks(p) \/ AllocStarts(p)
  BY <1>0, <1>4 DEF FrameLockGets, FrameLockRechecks, AllocStarts, local, TypeLocals, OthersKept
<1>5. CASE Maps(p) \/ Fills(p) \/ SwapInResets(p) \/ SwapInForgets(p)
  <2>1. \/ \E b \in BOOLEAN : Resident(p, b)
        \/ \E place \in {"reset", "forget"} : Goto(p, place) /\ UNCHANGED <<cur, fr, i, why>>
    BY <1>5 DEF Maps, Fills, SwapInResets, SwapInForgets, local
  <2>2. exiting' = exiting
    BY <1>5 DEF Maps, Fills, SwapInResets, SwapInForgets, local
  <2> QED BY <1>0, <2>1, <2>2 DEF Resident, Return, TypeLocals, OthersKept
<1>6. CASE KernelAccesses(p)
  <2>1. UNCHANGED <<pc, local>> \/ (Return(p, "user") /\ UNCHANGED exiting)
    BY <1>6 DEF KernelAccesses
  <2> QED BY <1>0, <2>1 DEF Return, local, TypeLocals, OthersKept
<1>7. CASE Scans(p) \/ Clocks(p)
  <2>1. Searches(p)
    BY <1>7, Searched
  <2>2. CASE Passes(p)
    BY <1>0, <2>1, <2>2 DEF Searches, Passes, TypeLocals, OthersKept
  <2>3. ASSUME NEW f \in Frames, TakeFrame(p, f) \/ Evicts(p, f) PROVE OthersKept(p)
    BY <1>0, <2>1, <2>3 DEF Searches, TakeFrame, Evicts, TypeLocals, OthersKept
  <2> QED BY <2>1, <2>2, <2>3 DEF Searches
<1>8. CASE AllocFails(p) \/ SetsUpStack(p) \/ FreesFrame(p) \/ FreesNoFrame(p)
  BY <1>0, <1>8 DEF AllocFails, SetsUpStack, FreesFrame, FreesNoFrame, FreesPage, Return, local,
     TypeLocals, OthersKept
<1>9. CASE PageOutClears(p) \/ SwapOutGetsSlot(p) \/ PageOutFails(p) \/ SwapOutWrites(p)
           \/ FileWrites(p) \/ PageOutReturns(p)
  BY <1>0, <1>9 DEF PageOutClears, SwapOutGetsSlot, PageOutFails, SwapOutWrites, FileWrites,
     PageOutReturns, local, TypeLocals, OthersKept
<1> QED BY <1>1, <1>2, <1>3, <1>4, <1>5, <1>6, <1>7, <1>8, <1>9 DEF Step, Locking, Kernel, User

\* Locks move between p and nobody.
LocksKept(p) ==
    \A f \in Frames : /\ lock[f] # p /\ lock[f] # NULL => lock'[f] = lock[f]
                      /\ lock'[f] # p /\ lock'[f] # NULL => lock'[f] = lock[f]

\* A step of p takes free locks and releases its own: lock_acquire,
\* lock_try_acquire and lock_release of a frame.
LEMMA LocksStep ==
    ASSUME TypeOK, Locals, Residence, Holding, Reasons, NEW p \in Procs, Step(p)
    PROVE  LocksKept(p)
<1> USE Where, Constants DEF Holders, Outside
<1>0. lock \in [Frames -> Procs \cup {NULL, Boot}]
  BY DEF TypeOK
<1>1. CASE \/ Load(p) \/ UserReads(p) \/ UserWrites(p) \/ Exits(p) \/ Mmap(p)
           \/ Faults(p, "fault") \/ Faults(p, "access") \/ Unmaps(p, "user")
           \/ AllocStarts(p) \/ AllocFails(p) \/ PageOutClears(p) \/ SwapOutGetsSlot(p)
           \/ SwapOutWrites(p) \/ FileWrites(p) \/ PageOutReturns(p) \/ Unmaps(p, "exit")
           \/ UnmapWrites(p) \/ Deallocates(p) \/ Destroys(p) \/ FreesNoFrame(p) \/ Dies(p)
  <2>1. UNCHANGED lock
    BY <1>1 DEF Load, UserReads, UserWrites, Exits, Mmap, Faults, StartsFrameLock, Unmaps,
       AllocStarts, AllocFails, PageOutClears, SwapOutGetsSlot, SwapOutWrites, FileWrites,
       PageOutReturns, UnmapWrites, Deallocates, Destroys, FreesNoFrame, Dies, frames
  <2> QED BY <2>1 DEF LocksKept
<1>2. CASE FrameLockGets(p)
  BY <1>0, <1>2 DEF FrameLockGets, LocksKept
<1>3. CASE FrameLockRechecks(p) \/ Maps(p) \/ Fills(p) \/ SetsUpStack(p) \/ SwapInResets(p)
           \/ SwapInForgets(p) \/ PageOutFails(p) \/ FreesFrame(p)
  <2>1. pc[p] \in Holders
    BY <1>3 DEF FrameLockRechecks, Maps, Fills, SetsUpStack, SwapInResets, SwapInForgets,
       PageOutFails, FreesFrame
  <2>2. lock[fr[p]] = p /\ fr[p] \in Frames
    BY <2>1 DEF Holding
  <2>3. lock' = lock \/ lock' = [lock EXCEPT ![fr[p]] = NULL]
    BY <1>3 DEF FrameLockRechecks, LockAfterRecheck, Maps, Fills, SetsUpStack, SwapInResets,
       SwapInForgets, PageOutFails, FreesFrame, Resident, frames
  <2> QED BY <1>0, <2>2, <2>3 DEF LocksKept
<1>4. CASE KernelAccesses(p)
  <2>1. lock[fr[p]] = p /\ fr[p] \in Frames /\ frame[cur[p]] = fr[p]
    BY <1>4 DEF KernelAccesses, Holding, Residence
  <2>2. lock' = lock \/ lock' = [lock EXCEPT ![fr[p]] = NULL]
    BY <1>4, <2>1 DEF KernelAccesses
  <2> QED BY <1>0, <2>1, <2>2 DEF LocksKept
<1>5. CASE Scans(p) \/ Clocks(p)
  <2>1. Searches(p)
    BY <1>5, Searched
  <2>2. lock' = lock \/ \E f \in Frames : lock[f] = NULL /\ lock' = [lock EXCEPT ![f] = p]
    BY <2>1 DEF Searches, Passes, TakeFrame, Evicts
  <2> QED BY <1>0, <2>2 DEF LocksKept
<1> QED BY <1>1, <1>2, <1>3, <1>4, <1>5 DEF Step, Locking, Kernel, User

\* Pages come and go only with their owner.
PagesKept(p) ==
    /\ \A q \in pages \ pages' : /\ q = cur[p] /\ pc[p] \in {"free", "gone"}
                                 /\ pc'[p] \in {"user", "exit"}
    /\ \A q \in pages' \ pages : Owner[q] = p /\ pc[p] \in {"new", "user"}

\* Pages appear by page_allocate of their owner and go by the page_destroy or
\* the page_deallocate that works on them.
LEMMA PagesStep ==
    ASSUME TypeOK, Locals, Residence, Slotted, Backed, Reasons, NEW p \in Procs, Step(p)
    PROVE  PagesKept(p)
<1>1. CASE Load(p) \/ Mmap(p) \/ Faults(p, "fault") \/ Faults(p, "access")
  <2>1. pages \subseteq pages' /\ \A q \in pages' \ pages : Owner[q] = p
    BY <1>1, LoadGrows, MmapGrows, FaultGrows DEF Grown
  <2>2. pc[p] \in {"new", "user"}
    BY <1>1 DEF Load, Mmap, Faults
  <2> QED BY <2>1, <2>2 DEF PagesKept
<1>2. CASE FreesFrame(p) \/ FreesNoFrame(p)
  <2>1. pages' = pages \ {cur[p]} /\ pc[p] \in {"free", "gone"}
    BY <1>2 DEF FreesFrame, FreesNoFrame, FreesPage
  <2>2. pc'[p] \in {"user", "exit"}
    BY <1>2 DEF FreesFrame, FreesNoFrame, FreesPage, Return, Goto, TypeOK
  <2> QED BY <2>1, <2>2 DEF PagesKept
<1>3. CASE Scans(p) \/ Clocks(p)
  <2>1. pages' = pages
    BY <1>3, Searched DEF Searches
  <2> QED BY <2>1 DEF PagesKept
<1>4. CASE \/ UserReads(p) \/ UserWrites(p) \/ Exits(p) \/ Unmaps(p, "user")
           \/ FrameLockGets(p) \/ AllocStarts(p) \/ FrameLockRechecks(p) \/ Maps(p)
           \/ AllocFails(p) \/ PageOutClears(p) \/ PageOutFails(p) \/ FileWrites(p) \/ Fills(p)
           \/ SetsUpStack(p) \/ SwapInResets(p)
           \/ KernelAccesses(p) \/ Unmaps(p, "exit") \/ UnmapWrites(p) \/ Deallocates(p)
           \/ Destroys(p) \/ Dies(p) \/ SwapOutGetsSlot(p) \/ SwapOutWrites(p)
           \/ PageOutReturns(p) \/ SwapInForgets(p)
  <2>1. pages' = pages
    BY <1>4 DEF UserReads, UserWrites, Exits, Unmaps, FrameLockGets, AllocStarts,
       FrameLockRechecks, Maps, AllocFails, PageOutClears, PageOutFails, FileWrites, Fills,
       SetsUpStack, SwapInResets, KernelAccesses, UnmapWrites, Deallocates, Destroys, Dies,
          SwapOutGetsSlot,
       SwapOutWrites, PageOutReturns, SwapInForgets, spt
  <2> QED BY <2>1 DEF PagesKept
<1> QED BY <1>1, <1>2, <1>3, <1>4 DEF Step, Locking, Kernel, User

-----------------------------------------------------------------------------
(* Locals, reasons and locks.                                              *)

\* A step keeps what each place says of the locals: a process works on a page
\* of its own that is in its table, and on a frame of the table.
LEMMA LocalsStep ==
    ASSUME TypeOK, Locals, Reasons, Residence, Slotted, Backed, NEW p \in Procs, Step(p)
    PROVE  Locals'
<1> USE Where, Constants
<1>0. TypeLocals /\ TypeLocals' /\ OthersKept(p) /\ PagesKept(p)
  BY TypeParts, TypeLocalsStep, OthersStep, PagesStep
<1>1. ASSUME NEW r \in Procs \ {p}
      PROVE  /\ pc'[r] \notin Outside => cur'[r] \in pages' /\ Owner[cur'[r]] = r
             /\ pc'[r] \in Holders \cup {"lock"} => fr'[r] \in Frames
             /\ pc'[r] = "scan" => i'[r] < FCount
             /\ pc'[r] = "clock" => i'[r] < 2 * FCount
             /\ pc'[r] \notin {"scan", "clock"} => i'[r] = 0
  <2>1. pc[p] \in {"free", "gone"} => Owner[cur[p]] = p
    BY DEF Locals, Outside
  <2> QED BY <1>0, <2>1 DEF Locals, OthersKept, PagesKept
<1>2. /\ pc'[p] \notin Outside => cur'[p] \in pages' /\ Owner[cur'[p]] = p
      /\ pc'[p] \in Holders \cup {"lock"} => fr'[p] \in Frames
      /\ pc'[p] = "scan" => i'[p] < FCount
      /\ pc'[p] = "clock" => i'[p] < 2 * FCount
      /\ pc'[p] \notin {"scan", "clock"} => i'[p] = 0
  <2> DEFINE Mine == pc'[p] \notin Outside => cur'[p] \in pages' /\ Owner[cur'[p]] = p
             Framed == pc'[p] \in Holders \cup {"lock"} => fr'[p] \in Frames
             Counted == /\ pc'[p] = "scan" => i'[p] < FCount
                        /\ pc'[p] = "clock" => i'[p] < 2 * FCount
                        /\ pc'[p] \notin {"scan", "clock"} => i'[p] = 0
             Good == Mine /\ Framed /\ Counted
  <2>0. /\ pc[p] \notin Outside => cur[p] \in pages /\ Owner[cur[p]] = p
        /\ pc[p] \in Holders \cup {"lock"} => fr[p] \in Frames
        /\ pc[p] \notin {"scan", "clock"} => i[p] = 0
    BY DEF Locals
  <2>1. CASE Load(p)
    <3>1. PICK q \in PagesOf(p) \cap pages' : cur' = [cur EXCEPT ![p] = q]
      BY <2>1, LoadGrows
    <3>2. pc'[p] = "alloc" /\ i'[p] = 0 /\ cur'[p] = q /\ Owner[q] = p
      BY <1>0, <2>0, <2>1, <3>1 DEF Load, Goto, TypeLocals, PagesOf
    <3> QED BY <3>1, <3>2 DEF Holders
  <2>2. CASE UserReads(p) \/ UserWrites(p) \/ Exits(p) \/ Mmap(p) \/ Dies(p)
    <3>1. pc'[p] \in Outside /\ i'[p] = i[p] /\ pc[p] \in Outside
      BY <1>0, <2>2 DEF UserReads, UserWrites, Exits, Mmap, Dies, Goto, local, TypeLocals,
         Outside
    <3> QED BY <2>0, <3>1 DEF Outside, Holders
  <2>3. CASE Faults(p, "fault") \/ Faults(p, "access") \/ Deallocates(p) \/ Destroys(p)
    <3>1. PICK q, w : q \in PagesOf(p) \cap pages' /\ StartsFrameLock(p, q, w)
      <4>1. CASE Faults(p, "fault") \/ Faults(p, "access")
        BY <4>1, FaultGrows
      <4>2. CASE Deallocates(p) \/ Destroys(p)
        BY <2>0, <4>2 DEF Deallocates, Destroys, PagesOf, Outside, spt, TypeOK
      <4> QED BY <2>3, <4>1, <4>2
    <3>2. /\ cur'[p] = q /\ Owner[q] = p /\ i'[p] = i[p] /\ i[p] = 0
          /\ pc'[p] \in {"alloc", "gone"} \/ (pc'[p] = "lock" /\ fr'[p] \in Frames)
      BY <1>0, <2>0, <2>3, <3>1 DEF StartsFrameLock, NotResident, PagesOf, Goto, TypeLocals,
         TypeOK, Faults, Deallocates, Destroys
    <3> QED BY <3>1, <3>2 DEF Holders
  <2>4. CASE Unmaps(p, "user") \/ Unmaps(p, "exit")
    <3>1. pc'[p] \in {"writeback", "dealloc"} /\ cur'[p] \in pages' /\ Owner[cur'[p]] = p
      BY <1>0, <2>4 DEF Unmaps, AfterTest, Goto, PagesOf, TypeLocals, spt
    <3>2. i'[p] = 0
      BY <1>0, <2>0, <2>4 DEF Unmaps
    <3> QED BY <3>1, <3>2 DEF Holders
  <2>5. CASE UnmapWrites(p)
    BY <1>0, <2>0, <2>5 DEF UnmapWrites, Goto, local, spt, TypeLocals, Outside, Holders
  <2>6. CASE FrameLockGets(p)
    <3>1. Locked(cur[p], why[p]) \in {"map", "kernel", "clear", "free"}
      BY <2>6 DEF FrameLockGets, Locked, Reasons
    <3>2. pc'[p] \in {"map", "kernel", "clear", "free", "recheck"}
      BY <1>0, <2>6, <3>1 DEF FrameLockGets, Goto, TypeLocals
    <3> QED BY <1>0, <2>0, <2>6, <3>2 DEF FrameLockGets, local, spt, Outside, Holders
  <2>7. CASE FrameLockRechecks(p) \/ AllocStarts(p)
    <3>1. pc'[p] \in {"alloc", "gone", "scan"}
      BY <1>0, <2>7 DEF FrameLockRechecks, NotResident, AllocStarts, Goto, TypeLocals
    <3>2. cur' = cur /\ i' = i /\ pages' = pages /\ pc[p] \in {"recheck", "alloc"}
      BY <2>7 DEF FrameLockRechecks, AllocStarts, local, spt
    <3> QED BY <2>0, <3>1, <3>2 DEF Outside, Holders
  <2>8. CASE Maps(p) \/ Fills(p) \/ SwapInResets(p) \/ SwapInForgets(p)
    <3>1. \/ \E b \in BOOLEAN : Resident(p, b)
          \/ \E place \in {"reset", "forget"} : Goto(p, place) /\ UNCHANGED <<cur, fr, i, why>>
      BY <2>8 DEF Maps, Fills, SwapInResets, SwapInForgets, local
    <3>2. /\ pc'[p] \in {"user", "kernel", "reset", "forget"}
          /\ (pc'[p] # "user" => UNCHANGED <<cur, fr>>) /\ i' = i
      BY <1>0, <3>1 DEF Resident, Return, Goto, TypeLocals
    <3>3. pages' = pages /\ pc[p] \in {"map", "fill", "reset", "forget"}
      BY <2>8 DEF Maps, Fills, SwapInResets, SwapInForgets, local, spt
    <3> QED BY <2>0, <3>2, <3>3 DEF Outside, Holders
  <2>9. CASE KernelAccesses(p)
    <3>1. UNCHANGED <<pc, local>> \/ (Return(p, "user") /\ UNCHANGED exiting)
      BY <2>9 DEF KernelAccesses
    <3>2. pages' = pages /\ pc[p] = "kernel"
      BY <2>9 DEF KernelAccesses, spt
    <3> QED BY <1>0, <2>0, <3>1, <3>2 DEF Return, Goto, local, TypeLocals, Outside, Holders
  <2>10. CASE Scans(p) \/ Clocks(p)
    <3>1. Searches(p)
      BY <2>10, Searched
    <3>2. cur' = cur /\ pages' = pages /\ pc[p] \in {"scan", "clock"}
      BY <3>1 DEF Searches
    <3>3. CASE Passes(p)
      BY <1>0, <2>0, <3>2, <3>3 DEF Passes, Goto, TypeLocals, Outside, Holders
    <3>4. ASSUME NEW f \in Frames, TakeFrame(p, f) \/ Evicts(p, f) PROVE Good
      BY <1>0, <2>0, <3>2, <3>4 DEF TakeFrame, Evicts, Goto, TypeLocals, Outside, Holders
    <3> QED BY <3>1, <3>3, <3>4 DEF Searches
  <2>11. CASE AllocFails(p) \/ SetsUpStack(p) \/ FreesFrame(p) \/ FreesNoFrame(p)
    <3>1. \/ UNCHANGED <<pc, local>> /\ pc[p] = "failed"
          \/ (Return(p, "user") \/ Return(p, "exit")) /\ pc[p] \notin {"scan", "clock"}
      BY <2>11 DEF AllocFails, SetsUpStack, FreesFrame, FreesNoFrame, FreesPage
    <3>2. pc[p] = "failed" => pages' = pages
      BY <2>11 DEF AllocFails, SetsUpStack, FreesFrame, FreesNoFrame, spt
    <3> QED BY <1>0, <2>0, <3>1, <3>2 DEF Return, Goto, local, TypeLocals, Outside, Holders
  <2>12. CASE PageOutClears(p) \/ SwapOutGetsSlot(p) \/ PageOutFails(p) \/ SwapOutWrites(p)
           \/ FileWrites(p) \/ PageOutReturns(p)
    <3>1. /\ cur' = cur /\ i' = i /\ pages' = pages
          /\ pc[p] \in PageOut
      BY <2>12 DEF PageOutClears, SwapOutGetsSlot, PageOutFails, SwapOutWrites, FileWrites,
         PageOutReturns, local, spt, PageOut
    <3>2. /\ pc'[p] \in {"slot", "write", "take", "swap", "free", "fill", "failed"}
          /\ pc'[p] # "failed" => fr' = fr
      BY <1>0, <2>12 DEF PageOutClears, Destination, SwapOutGetsSlot, PageOutFails, SwapOutWrites,
         FileWrites, PageOutReturns, Goto, local, TypeLocals
    <3> QED BY <2>0, <3>1, <3>2 DEF PageOut, Outside, Holders
  <2> QED BY <2>1, <2>2, <2>3, <2>4, <2>5, <2>6, <2>7, <2>8, <2>9, <2>10, <2>11, <2>12
          DEF Step, Locking, Kernel, User
<1> QED BY <1>1, <1>2 DEF Locals

ReasonsOf(w, place, ends) ==
    /\ place \in PCs
    /\ place \in Outside \cup {"writeback", "dealloc"} => w = "none"
    /\ place \in {"alloc", "scan", "clock", "failed", "fill", "reset", "forget"} =>
          w \in Brings
    /\ place \in PageOut => w \in Brings \cup {"unmap"}
    /\ place \in {"lock", "recheck"} => w \in {"fault", "access", "unmap", "exit"}
    /\ place = "map" => w = "fault"
    /\ place = "kernel" => w = "access"
    /\ place \in {"free", "gone"} => w \in {"unmap", "exit"}
    /\ place \in {"exit", "dead"} \/ w = "exit" => ends
    /\ ends => place \notin {"new", "user"} /\ w \notin Brings

\* A step keeps the reason for which a place was reached: page_out is entered
\* from frame_alloc_and_lock or page_deallocate, the ways to free a page from
\* page_deallocate or page_destroy, and a process that exits brings nothing in.
LEMMA ReasonsStep ==
    ASSUME TypeOK, Locals, Reasons, Residence, Slotted, Backed, NEW p \in Procs, Step(p)
    PROVE  Reasons'
<1>0. TypeLocals /\ TypeLocals' /\ OthersKept(p)
  BY TypeParts, TypeLocalsStep, OthersStep
<1>1. \A r \in Procs : ReasonsOf(why[r], pc[r], r \in exiting)
  BY <1>0 DEF Reasons, ReasonsOf, TypeLocals
<1>2. ASSUME NEW r \in Procs \ {p}
      PROVE  ReasonsOf(why'[r], pc'[r], r \in exiting')
  BY <1>0, <1>1 DEF OthersKept
<1>3. ReasonsOf(why'[p], pc'[p], p \in exiting')
  <2> USE DEF Goto, Outside, Brings, PageOut, PCs
  <2>0. ReasonsOf(why[p], pc[p], p \in exiting)
    BY <1>1
  <2>1. CASE Load(p)
    BY <1>0, <2>0, <2>1 DEF Load, TypeLocals, ReasonsOf
  <2>2. CASE UserReads(p) \/ UserWrites(p) \/ Mmap(p) \/ UnmapWrites(p)
    BY <1>0, <2>0, <2>2 DEF UserReads, UserWrites, Mmap, UnmapWrites, local, TypeLocals, ReasonsOf
  <2>3. CASE Exits(p) \/ Dies(p) \/ Unmaps(p, "user") \/ Unmaps(p, "exit")
    BY <1>0, <2>0, <2>3 DEF Exits, Dies, Unmaps, AfterTest, local, TypeLocals, ReasonsOf
  <2>4. ASSUME NEW w \in {"fault", "access"}, Faults(p, w) PROVE ReasonsOf(why'[p], pc'[p],
     p \in exiting')
    <3>1. PICK q : StartsFrameLock(p, q, w)
      BY <2>4 DEF Faults
    <3>2. pc'[p] \in {"lock", "alloc"} /\ why'[p] = w /\ exiting' = exiting
      BY <1>0, <3>1 DEF StartsFrameLock, NotResident, TypeLocals
    <3> QED BY <2>0, <2>4, <3>2 DEF Faults, ReasonsOf
  <2>5. CASE Deallocates(p) \/ Destroys(p)
    <3>1. PICK q, w : /\ StartsFrameLock(p, q, w)
                      /\ \/ w = "unmap"
                         \/ w = "exit" /\ pc[p] = "exit"
      BY <2>5 DEF Deallocates, Destroys
    <3>2. pc'[p] \in {"lock", "gone"} /\ why'[p] = w /\ exiting' = exiting
      BY <1>0, <3>1 DEF StartsFrameLock, NotResident, TypeLocals
    <3> QED BY <2>0, <3>1, <3>2 DEF ReasonsOf
  <2>6. CASE FrameLockGets(p)
    <3>1. Locked(cur[p], why[p]) \in
             CASE why[p] = "fault" -> {"map"} [] why[p] = "access" -> {"kernel"}
               [] why[p] = "unmap" -> {"clear", "free"} [] why[p] = "exit" -> {"free"}
      BY <2>6, <2>0 DEF FrameLockGets, Locked, ReasonsOf
    <3>2. pc'[p] \in {"recheck", Locked(cur[p], why[p])} /\ UNCHANGED <<why, exiting>>
          /\ why[p] \in {"fault", "access", "unmap", "exit"}
      BY <1>0, <2>6, <2>0 DEF FrameLockGets, local, TypeLocals, ReasonsOf
    <3> QED BY <2>0, <3>1, <3>2 DEF ReasonsOf
  <2>7. CASE FrameLockRechecks(p) \/ AllocStarts(p)
    BY <1>0, <2>0, <2>7 DEF FrameLockRechecks, NotResident, AllocStarts, local, TypeLocals,
       ReasonsOf
  <2>8. CASE Maps(p) \/ Fills(p) \/ SwapInResets(p) \/ SwapInForgets(p)
    <3>1. /\ \/ \E b \in BOOLEAN : Resident(p, b)
             \/ \E place \in {"reset", "forget"} : Goto(p, place) /\ UNCHANGED <<cur, fr, i, why>>
          /\ exiting' = exiting /\ why[p] \in Brings
      BY <2>0, <2>8 DEF Maps, Fills, SwapInResets, SwapInForgets, local, ReasonsOf
    <3>2. exiting' = exiting
          /\ \/ pc'[p] = "kernel" /\ why[p] = "access" /\ why' = why
             \/ pc'[p] = "user" /\ why'[p] = "none"
             \/ pc'[p] \in {"reset", "forget"} /\ why' = why
      BY <1>0, <3>1 DEF Resident, Return, TypeLocals
    <3> QED BY <2>0, <3>1, <3>2 DEF ReasonsOf
  <2>9. CASE KernelAccesses(p)
    <3>1. UNCHANGED <<pc, local>> \/ (Return(p, "user") /\ UNCHANGED exiting)
      BY <2>9 DEF KernelAccesses
    <3>2. why[p] = "access"
      BY <2>0, <2>9 DEF KernelAccesses, ReasonsOf
    <3> QED BY <1>0, <2>0, <3>1, <3>2 DEF Return, local, TypeLocals, ReasonsOf
  <2>10. CASE Scans(p) \/ Clocks(p)
    <3>1. Searches(p)
      BY <2>10, Searched
    <3>2. why' = why /\ exiting' = exiting /\ why[p] \in Brings
      BY <2>0, <3>1 DEF Searches, ReasonsOf
    <3>3. pc'[p] \in {"scan", "clock", "failed", "fill", "clear"}
      BY <1>0, <3>1 DEF Searches, Passes, TakeFrame, Evicts, TypeLocals
    <3> QED BY <2>0, <3>2, <3>3 DEF ReasonsOf
  <2>11. CASE AllocFails(p) \/ SetsUpStack(p)
    BY <1>0, <2>0, <2>11 DEF AllocFails, SetsUpStack, Return, local, TypeLocals, ReasonsOf
  <2>12. CASE FreesFrame(p) \/ FreesNoFrame(p)
    BY <1>0, <2>0, <2>12 DEF FreesFrame, FreesNoFrame, FreesPage, Return, TypeLocals, ReasonsOf
  <2>13. CASE PageOutClears(p) \/ SwapOutGetsSlot(p) \/ SwapOutWrites(p) \/ FileWrites(p)
    BY <1>0, <2>0, <2>13 DEF PageOutClears, Destination, SwapOutGetsSlot, SwapOutWrites, FileWrites,
       local, TypeLocals, ReasonsOf
  <2>14. CASE PageOutFails(p) \/ PageOutReturns(p)
    BY <1>0, <2>0, <2>14 DEF PageOutFails, PageOutReturns, local, TypeLocals, ReasonsOf
  <2> QED BY <2>1, <2>2, <2>3, <2>4, <2>5, <2>6, <2>7, <2>8, <2>9, <2>10, <2>11, <2>12, <2>13,
             <2>14 DEF Step, Locking, Kernel, User
<1>4. \A r \in Procs : ReasonsOf(why'[r], pc'[r], r \in exiting')
  BY <1>2, <1>3
<1> QED BY <1>4 DEF Reasons, ReasonsOf

\* A step keeps the agreement of the lock of a frame with the place of its
\* holder: frame_lock, frame_alloc_and_lock and frame_unlock.
LEMMA HoldingStep ==
    ASSUME TypeOK, Locals, Reasons, Holding, Residence, Slotted, Backed, NEW p \in Procs, Step(p)
    PROVE  Holding'
<1> USE Where, Constants
<1>0. /\ TypeLocals /\ TypeLocals' /\ TypeFrames /\ TypeFrames'
      /\ OthersKept(p) /\ LocksKept(p) /\ Locals'
  BY TypeParts, TypeLocalsStep, TypeFramesStep, OthersStep, LocksStep, LocalsStep
<1>1. /\ pc'[p] \in Holders => lock'[fr'[p]] = p
      /\ \A f \in Frames : lock'[f] = p => pc'[p] \in Holders /\ fr'[p] = f
  <2> DEFINE Good == /\ pc'[p] \in Holders => lock'[fr'[p]] = p
                     /\ \A f \in Frames : lock'[f] = p => pc'[p] \in Holders /\ fr'[p] = f
  <2>0. /\ pc[p] \in Holders => lock[fr[p]] = p /\ fr[p] \in Frames
        /\ \A f \in Frames : lock[f] = p => pc[p] \in Holders /\ fr[p] = f
    BY DEF Holding
  <2>1. CASE \/ Load(p) \/ UserReads(p) \/ UserWrites(p) \/ Exits(p) \/ Mmap(p)
             \/ Unmaps(p, "user") \/ Faults(p, "fault") \/ Faults(p, "access")
             \/ Deallocates(p) \/ Destroys(p) \/ AllocStarts(p) \/ AllocFails(p)
             \/ Unmaps(p, "exit") \/ UnmapWrites(p) \/ FreesNoFrame(p) \/ Dies(p)
    <3>1. pc[p] \notin Holders /\ lock' = lock
      BY <2>1 DEF Load, UserReads, UserWrites, Exits, Mmap, Faults, StartsFrameLock, Unmaps,
         Deallocates, Destroys, AllocStarts, AllocFails, UnmapWrites, FreesNoFrame, Dies,
         frames, Holders
    <3>2. pc'[p] \notin Holders
      <4>1. CASE Faults(p, "fault") \/ Faults(p, "access") \/ Deallocates(p) \/ Destroys(p)
        <5>1. PICK q, w : StartsFrameLock(p, q, w)
          BY <4>1 DEF Faults, Deallocates, Destroys
        <5> QED BY <1>0, <5>1 DEF StartsFrameLock, NotResident, Goto, TypeLocals, Holders
      <4>2. CASE AllocFails(p) \/ FreesNoFrame(p)
        BY <1>0, <4>2 DEF AllocFails, FreesNoFrame, FreesPage, Return, Goto, TypeLocals, Holders
      <4>3. CASE \/ Load(p) \/ UserReads(p) \/ UserWrites(p) \/ Exits(p) \/ Mmap(p)
                 \/ Unmaps(p, "user") \/ AllocStarts(p) \/ Unmaps(p, "exit") \/ UnmapWrites(p)
                 \/ Dies(p)
        BY <1>0, <4>3 DEF Load, UserReads, UserWrites, Exits, Mmap, Unmaps, AfterTest,
           AllocStarts, UnmapWrites, Dies, Goto, TypeLocals, Holders
      <4> QED BY <2>1, <4>1, <4>2, <4>3
    <3> QED BY <2>0, <3>1, <3>2
  <2>2. CASE FrameLockGets(p)
    <3>1. /\ lock' = [lock EXCEPT ![fr[p]] = p] /\ fr' = fr /\ fr[p] \in Frames
          /\ pc[p] = "lock"
      BY <2>2 DEF FrameLockGets, local
    <3>2. Locked(cur[p], why[p]) \in {"map", "kernel", "clear", "free"}
      BY <2>2 DEF FrameLockGets, Locked, Reasons
    <3>3. pc'[p] \in Holders
      BY <1>0, <2>2, <3>2 DEF FrameLockGets, Goto, TypeLocals, Holders
    <3> QED BY <1>0, <2>0, <3>1, <3>3 DEF TypeFrames, Holders
  <2>3. CASE FrameLockRechecks(p) \/ SetsUpStack(p) \/ FreesFrame(p)
    <3>1. lock' = [lock EXCEPT ![fr[p]] = NULL] /\ pc[p] \in Holders
      BY <2>3 DEF FrameLockRechecks, LockAfterRecheck, SetsUpStack, FreesFrame, Holders
    <3>2. pc'[p] \notin Holders
      BY <1>0, <2>3 DEF FrameLockRechecks, NotResident, SetsUpStack, FreesFrame, FreesPage, Return,
         Goto, TypeLocals, Holders
    <3> QED BY <1>0, <2>0, <3>1, <3>2 DEF TypeFrames
  <2>4. CASE Maps(p) \/ Fills(p) \/ SwapInResets(p) \/ SwapInForgets(p)
    <3>1. /\ \/ \E b \in BOOLEAN : Resident(p, b)
             \/ \E place \in {"reset", "forget"} :
                   Goto(p, place) /\ UNCHANGED <<cur, fr, i, why, lock>>
          /\ pc[p] \in Holders
      BY <2>4 DEF Maps, Fills, SwapInResets, SwapInForgets, local, frames, Holders
    <3>2. \/ pc'[p] \in {"kernel", "reset", "forget"} /\ UNCHANGED <<lock, fr>>
          \/ pc'[p] = "user" /\ lock' = [lock EXCEPT ![fr[p]] = NULL]
      BY <1>0, <3>1 DEF Resident, Return, Goto, TypeLocals
    <3> QED BY <1>0, <2>0, <3>1, <3>2 DEF TypeFrames, Holders
  <2>5. CASE KernelAccesses(p)
    <3>1. /\ pc[p] = "kernel" /\ pc[p] \in Holders /\ frame[cur[p]] = fr[p]
      BY <2>5 DEF KernelAccesses, Residence, Holders
    <3>2. \/ UNCHANGED <<pc, local, lock>>
          \/ (Return(p, "user") /\ lock' = [lock EXCEPT ![fr[p]] = NULL])
      BY <2>5, <3>1 DEF KernelAccesses
    <3> QED BY <1>0, <2>0, <3>1, <3>2 DEF Return, Goto, local, TypeLocals, TypeFrames, Holders
  <2>6. CASE Scans(p) \/ Clocks(p)
    <3>1. Searches(p) /\ pc[p] \notin Holders
      BY <2>6, Searched DEF Searches, Holders
    <3>2. CASE Passes(p)
      BY <1>0, <2>0, <3>1, <3>2 DEF Passes, Goto, TypeLocals, Holders
    <3>3. ASSUME NEW f \in Frames, TakeFrame(p, f) \/ Evicts(p, f) PROVE Good
      BY <1>0, <2>0, <3>1, <3>3 DEF TakeFrame, Evicts, Goto, TypeLocals, TypeFrames, Holders
    <3> QED BY <3>1, <3>2, <3>3 DEF Searches
  <2>7. CASE PageOutClears(p) \/ SwapOutGetsSlot(p) \/ SwapOutWrites(p) \/ FileWrites(p)
             \/ PageOutReturns(p)
    <3>1. UNCHANGED <<lock, fr>> /\ pc[p] \in Holders
      BY <2>7 DEF PageOutClears, SwapOutGetsSlot, SwapOutWrites, FileWrites, PageOutReturns,
         local, frames, Holders
    <3>2. pc'[p] \in Holders
      BY <1>0, <2>7 DEF PageOutClears, Destination, SwapOutGetsSlot, SwapOutWrites, FileWrites,
         PageOutReturns, Goto, TypeLocals, Holders
    <3> QED BY <2>0, <3>1, <3>2
  <2>8. CASE PageOutFails(p)
    <3>1. pc[p] \in Holders
      BY <2>8 DEF PageOutFails, Holders
    <3>2. \/ pc'[p] = "free" /\ UNCHANGED <<lock, fr>>
          \/ pc'[p] = "failed" /\ lock' = [lock EXCEPT ![fr[p]] = NULL]
      BY <1>0, <2>8 DEF PageOutFails, Goto, TypeLocals
    <3> QED BY <1>0, <2>0, <3>1, <3>2 DEF TypeFrames, Holders
  <2> QED BY <2>1, <2>2, <2>3, <2>4, <2>5, <2>6, <2>7, <2>8 DEF Step, Locking, Kernel, User
<1>2. ASSUME NEW r \in Procs \ {p}
      PROVE  /\ pc'[r] \in Holders => lock'[fr'[r]] = r
             /\ \A f \in Frames : lock'[f] = r => pc'[r] \in Holders /\ fr'[r] = f
  <2>1. pc[r] \in Holders => lock[fr[r]] = r /\ fr[r] \in Frames
    BY DEF Holding
  <2>2. r # NULL
    OBVIOUS
  <2> QED BY <1>0, <2>1, <2>2 DEF OthersKept, LocksKept, Holding
<1>3. \A f \in Frames : lock'[f] \in Procs => pc'[lock'[f]] \in Holders /\ fr'[lock'[f]] = f
  BY <1>1, <1>2
<1> QED BY <1>1, <1>2, <1>3 DEF Holding

-----------------------------------------------------------------------------
(* Residence.                                                              *)

\* Two processes that work on a frame work on different ones, and on
\* different pages.
LEMMA Distinct ==
    ASSUME TypeOK, Locals, Holding, Residence, NEW p \in Procs, NEW r \in Procs \ {p}
    PROVE  /\ pc[p] \in Holders /\ pc[r] \in Holders => fr[p] # fr[r]
           /\ pc[p] \notin Outside /\ pc[r] \notin Outside => cur[p] # cur[r]
BY DEF Locals, Holding

\* A frame other than p's refers to a page that is there and not being freed
\* by p.
LEMMA ReferredTo ==
    ASSUME TypeOK, Locals, Holding, Residence, NEW p \in Procs, pc[p] \notin Outside,
           NEW f \in Frames, page[f] = cur[p]
    PROVE  frame[cur[p]] = f \/ (pc[p] = "free" /\ fr[p] = f)
<1>1. CASE WorkedOn(f, {"free"})
  <2>1. PICK x \in Procs : lock[f] = x /\ pc[x] = "free" /\ fr[x] = f
    BY <1>1 DEF WorkedOn, Holding
  <2>2. page[f] = cur[x]
    BY <2>1 DEF Residence
  <2>3. Owner[cur[x]] = x /\ Owner[cur[p]] = p
    BY <2>1 DEF Locals, Outside
  <2> QED BY <2>1, <2>2, <2>3
<1>2. CASE ~WorkedOn(f, {"free"})
  <2>1. page[f] # NULL
    BY Where, Constants
  <2> QED BY <1>2, <2>1 DEF Residence
<1> QED BY <1>1, <1>2

\* Nobody frees a page that another frame has.
LEMMA FreedOnce ==
    ASSUME TypeOK, Locals, Holding, Residence, NEW p \in Procs,
           NEW f \in Frames, WorkedOn(f, {"free"}), page[f] # NULL
    PROVE  frame[page[f]] \in {f, NULL} /\ Owner[page[f]] = lock[f]
<1>1. PICK x \in Procs : lock[f] = x /\ pc[x] = "free" /\ fr[x] = f
  BY DEF WorkedOn, Holding
<1> QED BY <1>1 DEF Residence, Locals, Outside

FramesAgree ==
    /\ \A q \in Pages : frame[q] # NULL => q \in pages /\ page[frame[q]] = q
    /\ \A f \in Frames : page[f] # NULL =>
          page[f] \in pages /\ (frame[page[f]] = f \/ WorkedOn(f, {"free"}))

ResidenceOf(p) ==
    /\ pc[p] \in {"alloc", "scan", "clock", "failed", "recheck", "gone"} => frame[cur[p]] = NULL
    /\ pc[p] \in {"lock", "free"} => frame[cur[p]] \in {fr[p], NULL}
    /\ pc[p] \in {"fill", "reset", "forget", "map", "kernel"} => frame[cur[p]] = fr[p]
    /\ pc[p] \in PageOut =>
          /\ page[fr[p]] # NULL /\ frame[page[fr[p]]] = fr[p]
          /\ IF why[p] = "unmap" THEN page[fr[p]] = cur[p] ELSE frame[cur[p]] = NULL
    /\ pc[p] = "free" => page[fr[p]] = cur[p]

\* Residence is a part about the two tables and one about each process.
LEMMA ResidenceParts == Residence <=> FramesAgree /\ \A p \in Procs : ResidenceOf(p)
BY DEF Residence, FramesAgree, ResidenceOf

\* The steps that change neither table.
LEMMA ResidenceSame ==
    ASSUME TypeOK, Locals, Reasons, Holding, Residence, Slotted, Backed, NEW p \in Procs, Step(p),
           UNCHANGED <<frame, page>>, pc[p] \notin {"free", "gone"}, ResidenceOf(p)'
    PROVE  Residence'
<1>0. OthersKept(p) /\ LocksKept(p) /\ PagesKept(p) /\ TypeLocals /\ TypeFrames
  BY OthersStep, LocksStep, PagesStep, TypeParts
<1>1. pages \subseteq pages'
  BY <1>0 DEF PagesKept
<1>2. ASSUME NEW f \in Frames, WorkedOn(f, {"free"}) PROVE WorkedOn(f, {"free"})'
  <2>1. lock[f] \in Procs /\ pc[lock[f]] = "free" /\ lock[f] # p
    BY <1>2 DEF WorkedOn
  <2>2. lock'[f] = lock[f] /\ pc'[lock[f]] = "free"
    BY <1>0, <2>1, Constants DEF OthersKept, LocksKept
  <2> QED BY <2>1, <2>2 DEF WorkedOn
<1>3. FramesAgree'
  <2>1. FramesAgree
    BY ResidenceParts
  <2> QED BY <1>1, <1>2, <2>1 DEF FramesAgree
<1>4. ASSUME NEW r \in Procs \ {p} PROVE ResidenceOf(r)'
  <2>1. ResidenceOf(r)
    BY ResidenceParts
  <2> QED BY <1>0, <2>1 DEF ResidenceOf, OthersKept
<1> QED BY <1>3, <1>4 DEF Residence, FramesAgree, ResidenceOf

\* A step keeps p->frame and f->page in agreement: frame_lock tests it again,
\* page_out and frame_alloc_and_lock set both, frame_free clears the frame.
LEMMA ResidenceStep ==
    ASSUME TypeOK, Locals, Reasons, Holding, Residence, Slotted, Backed, NEW p \in Procs, Step(p)
    PROVE  Residence'
<1> USE Where, Constants
<1>0. /\ TypeLocals /\ TypeLocals' /\ TypeFrames /\ TypeFrames' /\ TypePages /\ TypePages'
      /\ OthersKept(p) /\ LocksKept(p) /\ PagesKept(p)
  BY TypeParts, TypeLocalsStep, TypeFramesStep, TypePagesStep, OthersStep, LocksStep, PagesStep
<1>1. FramesAgree /\ \A r \in Procs : ResidenceOf(r)
  BY ResidenceParts
<1>2. ResidenceOf(p)
  BY <1>1
<1>3. CASE \/ Load(p) \/ UserReads(p) \/ UserWrites(p) \/ Exits(p) \/ Mmap(p)
           \/ Unmaps(p, "user") \/ Faults(p, "fault") \/ Faults(p, "access")
           \/ Deallocates(p) \/ Destroys(p) \/ AllocStarts(p) \/ Unmaps(p, "exit")
           \/ UnmapWrites(p) \/ Dies(p)
  <2>1. /\ UNCHANGED <<frame, page>>
        /\ pc[p] \notin {"free", "gone"}
    <3>1. CASE Load(p) \/ Mmap(p) \/ Faults(p, "fault") \/ Faults(p, "access")
      <4>1. frame' = frame
        BY <3>1, LoadGrows, MmapGrows, FaultGrows DEF Grown
      <4> QED BY <3>1, <4>1 DEF Load, Mmap, Faults, StartsFrameLock, frames
    <3>2. CASE \/ UserReads(p) \/ UserWrites(p) \/ Exits(p) \/ Unmaps(p, "user")
               \/ Deallocates(p) \/ Destroys(p) \/ AllocStarts(p) \/ Unmaps(p, "exit")
               \/ UnmapWrites(p) \/ Dies(p)
      BY <3>2 DEF UserReads, UserWrites, Exits, Unmaps, Deallocates, Destroys, StartsFrameLock,
         AllocStarts, UnmapWrites, Dies, frames, spt
    <3> QED BY <1>3, <3>1, <3>2
  <2>2. ResidenceOf(p)'
    <3>1. CASE Faults(p, "fault") \/ Faults(p, "access") \/ Deallocates(p) \/ Destroys(p)
      <4>1. PICK q, w : q \in Pages /\ StartsFrameLock(p, q, w)
        BY <3>1 DEF Faults, Deallocates, Destroys, PagesOf, Outside
      <4>2. /\ cur'[p] = q /\ fr'[p] = frame[q]
            /\ \/ pc'[p] \in {"alloc", "gone"} /\ frame[q] = NULL
               \/ pc'[p] = "lock"
        BY <1>0, <4>1 DEF StartsFrameLock, NotResident, Goto, TypeLocals
      <4> QED BY <2>1, <4>2 DEF ResidenceOf, PageOut
    <3>2. CASE Load(p)
      <4>1. PICK q \in PagesOf(p) \cap pages' : cur' = [cur EXCEPT ![p] = q]
        BY <3>2, LoadGrows
      <4>2. pc'[p] = "alloc" /\ cur'[p] = q /\ q \notin pages
        BY <1>0, <3>2, <4>1 DEF Load, Goto, TypeLocals, Backed
      <4>3. frame[q] = NULL
        BY <1>1, <4>2 DEF FramesAgree, PagesOf
      <4> QED BY <2>1, <4>2, <4>3 DEF ResidenceOf, PageOut
    <3>3. CASE \/ UserReads(p) \/ UserWrites(p) \/ Exits(p) \/ Mmap(p)
               \/ Unmaps(p, "user") \/ Unmaps(p, "exit") \/ UnmapWrites(p) \/ Dies(p)
      <4>1. pc'[p] \in Outside \cup {"writeback", "dealloc"}
        BY <1>0, <3>3 DEF UserReads, UserWrites, Exits, Mmap, Unmaps, AfterTest, UnmapWrites,
           Dies, Goto, TypeLocals, Outside
      <4> QED BY <4>1 DEF ResidenceOf, PageOut, Outside
    <3>4. CASE AllocStarts(p)
      <4>1. pc'[p] = "scan" /\ cur' = cur /\ pc[p] = "alloc"
        BY <1>0, <3>4 DEF AllocStarts, Goto, local, TypeLocals
      <4> QED BY <1>2, <2>1, <4>1 DEF ResidenceOf, PageOut
    <3> QED BY <1>3, <3>1, <3>2, <3>3, <3>4
  <2> QED BY <2>1, <2>2, ResidenceSame
<1>4. CASE \/ FrameLockGets(p) \/ FrameLockRechecks(p) \/ Maps(p) \/ Fills(p)
           \/ SwapInResets(p) \/ SwapInForgets(p) \/ SetsUpStack(p) \/ KernelAccesses(p)
           \/ AllocFails(p)
  <2>1. UNCHANGED <<frame, page>> /\ pc[p] \notin {"free", "gone"}
    BY <1>4 DEF FrameLockGets, FrameLockRechecks, Maps, Fills, SwapInResets, SwapInForgets,
       SetsUpStack, KernelAccesses, AllocFails, frames, spt
  <2>2. ResidenceOf(p)'
    <3>1. CASE FrameLockGets(p) /\ StillThere(p)
      <4>1. Locked(cur[p], why[p]) \in IF why[p] = "unmap" THEN {"clear", "free"}
                                       ELSE {"map", "kernel", "free"}
        BY <3>1 DEF FrameLockGets, Locked, Reasons
      <4>2. pc'[p] = Locked(cur[p], why[p]) /\ UNCHANGED <<cur, fr, why>>
        BY <1>0, <3>1 DEF FrameLockGets, Goto, local, TypeLocals
      <4>3. frame[cur[p]] = fr[p] /\ fr[p] \in Frames /\ cur[p] \in Pages
        BY <3>1 DEF FrameLockGets, StillThere, Outside
      <4>4. page[fr[p]] = cur[p] /\ cur[p] # NULL
        BY <1>1, <4>3 DEF FramesAgree
      <4> QED BY <2>1, <4>1, <4>2, <4>3, <4>4 DEF ResidenceOf, PageOut
    <3>2. CASE FrameLockGets(p) /\ ~StillThere(p)
      <4>1. pc'[p] = "recheck" /\ UNCHANGED <<cur, fr, why>> /\ frame[cur[p]] = NULL
        BY <1>0, <1>2, <3>2 DEF FrameLockGets, StillThere, Goto, local, TypeLocals, ResidenceOf
      <4> QED BY <2>1, <4>1 DEF ResidenceOf, PageOut
    <3>3. CASE FrameLockRechecks(p)
      <4>1. pc'[p] \in {"alloc", "gone"} /\ cur' = cur /\ frame[cur[p]] = NULL
        BY <1>0, <1>2, <3>3 DEF FrameLockRechecks, NotResident, Goto, TypeLocals, ResidenceOf
      <4> QED BY <2>1, <4>1 DEF ResidenceOf, PageOut
    <3>4. CASE Maps(p) \/ Fills(p) \/ SwapInResets(p) \/ SwapInForgets(p)
      <4>1. \/ \E b \in BOOLEAN : Resident(p, b)
            \/ \E place \in {"reset", "forget"} : Goto(p, place) /\ UNCHANGED <<cur, fr, i, why>>
        BY <3>4 DEF Maps, Fills, SwapInResets, SwapInForgets, local
      <4>2. \/ pc'[p] \in {"kernel", "reset", "forget"} /\ UNCHANGED <<cur, fr>>
            \/ pc'[p] = "user"
        BY <1>0, <4>1 DEF Resident, Return, Goto, TypeLocals
      <4>3. frame[cur[p]] = fr[p]
        BY <1>2, <3>4 DEF ResidenceOf, Maps, Fills, SwapInResets, SwapInForgets
      <4> QED BY <2>1, <4>2, <4>3 DEF ResidenceOf, PageOut
    <3>5. CASE KernelAccesses(p) \/ AllocFails(p) \/ SetsUpStack(p)
      <4>1. \/ UNCHANGED <<pc, cur, fr, why>>
            \/ pc'[p] \in {"user", "exit"}
        BY <1>0, <3>5 DEF KernelAccesses, AllocFails, SetsUpStack, Return, Goto, local, TypeLocals
      <4> QED BY <1>2, <2>1, <4>1 DEF ResidenceOf, PageOut
    <3> QED BY <1>4, <3>1, <3>2, <3>3, <3>4, <3>5
  <2> QED BY <2>1, <2>2, ResidenceSame
<1>5. CASE \/ PageOutClears(p) \/ SwapOutGetsSlot(p) \/ PageOutFails(p) \/ SwapOutWrites(p)
           \/ FileWrites(p)
  <2>1. UNCHANGED <<frame, page, cur, why>> /\ pc[p] \in PageOut
    BY <1>5 DEF PageOutClears, SwapOutGetsSlot, PageOutFails, SwapOutWrites, FileWrites,
       frames, spt, local, PageOut
  <2>2. \/ pc'[p] \in PageOut /\ UNCHANGED fr
        \/ pc'[p] = "free" /\ why[p] = "unmap" /\ UNCHANGED fr
        \/ pc'[p] = "failed" /\ why[p] # "unmap"
    BY <1>0, <1>5 DEF PageOutClears, Destination, SwapOutGetsSlot, PageOutFails, SwapOutWrites,
       FileWrites, Goto, local, TypeLocals, PageOut
  <2>3. ResidenceOf(p)'
    BY <1>2, <2>1, <2>2 DEF ResidenceOf, PageOut
  <2> QED BY <2>1, <2>3, ResidenceSame DEF PageOut
<1>6. CASE Scans(p) \/ Clocks(p)
  <2>1. Searches(p)
    BY <1>6, Searched
  <2>2. /\ UNCHANGED <<cur, why, pages>> /\ pc[p] \in {"scan", "clock"}
        /\ frame[cur[p]] = NULL /\ why[p] # "unmap" /\ cur[p] \in pages
    BY <1>2, <2>1 DEF Searches, ResidenceOf, Reasons, Brings, Locals, Outside
  <2>3. CASE Passes(p)
    <3>1. UNCHANGED <<frame, page>> /\ pc'[p] \in {"scan", "clock", "failed"}
      BY <1>0, <2>3 DEF Passes, Goto, TypeLocals
    <3>2. ResidenceOf(p)'
      BY <2>2, <3>1 DEF ResidenceOf, PageOut
    <3> QED BY <2>2, <3>1, <3>2, ResidenceSame
  <2>4. ASSUME NEW f \in Frames, Evicts(p, f) PROVE Residence'
    <3>1. /\ UNCHANGED <<frame, page>> /\ pc'[p] = "clear" /\ fr'[p] = f
          /\ page[f] # NULL /\ lock[f] = NULL
      BY <1>0, <2>4 DEF Evicts, Goto, TypeLocals
    <3>2. frame[page[f]] = f
      BY <1>1, <3>1 DEF FramesAgree, WorkedOn
    <3>3. ResidenceOf(p)'
      BY <2>2, <3>1, <3>2 DEF ResidenceOf, PageOut
    <3> QED BY <2>2, <3>1, <3>3, ResidenceSame
  <2>5. ASSUME NEW f \in Frames, lock[f] = NULL, page[f] = NULL, TakeFrame(p, f)
        PROVE  Residence'
    <3>1. /\ page' = [page EXCEPT ![f] = cur[p]] /\ frame' = [frame EXCEPT ![cur[p]] = f]
          /\ pc'[p] = "fill" /\ fr'[p] = f /\ cur[p] \in Pages
      BY <1>0, <2>1, <2>5 DEF Searches, TakeFrame, Goto, TypeLocals, Outside
    <3>2. FramesAgree'
      <4>1. ASSUME NEW q \in Pages, frame'[q] # NULL PROVE q \in pages' /\ page'[frame'[q]] = q
        BY <1>0, <1>1, <2>2, <2>5, <3>1, <4>1 DEF FramesAgree, TypePages, TypeFrames
      <4>2. ASSUME NEW g \in Frames, page'[g] # NULL
            PROVE  page'[g] \in pages' /\ (frame'[page'[g]] = g \/ WorkedOn(g, {"free"})')
        <5>1. CASE g = f
          BY <1>0, <2>2, <3>1, <5>1 DEF TypePages, TypeFrames
        <5>2. CASE g # f
          <6>1. page'[g] = page[g] /\ page[g] \in pages /\ page[g] \in Pages
            BY <1>0, <1>1, <3>1, <4>2, <5>2 DEF TypePages, TypeFrames, FramesAgree
          <6>2. page[g] # cur[p]
            BY <2>2, <6>1, ReferredTo, Constants DEF Outside
          <6>3. frame'[page[g]] = frame[page[g]]
            BY <1>0, <3>1, <6>1, <6>2 DEF TypePages
          <6>4. WorkedOn(g, {"free"}) => WorkedOn(g, {"free"})'
            BY <1>0, <2>2 DEF WorkedOn, LocksKept, OthersKept
          <6> QED BY <1>1, <2>2, <4>2, <6>1, <6>3, <6>4 DEF FramesAgree
        <5> QED BY <5>1, <5>2
      <4> QED BY <4>1, <4>2 DEF FramesAgree
    <3>3. ResidenceOf(p)'
      BY <1>0, <2>2, <3>1 DEF ResidenceOf, PageOut, TypePages
    <3>4. ASSUME NEW r \in Procs \ {p} PROVE ResidenceOf(r)'
      <4>1. ResidenceOf(r)
        BY <1>1
      <4>2. pc[r] \notin Outside => cur[r] # cur[p] /\ frame'[cur[r]] = frame[cur[r]]
        BY <1>0, <2>2, <3>1, Distinct DEF Outside, TypePages
      <4>3. pc[r] \in Holders => fr[r] # f /\ page'[fr[r]] = page[fr[r]]
        BY <1>0, <2>5, <3>1 DEF Holding, TypeFrames
      <4>4. pc[r] \in PageOut =>
              page[fr[r]] # cur[p] /\ frame'[page[fr[r]]] = frame[page[fr[r]]]
        BY <1>0, <2>2, <3>1, <4>1 DEF ResidenceOf, TypePages, PageOut, Holders
      <4> QED BY <1>0, <4>1, <4>2, <4>3, <4>4 DEF ResidenceOf, OthersKept, Outside, Holders,
                PageOut
    <3> QED BY <3>2, <3>3, <3>4 DEF Residence, FramesAgree, ResidenceOf
  <2> QED BY <2>1, <2>3, <2>4, <2>5 DEF Searches
<1>7. CASE FreesFrame(p) \/ FreesNoFrame(p)
  <2>1. /\ pages' = pages \ {cur[p]} /\ frame' = [frame EXCEPT ![cur[p]] = NULL]
        /\ pc[p] \in {"free", "gone"} /\ pc'[p] \in {"user", "exit"}
    BY <1>0, <1>7 DEF FreesFrame, FreesNoFrame, FreesPage, Return, Goto, TypeLocals
  <2>2. /\ pc[p] = "free" => page' = [page EXCEPT ![fr[p]] = NULL]
        /\ pc[p] = "gone" => page' = page
    BY <1>7 DEF FreesFrame, FreesNoFrame, frames
  <2>3. cur[p] \in Pages /\ pc[p] \notin Outside /\ (pc[p] = "free" => fr[p] \in Frames)
    BY <2>1 DEF Outside, Holders
  <2>4. /\ pc[p] = "free" => page[fr[p]] = cur[p] /\ frame[cur[p]] \in {fr[p], NULL}
        /\ pc[p] = "gone" => frame[cur[p]] = NULL
    BY <1>2 DEF ResidenceOf
  <2>5. \A g \in Frames : page'[g] # NULL => page'[g] = page[g] /\ page[g] # cur[p]
    BY <1>0, <2>1, <2>2, <2>3, <2>4, ReferredTo DEF TypeFrames
  <2>6. \A q \in Pages : frame'[q] = IF q = cur[p] THEN NULL ELSE frame[q]
    BY <1>0, <2>1, <2>3 DEF TypePages
  <2>7. FramesAgree'
    <3>1. ASSUME NEW q \in Pages, frame'[q] # NULL PROVE q \in pages' /\ page'[frame'[q]] = q
      <4>1. q # cur[p] /\ frame'[q] = frame[q] /\ page[frame[q]] = q /\ q \in pages
        BY <1>1, <2>6, <3>1 DEF FramesAgree
      <4>2. page'[frame[q]] = page[frame[q]]
        <5>1. frame[q] \in Frames
          BY <1>0, <3>1, <4>1 DEF TypePages
        <5>2. pc[p] = "free" => frame[q] # fr[p]
          BY <2>4, <4>1
        <5> QED BY <1>0, <2>1, <2>2, <5>1, <5>2 DEF TypeFrames
      <4> QED BY <2>1, <4>1, <4>2
    <3>2. ASSUME NEW g \in Frames, page'[g] # NULL
          PROVE  page'[g] \in pages' /\ (frame'[page'[g]] = g \/ WorkedOn(g, {"free"})')
      <4>1. page'[g] = page[g] /\ page[g] # cur[p] /\ page[g] \in pages /\ page[g] \in Pages
        BY <1>0, <1>1, <2>5, <3>2 DEF TypePages, FramesAgree
      <4>2. frame'[page[g]] = frame[page[g]]
        BY <2>6, <4>1
      <4>3. WorkedOn(g, {"free"}) => lock[g] # p
        <5>1. pc[p] = "free" /\ lock[g] = p => fr[p] = g
          BY DEF Holding
        <5> QED BY <2>4, <4>1, <5>1 DEF WorkedOn
      <4>4. WorkedOn(g, {"free"}) => WorkedOn(g, {"free"})'
        BY <1>0, <4>3 DEF WorkedOn, LocksKept, OthersKept
      <4> QED BY <1>1, <2>1, <3>2, <4>1, <4>2, <4>4 DEF FramesAgree
    <3> QED BY <3>1, <3>2 DEF FramesAgree
  <2>8. ResidenceOf(p)'
    BY <2>1 DEF ResidenceOf, PageOut
  <2>9. ASSUME NEW r \in Procs \ {p} PROVE ResidenceOf(r)'
    <3>1. ResidenceOf(r)
      BY <1>1
    <3>2. pc[r] \notin Outside => frame'[cur[r]] = frame[cur[r]]
      BY <2>3, <2>6, Distinct
    <3>3. pc[r] \in Holders => page'[fr[r]] = page[fr[r]]
      BY <1>0, <2>1, <2>2, <2>3, Distinct DEF Holders, TypeFrames
    <3>4. pc[r] \in PageOut => frame'[page[fr[r]]] = frame[page[fr[r]]]
      <4>1. pc[r] \in PageOut => frame[page[fr[r]]] = fr[r] /\ fr[r] \in Frames
                                  /\ (pc[p] = "free" => fr[r] # fr[p])
        BY <3>1, Distinct DEF ResidenceOf, PageOut, Holders
      <4>2. pc[r] \in PageOut => page[fr[r]] # cur[p] /\ page[fr[r]] \in Pages
        BY <1>0, <2>1, <2>4, <3>1, <4>1 DEF TypeFrames, ResidenceOf
      <4> QED BY <2>6, <4>2
    <3> QED BY <1>0, <3>1, <3>2, <3>3, <3>4 DEF ResidenceOf, OthersKept, Outside, Holders, PageOut
  <2> QED BY <2>7, <2>8, <2>9 DEF Residence, FramesAgree, ResidenceOf
<1>8. CASE PageOutReturns(p)
  <2> DEFINE V == page[fr[p]]
  <2>1. /\ pc[p] = "take" /\ fr[p] \in Frames /\ cur[p] \in Pages /\ cur[p] \in pages
        /\ UNCHANGED <<cur, fr, why, pages>>
    BY <1>8 DEF PageOutReturns, local, Holders, Outside, Locals
  <2>2. V \in Pages /\ V # NULL /\ frame[V] = fr[p]
        /\ IF why[p] = "unmap" THEN V = cur[p] ELSE frame[cur[p]] = NULL /\ V # cur[p]
    BY <1>0, <1>2, <2>1 DEF ResidenceOf, PageOut, TypeFrames
  <2>3. \A q \in Pages : frame'[q] = IF q = V THEN NULL
                                     ELSE IF q = cur[p] THEN fr[p] ELSE frame[q]
    BY <1>0, <1>8, <2>1, <2>2 DEF PageOutReturns, Victim, TypePages
  <2>4. \A g \in Frames : page'[g] = IF g = fr[p] THEN cur[p] ELSE page[g]
    BY <1>0, <1>8, <2>1, <2>2 DEF PageOutReturns, TypeFrames
  <2>5. pc'[p] = IF why[p] = "unmap" THEN "free" ELSE "fill"
    BY <1>0, <1>8 DEF PageOutReturns, Goto, TypeLocals
  <2>6. lock' = lock /\ lock[fr[p]] = p
    BY <1>8, <2>1 DEF PageOutReturns, Holding, Holders
  <2>7. \A g \in Frames : g # fr[p] => page[g] # V /\ page[g] # cur[p]
    <3>1. ASSUME NEW g \in Frames, g # fr[p] PROVE page[g] # cur[p]
      BY <2>1, <2>2, <3>1, ReferredTo DEF Outside
    <3>2. ASSUME NEW g \in Frames, g # fr[p] PROVE page[g] # V
      <4>1. SUFFICES ASSUME page[g] = V PROVE FALSE
        OBVIOUS
      <4>2. frame[page[g]] # g /\ frame[page[g]] # NULL /\ page[g] # NULL
        BY <2>1, <2>2, <3>2, <4>1
      <4>3. WorkedOn(g, {"free"})
        BY <1>1, <4>2 DEF FramesAgree
      <4> QED BY <4>2, <4>3, FreedOnce
    <3> QED BY <3>1, <3>2
  <2>8. FramesAgree'
    <3>1. ASSUME NEW q \in Pages, frame'[q] # NULL PROVE q \in pages' /\ page'[frame'[q]] = q
      BY <1>0, <1>1, <2>1, <2>2, <2>3, <2>4, <3>1 DEF FramesAgree, TypePages
    <3>2. ASSUME NEW g \in Frames, page'[g] # NULL
          PROVE  page'[g] \in pages' /\ (frame'[page'[g]] = g \/ WorkedOn(g, {"free"})')
      <4>1. CASE g = fr[p]
        <5>1. why[p] # "unmap" => frame'[cur[p]] = fr[p]
          BY <2>1, <2>2, <2>3
        <5>2. why[p] = "unmap" => WorkedOn(g, {"free"})'
          BY <2>5, <2>6, <4>1 DEF WorkedOn
        <5> QED BY <2>1, <2>4, <4>1, <5>1, <5>2
      <4>2. CASE g # fr[p]
        <5>1. page'[g] = page[g] /\ page[g] \in Pages /\ frame'[page[g]] = frame[page[g]]
          BY <1>0, <2>3, <2>4, <2>7, <3>2, <4>2 DEF TypeFrames
        <5>2. WorkedOn(g, {"free"}) => WorkedOn(g, {"free"})'
          BY <1>0, <2>1 DEF WorkedOn, LocksKept, OthersKept
        <5> QED BY <1>1, <2>1, <3>2, <5>1, <5>2 DEF FramesAgree
      <4> QED BY <4>1, <4>2
    <3> QED BY <3>1, <3>2 DEF FramesAgree
  <2>9. ResidenceOf(p)'
    BY <2>1, <2>2, <2>3, <2>4, <2>5 DEF ResidenceOf, PageOut
  <2>10. ASSUME NEW r \in Procs \ {p} PROVE ResidenceOf(r)'
    <3>1. ResidenceOf(r)
      BY <1>1
    <3>2. pc[r] \notin Outside => cur[r] # cur[p] /\ cur[r] \in Pages
      BY <2>1, Distinct DEF Outside
    <3>3. pc[r] \in Holders => fr[r] # fr[p] /\ fr[r] \in Frames /\ page'[fr[r]] = page[fr[r]]
      BY <2>1, <2>4, Distinct DEF Holders
    <3>4. pc[r] \notin Outside => frame'[cur[r]] = frame[cur[r]]
                                   \/ (frame'[cur[r]] = NULL /\ frame[cur[r]] = fr[p])
      BY <2>2, <2>3, <3>2
    <3>5. pc[r] \in PageOut => /\ frame[page[fr[r]]] = fr[r] /\ page[fr[r]] \in Pages
                               /\ frame'[page[fr[r]]] = frame[page[fr[r]]]
      BY <1>0, <2>3, <2>7, <3>1, <3>3 DEF ResidenceOf, TypeFrames, PageOut, Holders
    <3> QED BY <1>0, <3>1, <3>2, <3>3, <3>4, <3>5 DEF ResidenceOf, OthersKept, Outside, Holders,
              PageOut
  <2> QED BY <2>8, <2>9, <2>10 DEF Residence, FramesAgree, ResidenceOf
<1> QED BY <1>3, <1>4, <1>5, <1>6, <1>7, <1>8 DEF Step, Locking, Kernel, User

-----------------------------------------------------------------------------
(* Slots.                                                                  *)

\* Who works on a frame that is not p's goes on doing so.
LEMMA WorkedOnKept ==
    ASSUME NEW p \in Procs, NEW f \in Frames, NEW S, OthersKept(p), LocksKept(p),
           WorkedOn(f, S), lock[f] # p
    PROVE  WorkedOn(f, S)'
<1>1. lock[f] \in Procs /\ pc[lock[f]] \in S /\ lock[f] # NULL
  BY Constants DEF WorkedOn
<1>2. lock'[f] = lock[f] /\ pc'[lock[f]] = pc[lock[f]]
  BY <1>1 DEF OthersKept, LocksKept
<1> QED BY <1>1, <1>2 DEF WorkedOn

\* A step of p changes only frames that p has locked, and frames that nobody
\* has.
FramesKept(p) ==
    \A f \in Frames : lock[f] # p /\ lock[f] # NULL =>
        page'[f] = page[f] /\ \A q \in Pages : frame'[q] = f <=> frame[q] = f

\* frame_lock, frame_alloc_and_lock and frame_free work on frames whose lock
\* the process holds or has just taken.
LEMMA FramesStep ==
    ASSUME TypeOK, Locals, Reasons, Holding, Residence, Slotted, Backed, NEW p \in Procs, Step(p)
    PROVE  FramesKept(p)
<1> USE Where, Constants
<1>0. /\ TypeFrames /\ TypePages /\ ResidenceOf(p) /\ FramesAgree
      /\ pc[p] \in Holders => lock[fr[p]] = p /\ fr[p] \in Frames
  BY TypeParts, ResidenceParts DEF Holding
<1>1. CASE \/ Load(p) \/ UserReads(p) \/ UserWrites(p) \/ Exits(p) \/ Mmap(p)
           \/ Unmaps(p, "user") \/ Faults(p, "fault") \/ Faults(p, "access")
           \/ Deallocates(p) \/ Destroys(p) \/ AllocStarts(p) \/ Unmaps(p, "exit")
           \/ UnmapWrites(p) \/ Dies(p) \/ FrameLockGets(p) \/ FrameLockRechecks(p) \/ Maps(p)
           \/ KernelAccesses(p) \/ AllocFails(p) \/ PageOutClears(p) \/ PageOutFails(p)
           \/ FileWrites(p) \/ Fills(p) \/ SetsUpStack(p) \/ SwapInResets(p) \/ SwapInForgets(p)
           \/ SwapOutGetsSlot(p) \/ SwapOutWrites(p)
  <2>1. page' = page
    BY <1>1 DEF Load, UserReads, UserWrites, Exits, Mmap, Unmaps, Faults, Deallocates, Destroys,
       StartsFrameLock, AllocStarts, UnmapWrites, Dies, FrameLockGets, FrameLockRechecks, Maps,
       KernelAccesses, AllocFails, PageOutClears, PageOutFails, FileWrites, Fills,
       SetsUpStack, SwapInResets, SwapInForgets, SwapOutGetsSlot, SwapOutWrites, frames
  <2>2. frame' = frame
    <3>1. CASE Load(p) \/ Mmap(p) \/ Faults(p, "fault") \/ Faults(p, "access")
      BY <3>1, LoadGrows, MmapGrows, FaultGrows DEF Grown
    <3>2. CASE ~(Load(p) \/ Mmap(p) \/ Faults(p, "fault") \/ Faults(p, "access"))
      BY <1>1, <3>2 DEF UserReads, UserWrites, Exits, Unmaps, Deallocates, Destroys,
         AllocStarts, UnmapWrites, Dies, FrameLockGets, FrameLockRechecks, Maps,
         KernelAccesses, AllocFails, PageOutClears, PageOutFails, FileWrites, Fills,
         SetsUpStack, SwapInResets, SwapInForgets, SwapOutGetsSlot, SwapOutWrites, spt
    <3> QED BY <3>1, <3>2
  <2> QED BY <2>1, <2>2 DEF FramesKept
<1>2. CASE Scans(p) \/ Clocks(p)
  <2>1. Searches(p) /\ frame[cur[p]] = NULL /\ cur[p] \in Pages
    BY <1>0, <1>2, Searched DEF Searches, ResidenceOf, Outside
  <2>2. CASE UNCHANGED <<frame, page>>
    BY <2>2 DEF FramesKept
  <2>3. ASSUME NEW f \in Frames, lock[f] = NULL, TakeFrame(p, f) PROVE FramesKept(p)
    BY <1>0, <2>1, <2>3 DEF TakeFrame, FramesKept, TypeFrames, TypePages
  <2> QED BY <2>1, <2>2, <2>3 DEF Searches, Passes, Evicts
<1>3. CASE PageOutReturns(p)
  <2>1. /\ pc[p] = "take" /\ fr[p] \in Frames /\ cur[p] \in Pages /\ lock[fr[p]] = p
    BY <1>0, <1>3 DEF PageOutReturns, Holders, Outside
  <2>2. page[fr[p]] \in Pages /\ frame[page[fr[p]]] = fr[p]
        /\ IF why[p] = "unmap" THEN page[fr[p]] = cur[p]
           ELSE frame[cur[p]] = NULL /\ page[fr[p]] # cur[p]
    BY <1>0, <2>1 DEF ResidenceOf, PageOut, TypeFrames
  <2>3. \A q \in Pages : frame'[q] = IF q = page[fr[p]] THEN NULL
                                     ELSE IF q = cur[p] THEN fr[p] ELSE frame[q]
    BY <1>0, <1>3, <2>1, <2>2 DEF PageOutReturns, Victim, TypePages
  <2>4. \A g \in Frames \ {fr[p]} : page'[g] = page[g]
    BY <1>0, <1>3, <2>1 DEF PageOutReturns, TypeFrames
  <2> QED BY <2>1, <2>2, <2>3, <2>4 DEF FramesKept
<1>4. CASE FreesFrame(p) \/ FreesNoFrame(p)
  <2>1. /\ frame' = [frame EXCEPT ![cur[p]] = NULL] /\ cur[p] \in Pages
        /\ pc[p] = "free" => page' = [page EXCEPT ![fr[p]] = NULL]
        /\ pc[p] # "free" => page' = page
        /\ pc[p] \in {"free", "gone"}
    BY <1>4 DEF FreesFrame, FreesNoFrame, FreesPage, Outside, frames
  <2>2. /\ pc[p] = "free" => frame[cur[p]] \in {fr[p], NULL} /\ lock[fr[p]] = p
                             /\ fr[p] \in Frames
        /\ pc[p] = "gone" => frame[cur[p]] = NULL
    BY <1>0 DEF ResidenceOf, Holders
  <2> QED BY <1>0, <2>1, <2>2 DEF FramesKept, TypeFrames, TypePages
<1> QED BY <1>1, <1>2, <1>3, <1>4 DEF Step, Locking, Kernel, User

SlottedAt(q) ==
    sector[q] # NULL =>
       /\ q \in pages /\ (Forgetting(q) \/ sector[q] \in used)
       /\ frame[q] # NULL => WorkedOn(frame[q], {"swap", "take", "fill", "reset", "forget"})
       /\ file[q] => frame[q] # NULL /\ WorkedOn(frame[q], {"swap"})

Alone(q) ==
    sector[q] # NULL =>
        \A r \in Pages \ {q} : sector[r] = sector[q] => Forgetting(q) \/ Forgetting(r)

\* Slotted, page by page.
LEMMA SlottedParts ==
    Slotted <=> /\ \A q \in Pages : SlottedAt(q) /\ Alone(q)
                /\ \A p \in Procs :
                       pc[p] \in {"swap", "reset", "forget"} => sector[page[fr[p]]] # NULL
BY DEF Slotted, SlottedAt, Alone

\* swap_in forgets the slot of its own page only.
LEMMA StillForgetting ==
    ASSUME TypeOK, Locals, Reasons, Holding, Residence, Slotted, Backed, NEW p \in Procs, Step(p),
           NEW q \in Pages, Forgetting(q), pc[p] # "forget" \/ q # cur[p]
    PROVE  Forgetting(q)'
<1>0. OthersKept(p) /\ LocksKept(p) /\ FramesKept(p) /\ TypePages /\ FramesAgree
  BY OthersStep, LocksStep, FramesStep, TypeParts, ResidenceParts
<1>1. frame[q] \in Frames /\ WorkedOn(frame[q], {"forget"}) /\ page[frame[q]] = q
  BY <1>0 DEF Forgetting, TypePages, FramesAgree
<1>2. lock[frame[q]] # p
  <2>1. SUFFICES ASSUME lock[frame[q]] = p PROVE FALSE
    OBVIOUS
  <2>2. pc[p] = "forget" /\ fr[p] = frame[q] /\ frame[cur[p]] = fr[p] /\ cur[p] \in Pages
    BY <1>1, <2>1, Where DEF WorkedOn, Holding, Residence, Outside
  <2>3. page[frame[cur[p]]] = cur[p]
    BY <1>0, <1>1, <2>2, Constants DEF FramesAgree
  <2> QED BY <1>1, <2>2, <2>3
<1>3. lock[frame[q]] # NULL /\ frame[q] # NULL
  BY <1>1, Constants DEF WorkedOn
<1>4. frame'[q] = frame[q]
  BY <1>0, <1>1, <1>2, <1>3 DEF FramesKept
<1>5. WorkedOn(frame[q], {"forget"})'
  BY <1>0, <1>1, <1>2, <1>4, WorkedOnKept DEF WorkedOn
<1> QED BY <1>3, <1>4, <1>5 DEF Forgetting

\* A page that was alone in its slot stays so while no page gets a slot.
LEMMA AloneSame ==
    ASSUME TypeOK, Locals, Reasons, Holding, Residence, Slotted, Backed, NEW p \in Procs, Step(p),
           sector' = sector, pc[p] # "forget", NEW q \in Pages
    PROVE  Alone(q)'
<1>1. \A r \in Pages : Forgetting(r) => Forgetting(r)'
  BY StillForgetting
<1>2. Alone(q)
  BY SlottedParts
<1> QED BY <1>1, <1>2 DEF Alone

\* A step that changes no slot, no frame and no use of a page.
LEMMA SlottedSame ==
    ASSUME TypeOK, Locals, Reasons, Holding, Residence, Slotted, Backed, NEW p \in Procs, Step(p),
           UNCHANGED <<used, sector, frame, page>>, \A q \in pages : file'[q] = file[q],
           pc[p] \notin {"swap", "reset", "forget", "free", "gone"},
           pc'[p] \notin {"swap", "forget"},
           \A q \in Pages : sector[q] # NULL /\ frame[q] # NULL /\ lock[frame[q]] = p =>
               WorkedOn(frame[q], {"take", "fill", "reset", "forget"})',
           pc'[p] = "reset" => sector[page[fr'[p]]] # NULL
    PROVE  Slotted'
<1>0. /\ OthersKept(p) /\ LocksKept(p) /\ PagesKept(p) /\ TypeLocals /\ TypePages
      /\ pages \subseteq pages'
  BY OthersStep, LocksStep, PagesStep, TypeParts DEF PagesKept
<1>1. ASSUME NEW q \in Pages PROVE SlottedAt(q)'
  <2>1. SUFFICES ASSUME sector[q] # NULL PROVE SlottedAt(q)'
    BY DEF SlottedAt
  <2>2. SlottedAt(q) /\ q \in pages
    BY <2>1, SlottedParts DEF SlottedAt
  <2>3. frame[q] # NULL => WorkedOn(frame[q], {"swap", "take", "fill", "reset", "forget"})'
    <3>1. SUFFICES ASSUME frame[q] # NULL
                   PROVE  WorkedOn(frame[q], {"swap", "take", "fill", "reset", "forget"})'
      OBVIOUS
    <3>2. WorkedOn(frame[q], {"swap", "take", "fill", "reset", "forget"}) /\ frame[q] \in Frames
      BY <1>0, <2>1, <2>2, <3>1 DEF SlottedAt, TypePages
    <3>3. CASE lock[frame[q]] = p
      BY <2>1, <3>1, <3>3 DEF WorkedOn
    <3>4. CASE lock[frame[q]] # p
      BY <1>0, <3>2, <3>4, WorkedOnKept
    <3> QED BY <3>3, <3>4
  <2>4. file[q] => frame[q] # NULL /\ WorkedOn(frame[q], {"swap"})'
    <3>1. SUFFICES ASSUME file[q] PROVE frame[q] # NULL /\ WorkedOn(frame[q], {"swap"})'
      OBVIOUS
    <3>2. WorkedOn(frame[q], {"swap"}) /\ frame[q] # NULL /\ frame[q] \in Frames
      BY <1>0, <2>1, <2>2, <3>1 DEF SlottedAt, TypePages
    <3>3. lock[frame[q]] # p
      BY <3>2 DEF WorkedOn
    <3> QED BY <1>0, <3>2, <3>3, WorkedOnKept
  <2>5. Forgetting(q)' \/ sector[q] \in used
    BY <2>1, <2>2, StillForgetting DEF SlottedAt
  <2> QED BY <1>0, <2>1, <2>2, <2>3, <2>4, <2>5 DEF SlottedAt
<1>2. \A q \in Pages : Alone(q)'
  BY AloneSame
<1>3. ASSUME NEW r \in Procs, pc'[r] \in {"swap", "reset", "forget"}
      PROVE  sector'[page'[fr'[r]]] # NULL
  BY <1>0, <1>3, SlottedParts DEF OthersKept
<1> QED BY <1>1, <1>2, <1>3 DEF Slotted, SlottedAt, Alone

\* A process in swap, reset or forget has a frame, and the page in it a slot.
LEMMA SlotPlaces ==
    ASSUME TypeOK, Locals, Holding, Residence, Slotted, NEW r \in Procs,
           pc[r] \in {"swap", "reset", "forget"}
    PROVE  /\ fr[r] \in Frames /\ page[fr[r]] \in Pages /\ frame[page[fr[r]]] = fr[r]
           /\ lock[fr[r]] = r /\ sector[page[fr[r]]] # NULL
<1>1. fr[r] \in Frames /\ cur[r] \in Pages /\ lock[fr[r]] = r
  BY Where DEF Holders, Outside, Holding
<1>2. sector[page[fr[r]]] # NULL
  BY SlottedParts
<1>3. CASE pc[r] = "swap"
  BY <1>1, <1>2, <1>3 DEF Residence, PageOut, TypeOK
<1>4. CASE pc[r] \in {"reset", "forget"}
  BY <1>1, <1>2, <1>4, Constants DEF Residence
<1> QED BY <1>3, <1>4

\* A step keeps every slot with one page: swap_out takes a free one, and
\* swap_in gives back the one it read.
LEMMA SlottedStep ==
    ASSUME TypeOK, Locals, Reasons, Holding, Residence, Slotted, Backed, NEW p \in Procs, Step(p)
    PROVE  Slotted'
<1> USE Where, Constants
<1>0. /\ TypeLocals /\ TypeLocals' /\ TypeFrames /\ TypeFrames' /\ TypePages /\ TypePages'
      /\ OthersKept(p) /\ LocksKept(p) /\ PagesKept(p)
  BY TypeParts, TypeLocalsStep, TypeFramesStep, TypePagesStep, OthersStep, LocksStep, PagesStep
<1>1. /\ \A q \in Pages : SlottedAt(q) /\ Alone(q)
      /\ ResidenceOf(p) /\ FramesAgree
  BY SlottedParts, ResidenceParts
<1>2. ASSUME NEW q \in Pages, sector[q] # NULL, frame[q] # NULL, lock[frame[q]] = p
      PROVE  /\ pc[p] \in {"swap", "take", "fill", "reset", "forget"}
             /\ fr[p] = frame[q] /\ page[fr[p]] = q
  <2>1. WorkedOn(frame[q], {"swap", "take", "fill", "reset", "forget"}) /\ frame[q] \in Frames
    BY <1>0, <1>1, <1>2 DEF SlottedAt, TypePages
  <2> QED BY <1>1, <1>2, <2>1 DEF WorkedOn, Holding, FramesAgree
<1>10. \A q \in Pages : Forgetting(q) /\ (pc[p] # "forget" \/ q # cur[p]) => Forgetting(q)'
  BY StillForgetting
<1>3. CASE \/ Load(p) \/ UserReads(p) \/ UserWrites(p) \/ Exits(p) \/ Mmap(p)
           \/ Unmaps(p, "user") \/ Faults(p, "fault") \/ Faults(p, "access")
           \/ Deallocates(p) \/ Destroys(p) \/ AllocStarts(p) \/ Unmaps(p, "exit")
           \/ UnmapWrites(p) \/ Dies(p) \/ FrameLockGets(p) \/ FrameLockRechecks(p) \/ Maps(p)
           \/ KernelAccesses(p) \/ AllocFails(p) \/ PageOutClears(p) \/ PageOutFails(p)
           \/ FileWrites(p)
  <2>1. /\ UNCHANGED <<used, page>>
        /\ pc[p] \notin {"swap", "take", "fill", "reset", "forget", "free", "gone"}
    BY <1>3 DEF Load, UserReads, UserWrites, Exits, Mmap, Unmaps, Faults, Deallocates, Destroys,
       StartsFrameLock, AllocStarts, UnmapWrites, Dies, FrameLockGets, FrameLockRechecks, Maps,
       KernelAccesses, AllocFails, PageOutClears, PageOutFails, FileWrites, frames, disk
  <2>2. UNCHANGED <<sector, frame>> /\ \A q \in pages : file'[q] = file[q]
    <3>1. CASE Load(p) \/ Mmap(p) \/ Faults(p, "fault") \/ Faults(p, "access")
      BY <3>1, LoadGrows, MmapGrows, FaultGrows DEF Grown
    <3>2. CASE ~(Load(p) \/ Mmap(p) \/ Faults(p, "fault") \/ Faults(p, "access"))
      BY <1>3, <3>2 DEF UserReads, UserWrites, Exits, Unmaps, Deallocates, Destroys,
         AllocStarts, UnmapWrites, Dies, FrameLockGets, FrameLockRechecks, Maps,
         KernelAccesses, AllocFails, PageOutClears, PageOutFails, FileWrites, spt
    <3> QED BY <3>1, <3>2
  <2>3. pc'[p] \notin {"swap", "reset", "forget"}
    <3>1. CASE Faults(p, "fault") \/ Faults(p, "access") \/ Deallocates(p) \/ Destroys(p)
      <4>1. PICK q, w : StartsFrameLock(p, q, w)
        BY <3>1 DEF Faults, Deallocates, Destroys
      <4> QED BY <1>0, <4>1 DEF StartsFrameLock, NotResident, Goto, TypeLocals
    <3>2. CASE FrameLockGets(p)
      <4>1. Locked(cur[p], why[p]) \in {"map", "kernel", "clear", "free"}
        BY <3>2 DEF FrameLockGets, Locked, Reasons
      <4> QED BY <1>0, <3>2, <4>1 DEF FrameLockGets, Goto, TypeLocals
    <3>3. CASE \/ Load(p) \/ UserReads(p) \/ UserWrites(p) \/ Exits(p) \/ Mmap(p)
           \/ Unmaps(p, "user") \/ AllocStarts(p) \/ Unmaps(p, "exit")
           \/ UnmapWrites(p) \/ Dies(p) \/ FrameLockRechecks(p)
      BY <1>0, <3>3 DEF Load, UserReads, UserWrites, Exits, Mmap, Unmaps, AfterTest, AllocStarts,
         UnmapWrites, Dies, FrameLockRechecks, NotResident, Goto, TypeLocals
    <3>4. CASE \/ Maps(p) \/ KernelAccesses(p) \/ AllocFails(p) \/ PageOutClears(p)
               \/ PageOutFails(p) \/ FileWrites(p)
      BY <1>0, <3>4 DEF Maps, Resident, Return, KernelAccesses, AllocFails, PageOutClears,
         Destination, PageOutFails, FileWrites, Goto, TypeLocals
    <3> QED BY <1>3, <3>1, <3>2, <3>3, <3>4
  <2> QED BY <1>2, <2>1, <2>2, <2>3, SlottedSame
<1>4. CASE Fills(p)
  <2>1. /\ pc[p] = "fill" /\ frame[cur[p]] = fr[p] /\ fr[p] \in Frames
        /\ UNCHANGED <<used, sector, frame, page, file>>
    BY <1>1, <1>4 DEF Fills, ResidenceOf, Holders, disk, spt
  <2>2. page[fr[p]] = cur[p] /\ cur[p] \in Pages
    BY <1>1, <2>1 DEF FramesAgree, Outside
  <2>3. IF sector[cur[p]] = NULL THEN pc'[p] \in {"user", "kernel"}
        ELSE pc'[p] = "reset" /\ UNCHANGED <<lock, fr>>
    BY <1>0, <1>4 DEF Fills, Resident, Return, Goto, TypeLocals
  <2>4. ASSUME NEW q \in Pages, sector[q] # NULL, frame[q] # NULL, lock[frame[q]] = p
        PROVE  WorkedOn(frame[q], {"take", "fill", "reset", "forget"})'
    <3>1. q = cur[p]
      BY <1>2, <2>2, <2>4
    <3>2. pc'[p] = "reset" /\ lock' = lock /\ UNCHANGED frame
      BY <2>1, <2>3, <2>4, <3>1
    <3> QED BY <2>4, <3>2 DEF WorkedOn
  <2> QED BY <2>1, <2>2, <2>3, <2>4, SlottedSame
<1>11. CASE SetsUpStack(p)
  <2>1. /\ pc[p] = "fill" /\ frame[cur[p]] = fr[p] /\ fr[p] \in Frames
        /\ UNCHANGED <<used, sector, frame, page, file>>
        /\ sector[cur[p]] = NULL /\ cur[p] \in Pages
    BY <1>1, <1>11 DEF SetsUpStack, ResidenceOf, Holders, Outside, Backed, spt
  <2>2. page[fr[p]] = cur[p]
    BY <1>1, <2>1 DEF FramesAgree
  <2>3. pc'[p] \in {"user", "exit"}
    BY <1>0, <1>11 DEF SetsUpStack, Return, Goto, TypeLocals
  <2>4. \A q \in Pages : ~(sector[q] # NULL /\ frame[q] # NULL /\ lock[frame[q]] = p)
    BY <1>2, <2>1, <2>2
  <2> QED BY <2>1, <2>3, <2>4, SlottedSame
<1>5. CASE Scans(p) \/ Clocks(p)
  <2>1. Searches(p)
    BY <1>5, Searched
  <2>2. UNCHANGED <<used, sector, pages, file, cur>> /\ pc[p] \in {"scan", "clock"}
    BY <2>1 DEF Searches, disk
  <2>3. CASE Passes(p)
    <3>1. UNCHANGED <<frame, page>> /\ pc'[p] \in {"scan", "clock", "failed"}
      BY <1>0, <2>3 DEF Passes, Goto, TypeLocals
    <3> QED BY <1>2, <2>2, <3>1, SlottedSame
  <2>4. ASSUME NEW f \in Frames, Evicts(p, f) PROVE Slotted'
    <3>1. UNCHANGED <<frame, page>> /\ pc'[p] = "clear"
      BY <1>0, <2>4 DEF Evicts, Goto, TypeLocals
    <3> QED BY <1>2, <2>2, <3>1, SlottedSame
  <2>5. ASSUME NEW f \in Frames, lock[f] = NULL, page[f] = NULL, TakeFrame(p, f)
        PROVE  Slotted'
    <3>1. /\ pc'[p] = "fill" /\ fr'[p] = f /\ lock'[f] = p /\ cur[p] \in Pages
          /\ frame[cur[p]] = NULL
          /\ \A q \in Pages : frame'[q] = IF q = cur[p] THEN f ELSE frame[q]
          /\ \A g \in Frames : page'[g] = IF g = f THEN cur[p] ELSE page[g]
      BY <1>0, <1>1, <2>2, <2>5
         DEF TakeFrame, Goto, TypeLocals, TypePages, TypeFrames, Outside, ResidenceOf
    <3>2. ASSUME NEW q \in Pages, sector[q] # NULL PROVE SlottedAt(q)'
      <4>1. SlottedAt(q) /\ q \in pages /\ (Forgetting(q)' \/ sector[q] \in used)
        BY <1>1, <1>10, <2>2, <3>2 DEF SlottedAt
      <4>2. CASE q = cur[p]
        <5>1. ~file[q]
          BY <3>1, <3>2, <4>1, <4>2 DEF SlottedAt
        <5> QED BY <2>2, <3>1, <3>2, <4>1, <4>2, <5>1 DEF SlottedAt, WorkedOn
      <4>3. CASE q # cur[p]
        <5>1. frame'[q] = frame[q]
          BY <3>1, <4>3
        <5>2. frame[q] # NULL => lock[frame[q]] # p /\ frame[q] \in Frames
          BY <1>0, <1>2, <2>2, <3>2 DEF TypePages
        <5> QED BY <1>0, <2>2, <3>2, <4>1, <5>1, <5>2, WorkedOnKept DEF SlottedAt
      <4> QED BY <4>2, <4>3
    <3>3. \A q \in Pages : Alone(q)'
      BY <2>2, AloneSame
    <3>4. ASSUME NEW r \in Procs, pc'[r] \in {"swap", "reset", "forget"}
          PROVE  sector'[page'[fr'[r]]] # NULL
      <4>1. r # p /\ pc[r] \in {"swap", "reset", "forget"} /\ fr'[r] = fr[r]
        BY <1>0, <3>1, <3>4 DEF OthersKept
      <4>2. fr[r] \in Frames /\ lock[fr[r]] = r /\ sector[page[fr[r]]] # NULL
        BY <4>1, SlotPlaces
      <4> QED BY <2>2, <2>5, <3>1, <4>1, <4>2
    <3> QED BY <2>2, <3>2, <3>3, <3>4 DEF Slotted, SlottedAt, Alone
  <2> QED BY <2>1, <2>3, <2>4, <2>5 DEF Searches
<1>6. CASE SwapOutGetsSlot(p)
  <2> DEFINE V == page[fr[p]]
  <2>1. /\ pc[p] = "slot" /\ V \in Pages /\ frame[V] = fr[p] /\ fr[p] \in Frames
        /\ UNCHANGED <<lock, fr, page, frame, pages, file>> /\ lock[fr[p]] = p
    BY <1>0, <1>1, <1>6 DEF SwapOutGetsSlot, ResidenceOf, PageOut, TypeFrames, Holders, local,
       frames, Holding
  <2>2. PICK s \in (0..Slots - 1) \ used :
          used' = used \cup {s} /\ sector' = [sector EXCEPT ![V] = s]
    BY <1>6 DEF SwapOutGetsSlot, Victim
  <2>3. /\ \A q \in Pages : sector'[q] = IF q = V THEN s ELSE sector[q]
        /\ pc'[p] = "swap" /\ s # NULL
    BY <1>0, <1>6, <2>1, <2>2 DEF SwapOutGetsSlot, Goto, TypePages, TypeLocals
  <2>4. ASSUME NEW q \in Pages PROVE SlottedAt(q)'
    <3>1. CASE q = V
      <4>1. WorkedOn(frame[q], {"swap"})' /\ WorkedOn(frame[q], {"swap", "take", "fill", "reset",
         "forget"})'
        BY <2>1, <2>3, <3>1 DEF WorkedOn
      <4>2. q \in pages
        BY <1>1, <2>1, <3>1 DEF FramesAgree
      <4> QED BY <2>1, <2>2, <2>3, <3>1, <4>1, <4>2 DEF SlottedAt
    <3>2. CASE q # V
      <4>1. SUFFICES ASSUME sector[q] # NULL PROVE SlottedAt(q)'
        BY <2>3, <3>2 DEF SlottedAt
      <4>2. frame[q] # NULL => lock[frame[q]] # p /\ frame[q] \in Frames
        BY <1>0, <1>2, <2>1, <4>1 DEF TypePages
      <4>3. Forgetting(q)' \/ sector[q] \in used
        BY <1>1, <1>10, <2>1, <4>1 DEF SlottedAt
      <4> QED BY <1>0, <1>1, <2>1, <2>2, <2>3, <3>2, <4>1, <4>2, <4>3, WorkedOnKept DEF SlottedAt
    <3> QED BY <3>1, <3>2
  <2>5. \A q \in Pages : Alone(q)'
    <3>1. \A q \in Pages : sector[q] = s => Forgetting(q)'
      BY <1>1, <1>10, <2>1, <2>2, <2>3 DEF SlottedAt
    <3>2. \A q \in Pages : Forgetting(q) => Forgetting(q)'
      BY <1>10, <2>1
    <3> QED BY <1>1, <2>3, <3>1, <3>2 DEF Alone
  <2>6. ASSUME NEW r \in Procs, pc'[r] \in {"swap", "reset", "forget"}
        PROVE  sector'[page'[fr'[r]]] # NULL
    <3>1. CASE r = p
      BY <2>1, <2>3, <3>1
    <3>2. CASE r # p
      BY <1>0, <2>1, <2>3, <2>6, <3>2, SlotPlaces DEF OthersKept
    <3> QED BY <3>1, <3>2
  <2> QED BY <2>4, <2>5, <2>6 DEF Slotted, SlottedAt, Alone
<1>7. CASE SwapOutWrites(p)
  <2> DEFINE V == page[fr[p]]
  <2>1. /\ pc[p] = "swap" /\ V \in Pages /\ frame[V] = fr[p] /\ fr[p] \in Frames
        /\ UNCHANGED <<lock, fr, page, frame, pages, sector, used>> /\ lock[fr[p]] = p
    BY <1>0, <1>1, <1>7 DEF SwapOutWrites, ResidenceOf, PageOut, TypeFrames, Holders, local,
       frames, Holding
  <2>2. /\ \A q \in Pages : file'[q] = IF q = V THEN FALSE ELSE file[q]
    BY <1>0, <1>7, <2>1 DEF SwapOutWrites, Victim, TypePages
  <2>3. pc'[p] = "take"
    BY <1>0, <1>7 DEF SwapOutWrites, Goto, TypeLocals
  <2>4. ASSUME NEW q \in Pages, sector[q] # NULL PROVE SlottedAt(q)'
    <3>1. CASE q = V
      <4>1. WorkedOn(frame[q], {"swap", "take", "fill", "reset", "forget"})'
        BY <2>1, <2>3, <3>1 DEF WorkedOn
      <4>2. Forgetting(q)' \/ sector[q] \in used
        BY <1>1, <1>10, <2>1, <2>4 DEF SlottedAt
      <4> QED BY <1>1, <2>1, <2>2, <2>4, <3>1, <4>1, <4>2 DEF SlottedAt
    <3>2. CASE q # V
      <4>1. frame[q] # NULL => lock[frame[q]] # p /\ frame[q] \in Frames
        BY <1>0, <1>2, <2>4, <3>2 DEF TypePages
      <4>2. Forgetting(q)' \/ sector[q] \in used
        BY <1>1, <1>10, <2>1, <2>4 DEF SlottedAt
      <4> QED BY <1>0, <1>1, <2>1, <2>2, <2>4, <3>2, <4>1, <4>2, WorkedOnKept DEF SlottedAt
    <3> QED BY <3>1, <3>2
  <2>5. \A q \in Pages : Alone(q)'
    BY <2>1, AloneSame
  <2>6. ASSUME NEW r \in Procs, pc'[r] \in {"swap", "reset", "forget"}
        PROVE  sector'[page'[fr'[r]]] # NULL
    BY <1>0, <2>1, <2>3, <2>6, SlotPlaces DEF OthersKept
  <2> QED BY <2>1, <2>4, <2>5, <2>6 DEF Slotted, SlottedAt, Alone
<1>12. CASE SwapInResets(p)
  <2>1. /\ pc[p] = "reset" /\ cur[p] \in Pages /\ fr[p] \in Frames /\ lock[fr[p]] = p
        /\ UNCHANGED <<cur, fr, page, lock, pages, frame, file, sector>>
        /\ used' = used \ {sector[cur[p]]}
    BY <1>12 DEF SwapInResets, Holders, Outside, Holding, local, frames, spt
  <2>2. frame[cur[p]] = fr[p] /\ page[fr[p]] = cur[p] /\ pc'[p] = "forget"
    BY <1>0, <1>1, <1>12, <2>1 DEF ResidenceOf, FramesAgree, SwapInResets, Goto, TypeLocals
  <2>3. Forgetting(cur[p])' /\ ~Forgetting(cur[p])
    BY <2>1, <2>2, Constants DEF Forgetting, WorkedOn
  <2>4. ASSUME NEW q \in Pages, sector[q] # NULL PROVE SlottedAt(q)'
    <3>1. Forgetting(q)' \/ sector[q] \in used'
      <4>1. CASE Forgetting(q)
        BY <1>10, <2>1, <4>1
      <4>2. CASE q = cur[p]
        BY <2>1, <2>3, <4>2 DEF Forgetting
      <4>3. CASE ~Forgetting(q) /\ q # cur[p]
        <5>1. sector[q] # sector[cur[p]]
          BY <1>1, <2>1, <2>3, <2>4, <4>3 DEF Alone
        <5> QED BY <1>1, <2>1, <2>4, <4>3, <5>1 DEF SlottedAt
      <4> QED BY <4>1, <4>2, <4>3
    <3>2. CASE q = cur[p]
      <4>1. WorkedOn(frame[q], {"swap", "take", "fill", "reset", "forget"})' /\ ~file[q]
        BY <1>1, <2>1, <2>2, <2>4, <3>2 DEF SlottedAt, WorkedOn
      <4> QED BY <1>1, <2>1, <2>4, <3>1, <4>1 DEF SlottedAt
    <3>3. CASE q # cur[p]
      <4>1. frame[q] # NULL => lock[frame[q]] # p /\ frame[q] \in Frames
        BY <1>0, <1>2, <2>2, <2>4, <3>3 DEF TypePages
      <4> QED BY <1>0, <1>1, <2>1, <2>4, <3>1, <4>1, WorkedOnKept DEF SlottedAt
    <3> QED BY <3>2, <3>3
  <2>5. \A q \in Pages : Alone(q)'
    BY <2>1, AloneSame
  <2>6. ASSUME NEW r \in Procs, pc'[r] \in {"swap", "reset", "forget"}
        PROVE  sector'[page'[fr'[r]]] # NULL
    BY <1>0, <2>1, <2>6, SlotPlaces DEF OthersKept
  <2> QED BY <2>1, <2>4, <2>5, <2>6 DEF Slotted, SlottedAt, Alone
<1>8. CASE SwapInForgets(p) \/ FreesFrame(p) \/ FreesNoFrame(p)
  <2>1. /\ pc[p] \in {"forget", "free", "gone"} /\ cur[p] \in Pages
        /\ sector' = [sector EXCEPT ![cur[p]] = NULL]
        /\ UNCHANGED file
        /\ used' = used
        /\ pages' = IF pc[p] = "forget" THEN pages ELSE pages \ {cur[p]}
        /\ frame' = IF pc[p] = "forget" THEN frame ELSE [frame EXCEPT ![cur[p]] = NULL]
        /\ page' = IF pc[p] = "free" THEN [page EXCEPT ![fr[p]] = NULL] ELSE page
    BY <1>8 DEF SwapInForgets, SectorAfterSwapIn, FreesFrame, FreesNoFrame,
       FreesPage, Outside, disk, frames
  <2>2. pc'[p] \notin {"swap", "reset", "forget"}
    BY <1>0, <1>8 DEF SwapInForgets, Resident, FreesFrame, FreesNoFrame, FreesPage, Return, Goto,
       TypeLocals
  <2>3. /\ \A q \in Pages : sector'[q] = IF q = cur[p] THEN NULL ELSE sector[q]
        /\ \A q \in Pages \ {cur[p]} : frame'[q] = frame[q] /\ (q \in pages' <=> q \in pages)
    BY <1>0, <2>1 DEF TypePages
  <2>4. ASSUME NEW q \in Pages, sector'[q] # NULL PROVE SlottedAt(q)' /\ Alone(q)'
    <3>1. q # cur[p] /\ sector'[q] = sector[q] /\ sector[q] # NULL
          /\ frame'[q] = frame[q]
      BY <2>3, <2>4
    <3>2. (Forgetting(q)' \/ sector[q] \in used') /\ q \in pages'
      BY <1>1, <1>10, <2>1, <2>3, <3>1 DEF SlottedAt
    <3>3. frame[q] # NULL => lock[frame[q]] # p /\ frame[q] \in Frames
      <4>1. frame[q] # NULL /\ lock[frame[q]] = p => pc[p] = "forget" /\ page[fr[p]] = q
        BY <1>2, <2>1, <3>1
      <4>2. pc[p] = "forget" => page[fr[p]] = cur[p]
        BY <1>1 DEF ResidenceOf, FramesAgree, Holders, Outside
      <4> QED BY <1>0, <3>1, <4>1, <4>2 DEF TypePages
    <3>4. SlottedAt(q)'
      BY <1>0, <1>1, <2>1, <3>1, <3>2, <3>3, WorkedOnKept DEF SlottedAt
    <3>5. Alone(q)'
      <4>1. ASSUME NEW r \in Pages \ {q}, sector'[r] = sector'[q]
            PROVE  Forgetting(q)' \/ Forgetting(r)'
        BY <1>1, <1>10, <2>3, <3>1, <4>1 DEF Alone
      <4> QED BY <4>1 DEF Alone
    <3> QED BY <3>4, <3>5
  <2>5. ASSUME NEW r \in Procs, pc'[r] \in {"swap", "reset", "forget"}
        PROVE  sector'[page'[fr'[r]]] # NULL
    <3>1. r # p /\ pc[r] \in {"swap", "reset", "forget"} /\ fr'[r] = fr[r]
      BY <1>0, <2>2, <2>5 DEF OthersKept
    <3>2. /\ fr[r] \in Frames /\ page[fr[r]] \in Pages /\ frame[page[fr[r]]] = fr[r]
          /\ sector[page[fr[r]]] # NULL
      BY <3>1, SlotPlaces
    <3>3. pc[p] \in {"forget", "free"} => fr[r] # fr[p] /\ fr[p] \in Frames
      BY <3>1, Distinct DEF Holders
    <3>4. page[fr[r]] # cur[p]
      BY <1>1, <2>1, <3>2, <3>3 DEF ResidenceOf
    <3>5. page'[fr[r]] = page[fr[r]]
      BY <1>0, <2>1, <3>2, <3>3 DEF TypeFrames
    <3> QED BY <2>3, <3>1, <3>2, <3>4, <3>5
  <2> QED BY <2>4, <2>5 DEF Slotted, SlottedAt, Alone
<1>9. CASE PageOutReturns(p)
  <2> DEFINE V == page[fr[p]]
  <2>1. /\ pc[p] = "take" /\ fr[p] \in Frames /\ cur[p] \in Pages /\ lock[fr[p]] = p
        /\ UNCHANGED <<lock, fr, pages, file, sector, used>>
    BY <1>9 DEF PageOutReturns, local, Holders, Outside, Holding, disk
  <2>2. V \in Pages /\ V # NULL /\ frame[V] = fr[p]
        /\ IF why[p] = "unmap" THEN V = cur[p] ELSE frame[cur[p]] = NULL /\ V # cur[p]
    BY <1>0, <1>1, <2>1 DEF ResidenceOf, PageOut, TypeFrames
  <2>3. \A q \in Pages : frame'[q] = IF q = V THEN NULL
                                     ELSE IF q = cur[p] THEN fr[p] ELSE frame[q]
    BY <1>0, <1>9, <2>1, <2>2 DEF PageOutReturns, Victim, TypePages
  <2>4. \A g \in Frames \ {fr[p]} : page'[g] = page[g]
    BY <1>0, <1>9, <2>1 DEF PageOutReturns, TypeFrames
  <2>5. pc'[p] = IF why[p] = "unmap" THEN "free" ELSE "fill"
    BY <1>0, <1>9 DEF PageOutReturns, Goto, TypeLocals
  <2>6. ASSUME NEW q \in Pages, sector[q] # NULL PROVE SlottedAt(q)'
    <3>1. q \in pages /\ (Forgetting(q)' \/ sector[q] \in used)
      BY <1>1, <1>10, <2>1, <2>6 DEF SlottedAt
    <3>2. CASE q = V
      <4>1. ~file[q]
        BY <1>1, <2>1, <2>2, <2>6, <3>2 DEF SlottedAt, WorkedOn
      <4> QED BY <2>1, <2>3, <3>1, <3>2, <4>1 DEF SlottedAt
    <3>3. CASE q # V /\ q = cur[p]
      <4>1. ~file[q] /\ why[p] # "unmap"
        BY <1>1, <2>2, <2>6, <3>3 DEF SlottedAt
      <4>2. WorkedOn(fr[p], {"swap", "take", "fill", "reset", "forget"})'
        BY <2>1, <2>5, <4>1 DEF WorkedOn
      <4> QED BY <2>1, <2>3, <3>1, <3>3, <4>1, <4>2 DEF SlottedAt
    <3>4. CASE q # V /\ q # cur[p]
      <4>1. frame[q] # NULL => lock[frame[q]] # p /\ frame[q] \in Frames
        BY <1>0, <1>2, <2>6, <3>4 DEF TypePages
      <4>2. frame'[q] = frame[q] /\ SlottedAt(q)
        BY <1>1, <2>3, <3>4
      <4>3. frame[q] # NULL => WorkedOn(frame[q], {"swap", "take", "fill", "reset", "forget"})'
        BY <1>0, <2>6, <4>1, <4>2, WorkedOnKept DEF SlottedAt
      <4>4. file[q] => frame[q] # NULL /\ WorkedOn(frame[q], {"swap"})'
        BY <1>0, <2>6, <4>1, <4>2, WorkedOnKept DEF SlottedAt
      <4> QED BY <2>1, <2>6, <3>1, <4>2, <4>3, <4>4 DEF SlottedAt, WorkedOn
    <3> QED BY <3>2, <3>3, <3>4
  <2>7. \A q \in Pages : Alone(q)'
    BY <2>1, AloneSame
  <2>8. ASSUME NEW r \in Procs, pc'[r] \in {"swap", "reset", "forget"}
        PROVE  sector'[page'[fr'[r]]] # NULL
    <3>1. r # p /\ pc[r] \in {"swap", "reset", "forget"} /\ fr'[r] = fr[r]
      BY <1>0, <2>5, <2>8 DEF OthersKept
    <3>2. fr[r] \in Frames /\ sector[page[fr[r]]] # NULL /\ fr[r] # fr[p]
      BY <2>1, <3>1, SlotPlaces, Distinct DEF Holders
    <3> QED BY <2>1, <2>4, <3>1, <3>2
  <2> QED BY <2>1, <2>6, <2>7, <2>8 DEF Slotted, SlottedAt, Alone
<1> QED BY <1>3, <1>4, <1>5, <1>6, <1>7, <1>8, <1>9, <1>11, <1>12 DEF Step, Locking, Kernel, User

-----------------------------------------------------------------------------
(* The uses of pages.                                                      *)

\* A page keeps its use, and what backs it but when it is written to swap.
UsesKept(p) ==
    /\ \A q \in pages :
          /\ kind'[q] = kind[q]
          /\ IF pc[p] = "swap" /\ q = page[fr[p]]
             THEN ~file'[q] /\ ~private'[q]
             ELSE file'[q] = file[q] /\ private'[q] = private[q]
    /\ \A q \in pages' \ pages : /\ file'[q] = (kind'[q] # "stack")
                                 /\ private'[q] = (kind'[q] = "data")

\* Only swap_out of a private page, or of one of the stack, takes its file
\* away.
LEMMA UsesStep ==
    ASSUME TypeOK, Locals, Reasons, Residence, Slotted, Backed, NEW p \in Procs, Step(p)
    PROVE  UsesKept(p)
<1> USE Where
<1>0. TypePages /\ PagesKept(p)
  BY TypeParts, PagesStep
<1>1. CASE Load(p) \/ Mmap(p) \/ Faults(p, "fault") \/ Faults(p, "access")
  <2>1. pc[p] # "swap"
    BY <1>1 DEF Load, Mmap, Faults
  <2> QED BY <1>1, <2>1, LoadGrows, MmapGrows, FaultGrows DEF Grown, UsesKept
<1>2. CASE SwapOutWrites(p)
  <2>1. pc[p] = "swap" /\ UNCHANGED <<pages, kind>> /\ pages \subseteq Pages
    BY <1>0, <1>2 DEF SwapOutWrites, TypePages
  <2>2. \A q \in pages : file'[q] = IF q = page[fr[p]] THEN FALSE ELSE file[q]
    BY <1>0, <1>2, <2>1 DEF SwapOutWrites, Victim, TypePages
  <2>3. \A q \in pages : private'[q] = IF q = page[fr[p]] THEN FALSE ELSE private[q]
    BY <1>0, <1>2, <2>1 DEF SwapOutWrites, Victim, TypePages
  <2> QED BY <2>1, <2>2, <2>3 DEF UsesKept
<1>3. CASE Scans(p) \/ Clocks(p)
  <2>1. UNCHANGED <<kind, file, private, pages>> /\ pc[p] # "swap"
    BY <1>3, Searched DEF Searches
  <2> QED BY <2>1 DEF UsesKept
<1>4. CASE \/ UserReads(p) \/ UserWrites(p) \/ Exits(p) \/ Unmaps(p, "user")
           \/ FrameLockGets(p) \/ AllocStarts(p) \/ FrameLockRechecks(p) \/ Maps(p)
           \/ AllocFails(p) \/ PageOutClears(p) \/ PageOutFails(p) \/ FileWrites(p) \/ Fills(p)
           \/ SetsUpStack(p) \/ SwapInResets(p)
           \/ KernelAccesses(p) \/ Unmaps(p, "exit") \/ UnmapWrites(p) \/ Deallocates(p)
           \/ Destroys(p) \/ Dies(p) \/ SwapOutGetsSlot(p)
           \/ PageOutReturns(p) \/ SwapInForgets(p) \/ FreesFrame(p) \/ FreesNoFrame(p)
  <2>1. UNCHANGED <<kind, file, private>> /\ pc[p] # "swap" /\ pages' \subseteq pages
    BY <1>4 DEF UserReads, UserWrites, Exits, Unmaps, FrameLockGets, AllocStarts,
       FrameLockRechecks, Maps, AllocFails, PageOutClears, PageOutFails, FileWrites, Fills,
       SetsUpStack, SwapInResets, KernelAccesses, UnmapWrites, Deallocates, Destroys, Dies,
          SwapOutGetsSlot,
       PageOutReturns, SwapInForgets, FreesFrame, FreesNoFrame, FreesPage, spt
  <2> QED BY <2>1 DEF UsesKept
<1> QED BY <1>1, <1>2, <1>3, <1>4 DEF Step, Locking, Kernel, User

BackedOf(p) ==
    /\ pc[p] = "new" => PagesOf(p) \cap pages = {}
    /\ pc[p] \notin Outside =>
          /\ why[p] = "load" => kind[cur[p]] = "stack" /\ sector[cur[p]] = NULL
          /\ why[p] = "unmap" \/ pc[p] \in {"writeback", "dealloc"} => kind[cur[p]] = "map"
          /\ why[p] = "exit" => kind[cur[p]] # "map"
    /\ pc[p] \in {"slot", "swap"} => kind[page[fr[p]]] # "map"
    /\ pc[p] = "write" => file[page[fr[p]]]

\* A page gets a slot only from swap_out of the frame it is in.
LEMMA SectorStep ==
    ASSUME TypeOK, Locals, Reasons, Residence, Slotted, Backed, NEW p \in Procs, Step(p),
           NEW q \in Pages, sector[q] = NULL, ~(pc[p] = "slot" /\ q = page[fr[p]])
    PROVE  sector'[q] = NULL
<1>0. TypePages
  BY TypeParts
<1>1. CASE Load(p) \/ Mmap(p) \/ Faults(p, "fault") \/ Faults(p, "access")
  BY <1>1, LoadGrows, MmapGrows, FaultGrows DEF Grown
<1>2. CASE SwapOutGetsSlot(p)
  BY <1>0, <1>2 DEF SwapOutGetsSlot, Victim, TypePages
<1>3. CASE SwapInForgets(p) \/ FreesFrame(p) \/ FreesNoFrame(p)
  BY <1>0, <1>3 DEF SwapInForgets, SectorAfterSwapIn, FreesFrame, FreesNoFrame, FreesPage, TypePages
<1>4. CASE Scans(p) \/ Clocks(p)
  BY <1>4, Searched DEF Searches
<1>5. CASE \/ UserReads(p) \/ UserWrites(p) \/ Exits(p) \/ Unmaps(p, "user")
           \/ FrameLockGets(p) \/ AllocStarts(p) \/ FrameLockRechecks(p) \/ Maps(p)
           \/ AllocFails(p) \/ PageOutClears(p) \/ PageOutFails(p) \/ FileWrites(p) \/ Fills(p)
           \/ SetsUpStack(p) \/ SwapInResets(p) \/ KernelAccesses(p) \/ Unmaps(p, "exit")
           \/ UnmapWrites(p) \/ Deallocates(p) \/ Destroys(p) \/ Dies(p) \/ SwapOutWrites(p)
           \/ PageOutReturns(p)
  <2>1. sector' = sector
    BY <1>5 DEF UserReads, UserWrites, Exits, Unmaps, FrameLockGets, AllocStarts,
       FrameLockRechecks, Maps, AllocFails, PageOutClears, PageOutFails, FileWrites, Fills,
       SetsUpStack, SwapInResets, KernelAccesses, UnmapWrites, Deallocates, Destroys, Dies,
       SwapOutWrites, PageOutReturns, spt
  <2> QED BY <2>1
<1> QED BY <1>1, <1>2, <1>3, <1>4, <1>5 DEF Step, Locking, Kernel, User

\* The stack page that load brings in is in no frame that another process
\* has locked, nor in one that is being emptied.
LEMMA Loading ==
    ASSUME TypeOK, Locals, Reasons, Holding, Residence, NEW r \in Procs, why[r] = "load",
           NEW p \in Procs, pc[p] = "slot"
    PROVE  cur[r] # page[fr[p]]
<1>1. pc[r] \in {"alloc", "scan", "clock", "failed", "fill", "reset", "forget"} \cup PageOut
  BY DEF Reasons, Outside, PageOut, Brings, TypeOK, PCs
<1>2. \/ frame[cur[r]] = NULL
      \/ pc[r] \in {"fill", "reset", "forget"} /\ frame[cur[r]] = fr[r]
  BY <1>1 DEF Residence
<1>3. frame[page[fr[p]]] = fr[p] /\ fr[p] \in Frames /\ lock[fr[p]] = p
  BY Where DEF Residence, PageOut, Holders, Holding
<1>4. pc[r] \in {"fill", "reset", "forget"} => lock[fr[r]] = r
  BY DEF Holding, Holders
<1> QED BY <1>2, <1>3, <1>4, Constants

\* A step keeps what backs a page: the file of a mapping is never given up for
\* swap, as page_out writes the page to it.
LEMMA BackedStep ==
    ASSUME TypeOK, Locals, Reasons, Holding, Residence, Slotted, Backed, NEW p \in Procs, Step(p)
    PROVE  Backed'
<1> USE Where, Constants
<1>0. /\ TypeLocals /\ TypeLocals' /\ TypeFrames /\ TypeFrames' /\ TypePages /\ TypePages'
      /\ OthersKept(p) /\ LocksKept(p) /\ PagesKept(p) /\ FramesKept(p) /\ UsesKept(p)
  BY TypeParts, TypeLocalsStep, TypeFramesStep, TypePagesStep, OthersStep, LocksStep, PagesStep,
     FramesStep, UsesStep
<1>1. /\ \A r \in Procs : BackedOf(r) /\ ResidenceOf(r)
      /\ FramesAgree
  BY ResidenceParts DEF Backed, BackedOf
<1>2. \A q \in pages' : /\ kind'[q] = "stack" => ~file'[q]
                        /\ kind'[q] = "map" => file'[q] /\ ~private'[q]
  <2>1. ASSUME NEW q \in pages', q \notin pages
        PROVE  /\ kind'[q] = "stack" => ~file'[q]
               /\ kind'[q] = "map" => file'[q] /\ ~private'[q]
    BY <1>0, <2>1 DEF UsesKept
  <2>2. ASSUME NEW q \in pages', q \in pages
        PROVE  /\ kind'[q] = "stack" => ~file'[q]
               /\ kind'[q] = "map" => file'[q] /\ ~private'[q]
    BY <1>0, <1>1, <2>2 DEF UsesKept, Backed, BackedOf
  <2> QED BY <2>1, <2>2
<1>3. ASSUME NEW r \in Procs \ {p} PROVE BackedOf(r)'
  <2>1. pc[r] \notin Outside => cur[r] \in pages
    BY DEF Locals
  <2>2. pc[r] \in {"slot", "swap", "write"} =>
          /\ fr[r] \in Frames /\ lock[fr[r]] = r /\ page'[fr[r]] = page[fr[r]]
          /\ page[fr[r]] \in pages /\ frame[page[fr[r]]] = fr[r]
    BY <1>0, <1>1 DEF Holders, Holding, FramesKept, ResidenceOf, FramesAgree, PageOut
  <2>3. pc[r] = "write" /\ pc[p] = "swap" => page[fr[r]] # page[fr[p]]
    <3>1. pc[p] = "swap" => frame[page[fr[p]]] = fr[p]
      BY <1>1 DEF ResidenceOf, PageOut
    <3> QED BY <2>2, <3>1, Distinct DEF Holders
  <2>4. pc[r] = "new" => PagesOf(r) \cap pages' = {}
    BY <1>0, <1>1 DEF BackedOf, PagesKept, PagesOf
  <2>5. pc[r] \notin Outside /\ why[r] = "load" => sector'[cur[r]] = NULL
    BY <1>0, <1>1, <2>1, SectorStep, Loading DEF BackedOf, TypePages
  <2> QED BY <1>0, <1>1, <2>1, <2>2, <2>3, <2>4, <2>5 DEF BackedOf, OthersKept, UsesKept
<1>4. BackedOf(p)'
  <2>0. BackedOf(p) /\ (pc[p] \notin Outside => cur[p] \in pages)
    BY <1>1 DEF Locals
  <2>14. pc[p] \notin Outside /\ why[p] = "load" => sector'[cur[p]] = NULL
    BY <1>0, <2>0, SectorStep, Loading DEF BackedOf, TypePages
  <2>1. CASE Load(p)
    <3>1. PICK q \in PagesOf(p) \cap pages' : cur' = [cur EXCEPT ![p] = q] /\ kind'[q] = "stack"
      BY <2>1, LoadGrows
    <3>2. pc'[p] = "alloc" /\ cur'[p] = q /\ why'[p] = "load"
      BY <1>0, <2>1, <3>1 DEF Load, Goto, TypeLocals
    <3>3. q \in Pages \ pages /\ sector' = sector
      <4>1. PagesOf(p) \cap pages = {} /\ PagesOf(p) \subseteq Pages
        BY <1>1, <2>1 DEF BackedOf, Load, PagesOf
      <4> QED BY <2>1, <3>1, <4>1, LoadGrows DEF Grown
    <3>4. sector[q] = NULL
      BY <3>3 DEF Slotted
    <3> QED BY <3>1, <3>2, <3>3, <3>4 DEF BackedOf
  <2>2. CASE \/ UserReads(p) \/ UserWrites(p) \/ Exits(p) \/ Mmap(p) \/ Dies(p)
             \/ KernelAccesses(p) \/ AllocFails(p) \/ SetsUpStack(p)
             \/ FreesFrame(p) \/ FreesNoFrame(p)
    <3>1. \/ pc'[p] \in {"user", "exit", "dead"}
          \/ UNCHANGED <<pc, cur, why, fr>> /\ pc[p] \in {"kernel", "failed"} /\ pages' = pages
      BY <1>0, <2>2 DEF UserReads, UserWrites, Exits, Mmap, Dies, KernelAccesses, AllocFails,
         SetsUpStack, FreesFrame, FreesNoFrame, FreesPage, Return, Goto, local, spt, TypeLocals
    <3>2. UNCHANGED <<pc, cur, why, fr>> /\ pc[p] \in {"kernel",
       "failed"} => kind'[cur[p]] = kind[cur[p]]
      BY <1>0, <2>0 DEF UsesKept, Outside
    <3> QED BY <2>0, <2>14, <3>1, <3>2 DEF BackedOf, Outside
  <2>3. ASSUME NEW w \in {"fault", "access"}, Faults(p, w) PROVE BackedOf(p)'
    <3>1. PICK q : StartsFrameLock(p, q, w)
      BY <2>3 DEF Faults
    <3>2. pc'[p] \in {"lock", "alloc"} /\ why'[p] \in {"fault", "access"}
      BY <1>0, <3>1 DEF StartsFrameLock, NotResident, Goto, TypeLocals
    <3> QED BY <3>2 DEF BackedOf
  <2>4. CASE Deallocates(p)
    <3>1. pc'[p] \in {"lock", "gone"} /\ why'[p] = "unmap" /\ cur'[p] = cur[p] /\ kind' = kind
          /\ kind[cur[p]] = "map"
      BY <1>0, <2>0, <2>4 DEF Deallocates, StartsFrameLock, NotResident, Goto, TypeLocals, spt,
         BackedOf, Outside
    <3> QED BY <3>1 DEF BackedOf
  <2>5. CASE Destroys(p)
    <3>1. PICK q \in PagesOf(p) \cap pages : StartsFrameLock(p, q, "exit")
      BY <2>5 DEF Destroys
    <3>2. pc'[p] \in {"lock", "gone"} /\ why'[p] = "exit" /\ cur'[p] = q /\ kind' = kind
          /\ kind[q] # "map"
      BY <1>0, <2>5, <3>1 DEF Destroys, StartsFrameLock, NotResident, Goto, TypeLocals, spt
    <3> QED BY <3>2 DEF BackedOf
  <2>6. CASE Unmaps(p, "user") \/ Unmaps(p, "exit")
    <3>1. PICK q \in PagesOf(p) \cap pages :
             kind[q] = "map" /\ cur' = [cur EXCEPT ![p] = q] /\ Goto(p, AfterTest(q))
      BY <2>6 DEF Unmaps
    <3>2. pc'[p] \in {"writeback", "dealloc"} /\ cur'[p] = q /\ kind' = kind /\ why'[p] = "none"
      BY <1>0, <2>6, <3>1 DEF Unmaps, AfterTest, Goto, TypeLocals, spt, Reasons, Outside
    <3> QED BY <3>1, <3>2 DEF BackedOf
  <2>7. CASE UnmapWrites(p)
    <3>1. pc'[p] \in {"writeback", "dealloc"} /\ UNCHANGED <<cur, kind, why>>
          /\ pc[p] = "writeback" /\ why[p] = "none"
      BY <1>0, <2>7 DEF UnmapWrites, Goto, local, spt, TypeLocals, Reasons
    <3> QED BY <2>0, <2>14, <3>1 DEF BackedOf, Outside
  <2>8. CASE FrameLockGets(p)
    <3>1. Locked(cur[p], why[p]) \in {"map", "kernel", "clear", "free"}
      BY <2>8 DEF FrameLockGets, Locked, Reasons
    <3>2. pc'[p] \in {"map", "kernel", "clear", "free", "recheck"} /\ UNCHANGED <<cur, kind, why>>
          /\ pc[p] = "lock"
      BY <1>0, <2>8, <3>1 DEF FrameLockGets, Goto, local, spt, TypeLocals
    <3> QED BY <2>0, <2>14, <3>2 DEF BackedOf, Outside
  <2>9. CASE FrameLockRechecks(p) \/ AllocStarts(p)
    <3>1. pc'[p] \in {"alloc", "gone", "scan"} /\ UNCHANGED <<cur, kind, why>>
          /\ pc[p] \in {"recheck", "alloc"}
      BY <1>0, <2>9 DEF FrameLockRechecks, NotResident, AllocStarts, Goto, local, spt, TypeLocals
    <3> QED BY <2>0, <2>14, <3>1 DEF BackedOf, Outside
  <2>10. CASE Maps(p) \/ Fills(p) \/ SwapInResets(p) \/ SwapInForgets(p)
    <3>1. \/ \E b \in BOOLEAN : Resident(p, b)
          \/ \E place \in {"reset", "forget"} : Goto(p, place) /\ UNCHANGED <<cur, fr, i, why>>
      BY <2>10 DEF Maps, Fills, SwapInResets, SwapInForgets, local
    <3>2. \/ pc'[p] \in {"kernel", "reset", "forget"} /\ UNCHANGED <<cur, why>>
          \/ pc'[p] = "user"
      BY <1>0, <3>1 DEF Resident, Return, Goto, TypeLocals
    <3>3. kind' = kind /\ pc[p] \in {"map", "fill", "reset", "forget"}
      BY <2>10 DEF Maps, Fills, SwapInResets, SwapInForgets, local, spt
    <3> QED BY <2>0, <2>14, <3>2, <3>3 DEF BackedOf, Outside
  <2>11. CASE Scans(p) \/ Clocks(p)
    <3>1. UNCHANGED <<cur, kind, why>> /\ pc[p] \in {"scan", "clock"}
      BY <2>11, Searched DEF Searches
    <3>2. pc'[p] \in {"scan", "clock", "failed", "fill", "clear"}
      BY <1>0, <2>11, Searched DEF Searches, Passes, TakeFrame, Evicts, Goto, TypeLocals
    <3> QED BY <2>0, <2>14, <3>1, <3>2 DEF BackedOf, Outside
  <2>12. CASE PageOutClears(p)
    <3>1. /\ pc'[p] = Destination(page[fr[p]]) /\ UNCHANGED <<cur, kind, file, why, page, fr>>
          /\ pc[p] = "clear" /\ page[fr[p]] \in pages
      BY <1>0, <1>1, <2>12 DEF PageOutClears, Victim, Goto, local, spt, frames, TypeLocals,
         ResidenceOf, FramesAgree, PageOut, Holders
    <3>2. Destination(page[fr[p]]) = "slot" => kind[page[fr[p]]] # "map"
      BY <3>1 DEF Destination, Backed
    <3>3. Destination(page[fr[p]]) = "write" => file[page[fr[p]]]
      BY DEF Destination
    <3>4. Destination(page[fr[p]]) \in {"slot", "write", "take"}
      BY DEF Destination
    <3> QED BY <2>0, <2>14, <3>1, <3>2, <3>3, <3>4 DEF BackedOf, Outside
  <2>13. CASE \/ SwapOutGetsSlot(p) \/ PageOutFails(p) \/ SwapOutWrites(p)
              \/ FileWrites(p) \/ PageOutReturns(p)
    <3>1. /\ UNCHANGED <<cur, kind, why>>
          /\ pc[p] \in {"slot", "write", "swap", "take"}
          /\ \/ pc'[p] \in {"free", "failed", "take", "fill"}
             \/ pc'[p] = "swap" /\ pc[p] = "slot" /\ UNCHANGED <<page, fr>>
      BY <1>0, <2>13 DEF SwapOutGetsSlot, PageOutFails, SwapOutWrites, FileWrites,
         PageOutReturns, Goto, local, frames, spt, TypeLocals
    <3> QED BY <2>0, <2>14, <3>1 DEF BackedOf, Outside
  <2> QED BY <2>1, <2>2, <2>3, <2>4, <2>5, <2>6, <2>7, <2>8, <2>9, <2>10, <2>11, <2>12, <2>13
          DEF Step, Locking, Kernel, User
<1> QED BY <1>2, <1>3, <1>4 DEF Backed, BackedOf

-----------------------------------------------------------------------------
(* Page-table entries.                                                     *)

InTransit == {"slot", "swap", "write", "take", "fill", "reset", "forget"}

PresenceOf(p) ==
    /\ pc[p] \in PageOut \ {"clear"} => page[fr[p]] \notin present
    /\ pc[p] \in {"fill", "reset", "forget"} => cur[p] \notin present
    /\ why[p] = "fault" => cur[p] \notin present
    /\ pc[p] = "free" /\ why[p] = "unmap" => cur[p] \notin present

PresenceAt(q) ==
    /\ q \in present => IF q \in pages THEN frame[q] # NULL ELSE Owner[q] \in exiting
    /\ q \in pages \ spoiled /\ frame[q] # NULL /\ q \notin present /\ file[q] =>
          WorkedOn(frame[q], InTransit)

\* Presence, page by page and process by process.
LEMMA PresenceParts ==
    ASSUME TypeOK
    PROVE  Presence <=> (\A q \in Pages : PresenceAt(q)) /\ \A p \in Procs : PresenceOf(p)
<1>1. present \subseteq Pages /\ pages \subseteq Pages
  BY DEF TypeOK
<1> QED BY <1>1 DEF Presence, PresenceOf, PresenceAt, InTransit

\* The pages whose content was lost stay so.
LEMMA SpoiledStep ==
    ASSUME TypeOK, Locals, NEW p \in Procs, Step(p)
    PROVE  spoiled \subseteq spoiled'
<1>1. CASE Scans(p) \/ Clocks(p)
  BY <1>1, Searched DEF Searches
<1>2. CASE ~(Scans(p) \/ Clocks(p))
  BY <1>2 DEF Step, Locking, Kernel, User, Load, UserReads, UserWrites, Exits, Mmap, Faults,
   StartsFrameLock, Unmaps, FrameLockGets, AllocStarts, FrameLockRechecks, Maps,
   AllocFails, PageOutClears, SwapOutGetsSlot, PageOutFails, SwapOutWrites, FileWrites,
   PageOutReturns, Fills, SetsUpStack, SwapInResets, SwapInForgets, KernelAccesses, UnmapWrites,
      Deallocates, Destroys,
   FreesFrame, FreesNoFrame, Dies
<1> QED BY <1>1, <1>2

\* A step that changes no entry and no frame.
LEMMA PresenceSame ==
    ASSUME TypeOK, Locals, Reasons, Holding, Residence, Slotted, Backed, Presence,
           NEW p \in Procs, Step(p),
           UNCHANGED <<present, frame, page>>, pc[p] \notin {"free", "gone"}, PresenceOf(p)',
           \A q \in pages \ spoiled' : frame[q] # NULL /\ lock[frame[q]] = p /\ fr[p] = frame[q]
               /\ pc[p] \in InTransit /\ page[fr[p]] = q /\ file[q] =>
                   WorkedOn(frame[q], InTransit)'
    PROVE  Presence'
<1>0. /\ OthersKept(p) /\ LocksKept(p) /\ PagesKept(p) /\ UsesKept(p) /\ TypeFrames /\ TypePages
      /\ TypePages' /\ TypeDisk' /\ FramesAgree
      /\ spoiled \subseteq spoiled' /\ pages \subseteq pages'
  BY OthersStep, LocksStep, PagesStep, UsesStep, TypeParts, TypePagesStep, TypeDiskStep,
     SpoiledStep, ResidenceParts DEF PagesKept
<1>1. (\A q \in Pages : PresenceAt(q)) /\ \A r \in Procs : PresenceOf(r)
  BY PresenceParts
<1>2. ASSUME NEW q \in Pages PROVE PresenceAt(q)'
  <2>1. ASSUME q \in present PROVE IF q \in pages' THEN frame[q] # NULL ELSE Owner[q] \in exiting'
    <3>1. CASE q \in pages' /\ q \notin pages
      BY <1>0, <1>1, <2>1, <3>1 DEF PagesKept, PresenceAt, Reasons
    <3>2. CASE ~(q \in pages' /\ q \notin pages)
      BY <1>0, <1>1, <2>1, <3>2 DEF PresenceAt, OthersKept
    <3> QED BY <3>1, <3>2
  <2>2. ASSUME q \in pages' \ spoiled', frame[q] # NULL, q \notin present, file'[q]
        PROVE  WorkedOn(frame[q], InTransit)'
    <3>1. q \in pages \ spoiled /\ frame[q] \in Frames
      BY <1>0, <2>2 DEF FramesAgree, TypePages
    <3>2. file[q]
      BY <1>0, <2>2, <3>1 DEF UsesKept
    <3>3. WorkedOn(frame[q], InTransit)
      BY <1>1, <2>2, <3>1, <3>2 DEF PresenceAt
    <3>4. CASE lock[frame[q]] = p
      <4>1. fr[p] = frame[q] /\ pc[p] \in InTransit /\ page[fr[p]] = q
        BY <1>0, <2>2, <3>1, <3>3, <3>4 DEF Holding, WorkedOn, FramesAgree
      <4> QED BY <2>2, <3>1, <3>2, <3>4, <4>1
    <3>5. CASE lock[frame[q]] # p
      BY <1>0, <3>1, <3>3, <3>5, WorkedOnKept
    <3> QED BY <3>4, <3>5
  <2> QED BY <2>1, <2>2 DEF PresenceAt
<1>3. ASSUME NEW r \in Procs PROVE PresenceOf(r)'
  BY <1>0, <1>1 DEF OthersKept, PresenceOf
<1> QED BY <1>0, <1>2, <1>3 DEF Presence, PresenceOf, PresenceAt, InTransit, TypePages, TypeDisk

\* A step keeps page-table entries in agreement with frames: page_out clears
\* the entry before anything else, and it is set again with the page in.
LEMMA PresenceStep ==
    ASSUME TypeOK, Locals, Reasons, Holding, Residence, Slotted, Backed, Presence,
           NEW p \in Procs, Step(p)
    PROVE  Presence'
<1> USE Where, Constants
<1>0. /\ TypeLocals /\ TypeLocals' /\ TypeFrames /\ TypeFrames' /\ TypePages /\ TypePages'
      /\ TypeDisk /\ TypeDisk'
      /\ OthersKept(p) /\ LocksKept(p) /\ PagesKept(p) /\ FramesKept(p) /\ UsesKept(p)
      /\ spoiled \subseteq spoiled' /\ FramesAgree /\ ResidenceOf(p)
  BY TypeParts, TypeLocalsStep, TypeFramesStep, TypePagesStep, TypeDiskStep, OthersStep,
     LocksStep, PagesStep, FramesStep, UsesStep, SpoiledStep, ResidenceParts
<1>1. (\A q \in Pages : PresenceAt(q)) /\ \A r \in Procs : PresenceOf(r) /\ ResidenceOf(r)
  BY PresenceParts, ResidenceParts
<1>2. (\A q \in Pages : PresenceAt(q)') /\ (\A r \in Procs : PresenceOf(r)') => Presence'
  BY <1>0 DEF Presence, PresenceOf, PresenceAt, InTransit, TypePages, TypeDisk
<1>3. CASE \/ Load(p) \/ UserReads(p) \/ UserWrites(p) \/ Exits(p) \/ Mmap(p)
           \/ Unmaps(p, "user") \/ Faults(p, "fault") \/ Faults(p, "access")
           \/ Deallocates(p) \/ Destroys(p) \/ AllocStarts(p) \/ Unmaps(p, "exit")
           \/ UnmapWrites(p) \/ FrameLockGets(p) \/ FrameLockRechecks(p)
           \/ KernelAccesses(p) \/ AllocFails(p)
  <2>1. UNCHANGED <<present, page>> /\ pc[p] \notin InTransit \cup {"free", "gone"}
    BY <1>3 DEF Load, UserReads, UserWrites, Exits, Mmap, Unmaps, Faults, Deallocates, Destroys,
       StartsFrameLock, AllocStarts, UnmapWrites, FrameLockGets, FrameLockRechecks,
       KernelAccesses, AllocFails, frames, ptes, InTransit
  <2>2. frame' = frame
    <3>1. CASE Load(p) \/ Mmap(p) \/ Faults(p, "fault") \/ Faults(p, "access")
      BY <3>1, LoadGrows, MmapGrows, FaultGrows DEF Grown
    <3>2. CASE ~(Load(p) \/ Mmap(p) \/ Faults(p, "fault") \/ Faults(p, "access"))
      BY <1>3, <3>2 DEF UserReads, UserWrites, Exits, Unmaps, Deallocates, Destroys,
         AllocStarts, UnmapWrites, FrameLockGets, FrameLockRechecks, KernelAccesses, AllocFails,
         spt
    <3> QED BY <3>1, <3>2
  <2>3. PresenceOf(p)'
    <3>1. ASSUME NEW w \in {"fault", "access"}, Faults(p, w) PROVE PresenceOf(p)'
      <4>1. PICK q \in Pages : StartsFrameLock(p, q, w) /\ (w = "fault" => q \notin present)
        BY <3>1 DEF Faults, PagesOf
      <4>2. pc'[p] \in {"lock", "alloc"} /\ why'[p] = w /\ cur'[p] = q
        BY <1>0, <4>1 DEF StartsFrameLock, NotResident, Goto, TypeLocals
      <4> QED BY <2>1, <4>1, <4>2 DEF PresenceOf, PageOut
    <3>2. CASE Deallocates(p) \/ Destroys(p)
      <4>1. PICK q, w : StartsFrameLock(p, q, w) /\ w \in {"unmap", "exit"}
        BY <3>2 DEF Deallocates, Destroys
      <4>2. pc'[p] \in {"lock", "gone"} /\ why'[p] \in {"unmap", "exit"}
        BY <1>0, <4>1 DEF StartsFrameLock, NotResident, Goto, TypeLocals
      <4> QED BY <4>2 DEF PresenceOf, PageOut
    <3>3. CASE Load(p)
      <4>1. pc'[p] = "alloc" /\ why'[p] = "load"
        BY <1>0, <3>3 DEF Load, Goto, TypeLocals
      <4> QED BY <4>1 DEF PresenceOf, PageOut
    <3>4. CASE FrameLockGets(p)
      <4>1. /\ pc[p] = "lock" /\ UNCHANGED <<cur, why>>
            /\ pc'[p] = IF StillThere(p) THEN Locked(cur[p], why[p]) ELSE "recheck"
        BY <1>0, <3>4 DEF FrameLockGets, Goto, local, TypeLocals
      <4>2. why[p] = "unmap" => file[cur[p]] /\ ~private[cur[p]]
        BY <4>1 DEF Backed, Locals, Outside
      <4>3. /\ Locked(cur[p], why[p]) \in {"map", "kernel", "clear", "free"}
            /\ Locked(cur[p], why[p]) = "free" => why[p] # "unmap"
        BY <4>1, <4>2 DEF Locked, Reasons
      <4> QED BY <1>1, <2>1, <4>1, <4>3 DEF PresenceOf, PageOut
    <3>5. CASE \/ UserReads(p) \/ UserWrites(p) \/ Exits(p) \/ Mmap(p)
               \/ Unmaps(p, "user") \/ Unmaps(p, "exit") \/ UnmapWrites(p)
      <4>1. pc'[p] \in Outside \cup {"writeback", "dealloc"} /\ why'[p] = "none"
        BY <1>0, <3>5 DEF UserReads, UserWrites, Exits, Mmap, Unmaps, AfterTest, UnmapWrites,
           Goto, local, TypeLocals, Outside, Reasons
      <4> QED BY <4>1 DEF PresenceOf, PageOut, Outside
    <3>6. CASE FrameLockRechecks(p) \/ AllocStarts(p)
      <4>1. pc'[p] \in {"alloc", "gone", "scan"} /\ UNCHANGED <<cur, why>>
        BY <1>0, <3>6 DEF FrameLockRechecks, NotResident, AllocStarts, Goto, local, TypeLocals
      <4> QED BY <1>1, <2>1, <4>1 DEF PresenceOf, PageOut
    <3>7. CASE KernelAccesses(p) \/ AllocFails(p)
      <4>1. \/ UNCHANGED <<pc, cur, why, fr>>
            \/ pc'[p] \in {"user", "exit"} /\ why'[p] = "none"
        BY <1>0, <3>7 DEF KernelAccesses, AllocFails, Return, Goto, local, TypeLocals
      <4> QED BY <1>1, <2>1, <4>1 DEF PresenceOf, PageOut
    <3> QED BY <1>3, <3>1, <3>2, <3>3, <3>4, <3>5, <3>6, <3>7
  <2> QED BY <1>2, <2>1, <2>2, <2>3, PresenceSame
<1>11. CASE SetsUpStack(p)
  <2>1. /\ pc[p] = "fill" /\ UNCHANGED <<page, frame, present>>
        /\ pc'[p] \in {"user", "exit"} /\ why'[p] = "none"
    BY <1>0, <1>11 DEF SetsUpStack, Return, Goto, ptes, spt, TypeLocals
  <2>2. /\ frame[cur[p]] = fr[p] /\ fr[p] \in Frames /\ cur[p] \in pages /\ cur[p] \in Pages
        /\ ~file[cur[p]]
    BY <1>11, <2>1 DEF SetsUpStack, Residence, Holders, Outside, Locals, Backed
  <2>3. PresenceOf(p)'
    BY <2>1 DEF PresenceOf, PageOut
  <2>4. page[fr[p]] = cur[p]
    BY <1>0, <2>2 DEF FramesAgree
  <2> QED BY <2>1, <2>2, <2>3, <2>4, PresenceSame
<1>4. CASE Maps(p) \/ Fills(p) \/ SwapInResets(p) \/ SwapInForgets(p)
  <2> DEFINE Goes == /\ pc[p] \in {"fill", "reset"} /\ UNCHANGED <<cur, fr, why, lock, present>>
                     /\ \E place \in {"reset", "forget"} : Goto(p, place)
  <2>1. /\ pc[p] \in {"map", "fill", "reset", "forget"}
        /\ UNCHANGED <<page, frame, pages, exiting>>
        /\ (\E b \in BOOLEAN : Resident(p, b) /\ (b \/ pc[p] = "map")) \/ Goes
    BY <1>4 DEF Maps, Fills, SwapInResets, SwapInForgets, local, frames, spt, ptes
  <2>2. /\ frame[cur[p]] = fr[p] /\ fr[p] \in Frames /\ cur[p] \in pages /\ lock[fr[p]] = p
        /\ cur[p] \in Pages /\ page[fr[p]] = cur[p]
    BY <1>0, <2>1 DEF ResidenceOf, Holders, Outside, Holding, Locals, FramesAgree, TypePages
  <2>3. CASE Goes
    <3>1. pc'[p] \in {"reset", "forget"} /\ UNCHANGED <<cur, why, fr, present, lock>>
      BY <1>0, <2>3 DEF Goto, TypeLocals
    <3>2. PresenceOf(p)'
      BY <1>1, <2>1, <2>3, <3>1 DEF PresenceOf, PageOut
    <3> QED BY <1>2, <2>1, <3>1, <3>2, PresenceSame DEF WorkedOn, InTransit
  <2>4. ASSUME NEW b \in BOOLEAN, Resident(p, b), b \/ pc[p] = "map" PROVE Presence'
    <3>1. /\ \/ present' = present \cup {cur[p]}
             \/ present' = present /\ ~(why[p] = "fault" \/ (why[p] = "access" /\ b))
      BY <2>4 DEF Resident, SetPage, ptes
    <3>2. \/ pc'[p] = "kernel" /\ why[p] = "access" /\ UNCHANGED <<cur, fr, why>>
          \/ pc'[p] = "user" /\ why'[p] = "none"
      BY <1>0, <2>4 DEF Resident, Return, Goto, TypeLocals
    <3>3. present' = present \cup {cur[p]} \/ why[p] = "load"
      BY <2>1, <2>4, <3>1 DEF Reasons, Brings
    <3>4. ASSUME NEW q \in Pages PROVE PresenceAt(q)'
      <4>1. CASE q = cur[p]
        <5>1. frame[q] # NULL /\ q \in pages
          BY <2>2, <4>1
        <5>2. cur[p] \notin present' => ~file'[cur[p]]
          <6>1. why[p] = "load" => ~file[cur[p]]
            BY <2>1, <2>2 DEF Backed, Outside
          <6> QED BY <1>0, <2>1, <2>2, <3>3, <6>1 DEF UsesKept
        <5> QED BY <2>1, <4>1, <5>1, <5>2 DEF PresenceAt
      <4>2. CASE q # cur[p]
        <5>1. q \in present' <=> q \in present
          BY <3>1, <4>2
        <5>2. q \in pages => file'[q] = file[q]
          BY <1>0, <2>1 DEF UsesKept
        <5>3. frame[q] # NULL => lock[frame[q]] # p /\ frame[q] \in Frames
          <6>1. frame[q] # NULL => frame[q] \in Frames /\ frame[q] # fr[p]
            BY <1>0, <2>2, <4>2 DEF FramesAgree, TypePages
          <6> QED BY <2>1, <6>1 DEF Holding
        <5>4. PresenceAt(q)
          BY <1>1
        <5>5. ASSUME q \in pages' \ spoiled', frame'[q] # NULL, q \notin present', file'[q]
              PROVE  WorkedOn(frame[q], InTransit)'
          <6>1. WorkedOn(frame[q], InTransit)
            BY <1>0, <2>1, <5>1, <5>2, <5>4, <5>5 DEF PresenceAt
          <6> QED BY <1>0, <2>1, <5>3, <5>5, <6>1, WorkedOnKept
        <5> QED BY <2>1, <5>1, <5>4, <5>5 DEF PresenceAt
      <4> QED BY <4>1, <4>2
    <3>5. ASSUME NEW r \in Procs \ {p} PROVE PresenceOf(r)'
      <4>1. pc[r] \notin Outside => cur[r] # cur[p]
        BY <2>1, Distinct DEF Outside
      <4>2. pc[r] \in PageOut => page[fr[r]] # cur[p]
        <5>1. pc[r] \in PageOut => frame[page[fr[r]]] = fr[r] /\ fr[r] # fr[p]
          BY <1>1, <2>1, Distinct DEF ResidenceOf, PageOut, Holders
        <5> QED BY <2>2, <5>1
      <4>3. why[r] = "fault" => pc[r] \notin Outside
        BY DEF Reasons
      <4>4. PresenceOf(r)
        BY <1>1
      <4> QED BY <1>0, <2>1, <3>1, <4>1, <4>2, <4>3, <4>4
              DEF PresenceOf, OthersKept, PageOut, Outside
    <3>6. PresenceOf(p)'
      BY <3>2 DEF PresenceOf, PageOut
    <3> QED BY <1>2, <3>4, <3>5, <3>6
  <2> QED BY <1>2, <2>1, <2>3, <2>4
<1>5. CASE Scans(p) \/ Clocks(p)
  <2>1. Searches(p) /\ frame[cur[p]] = NULL /\ cur[p] \in Pages /\ cur[p] \in pages
    BY <1>0, <1>5, Searched DEF Searches, ResidenceOf, Outside, Locals
  <2>2. UNCHANGED <<cur, why, present, pages, exiting>> /\ pc[p] \in {"scan", "clock"}
    BY <2>1 DEF Searches
  <2>3. CASE Passes(p)
    <3>1. UNCHANGED <<frame, page>> /\ pc'[p] \in {"scan", "clock", "failed"}
      BY <1>0, <2>3 DEF Passes, Goto, TypeLocals
    <3>2. PresenceOf(p)'
      BY <1>1, <2>2, <3>1 DEF PresenceOf, PageOut
    <3> QED BY <1>2, <2>2, <3>1, <3>2, PresenceSame DEF InTransit
  <2>4. ASSUME NEW f \in Frames, Evicts(p, f) PROVE Presence'
    <3>1. UNCHANGED <<frame, page>> /\ pc'[p] = "clear"
      BY <1>0, <2>4 DEF Evicts, Goto, TypeLocals
    <3>2. PresenceOf(p)'
      BY <1>1, <2>2, <3>1 DEF PresenceOf, PageOut
    <3> QED BY <1>2, <2>2, <3>1, <3>2, PresenceSame DEF InTransit
  <2>5. ASSUME NEW f \in Frames, lock[f] = NULL, page[f] = NULL, TakeFrame(p, f)
        PROVE  Presence'
    <3>1. /\ pc'[p] = "fill" /\ fr'[p] = f /\ lock'[f] = p
          /\ \A q \in Pages : frame'[q] = IF q = cur[p] THEN f ELSE frame[q]
      BY <1>0, <2>1, <2>5 DEF TakeFrame, Goto, TypeLocals, TypePages, TypeFrames
    <3>2. cur[p] \notin present
      BY <1>1, <2>1 DEF PresenceAt
    <3>3. PresenceOf(p)'
      BY <1>1, <2>2, <3>1, <3>2 DEF PresenceOf, PageOut
    <3>4. ASSUME NEW r \in Procs \ {p} PROVE PresenceOf(r)'
      <4>1. pc[r] \in PageOut => fr[r] \in Frames /\ lock[fr[r]] = r
        BY DEF PageOut, Holders, Holding
      <4>2. pc[r] \in PageOut => page'[fr[r]] = page[fr[r]]
        BY <1>0, <4>1 DEF FramesKept
      <4> QED BY <1>0, <1>1, <2>2, <4>2 DEF PresenceOf, OthersKept
    <3>5. ASSUME NEW q \in Pages PROVE PresenceAt(q)'
      <4>1. CASE q = cur[p]
        BY <2>1, <2>2, <3>1, <3>2, <4>1 DEF PresenceAt, WorkedOn, InTransit
      <4>2. CASE q # cur[p]
        <5>1. frame'[q] = frame[q] /\ PresenceAt(q) /\ (q \in pages => file'[q] = file[q])
          BY <1>0, <1>1, <2>2, <3>1, <4>2 DEF UsesKept
        <5>2. frame[q] # NULL => frame[q] \in Frames
          BY <1>0 DEF TypePages
        <5>3. ASSUME q \in pages' \ spoiled', frame'[q] # NULL, q \notin present', file'[q]
              PROVE  WorkedOn(frame[q], InTransit)'
          <6>1. WorkedOn(frame[q], InTransit) /\ lock[frame[q]] # p
            BY <1>0, <2>2, <5>1, <5>3 DEF PresenceAt, WorkedOn, InTransit
          <6> QED BY <1>0, <5>1, <5>2, <5>3, <6>1, WorkedOnKept
        <5> QED BY <2>2, <5>1, <5>3 DEF PresenceAt
      <4> QED BY <4>1, <4>2
    <3> QED BY <1>2, <3>3, <3>4, <3>5
  <2> QED BY <1>2, <2>1, <2>3, <2>4, <2>5 DEF Searches
<1>6. CASE PageOutClears(p)
  <2> DEFINE V == page[fr[p]]
  <2>1. /\ pc[p] = "clear" /\ fr[p] \in Frames /\ V \in Pages /\ frame[V] = fr[p]
        /\ UNCHANGED <<cur, fr, why, page, frame, lock, pages, exiting, file>>
        /\ present' = present \ {V} /\ lock[fr[p]] = p
    BY <1>0, <1>6 DEF PageOutClears, PresentAfterClear, Victim, ResidenceOf, PageOut, Holders,
       TypeFrames, local, frames, spt, Holding
  <2>2. pc'[p] \in {"slot", "write", "take"}
    BY <1>0, <1>6 DEF PageOutClears, Destination, Goto, TypeLocals
  <2>3. \A r \in Procs \ {p} : PresenceOf(r)'
    BY <1>0, <1>1, <2>1 DEF PresenceOf, OthersKept
  <2>4. PresenceOf(p)'
    BY <1>1, <2>1, <2>2 DEF PresenceOf, PageOut
  <2>5. ASSUME NEW q \in Pages PROVE PresenceAt(q)'
    <3>1. CASE q = V
      BY <2>1, <2>2, <3>1 DEF PresenceAt, WorkedOn, InTransit
    <3>2. CASE q # V
      <4>1. PresenceAt(q) /\ (frame[q] # NULL => frame[q] \in Frames /\ frame[q] # fr[p])
        BY <1>0, <1>1, <2>1, <3>2 DEF TypePages, FramesAgree
      <4>2. frame[q] # NULL => lock[frame[q]] # p
        BY <2>1, <4>1 DEF Holding
      <4>3. ASSUME q \in pages' \ spoiled', frame'[q] # NULL, q \notin present', file'[q]
            PROVE  WorkedOn(frame[q], InTransit)'
        <5>1. WorkedOn(frame[q], InTransit)
          BY <1>0, <2>1, <3>2, <4>1, <4>3 DEF PresenceAt
        <5> QED BY <1>0, <2>1, <4>1, <4>2, <4>3, <5>1, WorkedOnKept
      <4> QED BY <2>1, <4>1, <4>3 DEF PresenceAt
    <3> QED BY <3>1, <3>2
  <2> QED BY <1>2, <2>3, <2>4, <2>5
<1>7. CASE SwapOutGetsSlot(p) \/ PageOutFails(p) \/ SwapOutWrites(p) \/ FileWrites(p)
  <2>1. /\ pc[p] \in PageOut \ {"clear"} /\ pc[p] \in InTransit
        /\ UNCHANGED <<cur, why, page, frame, present>>
    BY <1>7 DEF SwapOutGetsSlot, PageOutFails, SwapOutWrites, FileWrites, PageOut, InTransit,
       local, frames, spt, ptes
  <2>2. /\ \/ pc'[p] \in {"swap", "take"} /\ UNCHANGED <<fr, lock>>
           \/ /\ pc'[p] \in {"free", "failed"} /\ page[fr[p]] \in spoiled'
              /\ (pc'[p] = "free" => why[p] = "unmap" /\ UNCHANGED fr)
    BY <1>0, <1>7 DEF SwapOutGetsSlot, PageOutFails, SwapOutWrites, FileWrites, Victim, Goto,
       local, frames, TypeLocals
  <2>3. why[p] = "unmap" => page[fr[p]] = cur[p]
    BY <1>0, <2>1 DEF ResidenceOf
  <2>4. PresenceOf(p)'
    BY <1>1, <2>1, <2>2, <2>3 DEF PresenceOf, PageOut
  <2>5. \A q \in pages \ spoiled' : frame[q] # NULL /\ lock[frame[q]] = p /\ fr[p] = frame[q]
               /\ pc[p] \in InTransit /\ page[fr[p]] = q => WorkedOn(frame[q], InTransit)'
    BY <2>1, <2>2 DEF WorkedOn, InTransit
  <2> QED BY <1>2, <2>1, <2>4, <2>5, PresenceSame DEF PageOut
<1>8. CASE PageOutReturns(p)
  <2> DEFINE V == page[fr[p]]
  <2>1. /\ pc[p] = "take" /\ fr[p] \in Frames /\ cur[p] \in Pages /\ lock[fr[p]] = p
        /\ cur[p] \in pages
        /\ UNCHANGED <<cur, why, lock, fr, pages, file, present, exiting>>
    BY <1>8 DEF PageOutReturns, local, Holders, Outside, Holding, ptes, Locals
  <2>2. V \in Pages /\ V # NULL /\ frame[V] = fr[p] /\ V \notin present
        /\ IF why[p] = "unmap" THEN V = cur[p] ELSE frame[cur[p]] = NULL /\ V # cur[p]
    BY <1>0, <1>1, <2>1 DEF ResidenceOf, PageOut, TypeFrames, PresenceOf
  <2>3. \A q \in Pages : frame'[q] = IF q = V THEN NULL
                                     ELSE IF q = cur[p] THEN fr[p] ELSE frame[q]
    BY <1>0, <1>8, <2>1, <2>2 DEF PageOutReturns, Victim, TypePages
  <2>4. pc'[p] = IF why[p] = "unmap" THEN "free" ELSE "fill"
    BY <1>0, <1>8 DEF PageOutReturns, Goto, TypeLocals
  <2>5. cur[p] \notin present
    BY <1>1, <2>1, <2>2 DEF PresenceAt
  <2>6. PresenceOf(p)'
    BY <1>1, <2>1, <2>4, <2>5 DEF PresenceOf, PageOut
  <2>7. ASSUME NEW r \in Procs \ {p} PROVE PresenceOf(r)'
    <3>1. pc[r] \in PageOut => fr[r] \in Frames /\ lock[fr[r]] = r
      BY DEF PageOut, Holders, Holding
    <3>2. pc[r] \in PageOut => page'[fr[r]] = page[fr[r]]
      BY <1>0, <3>1 DEF FramesKept
    <3> QED BY <1>0, <1>1, <2>1, <3>2 DEF PresenceOf, OthersKept
  <2>8. ASSUME NEW q \in Pages PROVE PresenceAt(q)'
    <3>1. CASE q = V
      BY <2>1, <2>2, <2>3, <3>1 DEF PresenceAt
    <3>2. CASE q # V /\ q = cur[p]
      BY <2>1, <2>2, <2>3, <2>4, <2>5, <3>2 DEF PresenceAt, WorkedOn, InTransit
    <3>3. CASE q # V /\ q # cur[p]
      <4>1. /\ PresenceAt(q) /\ frame'[q] = frame[q]
            /\ frame[q] # NULL => frame[q] \in Frames /\ frame[q] # fr[p]
        BY <1>0, <1>1, <2>3, <3>3 DEF TypePages, FramesAgree
      <4>2. frame[q] # NULL => lock[frame[q]] # p
        BY <2>1, <4>1 DEF Holding
      <4>3. ASSUME q \in pages' \ spoiled', frame'[q] # NULL, q \notin present', file'[q]
            PROVE  WorkedOn(frame[q], InTransit)'
        <5>1. WorkedOn(frame[q], InTransit)
          BY <1>0, <2>1, <4>1, <4>3 DEF PresenceAt
        <5> QED BY <1>0, <4>1, <4>2, <4>3, <5>1, WorkedOnKept
      <4> QED BY <2>1, <4>1, <4>3 DEF PresenceAt
    <3> QED BY <3>1, <3>2, <3>3
  <2> QED BY <1>2, <2>6, <2>7, <2>8
<1>9. CASE FreesFrame(p) \/ FreesNoFrame(p)
  <2>1. /\ pages' = pages \ {cur[p]} /\ frame' = [frame EXCEPT ![cur[p]] = NULL]
        /\ pc[p] \in {"free", "gone"} /\ cur[p] \in Pages /\ Owner[cur[p]] = p
        /\ UNCHANGED <<present, exiting, file>>
        /\ pc'[p] \in {"user", "exit"} /\ why'[p] = "none"
    BY <1>0, <1>9 DEF FreesFrame, FreesNoFrame, FreesPage, Return, Goto, TypeLocals, Outside,
       ptes, Locals
  <2>2. cur[p] \in present => p \in exiting
    <3>1. CASE pc[p] = "gone"
      <4>1. frame[cur[p]] = NULL /\ cur[p] \in pages
        BY <1>0, <3>1 DEF ResidenceOf, Locals, Outside
      <4> QED BY <1>1, <2>1, <4>1 DEF PresenceAt
    <3>2. CASE pc[p] = "free"
      BY <1>1, <3>2 DEF PresenceOf, Reasons
    <3> QED BY <2>1, <3>1, <3>2
  <2>3. PresenceOf(p)'
    BY <2>1 DEF PresenceOf, PageOut
  <2>4. ASSUME NEW r \in Procs \ {p} PROVE PresenceOf(r)'
    <3>1. pc[r] \in PageOut => fr[r] \in Frames /\ lock[fr[r]] = r
      BY DEF PageOut, Holders, Holding
    <3>2. pc[r] \in PageOut => page'[fr[r]] = page[fr[r]]
      BY <1>0, <3>1 DEF FramesKept
    <3> QED BY <1>0, <1>1, <2>1, <3>2 DEF PresenceOf, OthersKept
  <2>5. ASSUME NEW q \in Pages PROVE PresenceAt(q)'
    <3>1. CASE q = cur[p]
      BY <2>1, <2>2, <3>1 DEF PresenceAt
    <3>2. CASE q # cur[p]
      <4>1. /\ PresenceAt(q) /\ frame'[q] = frame[q] /\ (q \in pages' <=> q \in pages)
            /\ frame[q] # NULL => frame[q] \in Frames
        BY <1>0, <1>1, <2>1, <3>2 DEF TypePages
      <4>2. ASSUME q \in pages' \ spoiled', frame'[q] # NULL, q \notin present', file'[q]
            PROVE  WorkedOn(frame[q], InTransit)'
        <5>1. WorkedOn(frame[q], InTransit) /\ lock[frame[q]] # p
          BY <1>0, <2>1, <4>1, <4>2 DEF PresenceAt, WorkedOn, InTransit
        <5> QED BY <1>0, <4>1, <4>2, <5>1, WorkedOnKept
      <4> QED BY <2>1, <4>1, <4>2 DEF PresenceAt
    <3> QED BY <3>1, <3>2
  <2> QED BY <1>2, <2>3, <2>4, <2>5
<1>10. CASE Dies(p)
  <2>1. /\ pc[p] = "exit" /\ pc'[p] = "dead" /\ PagesOf(p) \cap pages = {}
        /\ present' = present \ PagesOf(p)
        /\ UNCHANGED <<why, page, frame, pages, exiting, file, lock>>
    BY <1>0, <1>10 DEF Dies, Goto, TypeLocals, local, frames, spt
  <2>2. PresenceOf(p)'
    <3>1. why[p] = "none"
      BY <2>1 DEF Reasons, Outside
    <3> QED BY <2>1, <3>1 DEF PresenceOf, PageOut
  <2>3. \A r \in Procs \ {p} : PresenceOf(r)'
    BY <1>0, <1>1, <2>1 DEF PresenceOf, OthersKept
  <2>4. ASSUME NEW q \in Pages PROVE PresenceAt(q)'
    <3>1. /\ PresenceAt(q) /\ (frame[q] # NULL => frame[q] \in Frames)
          /\ q \in pages => (q \in present' <=> q \in present)
      BY <1>0, <1>1, <2>1 DEF TypePages
    <3>2. ASSUME q \in pages' \ spoiled', frame'[q] # NULL, q \notin present', file'[q]
          PROVE  WorkedOn(frame[q], InTransit)'
      <4>1. WorkedOn(frame[q], InTransit) /\ lock[frame[q]] # p
        BY <1>0, <2>1, <3>1, <3>2 DEF PresenceAt, WorkedOn, InTransit
      <4> QED BY <1>0, <2>1, <3>1, <3>2, <4>1, WorkedOnKept
    <3> QED BY <2>1, <3>1, <3>2 DEF PresenceAt
  <2> QED BY <1>2, <2>2, <2>3, <2>4
<1> QED BY <1>2, <1>3, <1>4, <1>5, <1>6, <1>7, <1>8, <1>9, <1>10, <1>11
       DEF Step, Locking, Kernel, User

-----------------------------------------------------------------------------
(* The content of pages.                                                   *)

ContentsAt(q) ==
    q \in pages \ spoiled =>
       /\ frame[q] = NULL => Stored(q) = q
       /\ frame[q] # NULL => data[frame[q]] = q \/ WorkedOn(frame[q], {"fill"})
       /\ frame[q] # NULL /\ file[q] /\ q \notin dirty => q \in store

ContentsOf(p) ==
    /\ pc[p] = "fill" /\ cur[p] \notin spoiled => Stored(cur[p]) = cur[p]
    /\ pc[p] = "take" /\ page[fr[p]] \notin spoiled => Stored(page[fr[p]]) = page[fr[p]]
    /\ pc[p] = "free" /\ why[p] = "unmap" /\ cur[p] \notin spoiled => frame[cur[p]] = NULL

\* Contents, page by page and process by process.
LEMMA ContentsParts ==
    ASSUME TypeOK
    PROVE  Contents <=> (\A q \in Pages : ContentsAt(q)) /\ \A p \in Procs : ContentsOf(p)
<1>1. pages \subseteq Pages
  BY DEF TypeOK
<1> QED BY <1>1 DEF Contents, ContentsOf, ContentsAt

\* A page that is being brought in or taken out is in the frame of who does it,
\* and its entry is not present.
LEMMA Transit ==
    ASSUME TypeOK, Locals, Holding, Residence, Presence, NEW r \in Procs,
           pc[r] \in {"fill", "take"}
    PROVE  /\ fr[r] \in Frames /\ lock[fr[r]] = r /\ page[fr[r]] \in pages
           /\ frame[page[fr[r]]] = fr[r] /\ page[fr[r]] \notin present
           /\ pc[r] = "fill" => page[fr[r]] = cur[r]
<1>1. fr[r] \in Frames /\ cur[r] \in pages /\ lock[fr[r]] = r /\ cur[r] \in Pages
  BY Where DEF Holders, Outside, Holding, Locals
<1>2. FramesAgree /\ ResidenceOf(r) /\ PresenceOf(r)
  BY ResidenceParts, PresenceParts
<1>3. CASE pc[r] = "fill"
  <2>1. frame[cur[r]] = fr[r] /\ fr[r] # NULL
    BY <1>1, <1>2, <1>3, Constants DEF ResidenceOf
  <2>2. page[fr[r]] = cur[r] /\ cur[r] \notin present
    BY <1>1, <1>2, <1>3, <2>1 DEF FramesAgree, PresenceOf
  <2> QED BY <1>1, <2>1, <2>2
<1>4. CASE pc[r] = "take"
  <2>1. page[fr[r]] # NULL /\ frame[page[fr[r]]] = fr[r] /\ page[fr[r]] \notin present
    BY <1>2, <1>4 DEF ResidenceOf, PresenceOf, PageOut
  <2> QED BY <1>1, <1>2, <1>4, <2>1 DEF FramesAgree
<1> QED BY <1>3, <1>4

\* Who works on the frame of a page works on that page.
LEMMA Worker ==
    ASSUME TypeOK, Locals, Holding, Residence, Presence, NEW q \in Pages, frame[q] # NULL,
           WorkedOn(frame[q], {"fill", "take"})
    PROVE  /\ frame[q] \in Frames /\ lock[frame[q]] \in Procs
           /\ pc[lock[frame[q]]] \in {"fill", "take"} /\ page[fr[lock[frame[q]]]] = q
           /\ q \notin present
<1>1. frame[q] \in Frames /\ page[frame[q]] = q
  BY DEF Residence, TypeOK
<1>2. lock[frame[q]] \in Procs /\ pc[lock[frame[q]]] \in {"fill", "take"}
      /\ fr[lock[frame[q]]] = frame[q]
  BY <1>1 DEF WorkedOn, Holding
<1> QED BY <1>1, <1>2, Transit

\* A step leaves the content of page q where it was, or in its frame.
Intact(p, q) ==
    /\ Stored(q) = q =>
          \/ Stored(q)' = q
          \/ /\ frame[q] # NULL
             /\ ~(lock[frame[q]] # p /\ WorkedOn(frame[q], {"fill", "take"}))
    /\ frame[q] # NULL /\ (data[frame[q]] = q \/ (pc[p] = "fill" /\ q = cur[p])) =>
          data'[frame[q]] = q
    /\ frame[q] # NULL /\ file[q] /\ q \notin dirty' /\ (q \in dirty \/ q \in store) => q \in store'

\* A new content of one page leaves every other page as it is.
LEMMA OthersIntact ==
    ASSUME TypeOK, Residence, NEW p \in Procs, NEW t \in Pages, frame[t] # NULL,
           NewContent(t, frame[t]), UNCHANGED <<frame, sector, file, kind>>,
           NEW q \in Pages, q # t, pc[p] = "fill" => cur[p] = t, q \in dirty' <=> q \in dirty
    PROVE  Intact(p, q)
<1>0. TypeFrames /\ TypePages /\ FramesAgree
  BY TypeParts, ResidenceParts
<1>1. frame[q] # NULL => frame[q] # frame[t] /\ data'[frame[q]] = data[frame[q]]
  BY <1>0 DEF NewContent, TypeFrames, TypePages, FramesAgree
<1>2. /\ q \in store' <=> q \in store
      /\ \A s \in 0..Slots - 1 : swap[s] = q => swap'[s] = q
  BY DEF NewContent
<1>3. sector[q] # NULL => sector[q] \in 0..Slots - 1
  BY <1>0 DEF TypePages
<1>4. Stored(q) = q => Stored(q)' = q
  BY <1>2, <1>3 DEF Stored
<1> QED BY <1>1, <1>2, <1>4 DEF Intact

\* A step that changes no frame.
LEMMA ContentsSame ==
    ASSUME TypeOK, Locals, Reasons, Holding, Residence, Slotted, Backed, Presence, Contents,
           NEW p \in Procs, Step(p),
           UNCHANGED <<frame, page>>, pc[p] \notin {"free", "gone"}, ContentsOf(p)',
           \A q \in pages \ spoiled' : Intact(p, q), \A q \in pages' \ pages : Stored(q)' = q
    PROVE  Contents'
<1>0. /\ OthersKept(p) /\ LocksKept(p) /\ PagesKept(p) /\ UsesKept(p) /\ TypeFrames /\ TypePages
      /\ TypeOK /\ TypePages' /\ FramesAgree /\ spoiled \subseteq spoiled' /\ pages \subseteq pages'
  BY OthersStep, LocksStep, PagesStep, UsesStep, TypeParts, TypePagesStep, SpoiledStep,
     ResidenceParts DEF PagesKept
<1>1. (\A q \in Pages : ContentsAt(q)) /\ \A r \in Procs : ContentsOf(r)
  BY ContentsParts
<1>2. ASSUME NEW q \in Pages, q \in pages' \ spoiled', q \notin pages
      PROVE  Stored(q)' = q /\ frame[q] = NULL
  BY <1>0, <1>2 DEF FramesAgree
<1>3. ASSUME NEW q \in Pages, q \in pages \ spoiled'
      PROVE  /\ frame[q] = NULL => Stored(q)' = q
             /\ frame[q] # NULL => data'[frame[q]] = q \/ WorkedOn(frame[q], {"fill"})'
             /\ frame[q] # NULL /\ file'[q] /\ q \notin dirty' => q \in store'
  <2>1. /\ frame[q] = NULL => Stored(q) = q
        /\ frame[q] # NULL => data[frame[q]] = q \/ WorkedOn(frame[q], {"fill"})
        /\ frame[q] # NULL /\ file[q] /\ q \notin dirty => q \in store
    BY <1>0, <1>1, <1>3 DEF ContentsAt
  <2>2. frame[q] # NULL => data'[frame[q]] = q \/ WorkedOn(frame[q], {"fill"})'
    <3>1. SUFFICES ASSUME frame[q] # NULL, WorkedOn(frame[q], {"fill"})
                   PROVE  data'[frame[q]] = q \/ WorkedOn(frame[q], {"fill"})'
      BY <1>3, <2>1 DEF Intact
    <3>2. frame[q] \in Frames
      BY <1>0, <3>1 DEF TypePages
    <3>3. CASE lock[frame[q]] = p
      <4>1. pc[p] = "fill" /\ q = cur[p]
        <5>1. pc[p] = "fill" /\ fr[p] = frame[q]
          BY <3>1, <3>2, <3>3 DEF WorkedOn, Holding
        <5> QED BY <1>0, <3>1, <5>1, Transit DEF FramesAgree
      <4> QED BY <1>3, <3>1, <4>1 DEF Intact
    <3>4. CASE lock[frame[q]] # p
      BY <1>0, <3>1, <3>2, <3>4, WorkedOnKept
    <3> QED BY <3>3, <3>4
  <2>3. file'[q] => file[q]
    BY <1>0, <1>3 DEF UsesKept
  <2> QED BY <1>3, <2>1, <2>2, <2>3 DEF Intact
<1>4. ASSUME NEW q \in Pages PROVE ContentsAt(q)'
  BY <1>2, <1>3 DEF ContentsAt
<1>5. ASSUME NEW r \in Procs \ {p} PROVE ContentsOf(r)'
  <2>1. ASSUME NEW q \in Pages, q = page[fr[r]], pc[r] \in {"fill", "take"}, q \notin spoiled',
               Stored(q) = q
        PROVE  Stored(q)' = q
    <3>1. q \in pages /\ frame[q] = fr[r] /\ lock[fr[r]] = r /\ fr[r] \in Frames
      BY <2>1, Transit
    <3>2. lock[frame[q]] # p /\ WorkedOn(frame[q], {"fill", "take"})
      BY <2>1, <3>1 DEF WorkedOn
    <3> QED BY <2>1, <3>1, <3>2 DEF Intact
  <2>2. ContentsOf(r) /\ cur'[r] = cur[r] /\ fr'[r] = fr[r] /\ pc'[r] = pc[r] /\ why'[r] = why[r]
    BY <1>0, <1>1 DEF OthersKept
  <2>3. pc[r] \in {"fill", "take"} =>
          page[fr[r]] \in Pages /\ (pc[r] = "fill" => cur[r] = page[fr[r]])
    BY <1>0, Transit DEF TypePages
  <2>4. ASSUME NEW q, q = page[fr[r]], pc[r] \in {"fill", "take"}, q \notin spoiled'
        PROVE  Stored(q)' = q
    BY <1>0, <2>1, <2>2, <2>3, <2>4 DEF ContentsOf
  <2>5. pc'[r] = "free" /\ why'[r] = "unmap" /\ cur'[r] \notin spoiled' =>
            frame'[cur'[r]] = NULL
    BY <1>0, <2>2 DEF ContentsOf
  <2> QED BY <2>2, <2>3, <2>4, <2>5 DEF ContentsOf, Stored
<1> QED BY <1>0, <1>4, <1>5 DEF Contents, ContentsAt, ContentsOf, TypePages

\* The steps that touch no content.
LEMMA ContentsUntouched ==
    ASSUME TypeOK, Locals, Reasons, Holding, Residence, Slotted, Backed, Presence, Contents,
           NEW p \in Procs, Step(p),
           UNCHANGED <<frame, page, data, sector, swap>>,
              dirty \subseteq dirty' \cup (Pages \ pages),
           \A q \in pages \ spoiled' : q \in store => q \in store',
           \A q \in pages' \ pages : q \in store',
           pc[p] \notin {"free", "gone", "fill", "swap"}, ContentsOf(p)'
    PROVE  Contents'
<1>0. UsesKept(p) /\ TypePages /\ TypePages'
  BY UsesStep, TypePagesStep, TypeParts
<1>1. ASSUME NEW q \in pages \ spoiled' PROVE Intact(p, q)
  BY <1>0, <1>1 DEF UsesKept, Stored, Intact, TypePages
<1>2. ASSUME NEW q \in pages' \ pages PROVE Stored(q)' = q
  <2>1. sector[q] = NULL
    BY <1>0, <1>2 DEF Slotted, TypePages
  <2> QED BY <1>0, <1>2, <2>1 DEF UsesKept, Stored
<1> QED BY <1>1, <1>2, ContentsSame

\* A step keeps the content of every page that is not spoiled in its frame, its
\* slot or its file: what a program or a system call writes, and what page_out
\* and install_page_in move.
LEMMA ContentsStep ==
    ASSUME TypeOK, Locals, Reasons, Holding, Residence, Slotted, Backed, Presence, Contents,
           NEW p \in Procs, Step(p)
    PROVE  Contents'
<1> USE Where, Constants
<1>0. /\ TypeLocals /\ TypeLocals' /\ TypeFrames /\ TypeFrames' /\ TypePages /\ TypePages'
      /\ TypeDisk /\ TypeDisk'
      /\ OthersKept(p) /\ LocksKept(p) /\ PagesKept(p) /\ FramesKept(p) /\ UsesKept(p)
      /\ spoiled \subseteq spoiled' /\ FramesAgree /\ ResidenceOf(p) /\ PresenceOf(p)
      /\ ContentsOf(p)
  BY TypeParts, TypeLocalsStep, TypeFramesStep, TypePagesStep, TypeDiskStep, OthersStep,
     LocksStep, PagesStep, FramesStep, UsesStep, SpoiledStep, ResidenceParts, PresenceParts,
     ContentsParts
<1>1. \A q \in Pages : PresenceAt(q) /\ ContentsAt(q) /\ SlottedAt(q) /\ Alone(q)
  BY PresenceParts, ContentsParts, SlottedParts
<1>2. (\A q \in Pages : ContentsAt(q)') /\ (\A r \in Procs : ContentsOf(r)') => Contents'
  BY <1>0 DEF Contents, ContentsOf, ContentsAt, TypePages
<1>3. CASE \/ Load(p) \/ UserReads(p) \/ Exits(p) \/ Mmap(p)
           \/ Unmaps(p, "user") \/ Faults(p, "fault") \/ Faults(p, "access")
           \/ Deallocates(p) \/ Destroys(p) \/ AllocStarts(p) \/ Unmaps(p, "exit")
           \/ FrameLockGets(p) \/ FrameLockRechecks(p) \/ AllocFails(p) \/ Dies(p)
  <2>1. /\ UNCHANGED <<page, data, swap>> /\ pc[p] \notin InTransit \cup {"free", "gone"}
        /\ dirty \subseteq dirty' \cup (Pages \ pages)
    <3>1. CASE Dies(p)
      BY <1>0, <3>1 DEF Dies, PagesOf, frames, disk, InTransit, TypeDisk
    <3>2. CASE ~Dies(p)
      BY <1>3, <3>2 DEF Load, UserReads, Exits, Mmap, Unmaps, Faults, Deallocates, Destroys,
         StartsFrameLock, AllocStarts, FrameLockGets, FrameLockRechecks, AllocFails, frames,
         ptes, disk, InTransit
    <3> QED BY <3>1, <3>2
  <2>2. UNCHANGED <<frame, sector>> /\ store \subseteq store' /\ pages' \ pages \subseteq store'
    <3>1. CASE Load(p) \/ Mmap(p) \/ Faults(p, "fault") \/ Faults(p, "access")
      BY <3>1, LoadGrows, MmapGrows, FaultGrows DEF Grown
    <3>2. CASE ~(Load(p) \/ Mmap(p) \/ Faults(p, "fault") \/ Faults(p, "access"))
      BY <1>3, <3>2 DEF UserReads, Exits, Unmaps, Deallocates, Destroys, Dies,
         AllocStarts, FrameLockGets, FrameLockRechecks, AllocFails, spt, disk
    <3> QED BY <3>1, <3>2
  <2>3. pc'[p] \notin {"fill", "take"} /\ ~(pc'[p] = "free" /\ why'[p] = "unmap")
    <3>1. CASE Faults(p, "fault") \/ Faults(p, "access") \/ Deallocates(p) \/ Destroys(p)
      <4>1. PICK q, w : StartsFrameLock(p, q, w)
        BY <3>1 DEF Faults, Deallocates, Destroys
      <4> QED BY <1>0, <4>1 DEF StartsFrameLock, NotResident, Goto, TypeLocals
    <3>2. CASE FrameLockGets(p)
      <4>1. /\ pc[p] = "lock" /\ UNCHANGED <<cur, why>>
            /\ pc'[p] = IF StillThere(p) THEN Locked(cur[p], why[p]) ELSE "recheck"
        BY <1>0, <3>2 DEF FrameLockGets, Goto, local, TypeLocals
      <4>2. why[p] = "unmap" => file[cur[p]] /\ ~private[cur[p]]
        BY <4>1 DEF Backed, Locals, Outside
      <4>3. /\ Locked(cur[p], why[p]) \in {"map", "kernel", "clear", "free"}
            /\ Locked(cur[p], why[p]) = "free" => why[p] # "unmap"
        BY <4>1, <4>2 DEF Locked, Reasons
      <4> QED BY <4>1, <4>3
    <3>3. CASE \/ Load(p) \/ UserReads(p) \/ Exits(p) \/ Mmap(p) \/ Unmaps(p, "user")
               \/ AllocStarts(p) \/ Unmaps(p, "exit") \/ FrameLockRechecks(p) \/ AllocFails(p)
               \/ Dies(p)
      BY <1>0, <3>3 DEF Load, UserReads, Exits, Mmap, Unmaps, AfterTest, AllocStarts,
         FrameLockRechecks, NotResident, AllocFails, Return, Dies, Goto, TypeLocals
    <3> QED BY <1>3, <3>1, <3>2, <3>3
  <2>4. ContentsOf(p)'
    BY <2>3 DEF ContentsOf
  <2> QED BY <2>1, <2>2, <2>4, ContentsUntouched DEF InTransit
<1>4. CASE UserWrites(p) \/ KernelAccesses(p)
  <2>1. /\ UNCHANGED <<page, frame, sector, pages, spoiled, file, kind>>
        /\ pc[p] \in {"user", "kernel"}
    BY <1>4 DEF UserWrites, KernelAccesses, spt
  <2>2. pc'[p] \notin {"fill", "take", "free"}
    BY <1>0, <1>4 DEF UserWrites, KernelAccesses, Return, Goto, TypeLocals
  <2>3. \/ UNCHANGED <<data, swap, store, dirty>>
        \/ \E q \in present \cap pages : frame[q] # NULL /\ Write(q, frame[q])
    <3>1. CASE UserWrites(p)
      <4>1. PICK q \in PagesOf(p) \cap present : Write(q, frame[q])
        BY <3>1 DEF UserWrites
      <4>2. p \notin exiting
        BY <3>1 DEF UserWrites, Reasons
      <4> QED BY <1>1, <4>1, <4>2 DEF PresenceAt, PagesOf
    <3>2. CASE KernelAccesses(p)
      <4>1. cur[p] \in pages /\ frame[cur[p]] # NULL
        BY <1>0, <3>2 DEF KernelAccesses, ResidenceOf, Holders, Outside, Locals
      <4> QED BY <3>2, <4>1 DEF KernelAccesses
    <3> QED BY <1>4, <3>1, <3>2
  <2>4. ContentsOf(p)'
    BY <2>2 DEF ContentsOf
  <2>5. CASE UNCHANGED <<data, swap, store, dirty>>
    BY <2>1, <2>4, <2>5, ContentsUntouched
  <2>6. ASSUME NEW t \in present \cap pages, frame[t] # NULL, Write(t, frame[t])
        PROVE  Contents'
    <3>1. ASSUME NEW q \in pages \ spoiled' PROVE Intact(p, q)
      <4>1. q \in Pages /\ t \in Pages /\ frame[t] \in Frames
        BY <1>0, <2>6, <3>1 DEF TypePages
      <4>2. CASE q = t
        <5>1. ~WorkedOn(frame[q], {"fill", "take"})
          BY <2>6, <4>1, <4>2, Worker
        <5>2. q \in dirty' /\ data'[frame[q]] = q
          BY <1>0, <2>6, <4>1, <4>2 DEF Write, NewContent, TypeFrames
        <5> QED BY <2>6, <4>2, <5>1, <5>2 DEF Intact
      <4>3. CASE q # t
        <5>1. NewContent(t, frame[t]) /\ (q \in dirty' <=> q \in dirty)
          BY <2>6, <4>3 DEF Write
        <5>2. UNCHANGED <<frame, sector, file, kind>> /\ pc[p] # "fill"
          BY <2>1
        <5> QED BY <2>6, <4>1, <4>3, <5>1, <5>2, OthersIntact
      <4> QED BY <4>2, <4>3
    <3> QED BY <2>1, <2>4, <3>1, ContentsSame
  <2> QED BY <2>3, <2>5, <2>6
<1>5. CASE Maps(p) \/ Fills(p) \/ SwapInResets(p) \/ SwapInForgets(p)
  <2> DEFINE Goes == /\ pc[p] \in {"fill", "reset"} /\ UNCHANGED <<cur, fr, why, lock, ptes>>
                     /\ \E place \in {"reset", "forget"} : Goto(p, place)
  <2>1. /\ pc[p] \in {"map", "fill", "reset", "forget"}
        /\ UNCHANGED <<page, frame, pages, swap, store, file, kind, spoiled>>
        /\ Goes \/ \E b \in BOOLEAN : Resident(p, b)
    <3>1. CASE SwapInResets(p)
      BY <3>1 DEF SwapInResets, local, frames, spt
    <3>2. CASE Maps(p) \/ Fills(p) \/ SwapInForgets(p)
      BY <3>2 DEF Maps, Fills, SwapInForgets, spt, disk
    <3> QED BY <1>5, <3>1, <3>2
  <2>2. /\ frame[cur[p]] = fr[p] /\ fr[p] \in Frames /\ cur[p] \in pages /\ lock[fr[p]] = p
        /\ cur[p] \in Pages /\ page[fr[p]] = cur[p]
    BY <1>0, <2>1 DEF ResidenceOf, Holders, Outside, Holding, Locals, FramesAgree, TypePages
  <2>3. pc'[p] \in {"user", "kernel", "reset", "forget"}
    BY <1>0, <2>1 DEF Resident, Return, Goto, TypeLocals
  <2>4. ContentsOf(p)'
    BY <2>3 DEF ContentsOf
  <2>5. /\ \A q \in Pages \ {cur[p]} : sector'[q] = sector[q]
        /\ pc[p] # "forget" => sector' = sector
        /\ \A f \in Frames \ {fr[p]} : data'[f] = data[f]
        /\ data'[fr[p]] = IF pc[p] = "fill" THEN Stored(cur[p]) ELSE data[fr[p]]
        /\ \A q \in Pages \ {cur[p]} : q \in dirty' <=> q \in dirty
    <3>1. \A q \in Pages \ {cur[p]} : q \in dirty' <=> q \in dirty
      BY <2>1 DEF Resident, SetPage, ptes
    <3>2. CASE Maps(p)
      BY <3>1, <3>2 DEF Maps, spt
    <3>3. CASE Fills(p)
      BY <1>0, <2>2, <3>1, <3>3 DEF Fills, TypeFrames, spt
    <3>4. CASE SwapInResets(p)
      BY <3>1, <3>4 DEF SwapInResets, frames, spt
    <3>5. CASE SwapInForgets(p)
      BY <1>0, <2>2, <3>1, <3>5 DEF SwapInForgets, SectorAfterSwapIn, TypePages
    <3> QED BY <1>5, <3>2, <3>3, <3>4, <3>5
  <2>6. ASSUME NEW q \in pages \ spoiled' PROVE Intact(p, q)
    <3>0. q \in Pages
      BY <1>0, <2>6 DEF TypePages
    <3>1. CASE q # cur[p]
      <4>1. Stored(q) = q => Stored(q)' = q
        BY <2>1, <2>5, <3>0, <3>1 DEF Stored
      <4>2. frame[q] # NULL => frame[q] \in Frames /\ frame[q] # fr[p]
        BY <1>0, <2>2, <3>0, <3>1 DEF TypePages, FramesAgree
      <4> QED BY <2>1, <2>5, <3>0, <3>1, <4>1, <4>2 DEF Intact
    <3>2. CASE q = cur[p]
      <4>1. q \notin spoiled
        BY <1>0, <2>6
      <4>2. pc[p] = "fill" => Stored(q) = q
        BY <1>0, <3>2, <4>1 DEF ContentsOf
      <4>3. data[frame[q]] = q \/ pc[p] = "fill" => data'[frame[q]] = q
        BY <2>2, <2>5, <3>2, <4>2
      <4>4. file[q] => q \in store
        <5>1. SUFFICES ASSUME file[q] PROVE q \in store
          OBVIOUS
        <5>2. CASE pc[p] = "map"
          <6>1. ~WorkedOn(frame[q], InTransit)
            BY <2>2, <3>2, <5>2 DEF WorkedOn, InTransit
          <6>2. q \notin present
            BY <1>0, <3>2, <5>2 DEF PresenceOf, Reasons
          <6> QED BY <1>1, <2>2, <3>0, <3>2, <4>1, <5>1, <6>1, <6>2 DEF PresenceAt
        <5>3. CASE pc[p] \in {"fill", "reset", "forget"}
          <6>1. ~WorkedOn(frame[q], {"swap"})
            BY <2>2, <3>2, <5>3 DEF WorkedOn
          <6>2. sector[q] = NULL
            BY <1>1, <3>0, <5>1, <6>1 DEF SlottedAt
          <6>3. pc[p] = "fill"
            BY <2>2, <3>2, <5>3, <6>2, SlotPlaces
          <6> QED BY <3>0, <4>2, <6>2, <6>3 DEF Stored
        <5> QED BY <2>1, <5>2, <5>3
      <4>5. ~(lock[frame[q]] # p) /\ frame[q] # NULL
        BY <2>2, <3>2
      <4> QED BY <2>1, <4>3, <4>4, <4>5 DEF Intact
    <3> QED BY <3>1, <3>2
  <2> QED BY <2>1, <2>4, <2>6, ContentsSame
<1>6. CASE PageOutClears(p) \/ PageOutFails(p) \/ SwapOutGetsSlot(p) \/ SwapOutWrites(p)
           \/ FileWrites(p)
  <2> DEFINE V == page[fr[p]]
  <2>1. /\ pc[p] \in {"clear", "slot", "write", "swap"} /\ fr[p] \in Frames /\ V \in Pages
        /\ V \in pages /\ frame[V] = fr[p] /\ lock[fr[p]] = p
        /\ UNCHANGED <<page, frame, data, cur, why, pages, dirty, kind>>
    BY <1>0, <1>6 DEF PageOutClears, PageOutFails, SwapOutGetsSlot, SwapOutWrites, FileWrites,
       ResidenceOf, PageOut, Holders, TypeFrames, local, frames, spt, ptes, Holding, FramesAgree
  <2>2. V \notin spoiled => data[fr[p]] = V
    <3>1. ~WorkedOn(fr[p], {"fill"})
      BY <2>1 DEF WorkedOn
    <3> QED BY <1>1, <2>1, <3>1 DEF ContentsAt
  <2>3. pc[p] # "swap" => sector[V] = NULL
    <3>1. pc[p] # "swap" => ~WorkedOn(fr[p], {"swap", "take", "fill", "reset", "forget"})
      BY <2>1 DEF WorkedOn
    <3> QED BY <1>1, <2>1, <3>1 DEF SlottedAt
  <2>4. CASE PageOutClears(p)
    <3>1. UNCHANGED <<sector, swap, store, file, fr>> /\ pc[p] = "clear"
          /\ pc'[p] = Destination(V)
      BY <1>0, <2>4 DEF PageOutClears, Victim, Goto, spt, disk, local, TypeLocals
    <3>2. Destination(V) = "take" => file[V] /\ V \notin dirty
      BY DEF Destination
    <3>3. Destination(V) = "take" /\ V \notin spoiled => Stored(V) = V
      BY <1>1, <2>1, <2>3, <3>1, <3>2 DEF ContentsAt, Stored, Backed
    <3>4. pc'[p] \in {"slot", "write", "take"}
      BY <3>1 DEF Destination
    <3>5. ContentsOf(p)'
      BY <1>0, <2>1, <3>1, <3>3, <3>4 DEF ContentsOf, Stored
    <3> QED BY <2>1, <3>1, <3>5, ContentsUntouched
  <2>5. CASE PageOutFails(p)
    <3>1. UNCHANGED <<sector, swap, store>> /\ pc[p] \in {"slot", "write"}
          /\ pc'[p] \in {"free", "failed"}
      BY <1>0, <2>5 DEF PageOutFails, Goto, spt, disk, TypeLocals
    <3>2. V \in spoiled' /\ (pc'[p] = "free" => why[p] = "unmap")
      BY <1>0, <2>5 DEF PageOutFails, Victim, Goto, TypeLocals
    <3>3. why[p] = "unmap" => V = cur[p]
      BY <1>0, <2>1 DEF ResidenceOf, PageOut
    <3>4. ContentsOf(p)'
      BY <2>1, <3>1, <3>2, <3>3 DEF ContentsOf
    <3> QED BY <2>1, <3>1, <3>4, ContentsUntouched
  <2>6. CASE SwapOutGetsSlot(p)
    <3>1. /\ UNCHANGED <<swap, store, file>> /\ pc[p] = "slot" /\ pc'[p] = "swap"
          /\ \A q \in Pages \ {V} : sector'[q] = sector[q]
      BY <1>0, <2>1, <2>6 DEF SwapOutGetsSlot, Victim, Goto, TypePages, TypeLocals
    <3>2. ContentsOf(p)'
      BY <3>1 DEF ContentsOf
    <3>3. ASSUME NEW q \in pages \ spoiled' PROVE Intact(p, q)
      <4>1. CASE q = V
        BY <2>1, <3>1, <4>1 DEF Intact
      <4>2. CASE q # V
        <5>1. q \in Pages /\ sector'[q] = sector[q]
          BY <1>0, <3>1, <3>3, <4>2 DEF TypePages
        <5> QED BY <2>1, <3>1, <5>1 DEF Intact, Stored
      <4> QED BY <4>1, <4>2
    <3> QED BY <2>1, <3>2, <3>3, ContentsSame
  <2>7. CASE SwapOutWrites(p)
    <3>1. /\ UNCHANGED <<sector, store, fr>> /\ pc[p] = "swap" /\ pc'[p] = "take"
          /\ swap' = [swap EXCEPT ![sector[V]] = data[fr[p]]]
      BY <1>0, <2>1, <2>7 DEF SwapOutWrites, Victim, Goto, local, TypeLocals
    <3>2. sector[V] # NULL /\ sector[V] \in 0..Slots - 1
      BY <1>0, <2>1, <3>1, SlotPlaces DEF TypePages
    <3>3. V \notin spoiled' => Stored(V)' = V
      BY <1>0, <2>1, <2>2, <3>1, <3>2 DEF Stored, TypeDisk
    <3>4. ContentsOf(p)'
      BY <2>1, <3>1, <3>3 DEF ContentsOf, Stored
    <3>5. ASSUME NEW q \in pages \ spoiled' PROVE Intact(p, q)
      <4>1. CASE q = V
        BY <2>1, <3>1, <4>1 DEF Intact
      <4>2. CASE q # V
        <5>1. q \in Pages /\ file'[q] = file[q]
          BY <1>0, <3>5, <4>2 DEF TypePages, UsesKept
        <5>2. CASE Forgetting(q)
          BY <2>1, <3>1, <5>1, <5>2 DEF Forgetting, WorkedOn, Intact
        <5>3. CASE ~Forgetting(q)
          <6>1. sector[q] # NULL => sector[q] \in 0..Slots - 1
            BY <1>0, <5>1 DEF TypePages
          <6>2. ~Forgetting(V)
            BY <2>1, <3>1 DEF Forgetting, WorkedOn
          <6>3. sector[q] # NULL => sector[q] # sector[V]
            BY <1>1, <2>1, <3>2, <4>2, <5>1, <5>3, <6>2 DEF Alone
          <6>4. sector[q] # NULL => swap'[sector[q]] = swap[sector[q]]
            BY <1>0, <3>1, <6>1, <6>3 DEF TypeDisk
          <6> QED BY <2>1, <3>1, <5>1, <6>4 DEF Intact, Stored
        <5> QED BY <5>2, <5>3
      <4> QED BY <4>1, <4>2
    <3> QED BY <2>1, <3>1, <3>4, <3>5, ContentsSame
  <2>8. CASE FileWrites(p)
    <3>1. /\ UNCHANGED <<sector, swap, file, fr>> /\ pc[p] = "write" /\ pc'[p] = "take"
          /\ store' = Written(V, fr[p])
      BY <1>0, <2>8 DEF FileWrites, Victim, Goto, local, spt, TypeLocals
    <3>2. V \notin spoiled' => V \in store'
      BY <1>0, <2>2, <3>1 DEF Written
    <3>3. \A q \in pages \ spoiled' : q \in store => q \in store'
      BY <3>1, <3>2 DEF Written
    <3>4. file[V] /\ kind[V] # "stack"
      BY <2>1, <3>1 DEF Backed
    <3>5. ContentsOf(p)'
      BY <2>1, <2>3, <3>1, <3>2, <3>4 DEF ContentsOf, Stored
    <3> QED BY <2>1, <3>1, <3>3, <3>5, ContentsUntouched
  <2> QED BY <1>6, <2>4, <2>5, <2>6, <2>7, <2>8
<1>7. CASE UnmapWrites(p)
  <2>1. /\ UNCHANGED <<page, frame, data, sector, swap, dirty, pages>> /\ pc[p] = "writeback"
        /\ cur[p] \in pages /\ cur[p] \in Pages
    BY <1>7 DEF UnmapWrites, frames, spt, Locals, Outside
  <2>2. \/ store' = store
        \/ cur[p] \in present /\ store' = Written(cur[p], frame[cur[p]])
    BY <1>7 DEF UnmapWrites
  <2>3. ASSUME NEW q \in pages \ spoiled', q \in store PROVE q \in store'
    <3>1. SUFFICES ASSUME q = cur[p], cur[p] \in present,
                          store' = Written(cur[p], frame[cur[p]])
                   PROVE  data[frame[q]] = q
      BY <2>2, <2>3 DEF Written
    <3>2. frame[q] # NULL
      BY <1>1, <2>1, <3>1 DEF PresenceAt
    <3>3. ~WorkedOn(frame[q], {"fill"})
      <4>1. WorkedOn(frame[q], {"fill"}) => WorkedOn(frame[q], {"fill", "take"})
        BY DEF WorkedOn
      <4> QED BY <2>1, <3>1, <3>2, <4>1, Worker
    <3> QED BY <1>0, <1>1, <2>1, <2>3, <3>1, <3>2, <3>3 DEF ContentsAt
  <2>4. pc'[p] \in {"writeback", "dealloc"}
    BY <1>0, <1>7 DEF UnmapWrites, Goto, TypeLocals
  <2>5. ContentsOf(p)'
    BY <2>4 DEF ContentsOf
  <2> QED BY <2>1, <2>3, <2>5, ContentsUntouched
<1>8. CASE Scans(p) \/ Clocks(p)
  <2>1. Searches(p) /\ frame[cur[p]] = NULL /\ cur[p] \in Pages /\ cur[p] \in pages
    BY <1>0, <1>8, Searched DEF Searches, ResidenceOf, Outside, Locals
  <2>2. /\ UNCHANGED <<cur, why, pages, data, sector, swap, store, dirty, file, kind, spoiled>>
        /\ pc[p] \in {"scan", "clock"}
    BY <2>1 DEF Searches, disk
  <2>3. CASE Passes(p)
    <3>1. UNCHANGED <<frame, page>> /\ pc'[p] \in {"scan", "clock", "failed"}
      BY <1>0, <2>3 DEF Passes, Goto, TypeLocals
    <3>2. ContentsOf(p)'
      BY <3>1 DEF ContentsOf
    <3> QED BY <2>2, <3>1, <3>2, ContentsUntouched
  <2>4. ASSUME NEW f \in Frames, Evicts(p, f) PROVE Contents'
    <3>1. UNCHANGED <<frame, page>> /\ pc'[p] = "clear"
      BY <1>0, <2>4 DEF Evicts, Goto, TypeLocals
    <3>2. ContentsOf(p)'
      BY <3>1 DEF ContentsOf
    <3> QED BY <2>2, <3>1, <3>2, ContentsUntouched
  <2>5. ASSUME NEW f \in Frames, lock[f] = NULL, page[f] = NULL, TakeFrame(p, f)
        PROVE  Contents'
    <3>1. /\ pc'[p] = "fill" /\ lock'[f] = p
          /\ \A q \in Pages : frame'[q] = IF q = cur[p] THEN f ELSE frame[q]
      BY <1>0, <2>1, <2>5 DEF TakeFrame, Goto, TypeLocals, TypePages, TypeFrames
    <3>2. \A q : Stored(q)' = Stored(q)
      BY <2>2 DEF Stored
    <3>3. cur[p] \notin spoiled => Stored(cur[p]) = cur[p]
      BY <1>1, <2>1 DEF ContentsAt
    <3>4. cur[p] \notin spoiled /\ file[cur[p]] => cur[p] \in store
      <4>1. file[cur[p]] => sector[cur[p]] = NULL
        BY <1>1, <2>1 DEF SlottedAt
      <4> QED BY <2>1, <3>3, <4>1 DEF Stored
    <3>5. ASSUME NEW q \in Pages PROVE ContentsAt(q)'
      <4>1. CASE q = cur[p]
        BY <2>1, <2>2, <3>1, <3>4, <4>1 DEF ContentsAt, WorkedOn
      <4>2. CASE q # cur[p]
        <5>1. /\ frame'[q] = frame[q] /\ ContentsAt(q)
              /\ frame[q] # NULL => frame[q] \in Frames
          BY <1>0, <1>1, <3>1, <4>2 DEF TypePages
        <5>2. frame[q] # NULL /\ WorkedOn(frame[q], {"fill"}) => WorkedOn(frame[q], {"fill"})'
          <6>1. WorkedOn(frame[q], {"fill"}) => lock[frame[q]] # p
            BY <2>2 DEF WorkedOn
          <6> QED BY <1>0, <5>1, <6>1, WorkedOnKept
        <5> QED BY <2>2, <3>2, <5>1, <5>2 DEF ContentsAt
      <4> QED BY <4>1, <4>2
    <3>6. ContentsOf(p)'
      BY <2>2, <3>1, <3>3 DEF ContentsOf, Stored
    <3>7. ASSUME NEW r \in Procs \ {p} PROVE ContentsOf(r)'
      <4>1. ContentsOf(r) /\ (pc[r] \in Holders => lock[fr[r]] = r /\ fr[r] \in Frames)
        BY ContentsParts DEF Holding
      <4>2. pc[r] \in Holders => page'[fr[r]] = page[fr[r]]
        BY <1>0, <4>1 DEF FramesKept
      <4>3. pc[r] = "free" => frame'[cur[r]] = frame[cur[r]]
        BY <2>2, <3>1, Distinct DEF Outside
      <4> QED BY <1>0, <2>2, <4>1, <4>2, <4>3 DEF ContentsOf, OthersKept, Holders, Stored
    <3> QED BY <1>2, <3>5, <3>6, <3>7
  <2> QED BY <2>1, <2>3, <2>4, <2>5 DEF Searches
<1>9. CASE PageOutReturns(p)
  <2> DEFINE V == page[fr[p]]
  <2>1. /\ pc[p] = "take" /\ fr[p] \in Frames /\ cur[p] \in Pages /\ lock[fr[p]] = p
        /\ cur[p] \in pages
        /\ UNCHANGED <<cur, why, lock, fr, pages, file, kind, sector, swap, store, dirty, data,
                       spoiled>>
    BY <1>9 DEF PageOutReturns, local, Holders, Outside, Holding, ptes, disk, Locals
  <2>2. V \in Pages /\ V # NULL /\ frame[V] = fr[p]
        /\ IF why[p] = "unmap" THEN V = cur[p] ELSE frame[cur[p]] = NULL /\ V # cur[p]
    BY <1>0, <2>1 DEF ResidenceOf, PageOut, TypeFrames
  <2>3. \A q \in Pages : frame'[q] = IF q = V THEN NULL
                                     ELSE IF q = cur[p] THEN fr[p] ELSE frame[q]
    BY <1>0, <1>9, <2>1, <2>2 DEF PageOutReturns, Victim, TypePages
  <2>4. pc'[p] = IF why[p] = "unmap" THEN "free" ELSE "fill"
    BY <1>0, <1>9 DEF PageOutReturns, Goto, TypeLocals
  <2>5. \A q : Stored(q)' = Stored(q)
    BY <2>1 DEF Stored
  <2>6. V \notin spoiled => Stored(V) = V
    BY <1>0, <2>1 DEF ContentsOf
  <2>7. frame[cur[p]] = NULL /\ cur[p] \notin spoiled =>
          Stored(cur[p]) = cur[p] /\ (file[cur[p]] => cur[p] \in store)
    <3>1. frame[cur[p]] = NULL /\ cur[p] \notin spoiled => Stored(cur[p]) = cur[p]
      BY <1>1, <2>1 DEF ContentsAt
    <3>2. frame[cur[p]] = NULL /\ file[cur[p]] => sector[cur[p]] = NULL
      BY <1>1, <2>1 DEF SlottedAt
    <3> QED BY <2>1, <3>1, <3>2 DEF Stored
  <2>8. ASSUME NEW q \in Pages PROVE ContentsAt(q)'
    <3>1. CASE q = V
      BY <2>1, <2>2, <2>3, <2>5, <2>6, <3>1 DEF ContentsAt
    <3>2. CASE q # V /\ q = cur[p]
      BY <2>1, <2>2, <2>3, <2>4, <2>7, <3>2 DEF ContentsAt, WorkedOn
    <3>3. CASE q # V /\ q # cur[p]
      <4>1. /\ frame'[q] = frame[q] /\ ContentsAt(q)
            /\ frame[q] # NULL => frame[q] \in Frames
        BY <1>0, <1>1, <2>3, <3>3 DEF TypePages
      <4>2. frame[q] # NULL /\ WorkedOn(frame[q], {"fill"}) => WorkedOn(frame[q], {"fill"})'
        <5>1. WorkedOn(frame[q], {"fill"}) => lock[frame[q]] # p
          BY <2>1 DEF WorkedOn
        <5> QED BY <1>0, <4>1, <5>1, WorkedOnKept
      <4> QED BY <2>1, <2>5, <4>1, <4>2 DEF ContentsAt
    <3> QED BY <3>1, <3>2, <3>3
  <2>9. ContentsOf(p)'
    BY <2>1, <2>2, <2>3, <2>4, <2>7 DEF ContentsOf, Stored
  <2>10. ASSUME NEW r \in Procs \ {p} PROVE ContentsOf(r)'
    <3>1. ContentsOf(r) /\ (pc[r] \in Holders => lock[fr[r]] = r /\ fr[r] \in Frames)
      BY ContentsParts DEF Holding
    <3>2. pc[r] \in Holders => page'[fr[r]] = page[fr[r]]
      BY <1>0, <3>1 DEF FramesKept
    <3>3. pc[r] = "free" => cur[r] # cur[p] /\ cur[r] \in Pages
      BY <2>1, Distinct DEF Outside
    <3>4. pc[r] = "free" /\ frame[cur[r]] = NULL => frame'[cur[r]] = NULL
      BY <2>3, <3>3
    <3> QED BY <1>0, <2>1, <3>1, <3>2, <3>4 DEF ContentsOf, OthersKept, Holders, Stored
  <2> QED BY <1>2, <2>8, <2>9, <2>10
<1>10. CASE FreesFrame(p) \/ FreesNoFrame(p)
  <2>1. /\ pages' = pages \ {cur[p]} /\ pc[p] \in {"free", "gone"} /\ cur[p] \in Pages
        /\ \A q \in Pages : /\ frame'[q] = IF q = cur[p] THEN NULL ELSE frame[q]
                            /\ q # cur[p] => sector'[q] = sector[q]
        /\ UNCHANGED <<file, kind, swap, store, dirty, data, spoiled>>
        /\ pc'[p] \in {"user", "exit"}
    BY <1>0, <1>10 DEF FreesFrame, FreesNoFrame, FreesPage, Return, Goto, TypeLocals, TypePages,
       Outside, ptes, disk, frames
  <2>2. ASSUME NEW q, q \in Pages \ {cur[p]} PROVE Stored(q)' = Stored(q)
    BY <2>1, <2>2 DEF Stored
  <2>3. ASSUME NEW q \in Pages PROVE ContentsAt(q)'
    <3>1. CASE q = cur[p]
      BY <2>1, <3>1 DEF ContentsAt
    <3>2. CASE q # cur[p]
      <4>1. /\ frame'[q] = frame[q] /\ ContentsAt(q)
            /\ frame[q] # NULL => frame[q] \in Frames
        BY <1>0, <1>1, <2>1, <3>2 DEF TypePages
      <4>2. frame[q] # NULL /\ WorkedOn(frame[q], {"fill"}) => WorkedOn(frame[q], {"fill"})'
        <5>1. WorkedOn(frame[q], {"fill"}) => lock[frame[q]] # p
          BY <2>1 DEF WorkedOn
        <5> QED BY <1>0, <4>1, <5>1, WorkedOnKept
      <4> QED BY <2>1, <2>2, <3>2, <4>1, <4>2 DEF ContentsAt
    <3> QED BY <3>1, <3>2
  <2>4. ContentsOf(p)'
    BY <2>1 DEF ContentsOf
  <2>5. ASSUME NEW r \in Procs \ {p} PROVE ContentsOf(r)'
    <3>1. ContentsOf(r) /\ (pc[r] \in Holders => lock[fr[r]] = r /\ fr[r] \in Frames)
      BY ContentsParts DEF Holding
    <3>2. pc[r] \in Holders => page'[fr[r]] = page[fr[r]]
      BY <1>0, <3>1 DEF FramesKept
    <3>3. pc[r] \in {"free", "fill"} => cur[r] # cur[p] /\ cur[r] \in Pages
      BY <2>1, Distinct DEF Outside
    <3>4. pc[r] \in {"fill", "take"} => page[fr[r]] # cur[p] /\ page[fr[r]] \in Pages
      <4>1. pc[r] \in {"fill", "take"} =>
               /\ page[fr[r]] \in pages /\ frame[page[fr[r]]] = fr[r] /\ fr[r] \in Frames
        BY Transit
      <4>2. pc[r] \in {"fill", "take"} /\ page[fr[r]] = cur[p] => frame[cur[p]] = fr[r]
        BY <4>1
      <4>3. pc[r] \in {"fill", "take"} /\ pc[p] = "free" => fr[r] # fr[p]
        BY Distinct DEF Holders
      <4>4. pc[p] = "free" => frame[cur[p]] \in {fr[p], NULL}
        BY <1>0 DEF ResidenceOf
      <4>5. pc[p] = "gone" => frame[cur[p]] = NULL
        BY <1>0 DEF ResidenceOf
      <4> QED BY <1>0, <2>1, <4>1, <4>2, <4>3, <4>4, <4>5 DEF TypePages
    <3>5. pc[r] = "fill" => sector'[cur[r]] = sector[cur[r]]
      BY <2>1, <3>3
    <3>6. pc[r] = "take" => sector'[page[fr[r]]] = sector[page[fr[r]]]
      BY <2>1, <3>4
    <3>7. pc[r] = "free" => frame'[cur[r]] = frame[cur[r]]
      BY <2>1, <3>3
    <3> QED BY <1>0, <2>1, <3>1, <3>2, <3>5, <3>6, <3>7 DEF ContentsOf, OthersKept, Holders, Stored
  <2> QED BY <1>2, <2>3, <2>4, <2>5
<1>11. CASE SetsUpStack(p)
  <2>1. /\ pc[p] = "fill" /\ why[p] = "load" /\ NewContent(cur[p], fr[p])
        /\ UNCHANGED <<page, frame, sector, file, kind, pages, dirty, spoiled>>
    BY <1>11 DEF SetsUpStack, spt, ptes
  <2>2. /\ frame[cur[p]] = fr[p] /\ fr[p] \in Frames /\ cur[p] \in pages /\ lock[fr[p]] = p
        /\ cur[p] \in Pages /\ fr[p] # NULL
    BY <1>0, <2>1 DEF ResidenceOf, Holders, Outside, Holding, Locals, TypePages
  <2>3. pc'[p] \in {"user", "exit"}
    BY <1>0, <1>11 DEF SetsUpStack, Return, Goto, TypeLocals
  <2>4. ContentsOf(p)'
    BY <2>3 DEF ContentsOf
  <2>5. ASSUME NEW q \in pages \ spoiled' PROVE Intact(p, q)
    <3>1. CASE q = cur[p]
      <4>1. ~file[q]
        BY <2>1, <2>2, <3>1 DEF Backed, Outside
      <4>2. data'[frame[q]] = q
        BY <1>0, <2>1, <2>2, <3>1 DEF NewContent, TypeFrames
      <4> QED BY <2>2, <3>1, <4>1, <4>2 DEF Intact
    <3>2. CASE q # cur[p]
      <4>1. q \in Pages /\ frame[cur[p]] # NULL /\ NewContent(cur[p], frame[cur[p]])
        BY <1>0, <2>1, <2>2, <2>5 DEF TypePages
      <4> QED BY <2>1, <2>2, <3>2, <4>1, OthersIntact
    <3> QED BY <3>1, <3>2
  <2> QED BY <2>1, <2>4, <2>5, ContentsSame
<1> QED BY <1>3, <1>4, <1>5, <1>6, <1>7, <1>8, <1>9, <1>10, <1>11
       DEF Step, Locking, Kernel, User

-----------------------------------------------------------------------------
(* The invariant, and what follows from it.                                *)

\* Before the first exec no page exists, every entry is clear, and frames[0]
\* is locked by nobody who will ever release it (frame_init).
LEMMA InitInv == Init => Inv
<1> SUFFICES ASSUME Init PROVE Inv
  OBVIOUS
<1> USE VmAssumption, Constants
<1>1. TypeOK
  <2>1. TypeLocals
    BY DEF Init, TypeLocals, PCs
  <2>2. TypeFrames
    BY DEF Init, TypeFrames, Frames
  <2>3. TypePages
    BY DEF Init, TypePages, Kinds
  <2>4. TypeDisk /\ panic \in BOOLEAN
    BY DEF Init, TypeDisk
  <2> QED BY <2>1, <2>2, <2>3, <2>4, TypeParts
<1>2. Locals /\ Reasons
  BY DEF Init, Locals, Reasons, Outside, Holders, PageOut, Brings
<1>3. Holding
  BY DEF Init, Holding, Holders
<1>4. Residence
  BY DEF Init, Residence, PageOut
<1>5. Slotted
  BY DEF Init, Slotted
<1>6. Backed
  BY DEF Init, Backed, Outside
<1>7. Presence
  BY DEF Init, Presence, PageOut
<1>8. Contents
  BY DEF Init, Contents
<1> QED BY <1>1, <1>2, <1>3, <1>4, <1>5, <1>6, <1>7, <1>8 DEF Inv

\* Every step of every process keeps all nine parts.
LEMMA InvStep == Inv /\ [Next]_vars => Inv'
<1> SUFFICES ASSUME Inv, [Next]_vars PROVE Inv'
  OBVIOUS
<1>0. /\ TypeOK /\ Locals /\ Reasons /\ Holding /\ Residence /\ Slotted /\ Backed
      /\ Presence /\ Contents
  BY DEF Inv
<1>1. CASE UNCHANGED vars
  <2> USE <1>1 DEF vars, local, frames, spt, ptes, disk
  <2>1. TypeOK'
    BY <1>0 DEF TypeOK
  <2>2. Locals' /\ Reasons'
    BY <1>0 DEF Locals, Reasons
  <2>3. Holding' /\ Residence' /\ Slotted'
    BY <1>0 DEF Holding, Residence, Slotted, Forgetting, WorkedOn
  <2>4. Backed' /\ Presence'
    BY <1>0 DEF Backed, Presence, WorkedOn
  <2>5. Contents'
    BY <1>0 DEF Contents, WorkedOn, Stored
  <2> QED BY <2>1, <2>2, <2>3, <2>4, <2>5 DEF Inv
<1>2. ASSUME NEW p \in Procs, Step(p) PROVE Inv'
  <2>1. TypeLocals' /\ TypeFrames' /\ TypePages' /\ TypeDisk' /\ panic' \in BOOLEAN
    BY <1>0, <1>2, TypeParts, TypeLocalsStep, TypeFramesStep, TypePagesStep, TypeDiskStep,
       PanicStep
  <2>2. TypeOK'
    BY <2>1 DEF TypeOK, TypeLocals, TypeFrames, TypePages, TypeDisk
  <2>3. Locals' /\ Reasons' /\ Holding'
    BY <1>0, <1>2, LocalsStep, ReasonsStep, HoldingStep
  <2>4. Residence' /\ Slotted' /\ Backed'
    BY <1>0, <1>2, ResidenceStep, SlottedStep, BackedStep
  <2>5. Presence' /\ Contents'
    BY <1>0, <1>2, PresenceStep, ContentsStep
  <2> QED BY <2>2, <2>3, <2>4, <2>5 DEF Inv
<1> QED BY <1>1, <1>2 DEF Next, Stopped, Step

\* In every reachable state of the frame table, the page tables and swap, the
\* nine parts hold together.
THEOREM InvAlways == Spec => []Inv
BY InitInv, InvStep, PTL DEF Spec

\* Every variable keeps its type: in particular the clock hand stays in the
\* table (frame_alloc_and_lock) and a sector is a slot of the device.
THEOREM TypeCorrect == Spec => []TypeOK
<1>1. Inv => TypeOK
  BY DEF Inv
<1> QED BY <1>1, InvAlways, PTL

\* What a program reads through a present entry is what it last wrote
\* (install_page_in, page_out).
THEOREM AlwaysCurrent == Spec => []PresentCurrent
<1>1. Inv => PresentCurrent
  <2> SUFFICES ASSUME Inv, NEW q \in present \cap pages
               PROVE  /\ frame[q] # NULL /\ page[frame[q]] = q
                      /\ q \notin spoiled => data[frame[q]] = q
    BY DEF PresentCurrent
  <2>1. TypeOK /\ Locals /\ Holding /\ Residence /\ Presence /\ Contents /\ q \in Pages
    BY DEF Inv, TypeOK
  <2>2. frame[q] # NULL
    BY <2>1 DEF Presence
  <2>3. page[frame[q]] = q
    BY <2>1, <2>2 DEF Residence
  <2>4. ~WorkedOn(frame[q], {"fill"})
    BY <2>1, <2>2, Worker DEF WorkedOn
  <2> QED BY <2>1, <2>2, <2>3, <2>4 DEF Contents
<1> QED BY <1>1, InvAlways, PTL

\* The slot or the file of a page that is in no frame has what was last
\* written (swap_out, file_write_at in page_out).
THEOREM ContentsKept == Spec => []NothingLost
<1>1. Inv => NothingLost
  BY DEF Inv, Contents, NothingLost
<1> QED BY <1>1, InvAlways, PTL

\* Slots, frames and frame locks agree (swap_out, frame_free, frame_unlock).
THEOREM TablesAlwaysAgree == Spec => []TablesAgree
<1>1. Inv => TablesAgree
  <2> SUFFICES ASSUME Inv PROVE TablesAgree
    OBVIOUS
  <2>1. TypeOK /\ Holding /\ Residence /\ Slotted /\ pages \subseteq Pages
    BY DEF Inv, TypeOK
  <2>2. SlotsExclusive
    <3>1. ASSUME NEW q \in Pages, Forgetting(q) PROVE Stale(q)
      <4>1. frame[q] \in Frames /\ page[frame[q]] = q /\ lock[frame[q]] \in Procs
            /\ pc[lock[frame[q]]] = "forget"
        BY <2>1, <3>1 DEF Forgetting, WorkedOn, Residence, TypeOK
      <4>2. /\ fr[lock[frame[q]]] = frame[q]
            /\ frame[cur[lock[frame[q]]]] = fr[lock[frame[q]]]
            /\ cur[lock[frame[q]]] \in Pages
        BY <2>1, <4>1, Where DEF Holding, Residence, Outside, Inv
      <4>3. cur[lock[frame[q]]] = q
        BY <2>1, <4>1, <4>2, Constants DEF Residence
      <4> QED BY <4>1, <4>3 DEF Stale
    <3> QED BY <2>1, <3>1 DEF Slotted, SlotsExclusive
  <2>3. NoDanglingPage
    BY <2>1, Constants DEF Residence, NoDanglingPage, WorkedOn
  <2>4. LocksReturned
    BY <2>1 DEF Holding, Holders, LocksReturned
  <2> QED BY <2>2, <2>3, <2>4 DEF TablesAgree
<1> QED BY <1>1, InvAlways, PTL

\* Only page_deallocate, after page_out has written the page, removes a mapped
\* page from its table, so that the file has what was last written.
THEOREM AlwaysWrittenBack == Spec => WrittenBack
<1>1. Inv /\ [Next]_vars =>
        [\A q \in pages \ pages' : kind[q] = "map" /\ q \notin spoiled => q \in store']_vars
  <2> SUFFICES ASSUME Inv, NEW p \in Procs, Step(p), NEW q \in pages \ pages',
                      kind[q] = "map", q \notin spoiled
               PROVE  q \in store'
    BY DEF Next, Stopped, Step
  <2>1. /\ TypeOK /\ Locals /\ Reasons /\ Residence /\ Slotted /\ Backed /\ Contents
        /\ q \in Pages
    BY DEF Inv, TypeOK
  <2>2. pc[p] \in {"free", "gone"} /\ q = cur[p] /\ pc'[p] \in {"user", "exit"}
    BY <2>1, PagesStep DEF PagesKept
  <2>3. why[p] = "unmap"
    BY <2>1, <2>2 DEF Reasons, Backed, Outside
  <2>4. frame[q] = NULL
    BY <2>1, <2>2, <2>3 DEF Contents, Residence
  <2>5. Stored(q) = q /\ file[q] /\ sector[q] = NULL
    BY <2>1, <2>4 DEF Contents, Backed, Slotted
  <2>6. q \in store
    BY <2>1, <2>5, Constants DEF Stored
  <2>7. store' = store
    <3>1. FreesFrame(p) \/ FreesNoFrame(p)
      BY <2>2 DEF Step, Locking, Kernel, User, Load, UserReads, UserWrites, Exits, Mmap, Faults,
         StartsFrameLock, Unmaps, FrameLockGets, AllocStarts, FrameLockRechecks, Maps, Scans,
         Clocks, AllocFails, PageOutClears, SwapOutGetsSlot, PageOutFails, SwapOutWrites,
         FileWrites, PageOutReturns, Fills, SetsUpStack, SwapInResets, SwapInForgets,
         KernelAccesses, UnmapWrites, Deallocates, Destroys, Dies
    <3> QED BY <3>1 DEF FreesFrame, FreesNoFrame, disk
  <2> QED BY <2>6, <2>7
<1> QED BY <1>1, InvAlways, PTL DEF Spec, WrittenBack
=============================================================================
