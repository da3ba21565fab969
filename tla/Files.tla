------------------------------- MODULE Files -------------------------------
(***************************************************************************)
(* Open files of lab 3 (filesys/ and the file calls of userprog/syscall.c  *)
(* in src/lab3/pintos3_all_passed): the root directory, the free map, the  *)
(* in-memory inodes with their counters, and the references processes hold *)
(* to them: descriptors, mappings and the executable they run.             *)
(*                                                                         *)
(* The file calls hold fs_lock, and sys_exec holds it for the child while  *)
(* that loads.  Two users of inodes do not: process_exit when it closes    *)
(* the executable, and the eviction of a mapped page.  So a file call is   *)
(* cut where one of these could come between, which is at every access to  *)
(* a counter: an update reads it into a register (seen) and writes it      *)
(* later, and an assertion tests what was read.  The lists and bitmaps are *)
(* taken to change in one step.  An inode is named by its sector; a file   *)
(* has one data sector.                                                    *)
(***************************************************************************)
EXTENDS Integers, FiniteSets, FiniteSetsExt

CONSTANTS
    Procs, Names,
    Programs,    \* the names that are executed
    Created,     \* the names that are created
    InitDir,     \* the directory at the start: name -> sector
    InitStart,   \* sector of an inode -> its data sector
    Sectors,     \* the sectors of the file system, from 1
    DirSize,     \* entries the root directory has room for
    MaxFds,      \* a bound: descriptors per process and file
    MaxMaps,     \* a bound: mappings per process
    None

ASSUME FilesAssumption ==
    /\ IsFiniteSet(Procs) /\ Programs \cup Created \subseteq Names
    /\ Sectors \in Nat /\ DirSize \in Nat /\ MaxFds \in Nat /\ MaxMaps \in Nat
    /\ None \notin Procs \cup 1..Sectors

Sector == 1..Sectors

\* The disk as formatting and copying leave it: each file has an inode and a
\* data sector of its own.
ASSUME DiskAssumption ==
    /\ DOMAIN InitDir \subseteq Names
    /\ InitDir \in [DOMAIN InitDir -> DOMAIN InitStart]
    /\ \A m, n \in DOMAIN InitDir : InitDir[m] = InitDir[n] => m = n
    /\ \A s \in DOMAIN InitStart : \E n \in DOMAIN InitDir : InitDir[n] = s
    /\ DOMAIN InitStart \subseteq Sector
    /\ InitStart \in [DOMAIN InitStart -> Sector]
    /\ \A s, t \in DOMAIN InitStart :
          s # t => {s, InitStart[s]} \cap {t, InitStart[t]} = {}

VARIABLES
    pc, inode, seen, back,  \* of each process: where it is, its locals, and
                            \* where it goes on
    fds, maps, bin_file,    \* the references it holds; fds: sector -> how many
    fs_lock,
    dir, start, free_map,   \* on disk: the directory, inode_disk.start, and
                            \* the sectors in use
    open_inodes,            \* the inodes in memory
    open_cnt, deny_write_cnt, removed,     \* their fields
    panic,                  \* an assertion failed
    freed,                  \* the inode freed while in use, if there is one
    ran, spoiled,           \* ghosts: the inodes in memory that were executed,
                            \* and those with a counter that lost an update
    tampered, lost          \* ghosts: processes whose executable was changed
                            \* under them, sectors no file will give back

refs    == <<fds, maps, bin_file>>
onDisk  == <<dir, start, free_map>>
inodes  == <<open_inodes, open_cnt, deny_write_cnt, removed>>
local   == <<inode, seen, back>>
crash   == <<panic, freed>>
history == <<ran, spoiled>>
vars    == <<pc, local, refs, fs_lock, onDisk, inodes, crash, history, tampered, lost>>

Entries == DOMAIN dir

Opening   == {"reopen", "count", "fresh"}
Denying   == {"deny", "denies", "denied"}
Allowing  == {"allow", "allows"}
Closing   == {"close", "closes", "last"}

TypeOK ==
    /\ pc \in [Procs -> {"new", "user", "opened", "mapped", "evict", "erase", "exit", "dead"}
                        \cup Opening \cup Denying \cup Allowing \cup Closing]
    /\ back \in [Procs -> {"user", "opened", "mapped", "deny", "erase", "exit", "dead"}]
    /\ inode \in [Procs -> Sector \cup {None}]
    /\ seen \in [Procs -> Int]
    /\ fds \in [Procs -> [Sector -> 0..MaxFds]]
    /\ maps \in [Procs -> SUBSET Sector]
    /\ bin_file \in [Procs -> Sector \cup {None}]
    /\ fs_lock \in Procs \cup {None}
    /\ Entries \subseteq Names /\ \A n \in Entries : dir[n] \in Sector
    /\ start \in [Sector -> Sector \cup {None}]
    /\ free_map \subseteq Sector
    /\ open_inodes \subseteq Sector
    /\ open_cnt \in [Sector -> Int] /\ deny_write_cnt \in [Sector -> Nat]
    /\ removed \subseteq Sector
    /\ panic \in BOOLEAN /\ freed \subseteq Sector
    /\ ran \subseteq Sector /\ spoiled \subseteq Sector
    /\ tampered \subseteq Procs /\ lost \subseteq Sector

Init ==
    /\ pc = [p \in Procs |-> "new"]
    /\ inode = [p \in Procs |-> None] /\ seen = [p \in Procs |-> 0]
    /\ back = [p \in Procs |-> "user"]
    /\ fds = [p \in Procs |-> [s \in Sector |-> 0]]
    /\ maps = [p \in Procs |-> {}] /\ bin_file = [p \in Procs |-> None]
    /\ fs_lock = None
    /\ dir = InitDir
    /\ start = [s \in Sector |-> IF s \in DOMAIN InitStart THEN InitStart[s] ELSE None]
    /\ free_map = UNION {{s, InitStart[s]} : s \in DOMAIN InitStart}
    /\ open_inodes = {}
    /\ open_cnt = [s \in Sector |-> 0] /\ deny_write_cnt = [s \in Sector |-> 0]
    /\ removed = {}
    /\ panic = FALSE /\ freed = {}
    /\ ran = {} /\ spoiled = {} /\ tampered = {} /\ lost = {}

Goto(p, place) == pc' = [pc EXCEPT ![p] = place]

\* Mutant: a file call does not wait for the lock.
Takes_NoWait(p) == fs_lock' = p

Takes(p) == fs_lock = None /\ fs_lock' = p

\* Mutant: a process that exits keeps the lock.
LockAfterReturn_Kept(p) == IF fs_lock = p /\ back[p] # "exit" THEN None ELSE fs_lock

LockAfterReturn(p) == IF fs_lock = p THEN None ELSE fs_lock

\* A file call returns: its locals are no more, and fs_lock is free if it was
\* the caller's.
Return(p) ==
    /\ Goto(p, back[p])
    /\ fs_lock' = LockAfterReturn(p)
    /\ inode' = [inode EXCEPT ![p] = None]
    /\ seen' = [seen EXCEPT ![p] = 0]
    /\ back' = [back EXCEPT ![p] = "user"]

Panics ==
    /\ panic' = TRUE
    /\ UNCHANGED <<pc, local, refs, fs_lock, onDisk, inodes, freed, history, tampered, lost>>

\* The read and the write of an update of the counter cnt of p's inode.  When
\* it has changed in between, the other update is lost.
Reads(p, cnt) ==
    /\ seen' = [seen EXCEPT ![p] = cnt[inode[p]]]
    /\ UNCHANGED <<inode, back>>

Stores(p, cnt) ==
    spoiled' = IF cnt[inode[p]] = seen[p] THEN spoiled ELSE spoiled \cup {inode[p]}

-----------------------------------------------------------------------------
(* The directory and the free map.                                         *)

Free == Sector \ free_map

\* filesys_create, under fs_lock: free_map_allocate, inode_create, dir_add.
\* When dir_add fails the inode's sector is given back, its data is not.
Creates(p) ==
    /\ pc[p] = "user" /\ fs_lock = None
    /\ \E n \in Created :
          \/ Cardinality(Free) < 2 /\ UNCHANGED <<dir, start, free_map, lost>>
          \/ /\ Cardinality(Free) >= 2
             /\ LET s == Min(Free)
                    d == Min(Free \ {s}) IN
                IF n \in Entries \/ Cardinality(Entries) = DirSize
                THEN /\ free_map' = free_map \cup {d}
                     /\ lost' = lost \cup {d}
                     /\ UNCHANGED <<dir, start>>
                ELSE /\ free_map' = free_map \cup {s, d}
                     /\ start' = [start EXCEPT ![s] = d]
                     /\ dir' = [m \in Entries \cup {n} |-> IF m = n THEN s ELSE dir[m]]
                     /\ UNCHANGED lost
    /\ UNCHANGED <<pc, local, refs, fs_lock, inodes, crash, history, tampered>>

-----------------------------------------------------------------------------
(* inode_open: the search of open_inodes, and inode_reopen of what it      *)
(* found or a new inode.  The caller goes on at back.                      *)

\* dir_lookup of n, and the search.
Finds(p, n, place) ==
    /\ Takes(p)
    /\ n \in Entries
    /\ inode' = [inode EXCEPT ![p] = dir[n]]
    /\ back' = [back EXCEPT ![p] = place]
    /\ Goto(p, IF dir[n] \in open_inodes THEN "reopen" ELSE "fresh")
    /\ UNCHANGED <<seen, refs, onDisk, inodes, crash, history, tampered, lost>>

GoesOn(p) == Goto(p, back[p]) /\ back' = [back EXCEPT ![p] = "user"]

\* inode_reopen.
ReopenReads(p) ==
    /\ pc[p] = "reopen"
    /\ Reads(p, open_cnt)
    /\ Goto(p, "count")
    /\ UNCHANGED <<refs, fs_lock, onDisk, inodes, crash, history, tampered, lost>>

\* Mutant: an inode that is open already is not counted again.
CountAfterReopen_Once(p) == seen[p]

CountAfterReopen(p) == seen[p] + 1

ReopenWrites(p) ==
    /\ pc[p] = "count"
    /\ open_cnt' = [open_cnt EXCEPT ![inode[p]] = CountAfterReopen(p)]
    /\ Stores(p, open_cnt)
    /\ GoesOn(p)
    /\ UNCHANGED <<inode, seen, refs, fs_lock, onDisk, open_inodes, deny_write_cnt, removed,
                   crash, ran, tampered, lost>>

\* The inode comes into memory.
InodeOpens(p) ==
    LET s == inode[p] IN
    /\ pc[p] = "fresh"
    /\ open_inodes' = open_inodes \cup {s}
    /\ open_cnt' = [open_cnt EXCEPT ![s] = 1]
    /\ deny_write_cnt' = [deny_write_cnt EXCEPT ![s] = 0]
    /\ removed' = removed \ {s}
    /\ ran' = ran \ {s} /\ spoiled' = spoiled \ {s}
    /\ GoesOn(p)
    /\ UNCHANGED <<inode, seen, refs, fs_lock, onDisk, crash, tampered, lost>>

\* sys_exec, with the load of the child: filesys_open of the executable.
Loads(p) == pc[p] = "new" /\ \E n \in Programs : Finds(p, n, "deny")

\* inode_deny_write.
DenyReads(p) ==
    /\ pc[p] = "deny"
    /\ Reads(p, deny_write_cnt)
    /\ Goto(p, "denies")
    /\ UNCHANGED <<refs, fs_lock, onDisk, inodes, crash, history, tampered, lost>>

DenyWrites(p) ==
    /\ pc[p] = "denies"
    /\ deny_write_cnt' = [deny_write_cnt EXCEPT ![inode[p]] = seen[p] + 1]
    /\ Stores(p, deny_write_cnt)
    /\ ran' = ran \cup {inode[p]}
    /\ Goto(p, "denied")
    /\ UNCHANGED <<local, refs, fs_lock, onDisk, open_inodes, open_cnt, removed, crash,
                   tampered, lost>>

\* The assertion at its end, with the count just written; then the load is over.
DenyTests(p) ==
    /\ pc[p] = "denied"
    /\ \/ seen[p] + 1 > open_cnt[inode[p]] /\ Panics
       \/ /\ seen[p] + 1 <= open_cnt[inode[p]]
          /\ bin_file' = [bin_file EXCEPT ![p] = inode[p]]
          /\ Return(p)
          /\ UNCHANGED <<fds, maps, onDisk, inodes, crash, history, tampered, lost>>

\* sys_open.
Opens(p) ==
    /\ pc[p] = "user"
    /\ \E n \in Entries : fds[p][dir[n]] < MaxFds /\ Finds(p, n, "opened")

OpenReturns(p) ==
    /\ pc[p] = "opened"
    /\ fds' = [fds EXCEPT ![p][inode[p]] = @ + 1]
    /\ Return(p)
    /\ UNCHANGED <<maps, bin_file, onDisk, inodes, crash, history, tampered, lost>>

\* sys_mmap: file_reopen.  Nothing ever closes the file of a mapping.
Mmaps(p) ==
    /\ pc[p] = "user" /\ Cardinality(maps[p]) < MaxMaps
    /\ Takes(p)
    /\ \E s \in Sector \ maps[p] : fds[p][s] > 0 /\ inode' = [inode EXCEPT ![p] = s]
    /\ back' = [back EXCEPT ![p] = "mapped"]
    /\ Goto(p, "reopen")
    /\ UNCHANGED <<seen, refs, onDisk, inodes, crash, history, tampered, lost>>

MmapReturns(p) ==
    /\ pc[p] = "mapped"
    /\ maps' = [maps EXCEPT ![p] = @ \cup {inode[p]}]
    /\ Return(p)
    /\ UNCHANGED <<fds, bin_file, onDisk, inodes, crash, history, tampered, lost>>

-----------------------------------------------------------------------------
(* Writing.                                                                *)

Running(s) == {p \in Procs : bin_file[p] = s}

\* sys_write, and munmap, at the exit too: inode_write_at, with fs_lock.
Writes(p) ==
    /\ pc[p] \in {"user", "exit"} /\ fs_lock = None
    /\ \E s \in Sector :
          /\ (pc[p] = "user" /\ fds[p][s] > 0) \/ s \in maps[p]
          /\ deny_write_cnt[s] = 0
          /\ tampered' = tampered \cup Running(s)
    /\ UNCHANGED <<pc, local, refs, fs_lock, onDisk, inodes, crash, history, lost>>

\* The pages of a process's mappings are there until it has left syscall_exit.
Mapped(q) == IF pc[q] = "dead" \/ back[q] = "dead" THEN {} ELSE maps[q]

\* page_out of a mapped page, by any process that needs its frame: the test of
\* deny_write_cnt, and the write, without fs_lock.
EvictionTests(p) ==
    /\ pc[p] = "user"
    /\ \E q \in Procs : \E s \in Mapped(q) :
          /\ deny_write_cnt[s] = 0
          /\ inode' = [inode EXCEPT ![p] = s]
    /\ Goto(p, "evict")
    /\ UNCHANGED <<seen, back, refs, fs_lock, onDisk, inodes, crash, history, tampered, lost>>

EvictionWrites(p) ==
    /\ pc[p] = "evict"
    /\ tampered' = tampered \cup Running(inode[p])
    /\ inode' = [inode EXCEPT ![p] = None]
    /\ Goto(p, "user")
    /\ UNCHANGED <<seen, back, refs, fs_lock, onDisk, inodes, crash, history, lost>>

-----------------------------------------------------------------------------
(* Closing and removing.                                                   *)

\* sys_close, and syscall_exit for every descriptor.
ClosesFd(p, place) ==
    /\ pc[p] = place
    /\ Takes(p)
    /\ \E s \in Sector :
          /\ fds[p][s] > 0
          /\ fds' = [fds EXCEPT ![p][s] = @ - 1]
          /\ inode' = [inode EXCEPT ![p] = s]
    /\ back' = [back EXCEPT ![p] = place]
    /\ Goto(p, "close")
    /\ UNCHANGED <<seen, maps, bin_file, onDisk, inodes, crash, history, tampered, lost>>

\* inode_close: --open_cnt == 0
CloseReads(p) ==
    /\ pc[p] = "close"
    /\ Reads(p, open_cnt)
    /\ Goto(p, "closes")
    /\ UNCHANGED <<refs, fs_lock, onDisk, inodes, crash, history, tampered, lost>>

CloseWrites(p) ==
    /\ pc[p] = "closes"
    /\ open_cnt' = [open_cnt EXCEPT ![inode[p]] = seen[p] - 1]
    /\ Stores(p, open_cnt)
    /\ IF seen[p] = 1 THEN Goto(p, "last") /\ UNCHANGED <<fs_lock, local>>
                      ELSE Return(p)
    /\ UNCHANGED <<refs, onDisk, open_inodes, deny_write_cnt, removed, crash, ran, tampered,
                   lost>>

\* Mutant: the blocks of a removed file are never released.
Released_None(s) == {}

Released(s) == IF s \in removed THEN {s, start[s]} ELSE {}

\* The references to the inode of sector s: descriptors, mappings, running
\* programs, and calls between opening it and handing it over, or between
\* being handed it and closing it.
Descriptors(s) == {d \in Procs \X (1..MaxFds) : d[2] <= fds[d[1]][s]}
Mapping(s)     == {p \in Procs : s \in maps[p]}
Passing(s)     == {p \in Procs : inode[p] = s /\ pc[p] \in {"opened", "mapped", "erase", "close",
                                                            "closes"} \cup Denying}

References(s) ==
    Cardinality(Descriptors(s)) + Cardinality(Mapping(s)) + Cardinality(Running(s))
    + Cardinality(Passing(s))

\* Somebody else's call is under way with the inode, or a reference to it is left.
InUse(s, p) == References(s) > 0 \/ \E q \in Procs \ {p} : inode[q] = s

\* list_remove, free_map_release and free.
LastCloses(p) ==
    /\ pc[p] = "last"
    /\ open_inodes' = open_inodes \ {inode[p]}
    /\ free_map' = free_map \ Released(inode[p])
    /\ removed' = removed \ {inode[p]}
    /\ freed' = {s \in {inode[p]} : InUse(s, p)}
    /\ Return(p)
    /\ UNCHANGED <<refs, dir, start, open_cnt, deny_write_cnt, panic, history, tampered, lost>>

\* sys_remove: dir_remove.
Removes(p) == pc[p] = "user" /\ \E n \in Names : Finds(p, n, "erase")

\* The entry goes, and inode_remove.
RemoveErases(p) ==
    /\ pc[p] = "erase"
    /\ dir' = [n \in {m \in Entries : dir[m] # inode[p]} |-> dir[n]]
    /\ removed' = removed \cup {inode[p]}
    /\ Goto(p, "close")
    /\ UNCHANGED <<local, refs, fs_lock, start, free_map, open_inodes, open_cnt,
                   deny_write_cnt, crash, history, tampered, lost>>

Exits(p) ==
    /\ pc[p] = "user"
    /\ Goto(p, "exit")
    /\ UNCHANGED <<local, refs, fs_lock, onDisk, inodes, crash, history, tampered, lost>>

\* process_exit: file_close (cur->bin_file), without fs_lock.  First
\* inode_allow_write, with its two assertions.
AllowReads(p) ==
    /\ pc[p] = "exit"
    /\ \A s \in Sector : fds[p][s] = 0
    /\ inode' = [inode EXCEPT ![p] = bin_file[p]]
    /\ seen' = [seen EXCEPT ![p] = deny_write_cnt[bin_file[p]]]
    /\ back' = [back EXCEPT ![p] = "dead"]
    /\ Goto(p, "allow")
    /\ UNCHANGED <<refs, fs_lock, onDisk, inodes, crash, history, tampered, lost>>

\* Mutant: the first assertion lets 0 pass.
IsDenied_Zero(n) == n >= 0

IsDenied(n) == n > 0

AllowTests(p) ==
    LET sound == IsDenied(seen[p]) /\ seen[p] <= open_cnt[inode[p]] IN
    /\ pc[p] = "allow"
    /\ \/ ~sound /\ Panics
       \/ /\ sound
          /\ Goto(p, "allows")
          /\ UNCHANGED <<local, refs, fs_lock, onDisk, inodes, crash, history, tampered, lost>>

AllowWrites(p) ==
    /\ pc[p] = "allows"
    /\ deny_write_cnt' = [deny_write_cnt EXCEPT ![inode[p]] = seen[p] - 1]
    /\ Stores(p, deny_write_cnt)
    /\ bin_file' = [bin_file EXCEPT ![p] = None]
    /\ Goto(p, "close")
    /\ UNCHANGED <<local, fds, maps, fs_lock, onDisk, open_inodes, open_cnt, removed, crash,
                   ran, tampered, lost>>

-----------------------------------------------------------------------------
\* The kernel goes on: no assertion has failed, and no inode was freed under
\* its users, after which everything depends on who gets the memory.
Up == ~panic /\ freed = {}

Kernel(p) ==
    /\ Up
    /\ \/ ReopenReads(p) \/ ReopenWrites(p) \/ InodeOpens(p)
       \/ DenyReads(p) \/ DenyWrites(p) \/ DenyTests(p)
       \/ OpenReturns(p) \/ MmapReturns(p) \/ EvictionWrites(p)
       \/ CloseReads(p) \/ CloseWrites(p) \/ LastCloses(p) \/ RemoveErases(p)
       \/ AllowReads(p) \/ AllowTests(p) \/ AllowWrites(p)

Call(p) ==
    /\ Up
    /\ \/ Loads(p) \/ Creates(p) \/ Opens(p) \/ Mmaps(p) \/ Writes(p) \/ EvictionTests(p)
       \/ ClosesFd(p, "user") \/ Removes(p) \/ Exits(p)

ExitCloses(p) == Up /\ ClosesFd(p, "exit")

Next == \E p \in Procs : Kernel(p) \/ Call(p) \/ ExitCloses(p)

Spec == Init /\ [][Next]_vars

\* A thread in the kernel runs again and again, and fs_lock goes to its waiters
\* in turn.
FairSpec ==
    Spec /\ \A p \in Procs : WF_vars(Kernel(p)) /\ SF_vars(ExitCloses(p))

-----------------------------------------------------------------------------
\* The loads that have denied writes to s and not yet set bin_file.
Denied(s) == {p \in Procs : inode[p] = s /\ pc[p] = "denied"}

\* As long as no update was lost, an inode's open_cnt is the number of its
\* references, through all ways of opening and closing (inode.c:144-186), and
\* writes are denied as often as somebody runs the file, which is what the
\* assertions at inode.c:326, 335 and 336 live on.  What is not in memory is not
\* referred to, unless it was freed too early.
CountsExact ==
    /\ \A s \in open_inodes \ spoiled :
          /\ open_cnt[s] = References(s)
          /\ deny_write_cnt[s] = Cardinality(Running(s)) + Cardinality(Denied(s))
          /\ deny_write_cnt[s] <= open_cnt[s]
    /\ \A s \in Sector \ (open_inodes \cup freed) : References(s) = 0

\* process_exit without fs_lock harms executables only (process.c:209): an inode
\* that nobody has run since it came into memory loses no update of its
\* counters and is not freed under its users, however processes exit meanwhile.
DocumentsUnharmed == spoiled \cup freed \subseteq ran

\* The files on disk: those in the directory and removed ones whose inode is
\* still in memory, and the sectors of each.
Stored == {dir[n] : n \in Entries} \cup removed
Own(s) == {s, start[s]}

\* The free map has the sectors of the files in the directory and of removed
\* files whose inode is in memory, each sector for one file, besides what failed
\* calls of filesys_create have lost (inode.c:176-182, filesys.c:46-59).
FreeMapExact ==
    /\ free_map = (UNION {Own(s) : s \in Stored}) \cup lost
    /\ removed \subseteq open_inodes
    /\ \A s \in Stored :
          /\ Own(s) \cap lost = {}
          /\ \A t \in Stored \ {s} : Own(s) \cap Own(t) = {}

\* A process that exits gets fs_lock for every file it has to close, and dies,
\* unless the kernel goes down first (syscall.c:563-578, process.c:209).
ExitEnds == \A p \in Procs : pc[p] = "exit" ~> pc[p] = "dead" \/ ~Up

\* inode.c:160-162: "Closes INODE [...] If this was the last reference to INODE,
\* frees its memory."  Whoever has a file open finds its inode in memory.
OpenStaysOpen ==
    \A p \in Procs, s \in Sector : fds[p][s] > 0 \/ bin_file[p] = s => s \in open_inodes

\* inode.c:335-336 and 326 assert that a process that allows writes has denied
\* them, and that nobody denies them who has not opened the file.
AssertionsHold == ~panic

\* file.c:116-117: "Prevents write operations on FILE's underlying inode until
\* file_allow_write() is called or FILE is closed."  Nobody changes an
\* executable while it runs.
ExecutableIntact == tampered = {}
=============================================================================
