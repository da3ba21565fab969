---------------------------- MODULE FilesProofs ----------------------------
(***************************************************************************)
(* That the counters of the inodes and the free map of Files are exact for *)
(* any number of processes, files and sectors as far as no update is lost, *)
(* and that only executables can lose one.                                 *)
(***************************************************************************)
EXTENDS Files, FiniteSetTheorems, WellFoundedInduction, TLAPS

CallPCs == {"opened", "mapped", "erase"} \cup Denying

\* Who has fs_lock, and where a call goes on.
LockOf(p) ==
    /\ pc[p] \in Opening \cup CallPCs => fs_lock = p
    /\ pc[p] \in Closing => fs_lock = p \/ back[p] = "dead"
    /\ pc[p] \in Opening <=> back[p] \in {"opened", "mapped", "deny", "erase"}
    /\ pc[p] \in Allowing => back[p] = "dead"
    /\ back[p] = "dead" => pc[p] \in Allowing \cup Closing
    /\ back[p] = "exit" => pc[p] \in Closing

Locks == \A p \in Procs : LockOf(p)

\* Whose executable it is, and what has been run.
ExecutableOf(p) ==
    /\ bin_file[p] = None <=>
          \/ pc[p] \in {"new", "dead"} \cup Denying \/ back[p] = "deny"
          \/ back[p] = "dead" /\ pc[p] \in Closing
    /\ bin_file[p] # None => bin_file[p] \in ran
    /\ pc[p] \in Allowing => bin_file[p] = inode[p]
    /\ back[p] = "dead" \/ pc[p] = "denied" => inode[p] \in ran

Executables == \A p \in Procs : ExecutableOf(p)

\* What the locals of a call are.
LocalsOf(p) ==
    /\ inode[p] = None <=> pc[p] \in {"new", "user", "exit", "dead"}
    /\ pc[p] \in Opening /\ back[p] # "mapped" => \E n \in Entries : dir[n] = inode[p]
    /\ pc[p] = "erase" => \E n \in Entries : dir[n] = inode[p]
    /\ pc[p] = "opened" \/ back[p] = "opened" => fds[p][inode[p]] < MaxFds
    /\ pc[p] = "mapped" \/ back[p] = "mapped" => inode[p] \notin maps[p]
    /\ pc[p] = "evict" => \E q \in Procs : inode[p] \in maps[q]
    /\ pc[p] = "fresh" => inode[p] \notin open_inodes
    /\ pc[p] \in Closing \cup CallPCs \cup Allowing \cup {"reopen", "count"}
          => inode[p] \in open_inodes
    /\ pc[p] \in {"denies", "denied"} => seen[p] >= 0
    /\ pc[p] = "allows" => seen[p] >= 1

Locals == \A p \in Procs : LocalsOf(p)

\* A counter that a call has read is as it was, unless somebody ran the file.
FreshOf(p) ==
    inode[p] \notin ran =>
    /\ pc[p] \in {"count", "closes"} => seen[p] = open_cnt[inode[p]]
    /\ pc[p] = "denies" => seen[p] = deny_write_cnt[inode[p]]
    /\ pc[p] = "last" => open_cnt[inode[p]] = 0

Fresh == \A p \in Procs : FreshOf(p)

Disk ==
    /\ FreeMapExact
    /\ \A s \in Stored : start[s] \in Sector
    /\ \A n \in Entries : dir[n] \notin removed

\* What holds until an inode is freed in use.
Sound == Locks /\ Executables /\ Locals /\ Fresh

Inv == TypeOK /\ CountsExact /\ DocumentsUnharmed /\ Disk /\ (freed = {} => Sound)

Acts(p) ==
    \/ ReopenReads(p) \/ ReopenWrites(p) \/ InodeOpens(p)
    \/ DenyReads(p) \/ DenyWrites(p) \/ DenyTests(p)
    \/ OpenReturns(p) \/ MmapReturns(p) \/ EvictionTests(p) \/ EvictionWrites(p)
    \/ CloseReads(p) \/ CloseWrites(p) \/ LastCloses(p) \/ RemoveErases(p)
    \/ AllowReads(p) \/ AllowTests(p) \/ AllowWrites(p)
    \/ Loads(p) \/ Creates(p) \/ Opens(p) \/ Mmaps(p) \/ Writes(p)
    \/ ClosesFd(p, "user") \/ ClosesFd(p, "exit") \/ Removes(p) \/ Exits(p)

LEMMA NextActs ==
    ASSUME Next
    PROVE  Up /\ \E p \in Procs : Acts(p)
BY DEF Next, Kernel, Call, ExitCloses, Acts

-----------------------------------------------------------------------------
(* The constants, and the least free sector.                               *)

LEMMA ConstantFacts ==
    /\ IsFiniteSet(Procs) /\ Sectors \in Nat /\ MaxFds \in Nat
    /\ Sector \subseteq Nat /\ None \notin Sector /\ None \notin Procs
    /\ Programs \subseteq Names /\ Created \subseteq Names
BY FilesAssumption, DiskAssumption DEF Sector

LessThan == {ss \in Nat \X Nat : ss[1] < ss[2]}

LEMMA LeastSector ==
    ASSUME NEW T \in SUBSET Sector, T # {}
    PROVE  Min(T) \in T
<1>0. T \subseteq Nat
  BY ConstantFacts
<1>1. LessThan = OpToRel(<, Nat)
  BY DEF LessThan, OpToRel
<1>2. IsWellFoundedOn(LessThan, Nat)
  BY <1>1, NatLessThanWellFounded
<1>3. PICK x \in T : \A y \in T : ~ (<<y, x>> \in LessThan)
  BY <1>0, <1>2, WFMin
<1>4. ASSUME NEW y \in T PROVE x <= y
  <2>1. x \in Nat /\ y \in Nat /\ ~ (<<y, x>> \in LessThan)
    BY <1>0, <1>3
  <2>2. y < x => <<y, x>> \in LessThan
    BY <2>1 DEF LessThan
  <2> QED BY <2>1, <2>2
<1> QED BY <1>4 DEF Min

\* The outcomes of filesys_create: no room for two sectors, a directory that
\* does not take the name, or a file.
CreateFails(p) == UNCHANGED <<dir, start, free_map, lost>>

CreateLoses(d) ==
    /\ free_map' = free_map \cup {d} /\ lost' = lost \cup {d}
    /\ UNCHANGED <<dir, start>>

CreateAdds(n, s, d) ==
    /\ n \notin Entries
    /\ free_map' = free_map \cup {s, d}
    /\ start' = [start EXCEPT ![s] = d]
    /\ dir' = [m \in Entries \cup {n} |-> IF m = n THEN s ELSE dir[m]]
    /\ UNCHANGED lost

LEMMA CreateCases ==
    ASSUME TypeOK, NEW p \in Procs, Creates(p)
    PROVE  /\ pc[p] = "user" /\ fs_lock = None
           /\ UNCHANGED <<pc, local, refs, fs_lock, inodes, crash, history, tampered>>
           /\ \/ CreateFails(p)
              \/ \E n \in Created : \E s, d \in Free :
                    s # d /\ (CreateLoses(d) \/ CreateAdds(n, s, d))
<1>1. /\ pc[p] = "user" /\ fs_lock = None
      /\ UNCHANGED <<pc, local, refs, fs_lock, inodes, crash, history, tampered>>
  BY DEF Creates
<1>2. PICK n \in Created :
         \/ Cardinality(Free) < 2 /\ UNCHANGED <<dir, start, free_map, lost>>
         \/ /\ Cardinality(Free) >= 2
            /\ LET s == Min(Free)
                   d == Min(Free \ {s}) IN
               IF n \in Entries \/ Cardinality(Entries) = DirSize
               THEN CreateLoses(d)
               ELSE CreateAdds(n, s, d)
  BY DEF Creates, CreateLoses, CreateAdds
<1>3. ASSUME Cardinality(Free) >= 2
      PROVE  /\ Min(Free) \in Free /\ Min(Free \ {Min(Free)}) \in Free
             /\ Min(Free) # Min(Free \ {Min(Free)})
  <2>1. Free \subseteq Sector /\ IsFiniteSet(Sector)
    BY FilesAssumption, FS_Interval DEF Free, Sector
  <2>2. IsFiniteSet(Free) /\ Cardinality(Free) \in Nat
    BY <2>1, FS_Subset, FS_CardinalityType
  <2>3. Free # {}
    BY <1>3, FS_EmptySet
  <2>4. PICK s \in Free : s = Min(Free)
    BY <2>1, <2>3, LeastSector
  <2>5. Free # {s}
    <3>1. Cardinality({s}) = 1
      BY FS_Singleton
    <3> QED BY <1>3, <3>1
  <2>6. Free \ {s} # {}
    BY <2>4, <2>5
  <2>7. Min(Free \ {s}) \in Free \ {s}
    BY <2>1, <2>6, LeastSector
  <2> QED BY <2>4, <2>7
<1> QED BY <1>1, <1>2, <1>3 DEF CreateFails

-----------------------------------------------------------------------------
(* Counting.                                                               *)

LEMMA AddOne ==
    ASSUME NEW S, IsFiniteSet(S), NEW x, x \notin S
    PROVE  /\ Cardinality(S) \in Nat
           /\ Cardinality(S \cup {x}) = Cardinality(S) + 1
BY FS_AddElement, FS_CardinalityType

LEMMA DropOne ==
    ASSUME NEW S, IsFiniteSet(S), NEW x \in S
    PROVE  /\ Cardinality(S) \in Nat
           /\ Cardinality(S \ {x}) = Cardinality(S) - 1
BY FS_RemoveElement, FS_CardinalityType

LEMMA AtLeastOne ==
    ASSUME NEW S, IsFiniteSet(S), NEW x \in S
    PROVE  Cardinality(S) \in Nat /\ Cardinality(S) >= 1
<1>1. Cardinality(S) \in Nat /\ (Cardinality(S) = 0 <=> S = {})
  BY FS_CardinalityType, FS_EmptySet
<1> QED BY <1>1

-----------------------------------------------------------------------------
(* What a step leaves alone.                                               *)

LEMMA Goes ==
    ASSUME TypeOK, NEW p \in Procs, NEW place, Goto(p, place)
    PROVE  pc'[p] = place /\ \A q \in Procs \ {p} : pc'[q] = pc[q]
BY DEF Goto, TypeOK

LEMMA Returns ==
    ASSUME TypeOK, NEW p \in Procs, Return(p)
    PROVE  /\ pc'[p] = back[p] /\ back'[p] = "user" /\ inode'[p] = None /\ seen'[p] = 0
           /\ \A q \in Procs \ {p} :
                 /\ pc'[q] = pc[q] /\ back'[q] = back[q] /\ inode'[q] = inode[q]
                 /\ seen'[q] = seen[q] /\ (fs_lock = q => fs_lock' = q)
BY DEF Return, LockAfterReturn, Goto, TypeOK

\* A step of p does not touch what is another process's own.
Kept(q) ==
    /\ pc'[q] = pc[q] /\ back'[q] = back[q] /\ inode'[q] = inode[q] /\ seen'[q] = seen[q]
    /\ fds'[q] = fds[q] /\ maps'[q] = maps[q] /\ bin_file'[q] = bin_file[q]
    /\ fs_lock = q => fs_lock' = q

LEMMA OthersKept ==
    ASSUME TypeOK, NEW p \in Procs, Acts(p), NEW q \in Procs, q # p
    PROVE  Kept(q)
<1>0. None \notin Procs
  BY ConstantFacts
<1> USE DEF refs, local, Kept
<1>1. CASE Creates(p) \/ Writes(p) \/ Exits(p)
  BY <1>1 DEF Creates, Writes, Exits, Goto, TypeOK
<1>2. CASE Loads(p) \/ Opens(p) \/ Removes(p) \/ Mmaps(p)
  BY <1>0, <1>2 DEF Loads, Opens, Removes, Finds, Mmaps, Takes, Goto, TypeOK
<1>3. CASE ReopenReads(p) \/ DenyReads(p) \/ CloseReads(p) \/ AllowReads(p)
  BY <1>3 DEF ReopenReads, DenyReads, CloseReads, AllowReads, Reads, Goto, TypeOK
<1>4. CASE ReopenWrites(p) \/ InodeOpens(p) \/ DenyWrites(p) \/ AllowWrites(p) \/ RemoveErases(p)
  BY <1>4 DEF ReopenWrites, InodeOpens, DenyWrites, AllowWrites, RemoveErases, GoesOn, Goto,
              TypeOK
<1>5. CASE DenyTests(p)
  <2>1. CASE Panics
    BY <2>1 DEF Panics
  <2>2. CASE Return(p) /\ bin_file' = [bin_file EXCEPT ![p] = inode[p]] /\ UNCHANGED <<fds, maps>>
    BY <2>2, Returns DEF TypeOK
  <2> QED BY <1>5, <2>1, <2>2 DEF DenyTests
<1>6. CASE OpenReturns(p) \/ MmapReturns(p) \/ LastCloses(p)
  <2>1. Return(p)
    BY <1>6 DEF OpenReturns, MmapReturns, LastCloses
  <2>2. fds'[q] = fds[q] /\ maps'[q] = maps[q] /\ bin_file'[q] = bin_file[q]
    BY <1>6 DEF OpenReturns, MmapReturns, LastCloses, TypeOK
  <2> QED BY <2>1, <2>2, Returns
<1>7. CASE CloseWrites(p)
  <2>1. UNCHANGED <<fds, maps, bin_file>>
    BY <1>7 DEF CloseWrites
  <2>2. CASE Goto(p, "last") /\ UNCHANGED <<fs_lock, local>>
    BY <2>1, <2>2 DEF Goto, TypeOK
  <2>3. CASE Return(p)
    BY <2>1, <2>3, Returns
  <2> QED BY <1>7, <2>2, <2>3 DEF CloseWrites
<1>8. CASE EvictionTests(p) \/ EvictionWrites(p)
  BY <1>8 DEF EvictionTests, EvictionWrites, Goto, TypeOK
<1>9. CASE AllowTests(p)
  BY <1>9 DEF AllowTests, Panics, Goto, TypeOK
<1>10. CASE ClosesFd(p, "user") \/ ClosesFd(p, "exit")
  BY <1>0, <1>10 DEF ClosesFd, Takes, Goto, TypeOK
<1> QED BY <1>1, <1>2, <1>3, <1>4, <1>5, <1>6, <1>7, <1>8, <1>9, <1>10 DEF Acts

-----------------------------------------------------------------------------
(* Types.                                                                  *)

LEMMA ReturnTypes ==
    ASSUME TypeOK, NEW p \in Procs, Return(p), back[p] \in {"user", "exit", "dead"}
    PROVE  /\ pc' \in [Procs -> {"new", "user", "opened", "mapped", "evict", "erase", "exit",
                                 "dead"} \cup Opening \cup Denying \cup Allowing \cup Closing]
           /\ back' \in [Procs -> {"user", "opened", "mapped", "deny", "erase", "exit", "dead"}]
           /\ inode' \in [Procs -> Sector \cup {None}]
           /\ seen' \in [Procs -> Int]
           /\ fs_lock' \in Procs \cup {None}
BY DEF TypeOK, Return, Goto, LockAfterReturn

LEMMA InodesTyped ==
    ASSUME TypeOK, Locals, NEW p \in Procs, pc[p] \notin {"new", "user", "exit", "dead"}
    PROVE  inode[p] \in Sector
BY DEF TypeOK, Locals, LocalsOf

\* Where a call goes on when it returns.
LEMMA BackPlaces ==
    ASSUME TypeOK, Locks, NEW p \in Procs
    PROVE  /\ pc[p] \notin Opening => back[p] \in {"user", "exit", "dead"}
           /\ pc[p] \in CallPCs \cup {"new", "user", "exit", "dead", "evict"} => back[p] = "user"
           /\ pc[p] \in Opening => back[p] \in {"opened", "mapped", "deny", "erase"}
<1> USE DEF Opening, CallPCs, Closing, Allowing, Denying
<1>1. back[p] \in {"user", "opened", "mapped", "deny", "erase", "exit", "dead"}
  BY DEF TypeOK
<1> QED BY <1>1 DEF Locks, LockOf

LEMMA SpoiledTyped ==
    ASSUME TypeOK, NEW p \in Procs, NEW cnt, Stores(p, cnt), inode[p] \in Sector
    PROVE  spoiled' \subseteq Sector
BY DEF TypeOK, Stores

LEMMA FdsTyped ==
    ASSUME TypeOK, NEW p \in Procs, NEW s \in Sector
    PROVE  /\ fds[p][s] < MaxFds /\ fds' = [fds EXCEPT ![p][s] = @ + 1]
                 => fds' \in [Procs -> [Sector -> 0..MaxFds]]
           /\ fds[p][s] > 0 /\ fds' = [fds EXCEPT ![p][s] = @ - 1]
                 => fds' \in [Procs -> [Sector -> 0..MaxFds]]
<1>1. /\ fds \in [Procs -> [Sector -> 0..MaxFds]] /\ fds[p] \in [Sector -> 0..MaxFds]
      /\ fds[p][s] \in 0..MaxFds /\ MaxFds \in Nat
  BY ConstantFacts DEF TypeOK
<1>2. ASSUME fds[p][s] < MaxFds, fds' = [fds EXCEPT ![p][s] = @ + 1]
      PROVE  fds' \in [Procs -> [Sector -> 0..MaxFds]]
  <2>1. [fds[p] EXCEPT ![s] = @ + 1] \in [Sector -> 0..MaxFds]
    BY <1>1, <1>2
  <2>2. fds' = [fds EXCEPT ![p] = [fds[p] EXCEPT ![s] = @ + 1]]
    BY <1>1, <1>2
  <2> QED BY <1>1, <2>1, <2>2
<1>3. ASSUME fds[p][s] > 0, fds' = [fds EXCEPT ![p][s] = @ - 1]
      PROVE  fds' \in [Procs -> [Sector -> 0..MaxFds]]
  <2>1. [fds[p] EXCEPT ![s] = @ - 1] \in [Sector -> 0..MaxFds]
    BY <1>1, <1>3
  <2>2. fds' = [fds EXCEPT ![p] = [fds[p] EXCEPT ![s] = @ - 1]]
    BY <1>1, <1>3
  <2> QED BY <1>1, <2>1, <2>2
<1> QED BY <1>2, <1>3

LEMMA NextTypes ==
    ASSUME TypeOK, Sound, NEW p \in Procs, Acts(p)
    PROVE  TypeOK'
<1>0. Locks /\ Locals /\ Executables
  BY DEF Sound
<1>a. pc[p] \notin {"new", "user", "exit", "dead"} => inode[p] \in Sector
  BY <1>0, InodesTyped
<1> USE DEF refs, onDisk, inodes, local, crash, history, Entries
<1>p. ASSUME Panics PROVE TypeOK'
  BY <1>p DEF Panics, TypeOK
<1>1. CASE Creates(p)
  <2>1. /\ UNCHANGED <<pc, local, refs, fs_lock, inodes, crash, history, tampered>>
        /\ \/ CreateFails(p)
           \/ \E n \in Created : \E s, d \in Free :
                 s # d /\ (CreateLoses(d) \/ CreateAdds(n, s, d))
    BY <1>1, CreateCases
  <2>2. /\ Entries' \subseteq Names /\ \A n \in Entries' : dir'[n] \in Sector
        /\ start' \in [Sector -> Sector \cup {None}]
        /\ free_map' \subseteq Sector /\ lost' \subseteq Sector
    <3>1. CASE CreateFails(p)
      BY <3>1 DEF CreateFails, TypeOK
    <3>2. ASSUME NEW d \in Free, CreateLoses(d)
          PROVE  /\ Entries' \subseteq Names /\ \A n \in Entries' : dir'[n] \in Sector
                 /\ start' \in [Sector -> Sector \cup {None}]
                 /\ free_map' \subseteq Sector /\ lost' \subseteq Sector
      BY <3>2 DEF CreateLoses, TypeOK, Free
    <3>3. ASSUME NEW n \in Created, NEW s \in Free, NEW d \in Free, CreateAdds(n, s, d)
          PROVE  /\ Entries' \subseteq Names /\ \A m \in Entries' : dir'[m] \in Sector
                 /\ start' \in [Sector -> Sector \cup {None}]
                 /\ free_map' \subseteq Sector /\ lost' \subseteq Sector
      BY <3>3, ConstantFacts DEF CreateAdds, TypeOK, Free
    <3> QED BY <2>1, <3>1, <3>2, <3>3
  <2> QED BY <2>1, <2>2 DEF TypeOK
<1>2. ASSUME NEW n \in Names, NEW place \in {"deny", "opened", "erase"}, Finds(p, n, place)
      PROVE  TypeOK'
  BY <1>2 DEF Finds, Takes, Goto, TypeOK, Opening
<1>3. CASE Loads(p) \/ Opens(p) \/ Removes(p)
  BY <1>2, <1>3, ConstantFacts DEF Loads, Opens, Removes, TypeOK
<1>4. CASE Mmaps(p)
  BY <1>4 DEF Mmaps, Takes, Goto, TypeOK, Opening
<1>5. CASE ReopenReads(p) \/ DenyReads(p) \/ CloseReads(p)
  <2>1. inode[p] \in Sector
    BY <1>a, <1>5 DEF ReopenReads, DenyReads, CloseReads
  <2>2. open_cnt[inode[p]] \in Int /\ deny_write_cnt[inode[p]] \in Int
    BY <2>1 DEF TypeOK
  <2> QED BY <1>5, <2>2 DEF ReopenReads, DenyReads, CloseReads, Reads, Goto, TypeOK, Opening,
                            Denying, Closing
<1>6. CASE ReopenWrites(p)
  <2>1. inode[p] \in Sector /\ CountAfterReopen(p) \in Int
    BY <1>a, <1>6 DEF ReopenWrites, CountAfterReopen, TypeOK
  <2>2. spoiled' \subseteq Sector
    BY <1>6, <2>1, SpoiledTyped DEF ReopenWrites
  <2>3. back[p] \in {"opened", "mapped", "deny", "erase"}
    BY <1>0, <1>6, BackPlaces DEF ReopenWrites, Opening
  <2>4. open_cnt' \in [Sector -> Int]
    BY <1>6, <2>1 DEF ReopenWrites, TypeOK
  <2> QED BY <1>6, <2>2, <2>3, <2>4 DEF ReopenWrites, GoesOn, Goto, TypeOK, Denying
<1>7. CASE InodeOpens(p)
  <2>1. inode[p] \in Sector /\ back[p] \in {"opened", "mapped", "deny", "erase"}
    BY <1>0, <1>a, <1>7, BackPlaces DEF InodeOpens, Opening
  <2> QED BY <1>7, <2>1 DEF InodeOpens, GoesOn, Goto, TypeOK, Denying
<1>8. CASE DenyWrites(p)
  <2>1. inode[p] \in Sector /\ seen[p] \in Int /\ seen[p] >= 0
    BY <1>0, <1>a, <1>8 DEF DenyWrites, TypeOK, Locals, LocalsOf
  <2>2. seen[p] + 1 \in Nat
    BY <2>1
  <2>3. spoiled' \subseteq Sector
    BY <1>8, <2>1, SpoiledTyped DEF DenyWrites
  <2>4. deny_write_cnt' \in [Sector -> Nat]
    BY <1>8, <2>1, <2>2 DEF DenyWrites, TypeOK
  <2>5. ran' \subseteq Sector
    BY <1>8, <2>1 DEF DenyWrites, TypeOK
  <2> QED BY <1>8, <2>3, <2>4, <2>5 DEF DenyWrites, Goto, TypeOK, Denying
<1>9. CASE DenyTests(p)
  <2>1. CASE Panics
    BY <1>p, <2>1
  <2>2. CASE ~Panics
    <3>1. inode[p] \in Sector /\ back[p] \in {"user", "exit", "dead"} /\ Return(p)
      BY <1>0, <1>a, <1>9, <2>2, BackPlaces DEF DenyTests, CallPCs, Denying
    <3>2. bin_file' \in [Procs -> Sector \cup {None}]
      BY <1>9, <2>2, <3>1 DEF DenyTests, TypeOK
    <3> QED BY <1>9, <2>2, <3>1, <3>2, ReturnTypes DEF DenyTests, TypeOK
  <2> QED BY <2>1, <2>2
<1>10. CASE OpenReturns(p)
  <2>1. /\ inode[p] \in Sector /\ back[p] \in {"user", "exit", "dead"} /\ Return(p)
        /\ fds[p][inode[p]] < MaxFds
    BY <1>0, <1>a, <1>10, BackPlaces DEF OpenReturns, CallPCs, Locals, LocalsOf
  <2>2. fds' \in [Procs -> [Sector -> 0..MaxFds]]
    BY <1>10, <2>1, FdsTyped DEF OpenReturns
  <2> QED BY <1>10, <2>1, <2>2, ReturnTypes DEF OpenReturns, TypeOK
<1>11. CASE MmapReturns(p)
  <2>1. inode[p] \in Sector /\ back[p] \in {"user", "exit", "dead"} /\ Return(p)
    BY <1>0, <1>a, <1>11, BackPlaces DEF MmapReturns, CallPCs
  <2>2. maps' \in [Procs -> SUBSET Sector]
    BY <1>11, <2>1 DEF MmapReturns, TypeOK
  <2> QED BY <1>11, <2>1, <2>2, ReturnTypes DEF MmapReturns, TypeOK
<1>12. CASE Writes(p) \/ EvictionTests(p) \/ EvictionWrites(p) \/ Exits(p)
  <2>1. CASE Writes(p)
    <3>1. tampered' \subseteq Procs
      BY <2>1 DEF Writes, Running, TypeOK
    <3> QED BY <2>1, <3>1 DEF Writes, TypeOK
  <2>2. CASE EvictionTests(p)
    <3>1. PICK q \in Procs : \E s \in Mapped(q) : inode' = [inode EXCEPT ![p] = s]
      BY <2>2 DEF EvictionTests
    <3>2. Mapped(q) \subseteq Sector
      BY DEF TypeOK, Mapped
    <3>3. inode' \in [Procs -> Sector \cup {None}]
      BY <3>1, <3>2 DEF TypeOK
    <3> QED BY <2>2, <3>3 DEF EvictionTests, Goto, TypeOK
  <2>3. CASE EvictionWrites(p)
    <3>1. tampered' \subseteq Procs
      BY <2>3 DEF EvictionWrites, Running, TypeOK
    <3> QED BY <2>3, <3>1 DEF EvictionWrites, Goto, TypeOK
  <2>4. CASE Exits(p)
    BY <2>4 DEF Exits, Goto, TypeOK
  <2> QED BY <1>12, <2>1, <2>2, <2>3, <2>4
<1>13. ASSUME NEW place \in {"user", "exit"}, ClosesFd(p, place) PROVE TypeOK'
  <2>1. PICK s \in Sector :
           /\ fds[p][s] > 0
           /\ fds' = [fds EXCEPT ![p][s] = @ - 1]
           /\ inode' = [inode EXCEPT ![p] = s]
    BY <1>13 DEF ClosesFd
  <2>2. fds' \in [Procs -> [Sector -> 0..MaxFds]]
    BY <2>1, FdsTyped
  <2> QED BY <1>13, <2>1, <2>2 DEF ClosesFd, Takes, Goto, TypeOK, Closing
<1>14. CASE CloseWrites(p)
  <2>1. inode[p] \in Sector /\ seen[p] - 1 \in Int
    BY <1>a, <1>14 DEF CloseWrites, TypeOK
  <2>2. spoiled' \subseteq Sector
    BY <1>14, <2>1, SpoiledTyped DEF CloseWrites
  <2>3. open_cnt' \in [Sector -> Int]
    BY <1>14, <2>1 DEF CloseWrites, TypeOK
  <2>4. CASE Goto(p, "last") /\ UNCHANGED <<fs_lock, local>>
    BY <1>14, <2>2, <2>3, <2>4 DEF CloseWrites, Goto, TypeOK, Closing
  <2>5. CASE Return(p)
    <3>1. back[p] \in {"user", "exit", "dead"}
      BY <1>0, <1>14, BackPlaces DEF CloseWrites, Opening
    <3> QED BY <1>14, <2>2, <2>3, <2>5, <3>1, ReturnTypes DEF CloseWrites, TypeOK
  <2> QED BY <1>14, <2>4, <2>5 DEF CloseWrites
<1>15. CASE LastCloses(p)
  <2>1. /\ inode[p] \in Sector /\ back[p] \in {"user", "exit", "dead"} /\ Return(p)
    BY <1>0, <1>a, <1>15, BackPlaces DEF LastCloses, Opening
  <2>2. /\ open_inodes' \subseteq Sector /\ free_map' \subseteq Sector
        /\ removed' \subseteq Sector /\ freed' \subseteq Sector
    BY <1>15, <2>1 DEF LastCloses, TypeOK
  <2> QED BY <1>15, <2>1, <2>2, ReturnTypes DEF LastCloses, TypeOK
<1>16. CASE RemoveErases(p)
  <2>1. inode[p] \in Sector
    BY <1>a, <1>16 DEF RemoveErases
  <2> QED BY <1>16, <2>1 DEF RemoveErases, Goto, TypeOK, Closing
<1>17. CASE AllowReads(p)
  <2>1. bin_file[p] # None
    <3>1. pc[p] = "exit" /\ back[p] = "user"
      BY <1>0, <1>17, BackPlaces DEF AllowReads
    <3> QED BY <1>0, <3>1 DEF Executables, ExecutableOf, Denying
  <2>2. bin_file[p] \in Sector
    BY <2>1 DEF TypeOK
  <2>3. deny_write_cnt[bin_file[p]] \in Int
    BY <2>2 DEF TypeOK
  <2> QED BY <1>17, <2>2, <2>3 DEF AllowReads, Goto, TypeOK, Allowing
<1>18. CASE AllowTests(p)
  <2>1. CASE Panics
    BY <1>p, <2>1
  <2>2. CASE ~Panics
    BY <1>18, <2>2 DEF AllowTests, Goto, TypeOK, Allowing
  <2> QED BY <2>1, <2>2
<1>19. CASE AllowWrites(p)
  <2>1. inode[p] \in Sector /\ seen[p] \in Int /\ seen[p] >= 1
    BY <1>0, <1>a, <1>19 DEF AllowWrites, TypeOK, Locals, LocalsOf
  <2>2. seen[p] - 1 \in Nat
    BY <2>1
  <2>3. spoiled' \subseteq Sector
    BY <1>19, <2>1, SpoiledTyped DEF AllowWrites
  <2>4. deny_write_cnt' \in [Sector -> Nat]
    BY <1>19, <2>1, <2>2 DEF AllowWrites, TypeOK
  <2> QED BY <1>19, <2>3, <2>4 DEF AllowWrites, Goto, TypeOK, Closing
<1> QED BY <1>1, <1>3, <1>4, <1>5, <1>6, <1>7, <1>8, <1>9, <1>10, <1>11, <1>12, <1>13, <1>14,
           <1>15, <1>16, <1>17, <1>18, <1>19 DEF Acts

-----------------------------------------------------------------------------
(* References.                                                             *)

PassingPCs == {"opened", "mapped", "erase", "close", "closes"} \cup Denying

One(b) == IF b THEN 1 ELSE 0

\* What p itself contributes to the references to s, besides descriptors, and to
\* the denials of writes.
Mine(p, s) ==
    One(bin_file[p] = s) + One(s \in maps[p]) + One(inode[p] = s /\ pc[p] \in PassingPCs)

MyDenials(p, s) == One(bin_file[p] = s) + One(inode[p] = s /\ pc[p] = "denied")

Denials(s) == Cardinality(Running(s)) + Cardinality(Denied(s))

LEMMA Toggle ==
    ASSUME NEW S, IsFiniteSet(S), NEW T, IsFiniteSet(T), NEW x, T \ {x} = S \ {x}
    PROVE  /\ Cardinality(S) \in Nat /\ Cardinality(T) \in Nat
           /\ Cardinality(T) = Cardinality(S) - One(x \in S) + One(x \in T)
<1>0. Cardinality(S) \in Nat /\ Cardinality(T) \in Nat
  BY FS_CardinalityType
<1>1. CASE x \in S /\ x \in T
  <2>1. S = T
    BY <1>1
  <2> QED BY <1>0, <1>1, <2>1 DEF One
<1>2. CASE x \in S /\ x \notin T
  <2>1. T = S \ {x}
    BY <1>2
  <2> QED BY <1>0, <1>2, <2>1, DropOne DEF One
<1>3. CASE x \notin S /\ x \in T
  <2>1. T = S \cup {x}
    BY <1>3
  <2> QED BY <1>0, <1>3, <2>1, AddOne DEF One
<1>4. CASE x \notin S /\ x \notin T
  <2>1. S = T
    BY <1>4
  <2> QED BY <1>0, <1>4, <2>1 DEF One
<1> QED BY <1>1, <1>2, <1>3, <1>4

LEMMA RefsFinite ==
    ASSUME NEW s
    PROVE  /\ IsFiniteSet(Descriptors(s)) /\ Cardinality(Descriptors(s)) \in Nat
           /\ IsFiniteSet(Mapping(s)) /\ Cardinality(Mapping(s)) \in Nat
           /\ IsFiniteSet(Running(s)) /\ Cardinality(Running(s)) \in Nat
           /\ IsFiniteSet(Passing(s)) /\ Cardinality(Passing(s)) \in Nat
           /\ IsFiniteSet(Denied(s)) /\ Cardinality(Denied(s)) \in Nat
           /\ References(s) \in Nat
<1>1. IsFiniteSet(1..MaxFds)
  BY ConstantFacts, FS_Interval
<1>2. IsFiniteSet(Procs \X (1..MaxFds))
  BY <1>1, ConstantFacts, FS_Product
<1>3. IsFiniteSet(Descriptors(s)) /\ Cardinality(Descriptors(s)) \in Nat
  BY <1>2, FS_Subset, FS_CardinalityType DEF Descriptors
<1>4. /\ IsFiniteSet(Mapping(s)) /\ Cardinality(Mapping(s)) \in Nat
      /\ IsFiniteSet(Running(s)) /\ Cardinality(Running(s)) \in Nat
      /\ IsFiniteSet(Passing(s)) /\ Cardinality(Passing(s)) \in Nat
      /\ IsFiniteSet(Denied(s)) /\ Cardinality(Denied(s)) \in Nat
  BY ConstantFacts, FS_Subset, FS_CardinalityType DEF Mapping, Running, Passing, Denied
<1> QED BY <1>3, <1>4 DEF References

\* The same after a step.
LEMMA RefsFiniteNext ==
    ASSUME NEW s
    PROVE  /\ IsFiniteSet(Descriptors(s)') /\ Cardinality(Descriptors(s)') \in Nat
           /\ IsFiniteSet(Mapping(s)') /\ Cardinality(Mapping(s)') \in Nat
           /\ IsFiniteSet(Running(s)') /\ Cardinality(Running(s)') \in Nat
           /\ IsFiniteSet(Passing(s)') /\ Cardinality(Passing(s)') \in Nat
           /\ IsFiniteSet(Denied(s)') /\ Cardinality(Denied(s)') \in Nat
           /\ References(s)' \in Nat
<1>1. IsFiniteSet(1..MaxFds)
  BY ConstantFacts, FS_Interval
<1>2. IsFiniteSet(Procs \X (1..MaxFds))
  BY <1>1, ConstantFacts, FS_Product
<1>3. IsFiniteSet(Descriptors(s)') /\ Cardinality(Descriptors(s)') \in Nat
  BY <1>2, FS_Subset, FS_CardinalityType DEF Descriptors
<1>4. /\ IsFiniteSet(Mapping(s)') /\ Cardinality(Mapping(s)') \in Nat
      /\ IsFiniteSet(Running(s)') /\ Cardinality(Running(s)') \in Nat
      /\ IsFiniteSet(Passing(s)') /\ Cardinality(Passing(s)') \in Nat
      /\ IsFiniteSet(Denied(s)') /\ Cardinality(Denied(s)') \in Nat
  BY ConstantFacts, FS_Subset, FS_CardinalityType DEF Mapping, Running, Passing, Denied
<1> QED BY <1>3, <1>4 DEF References

\* A step changes the references by what its own process adds and drops.
LEMMA ReferencesAfter ==
    ASSUME TypeOK, NEW p \in Procs, Acts(p), NEW s
    PROVE  /\ References(s)' = References(s) - Mine(p, s) + Mine(p, s)'
                               + Cardinality(Descriptors(s)') - Cardinality(Descriptors(s))
           /\ Denials(s)' = Denials(s) - MyDenials(p, s) + MyDenials(p, s)'
           /\ Mine(p, s) \in 0..3 /\ Mine(p, s)' \in 0..3
           /\ MyDenials(p, s) \in 0..2 /\ MyDenials(p, s)' \in 0..2
           /\ Denials(s) \in Nat /\ Denials(s)' \in Nat
<1>1. \A q \in Procs : q # p => Kept(q)
  BY OthersKept
<1>2. Running(s)' \ {p} = Running(s) \ {p}
  BY <1>1 DEF Running, Kept
<1>3. Mapping(s)' \ {p} = Mapping(s) \ {p}
  BY <1>1 DEF Mapping, Kept
<1>4. Passing(s)' \ {p} = Passing(s) \ {p}
  BY <1>1 DEF Passing, Kept
<1>5. Denied(s)' \ {p} = Denied(s) \ {p}
  BY <1>1 DEF Denied, Kept
<1>6. /\ Cardinality(Running(s)') = Cardinality(Running(s)) - One(p \in Running(s))
                                                            + One(p \in Running(s)')
      /\ Cardinality(Mapping(s)') = Cardinality(Mapping(s)) - One(p \in Mapping(s))
                                                            + One(p \in Mapping(s)')
      /\ Cardinality(Passing(s)') = Cardinality(Passing(s)) - One(p \in Passing(s))
                                                            + One(p \in Passing(s)')
      /\ Cardinality(Denied(s)') = Cardinality(Denied(s)) - One(p \in Denied(s))
                                                          + One(p \in Denied(s)')
  BY <1>2, <1>3, <1>4, <1>5, RefsFinite, RefsFiniteNext, Toggle
<1>7. /\ p \in Running(s) <=> bin_file[p] = s
      /\ p \in Running(s)' <=> bin_file'[p] = s
      /\ p \in Mapping(s) <=> s \in maps[p]
      /\ p \in Mapping(s)' <=> s \in maps'[p]
      /\ p \in Passing(s) <=> inode[p] = s /\ pc[p] \in PassingPCs
      /\ p \in Passing(s)' <=> inode'[p] = s /\ pc'[p] \in PassingPCs
      /\ p \in Denied(s) <=> inode[p] = s /\ pc[p] = "denied"
      /\ p \in Denied(s)' <=> inode'[p] = s /\ pc'[p] = "denied"
  BY DEF Running, Mapping, Passing, Denied, PassingPCs
<1> DEFINE a == Cardinality(Running(s))
           a1 == Cardinality(Running(s)')
           b == Cardinality(Mapping(s))
           b1 == Cardinality(Mapping(s)')
           c == Cardinality(Passing(s))
           c1 == Cardinality(Passing(s)')
           d == Cardinality(Denied(s))
           d1 == Cardinality(Denied(s)')
           x1 == One(bin_file[p] = s)
           x2 == One(s \in maps[p])
           x3 == One(inode[p] = s /\ pc[p] \in PassingPCs)
           x4 == One(inode[p] = s /\ pc[p] = "denied")
           y1 == One(bin_file'[p] = s)
           y2 == One(s \in maps'[p])
           y3 == One(inode'[p] = s /\ pc'[p] \in PassingPCs)
           y4 == One(inode'[p] = s /\ pc'[p] = "denied")
<1>8. /\ a1 = a - x1 + y1 /\ b1 = b - x2 + y2 /\ c1 = c - x3 + y3 /\ d1 = d - x4 + y4
  BY <1>6, <1>7 DEF One
<1>9. /\ x1 \in 0..1 /\ x2 \in 0..1 /\ x3 \in 0..1 /\ x4 \in 0..1
      /\ y1 \in 0..1 /\ y2 \in 0..1 /\ y3 \in 0..1 /\ y4 \in 0..1
  BY DEF One
<1>10. /\ a \in Nat /\ b \in Nat /\ c \in Nat /\ d \in Nat
       /\ a1 \in Nat /\ b1 \in Nat /\ c1 \in Nat /\ d1 \in Nat
       /\ Cardinality(Descriptors(s)) \in Nat /\ Cardinality(Descriptors(s)') \in Nat
  BY RefsFinite, RefsFiniteNext
<1>11. /\ References(s) = Cardinality(Descriptors(s)) + b + a + c
       /\ References(s)' = Cardinality(Descriptors(s)') + b1 + a1 + c1
       /\ Denials(s) = a + d /\ Denials(s)' = a1 + d1
       /\ Mine(p, s) = x1 + x2 + x3 /\ Mine(p, s)' = y1 + y2 + y3
       /\ MyDenials(p, s) = x1 + x4 /\ MyDenials(p, s)' = y1 + y4
  BY DEF References, Denials, Mine, MyDenials, PassingPCs
<1> HIDE DEF a, a1, b, b1, c, c1, d, d1, x1, x2, x3, x4, y1, y2, y3, y4
<1> QED BY <1>8, <1>9, <1>10, <1>11

\* When no descriptor comes or goes.
LEMMA ReferencesSame ==
    ASSUME TypeOK, NEW p \in Procs, Acts(p), NEW s, UNCHANGED fds
    PROVE  References(s)' = References(s) - Mine(p, s) + Mine(p, s)'
<1>1. Descriptors(s)' = Descriptors(s)
  BY DEF Descriptors
<1> QED BY <1>1, ReferencesAfter, RefsFinite, RefsFiniteNext

\* A descriptor more, and a descriptor less.
LEMMA DescriptorsAfter ==
    ASSUME TypeOK, NEW p \in Procs, NEW s \in Sector
    PROVE  /\ fds[p][s] < MaxFds /\ fds' = [fds EXCEPT ![p][s] = @ + 1]
                => /\ Descriptors(s)' = Descriptors(s) \cup {<<p, fds[p][s] + 1>>}
                   /\ <<p, fds[p][s] + 1>> \notin Descriptors(s)
                   /\ \A r \in Sector \ {s} : Descriptors(r)' = Descriptors(r)
           /\ fds[p][s] > 0 /\ fds' = [fds EXCEPT ![p][s] = @ - 1]
                => /\ Descriptors(s)' = Descriptors(s) \ {<<p, fds[p][s]>>}
                   /\ <<p, fds[p][s]>> \in Descriptors(s)
                   /\ \A r \in Sector \ {s} : Descriptors(r)' = Descriptors(r)
<1>1. /\ fds \in [Procs -> [Sector -> 0..MaxFds]] /\ fds[p] \in [Sector -> 0..MaxFds]
      /\ MaxFds \in Nat
  BY ConstantFacts DEF TypeOK
<1> DEFINE f == fds[p][s]
<1>2. f \in 0..MaxFds
  BY <1>1
<1>3. \A d \in Procs \X (1..MaxFds) :
         /\ d[1] \in Procs /\ d[2] \in Nat /\ d[2] >= 1 /\ d[2] <= MaxFds
         /\ d = <<d[1], d[2]>> /\ fds[d[1]][s] \in Nat
  BY <1>1
<1>4. ASSUME fds[p][s] < MaxFds, fds' = [fds EXCEPT ![p][s] = @ + 1]
      PROVE  /\ Descriptors(s)' = Descriptors(s) \cup {<<p, fds[p][s] + 1>>}
             /\ <<p, fds[p][s] + 1>> \notin Descriptors(s)
             /\ \A r \in Sector \ {s} : Descriptors(r)' = Descriptors(r)
  <2>1. \A q \in Procs : fds'[q][s] = IF q = p THEN f + 1 ELSE fds[q][s]
    BY <1>1, <1>4
  <2>2. \A r \in Sector \ {s} : \A q \in Procs : fds'[q][r] = fds[q][r]
    BY <1>1, <1>4
  <2>3. <<p, f + 1>> \in Procs \X (1..MaxFds)
    BY <1>1, <1>2, <1>4
  <2>4. \A d \in Procs \X (1..MaxFds) :
           d[2] <= fds'[d[1]][s] <=> d[2] <= fds[d[1]][s] \/ d = <<p, f + 1>>
    <3>1. TAKE d \in Procs \X (1..MaxFds)
    <3>2. CASE d[1] = p
      BY <1>2, <1>3, <2>1, <3>2
    <3>3. CASE d[1] # p
      BY <1>3, <2>1, <3>3
    <3> QED BY <3>2, <3>3
  <2>5. Descriptors(s)' = {d \in Procs \X (1..MaxFds) : d[2] <= fds'[d[1]][s]}
    BY DEF Descriptors
  <2>6. Descriptors(s)' = Descriptors(s) \cup {<<p, f + 1>>}
    BY <2>3, <2>4, <2>5 DEF Descriptors
  <2>7. <<p, f + 1>> \notin Descriptors(s)
    BY <1>2 DEF Descriptors
  <2>8. ASSUME NEW r \in Sector \ {s} PROVE Descriptors(r)' = Descriptors(r)
    <3>1. \A d \in Procs \X (1..MaxFds) : fds'[d[1]][r] = fds[d[1]][r]
      BY <1>3, <2>2
    <3> QED BY <3>1 DEF Descriptors
  <2> QED BY <2>6, <2>7, <2>8
<1>5. ASSUME fds[p][s] > 0, fds' = [fds EXCEPT ![p][s] = @ - 1]
      PROVE  /\ Descriptors(s)' = Descriptors(s) \ {<<p, fds[p][s]>>}
             /\ <<p, fds[p][s]>> \in Descriptors(s)
             /\ \A r \in Sector \ {s} : Descriptors(r)' = Descriptors(r)
  <2>1. \A q \in Procs : fds'[q][s] = IF q = p THEN f - 1 ELSE fds[q][s]
    BY <1>1, <1>5
  <2>2. \A r \in Sector \ {s} : \A q \in Procs : fds'[q][r] = fds[q][r]
    BY <1>1, <1>5
  <2>3. <<p, f>> \in Procs \X (1..MaxFds)
    BY <1>1, <1>2, <1>5
  <2>4. \A d \in Procs \X (1..MaxFds) :
           d[2] <= fds'[d[1]][s] <=> d[2] <= fds[d[1]][s] /\ d # <<p, f>>
    <3>1. TAKE d \in Procs \X (1..MaxFds)
    <3>2. CASE d[1] = p
      <4>1. d = <<p, f>> <=> d[2] = f
        BY <1>3, <3>2
      <4> QED BY <1>2, <1>3, <2>1, <3>2, <4>1
    <3>3. CASE d[1] # p
      BY <1>3, <2>1, <3>3
    <3> QED BY <3>2, <3>3
  <2>5. Descriptors(s)' = {d \in Procs \X (1..MaxFds) : d[2] <= fds'[d[1]][s]}
    BY DEF Descriptors
  <2>6. Descriptors(s)' = Descriptors(s) \ {<<p, f>>}
    BY <2>4, <2>5 DEF Descriptors
  <2>7. <<p, f>> \in Descriptors(s)
    BY <1>2, <2>3 DEF Descriptors
  <2>8. ASSUME NEW r \in Sector \ {s} PROVE Descriptors(r)' = Descriptors(r)
    <3>1. \A d \in Procs \X (1..MaxFds) : fds'[d[1]][r] = fds[d[1]][r]
      BY <1>3, <2>2
    <3> QED BY <3>1 DEF Descriptors
  <2> QED BY <2>6, <2>7, <2>8
<1> QED BY <1>4, <1>5

\* Whoever runs a file, maps it, has a descriptor or a call under way refers to it.
LEMMA UsersRefer ==
    ASSUME TypeOK, NEW q \in Procs, NEW s \in Sector,
           \/ bin_file[q] = s \/ s \in maps[q] \/ fds[q][s] > 0
           \/ inode[q] = s /\ pc[q] \in PassingPCs
    PROVE  References(s) >= 1
<1>1. /\ Cardinality(Descriptors(s)) \in Nat /\ Cardinality(Mapping(s)) \in Nat
      /\ Cardinality(Running(s)) \in Nat /\ Cardinality(Passing(s)) \in Nat
  BY RefsFinite
<1>2. CASE bin_file[q] = s
  <2>1. q \in Running(s)
    BY <1>2 DEF Running
  <2>2. Cardinality(Running(s)) >= 1
    BY <2>1, RefsFinite, AtLeastOne
  <2> QED BY <1>1, <2>2 DEF References
<1>3. CASE s \in maps[q]
  <2>1. q \in Mapping(s)
    BY <1>3 DEF Mapping
  <2>2. Cardinality(Mapping(s)) >= 1
    BY <2>1, RefsFinite, AtLeastOne
  <2> QED BY <1>1, <2>2 DEF References
<1>4. CASE inode[q] = s /\ pc[q] \in PassingPCs
  <2>1. q \in Passing(s)
    BY <1>4 DEF Passing, PassingPCs
  <2>2. Cardinality(Passing(s)) >= 1
    BY <2>1, RefsFinite, AtLeastOne
  <2> QED BY <1>1, <2>2 DEF References
<1>5. CASE fds[q][s] > 0
  <2>1. fds[q] \in [Sector -> 0..MaxFds]
    BY DEF TypeOK
  <2>2. fds[q][s] \in 0..MaxFds /\ MaxFds \in Nat
    BY <2>1, ConstantFacts
  <2>3. <<q, 1>> \in Descriptors(s)
    BY <1>5, <2>2 DEF Descriptors
  <2>4. Cardinality(Descriptors(s)) >= 1
    BY <2>3, RefsFinite, AtLeastOne
  <2> QED BY <1>1, <2>4 DEF References
<1> QED BY <1>2, <1>3, <1>4, <1>5

LEMMA UsersInMemory ==
    ASSUME TypeOK, CountsExact, freed = {}, NEW s \in Sector, References(s) >= 1
    PROVE  s \in open_inodes
BY DEF CountsExact

-----------------------------------------------------------------------------
(* The lock, the executables and the locals.                               *)

LEMMA NextLocks ==
    ASSUME TypeOK, Sound, NEW p \in Procs, Acts(p)
    PROVE  Locks'
<1>0. Locks /\ None \notin Procs
  BY ConstantFacts DEF Sound
<1>a. LockOf(p)
  BY <1>0 DEF Locks
<1>1. ASSUME NEW q \in Procs, q # p PROVE LockOf(q)'
  <2>1. Kept(q)
    BY <1>1, OthersKept
  <2>2. LockOf(q)
    BY <1>0 DEF Locks
  <2> QED BY <2>1, <2>2 DEF LockOf, Kept
<1> SUFFICES LockOf(p)'
  BY <1>1 DEF Locks
<1> USE DEF local, Opening, Denying, Allowing, Closing, CallPCs
<1>r. ASSUME Return(p), pc[p] \notin Opening PROVE LockOf(p)'
  <2>1. back[p] \in {"user", "exit", "dead"}
    BY <1>0, <1>r, BackPlaces
  <2> QED BY <1>r, <2>1, Returns DEF LockOf
<1>p. ASSUME Panics PROVE LockOf(p)'
  BY <1>a, <1>p DEF LockOf, Panics
<1>2. CASE Creates(p) \/ Writes(p) \/ Exits(p) \/ EvictionTests(p) \/ EvictionWrites(p)
  <2>1. /\ pc[p] \in {"user", "evict", "exit"} /\ pc'[p] \in {"user", "evict", "exit"}
        /\ UNCHANGED back
    BY <1>2 DEF Creates, Writes, Exits, EvictionTests, EvictionWrites, Goto, TypeOK
  <2> QED BY <1>a, <2>1 DEF LockOf
<1>3. CASE Loads(p) \/ Opens(p) \/ Removes(p) \/ Mmaps(p)
  <2>1. /\ pc'[p] \in {"reopen", "fresh"} /\ fs_lock' = p
        /\ back'[p] \in {"opened", "mapped", "deny", "erase"}
    BY <1>3 DEF Loads, Opens, Removes, Finds, Mmaps, Takes, Goto, TypeOK
  <2> QED BY <2>1 DEF LockOf
<1>4. CASE ReopenReads(p) \/ DenyReads(p) \/ CloseReads(p) \/ DenyWrites(p) \/ RemoveErases(p)
  <2>1. /\ UNCHANGED <<back, fs_lock>>
        /\ <<pc[p], pc'[p]>> \in {<<"reopen", "count">>, <<"deny", "denies">>,
              <<"close", "closes">>, <<"denies", "denied">>, <<"erase", "close">>}
    BY <1>4 DEF ReopenReads, DenyReads, CloseReads, DenyWrites, RemoveErases, Reads, Goto, TypeOK
  <2> QED BY <1>a, <2>1 DEF LockOf
<1>5. CASE ReopenWrites(p) \/ InodeOpens(p)
  <2>1. /\ pc[p] \in {"count", "fresh"} /\ pc'[p] = back[p] /\ back'[p] = "user"
        /\ UNCHANGED fs_lock
    BY <1>5 DEF ReopenWrites, InodeOpens, GoesOn, Goto, TypeOK
  <2> QED BY <1>a, <2>1 DEF LockOf
<1>6. CASE DenyTests(p) \/ OpenReturns(p) \/ MmapReturns(p) \/ LastCloses(p)
  BY <1>p, <1>r, <1>6 DEF DenyTests, OpenReturns, MmapReturns, LastCloses
<1>7. CASE CloseWrites(p)
  <2>1. CASE Goto(p, "last") /\ UNCHANGED <<fs_lock, local>>
    <3>1. pc[p] = "closes" /\ pc'[p] = "last" /\ UNCHANGED <<back, fs_lock>>
      BY <1>7, <2>1 DEF CloseWrites, Goto, TypeOK
    <3> QED BY <1>a, <3>1 DEF LockOf
  <2> QED BY <1>7, <1>r, <2>1 DEF CloseWrites
<1>8. CASE AllowReads(p)
  <2>1. pc'[p] = "allow" /\ back'[p] = "dead"
    BY <1>8 DEF AllowReads, Goto, TypeOK
  <2> QED BY <2>1 DEF LockOf
<1>9. CASE AllowTests(p)
  <2>1. CASE UNCHANGED <<local, fs_lock>> /\ pc[p] = "allow" /\ pc'[p] = "allows"
    BY <1>a, <2>1 DEF LockOf
  <2>2. CASE Goto(p, "allows") /\ UNCHANGED <<local, fs_lock>>
    BY <1>9, <2>1, <2>2 DEF AllowTests, Goto, TypeOK
  <2> QED BY <1>9, <1>p, <2>2 DEF AllowTests
<1>10. CASE AllowWrites(p)
  <2>1. pc[p] = "allows" /\ pc'[p] = "close" /\ UNCHANGED back
    BY <1>10 DEF AllowWrites, Goto, TypeOK
  <2> QED BY <1>a, <2>1 DEF LockOf
<1>11. ASSUME NEW place \in {"user", "exit"}, ClosesFd(p, place) PROVE LockOf(p)'
  <2>1. pc'[p] = "close" /\ back'[p] = place /\ fs_lock' = p
    BY <1>11 DEF ClosesFd, Takes, Goto, TypeOK
  <2> QED BY <2>1 DEF LockOf
<1> QED BY <1>2, <1>3, <1>4, <1>5, <1>6, <1>7, <1>8, <1>9, <1>10, <1>11 DEF Acts

\* Before an inode comes into memory nobody uses it.
LEMMA FreshUnused ==
    ASSUME TypeOK, Sound, CountsExact, freed = {}, NEW p \in Procs, InodeOpens(p),
           NEW q \in Procs
    PROVE  /\ inode[p] \in Sector /\ inode[p] \notin open_inodes
           /\ References(inode[p]) = 0
           /\ bin_file[q] # inode[p]
           /\ back[q] = "dead" \/ pc[q] \in CallPCs \cup Closing => inode[q] # inode[p]
<1>1. inode[p] \in Sector /\ inode[p] \notin open_inodes
  BY InodesTyped DEF InodeOpens, Sound, Locals, LocalsOf
<1>2. References(inode[p]) = 0
  BY <1>1 DEF CountsExact
<1>3. bin_file[q] # inode[p]
  BY <1>1, <1>2, UsersRefer
<1>4. back[q] = "dead" \/ pc[q] \in CallPCs \cup Closing => inode[q] \in open_inodes
  BY DEF Sound, Locks, LockOf, Locals, LocalsOf
<1> QED BY <1>1, <1>2, <1>3, <1>4

LEMMA NextExecutables ==
    ASSUME TypeOK, Sound, CountsExact, freed = {}, NEW p \in Procs, Acts(p)
    PROVE  Executables'
<1>0. Locks /\ Executables /\ Locals
  BY DEF Sound
<1>a. LockOf(p) /\ ExecutableOf(p) /\ LocalsOf(p)
  BY <1>0 DEF Locks, Executables, Locals
<1>g. ASSUME NEW q \in Procs
      PROVE  /\ bin_file[q] # None => bin_file[q] \in ran'
             /\ back[q] = "dead" \/ pc[q] = "denied" => inode[q] \in ran'
  <2>1. /\ bin_file[q] # None => bin_file[q] \in ran
        /\ back[q] = "dead" \/ pc[q] = "denied" => inode[q] \in ran
    BY <1>0 DEF Executables, ExecutableOf
  <2>2. CASE InodeOpens(p)
    <3>1. ran' = ran \ {inode[p]}
      BY <2>2 DEF InodeOpens
    <3>2. /\ bin_file[q] # inode[p]
          /\ back[q] = "dead" \/ pc[q] = "denied" => inode[q] # inode[p]
      BY <2>2, FreshUnused DEF CallPCs, Denying
    <3> QED BY <2>1, <3>1, <3>2
  <2>3. CASE ~InodeOpens(p)
    <3>1. ran \subseteq ran'
      BY <2>3 DEF Acts, history, Loads, Opens, Removes, Finds, Mmaps, Creates, Writes, Exits,
         EvictionTests, EvictionWrites, ReopenReads, ReopenWrites, DenyReads, DenyWrites,
         DenyTests, Panics, OpenReturns, MmapReturns, CloseReads, CloseWrites, LastCloses,
         RemoveErases, AllowReads, AllowTests, AllowWrites, ClosesFd
    <3> QED BY <2>1, <3>1
  <2> QED BY <2>2, <2>3
<1>1. ASSUME NEW q \in Procs, q # p PROVE ExecutableOf(q)'
  <2>1. Kept(q)
    BY <1>1, OthersKept
  <2>2. ExecutableOf(q)
    BY <1>0 DEF Executables
  <2> QED BY <1>g, <2>1, <2>2 DEF ExecutableOf, Kept
<1> SUFFICES ExecutableOf(p)'
  BY <1>1 DEF Executables
<1>gp. /\ bin_file[p] # None => bin_file[p] \in ran'
       /\ back[p] = "dead" \/ pc[p] = "denied" => inode[p] \in ran'
  BY <1>g
<1>b. back[p] \in {"user", "opened", "mapped", "deny", "erase", "exit", "dead"}
  BY DEF TypeOK
<1> USE DEF local, refs, history, Opening, Denying, Allowing, Closing, CallPCs
<1>p. ASSUME Panics PROVE ExecutableOf(p)'
  BY <1>a, <1>p DEF ExecutableOf, Panics
<1>2. CASE Creates(p) \/ Writes(p) \/ Exits(p) \/ EvictionTests(p) \/ EvictionWrites(p)
  <2>1. /\ pc[p] \in {"user", "evict", "exit"} /\ pc'[p] \in {"user", "evict", "exit"}
        /\ UNCHANGED <<back, bin_file>> /\ back[p] = "user"
    BY <1>2, <1>0, BackPlaces
       DEF Creates, Writes, Exits, EvictionTests, EvictionWrites, Goto, TypeOK
  <2> QED BY <1>a, <1>gp, <2>1 DEF ExecutableOf
<1>3. CASE Loads(p)
  <2>1. /\ pc[p] = "new" /\ pc'[p] \in {"reopen", "fresh"} /\ back'[p] = "deny"
        /\ UNCHANGED bin_file
    BY <1>3 DEF Loads, Finds, Goto, TypeOK
  <2> QED BY <1>a, <2>1 DEF ExecutableOf
<1>4. CASE Opens(p) \/ Removes(p) \/ Mmaps(p)
  <2>1. /\ pc[p] = "user" /\ pc'[p] \in {"reopen", "fresh"}
        /\ back'[p] \in {"opened", "erase", "mapped"} /\ UNCHANGED bin_file
    BY <1>4 DEF Opens, Removes, Mmaps, Finds, Goto, TypeOK
  <2>2. back[p] = "user"
    BY <1>0, <2>1, BackPlaces
  <2> QED BY <1>a, <1>gp, <2>1, <2>2 DEF ExecutableOf
<1>5. CASE ReopenReads(p) \/ DenyReads(p) \/ CloseReads(p) \/ RemoveErases(p)
  <2>1. /\ UNCHANGED <<back, bin_file, inode>>
        /\ <<pc[p], pc'[p]>> \in {<<"reopen", "count">>, <<"deny", "denies">>,
              <<"close", "closes">>, <<"erase", "close">>}
    BY <1>5 DEF ReopenReads, DenyReads, CloseReads, RemoveErases, Reads, Goto, TypeOK
  <2> QED BY <1>a, <1>gp, <2>1 DEF ExecutableOf, LockOf
<1>6. CASE DenyWrites(p)
  <2>1. /\ UNCHANGED <<back, bin_file, inode>> /\ pc[p] = "denies" /\ pc'[p] = "denied"
        /\ inode[p] \in ran'
    BY <1>6 DEF DenyWrites, Goto, TypeOK
  <2> QED BY <1>a, <1>gp, <2>1 DEF ExecutableOf
<1>7. CASE ReopenWrites(p) \/ InodeOpens(p)
  <2>1. /\ pc[p] \in {"count", "fresh"} /\ pc'[p] = back[p] /\ back'[p] = "user"
        /\ UNCHANGED bin_file
    BY <1>7 DEF ReopenWrites, InodeOpens, GoesOn, Goto, TypeOK
  <2>2. back[p] \in {"opened", "mapped", "deny", "erase"}
    BY <1>0, <2>1, BackPlaces
  <2> QED BY <1>a, <1>gp, <2>1, <2>2 DEF ExecutableOf
<1>8. CASE DenyTests(p)
  <2>1. CASE ~Panics
    <3>1. /\ pc[p] = "denied" /\ Return(p) /\ bin_file' = [bin_file EXCEPT ![p] = inode[p]]
      BY <1>8, <2>1 DEF DenyTests
    <3>2. pc'[p] = "user" /\ back'[p] = "user" /\ bin_file'[p] = inode[p] /\ inode[p] \in Sector
      BY <1>0, <3>1, BackPlaces, InodesTyped, Returns DEF TypeOK
    <3> QED BY <1>gp, <3>1, <3>2, ConstantFacts DEF ExecutableOf
  <2> QED BY <1>p, <2>1
<1>9. CASE OpenReturns(p) \/ MmapReturns(p)
  <2>1. pc[p] \in {"opened", "mapped"} /\ Return(p) /\ UNCHANGED bin_file
    BY <1>9 DEF OpenReturns, MmapReturns
  <2>2. back[p] = "user" /\ pc'[p] = "user" /\ back'[p] = "user"
    BY <1>0, <2>1, BackPlaces, Returns
  <2> QED BY <1>a, <1>gp, <2>1, <2>2 DEF ExecutableOf
<1>c. ASSUME Return(p), pc[p] \in Closing, UNCHANGED bin_file PROVE ExecutableOf(p)'
  <2>1. back[p] \in {"user", "exit", "dead"} /\ pc'[p] = back[p] /\ back'[p] = "user"
    BY <1>0, <1>c, BackPlaces, Returns
  <2> QED BY <1>a, <1>c, <1>gp, <2>1 DEF ExecutableOf
<1>10. CASE LastCloses(p)
  BY <1>10, <1>c DEF LastCloses
<1>11. CASE CloseWrites(p)
  <2>1. CASE Goto(p, "last") /\ UNCHANGED <<fs_lock, local>>
    <3>1. pc[p] = "closes" /\ pc'[p] = "last" /\ UNCHANGED <<back, bin_file, inode>>
      BY <1>11, <2>1 DEF CloseWrites, Goto, TypeOK
    <3> QED BY <1>a, <1>gp, <3>1 DEF ExecutableOf
  <2> QED BY <1>11, <1>c, <2>1 DEF CloseWrites
<1>12. CASE AllowReads(p)
  <2>1. /\ pc[p] = "exit" /\ pc'[p] = "allow" /\ back'[p] = "dead" /\ UNCHANGED bin_file
        /\ inode'[p] = bin_file[p]
    BY <1>12 DEF AllowReads, Goto, TypeOK
  <2>2. back[p] = "user"
    BY <1>0, <2>1, BackPlaces
  <2> QED BY <1>a, <1>gp, <2>1, <2>2 DEF ExecutableOf
<1>13. CASE AllowTests(p)
  <2>1. CASE ~Panics
    <3>1. /\ pc[p] = "allow" /\ pc'[p] = "allows" /\ UNCHANGED <<back, bin_file, inode>>
      BY <1>13, <2>1 DEF AllowTests, Goto, TypeOK
    <3> QED BY <1>a, <1>gp, <3>1 DEF ExecutableOf
  <2> QED BY <1>p, <2>1
<1>14. CASE AllowWrites(p)
  <2>1. /\ pc[p] = "allows" /\ pc'[p] = "close" /\ bin_file'[p] = None /\ UNCHANGED <<back, inode>>
    BY <1>14 DEF AllowWrites, Goto, TypeOK
  <2> QED BY <1>a, <1>gp, <2>1 DEF ExecutableOf, LockOf
<1>15. ASSUME NEW place \in {"user", "exit"}, ClosesFd(p, place) PROVE ExecutableOf(p)'
  <2>1. pc[p] = place /\ pc'[p] = "close" /\ back'[p] = place /\ UNCHANGED bin_file
    BY <1>15 DEF ClosesFd, Goto, TypeOK
  <2>2. back[p] = "user"
    BY <1>0, <2>1, BackPlaces
  <2> QED BY <1>a, <1>gp, <2>1, <2>2 DEF ExecutableOf
<1> QED BY <1>2, <1>3, <1>4, <1>5, <1>6, <1>7, <1>8, <1>9, <1>10, <1>11, <1>12, <1>13, <1>14,
           <1>15 DEF Acts

\* The step that closes an inode for the last time, when nobody used it.
LEMMA LastUnused ==
    ASSUME TypeOK, NEW p \in Procs, LastCloses(p), freed' = {}
    PROVE  /\ References(inode[p]) = 0
           /\ \A q \in Procs \ {p} : inode[q] # inode[p]
<1>1. ~ InUse(inode[p], p)
  BY DEF LastCloses
<1>2. References(inode[p]) \in Nat
  BY RefsFinite
<1> QED BY <1>1, <1>2 DEF InUse

LEMMA NextLocals ==
    ASSUME TypeOK, Sound, CountsExact, freed = {}, NEW p \in Procs, Acts(p), freed' = {}
    PROVE  Locals'
<1>0. Locks /\ Executables /\ Locals
  BY DEF Sound
<1>a. LockOf(p) /\ ExecutableOf(p) /\ LocalsOf(p)
  BY <1>0 DEF Locks, Executables, Locals
<1>b. None \notin Procs /\ None \notin Sector
  BY ConstantFacts
<1> USE DEF local, refs, history, onDisk, inodes, Opening, Denying, Allowing, Closing, CallPCs
<1>d. ASSUME NEW s \in Sector, \E n \in Entries : dir[n] = s, ~ (RemoveErases(p) /\ s = inode[p])
      PROVE  \E n \in Entries' : dir'[n] = s
  <2>1. CASE UNCHANGED dir
    BY <1>d, <2>1 DEF Entries
  <2>2. CASE RemoveErases(p)
    BY <1>d, <2>2 DEF RemoveErases, Entries
  <2>3. CASE Creates(p)
    <3>1. \/ CreateFails(p)
          \/ \E n \in Created : \E t, d \in Free :
                t # d /\ (CreateLoses(d) \/ CreateAdds(n, t, d))
      BY <2>3, CreateCases
    <3>2. ASSUME NEW n \in Created, NEW t \in Free, NEW d \in Free, CreateAdds(n, t, d)
          PROVE  \E m \in Entries' : dir'[m] = s
      BY <1>d, <3>2 DEF CreateAdds, Entries
    <3> QED BY <2>1, <3>1, <3>2 DEF CreateFails, CreateLoses
  <2>4. CASE ~ RemoveErases(p) /\ ~ Creates(p)
    <3>1. UNCHANGED dir
      BY <2>4 DEF Acts, Loads, Opens, Removes, Finds, Mmaps, Writes, Exits,
         EvictionTests, EvictionWrites, ReopenReads, ReopenWrites, InodeOpens, DenyReads,
         DenyWrites, DenyTests, Panics, OpenReturns, MmapReturns, CloseReads, CloseWrites,
         LastCloses, AllowReads, AllowTests, AllowWrites, ClosesFd
    <3> QED BY <2>1, <3>1
  <2> QED BY <2>2, <2>3, <2>4
<1>e. \A q, r \in Procs : inode[q] \in maps[r] => inode[q] \in maps'[r]
  <2>1. CASE MmapReturns(p)
    BY <2>1 DEF MmapReturns, TypeOK
  <2>2. CASE ~MmapReturns(p)
    BY <2>2 DEF Acts, Loads, Opens, Removes, Finds, Mmaps, Writes, Exits, Creates, RemoveErases,
         EvictionTests, EvictionWrites, ReopenReads, ReopenWrites, InodeOpens, DenyReads,
         DenyWrites, DenyTests, Panics, OpenReturns, CloseReads, CloseWrites,
         LastCloses, AllowReads, AllowTests, AllowWrites, ClosesFd
  <2> QED BY <2>1, <2>2
<1>f. /\ ~InodeOpens(p) => open_inodes' \subseteq open_inodes
      /\ ~LastCloses(p) => open_inodes \subseteq open_inodes'
  BY DEF Acts, Loads, Opens, Removes, Finds, Mmaps, Writes, Exits, Creates, RemoveErases,
         EvictionTests, EvictionWrites, ReopenReads, ReopenWrites, InodeOpens, DenyReads,
         DenyWrites, DenyTests, Panics, OpenReturns, MmapReturns, CloseReads, CloseWrites,
         LastCloses, AllowReads, AllowTests, AllowWrites, ClosesFd
<1>g. ASSUME NEW s \in Sector, References(s) >= 1 PROVE s \in open_inodes
  BY <1>g, UsersInMemory
<1>1. ASSUME NEW q \in Procs, q # p PROVE LocalsOf(q)'
  <2>1. Kept(q)
    BY <1>1, OthersKept
  <2>2. LockOf(q) /\ LocalsOf(q)
    BY <1>0 DEF Locks, Locals
  <2>3. pc[q] \notin {"new", "user", "exit", "dead"} => inode[q] \in Sector
    BY <1>0, InodesTyped
  <2>4. pc[q] \in Opening \cup {"erase"} => ~RemoveErases(p) /\ ~InodeOpens(p)
    BY <1>a, <1>1, <2>2 DEF LockOf, RemoveErases, InodeOpens
  <2>5. ASSUME inode[q] \in open_inodes PROVE inode[q] \in open_inodes'
    <3>1. CASE LastCloses(p)
      <4>1. inode[q] # inode[p]
        BY <1>1, <3>1, LastUnused
      <4> QED BY <2>5, <3>1, <4>1 DEF LastCloses
    <3> QED BY <1>f, <2>5, <3>1
  <2>6. (pc[q] \in Opening /\ back[q] # "mapped") \/ pc[q] = "erase"
           => \E n \in Entries' : dir'[n] = inode[q]
    BY <1>d, <2>2, <2>3, <2>4 DEF LocalsOf
  <2>7. pc[q] = "evict" => \E r \in Procs : inode[q] \in maps'[r]
    BY <1>e, <2>2 DEF LocalsOf
  <2>8. pc[q] = "fresh" => inode[q] \notin open_inodes'
    BY <1>f, <2>2, <2>4 DEF LocalsOf
  <2>9. pc[q] \in Closing \cup CallPCs \cup Allowing \cup {"reopen", "count"}
          => inode[q] \in open_inodes'
    BY <2>2, <2>5 DEF LocalsOf
  <2> HIDE DEF Opening, Denying, Allowing, Closing, CallPCs
  <2> QED BY <2>1, <2>2, <2>6, <2>7, <2>8, <2>9 DEF LocalsOf, Kept
<1> SUFFICES LocalsOf(p)'
  BY <1>1 DEF Locals
<1>r. ASSUME Return(p), pc[p] \notin Opening PROVE LocalsOf(p)'
  <2>1. back[p] \in {"user", "exit", "dead"}
    BY <1>0, <1>r, BackPlaces
  <2>2. pc'[p] = back[p] /\ back'[p] = "user" /\ inode'[p] = None
    BY <1>r, Returns
  <2> QED BY <2>1, <2>2 DEF LocalsOf
<1>p. ASSUME Panics PROVE LocalsOf(p)'
  BY <1>a, <1>p DEF LocalsOf, Panics, Entries
<1>2. CASE Creates(p) \/ Writes(p) \/ Exits(p) \/ EvictionWrites(p)
  <2>1. pc'[p] \in {"user", "exit"} /\ UNCHANGED back
    BY <1>2 DEF Creates, Writes, Exits, EvictionWrites, Goto, TypeOK
  <2>2. inode'[p] = None
    BY <1>a, <1>2 DEF Creates, Writes, Exits, EvictionWrites, TypeOK, LocalsOf
  <2>3. back[p] = "user"
    BY <1>0, <1>2, BackPlaces DEF Creates, Writes, Exits, EvictionWrites
  <2> QED BY <2>1, <2>2, <2>3 DEF LocalsOf
<1>3. CASE EvictionTests(p)
  <2>1. /\ pc[p] = "user" /\ pc'[p] = "evict" /\ UNCHANGED <<back, maps>>
        /\ \E q \in Procs : \E s \in Mapped(q) : inode' = [inode EXCEPT ![p] = s]
    BY <1>3 DEF EvictionTests, Goto, TypeOK
  <2>2. back[p] = "user"
    BY <1>0, <2>1, BackPlaces
  <2>3. PICK q \in Procs : \E s \in Mapped(q) : inode' = [inode EXCEPT ![p] = s]
    BY <2>1
  <2>4. inode'[p] \in maps[q] /\ inode'[p] \in Sector
    BY <2>3 DEF Mapped, TypeOK
  <2> QED BY <1>b, <2>1, <2>2, <2>4 DEF LocalsOf
<1>4. ASSUME NEW n \in Names, NEW place \in {"deny", "opened", "erase"}, Finds(p, n, place),
             place = "opened" => fds[p][dir[n]] < MaxFds
      PROVE  LocalsOf(p)'
  <2>1. /\ n \in Entries /\ inode'[p] = dir[n] /\ back'[p] = place
        /\ pc'[p] = (IF dir[n] \in open_inodes THEN "reopen" ELSE "fresh")
        /\ UNCHANGED <<refs, dir, open_inodes>>
    BY <1>4 DEF Finds, Goto, TypeOK
  <2>2. dir[n] \in Sector
    BY <2>1 DEF TypeOK
  <2> QED BY <1>b, <1>4, <2>1, <2>2 DEF LocalsOf, Entries
<1>5. CASE Loads(p)
  BY <1>4, <1>5, ConstantFacts DEF Loads
<1>6. CASE Removes(p)
  BY <1>4, <1>6, ConstantFacts DEF Removes
<1>7. CASE Opens(p)
  BY <1>4, <1>7, ConstantFacts DEF Opens, TypeOK
<1>8. CASE Mmaps(p)
  <2>1. PICK s \in Sector \ maps[p] : fds[p][s] > 0 /\ inode' = [inode EXCEPT ![p] = s]
    BY <1>8 DEF Mmaps
  <2>2. s \in open_inodes
    BY <1>g, <2>1, UsersRefer
  <2>3. /\ inode'[p] = s /\ pc'[p] = "reopen" /\ back'[p] = "mapped"
        /\ UNCHANGED <<maps, open_inodes>>
    BY <1>8, <2>1 DEF Mmaps, Goto, TypeOK
  <2> QED BY <1>b, <2>1, <2>2, <2>3 DEF LocalsOf
<1>9. CASE ReopenReads(p) \/ CloseReads(p) \/ RemoveErases(p)
  <2>1. /\ <<pc[p], pc'[p]>> \in {<<"reopen", "count">>, <<"close", "closes">>,
                                  <<"erase", "close">>}
        /\ UNCHANGED <<back, inode, fds, maps, open_inodes>>
    BY <1>9 DEF ReopenReads, CloseReads, RemoveErases, Reads, Goto, TypeOK
  <2>2. pc[p] = "reopen" => UNCHANGED dir
    BY <1>9 DEF ReopenReads, CloseReads, RemoveErases
  <2>3. pc[p] \in {"erase", "close"} => back[p] \notin {"opened", "mapped"}
    BY <1>0, BackPlaces
  <2> QED BY <1>a, <2>1, <2>2, <2>3 DEF LocalsOf, Entries
<1>10. CASE DenyReads(p)
  <2>1. inode[p] \in Sector
    BY <1>0, <1>10, InodesTyped DEF DenyReads
  <2>2. deny_write_cnt[inode[p]] >= 0
    BY <2>1 DEF TypeOK
  <2>3. /\ pc[p] = "deny" /\ pc'[p] = "denies" /\ seen'[p] = deny_write_cnt[inode[p]]
        /\ UNCHANGED <<back, inode, fds, maps, open_inodes>>
    BY <1>10 DEF DenyReads, Reads, Goto, TypeOK
  <2>4. back[p] = "user"
    BY <1>0, <2>3, BackPlaces
  <2> QED BY <1>a, <2>2, <2>3, <2>4 DEF LocalsOf
<1>11. CASE DenyWrites(p)
  <2>1. /\ pc[p] = "denies" /\ pc'[p] = "denied"
        /\ UNCHANGED <<seen, back, inode, fds, maps, open_inodes>>
    BY <1>11 DEF DenyWrites, Goto, TypeOK
  <2>2. back[p] = "user"
    BY <1>0, <2>1, BackPlaces
  <2> QED BY <1>a, <2>1, <2>2 DEF LocalsOf
<1>12. CASE ReopenWrites(p) \/ InodeOpens(p)
  <2>1. /\ pc[p] \in {"count", "fresh"} /\ pc'[p] = back[p] /\ back'[p] = "user"
        /\ UNCHANGED <<inode, fds, maps, dir>>
    BY <1>12 DEF ReopenWrites, InodeOpens, GoesOn, Goto, TypeOK
  <2>2. back[p] \in {"opened", "mapped", "deny", "erase"}
    BY <1>0, <2>1, BackPlaces
  <2>3. inode[p] \in open_inodes'
    BY <1>a, <1>12 DEF ReopenWrites, InodeOpens, LocalsOf
  <2> QED BY <1>a, <2>1, <2>2, <2>3 DEF LocalsOf, Entries
<1>13. CASE DenyTests(p) \/ OpenReturns(p) \/ MmapReturns(p) \/ LastCloses(p)
  BY <1>p, <1>r, <1>13 DEF DenyTests, OpenReturns, MmapReturns, LastCloses
<1>14. CASE CloseWrites(p)
  <2>1. CASE Goto(p, "last") /\ UNCHANGED <<fs_lock, local>>
    <3>1. /\ pc[p] = "closes" /\ pc'[p] = "last"
          /\ UNCHANGED <<back, inode, fds, maps, open_inodes>>
      BY <1>14, <2>1 DEF CloseWrites, Goto, TypeOK
    <3>2. back[p] \notin {"opened", "mapped"}
      BY <1>0, <3>1, BackPlaces
    <3> QED BY <1>a, <3>1, <3>2 DEF LocalsOf
  <2> QED BY <1>14, <1>r, <2>1 DEF CloseWrites
<1>15. CASE AllowReads(p)
  <2>1. /\ pc[p] = "exit" /\ pc'[p] = "allow" /\ back'[p] = "dead" /\ inode'[p] = bin_file[p]
        /\ UNCHANGED open_inodes
    BY <1>15 DEF AllowReads, Goto, TypeOK
  <2>2. back[p] = "user"
    BY <1>0, <2>1, BackPlaces
  <2>3. bin_file[p] # None /\ bin_file[p] \in Sector
    BY <1>a, <2>1, <2>2 DEF ExecutableOf, TypeOK
  <2>4. bin_file[p] \in open_inodes
    BY <1>g, <2>3, UsersRefer
  <2> QED BY <2>1, <2>3, <2>4 DEF LocalsOf
<1>16. CASE AllowTests(p)
  <2>1. CASE ~Panics
    <3>1. /\ pc[p] = "allow" /\ pc'[p] = "allows" /\ IsDenied(seen[p])
          /\ UNCHANGED <<seen, back, inode, fds, maps, open_inodes>>
      BY <1>16, <2>1 DEF AllowTests, Goto, TypeOK
    <3>2. back[p] \notin {"opened", "mapped"}
      BY <1>0, <3>1, BackPlaces
    <3>3. seen[p] >= 1
      BY <3>1 DEF IsDenied, TypeOK
    <3> QED BY <1>a, <3>1, <3>2, <3>3 DEF LocalsOf
  <2> QED BY <1>p, <2>1
<1>17. CASE AllowWrites(p)
  <2>1. /\ pc[p] = "allows" /\ pc'[p] = "close" /\ UNCHANGED <<back, inode, fds, maps, open_inodes>>
    BY <1>17 DEF AllowWrites, Goto, TypeOK
  <2>2. back[p] \notin {"opened", "mapped"}
    BY <1>0, <2>1, BackPlaces
  <2> QED BY <1>a, <2>1, <2>2 DEF LocalsOf
<1>18. ASSUME NEW place \in {"user", "exit"}, ClosesFd(p, place) PROVE LocalsOf(p)'
  <2>1. PICK s \in Sector : fds[p][s] > 0 /\ inode' = [inode EXCEPT ![p] = s]
    BY <1>18 DEF ClosesFd
  <2>2. s \in open_inodes
    BY <1>g, <2>1, UsersRefer
  <2>3. inode'[p] = s /\ pc'[p] = "close" /\ back'[p] = place /\ UNCHANGED open_inodes
    BY <1>18, <2>1 DEF ClosesFd, Goto, TypeOK
  <2> QED BY <1>b, <2>2, <2>3 DEF LocalsOf
<1> QED BY <1>2, <1>3, <1>5, <1>6, <1>7, <1>8, <1>9, <1>10, <1>11, <1>12, <1>13, <1>14, <1>15,
           <1>16, <1>17, <1>18 DEF Acts

-----------------------------------------------------------------------------
(* What process_exit can spoil.                                            *)

\* A call with an inode that nobody has run has fs_lock, and nobody else changes
\* the counters of that inode meanwhile.
LEMMA CountersKept ==
    ASSUME TypeOK, Sound, NEW p \in Procs, Acts(p), NEW q \in Procs, q # p, inode[q] \notin ran,
           pc[q] \in {"count", "closes", "denies", "last"}
    PROVE  /\ ~ InodeOpens(p) /\ inode[q] \in Sector
           /\ open_cnt'[inode[q]] = open_cnt[inode[q]]
           /\ deny_write_cnt'[inode[q]] = deny_write_cnt[inode[q]]
<1> USE DEF Opening, Denying, Allowing, Closing, CallPCs, inodes
<1>1. fs_lock = q /\ inode[q] \in Sector
  BY InodesTyped DEF Sound, Locks, LockOf, Executables, ExecutableOf
<1>2. /\ pc[p] \notin Opening \cup CallPCs
      /\ back[p] = "dead" => inode[p] # inode[q]
      /\ pc[p] \in Closing \cup Allowing => back[p] = "dead"
  BY <1>1 DEF Sound, Locks, LockOf, Executables, ExecutableOf
<1>3. CASE CloseWrites(p) \/ AllowWrites(p)
  <2>1. inode[p] # inode[q]
    BY <1>2, <1>3 DEF CloseWrites, AllowWrites
  <2> QED BY <1>1, <1>3, <2>1 DEF CloseWrites, AllowWrites, InodeOpens, TypeOK
<1>4. CASE ~ (CloseWrites(p) \/ AllowWrites(p))
  <2>1. ~ (ReopenWrites(p) \/ InodeOpens(p) \/ DenyWrites(p))
    BY <1>2 DEF ReopenWrites, InodeOpens, DenyWrites
  <2>2. UNCHANGED <<open_cnt, deny_write_cnt>>
    BY <1>4, <2>1 DEF Acts, Loads, Opens, Removes, Finds, Mmaps, Writes, Exits, Creates,
       RemoveErases, EvictionTests, EvictionWrites, ReopenReads, DenyReads, DenyTests, Panics,
       OpenReturns, MmapReturns, CloseReads, LastCloses, AllowReads, AllowTests, ClosesFd
  <2> QED BY <1>1, <2>1, <2>2
<1> QED BY <1>3, <1>4

LEMMA NextFresh ==
    ASSUME TypeOK, Sound, CountsExact, freed = {}, NEW p \in Procs, Acts(p)
    PROVE  Fresh'
<1>0. Locks /\ Executables /\ Locals /\ Fresh
  BY DEF Sound
<1>a. ~InodeOpens(p) => ran \subseteq ran'
  BY DEF Acts, history, Loads, Opens, Removes, Finds, Mmaps, Creates, Writes, Exits,
     EvictionTests, EvictionWrites, ReopenReads, ReopenWrites, DenyReads, DenyWrites,
     DenyTests, Panics, OpenReturns, MmapReturns, CloseReads, CloseWrites, LastCloses,
     RemoveErases, AllowReads, AllowTests, AllowWrites, ClosesFd
<1> USE DEF Opening, Denying, Allowing, Closing, CallPCs, local, history, inodes
<1>1. ASSUME NEW q \in Procs, q # p PROVE FreshOf(q)'
  <2>1. Kept(q) /\ FreshOf(q)
    BY <1>0, <1>1, OthersKept DEF Fresh
  <2>2. SUFFICES ASSUME inode[q] \notin ran', pc[q] \in {"count", "closes", "denies", "last"}
                 PROVE  FreshOf(q)'
    BY <2>1 DEF FreshOf, Kept
  <2>3. inode[q] \notin ran
    <3>1. CASE InodeOpens(p)
      <4>1. inode[q] # inode[p]
        <5>1. pc[q] # "count"
          BY <1>0, <1>1, <3>1 DEF InodeOpens, Locks, LockOf
        <5> QED BY <2>2, <3>1, <5>1, FreshUnused
      <4> QED BY <2>2, <3>1, <4>1 DEF InodeOpens
    <3> QED BY <1>a, <2>2, <3>1
  <2>4. /\ open_cnt'[inode[q]] = open_cnt[inode[q]]
        /\ deny_write_cnt'[inode[q]] = deny_write_cnt[inode[q]]
    BY <1>1, <2>2, <2>3, CountersKept
  <2> QED BY <2>1, <2>3, <2>4 DEF FreshOf, Kept
<1> SUFFICES FreshOf(p)'
  BY <1>1 DEF Fresh
<1>b. FreshOf(p)
  BY <1>0 DEF Fresh
<1>p. ASSUME Panics PROVE FreshOf(p)'
  BY <1>b, <1>p DEF FreshOf, Panics
<1>r. ASSUME Return(p), pc[p] \notin Opening PROVE FreshOf(p)'
  <2>1. pc'[p] \in {"user", "exit", "dead"}
    BY <1>0, <1>r, BackPlaces, Returns
  <2> QED BY <2>1 DEF FreshOf
<1>2. ASSUME pc'[p] \notin {"count", "closes", "denies", "last"} PROVE FreshOf(p)'
  BY <1>2 DEF FreshOf
<1>3. CASE \/ Creates(p) \/ Writes(p) \/ Exits(p) \/ EvictionTests(p) \/ EvictionWrites(p)
           \/ Loads(p) \/ Opens(p) \/ Removes(p) \/ Mmaps(p) \/ RemoveErases(p) \/ DenyWrites(p)
           \/ AllowReads(p) \/ AllowWrites(p)
  BY <1>2, <1>3 DEF Creates, Writes, Exits, EvictionTests, EvictionWrites, Loads, Opens, Removes,
     Finds, Mmaps, RemoveErases, DenyWrites, AllowReads, AllowWrites, Goto, TypeOK
<1>4. CASE ReopenReads(p) \/ DenyReads(p) \/ CloseReads(p)
  <2>1. /\ inode'[p] = inode[p] /\ UNCHANGED inodes
        /\ pc'[p] = "count" \/ pc'[p] = "closes" => seen'[p] = open_cnt[inode[p]]
        /\ pc'[p] = "denies" => seen'[p] = deny_write_cnt[inode[p]]
        /\ pc'[p] # "last"
    BY <1>4 DEF ReopenReads, DenyReads, CloseReads, Reads, Goto, TypeOK
  <2> QED BY <2>1 DEF FreshOf
<1>5. CASE ReopenWrites(p) \/ InodeOpens(p)
  <2>1. pc[p] \in Opening /\ pc'[p] = back[p]
    BY <1>5 DEF ReopenWrites, InodeOpens, GoesOn, Goto, TypeOK
  <2>2. back[p] \in {"opened", "mapped", "deny", "erase"}
    BY <1>0, <2>1, BackPlaces
  <2> QED BY <1>2, <2>1, <2>2
<1>6. CASE DenyTests(p) \/ OpenReturns(p) \/ MmapReturns(p) \/ LastCloses(p)
  BY <1>p, <1>r, <1>6 DEF DenyTests, OpenReturns, MmapReturns, LastCloses
<1>7. CASE CloseWrites(p)
  <2>1. CASE Goto(p, "last") /\ seen[p] = 1 /\ UNCHANGED <<fs_lock, local>>
    <3>1. /\ pc'[p] = "last" /\ UNCHANGED inode
          /\ open_cnt' = [open_cnt EXCEPT ![inode[p]] = seen[p] - 1]
      BY <1>7, <2>1 DEF CloseWrites, Goto, TypeOK
    <3>2. inode[p] \in Sector
      BY <1>0, <1>7, InodesTyped DEF CloseWrites
    <3>3. open_cnt'[inode[p]] = 0
      BY <2>1, <3>1, <3>2 DEF TypeOK
    <3> QED BY <3>1, <3>3 DEF FreshOf
  <2> QED BY <1>7, <1>r, <2>1 DEF CloseWrites
<1>8. CASE AllowTests(p)
  <2>1. CASE ~Panics
    BY <1>2, <1>8, <2>1 DEF AllowTests, Goto, TypeOK
  <2> QED BY <1>p, <2>1
<1>9. CASE ClosesFd(p, "user") \/ ClosesFd(p, "exit")
  BY <1>2, <1>9 DEF ClosesFd, Goto, TypeOK
<1> QED BY <1>3, <1>4, <1>5, <1>6, <1>7, <1>8, <1>9 DEF Acts

LEMMA NextHarm ==
    ASSUME TypeOK, Sound, CountsExact, DocumentsUnharmed, freed = {}, NEW p \in Procs, Acts(p)
    PROVE  DocumentsUnharmed'
<1>0. Locks /\ Executables /\ Locals /\ Fresh
  BY DEF Sound
<1>a. LockOf(p) /\ ExecutableOf(p) /\ LocalsOf(p) /\ FreshOf(p)
  BY <1>0 DEF Locks, Executables, Locals, Fresh
<1> USE DEF Opening, Denying, Allowing, Closing, CallPCs, local, history, inodes, crash
<1>1. CASE ReopenWrites(p) \/ CloseWrites(p)
  <2>1. /\ pc[p] \in {"count", "closes"} /\ Stores(p, open_cnt) /\ UNCHANGED <<freed, ran>>
    BY <1>1 DEF ReopenWrites, CloseWrites
  <2>2. inode[p] \in ran \/ open_cnt[inode[p]] = seen[p]
    BY <1>a, <2>1 DEF FreshOf
  <2> QED BY <2>1, <2>2 DEF Stores, DocumentsUnharmed
<1>2. CASE DenyWrites(p) \/ AllowWrites(p)
  <2>1. /\ Stores(p, deny_write_cnt) /\ UNCHANGED freed /\ ran \subseteq ran' /\ inode[p] \in ran'
    BY <1>a, <1>2 DEF DenyWrites, AllowWrites, LockOf, ExecutableOf
  <2> QED BY <2>1 DEF Stores, DocumentsUnharmed
<1>3. CASE InodeOpens(p)
  BY <1>3 DEF InodeOpens, DocumentsUnharmed
<1>4. CASE LastCloses(p)
  <2> DEFINE s == inode[p]
  <2>1. /\ pc[p] = "last" /\ freed' = {t \in {s} : InUse(t, p)} /\ UNCHANGED <<ran, spoiled>>
    BY <1>4 DEF LastCloses
  <2>2. SUFFICES ASSUME s \notin ran, InUse(s, p) PROVE FALSE
    BY <2>1 DEF DocumentsUnharmed
  <2>3. s \in Sector /\ s \in open_inodes /\ s \notin spoiled /\ open_cnt[s] = 0
    BY <1>0, <1>a, <2>1, <2>2, InodesTyped DEF LocalsOf, FreshOf, DocumentsUnharmed
  <2>4. References(s) = 0
    BY <2>3 DEF CountsExact
  <2>5. PICK q \in Procs \ {p} : inode[q] = s
    BY <2>2, <2>4 DEF InUse
  <2>6. LockOf(q) /\ ExecutableOf(q) /\ LocalsOf(q)
    BY <1>0 DEF Locks, Executables, Locals
  <2>7. fs_lock = p
    BY <1>a, <2>1, <2>2 DEF LockOf, ExecutableOf
  <2>8. pc[q] \notin Opening \cup CallPCs \cup Closing \cup Allowing
    BY <2>2, <2>5, <2>6, <2>7 DEF LockOf, ExecutableOf
  <2>9. pc[q] \notin {"new", "user", "exit", "dead"}
    BY <2>3, <2>5, <2>6, ConstantFacts DEF LocalsOf
  <2>10. pc[q] = "evict"
    BY <2>8, <2>9 DEF TypeOK
  <2>11. PICK r \in Procs : s \in maps[r]
    BY <2>5, <2>6, <2>10 DEF LocalsOf
  <2> QED BY <2>3, <2>4, <2>11, UsersRefer
<1>5. CASE ~ (ReopenWrites(p) \/ CloseWrites(p) \/ DenyWrites(p) \/ AllowWrites(p)
              \/ InodeOpens(p) \/ LastCloses(p))
  <2>1. UNCHANGED <<ran, spoiled, freed>>
    BY <1>5 DEF Acts, Loads, Opens, Removes, Finds, Mmaps, Writes, Exits, Creates,
       RemoveErases, EvictionTests, EvictionWrites, ReopenReads, DenyReads, DenyTests, Panics,
       OpenReturns, MmapReturns, CloseReads, AllowReads, AllowTests, ClosesFd
  <2> QED BY <2>1 DEF DocumentsUnharmed
<1> QED BY <1>1, <1>2, <1>3, <1>4, <1>5

-----------------------------------------------------------------------------
(* The counters.                                                           *)

\* The counters of one inode are exact.
Counted(s) == open_cnt[s] = References(s) /\ deny_write_cnt[s] = Denials(s)

\* Denials within the count follow from what both count.
LEMMA DenialsBelow ==
    ASSUME NEW s
    PROVE  Denials(s) <= References(s) /\ Denials(s)' <= References(s)'
<1>1. Denied(s) \subseteq Passing(s) /\ Denied(s)' \subseteq Passing(s)'
  BY DEF Denied, Passing, Denying
<1>2. /\ Cardinality(Denied(s)) <= Cardinality(Passing(s))
      /\ Cardinality(Denied(s)') <= Cardinality(Passing(s)')
  BY <1>1, RefsFinite, RefsFiniteNext, FS_Subset
<1> QED BY <1>2, RefsFinite, RefsFiniteNext DEF References, Denials

CountsParts ==
    /\ \A s \in open_inodes \ spoiled : Counted(s)
    /\ \A s \in Sector \ (open_inodes \cup freed) : References(s) = 0

LEMMA CountsMean == CountsExact <=> CountsParts
BY DenialsBelow DEF CountsExact, CountsParts, Counted, Denials

LEMMA CountsMeanNext == CountsExact' <=> CountsParts'
BY CountsMean, PTL

\* A step that leaves the counters and the references alone.
LEMMA CountsKept ==
    ASSUME TypeOK, CountsExact, UNCHANGED <<inodes, spoiled, freed>>,
           \A s \in Sector : References(s)' = References(s) /\ Denials(s)' = Denials(s)
    PROVE  CountsExact'
<1>1. open_inodes' \subseteq Sector
  BY DEF TypeOK, inodes
<1>2. \A s \in open_inodes' \ spoiled' : Counted(s)'
  BY <1>1, CountsMean DEF Counted, CountsParts, inodes
<1>3. \A s \in Sector \ (open_inodes' \cup freed') : References(s)' = 0
  BY CountsMean DEF CountsParts, inodes
<1> QED BY <1>2, <1>3, CountsMeanNext DEF CountsParts

\* What p itself contributes is the same, and no descriptor comes or goes.
LEMMA SameContribution ==
    ASSUME TypeOK, NEW p \in Procs, Acts(p), NEW s \in Sector, UNCHANGED fds,
           Mine(p, s)' = Mine(p, s), MyDenials(p, s)' = MyDenials(p, s)
    PROVE  References(s)' = References(s) /\ Denials(s)' = Denials(s)
BY ReferencesSame, ReferencesAfter, RefsFinite, RefsFiniteNext

\* Steps that hand a reference on, or do nothing with references.
LEMMA HandsOn ==
    ASSUME TypeOK, Sound, NEW p \in Procs, Acts(p), NEW s \in Sector,
           ~ (ReopenWrites(p) \/ InodeOpens(p) \/ DenyWrites(p) \/ AllowWrites(p)
              \/ CloseWrites(p) \/ LastCloses(p))
    PROVE  References(s)' = References(s) /\ Denials(s)' = Denials(s)
<1>0. Locks /\ Executables /\ Locals
  BY DEF Sound
<1>a. LockOf(p) /\ ExecutableOf(p) /\ LocalsOf(p)
  BY <1>0 DEF Locks, Executables, Locals
<1>b. None \notin Sector /\ s # None
  BY ConstantFacts
<1> USE DEF Opening, Denying, Allowing, Closing, CallPCs, local, refs
<1>s. ASSUME UNCHANGED <<bin_file, fds>>, maps'[p] = maps[p],
             inode'[p] = s /\ pc'[p] \in PassingPCs <=> inode[p] = s /\ pc[p] \in PassingPCs,
             inode'[p] = s /\ pc'[p] = "denied" <=> inode[p] = s /\ pc[p] = "denied"
      PROVE  References(s)' = References(s) /\ Denials(s)' = Denials(s)
  <2>1. Mine(p, s)' = Mine(p, s) /\ MyDenials(p, s)' = MyDenials(p, s)
    BY <1>s DEF Mine, MyDenials, PassingPCs, One
  <2> QED BY <1>s, <2>1, SameContribution
<1>1. CASE Creates(p) \/ Writes(p)
  BY <1>1, <1>s DEF Creates, Writes
<1>2. CASE Exits(p) \/ EvictionTests(p) \/ EvictionWrites(p) \/ AllowReads(p) \/ Mmaps(p)
  <2>1. /\ UNCHANGED refs /\ pc[p] \in {"user", "evict", "exit"}
        /\ pc'[p] \in {"exit", "evict", "user", "allow", "reopen"}
    BY <1>2 DEF Exits, EvictionTests, EvictionWrites, AllowReads, Mmaps, Goto, TypeOK
  <2> QED BY <1>s, <2>1 DEF PassingPCs
<1>3. CASE Loads(p) \/ Opens(p) \/ Removes(p)
  <2>1. UNCHANGED refs /\ pc[p] \in {"new", "user"} /\ pc'[p] \in {"reopen", "fresh"}
    BY <1>3 DEF Loads, Opens, Removes, Finds, Goto, TypeOK
  <2> QED BY <1>s, <2>1 DEF PassingPCs
<1>4. CASE ReopenReads(p) \/ DenyReads(p) \/ CloseReads(p) \/ RemoveErases(p)
  <2>1. /\ UNCHANGED <<refs, inode>>
        /\ <<pc[p], pc'[p]>> \in {<<"reopen", "count">>, <<"deny", "denies">>,
              <<"close", "closes">>, <<"erase", "close">>}
    BY <1>4 DEF ReopenReads, DenyReads, CloseReads, RemoveErases, Reads, Goto, TypeOK
  <2> QED BY <1>s, <2>1 DEF PassingPCs
<1>5. CASE AllowTests(p)
  <2>1. /\ UNCHANGED <<refs, inode>> /\ pc[p] = "allow" /\ pc'[p] \in {"allow", "allows"}
    BY <1>5 DEF AllowTests, Panics, Goto, TypeOK
  <2> QED BY <1>s, <2>1 DEF PassingPCs
<1>6. CASE DenyTests(p)
  <2>1. CASE Panics
    BY <1>s, <2>1 DEF Panics
  <2>2. CASE ~Panics
    <3>1. /\ pc[p] = "denied" /\ Return(p) /\ bin_file' = [bin_file EXCEPT ![p] = inode[p]]
          /\ UNCHANGED <<fds, maps>>
      BY <1>6, <2>2 DEF DenyTests
    <3>2. bin_file[p] = None /\ bin_file'[p] = inode[p] /\ inode'[p] = None
      BY <1>a, <3>1, Returns DEF ExecutableOf, TypeOK
    <3>3. Mine(p, s)' = Mine(p, s) /\ MyDenials(p, s)' = MyDenials(p, s)
      BY <1>b, <3>1, <3>2 DEF Mine, MyDenials, PassingPCs, One
    <3> QED BY <3>1, <3>3, SameContribution
  <2> QED BY <2>1, <2>2
<1>7. CASE MmapReturns(p)
  <2>1. /\ pc[p] = "mapped" /\ Return(p) /\ maps' = [maps EXCEPT ![p] = @ \cup {inode[p]}]
        /\ UNCHANGED <<fds, bin_file>>
    BY <1>7 DEF MmapReturns
  <2>2. /\ inode[p] \notin maps[p] /\ inode'[p] = None /\ maps'[p] = maps[p] \cup {inode[p]}
    BY <1>a, <2>1, Returns DEF LocalsOf, TypeOK
  <2>3. Mine(p, s)' = Mine(p, s) /\ MyDenials(p, s)' = MyDenials(p, s)
    BY <1>b, <2>1, <2>2 DEF Mine, MyDenials, PassingPCs, One
  <2> QED BY <2>1, <2>3, SameContribution
<1>8. CASE OpenReturns(p)
  <2>1. /\ pc[p] = "opened" /\ Return(p) /\ fds' = [fds EXCEPT ![p][inode[p]] = @ + 1]
        /\ UNCHANGED <<maps, bin_file>>
    BY <1>8 DEF OpenReturns
  <2>2. inode[p] \in Sector /\ fds[p][inode[p]] < MaxFds /\ inode'[p] = None
    BY <1>0, <1>a, <2>1, InodesTyped, Returns DEF LocalsOf
  <2>3. MyDenials(p, s)' = MyDenials(p, s)
    BY <1>b, <2>1, <2>2 DEF MyDenials
  <2>4. CASE s = inode[p]
    <3>1. Cardinality(Descriptors(s)') = Cardinality(Descriptors(s)) + 1
      BY <2>1, <2>2, <2>4, DescriptorsAfter, RefsFinite, AddOne
    <3>2. Mine(p, s) = Mine(p, s)' + 1
      BY <1>b, <2>1, <2>2, <2>4 DEF Mine, PassingPCs, One
    <3> QED BY <2>3, <3>1, <3>2, ReferencesAfter, RefsFinite, RefsFiniteNext
  <2>5. CASE s # inode[p]
    <3>1. Descriptors(s)' = Descriptors(s)
      BY <2>1, <2>2, <2>5, DescriptorsAfter
    <3>2. Mine(p, s) = Mine(p, s)'
      BY <1>b, <2>1, <2>2, <2>5 DEF Mine, PassingPCs, One
    <3> QED BY <2>3, <3>1, <3>2, ReferencesAfter, RefsFinite, RefsFiniteNext
  <2> QED BY <2>4, <2>5
<1>9. ASSUME NEW place \in {"user", "exit"}, ClosesFd(p, place)
      PROVE  References(s)' = References(s) /\ Denials(s)' = Denials(s)
  <2>1. PICK t \in Sector : /\ fds[p][t] > 0 /\ fds' = [fds EXCEPT ![p][t] = @ - 1]
                            /\ inode' = [inode EXCEPT ![p] = t]
    BY <1>9 DEF ClosesFd
  <2>2. /\ inode'[p] = t /\ pc[p] = place /\ pc'[p] = "close" /\ UNCHANGED <<maps, bin_file>>
    BY <1>9, <2>1 DEF ClosesFd, Goto, TypeOK
  <2>3. MyDenials(p, s)' = MyDenials(p, s)
    BY <2>2 DEF MyDenials
  <2>4. CASE s = t
    <3>1. Cardinality(Descriptors(s)') = Cardinality(Descriptors(s)) - 1
      BY <2>1, <2>4, DescriptorsAfter, RefsFinite, DropOne
    <3>2. Mine(p, s)' = Mine(p, s) + 1
      BY <2>2, <2>4 DEF Mine, PassingPCs, One
    <3> QED BY <2>3, <3>1, <3>2, ReferencesAfter, RefsFinite, RefsFiniteNext
  <2>5. CASE s # t
    <3>1. Descriptors(s)' = Descriptors(s)
      BY <2>1, <2>5, DescriptorsAfter
    <3>2. Mine(p, s)' = Mine(p, s)
      BY <2>2, <2>5 DEF Mine, PassingPCs, One
    <3> QED BY <2>3, <3>1, <3>2, ReferencesAfter, RefsFinite, RefsFiniteNext
  <2> QED BY <2>4, <2>5
<1> QED BY <1>1, <1>2, <1>3, <1>4, <1>5, <1>6, <1>7, <1>8, <1>9 DEF Acts

\* A step that adds one to the references to its inode, or takes one away, and
\* one that adds or takes a denial.
LEMMA ContributionChanges ==
    ASSUME TypeOK, NEW p \in Procs, Acts(p), NEW s \in Sector, UNCHANGED fds
    PROVE  /\ References(s)' = References(s) + Mine(p, s)' - Mine(p, s)
           /\ Denials(s)' = Denials(s) + MyDenials(p, s)' - MyDenials(p, s)
           /\ References(s) \in Nat /\ Denials(s) \in Nat
           /\ Mine(p, s) \in Int /\ Mine(p, s)' \in Int
           /\ MyDenials(p, s) \in Int /\ MyDenials(p, s)' \in Int
BY ReferencesSame, ReferencesAfter, RefsFinite, RefsFiniteNext

LEMMA NextCounts ==
    ASSUME TypeOK, Sound, CountsExact, freed = {}, NEW p \in Procs, Acts(p)
    PROVE  CountsExact'
<1>0. Locks /\ Executables /\ Locals /\ CountsParts /\ TypeOK'
  BY CountsMean, NextTypes DEF Sound
<1>a. LockOf(p) /\ ExecutableOf(p) /\ LocalsOf(p)
  BY <1>0 DEF Locks, Executables, Locals
<1>b. None \notin Sector
  BY ConstantFacts
<1>c. open_inodes \subseteq Sector /\ open_inodes' \subseteq Sector
  BY <1>0 DEF TypeOK
<1> USE DEF Opening, Denying, Allowing, Closing, CallPCs, local, refs
<1>i. PICK i : i = inode[p]
  OBVIOUS
<1> USE <1>i
<1>1. CASE ~ (ReopenWrites(p) \/ InodeOpens(p) \/ DenyWrites(p) \/ AllowWrites(p)
              \/ CloseWrites(p) \/ LastCloses(p))
  <2>1. UNCHANGED <<inodes, spoiled, freed>> \/ RemoveErases(p)
    BY <1>1 DEF Acts, inodes, crash, history, Loads, Opens, Removes, Finds, Mmaps, Writes, Exits,
       Creates, EvictionTests, EvictionWrites, ReopenReads, DenyReads, DenyTests,
       Panics, OpenReturns, MmapReturns, CloseReads, AllowReads, AllowTests, ClosesFd
  <2>2. UNCHANGED <<open_inodes, open_cnt, deny_write_cnt, spoiled, freed>>
    BY <2>1 DEF inodes, RemoveErases, crash, history
  <2>3. \A s \in Sector : References(s)' = References(s) /\ Denials(s)' = Denials(s)
    BY <1>1, HandsOn
  <2>4. CountsParts'
    BY <1>0, <1>c, <2>2, <2>3 DEF CountsParts, Counted
  <2> QED BY <2>4, CountsMeanNext
<1>k. ASSUME i \in Sector, i \in open_inodes', open_inodes' \in {open_inodes, open_inodes \cup {i}},
             spoiled \subseteq spoiled' \cup {i}, UNCHANGED freed,
             \A s \in Sector \ {i} :
                /\ open_cnt'[s] = open_cnt[s] /\ deny_write_cnt'[s] = deny_write_cnt[s]
                /\ References(s)' = References(s) /\ Denials(s)' = Denials(s),
             i \notin spoiled' => Counted(i)'
      PROVE  CountsExact'
  <2>1. ASSUME NEW s \in open_inodes' \ spoiled' PROVE Counted(s)'
    <3>1. CASE s = i
      BY <1>k, <2>1, <3>1
    <3>2. CASE s # i
      BY <1>0, <1>c, <1>k, <2>1, <3>2 DEF CountsParts, Counted
    <3> QED BY <3>1, <3>2
  <2>2. ASSUME NEW s \in Sector \ (open_inodes' \cup freed') PROVE References(s)' = 0
    BY <1>0, <1>k, <2>2 DEF CountsParts
  <2> QED BY <2>1, <2>2, CountsMeanNext DEF CountsParts
<1>o. ASSUME UNCHANGED <<fds, maps, bin_file>>, i \in Sector, inode'[p] \in {i, None},
             NEW s \in Sector \ {i}
      PROVE  References(s)' = References(s) /\ Denials(s)' = Denials(s)
  <2>1. Mine(p, s)' = Mine(p, s) /\ MyDenials(p, s)' = MyDenials(p, s)
    BY <1>b, <1>o DEF Mine, MyDenials, One
  <2> QED BY <1>o, <2>1, SameContribution
<1>2. CASE ReopenWrites(p)
  <2>1. /\ pc[p] = "count" /\ pc'[p] = back[p] /\ inode'[p] = i /\ Stores(p, open_cnt)
        /\ open_cnt' = [open_cnt EXCEPT ![i] = seen[p] + 1]
        /\ UNCHANGED <<fds, maps, bin_file, deny_write_cnt, open_inodes, freed>>
    BY <1>2 DEF ReopenWrites, GoesOn, Goto, TypeOK, CountAfterReopen, crash
  <2>2. back[p] \in {"opened", "mapped", "deny", "erase"} /\ i \in Sector /\ i \in open_inodes
    BY <1>0, <1>a, <2>1, BackPlaces, InodesTyped DEF LocalsOf
  <2>3. Mine(p, i)' = Mine(p, i) + 1 /\ MyDenials(p, i)' = MyDenials(p, i)
    BY <2>1, <2>2 DEF Mine, MyDenials, PassingPCs, One
  <2>4. References(i)' = References(i) + 1 /\ Denials(i)' = Denials(i)
    BY <2>1, <2>2, <2>3, ContributionChanges
  <2>5. i \notin spoiled' => Counted(i)'
    BY <1>0, <2>1, <2>2, <2>4 DEF Stores, CountsParts, Counted, TypeOK
  <2>6. spoiled \subseteq spoiled'
    BY <2>1 DEF Stores
  <2>7. \A s \in Sector \ {i} : open_cnt'[s] = open_cnt[s]
    BY <2>1 DEF TypeOK
  <2> QED BY <1>k, <1>o, <2>1, <2>2, <2>5, <2>6, <2>7
<1>3. CASE InodeOpens(p)
  <2>1. /\ pc[p] = "fresh" /\ pc'[p] = back[p] /\ inode'[p] = i
        /\ open_cnt' = [open_cnt EXCEPT ![i] = 1]
        /\ deny_write_cnt' = [deny_write_cnt EXCEPT ![i] = 0]
        /\ open_inodes' = open_inodes \cup {i} /\ spoiled' = spoiled \ {i}
        /\ UNCHANGED <<fds, maps, bin_file, freed>>
    BY <1>3 DEF InodeOpens, GoesOn, Goto, TypeOK, crash
  <2>2. /\ back[p] \in {"opened", "mapped", "deny", "erase"} /\ i \in Sector
        /\ References(i) = 0
    BY <1>0, <1>3, <2>1, BackPlaces, FreshUnused
  <2>3. Mine(p, i)' = Mine(p, i) + 1 /\ MyDenials(p, i)' = MyDenials(p, i)
    BY <2>1, <2>2 DEF Mine, MyDenials, PassingPCs, One
  <2>4. Denials(i) = 0
    BY <2>1, <2>2, DenialsBelow, ContributionChanges
  <2>5. References(i)' = 1 /\ Denials(i)' = 0
    BY <2>1, <2>2, <2>3, <2>4, ContributionChanges
  <2>6. Counted(i)'
    BY <2>1, <2>2, <2>5 DEF Counted, TypeOK
  <2>7. \A s \in Sector \ {i} :
           open_cnt'[s] = open_cnt[s] /\ deny_write_cnt'[s] = deny_write_cnt[s]
    BY <2>1 DEF TypeOK
  <2> QED BY <1>k, <1>o, <2>1, <2>2, <2>6, <2>7
<1>4. CASE DenyWrites(p)
  <2>1. /\ pc[p] = "denies" /\ pc'[p] = "denied" /\ inode'[p] = i /\ Stores(p, deny_write_cnt)
        /\ deny_write_cnt' = [deny_write_cnt EXCEPT ![i] = seen[p] + 1]
        /\ UNCHANGED <<fds, maps, bin_file, open_cnt, open_inodes, freed>>
    BY <1>4 DEF DenyWrites, Goto, TypeOK, crash
  <2>2. i \in Sector /\ i \in open_inodes
    BY <1>0, <1>a, <2>1, InodesTyped DEF LocalsOf
  <2>3. Mine(p, i)' = Mine(p, i) /\ MyDenials(p, i)' = MyDenials(p, i) + 1
    BY <2>1, <2>2 DEF Mine, MyDenials, PassingPCs, One
  <2>4. References(i)' = References(i) /\ Denials(i)' = Denials(i) + 1
    BY <2>1, <2>2, <2>3, ContributionChanges
  <2>5. i \notin spoiled' => Counted(i)'
    BY <1>0, <2>1, <2>2, <2>4 DEF Stores, CountsParts, Counted, TypeOK
  <2>6. spoiled \subseteq spoiled'
    BY <2>1 DEF Stores
  <2>7. \A s \in Sector \ {i} : deny_write_cnt'[s] = deny_write_cnt[s]
    BY <2>1 DEF TypeOK
  <2> QED BY <1>k, <1>o, <2>1, <2>2, <2>5, <2>6, <2>7
<1>5. CASE AllowWrites(p)
  <2>1. /\ pc[p] = "allows" /\ pc'[p] = "close" /\ inode'[p] = i /\ Stores(p, deny_write_cnt)
        /\ deny_write_cnt' = [deny_write_cnt EXCEPT ![i] = seen[p] - 1]
        /\ bin_file'[p] = None
        /\ UNCHANGED <<fds, maps, open_cnt, open_inodes, freed>>
    BY <1>5 DEF AllowWrites, Goto, TypeOK, crash
  <2>2. i \in Sector /\ i \in open_inodes /\ bin_file[p] = i
    BY <1>0, <1>a, <2>1, InodesTyped DEF LocalsOf, ExecutableOf
  <2>3. Mine(p, i)' = Mine(p, i) /\ MyDenials(p, i) = MyDenials(p, i)' + 1
    BY <1>b, <2>1, <2>2 DEF Mine, MyDenials, PassingPCs, One
  <2>4. References(i)' = References(i) /\ Denials(i)' = Denials(i) - 1
    BY <2>1, <2>2, <2>3, ContributionChanges
  <2>5. i \notin spoiled' => Counted(i)'
    BY <1>0, <2>1, <2>2, <2>4 DEF Stores, CountsParts, Counted, TypeOK
  <2>6. spoiled \subseteq spoiled'
    BY <2>1 DEF Stores
  <2>7. \A s \in Sector \ {i} : deny_write_cnt'[s] = deny_write_cnt[s]
    BY <2>1 DEF TypeOK
  <2>8. ASSUME NEW s \in Sector \ {i}
        PROVE  References(s)' = References(s) /\ Denials(s)' = Denials(s)
    <3>1. Mine(p, s)' = Mine(p, s) /\ MyDenials(p, s)' = MyDenials(p, s)
      BY <1>b, <2>1, <2>2 DEF Mine, MyDenials, One
    <3> QED BY <2>1, <3>1, SameContribution
  <2> QED BY <1>k, <2>1, <2>2, <2>5, <2>6, <2>7, <2>8
<1>6. CASE CloseWrites(p)
  <2>1. /\ pc[p] = "closes" /\ Stores(p, open_cnt)
        /\ open_cnt' = [open_cnt EXCEPT ![i] = seen[p] - 1]
        /\ UNCHANGED <<fds, maps, bin_file, deny_write_cnt, open_inodes, freed>>
    BY <1>6 DEF CloseWrites, crash
  <2>2. i \in Sector /\ i \in open_inodes
    BY <1>0, <1>a, <2>1, InodesTyped DEF LocalsOf
  <2>3. inode'[p] \in {i, None} /\ pc'[p] \in {"last", "user", "exit", "dead"}
    <3>1. CASE Goto(p, "last") /\ UNCHANGED local
      BY <3>1 DEF Goto, TypeOK
    <3>2. CASE Return(p)
      <4>1. back[p] \in {"user", "exit", "dead"}
        BY <1>0, <2>1, BackPlaces
      <4> QED BY <3>2, <4>1, Returns
    <3> QED BY <1>6, <3>1, <3>2 DEF CloseWrites
  <2>4. Mine(p, i)' = Mine(p, i) - 1 /\ MyDenials(p, i)' = MyDenials(p, i)
    <3>1. /\ inode[p] = i /\ pc[p] \in PassingPCs /\ pc'[p] \notin PassingPCs
          /\ pc[p] # "denied" /\ pc'[p] # "denied"
      BY <2>1, <2>3 DEF PassingPCs
    <3>2. /\ Mine(p, i) = One(bin_file[p] = i) + One(i \in maps[p]) + 1
          /\ Mine(p, i)' = One(bin_file[p] = i) + One(i \in maps[p]) + 0
      BY <2>1, <3>1 DEF Mine, One
    <3>3. MyDenials(p, i)' = MyDenials(p, i)
      BY <2>1, <3>1 DEF MyDenials, One
    <3> QED BY <3>2, <3>3 DEF One
  <2>5. References(i)' = References(i) - 1 /\ Denials(i)' = Denials(i)
    BY <2>1, <2>2, <2>4, ContributionChanges
  <2>6. i \notin spoiled' => Counted(i)'
    BY <1>0, <2>1, <2>2, <2>5 DEF Stores, CountsParts, Counted, TypeOK
  <2>7. spoiled \subseteq spoiled'
    BY <2>1 DEF Stores
  <2>8. \A s \in Sector \ {i} : open_cnt'[s] = open_cnt[s]
    BY <2>1 DEF TypeOK
  <2> QED BY <1>k, <1>o, <2>1, <2>2, <2>3, <2>6, <2>7, <2>8
<1>7. CASE LastCloses(p)
  <2>1. /\ pc[p] = "last" /\ Return(p) /\ open_inodes' = open_inodes \ {i}
        /\ freed' = {s \in {i} : InUse(s, p)}
        /\ UNCHANGED <<fds, maps, bin_file, open_cnt, deny_write_cnt, spoiled>>
    BY <1>7 DEF LastCloses, history
  <2>2. back[p] \in {"user", "exit", "dead"} /\ pc'[p] = back[p]
    BY <1>0, <2>1, BackPlaces, Returns
  <2>3. \A s \in Sector : References(s)' = References(s) /\ Denials(s)' = Denials(s)
    <3>1. TAKE s \in Sector
    <3>2. Mine(p, s)' = Mine(p, s) /\ MyDenials(p, s)' = MyDenials(p, s)
      BY <2>1, <2>2 DEF Mine, MyDenials, PassingPCs, One
    <3> QED BY <2>1, <3>2, SameContribution
  <2>4. ASSUME NEW s \in open_inodes' \ spoiled' PROVE Counted(s)'
    BY <1>0, <1>c, <2>1, <2>3 DEF CountsParts, Counted
  <2>5. ASSUME NEW s \in Sector \ (open_inodes' \cup freed') PROVE References(s)' = 0
    <3>1. CASE s = i
      <4>1. References(i) \in Nat /\ ~ (References(i) > 0)
        BY <2>1, <2>5, <3>1, RefsFinite DEF InUse
      <4> QED BY <2>3, <3>1, <4>1
    <3>2. CASE s # i
      BY <1>0, <2>1, <2>3, <2>5, <3>2 DEF CountsParts
    <3> QED BY <3>1, <3>2
  <2> QED BY <2>4, <2>5, CountsMeanNext DEF CountsParts
<1> QED BY <1>1, <1>2, <1>3, <1>4, <1>5, <1>6, <1>7

-----------------------------------------------------------------------------
(* The disk.                                                               *)

\* FreeMapExact, sector by sector.
FreeMapParts ==
    /\ removed \subseteq open_inodes
    /\ \A x : x \in free_map <=> x \in lost \/ \E s \in Stored : x \in Own(s)
    /\ \A s \in Stored : Own(s) \cap lost = {}
    /\ \A s, r \in Stored : s # r => Own(s) \cap Own(r) = {}

LEMMA FreeMapMeans == FreeMapExact <=> FreeMapParts
<1>1. \A x : x \in UNION {Own(s) : s \in Stored} <=> \E s \in Stored : x \in Own(s)
  OBVIOUS
<1>2. free_map = (UNION {Own(s) : s \in Stored}) \cup lost <=>
        \A x : x \in free_map <=> x \in lost \/ \E s \in Stored : x \in Own(s)
  BY <1>1
<1> QED BY <1>2 DEF FreeMapExact, FreeMapParts

LEMMA FreeMapMeansNext == FreeMapExact' <=> FreeMapParts'
BY FreeMapMeans, PTL

\* filesys_create takes free sectors, for a file or to lose them.
LEMMA CreatesDisk ==
    ASSUME TypeOK, Disk, NEW p \in Procs, Creates(p)
    PROVE  Disk'
<1>1. /\ UNCHANGED <<removed, open_inodes>>
      /\ \/ CreateFails(p)
         \/ \E n \in Created : \E s, d \in Free :
               s # d /\ (CreateLoses(d) \/ CreateAdds(n, s, d))
  BY CreateCases DEF inodes
<1>2. /\ \A x : x \in free_map <=> x \in lost \/ \E s \in Stored : x \in Own(s)
      /\ \A s \in Stored : Own(s) \cap lost = {}
      /\ \A s, r \in Stored : s # r => Own(s) \cap Own(r) = {}
      /\ \A s \in Stored : start[s] \in Sector
      /\ \A n \in Entries : dir[n] \notin removed
      /\ removed \subseteq open_inodes
  BY FreeMapMeans DEF Disk, FreeMapParts
<1>3. \A s \in Stored : s \in Own(s) /\ Own(s) \subseteq free_map
  BY <1>2 DEF Own
<1>4. CASE CreateFails(p)
  <2>1. UNCHANGED <<dir, start, free_map, lost, removed, open_inodes>>
    BY <1>1, <1>4 DEF CreateFails
  <2>2. Stored' = Stored /\ FreeMapExact' = FreeMapExact
    BY <2>1 DEF Stored, Entries, FreeMapExact, Own
  <2> QED BY <2>1, <2>2 DEF Disk, Entries
<1>5. ASSUME NEW d \in Free, CreateLoses(d) PROVE Disk'
  <2>1. /\ free_map' = free_map \cup {d} /\ lost' = lost \cup {d} /\ d \notin free_map
        /\ UNCHANGED <<dir, start, removed, open_inodes>>
    BY <1>1, <1>5 DEF CreateLoses, Free
  <2>2. Stored' = Stored /\ (\A s : Own(s)' = Own(s)) /\ Entries' = Entries
    BY <2>1 DEF Stored, Entries, Own
  <2>3. \A x : x \in free_map' <=> x \in lost' \/ \E s \in Stored : x \in Own(s)
    BY <1>2, <2>1
  <2>4. \A s \in Stored : Own(s) \cap lost' = {}
    BY <1>2, <1>3, <2>1
  <2>5. FreeMapExact'
    <3>1. /\ \A x : x \in free_map' <=> x \in lost' \/ \E s \in Stored' : x \in Own(s)'
          /\ \A s \in Stored' : Own(s)' \cap lost' = {}
          /\ \A s, r \in Stored' : s # r => Own(s)' \cap Own(r)' = {}
      BY <1>2, <2>2, <2>3, <2>4
    <3> QED BY <1>2, <2>1, <3>1, FreeMapMeansNext DEF FreeMapParts
  <2> QED BY <1>2, <2>1, <2>2, <2>5 DEF Disk
<1>6. ASSUME NEW n \in Created, NEW s \in Free, NEW d \in Free, s # d, CreateAdds(n, s, d)
      PROVE  Disk'
  <2>1. /\ free_map' = free_map \cup {s, d} /\ s \notin free_map /\ d \notin free_map
        /\ s \in Sector /\ d \in Sector /\ n \notin Entries
        /\ UNCHANGED <<lost, removed, open_inodes>>
    BY <1>1, <1>6 DEF CreateAdds, Free
  <2>2. /\ Entries' = Entries \cup {n} /\ dir'[n] = s
        /\ \A m \in Entries : dir'[m] = dir[m]
    BY <1>6 DEF CreateAdds, Entries
  <2>3. s \notin Stored
    BY <1>3, <2>1
  <2>4. Stored' = Stored \cup {s}
    BY <2>1, <2>2 DEF Stored
  <2>5. start'[s] = d /\ \A r \in Stored : start'[r] = start[r]
    BY <1>6, <2>1, <2>3 DEF CreateAdds, TypeOK, Stored
  <2>6. Own(s)' = {s, d} /\ \A r \in Stored : Own(r)' = Own(r)
    BY <2>5 DEF Own
  <2>7. \A r \in Stored : Own(r)' \cap Own(s)' = {}
    BY <1>3, <2>1, <2>6
  <2>8. /\ \A x : x \in free_map' <=> x \in lost' \/ \E r \in Stored' : x \in Own(r)'
        /\ \A r \in Stored' : Own(r)' \cap lost' = {}
        /\ \A r, q \in Stored' : r # q => Own(r)' \cap Own(q)' = {}
    <3>1. lost' = lost /\ lost \subseteq free_map
      BY <1>2, <2>1
    <3>2. \A x : x \in free_map' <=> x \in lost' \/ \E r \in Stored' : x \in Own(r)'
      BY <1>2, <2>1, <2>4, <2>6, <3>1
    <3>3. \A r \in Stored' : Own(r)' \cap lost' = {}
      BY <1>2, <2>1, <2>4, <2>6, <3>1
    <3>4. ASSUME NEW r \in Stored', NEW q \in Stored', r # q
          PROVE  Own(r)' \cap Own(q)' = {}
      <4>1. CASE r \in Stored /\ q \in Stored
        BY <1>2, <2>6, <3>4, <4>1
      <4>2. CASE r = s \/ q = s
        <5>1. (r = s /\ q \in Stored) \/ (q = s /\ r \in Stored)
          BY <2>4, <3>4, <4>2
        <5> QED BY <2>7, <5>1
      <4> QED BY <2>4, <4>1, <4>2
    <3> QED BY <3>2, <3>3, <3>4
  <2>9. FreeMapExact'
    BY <1>2, <2>1, <2>8, FreeMapMeansNext DEF FreeMapParts
  <2>10. \A r \in Stored' : start'[r] \in Sector
    BY <1>2, <2>1, <2>4, <2>5
  <2>11. \A m \in Entries' : dir'[m] \notin removed'
    <3>1. s \notin removed
      BY <2>3 DEF Stored
    <3> QED BY <1>2, <2>1, <2>2, <3>1
  <2> QED BY <2>9, <2>10, <2>11 DEF Disk
<1> QED BY <1>1, <1>4, <1>5, <1>6

\* The last close gives the sectors of a removed file back, and only those.
LEMMA LastClosesDisk ==
    ASSUME TypeOK, Disk, NEW p \in Procs, LastCloses(p)
    PROVE  Disk'
<1> DEFINE s == inode[p]
<1>1. /\ open_inodes' = open_inodes \ {s}
      /\ free_map' = free_map \ Released(s) /\ removed' = removed \ {s}
      /\ UNCHANGED <<dir, start, lost>>
  BY DEF LastCloses
<1>2. /\ \A x : x \in free_map <=> x \in lost \/ \E r \in Stored : x \in Own(r)
      /\ \A r \in Stored : Own(r) \cap lost = {}
      /\ \A r, q \in Stored : r # q => Own(r) \cap Own(q) = {}
      /\ \A r \in Stored : start[r] \in Sector
      /\ \A n \in Entries : dir[n] \notin removed
      /\ removed \subseteq open_inodes
  BY FreeMapMeans DEF Disk, FreeMapParts
<1>5. Entries' = Entries /\ \A r : Own(r)' = Own(r)
  BY <1>1 DEF Entries, Own
<1> HIDE DEF s
<1>6. CASE s \in removed
  <2>1. s \in Stored /\ Released(s) = Own(s)
    BY <1>6 DEF Stored, Released, Own
  <2>2. Stored' = Stored \ {s}
    BY <1>1, <1>2, <1>5, <1>6 DEF Stored
  <2>3. \A x : x \in free_map' <=> x \in lost' \/ \E r \in Stored' : x \in Own(r)'
    <3>1. \A x : x \in free_map' <=> x \in free_map /\ x \notin Own(s)
      BY <1>1, <2>1
    <3>2. \A x : x \in free_map /\ x \notin Own(s) <=>
                    x \in lost \/ \E r \in Stored \ {s} : x \in Own(r)
      BY <1>2, <2>1
    <3> QED BY <1>1, <1>5, <2>2, <3>1, <3>2
  <2>4. FreeMapExact'
    BY <1>1, <1>2, <1>5, <2>2, <2>3, FreeMapMeansNext DEF FreeMapParts
  <2> QED BY <1>1, <1>2, <1>5, <2>2, <2>4 DEF Disk
<1>7. CASE s \notin removed
  <2>1. free_map' = free_map /\ removed' = removed
    BY <1>1, <1>7 DEF Released
  <2>2. Stored' = Stored
    BY <1>1, <1>5, <2>1 DEF Stored
  <2>3. FreeMapExact'
    BY <1>1, <1>2, <1>5, <2>1, <2>2, FreeMapMeansNext DEF FreeMapParts
  <2> QED BY <1>1, <1>2, <1>5, <2>1, <2>2, <2>3 DEF Disk
<1> QED BY <1>6, <1>7

\* A file that loses its entry is a removed file.
LEMMA RemoveErasesDisk ==
    ASSUME TypeOK, Locals, Disk, NEW p \in Procs, RemoveErases(p)
    PROVE  Disk'
<1>1. /\ dir' = [n \in {m \in Entries : dir[m] # inode[p]} |-> dir[n]]
      /\ removed' = removed \cup {inode[p]}
      /\ UNCHANGED <<start, free_map, lost, open_inodes>>
  BY DEF RemoveErases
<1>2. PICK n \in Entries : dir[n] = inode[p]
  BY DEF RemoveErases, Locals, LocalsOf
<1>o. inode[p] \in open_inodes
  BY DEF RemoveErases, Locals, LocalsOf, CallPCs
<1>3. Entries' = {m \in Entries : dir[m] # inode[p]} /\ \A m \in Entries' : dir'[m] = dir[m]
  BY <1>1 DEF Entries
<1>4. {dir'[m] : m \in Entries'} = {dir[m] : m \in Entries} \ {inode[p]}
  BY <1>3
<1>5. Stored' = Stored
  BY <1>1, <1>2, <1>4 DEF Stored
<1>6. FreeMapExact'
  <2>1. \A s : Own(s)' = Own(s)
    BY <1>1 DEF Own
  <2>2. FreeMapParts'
    BY <1>1, <1>5, <1>o, <2>1, FreeMapMeans DEF Disk, FreeMapParts
  <2> QED BY <2>2, FreeMapMeansNext
<1> QED BY <1>1, <1>3, <1>5, <1>6 DEF Disk

\* Every other step leaves the disk and the mark of removed files alone.
LEMMA NextDisk ==
    ASSUME TypeOK, Sound, Disk, NEW p \in Procs, Acts(p)
    PROVE  Disk'
<1>0. Locals
  BY DEF Sound
<1> USE DEF inodes, onDisk
<1>1. ASSUME UNCHANGED <<dir, start, free_map, lost, removed>>, open_inodes \subseteq open_inodes'
      PROVE  Disk'
  BY <1>1 DEF Disk, FreeMapExact, Stored, Own, Entries
<1>2. CASE Creates(p)
  BY <1>2, CreatesDisk
<1>3. CASE LastCloses(p)
  BY <1>3, LastClosesDisk
<1>4. CASE RemoveErases(p)
  BY <1>0, <1>4, RemoveErasesDisk
<1>5. CASE InodeOpens(p)
  <2>1. inode[p] \notin removed
    BY <1>0, <1>5 DEF InodeOpens, Locals, LocalsOf, Disk, FreeMapExact
  <2>2. removed' = removed
    BY <1>5, <2>1 DEF InodeOpens
  <2> QED BY <1>1, <1>5, <2>2 DEF InodeOpens
<1>6. CASE ~ (Creates(p) \/ LastCloses(p) \/ RemoveErases(p) \/ InodeOpens(p))
  <2>1. UNCHANGED <<dir, start, free_map, lost, removed, open_inodes>>
    BY <1>6 DEF Acts, Loads, Opens, Removes, Finds, Mmaps, Writes, Exits, EvictionTests,
       EvictionWrites, ReopenReads, ReopenWrites, DenyReads, DenyWrites, DenyTests, Panics,
       OpenReturns, MmapReturns, CloseReads, CloseWrites, AllowReads, AllowTests, AllowWrites,
       ClosesFd
  <2> QED BY <1>1, <2>1
<1> QED BY <1>2, <1>3, <1>4, <1>5, <1>6

-----------------------------------------------------------------------------
(* The start.                                                              *)

LEMMA InitTypes == Init => TypeOK
<1> SUFFICES ASSUME Init PROVE TypeOK
  OBVIOUS
<1>1. \A n \in DOMAIN InitDir : InitDir[n] \in Sector
  BY DiskAssumption DEF Sector
<1>2. Entries \subseteq Names /\ \A n \in Entries : dir[n] \in Sector
  BY <1>1, DiskAssumption DEF Init, Entries
<1>3. start \in [Sector -> Sector \cup {None}] /\ free_map \subseteq Sector
  BY DiskAssumption DEF Init, Sector
<1>4. open_cnt \in [Sector -> Int] /\ deny_write_cnt \in [Sector -> Nat]
  BY DEF Init
<1>5. fds \in [Procs -> [Sector -> 0..MaxFds]] /\ seen \in [Procs -> Int]
  BY ConstantFacts DEF Init
<1>6. /\ pc \in [Procs -> {"new", "user", "opened", "mapped", "evict", "erase", "exit", "dead"}
                         \cup Opening \cup Denying \cup Allowing \cup Closing]
      /\ back \in [Procs -> {"user", "opened", "mapped", "deny", "erase", "exit", "dead"}]
      /\ inode \in [Procs -> Sector \cup {None}] /\ bin_file \in [Procs -> Sector \cup {None}]
      /\ maps \in [Procs -> SUBSET Sector]
  BY DEF Init
<1> QED BY <1>2, <1>3, <1>4, <1>5, <1>6 DEF Init, TypeOK

LEMMA InitCounts == Init => CountsExact
<1> SUFFICES ASSUME Init PROVE CountsExact
  OBVIOUS
<1>1. ASSUME NEW s \in Sector PROVE References(s) = 0
  <2>1. \A d \in Procs \X (1..MaxFds) : ~ (d[2] <= fds[d[1]][s])
    <3>1. TAKE d \in Procs \X (1..MaxFds)
    <3>2. d[1] \in Procs /\ d[2] \in 1..MaxFds
      OBVIOUS
    <3>3. fds[d[1]][s] = 0
      BY <3>2 DEF Init
    <3> QED BY <3>2, <3>3, ConstantFacts
  <2>2. Descriptors(s) = {}
    BY <2>1 DEF Descriptors
  <2>3. Mapping(s) = {} /\ Passing(s) = {}
    BY DEF Init, Mapping, Passing, Denying
  <2>4. Running(s) = {}
    BY ConstantFacts DEF Init, Running
  <2> QED BY <2>2, <2>3, <2>4, FS_EmptySet DEF References
<1> QED BY <1>1 DEF Init, CountsExact

LEMMA InitDisk == Init => Disk
<1> SUFFICES ASSUME Init PROVE Disk
  OBVIOUS
<1>1. Stored = DOMAIN InitStart
  <2>1. Stored = {InitDir[n] : n \in DOMAIN InitDir}
    BY DEF Init, Stored, Entries
  <2>2. {InitDir[n] : n \in DOMAIN InitDir} \subseteq DOMAIN InitStart
    BY DiskAssumption
  <2>3. \A s \in DOMAIN InitStart : \E n \in DOMAIN InitDir : InitDir[n] = s
    BY DiskAssumption
  <2> QED BY <2>1, <2>2, <2>3
<1>2. \A s \in Stored : start[s] = InitStart[s] /\ Own(s) = {s, InitStart[s]}
  BY <1>1, DiskAssumption DEF Init, Own, Sector
<1>3. \A x : x \in free_map <=> \E s \in Stored : x \in Own(s)
  BY <1>1, <1>2 DEF Init
<1>4. \A s, r \in Stored : s # r => Own(s) \cap Own(r) = {}
  BY <1>1, <1>2, DiskAssumption
<1>5. FreeMapExact
  BY <1>3, <1>4, FreeMapMeans DEF FreeMapParts, Init
<1>6. \A s \in Stored : start[s] \in Sector
  BY <1>1, <1>2, DiskAssumption DEF Sector
<1> QED BY <1>1, <1>5, <1>6, ConstantFacts DEF Init, Disk

LEMMA InitInv == Init => Inv
<1> SUFFICES ASSUME Init PROVE Inv
  OBVIOUS
<1>1. Locks /\ Executables /\ Locals /\ Fresh
  BY DEF Init, Locks, LockOf, Executables, ExecutableOf, Locals, LocalsOf, Fresh, FreshOf,
         CallPCs, Opening, Denying, Allowing, Closing
<1>2. DocumentsUnharmed
  BY DEF Init, DocumentsUnharmed
<1> QED BY <1>1, <1>2, InitTypes, InitCounts, InitDisk DEF Inv, Sound

LEMMA StutterInv == Inv /\ UNCHANGED vars => Inv'
<1> SUFFICES ASSUME Inv, UNCHANGED vars PROVE Inv'
  OBVIOUS
<1> USE DEF vars, local, refs, onDisk, inodes, crash, history
<1>1. TypeOK' /\ DocumentsUnharmed' /\ (freed = {} => Sound)'
  BY DEF Inv, TypeOK, DocumentsUnharmed, Sound, Locks, LockOf, Executables, ExecutableOf, Locals,
         LocalsOf, Fresh, FreshOf, Entries
<1>2. \A s : References(s)' = References(s) /\ Denials(s)' = Denials(s)
  BY DEF References, Denials, Descriptors, Mapping, Running, Passing, Denied
<1>3. CountsParts'
  BY <1>2, CountsMean DEF Inv, CountsParts, Counted
<1>4. Disk'
  BY DEF Inv, Disk, FreeMapExact, Stored, Own, Entries
<1> QED BY <1>1, <1>3, <1>4, CountsMeanNext DEF Inv

LEMMA InvAlways == Spec => []Inv
<1>1. Init => Inv
  BY InitInv
<1>2. Inv /\ [Next]_vars => Inv'
  <2> SUFFICES ASSUME Inv, [Next]_vars PROVE Inv'
    OBVIOUS
  <2>1. CASE Next
    <3>1. freed = {} /\ Sound
      BY <2>1, NextActs DEF Inv, Up
    <3>2. PICK p \in Procs : Acts(p)
      BY <2>1, NextActs
    <3>3. TypeOK' /\ CountsExact' /\ DocumentsUnharmed' /\ Disk'
      BY <3>1, <3>2, NextTypes, NextCounts, NextHarm, NextDisk DEF Inv
    <3>4. freed' = {} => Sound'
      BY <3>1, <3>2, NextLocks, NextExecutables, NextLocals, NextFresh DEF Inv, Sound
    <3> QED BY <3>3, <3>4 DEF Inv
  <2>2. CASE UNCHANGED vars
    BY <2>2, StutterInv
  <2> QED BY <2>1, <2>2
<1> QED BY <1>1, <1>2, PTL DEF Spec

-----------------------------------------------------------------------------
(* The theorems.                                                           *)

\* The variables keep their types, and every call finds its inode and its place
\* in them whatever process_exit does without fs_lock.
THEOREM TypeCorrect == Spec => []TypeOK
<1>1. Inv => TypeOK
  BY DEF Inv
<1> QED BY <1>1, InvAlways, PTL

\* The counters of an inode that has lost no update count its references and the
\* denials of writes, and nobody refers to an inode that is not in memory, for any
\* number of processes, files and descriptors, through every interleaving of the
\* calls under fs_lock with process_exit and evictions (inode.c:144-186, 320-338,
\* process.c:209).
THEOREM CountsStayExact == Spec => []CountsExact
<1>1. Inv => CountsExact
  BY DEF Inv
<1> QED BY <1>1, InvAlways, PTL

\* Only the inode of a file that was executed since it came into memory can lose
\* an update of a counter or be freed under its users: the calls that change any
\* other inode hold fs_lock (syscall.c, process.c:209, inode.c:161-186).
THEOREM DocumentsStayUnharmed == Spec => []DocumentsUnharmed
<1>1. Inv => DocumentsUnharmed
  BY DEF Inv
<1> QED BY <1>1, InvAlways, PTL

\* The sectors in use are those of the files, no sector belongs to two files, and
\* a removed file keeps its sectors until its last close, also when an executable
\* is closed too early (inode.c:176-182).
THEOREM FreeMapStaysExact == Spec => []FreeMapExact
<1>1. Inv => FreeMapExact
  BY DEF Inv, Disk
<1> QED BY <1>1, InvAlways, PTL
=============================================================================
