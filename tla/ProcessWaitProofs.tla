------------------------ MODULE ProcessWaitProofs ------------------------
(***************************************************************************)
(* A struct child is freed exactly once, by the last of the two that refer *)
(* to it, and nobody touches it afterwards, for any number of processes.   *)
(***************************************************************************)
EXTENDS ProcessWait, FiniteSetTheorems, TLAPS

\* The processes between process_wait or process_exit and free (child).
Working(p) == pc[p] \in {"wait", "lock", "read", "write", "free"}

\* Who is whose child, and whose struct child a process works on.
Family ==
    /\ \A c \in Procs : pc[c] = "none" => parent[c] = NULL /\ c \notin thread_child
    /\ \A c \in Procs : parent[c] # c
    /\ \A p \in Procs : \A c \in childs[p] : parent[c] = p /\ c \in thread_child
    /\ \A p \in Procs : Working(p) =>
          /\ obj[p] \in thread_child /\ obj[p] \notin childs[p]
          /\ obj[p] # p => parent[obj[p]] = p
          /\ obj[p] = p => return[p] = "children"
          /\ pc[p] = "wait" => return[p] = "user"
    /\ \A p \in Procs : pc[p] \in {"store", "post"} => p \in thread_child

\* The share_str between a process in exec and the child it starts.
Starting ==
    /\ \A c \in Procs : pc[c] \in {"load", "report", "up"} =>
          /\ parent[c] \in Procs
          /\ pc[parent[c]] = "exec"
          /\ share_sema[parent[c]] = 0
          /\ pc[c] = "load" => c \notin thread_child /\ share_child[parent[c]] = NULL
          /\ pc[c] # "load" => (c \in thread_child <=> share_child[parent[c]] # NULL)
          /\ pc[c] = "up" => (isrun[parent[c]] <=> c \in thread_child)
    /\ \A c, d \in Procs :
          /\ pc[c] \in {"load", "report", "up"} /\ pc[d] \in {"load", "report", "up"}
          /\ parent[c] = parent[d]
          => c = d
    /\ \A p \in Procs : share_sema[p] = 1 => (isrun[p] <=> share_child[p] # NULL)
    /\ \A p \in Procs : share_child[p] # NULL =>
          /\ pc[p] = "exec"
          /\ share_child[p] \in thread_child /\ share_child[p] \notin childs[p]
          /\ parent[share_child[p]] = p

\* The lock of a struct child is held by who works on the count.
Locked == \A p \in Procs : pc[p] \in {"read", "write"} => holder[obj[p]] = p

\* The semaphore of a struct child is 0 until its process has ended.
Alive(c) ==
    \/ pc[c] \in {"report", "up", "user", "exec", "wait", "close", "store", "post"}
    \/ pc[c] \in Dropping \cup {"free"} /\ return[c] = "user"

NotPosted == \A c \in thread_child : Alive(c) => sema[c] = 0

\* References, counts and blocks.
Counted ==
    /\ \A c \in Procs : SelfRefers(c) \/ ParentRefers(c) => block[c] = "live"
    /\ \A c \in Procs : block[c] = "live" =>
          /\ ref_cnt[c] = (IF SelfRefers(c) THEN 1 ELSE 0)
                             + (IF ParentRefers(c) THEN 1 ELSE 0)
          /\ SelfRefers(c) \/ ParentRefers(c) \/ Freeing(c) # {}
    /\ \A p \in Procs : pc[p] = "write" => new_ref_cnt[p] = ref_cnt[obj[p]] - 1
    /\ \A c \in Procs : \A p \in Freeing(c) :
          /\ block[c] = "live" /\ ~ SelfRefers(c) /\ ~ ParentRefers(c)
          /\ \A q \in Freeing(c) : q = p

\* The status, from process_exit to process_wait.
Told ==
    /\ \A c \in thread_child : pc[c] = "post" \/ ~ Alive(c) => store_exit[c] = st_exit[c]
    /\ \A p \in Procs :
          pc[p] \in Dropping \cup {"free"} /\ return[p] = "user" =>
              ~ Alive(obj[p]) /\ exit_code[p] = st_exit[obj[p]]

IInv == Family /\ Starting /\ Locked /\ NotPosted /\ Counted /\ Told

\* Each part of the invariant is kept by every step.
LEMMA FamilyStep == TypeOK /\ IInv /\ [Next]_vars => Family'
<1> SUFFICES ASSUME TypeOK, IInv, [Next]_vars PROVE Family'
  OBVIOUS
<1> USE DEF TypeOK, PCs, Family, Working, IInv, Starting
<1>1. CASE UNCHANGED vars
  BY <1>1 DEF vars, share, record, local
<1>2. ASSUME NEW p \in Procs, NEW c \in Procs, CallExec(p, c) PROVE Family'
  BY <1>2 DEF CallExec, Goto, share, record, local
<1>3. ASSUME NEW p \in Procs, NEW c \in Procs, CallWait(p, c) PROVE Family'
  BY <1>3 DEF CallWait, Goto, share, record, local, ChildsAfterWait
<1>4. ASSUME NEW p \in Procs, LoadSucceeds(p) PROVE Family'
  BY <1>4 DEF LoadSucceeds, Goto, share, record, local, InitialReferences
<1>5. ASSUME NEW p \in Procs, LoadFails(p) PROVE Family'
  BY <1>5 DEF LoadFails, Goto, share, record, local
<1>6. ASSUME NEW p \in Procs, StartReports(p) PROVE Family'
  BY <1>6 DEF StartReports, Goto, share, record, local, Reports
<1>7. ASSUME NEW p \in Procs, StartUps(p) PROVE Family'
  BY <1>7 DEF StartUps, Goto, share, record, local, ShareSemaUp
<1>8. ASSUME NEW p \in Procs, ExecReturns(p) PROVE Family'
  BY <1>8 DEF ExecReturns, Goto, share, record, local, Reported
<1>9. ASSUME NEW p \in Procs, WaitDowns(p) PROVE Family'
  BY <1>9 DEF WaitDowns, Goto, share, record, local
<1>10. ASSUME NEW p \in Procs, DropLocks(p) PROVE Family'
  BY <1>10 DEF DropLocks, Goto, share, record, local, Unlocked
<1>11. ASSUME NEW p \in Procs, DropReads(p) PROVE Family'
  BY <1>11 DEF DropReads, Goto, share, record, local
<1>12. ASSUME NEW p \in Procs, DropWrites(p) PROVE Family'
  BY <1>12 DEF DropWrites, Goto, share, record, local
<1>13. ASSUME NEW p \in Procs, DropFrees(p) PROVE Family'
  BY <1>13 DEF DropFrees, Goto, share, record, local, LastReference
<1>14. ASSUME NEW p \in Procs, CallExit(p) PROVE Family'
  BY <1>14 DEF CallExit, Goto, share, record, local
<1>15. ASSUME NEW p \in Procs, ExitCloses(p) PROVE Family'
  BY <1>15 DEF ExitCloses, Goto, share, record, local
<1>16. ASSUME NEW p \in Procs, ExitStores(p) PROVE Family'
  BY <1>16 DEF ExitStores, Goto, share, record, local, StatusStored
<1>17. ASSUME NEW p \in Procs, ExitUps(p) PROVE Family'
  BY <1>17 DEF ExitUps, Goto, share, record, local, SemaUp
<1>18. ASSUME NEW p \in Procs, ExitForgets(p) PROVE Family'
  BY <1>18 DEF ExitForgets, Goto, share, record, local
<1>19. ASSUME NEW p \in Procs, ExitDone(p) PROVE Family'
  BY <1>19 DEF ExitDone, Goto, share, record, local
<1>20. QED
  BY <1>1, <1>2, <1>3, <1>4, <1>5, <1>6, <1>7, <1>8, <1>9, <1>10, <1>11, <1>12, <1>13, <1>14,
     <1>15, <1>16, <1>17, <1>18, <1>19 DEF Next, Step, Locking

\* Only the parent's last child in exec uses its share_str.
LEMMA StartingStep == TypeOK /\ IInv /\ [Next]_vars => Starting'
<1> SUFFICES ASSUME TypeOK, IInv, [Next]_vars PROVE Starting'
  OBVIOUS
<1> USE ProcessAssumption DEF TypeOK, PCs, Family, IInv, Starting
<1>1. CASE UNCHANGED vars
  BY <1>1 DEF vars, share, record, local
<1>2. ASSUME NEW p \in Procs, NEW c \in Procs, CallExec(p, c) PROVE Starting'
  BY <1>2 DEF CallExec, Goto, share, record, local
<1>3. ASSUME NEW p \in Procs, NEW c \in Procs, CallWait(p, c) PROVE Starting'
  BY <1>3 DEF CallWait, Goto, share, record, local, ChildsAfterWait
<1>4. ASSUME NEW p \in Procs, LoadSucceeds(p) PROVE Starting'
  BY <1>4 DEF LoadSucceeds, Goto, share, record, local, InitialReferences
<1>5. ASSUME NEW p \in Procs, LoadFails(p) PROVE Starting'
  BY <1>5 DEF LoadFails, Goto, share, record, local
<1>6. ASSUME NEW p \in Procs, StartReports(p) PROVE Starting'
  <2>1. parent[p] \in Procs /\ isrun' \in [Procs -> BOOLEAN]
    BY <1>6 DEF StartReports, Reports
  <2>2. \A q \in Procs : q # parent[p] => isrun'[q] = isrun[q]
    BY <1>6, <2>1 DEF StartReports
  <2>3. isrun'[parent[p]] <=> p \in thread_child
    <3>1. isrun \in [Procs -> BOOLEAN]
      OBVIOUS
    <3> HIDE DEF TypeOK, Family, IInv, Starting
    <3>2. isrun'[parent[p]] = Reports(p)
      BY <1>6, <2>1, <3>1 DEF StartReports
    <3> QED
      BY <3>2, Zenon DEF Reports
  <2> QED
    BY <1>6, <2>1, <2>2, <2>3 DEF StartReports, Goto, share, record, local
<1>7. ASSUME NEW p \in Procs, StartUps(p) PROVE Starting'
  BY <1>7 DEF StartUps, Goto, share, record, local, ShareSemaUp
<1>8. ASSUME NEW p \in Procs, ExecReturns(p) PROVE Starting'
  BY <1>8 DEF ExecReturns, Goto, share, record, local, Reported
<1>9. ASSUME NEW p \in Procs, WaitDowns(p) PROVE Starting'
  BY <1>9 DEF WaitDowns, Goto, share, record, local
<1>10. ASSUME NEW p \in Procs, DropLocks(p) PROVE Starting'
  BY <1>10 DEF DropLocks, Goto, share, record, local, Unlocked
<1>11. ASSUME NEW p \in Procs, DropReads(p) PROVE Starting'
  BY <1>11 DEF DropReads, Goto, share, record, local
<1>12. ASSUME NEW p \in Procs, DropWrites(p) PROVE Starting'
  BY <1>12 DEF DropWrites, Goto, share, record, local
<1>13. ASSUME NEW p \in Procs, DropFrees(p) PROVE Starting'
  BY <1>13 DEF DropFrees, Goto, share, record, local, LastReference
<1>14. ASSUME NEW p \in Procs, CallExit(p) PROVE Starting'
  BY <1>14 DEF CallExit, Goto, share, record, local
<1>15. ASSUME NEW p \in Procs, ExitCloses(p) PROVE Starting'
  BY <1>15 DEF ExitCloses, Goto, share, record, local
<1>16. ASSUME NEW p \in Procs, ExitStores(p) PROVE Starting'
  BY <1>16 DEF ExitStores, Goto, share, record, local, StatusStored
<1>17. ASSUME NEW p \in Procs, ExitUps(p) PROVE Starting'
  BY <1>17 DEF ExitUps, Goto, share, record, local, SemaUp
<1>18. ASSUME NEW p \in Procs, ExitForgets(p) PROVE Starting'
  BY <1>18 DEF ExitForgets, Goto, share, record, local
<1>19. ASSUME NEW p \in Procs, ExitDone(p) PROVE Starting'
  BY <1>19 DEF ExitDone, Goto, share, record, local
<1>20. QED
  BY <1>1, <1>2, <1>3, <1>4, <1>5, <1>6, <1>7, <1>8, <1>9, <1>10, <1>11, <1>12, <1>13, <1>14,
     <1>15, <1>16, <1>17, <1>18, <1>19 DEF Next, Step, Locking

\* Nobody takes a lock that is held.
LEMMA LockedStep == TypeOK /\ IInv /\ [Next]_vars => Locked'
<1> SUFFICES ASSUME TypeOK, IInv, [Next]_vars PROVE Locked'
  OBVIOUS
<1> USE ProcessAssumption DEF TypeOK, PCs, Family, Working, IInv, Locked
<1>1. CASE UNCHANGED vars
  BY <1>1 DEF vars, share, record, local
<1>2. ASSUME NEW p \in Procs, NEW c \in Procs, CallExec(p, c) PROVE Locked'
  BY <1>2 DEF CallExec, Goto, share, record, local
<1>3. ASSUME NEW p \in Procs, NEW c \in Procs, CallWait(p, c) PROVE Locked'
  BY <1>3 DEF CallWait, Goto, share, record, local, ChildsAfterWait
<1>4. ASSUME NEW p \in Procs, LoadSucceeds(p) PROVE Locked'
  BY <1>4 DEF LoadSucceeds, Goto, share, record, local, InitialReferences
<1>5. ASSUME NEW p \in Procs, LoadFails(p) PROVE Locked'
  BY <1>5 DEF LoadFails, Goto, share, record, local
<1>6. ASSUME NEW p \in Procs, StartReports(p) PROVE Locked'
  BY <1>6 DEF StartReports, Goto, share, record, local, Reports
<1>7. ASSUME NEW p \in Procs, StartUps(p) PROVE Locked'
  BY <1>7 DEF StartUps, Goto, share, record, local, ShareSemaUp
<1>8. ASSUME NEW p \in Procs, ExecReturns(p) PROVE Locked'
  BY <1>8 DEF ExecReturns, Goto, share, record, local, Reported
<1>9. ASSUME NEW p \in Procs, WaitDowns(p) PROVE Locked'
  BY <1>9 DEF WaitDowns, Goto, share, record, local
<1>10. ASSUME NEW p \in Procs, DropLocks(p) PROVE Locked'
  BY <1>10 DEF DropLocks, Goto, share, record, local, Unlocked
<1>11. ASSUME NEW p \in Procs, DropReads(p) PROVE Locked'
  BY <1>11 DEF DropReads, Goto, share, record, local
<1>12. ASSUME NEW p \in Procs, DropWrites(p) PROVE Locked'
  BY <1>12 DEF DropWrites, Goto, share, record, local
<1>13. ASSUME NEW p \in Procs, DropFrees(p) PROVE Locked'
  BY <1>13 DEF DropFrees, Goto, share, record, local, LastReference
<1>14. ASSUME NEW p \in Procs, CallExit(p) PROVE Locked'
  BY <1>14 DEF CallExit, Goto, share, record, local
<1>15. ASSUME NEW p \in Procs, ExitCloses(p) PROVE Locked'
  BY <1>15 DEF ExitCloses, Goto, share, record, local
<1>16. ASSUME NEW p \in Procs, ExitStores(p) PROVE Locked'
  BY <1>16 DEF ExitStores, Goto, share, record, local, StatusStored
<1>17. ASSUME NEW p \in Procs, ExitUps(p) PROVE Locked'
  BY <1>17 DEF ExitUps, Goto, share, record, local, SemaUp
<1>18. ASSUME NEW p \in Procs, ExitForgets(p) PROVE Locked'
  BY <1>18 DEF ExitForgets, Goto, share, record, local
<1>19. ASSUME NEW p \in Procs, ExitDone(p) PROVE Locked'
  BY <1>19 DEF ExitDone, Goto, share, record, local
<1>20. QED
  BY <1>1, <1>2, <1>3, <1>4, <1>5, <1>6, <1>7, <1>8, <1>9, <1>10, <1>11, <1>12, <1>13, <1>14,
     <1>15, <1>16, <1>17, <1>18, <1>19 DEF Next, Step, Locking

\* Only process_exit raises the semaphore of a struct child.
LEMMA NotPostedStep == TypeOK /\ IInv /\ [Next]_vars => NotPosted'
<1> SUFFICES ASSUME TypeOK, IInv, [Next]_vars PROVE NotPosted'
  OBVIOUS
<1> USE DEF TypeOK, PCs, Family, Starting, Working, IInv, NotPosted, Alive, Dropping
<1>1. CASE UNCHANGED vars
  BY <1>1 DEF vars, share, record, local
<1>2. ASSUME NEW p \in Procs, NEW c \in Procs, CallExec(p, c) PROVE NotPosted'
  BY <1>2 DEF CallExec, Goto, share, record, local
<1>3. ASSUME NEW p \in Procs, NEW c \in Procs, CallWait(p, c) PROVE NotPosted'
  BY <1>3 DEF CallWait, Goto, share, record, local, ChildsAfterWait
<1>4. ASSUME NEW p \in Procs, LoadSucceeds(p) PROVE NotPosted'
  BY <1>4 DEF LoadSucceeds, Goto, share, record, local, InitialReferences
<1>5. ASSUME NEW p \in Procs, LoadFails(p) PROVE NotPosted'
  BY <1>5 DEF LoadFails, Goto, share, record, local
<1>6. ASSUME NEW p \in Procs, StartReports(p) PROVE NotPosted'
  BY <1>6 DEF StartReports, Goto, share, record, local, Reports
<1>7. ASSUME NEW p \in Procs, StartUps(p) PROVE NotPosted'
  BY <1>7 DEF StartUps, Goto, share, record, local, ShareSemaUp
<1>8. ASSUME NEW p \in Procs, ExecReturns(p) PROVE NotPosted'
  BY <1>8 DEF ExecReturns, Goto, share, record, local, Reported
<1>9. ASSUME NEW p \in Procs, WaitDowns(p) PROVE NotPosted'
  BY <1>9 DEF WaitDowns, Goto, share, record, local
<1>10. ASSUME NEW p \in Procs, DropLocks(p) PROVE NotPosted'
  BY <1>10 DEF DropLocks, Goto, share, record, local, Unlocked
<1>11. ASSUME NEW p \in Procs, DropReads(p) PROVE NotPosted'
  BY <1>11 DEF DropReads, Goto, share, record, local
<1>12. ASSUME NEW p \in Procs, DropWrites(p) PROVE NotPosted'
  BY <1>12 DEF DropWrites, Goto, share, record, local
<1>13. ASSUME NEW p \in Procs, DropFrees(p) PROVE NotPosted'
  BY <1>13 DEF DropFrees, Goto, share, record, local, LastReference
<1>14. ASSUME NEW p \in Procs, CallExit(p) PROVE NotPosted'
  BY <1>14 DEF CallExit, Goto, share, record, local
<1>15. ASSUME NEW p \in Procs, ExitCloses(p) PROVE NotPosted'
  BY <1>15 DEF ExitCloses, Goto, share, record, local
<1>16. ASSUME NEW p \in Procs, ExitStores(p) PROVE NotPosted'
  BY <1>16 DEF ExitStores, Goto, share, record, local, StatusStored
<1>17. ASSUME NEW p \in Procs, ExitUps(p) PROVE NotPosted'
  BY <1>17 DEF ExitUps, Goto, share, record, local, SemaUp
<1>18. ASSUME NEW p \in Procs, ExitForgets(p) PROVE NotPosted'
  BY <1>18 DEF ExitForgets, Goto, share, record, local
<1>19. ASSUME NEW p \in Procs, ExitDone(p) PROVE NotPosted'
  BY <1>19 DEF ExitDone, Goto, share, record, local
<1>20. QED
  BY <1>1, <1>2, <1>3, <1>4, <1>5, <1>6, <1>7, <1>8, <1>9, <1>10, <1>11, <1>12, <1>13, <1>14,
     <1>15, <1>16, <1>17, <1>18, <1>19 DEF Next, Step, Locking

\* The count never drops below 0, no semaphore rises above 1.
LEMMA TypeStep == TypeOK /\ IInv /\ [Next]_vars => TypeOK'
<1> SUFFICES ASSUME TypeOK, IInv, [Next]_vars PROVE TypeOK'
  OBVIOUS
<1> USE ProcessAssumption DEF TypeOK, PCs, IInv
<1>1. CASE UNCHANGED vars
  BY <1>1 DEF vars, share, record, local
<1>2. ASSUME NEW p \in Procs, NEW c \in Procs, CallExec(p, c) PROVE TypeOK'
  BY <1>2 DEF CallExec, Goto, share, record, local
<1>3. ASSUME NEW p \in Procs, NEW c \in Procs, CallWait(p, c) PROVE TypeOK'
  BY <1>3 DEF CallWait, Goto, share, record, local, ChildsAfterWait
<1>4. ASSUME NEW p \in Procs, LoadSucceeds(p) PROVE TypeOK'
  <2>1. /\ pc' \in [Procs -> PCs] /\ block' \in [Procs -> {"none", "live", "freed"}]
        /\ sema' \in [Procs -> 0..1] /\ thread_child' \subseteq Procs
    BY <1>4 DEF LoadSucceeds, Goto
  <2>2. ref_cnt' \in [Procs -> 0..2]
    BY <1>4 DEF LoadSucceeds, InitialReferences
  <2>3. share_child' \in [Procs -> Procs \cup {NULL}]
    BY <1>4 DEF LoadSucceeds
  <2> QED
    BY <1>4, <2>1, <2>2, <2>3 DEF LoadSucceeds, local
<1>5. ASSUME NEW p \in Procs, LoadFails(p) PROVE TypeOK'
  BY <1>5 DEF LoadFails, Goto, share, record, local
<1>6. ASSUME NEW p \in Procs, StartReports(p) PROVE TypeOK'
  <2>1. isrun' \in [Procs -> BOOLEAN]
    BY <1>6 DEF StartReports, Reports, Starting
  <2> QED
    BY <1>6, <2>1 DEF StartReports, Goto, record, local
<1>7. ASSUME NEW p \in Procs, StartUps(p) PROVE TypeOK'
  BY <1>7 DEF Starting, StartUps, Goto, share, record, local, ShareSemaUp
<1>8. ASSUME NEW p \in Procs, ExecReturns(p) PROVE TypeOK'
  <2>1. isrun[p] => share_child[p] \in Procs
    BY <1>8 DEF ExecReturns, Reported, Starting
  <2>2. childs' \in [Procs -> SUBSET Procs]
    BY <1>8, <2>1 DEF ExecReturns
  <2>3. isrun' \in [Procs -> BOOLEAN] /\ share_sema' \in [Procs -> 0..1]
    BY <1>8 DEF ExecReturns
  <2>4. pc' \in [Procs -> PCs] /\ share_child' \in [Procs -> Procs \cup {NULL}]
    BY <1>8 DEF ExecReturns, Goto
  <2> QED
    BY <1>8, <2>2, <2>3, <2>4 DEF ExecReturns, record, local
<1>9. ASSUME NEW p \in Procs, WaitDowns(p) PROVE TypeOK'
  <2>1. obj[p] \in Procs
    BY <1>9 DEF WaitDowns, Family, Working
  <2> QED
    BY <1>9, <2>1 DEF WaitDowns, Goto, share
<1>10. ASSUME NEW p \in Procs, DropLocks(p) PROVE TypeOK'
  BY <1>10 DEF DropLocks, Goto, share, record, local, Unlocked
<1>11. ASSUME NEW p \in Procs, DropReads(p) PROVE TypeOK'
  <2>1. obj[p] \in Procs
    BY <1>11 DEF DropReads, Family, Working
  <2>2. ref_cnt[obj[p]] - 1 \in -1..1
    BY <2>1
  <2>3. new_ref_cnt' \in [Procs -> -1..1]
    BY <1>11, <2>2 DEF DropReads
  <2> QED
    BY <1>11, <2>3 DEF DropReads, Goto, share, record
<1>12. ASSUME NEW p \in Procs, DropWrites(p) PROVE TypeOK'
  <2>1. obj[p] \in thread_child /\ pc[p] = "write"
    BY <1>12 DEF DropWrites, Family, Working
  <2>2. SelfRefers(obj[p]) \/ ParentRefers(obj[p])
    <3>1. CASE obj[p] = p
      BY <2>1, <3>1 DEF SelfRefers, Dropping
    <3>2. CASE obj[p] # p
      BY <2>1, <3>2 DEF ParentRefers, Dropping, Family, Working
    <3> QED
      BY <3>1, <3>2
  <2>3. block[obj[p]] = "live"
    BY <2>1, <2>2 DEF Counted
  <2>4. ref_cnt[obj[p]] >= 1 /\ new_ref_cnt[p] = ref_cnt[obj[p]] - 1
    BY <2>1, <2>2, <2>3 DEF Counted
  <2>5. ref_cnt' \in [Procs -> 0..2]
    BY <1>12, <2>1, <2>4 DEF DropWrites
  <2> QED
    BY <1>12, <2>5 DEF DropWrites, Goto, share, local
<1>13. ASSUME NEW p \in Procs, DropFrees(p) PROVE TypeOK'
  <2>1. pc' \in [Procs -> PCs] /\ block' \in [Procs -> {"none", "live", "freed"}]
    BY <1>13 DEF DropFrees, Goto
  <2>2. /\ obj' \in [Procs -> Procs \cup {NULL}] /\ new_ref_cnt' \in [Procs -> -1..1]
        /\ return' \in [Procs -> {"user", "children"}]
    BY <1>13 DEF DropFrees
  <2>3. exit_code' \in [Procs -> Codes \cup {Killed, Garbage}]
    BY <1>13 DEF DropFrees
  <2> QED
    BY <1>13, <2>1, <2>2, <2>3 DEF DropFrees, share
<1>14. ASSUME NEW p \in Procs, CallExit(p) PROVE TypeOK'
  BY <1>14 DEF CallExit, Goto, share, record, local
<1>15. ASSUME NEW p \in Procs, ExitCloses(p) PROVE TypeOK'
  BY <1>15 DEF ExitCloses, Goto, share, record, local
<1>16. ASSUME NEW p \in Procs, ExitStores(p) PROVE TypeOK'
  BY <1>16 DEF ExitStores, Goto, share, record, local, StatusStored
<1>17. ASSUME NEW p \in Procs, ExitUps(p) PROVE TypeOK'
  BY <1>17 DEF NotPosted, Alive, Family, ExitUps, Goto, share, record, local, SemaUp
<1>18. ASSUME NEW p \in Procs, ExitForgets(p) PROVE TypeOK'
  BY <1>18 DEF ExitForgets, Goto, share, record, local
<1>19. ASSUME NEW p \in Procs, ExitDone(p) PROVE TypeOK'
  BY <1>19 DEF ExitDone, Goto, share, record, local
<1>20. QED
  BY <1>1, <1>2, <1>3, <1>4, <1>5, <1>6, <1>7, <1>8, <1>9, <1>10, <1>11, <1>12, <1>13, <1>14,
     <1>15, <1>16, <1>17, <1>18, <1>19 DEF Next, Step, Locking

\* Each reference is counted, and dropped once.
LEMMA CountedStep == TypeOK /\ IInv /\ [Next]_vars => Counted'
<1> SUFFICES ASSUME TypeOK, IInv, [Next]_vars PROVE Counted'
  OBVIOUS
<1> USE ProcessAssumption DEF TypeOK, PCs, Family, Starting, Working, Locked, IInv, Counted,
   SelfRefers, ParentRefers, Freeing, Dropping
<1>1. CASE UNCHANGED vars
  BY <1>1 DEF vars, share, record, local
<1>2. ASSUME NEW p \in Procs, NEW c \in Procs, CallExec(p, c) PROVE Counted'
  BY <1>2 DEF CallExec, Goto, share, record, local
<1>3. ASSUME NEW p \in Procs, NEW c \in Procs, CallWait(p, c) PROVE Counted'
  BY <1>3 DEF CallWait, Goto, share, record, local, ChildsAfterWait
<1>4. ASSUME NEW p \in Procs, LoadSucceeds(p) PROVE Counted'
  BY <1>4 DEF LoadSucceeds, Goto, share, record, local, InitialReferences
<1>5. ASSUME NEW p \in Procs, LoadFails(p) PROVE Counted'
  BY <1>5 DEF LoadFails, Goto, share, record, local
<1>6. ASSUME NEW p \in Procs, StartReports(p) PROVE Counted'
  BY <1>6 DEF StartReports, Goto, share, record, local, Reports
<1>7. ASSUME NEW p \in Procs, StartUps(p) PROVE Counted'
  BY <1>7 DEF StartUps, Goto, share, record, local, ShareSemaUp
<1>8. ASSUME NEW p \in Procs, ExecReturns(p) PROVE Counted'
  BY <1>8 DEF ExecReturns, Goto, share, record, local, Reported
<1>9. ASSUME NEW p \in Procs, WaitDowns(p) PROVE Counted'
  BY <1>9 DEF WaitDowns, Goto, share, record, local
<1>10. ASSUME NEW p \in Procs, DropLocks(p) PROVE Counted'
  <2>1. \A c \in Procs : /\ SelfRefers(c)' <=> SelfRefers(c)
                         /\ ParentRefers(c)' <=> ParentRefers(c)
    BY <1>10 DEF DropLocks, Goto, share, local
  <2>2. \A q \in Procs : pc'[q] \in {"write", "free"} <=> pc[q] \in {"write", "free"}
    BY <1>10 DEF DropLocks, Goto
  <2>3. \A q \in Procs : pc[q] \in {"write", "free"} => pc'[q] = pc[q]
    BY <1>10 DEF DropLocks, Goto
  <2>4. /\ UNCHANGED <<block, ref_cnt, obj, new_ref_cnt>>
        /\ \A c \in Procs : Freeing(c)' = Freeing(c)
    BY <1>10, <2>2, <2>3 DEF DropLocks, local
  <2> HIDE DEF SelfRefers, ParentRefers, Freeing, TypeOK, Family, Starting, Locked
  <2>5. ASSUME NEW c \in Procs, SelfRefers(c)' \/ ParentRefers(c)' PROVE block'[c] = "live"
    BY <2>1, <2>4, <2>5
  <2>6. ASSUME NEW c \in Procs, block'[c] = "live"
        PROVE  /\ ref_cnt'[c] = (IF SelfRefers(c)' THEN 1 ELSE 0)
                                  + (IF ParentRefers(c)' THEN 1 ELSE 0)
               /\ SelfRefers(c)' \/ ParentRefers(c)' \/ Freeing(c)' # {}
    BY <2>1, <2>4, <2>6
  <2>7. \A q \in Procs : pc'[q] = "write" => new_ref_cnt'[q] = ref_cnt'[obj'[q]] - 1
    BY <2>2, <2>3, <2>4
  <2>8. ASSUME NEW c \in Procs, NEW q \in Freeing(c)'
        PROVE  /\ block'[c] = "live" /\ ~ SelfRefers(c)' /\ ~ ParentRefers(c)'
               /\ \A r \in Freeing(c)' : r = q
    BY <2>1, <2>4, <2>8
  <2> QED
    BY <2>5, <2>6, <2>7, <2>8
<1>11. ASSUME NEW p \in Procs, DropReads(p) PROVE Counted'
  BY <1>11 DEF DropReads, Goto, share, record, local
<1>12. ASSUME NEW p \in Procs, DropWrites(p) PROVE Counted'
  BY <1>12 DEF DropWrites, Goto, share, record, local
<1>13. ASSUME NEW p \in Procs, DropFrees(p) PROVE Counted'
  BY <1>13 DEF DropFrees, Goto, share, record, local, LastReference
<1>14. ASSUME NEW p \in Procs, CallExit(p) PROVE Counted'
  BY <1>14 DEF CallExit, Goto, share, record, local
<1>15. ASSUME NEW p \in Procs, ExitCloses(p) PROVE Counted'
  BY <1>15 DEF ExitCloses, Goto, share, record, local
<1>16. ASSUME NEW p \in Procs, ExitStores(p) PROVE Counted'
  <2>1. \A c \in Procs : /\ SelfRefers(c)' <=> SelfRefers(c)
                         /\ ParentRefers(c)' <=> ParentRefers(c)
    BY <1>16 DEF ExitStores, Goto, share, local
  <2>2. \A q \in Procs : pc'[q] \in {"write", "free"} <=> pc[q] \in {"write", "free"}
    BY <1>16 DEF ExitStores, Goto
  <2>3. \A q \in Procs : pc[q] \in {"write", "free"} => pc'[q] = pc[q]
    BY <1>16 DEF ExitStores, Goto
  <2>4. /\ UNCHANGED <<block, ref_cnt, obj, new_ref_cnt>>
        /\ \A c \in Procs : Freeing(c)' = Freeing(c)
    BY <1>16, <2>2, <2>3 DEF ExitStores, local
  <2> HIDE DEF SelfRefers, ParentRefers, Freeing, TypeOK, Family, Starting, Locked
  <2>5. ASSUME NEW c \in Procs, SelfRefers(c)' \/ ParentRefers(c)' PROVE block'[c] = "live"
    BY <2>1, <2>4, <2>5
  <2>6. ASSUME NEW c \in Procs, block'[c] = "live"
        PROVE  /\ ref_cnt'[c] = (IF SelfRefers(c)' THEN 1 ELSE 0)
                                  + (IF ParentRefers(c)' THEN 1 ELSE 0)
               /\ SelfRefers(c)' \/ ParentRefers(c)' \/ Freeing(c)' # {}
    BY <2>1, <2>4, <2>6
  <2>7. \A q \in Procs : pc'[q] = "write" => new_ref_cnt'[q] = ref_cnt'[obj'[q]] - 1
    BY <2>2, <2>3, <2>4
  <2>8. ASSUME NEW c \in Procs, NEW q \in Freeing(c)'
        PROVE  /\ block'[c] = "live" /\ ~ SelfRefers(c)' /\ ~ ParentRefers(c)'
               /\ \A r \in Freeing(c)' : r = q
    BY <2>1, <2>4, <2>8
  <2> QED
    BY <2>5, <2>6, <2>7, <2>8
<1>17. ASSUME NEW p \in Procs, ExitUps(p) PROVE Counted'
  BY <1>17 DEF ExitUps, Goto, share, record, local, SemaUp
<1>18. ASSUME NEW p \in Procs, ExitForgets(p) PROVE Counted'
  BY <1>18 DEF ExitForgets, Goto, share, record, local
<1>19. ASSUME NEW p \in Procs, ExitDone(p) PROVE Counted'
  BY <1>19 DEF ExitDone, Goto, share, record, local
<1>20. QED
  BY <1>1, <1>2, <1>3, <1>4, <1>5, <1>6, <1>7, <1>8, <1>9, <1>10, <1>11, <1>12, <1>13, <1>14,
     <1>15, <1>16, <1>17, <1>18, <1>19 DEF Next, Step, Locking

\* The status is stored before the semaphore is raised.
LEMMA ToldStep == TypeOK /\ IInv /\ [Next]_vars => Told'
<1> SUFFICES ASSUME TypeOK, IInv, [Next]_vars PROVE Told'
  OBVIOUS
<1> USE ProcessAssumption DEF TypeOK, PCs, Family, Starting, Working, NotPosted, IInv, Told,
   Alive, Dropping
<1>1. CASE UNCHANGED vars
  BY <1>1 DEF vars, share, record, local
<1>2. ASSUME NEW p \in Procs, NEW c \in Procs, CallExec(p, c) PROVE Told'
  BY <1>2 DEF CallExec, Goto, share, record, local
<1>3. ASSUME NEW p \in Procs, NEW c \in Procs, CallWait(p, c) PROVE Told'
  BY <1>3 DEF CallWait, Goto, share, record, local, ChildsAfterWait
<1>4. ASSUME NEW p \in Procs, LoadSucceeds(p) PROVE Told'
  BY <1>4 DEF LoadSucceeds, Goto, share, record, local, InitialReferences
<1>5. ASSUME NEW p \in Procs, LoadFails(p) PROVE Told'
  BY <1>5 DEF LoadFails, Goto, share, record, local
<1>6. ASSUME NEW p \in Procs, StartReports(p) PROVE Told'
  BY <1>6 DEF StartReports, Goto, share, record, local, Reports
<1>7. ASSUME NEW p \in Procs, StartUps(p) PROVE Told'
  BY <1>7 DEF StartUps, Goto, share, record, local, ShareSemaUp
<1>8. ASSUME NEW p \in Procs, ExecReturns(p) PROVE Told'
  BY <1>8 DEF ExecReturns, Goto, share, record, local, Reported
<1>9. ASSUME NEW p \in Procs, WaitDowns(p) PROVE Told'
  BY <1>9 DEF WaitDowns, Goto, share, record, local
<1>10. ASSUME NEW p \in Procs, DropLocks(p) PROVE Told'
  BY <1>10 DEF DropLocks, Goto, share, record, local, Unlocked
<1>11. ASSUME NEW p \in Procs, DropReads(p) PROVE Told'
  BY <1>11 DEF DropReads, Goto, share, record, local
<1>12. ASSUME NEW p \in Procs, DropWrites(p) PROVE Told'
  BY <1>12 DEF DropWrites, Goto, share, record, local
<1>13. ASSUME NEW p \in Procs, DropFrees(p) PROVE Told'
  BY <1>13 DEF DropFrees, Goto, share, record, local, LastReference
<1>14. ASSUME NEW p \in Procs, CallExit(p) PROVE Told'
  BY <1>14 DEF CallExit, Goto, share, record, local
<1>15. ASSUME NEW p \in Procs, ExitCloses(p) PROVE Told'
  BY <1>15 DEF ExitCloses, Goto, share, record, local
<1>16. ASSUME NEW p \in Procs, ExitStores(p) PROVE Told'
  BY <1>16 DEF ExitStores, Goto, share, record, local, StatusStored
<1>17. ASSUME NEW p \in Procs, ExitUps(p) PROVE Told'
  BY <1>17 DEF ExitUps, Goto, share, record, local, SemaUp
<1>18. ASSUME NEW p \in Procs, ExitForgets(p) PROVE Told'
  BY <1>18 DEF ExitForgets, Goto, share, record, local
<1>19. ASSUME NEW p \in Procs, ExitDone(p) PROVE Told'
  BY <1>19 DEF ExitDone, Goto, share, record, local
<1>20. QED
  BY <1>1, <1>2, <1>3, <1>4, <1>5, <1>6, <1>7, <1>8, <1>9, <1>10, <1>11, <1>12, <1>13, <1>14,
     <1>15, <1>16, <1>17, <1>18, <1>19 DEF Next, Step, Locking

\* The initial states have it.
LEMMA Beginning == Init => TypeOK /\ IInv
<1> SUFFICES ASSUME Init PROVE TypeOK /\ IInv
  OBVIOUS
<1> USE ProcessAssumption DEF Init
<1>1. TypeOK
  BY DEF TypeOK, PCs
<1>2. Family /\ Starting /\ Locked
  BY DEF Family, Starting, Locked, Working
<1>3. NotPosted /\ Counted
  BY DEF NotPosted, Counted, SelfRefers, ParentRefers, Freeing, Dropping
<1>4. Told
  BY DEF Told, Dropping
<1> QED
  BY <1>1, <1>2, <1>3, <1>4 DEF IInv

\* The invariant holds throughout.
LEMMA Invariant == Spec => [](TypeOK /\ IInv)
<1>1. TypeOK /\ IInv /\ [Next]_vars => (TypeOK /\ IInv)'
  BY FamilyStep, StartingStep, LockedStep, NotPostedStep, TypeStep, CountedStep, ToldStep DEF IInv
<1> QED
  BY Beginning, <1>1, PTL DEF Spec

\* process.c: the fields keep their ranges; above all, a semaphore of a struct
\* child or of a share_str never counts beyond 1, and no count drops below 0.
THEOREM TypeCorrect == Spec => []TypeOK
BY Invariant, PTL

\* process.c:143-202: a struct child is there as long as parent or child refers
\* to it, and while the last one is about to free it.
THEOREM NeverUsedAfterFree == Spec => []NoUseAfterFree
<1>1. TypeOK /\ IInv => NoUseAfterFree
  BY DEF IInv, Counted, NoUseAfterFree
<1> QED
  BY <1>1, Invariant, PTL

\* process.c:157-163, 179-185, 195-201: once nobody refers to a struct child,
\* exactly one process is about to free it.
THEOREM FreedOnce == Spec => []NoLeak
<1>1. ASSUME TypeOK, IInv PROVE NoLeak
  <2> SUFFICES ASSUME NEW c \in Procs, block[c] = "live",
                      ~ SelfRefers(c), ~ ParentRefers(c)
               PROVE  Cardinality(Freeing(c)) = 1
    BY DEF NoLeak
  <2>1. PICK p \in Freeing(c) : TRUE
    BY <1>1 DEF IInv, Counted
  <2>2. Freeing(c) = {p}
    BY <1>1, <2>1 DEF IInv, Counted
  <2> QED
    BY <2>2, FS_Singleton
<1> QED
  BY <1>1, Invariant, PTL

\* process.c:183-188: neither used after it is freed nor leaked, together.
THEOREM ChildFreedExactlyOnce == Spec => []FreedExactlyOnce
<1>1. NoUseAfterFree /\ NoLeak => FreedExactlyOnce
  BY DEF FreedExactlyOnce
<1> QED
  BY <1>1, NeverUsedAfterFree, FreedOnce, PTL

\* thread.h:38: ref_cnt is the number of those who refer to the struct child.
THEOREM ReferencesCounted == Spec => []CountsReferences
<1>1. TypeOK /\ IInv => CountsReferences
  BY DEF IInv, Counted, CountsReferences
<1> QED
  BY <1>1, Invariant, PTL

\* process.c:41: the share_str a child is to use is still on its parent's stack.
THEOREM ShareStillThere == Spec => []ShareThere
<1>1. TypeOK /\ IInv => ShareThere
  BY DEF IInv, Starting, ShareThere
<1> QED
  BY <1>1, Invariant, PTL

\* What exec has done when it returns.
LEMMA ExecStep == TypeOK /\ IInv /\ [Next]_vars =>
    \A p \in Procs : pc[p] = "exec" /\ pc'[p] = "user" =>
        childs'[p] = childs[p] \cup
            {c \in thread_child : parent[c] = p /\ c = share_child[p]}
<1> SUFFICES ASSUME TypeOK, IInv, [Next]_vars,
                    NEW p \in Procs, pc[p] = "exec", pc'[p] = "user"
             PROVE  childs'[p] = childs[p] \cup
                        {c \in thread_child : parent[c] = p /\ c = share_child[p]}
  OBVIOUS
<1> USE DEF TypeOK, PCs
<1>1. ExecReturns(p)
  BY DEF Next, Step, Locking, CallExec, CallWait, CallExit, DropLocks, ExitCloses,
         LoadSucceeds, LoadFails, StartReports, StartUps, ExecReturns, WaitDowns,
         DropReads, DropWrites, DropFrees, ExitStores, ExitUps, ExitForgets, ExitDone,
         Goto, vars
<1>2. /\ isrun[p] <=> share_child[p] # NULL
      /\ share_child[p] # NULL =>
            share_child[p] \in thread_child /\ parent[share_child[p]] = p
  BY <1>1 DEF ExecReturns, Reported, IInv, Starting
<1>3. NULL \notin thread_child
  BY ProcessAssumption
<1>4. childs'[p] = IF isrun[p] THEN childs[p] \cup {share_child[p]} ELSE childs[p]
  BY <1>1 DEF ExecReturns
<1>5. CASE isrun[p]
  BY <1>2, <1>4, <1>5
<1>6. CASE ~ isrun[p]
  BY <1>2, <1>3, <1>4, <1>6
<1> QED
  BY <1>5, <1>6

\* process.c:43-70: exec reports the child it started, and can wait for it, if
\* and only if it was loaded.
THEOREM ExecReports == Spec => ExecTells
BY Invariant, ExecStep, PTL DEF Spec, ExecTells

\* What wait has found when it returns.
LEMMA WaitStep == TypeOK /\ IInv /\ [Next]_vars =>
    \A p \in Procs : pc[p] = "free" /\ pc'[p] = "user" =>
        /\ exit_code[p] = st_exit[obj[p]]
        /\ pc[obj[p]] \in Dropping \cup {"free", "children", "dead"}
        /\ obj[p] \notin childs[p]
<1> SUFFICES ASSUME TypeOK, IInv, [Next]_vars,
                    NEW p \in Procs, pc[p] = "free", pc'[p] = "user"
             PROVE  /\ exit_code[p] = st_exit[obj[p]]
                    /\ pc[obj[p]] \in Dropping \cup {"free", "children", "dead"}
                    /\ obj[p] \notin childs[p]
  OBVIOUS
<1> USE DEF TypeOK, PCs, IInv
<1>1. return[p] = "user"
  BY DEF Next, Step, Locking, CallExec, CallWait, CallExit, DropLocks, ExitCloses,
         LoadSucceeds, LoadFails, StartReports, StartUps, ExecReturns, WaitDowns,
         DropReads, DropWrites, DropFrees, ExitStores, ExitUps, ExitForgets, ExitDone,
         Goto, vars
<1>2. obj[p] \in thread_child /\ obj[p] \notin childs[p]
  BY DEF Family, Working
<1>3. ~ Alive(obj[p]) /\ exit_code[p] = st_exit[obj[p]]
  BY <1>1 DEF Told
<1>4. pc[obj[p]] \notin {"none", "load"}
  BY <1>2 DEF Family, Starting
<1> QED
  BY <1>2, <1>3, <1>4 DEF Alive, Dropping

\* process.c:143-167, 170-188: wait returns the status its child ended with.
THEOREM WaitReturns == Spec => WaitReturnsStatus
BY Invariant, WaitStep, PTL DEF Spec, WaitReturnsStatus
=============================================================================
