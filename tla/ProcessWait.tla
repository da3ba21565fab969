---------------------------- MODULE ProcessWait ----------------------------
(***************************************************************************)
(* Starting, awaiting and ending processes in lab 3 (userprog/process.c of *)
(* src/lab3/pintos3_all_passed): the share_str on the stack of a process   *)
(* in exec, through which the child reports whether it loaded, and the     *)
(* struct child that child and parent share, with its semaphore, its lock  *)
(* and its reference count.                                                *)
(*                                                                         *)
(* Interrupts are on throughout: every step is one access to memory that   *)
(* another process also uses, or one semaphore operation.  A struct child  *)
(* is named by its child, and lists of children are sets: their order is   *)
(* only the order in which process_exit goes through them.                 *)
(***************************************************************************)
EXTENDS Integers, FiniteSets

CONSTANTS
    Procs,     \* the threads that ever exist, each with its own tid
    Main,      \* the initial thread, which runs process_wait of the first one
    Codes,     \* the statuses programs pass to exit
    Killed,    \* the status -1 of a process that the kernel ends
    Garbage,   \* what malloc leaves in store_exit
    NULL

ASSUME ProcessAssumption ==
    /\ IsFiniteSet(Procs) /\ Main \in Procs
    /\ NULL \notin Procs
    /\ Garbage \notin Codes \cup {Killed}

VARIABLES
    pc, parent,
    childs,        \* of each process: the children it has not awaited
    thread_child,  \* the processes whose thread_child is not NULL
    st_exit,
    block,         \* of each struct child: "none", "live" or "freed"
    ref_cnt, sema, store_exit, holder,     \* its fields; holder of its lock
    isrun, share_sema, share_child,        \* the share_str of each process
    fs_lock,       \* the holder of fs_lock
    obj,           \* the struct child a process works on
    new_ref_cnt, exit_code, return         \* its locals, and where it goes on

share  == <<isrun, share_sema, share_child>>
record == <<block, ref_cnt, sema, store_exit, holder>>
local  == <<obj, new_ref_cnt, exit_code, return>>
vars   == <<pc, parent, childs, thread_child, st_exit, record, share, fs_lock, local>>

PCs == {"none", "load", "report", "up",           \* start_process
        "user", "exec", "wait",                   \* running, or in sema_down
        "lock", "read", "write", "free",          \* dropping a reference
        "close", "store", "post", "children", "dead"}    \* thread_exit

TypeOK ==
    /\ pc \in [Procs -> PCs]
    /\ parent \in [Procs -> Procs \cup {NULL}]
    /\ childs \in [Procs -> SUBSET Procs]
    /\ thread_child \subseteq Procs
    /\ st_exit \in [Procs -> Codes \cup {Killed}]
    /\ block \in [Procs -> {"none", "live", "freed"}]
    /\ ref_cnt \in [Procs -> 0..2]
    /\ sema \in [Procs -> 0..1]
    /\ store_exit \in [Procs -> Codes \cup {Killed, Garbage}]
    /\ holder \in [Procs -> Procs \cup {NULL}]
    /\ isrun \in [Procs -> BOOLEAN]
    /\ share_sema \in [Procs -> 0..1]
    /\ share_child \in [Procs -> Procs \cup {NULL}]
    /\ fs_lock \in Procs \cup {NULL}
    /\ obj \in [Procs -> Procs \cup {NULL}]
    /\ new_ref_cnt \in [Procs -> -1..1]
    /\ exit_code \in [Procs -> Codes \cup {Killed, Garbage}]
    /\ return \in [Procs -> {"user", "children"}]

Init ==
    /\ pc = [p \in Procs |-> IF p = Main THEN "user" ELSE "none"]
    /\ parent = [p \in Procs |-> NULL]
    /\ childs = [p \in Procs |-> {}]
    /\ thread_child = {}
    /\ st_exit = [p \in Procs |-> Killed]
    /\ block = [p \in Procs |-> "none"]
    /\ ref_cnt = [p \in Procs |-> 0]
    /\ sema = [p \in Procs |-> 0]
    /\ store_exit = [p \in Procs |-> Garbage]
    /\ holder = [p \in Procs |-> NULL]
    /\ isrun = [p \in Procs |-> FALSE]
    /\ share_sema = [p \in Procs |-> 0]
    /\ share_child = [p \in Procs |-> NULL]
    /\ fs_lock = NULL
    /\ obj = [p \in Procs |-> NULL]
    /\ new_ref_cnt = [p \in Procs |-> 0]
    /\ exit_code = [p \in Procs |-> Killed]
    /\ return = [p \in Procs |-> "user"]

Goto(p, place) == pc' = [pc EXCEPT ![p] = place]

-----------------------------------------------------------------------------
(* process_execute and start_process.                                      *)

\* process_execute up to sema_down (&share.sema).  sys_exec calls it with
\* fs_lock held, the initial thread without.  The share_str is a local, whose
\* isrun nobody sets before the child does.
CallExec(p, c) ==
    /\ pc[p] = "user"
    /\ pc[c] = "none"
    /\ IF p = Main THEN UNCHANGED fs_lock
                   ELSE fs_lock = NULL /\ fs_lock' = p
    /\ pc' = [pc EXCEPT ![p] = "exec", ![c] = "load"]
    /\ parent' = [parent EXCEPT ![c] = p]
    /\ share_sema' = [share_sema EXCEPT ![p] = 0]
    /\ \E b \in BOOLEAN : isrun' = [isrun EXCEPT ![p] = b]
    /\ UNCHANGED <<childs, thread_child, st_exit, record, share_child, local>>

\* Mutant: one reference for the two.
InitialReferences_One == 1

InitialReferences == 2

\* start_process: load, then malloc and initialise the struct child.
LoadSucceeds(c) ==
    /\ pc[c] = "load"
    /\ block' = [block EXCEPT ![c] = "live"]
    /\ ref_cnt' = [ref_cnt EXCEPT ![c] = InitialReferences]
    /\ sema' = [sema EXCEPT ![c] = 0]
    /\ thread_child' = thread_child \cup {c}
    /\ share_child' = [share_child EXCEPT ![parent[c]] = c]
    /\ Goto(c, "report")
    /\ UNCHANGED <<parent, childs, st_exit, store_exit, holder, isrun, share_sema,
                   fs_lock, local>>

\* load or malloc fails.
LoadFails(c) ==
    /\ pc[c] = "load"
    /\ Goto(c, "report")
    /\ UNCHANGED <<parent, childs, thread_child, st_exit, record, share, fs_lock, local>>

\* Mutant: isrun is left to whatever it was.
Reports_Nothing(c) == isrun[parent[c]]

\* share->isrun = success
Reports(c) == c \in thread_child

StartReports(c) ==
    /\ pc[c] = "report"
    /\ isrun' = [isrun EXCEPT ![parent[c]] = Reports(c)]
    /\ Goto(c, "up")
    /\ UNCHANGED <<parent, childs, thread_child, st_exit, record, share_sema,
                   share_child, fs_lock, local>>

ShareSemaUp(c) == share_sema[parent[c]] + 1

\* sema_up (&share->sema), and on to the program or to thread_exit.
StartUps(c) ==
    /\ pc[c] = "up"
    /\ share_sema' = [share_sema EXCEPT ![parent[c]] = ShareSemaUp(c)]
    /\ Goto(c, IF c \in thread_child THEN "user" ELSE "close")
    /\ UNCHANGED <<parent, childs, thread_child, st_exit, record, isrun,
                   share_child, fs_lock, local>>

\* Mutant: process_execute does not wait for the child's report.
Reported_Early(p) == TRUE

\* sema_down (&share.sema) returns.
Reported(p) == share_sema[p] = 1

\* The rest of process_execute.
ExecReturns(p) ==
    /\ pc[p] = "exec"
    /\ Reported(p)
    /\ share_sema' = [share_sema EXCEPT ![p] = 0]
    /\ childs' = [childs EXCEPT ![p] = IF isrun[p] THEN @ \cup {share_child[p]} ELSE @]
    /\ fs_lock' = IF p = Main THEN fs_lock ELSE NULL
    /\ share_child' = [share_child EXCEPT ![p] = NULL]    \* the share_str is gone
    /\ isrun' = [isrun EXCEPT ![p] = FALSE]
    /\ Goto(p, "user")
    /\ UNCHANGED <<parent, thread_child, st_exit, record, local>>

-----------------------------------------------------------------------------
(* process_wait.  For a tid that is not on the list of children it returns *)
(* -1 and changes nothing.                                                 *)

\* Mutant: the child stays on the list.
ChildsAfterWait_Kept(p, c) == childs[p]

ChildsAfterWait(p, c) == childs[p] \ {c}

CallWait(p, c) ==
    /\ pc[p] = "user"
    /\ c \in childs[p]
    /\ childs' = [childs EXCEPT ![p] = ChildsAfterWait(p, c)]
    /\ obj' = [obj EXCEPT ![p] = c]
    /\ return' = [return EXCEPT ![p] = "user"]
    /\ Goto(p, "wait")
    /\ UNCHANGED <<parent, thread_child, st_exit, record, share, fs_lock,
                   new_ref_cnt, exit_code>>

\* sema_down (&temp2->sema) returns, and store_exit is read.
WaitDowns(p) ==
    /\ pc[p] = "wait"
    /\ sema[obj[p]] = 1
    /\ sema' = [sema EXCEPT ![obj[p]] = 0]
    /\ exit_code' = [exit_code EXCEPT ![p] = store_exit[obj[p]]]
    /\ Goto(p, "lock")
    /\ UNCHANGED <<parent, childs, thread_child, st_exit, block, ref_cnt, store_exit,
                   holder, share, fs_lock, obj, new_ref_cnt, return>>

-----------------------------------------------------------------------------
(* lock_acquire, --ref_cnt, lock_release and free: the same in             *)
(* process_wait and, twice, in process_exit.                               *)

Unlocked(c) == holder[c] = NULL

DropLocks(p) ==
    /\ pc[p] = "lock"
    /\ Unlocked(obj[p])
    /\ holder' = [holder EXCEPT ![obj[p]] = p]
    /\ Goto(p, "read")
    /\ UNCHANGED <<parent, childs, thread_child, st_exit, block, ref_cnt, sema,
                   store_exit, share, fs_lock, local>>

DropReads(p) ==
    /\ pc[p] = "read"
    /\ new_ref_cnt' = [new_ref_cnt EXCEPT ![p] = ref_cnt[obj[p]] - 1]
    /\ Goto(p, "write")
    /\ UNCHANGED <<parent, childs, thread_child, st_exit, record, share, fs_lock,
                   obj, exit_code, return>>

DropWrites(p) ==
    /\ pc[p] = "write"
    /\ ref_cnt' = [ref_cnt EXCEPT ![obj[p]] = new_ref_cnt[p]]
    /\ holder' = [holder EXCEPT ![obj[p]] = NULL]
    /\ Goto(p, "free")
    /\ UNCHANGED <<parent, childs, thread_child, st_exit, block, sema, store_exit,
                   share, fs_lock, local>>

\* Mutant: the count is read again after lock_release.
LastReference_Reread(p) == ref_cnt[obj[p]] = 0

\* if (new_ref_cnt == 0)
LastReference(p) == new_ref_cnt[p] = 0

DropFrees(p) ==
    /\ pc[p] = "free"
    /\ block' = IF LastReference(p) THEN [block EXCEPT ![obj[p]] = "freed"] ELSE block
    /\ Goto(p, return[p])
    /\ obj' = [obj EXCEPT ![p] = NULL]                 \* the locals are gone
    /\ new_ref_cnt' = [new_ref_cnt EXCEPT ![p] = 0]
    /\ exit_code' = [exit_code EXCEPT ![p] = Killed]
    /\ return' = [return EXCEPT ![p] = "user"]
    /\ UNCHANGED <<parent, childs, thread_child, st_exit, ref_cnt, sema, store_exit,
                   holder, share, fs_lock>>

-----------------------------------------------------------------------------
(* thread_exit: syscall_exit, then process_exit.                           *)

CallExit(p) ==
    /\ pc[p] = "user"
    /\ \/ \E k \in Codes : st_exit' = [st_exit EXCEPT ![p] = k]   \* sys_exit
       \/ UNCHANGED st_exit                                       \* killed
    /\ Goto(p, "close")
    /\ UNCHANGED <<parent, childs, thread_child, record, share, fs_lock, local>>

\* syscall_exit closes files under fs_lock, if there are any.
ExitCloses(p) ==
    /\ pc[p] = "close"
    /\ fs_lock = NULL
    /\ Goto(p, IF p \in thread_child THEN "store" ELSE "children")
    /\ UNCHANGED <<parent, childs, thread_child, st_exit, record, share, fs_lock, local>>

\* Mutant: the status of a process that is killed is not stored.
StatusStored_IfExited(p) ==
    IF st_exit[p] \in Codes THEN st_exit[p] ELSE store_exit[p]

StatusStored(p) == st_exit[p]

ExitStores(p) ==
    /\ pc[p] = "store"
    /\ store_exit' = [store_exit EXCEPT ![p] = StatusStored(p)]
    /\ Goto(p, "post")
    /\ UNCHANGED <<parent, childs, thread_child, st_exit, block, ref_cnt, sema,
                   holder, share, fs_lock, local>>

\* Mutant: only sys_exit tells the parent.
SemaUp_IfExited(p) == IF st_exit[p] \in Codes THEN 1 ELSE 0

SemaUp(p) == sema[p] + 1

\* sema_up (&child->sema), and on to drop the reference.
ExitUps(p) ==
    /\ pc[p] = "post"
    /\ sema' = [sema EXCEPT ![p] = SemaUp(p)]
    /\ obj' = [obj EXCEPT ![p] = p]
    /\ return' = [return EXCEPT ![p] = "children"]
    /\ Goto(p, "lock")
    /\ UNCHANGED <<parent, childs, thread_child, st_exit, block, ref_cnt, store_exit,
                   holder, share, fs_lock, new_ref_cnt, exit_code>>

\* One round of the loop over the children that were not awaited.
ExitForgets(p) ==
    /\ pc[p] = "children"
    /\ \E c \in childs[p] :
          /\ childs' = [childs EXCEPT ![p] = @ \ {c}]
          /\ obj' = [obj EXCEPT ![p] = c]
    /\ return' = [return EXCEPT ![p] = "children"]
    /\ Goto(p, "lock")
    /\ UNCHANGED <<parent, thread_child, st_exit, record, share, fs_lock,
                   new_ref_cnt, exit_code>>

ExitDone(p) ==
    /\ pc[p] = "children"
    /\ childs[p] = {}
    /\ Goto(p, "dead")
    /\ UNCHANGED <<parent, childs, thread_child, st_exit, record, share, fs_lock, local>>

-----------------------------------------------------------------------------
\* Steps that take a lock, and the others that finish a call.
Locking(p) == DropLocks(p) \/ ExitCloses(p)

Step(p) ==
    \/ LoadSucceeds(p) \/ LoadFails(p) \/ StartReports(p) \/ StartUps(p)
    \/ ExecReturns(p) \/ WaitDowns(p)
    \/ DropReads(p) \/ DropWrites(p) \/ DropFrees(p)
    \/ ExitStores(p) \/ ExitUps(p) \/ ExitForgets(p) \/ ExitDone(p)

Next ==
    \E p \in Procs :
        \/ \E c \in Procs : CallExec(p, c) \/ CallWait(p, c)
        \/ CallExit(p) \/ Locking(p) \/ Step(p)

Spec == Init /\ [][Next]_vars

\* Round robin, and first-come wait lists in the semaphores of locks: a thread
\* that keeps finding the lock free gets it.
FairSpec ==
    /\ Spec
    /\ \A p \in Procs : WF_vars(Step(p)) /\ SF_vars(Locking(p))

-----------------------------------------------------------------------------
(* What must hold.                                                         *)

Dropping == {"lock", "read", "write"}

\* Whether c itself, and its parent, have not given up their reference yet.
SelfRefers(c) ==
    /\ c \in thread_child
    /\ \/ pc[c] \in {"report", "up", "user", "exec", "wait", "close", "store", "post"}
       \/ pc[c] \in Dropping \cup {"free"} /\ return[c] = "user"
       \/ pc[c] \in Dropping /\ obj[c] = c

ParentRefers(c) ==
    LET p == parent[c]
    IN  /\ p # NULL
        /\ \/ c \in childs[p]
           \/ pc[p] = "exec" /\ share_child[p] = c
           \/ pc[p] \in Dropping \cup {"wait"} /\ obj[p] = c

Freeing(c) == {p \in Procs : pc[p] = "free" /\ obj[p] = c /\ new_ref_cnt[p] = 0}

\* A struct child is there as long as somebody refers to it (process.c:143-167,
\* 170-202), and the one who frees it is the last and the only one.
NoUseAfterFree ==
    \A c \in Procs :
        SelfRefers(c) \/ ParentRefers(c) \/ Freeing(c) # {} => block[c] = "live"

\* It is freed: when nobody refers to it any more, one of the two is about to.
NoLeak ==
    \A c \in Procs :
        block[c] = "live" => \/ SelfRefers(c) \/ ParentRefers(c)
                             \/ Cardinality(Freeing(c)) = 1

\* Together: it is freed exactly once, by the last to refer to it, in whatever
\* order parent and child wait, forget and exit (process.c:183-188).
FreedExactlyOnce == NoUseAfterFree /\ NoLeak

\* thread.h:38, "2=child and parent both alive, 1=either child or parent alive,
\* 0=child and parent both dead": alive meaning not having dropped it.
CountsReferences ==
    \A c \in Procs :
        block[c] = "live" =>
            ref_cnt[c] = (IF SelfRefers(c) THEN 1 ELSE 0)
                           + (IF ParentRefers(c) THEN 1 ELSE 0)

\* The share_str lies on the stack of process_execute (process.c:41): a child
\* that is to use it finds its parent still there.
ShareThere ==
    \A c \in Procs : pc[c] \in {"load", "report", "up"} => pc[parent[c]] = "exec"

\* process.c:28-31: exec returns the new child, and the parent can wait for it,
\* if and only if it was loaded, however fast it ran, and ended, meanwhile.
ExecTells ==
    [][\A p \in Procs :
          pc[p] = "exec" /\ pc'[p] = "user" =>
              childs'[p] = childs[p] \cup
                  {c \in thread_child : parent[c] = p /\ c = share_child[p]}]_vars

\* process.c:136-142: wait returns the status the child passed to exit, or -1 if
\* it was killed, and no child is awaited twice.
WaitReturnsStatus ==
    [][\A p \in Procs :
          pc[p] = "free" /\ pc'[p] = "user" =>
              /\ exit_code[p] = st_exit[obj[p]]
              /\ pc[obj[p]] \in Dropping \cup {"free", "children", "dead"}
              /\ obj[p] \notin childs[p]]_vars

\* exec comes back although it waits with fs_lock held (process.c:52), and wait
\* comes back once the child is on its way out, killed or not.
ExecReturnsAtLast == \A p \in Procs : pc[p] = "exec" ~> pc[p] # "exec"

WaitReturnsAtLast ==
    \A p \in Procs :
        (pc[p] = "wait" /\ pc[obj[p]] = "close") ~> pc[p] = "user"

\* Both calls of a parent end, whatever becomes of the child.
CallsReturn == ExecReturnsAtLast /\ WaitReturnsAtLast
=============================================================================
