------------------------------ MODULE Scheduler ------------------------------
(***************************************************************************)
(* The round-robin scheduler of cpu/task.c: a circular list of process     *)
(* control blocks that create_* extends at its tail, task_kill and         *)
(* task_exit mark, and schedule() walks and prunes.                        *)
(*                                                                         *)
(* A PCB is identified by the address kmalloc gave it, and an address that *)
(* schedule() has freed may be handed out again: the list is the pointers  *)
(* nxt, not an abstract queue, so that a stale pointer is visible.         *)
(*                                                                         *)
(* Every step of this module runs with interrupts off (the stubs of        *)
(* cpu/interrupt.asm start with cli), so only the loop inside schedule()   *)
(* is split: pc says how far that call has got.                            *)
(***************************************************************************)
EXTENDS Naturals, FiniteSets

CONSTANTS
  Addr,     \* the heap addresses a PCB may be placed at
  MaxPid    \* bound: no task is created once next_pid exceeds it

ASSUME MaxPidAssumption == MaxPid \in Nat

READY   == 0    \* TASK_READY
RUNNING == 1    \* TASK_RUNNING
DEAD    == 3    \* TASK_DEAD; no statement assigns TASK_SLEEP (2)

VARIABLES
  live,       \* addresses that hold an allocated PCB
  nxt,        \* task_t.next
  id,         \* task_t.id
  status,     \* task_t.status
  user,       \* has a page directory and a kernel stack of its own
  esp,        \* task_t.esp: the id of the task whose stack it points into
  task_head, current_task, next_pid,
  cr3,        \* the loaded directory: 0 is kernel_directory, else its task's id
  esp0,       \* tss_entry.esp0: 0, or the id of the task owning that stack
  cpu,        \* the id of the task on whose stack the processor executes
  pc          \* "run", or the place reached inside schedule()

pcb  == <<live, nxt, id, status, user, esp>>
hw   == <<cr3, esp0, cpu>>
vars == <<live, nxt, id, status, user, esp, task_head, current_task, next_pid,
          cr3, esp0, cpu, pc>>

Pid == 0 .. MaxPid

TypeOK ==
  /\ live \subseteq Addr
  /\ nxt \in [Addr -> Addr]
  /\ id \in [Addr -> Pid]
  /\ status \in [Addr -> {READY, RUNNING, DEAD}]
  /\ user \in [Addr -> BOOLEAN]
  /\ esp \in [Addr -> Pid]
  /\ task_head \in Addr
  /\ current_task \in Addr
  /\ next_pid \in 1 .. MaxPid + 1
  /\ cr3 \in Pid /\ esp0 \in Pid /\ cpu \in Pid
  /\ pc \in {"run", "enter", "skip"}

-----------------------------------------------------------------------------
(* init_multitasking: the kernel itself becomes task 0, alone on the ring. *)
Init ==
  /\ task_head \in Addr
  /\ current_task = task_head
  /\ live = {task_head}
  /\ nxt = [a \in Addr |-> task_head]
  /\ id = [a \in Addr |-> 0]
  /\ status = [a \in Addr |-> IF a = task_head THEN RUNNING ELSE READY]
  /\ user = [a \in Addr |-> FALSE]
  /\ esp = [a \in Addr |-> 0]
  /\ next_pid = 1
  /\ cr3 = 0 /\ esp0 = 0 /\ cpu = 0
  /\ pc = "run"

-----------------------------------------------------------------------------
(* The decisions and computations the actions below are built from, each   *)
(* preceded by the slips that its properties must exclude.                 *)

(* The element a search of the list for "its next is a" stops at. *)
Pred(a) == CHOOSE b \in live : nxt[b] = a

(* new_task->id = next_pid++ *)
NextId(n) == n + 1

(* "if (pid == 0) return -1" in task_kill. *)
Killable(p) == p # 0

(* Whether schedule() must remove the task it is called for. *)
NeverReaped(c) == FALSE
Reaped(c) == status[c] = DEAD /\ id[c] # 0

(* prev->next = current_task->next *)
StillLinked(c) == nxt
CutOff(c) == [nxt EXCEPT ![Pred(c)] = 0]
Unlinked(c) == [nxt EXCEPT ![Pred(c)] = nxt[c]]

(* current_task = current_task->next *)
BackToHead(c) == task_head
Successor(c) == nxt[c]

(* The negated condition of the skip loop; no task is ever TASK_SLEEP. *)
AnyCanRun(c) == TRUE
CanRun(c) == status[c] # DEAD

(* task_t.page_directory: kernel_directory is the first frame of the PMM,  *)
(* frame 0, so for a kernel task the pointer is null.                      *)
Directory(c) == IF user[c] THEN id[c] ELSE 0

(* "if (current_task->page_directory) switch_page_directory(...)" *)
LoadedDirectory(c) == IF Directory(c) # 0 THEN Directory(c) ELSE cr3

(* tss_set_stack, called only for a task with a kernel stack of its own. *)
StaleStack(c) == esp0
KernelStack(c) == IF user[c] THEN id[c] ELSE esp0

-----------------------------------------------------------------------------
(* create_task (isUser = FALSE), create_user_process and create_elf_task: *)
(* a fresh PCB, with a stack laid out so that restoring it starts the     *)
(* entry point, is linked between the last element and task_head.         *)
Create(isUser) ==
  /\ pc = "run"
  /\ next_pid <= MaxPid
  /\ \E a \in Addr \ live :
       /\ live' = live \union {a}
       /\ nxt' = [nxt EXCEPT ![Pred(task_head)] = a, ![a] = task_head]
       /\ id' = [id EXCEPT ![a] = next_pid]
       /\ status' = [status EXCEPT ![a] = READY]
       /\ user' = [user EXCEPT ![a] = isUser]
       /\ esp' = [esp EXCEPT ![a] = next_pid]
  /\ next_pid' = NextId(next_pid)
  /\ UNCHANGED <<task_head, current_task, hw, pc>>

(* task_kill, from the SYS_KILL case of syscall_handler: any task but the  *)
(* kernel, the caller included, is marked; it is not unlinked.             *)
Kill(p) ==
  /\ pc = "run"
  /\ Killable(p)
  /\ \E a \in live :
       /\ id[a] = p
       /\ status' = [status EXCEPT ![a] = DEAD]
  /\ UNCHANGED <<live, nxt, id, user, esp, task_head, current_task, next_pid,
                 hw, pc>>

(* The SYS_EXIT case: task_exit marks the caller, then schedule() is called *)
(* at once.  Task 0 is kernel_main, which makes no system call.             *)
Exit ==
  /\ pc = "run"
  /\ id[current_task] # 0
  /\ status' = [status EXCEPT ![current_task] = DEAD]
  /\ pc' = "enter"
  /\ UNCHANGED <<live, nxt, id, user, esp, task_head, current_task, next_pid, hw>>

(* IRQ 0: irq_handler calls schedule() with the interrupted stack. *)
Timer ==
  /\ pc = "run"
  /\ pc' = "enter"
  /\ UNCHANGED <<pcb, task_head, current_task, next_pid, hw>>

(* schedule(), up to its skip loop: save the stack pointer, then either    *)
(* unlink and free a dead current task or step past a live one.            *)
Enter ==
  /\ pc = "enter"
  /\ esp' = [esp EXCEPT ![current_task] = cpu]
  /\ IF Reaped(current_task)
       THEN /\ nxt' = Unlinked(current_task)
            /\ live' = live \ {current_task}
       ELSE UNCHANGED <<nxt, live>>
  /\ current_task' = Successor(current_task)
  /\ pc' = "skip"
  /\ UNCHANGED <<id, status, user, task_head, next_pid, hw>>

(* One round of the loop that passes over tasks that cannot run. *)
Skip ==
  /\ pc = "skip"
  /\ ~CanRun(current_task)
  /\ current_task' = nxt[current_task]
  /\ UNCHANGED <<pcb, task_head, next_pid, hw, pc>>

(* The end of schedule() and the stub's return: load the directory and     *)
(* point the TSS at the kernel stack if the task has them, switch stacks.  *)
Switch ==
  /\ pc = "skip"
  /\ CanRun(current_task)
  /\ cr3' = LoadedDirectory(current_task)
  /\ esp0' = KernelStack(current_task)
  /\ cpu' = esp[current_task]
  /\ pc' = "run"
  /\ UNCHANGED <<pcb, task_head, current_task, next_pid>>

Next ==
  \/ \E u \in BOOLEAN : Create(u)
  \/ \E p \in Pid : Kill(p)
  \/ Exit
  \/ Timer
  \/ Enter
  \/ Skip
  \/ Switch

Spec == Init /\ [][Next]_vars

(* The PIT raises IRQ 0 for ever, and a call of schedule() once entered    *)
(* is not preempted.  Creation, kill and exit are up to the programs.      *)
FairSpec == Spec /\ WF_vars(Timer) /\ WF_vars(Enter) /\ WF_vars(Skip \/ Switch)
-----------------------------------------------------------------------------
(***************************************************************************)
(* Properties.                                                             *)
(***************************************************************************)

(* The PCBs in use form exactly one circle: the pointers stay among them,  *)
(* no two elements have the same successor, and no smaller part of the     *)
(* list is closed.  Every search loop of task.c ("while (temp->next !=     *)
(* task_head)", "while (prev->next != current_task)") ends because of it.  *)
IsRing(L, f) ==
  /\ \A a \in L : f[a] \in L
  /\ \A a, b \in L : f[a] = f[b] => a = b
  /\ \A S \in SUBSET L : S # {} /\ (\A a \in S : f[a] \in S) => S = L

OneRing == IsRing(live, nxt)

(* The two global pointers of task.c never point to a PCB schedule() has   *)
(* freed, whatever kills and exits came before.                            *)
NoDanglingPointer == task_head \in live /\ current_task \in live

(* The head of the ring is task 0 and it is not dead, so the loop that     *)
(* passes over dead tasks always has a task to stop at ("PID 0 (Kernel)    *)
(* asla olmez" in schedule()).                                             *)
KernelSchedulable == id[task_head] = 0 /\ status[task_head] # DEAD

(* task_kill finds its victim by number: no two PCBs carry the same one,   *)
(* although addresses are reused.                                          *)
PidsUnique == \A a, b \in live : id[a] = id[b] => a = b

(* The list is fit for every loop over it: one circle of allocated PCBs     *)
(* with a live kernel task at its head and one PCB for a pid.  No part of  *)
(* this is kept up without the others.                                      *)
ListSound == OneRing /\ NoDanglingPointer /\ KernelSchedulable /\ PidsUnique

(* Outside schedule() the processor runs on the current task's own stack   *)
(* and a user process in its own address space, with the TSS on its own    *)
(* kernel stack; every other task's saved stack pointer is into its stack. *)
ContextMatches ==
  /\ pc = "run" =>
       /\ cpu = id[current_task]
       /\ user[current_task] => cr3 = id[current_task] /\ esp0 = id[current_task]
  /\ \A a \in live : (pc = "skip" \/ a # current_task) => esp[a] = id[a]

(* A task that has died and is off the processor never gets it back, even  *)
(* if its PCB's memory is given to a new task.                             *)
Finished(p) ==
  /\ p < next_pid
  /\ cpu # p
  /\ \A a \in live : id[a] = p => status[a] = DEAD

FinishedForGood == [][\A p \in Pid : Finished(p) => Finished(p)']_vars

(* Round robin: a task that can run gets the processor, unless it is       *)
(* killed first, however many others are created, killed or exit.  Since    *)
(* the kernel task always can run, every call of schedule() returns.       *)
Runnable(p) == \E a \in live : id[a] = p /\ status[a] # DEAD

RoundRobin == \A p \in Pid : Runnable(p) ~> (cpu = p /\ pc = "run") \/ ~Runnable(p)

(* A task that dies while it is the current one (it exits, or kills        *)
(* itself) is taken off the list and its PCB freed by the next call of     *)
(* schedule(): the comment in task_exit.                                   *)
DeadWhileCurrent(p) == id[current_task] = p /\ status[current_task] = DEAD /\ pc # "skip"

ExitReaped == \A p \in Pid : DeadWhileCurrent(p) ~> \A a \in live : id[a] # p
=============================================================================
