--------------------------- MODULE InterruptFrame ---------------------------
(***************************************************************************)
(* What is on the stacks when a task is switched: the stubs of cpu/        *)
(* interrupt.asm, irq_handler of core/kernel.c, schedule() and the stacks  *)
(* that create_task and create_user_process lay out.                       *)
(*                                                                         *)
(* A word is a pair of what it is (the register it was pushed from) and    *)
(* whose it is; below a task's stack memory holds words nobody put there.  *)
(***************************************************************************)
EXTENDS Naturals, Sequences, SequencesExt

CONSTANTS MaxTasks   \* bound: tasks created

General == <<"edi", "esi", "ebp", "esp", "ebx", "edx", "ecx", "eax">>
Words(names, t) == [i \in 1 .. Len(names) |-> <<names[i], t>>]
Stray(n) == [i \in 1 .. n |-> <<"stray", 0>>]

(* registers_t as the stub pushes it, top of the stack first; iret pops    *)
(* two more words when it returns to ring 3.                               *)
IretKernel == <<"eip", "cs", "eflags">>
IretUser == IretKernel \o <<"useresp", "ss">>
Pushed(t, iret) == Words(<<"ds">> \o General \o <<"int_no", "err_code">> \o iret, t)

(* struct task_stack of task.c: what a new task finds on its stack. *)
Laid(t, iret) == Words(General \o iret, t)

VARIABLES
  kind,     \* of each task: "kernel" or "user"; task 1 is the kernel's own
  stack,    \* the words from each waiting task's esp on
  current,  \* current_task
  cpu       \* the words in the processor's registers, by register

vars == <<kind, stack, current, cpu>>

Running(t) == [r \in {"ds", "eip", "cs", "eflags"} \union ToSet(General) |-> <<r, t>>]
Iret(t) == IF kind[t] = "user" THEN IretUser ELSE IretKernel

Init ==
  /\ kind = <<"kernel">>
  /\ stack = << << >> >>
  /\ current = 1
  /\ cpu = Running(1)

(* create_task, create_user_process: only the running kernel creates here. *)
Create(k) ==
  /\ current = 1 /\ Len(kind) < MaxTasks
  /\ kind' = Append(kind, k)
  /\ stack' = Append(stack, Laid(Len(kind) + 1, IF k = "user" THEN IretUser ELSE IretKernel))
  /\ UNCHANGED <<current, cpu>>

(* The end of the stub with esp at words w: pop ds, popa, add esp 8, iret. *)
Restore(w) ==
  LET s == w \o Stray(16) IN
    [r \in DOMAIN cpu |->
       CASE r = "ds" -> s[1]
         [] r = "eip" -> s[12]
         [] r = "cs" -> s[13]
         [] r = "eflags" -> s[14]
         [] OTHER -> s[1 + CHOOSE i \in 1 .. 8 : General[i] = r]]

(* IRQ 0: push, schedule() to the next task of the ring, pop. *)
NextTask == IF current = Len(kind) THEN 1 ELSE current + 1

Timer ==
  /\ current' = NextTask
  /\ stack' = [stack EXCEPT ![current] = Pushed(current, Iret(current))]
  /\ cpu' = Restore(stack'[NextTask])
  /\ UNCHANGED kind

Next ==
  /\ cpu = Running(current)     \* what stray registers execute is not modelled
  /\ \/ \E k \in {"kernel", "user"} : Create(k)
     \/ Timer

Spec == Init /\ [][Next]_vars
-----------------------------------------------------------------------------
(* "Task EIP must match entry point" (tests/task_test.c): a task that the  *)
(* timer switches to runs with its own instruction pointer, segment and    *)
(* flags, also the first time.                                             *)
StartsAtEntry ==
  [][Timer => \A r \in {"eip", "cs", "eflags"} : cpu'[r] = <<r, current'>>]_vars
=============================================================================
