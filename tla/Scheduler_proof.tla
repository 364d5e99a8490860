--------------------------- MODULE Scheduler_proof ---------------------------
(***************************************************************************)
(* Proofs about Scheduler, for any set of addresses and any MaxPid: the    *)
(* ring stays one circle through allocated PCBs, schedule() never follows  *)
(* a pointer to a freed one, and the context on the processor is always    *)
(* the current task's.                                                     *)
(***************************************************************************)
EXTENDS Scheduler, TLAPS

(* Ids of linked PCBs are below next_pid, so that a new one is fresh. *)
IdsAllocated == \A a \in live : id[a] < next_pid

(* Only later tasks own a directory, so its number 0 stands for none. *)
KernelOwnsNone == \A a \in live : user[a] => id[a] # 0

(* The stack that schedule() is about to save is the current task's. *)
EnteredOnOwnStack == pc = "enter" => cpu = id[current_task]

IInv ==
  /\ TypeOK
  /\ OneRing
  /\ NoDanglingPointer
  /\ KernelSchedulable
  /\ IdsAllocated
  /\ PidsUnique
  /\ ContextMatches
  /\ KernelOwnsNone
  /\ EnteredOnOwnStack

-----------------------------------------------------------------------------
(* Lemmas about rings: any set L and successor function f.                 *)

(* The search of a ring for the element before a given one finds it. *)
LEMMA RingPred ==
  ASSUME NEW L, NEW f, IsRing(L, f), NEW a \in L
  PROVE  \E b \in L : f[b] = a
<1>1. SUFFICES ASSUME \A b \in L : f[b] # a
               PROVE  FALSE
  OBVIOUS
<1>2. f[a] \in L /\ f[a] # a
  BY <1>1 DEF IsRing
<1> DEFINE rest == L \ {a}
<1>3. rest # {} /\ rest \in SUBSET L
  BY <1>2
<1>4. \A b \in rest : f[b] \in rest
  BY <1>1 DEF IsRing
<1>5. rest = L
  <2> HIDE DEF rest
  <2> QED BY <1>3, <1>4 DEF IsRing
<1> QED BY <1>5

(* Only a ring of one element closes on itself. *)
LEMMA RingSelfLoop ==
  ASSUME NEW L, NEW f, IsRing(L, f), NEW a \in L, f[a] = a
  PROVE  L = {a}
<1>1. {a} \in SUBSET L /\ {a} # {} /\ \A b \in {a} : f[b] \in {a}
  OBVIOUS
<1> QED BY <1>1 DEF IsRing

(* Linking a new element between p and its successor h keeps one ring. *)
LEMMA RingInsert ==
  ASSUME NEW A, NEW L \in SUBSET A, NEW f \in [A -> A], IsRing(L, f),
         NEW h \in L, NEW p \in L, f[p] = h, NEW a \in A \ L
  PROVE  IsRing(L \union {a}, [f EXCEPT ![p] = a, ![a] = h])
<1> DEFINE M == L \union {a}
           g == [f EXCEPT ![p] = a, ![a] = h]
<1>1. g[p] = a /\ g[a] = h /\ \A b \in L \ {p} : g[b] = f[b]
  OBVIOUS
<1>2. \A b \in M : g[b] \in M
  BY <1>1 DEF IsRing
<1>3. \A b, c \in M : g[b] = g[c] => b = c
  BY <1>1 DEF IsRing
<1>4. ASSUME NEW S \in SUBSET M, S # {}, \A b \in S : g[b] \in S
      PROVE  S = M
  <2> DEFINE S0 == S \ {a}
  <2>1. S0 \in SUBSET L /\ S0 # {}
    BY <1>1, <1>4
  <2>2. \A b \in S0 : f[b] \in S0
    <3>1. TAKE b \in S0
    <3>2. CASE b = p
      BY <1>1, <1>4, <3>2
    <3>3. CASE b # p
      BY <1>1, <1>4, <3>3 DEF IsRing
    <3> QED BY <3>2, <3>3
  <2>3. S0 = L
    <3> HIDE DEF S0
    <3> QED BY <2>1, <2>2 DEF IsRing
  <2>4. p \in S
    BY <2>3
  <2> QED BY <1>1, <1>4, <2>3, <2>4
<1> HIDE DEF M, g
<1>5. IsRing(M, g)
  BY <1>2, <1>3, <1>4 DEF IsRing
<1> QED BY <1>5 DEF M, g

(* Linking p, the element before c, to the one after c keeps one ring. *)
LEMMA RingRemove ==
  ASSUME NEW A, NEW L \in SUBSET A, NEW f \in [A -> A], IsRing(L, f),
         NEW c \in L, NEW p \in L, f[p] = c, f[c] # c
  PROVE  IsRing(L \ {c}, [f EXCEPT ![p] = f[c]])
<1> DEFINE M == L \ {c}
           g == [f EXCEPT ![p] = f[c]]
<1>1. p # c /\ g[p] = f[c] /\ f[c] \in L /\ \A b \in L \ {p} : g[b] = f[b]
  BY DEF IsRing
<1>2. \A b \in M : g[b] \in M
  BY <1>1 DEF IsRing
<1>3. \A b, d \in M : g[b] = g[d] => b = d
  BY <1>1 DEF IsRing
<1>4. ASSUME NEW S \in SUBSET M, S # {}, \A b \in S : g[b] \in S
      PROVE  S = M
  <2> DEFINE S1 == S \union (IF p \in S THEN {c} ELSE {})
  <2>1. S1 \in SUBSET L /\ S1 # {}
    BY <1>4
  <2>2. \A b \in S1 : f[b] \in S1
    BY <1>1, <1>4
  <2>3. S1 = L
    <3> HIDE DEF S1
    <3> QED BY <2>1, <2>2 DEF IsRing
  <2> QED BY <2>3, <1>4
<1> HIDE DEF M, g
<1>5. IsRing(M, g)
  BY <1>2, <1>3, <1>4 DEF IsRing
<1> QED BY <1>5 DEF M, g

-----------------------------------------------------------------------------
(* The loops of create_task and schedule() stop at the element sought. *)
LEMMA PredFound ==
  ASSUME OneRing, NEW a \in live
  PROVE  Pred(a) \in live /\ nxt[Pred(a)] = a
<1>1. \E b \in live : nxt[b] = a
  BY RingPred DEF OneRing
<1> QED BY <1>1 DEF Pred

LEMMA InitIInv == Init => IInv
<1> SUFFICES ASSUME Init PROVE IInv
  OBVIOUS
<1> USE DEF Init
<1>1. TypeOK
  BY MaxPidAssumption DEF TypeOK, Pid, READY, RUNNING, DEAD
<1>2. OneRing
  BY DEF OneRing, IsRing
<1>3. KernelSchedulable
  BY DEF KernelSchedulable, RUNNING, DEAD
<1>4. NoDanglingPointer /\ IdsAllocated /\ PidsUnique /\ EnteredOnOwnStack
  BY DEF NoDanglingPointer, IdsAllocated, PidsUnique, EnteredOnOwnStack
<1>5. ContextMatches /\ KernelOwnsNone
  BY DEF ContextMatches, KernelOwnsNone
<1> QED BY <1>1, <1>2, <1>3, <1>4, <1>5 DEF IInv

LEMMA CreateIInv ==
  ASSUME IInv, NEW u \in BOOLEAN, Create(u)
  PROVE  IInv'
<1> USE DEF IInv
<1>1. PICK a \in Addr \ live :
        /\ live' = live \union {a}
        /\ nxt' = [nxt EXCEPT ![Pred(task_head)] = a, ![a] = task_head]
        /\ id' = [id EXCEPT ![a] = next_pid]
        /\ status' = [status EXCEPT ![a] = READY]
        /\ user' = [user EXCEPT ![a] = u]
        /\ esp' = [esp EXCEPT ![a] = next_pid]
  BY DEF Create
<1>2. /\ pc = "run" /\ next_pid <= MaxPid /\ next_pid' = next_pid + 1
      /\ UNCHANGED <<task_head, current_task, cr3, esp0, cpu, pc>>
  BY DEF Create, NextId, hw
<1>3. Pred(task_head) \in live /\ nxt[Pred(task_head)] = task_head
  BY PredFound DEF NoDanglingPointer
<1>4. next_pid \in Pid /\ next_pid' \in 1 .. MaxPid + 1 /\ next_pid > 0
  BY <1>2, MaxPidAssumption DEF TypeOK, Pid
<1>5. TypeOK'
  BY <1>1, <1>2, <1>3, <1>4 DEF TypeOK, NoDanglingPointer
<1>6. OneRing'
  BY <1>1, <1>3, RingInsert DEF OneRing, TypeOK, NoDanglingPointer
<1>7. NoDanglingPointer'
  BY <1>1, <1>2 DEF NoDanglingPointer
<1>8. KernelSchedulable'
  BY <1>1, <1>2 DEF KernelSchedulable, NoDanglingPointer
<1>9. IdsAllocated'
  BY <1>1, <1>2, <1>4 DEF IdsAllocated, TypeOK, Pid
<1>10. PidsUnique'
  BY <1>1, <1>4 DEF PidsUnique, IdsAllocated, TypeOK, Pid
<1>11. ContextMatches'
  BY <1>1, <1>2 DEF ContextMatches, NoDanglingPointer, TypeOK
<1>12. EnteredOnOwnStack'
  BY <1>2 DEF EnteredOnOwnStack
<1>13. KernelOwnsNone'
  BY <1>1, <1>4 DEF KernelOwnsNone, TypeOK
<1> QED BY <1>5, <1>6, <1>7, <1>8, <1>9, <1>10, <1>11, <1>12, <1>13

LEMMA MarkDeadIInv ==
  ASSUME IInv, NEW a \in live, id[a] # 0,
         status' = [status EXCEPT ![a] = DEAD],
         UNCHANGED <<live, nxt, id, user, esp, task_head, current_task,
                     next_pid, cr3, esp0, cpu>>,
         \/ pc' = pc
         \/ pc = "run" /\ pc' = "enter"
  PROVE  IInv'
<1> USE DEF IInv
<1>1. TypeOK'
  BY DEF TypeOK
<1>2. OneRing'
  BY DEF OneRing
<1>3. NoDanglingPointer' /\ IdsAllocated' /\ PidsUnique' /\ KernelOwnsNone'
  BY DEF NoDanglingPointer, IdsAllocated, PidsUnique, KernelOwnsNone
<1>4. KernelSchedulable'
  BY DEF KernelSchedulable
<1>5. ContextMatches'
  BY DEF ContextMatches
<1>6. EnteredOnOwnStack'
  BY DEF EnteredOnOwnStack, ContextMatches
<1> QED BY <1>1, <1>2, <1>3, <1>4, <1>5, <1>6

LEMMA EnterIInv ==
  ASSUME IInv, Enter
  PROVE  IInv'
<1> USE DEF IInv
<1>1. /\ pc = "enter" /\ pc' = "skip"
      /\ esp' = [esp EXCEPT ![current_task] = cpu]
      /\ current_task' = nxt[current_task]
      /\ UNCHANGED <<id, status, user, task_head, next_pid, cr3, esp0, cpu>>
  BY DEF Enter, Successor, hw
<1>2. current_task \in live /\ nxt[current_task] \in live /\ cpu = id[current_task]
  BY <1>1 DEF NoDanglingPointer, OneRing, IsRing, EnteredOnOwnStack
<1>3. CASE Reaped(current_task)
  <2>1. /\ nxt' = [nxt EXCEPT ![Pred(current_task)] = nxt[current_task]]
        /\ live' = live \ {current_task}
    BY <1>3 DEF Enter, Unlinked
  <2>2. Pred(current_task) \in live /\ nxt[Pred(current_task)] = current_task
    BY <1>2, PredFound
  <2>3. task_head # current_task
    BY <1>3 DEF Reaped, KernelSchedulable
  <2>4. nxt[current_task] # current_task
    BY <1>2, <2>3, RingSelfLoop DEF OneRing, NoDanglingPointer
  <2>5. TypeOK'
    BY <1>1, <1>2, <2>1, <2>2 DEF TypeOK
  <2>6. OneRing'
    BY <1>2, <2>1, <2>2, <2>4, RingRemove DEF OneRing, TypeOK
  <2>7. NoDanglingPointer'
    BY <1>1, <1>2, <2>1, <2>3, <2>4 DEF NoDanglingPointer
  <2>8. KernelSchedulable' /\ IdsAllocated' /\ PidsUnique'
    BY <1>1, <2>1 DEF KernelSchedulable, IdsAllocated, PidsUnique
  <2>9. ContextMatches'
    BY <1>1, <1>2, <2>1 DEF ContextMatches, TypeOK
  <2>10. EnteredOnOwnStack' /\ KernelOwnsNone'
    BY <1>1, <2>1 DEF EnteredOnOwnStack, KernelOwnsNone
  <2> QED BY <2>5, <2>6, <2>7, <2>8, <2>9, <2>10
<1>4. CASE ~Reaped(current_task)
  <2>1. UNCHANGED <<nxt, live>>
    BY <1>4 DEF Enter
  <2>2. TypeOK'
    BY <1>1, <1>2, <2>1 DEF TypeOK
  <2>3. OneRing' /\ NoDanglingPointer'
    BY <1>1, <1>2, <2>1 DEF OneRing, NoDanglingPointer
  <2>4. KernelSchedulable' /\ IdsAllocated' /\ PidsUnique'
    BY <1>1, <2>1 DEF KernelSchedulable, IdsAllocated, PidsUnique
  <2>5. ContextMatches'
    BY <1>1, <1>2, <2>1 DEF ContextMatches, TypeOK
  <2>6. EnteredOnOwnStack' /\ KernelOwnsNone'
    BY <1>1, <2>1 DEF EnteredOnOwnStack, KernelOwnsNone
  <2> QED BY <2>2, <2>3, <2>4, <2>5, <2>6
<1> QED BY <1>3, <1>4

LEMMA SkipIInv ==
  ASSUME IInv, Skip
  PROVE  IInv'
<1> USE DEF IInv
<1>1. /\ pc = "skip" /\ current_task' = nxt[current_task]
      /\ UNCHANGED <<live, nxt, id, status, user, esp, task_head, next_pid,
                     cr3, esp0, cpu, pc>>
  BY DEF Skip, pcb, hw
<1>2. nxt[current_task] \in live
  BY DEF NoDanglingPointer, OneRing, IsRing
<1>3. TypeOK'
  BY <1>1, <1>2 DEF TypeOK
<1>4. OneRing' /\ NoDanglingPointer' /\ KernelSchedulable'
  BY <1>1, <1>2 DEF OneRing, NoDanglingPointer, KernelSchedulable
<1>5. IdsAllocated' /\ PidsUnique' /\ KernelOwnsNone' /\ EnteredOnOwnStack'
  BY <1>1 DEF IdsAllocated, PidsUnique, KernelOwnsNone, EnteredOnOwnStack
<1>6. ContextMatches'
  BY <1>1, <1>2 DEF ContextMatches
<1> QED BY <1>3, <1>4, <1>5, <1>6

LEMMA SwitchIInv ==
  ASSUME IInv, Switch
  PROVE  IInv'
<1> USE DEF IInv
<1>1. /\ pc = "skip" /\ pc' = "run"
      /\ cr3' = IF user[current_task] /\ id[current_task] # 0
                  THEN id[current_task] ELSE cr3
      /\ esp0' = IF user[current_task] THEN id[current_task] ELSE esp0
      /\ cpu' = esp[current_task]
      /\ UNCHANGED <<live, nxt, id, status, user, esp, task_head, current_task,
                     next_pid>>
  BY DEF Switch, KernelStack, LoadedDirectory, Directory, pcb
<1>2. current_task \in live /\ cpu' = id[current_task]
  BY <1>1 DEF NoDanglingPointer, ContextMatches
<1>3. TypeOK'
  BY <1>1, <1>2, MaxPidAssumption DEF TypeOK, Pid
<1>4. OneRing' /\ NoDanglingPointer' /\ KernelSchedulable'
  BY <1>1 DEF OneRing, NoDanglingPointer, KernelSchedulable
<1>5. IdsAllocated' /\ PidsUnique' /\ KernelOwnsNone' /\ EnteredOnOwnStack'
  BY <1>1 DEF IdsAllocated, PidsUnique, KernelOwnsNone, EnteredOnOwnStack
<1>6. ContextMatches'
  BY <1>1, <1>2 DEF ContextMatches, KernelOwnsNone
<1> QED BY <1>3, <1>4, <1>5, <1>6

LEMMA NextIInv == IInv /\ [Next]_vars => IInv'
<1> SUFFICES ASSUME IInv, [Next]_vars PROVE IInv'
  OBVIOUS
<1>1. ASSUME NEW u \in BOOLEAN, Create(u) PROVE IInv'
  BY <1>1, CreateIInv
<1>2. ASSUME NEW p \in Pid, Kill(p) PROVE IInv'
  BY <1>2, MarkDeadIInv DEF Kill, Killable, hw
<1>3. CASE Exit
  BY <1>3, MarkDeadIInv DEF Exit, hw, IInv, NoDanglingPointer
<1>4. CASE Timer
  BY <1>4 DEF Timer, IInv, pcb, hw, TypeOK, OneRing, NoDanglingPointer,
     KernelSchedulable, IdsAllocated, PidsUnique, ContextMatches, KernelOwnsNone,
     EnteredOnOwnStack
<1>5. CASE Enter
  BY <1>5, EnterIInv
<1>6. CASE Skip
  BY <1>6, SkipIInv
<1>7. CASE Switch
  BY <1>7, SwitchIInv
<1>8. CASE UNCHANGED vars
  BY <1>8 DEF vars, IInv, TypeOK, OneRing, NoDanglingPointer,
     KernelSchedulable, IdsAllocated, PidsUnique, ContextMatches, KernelOwnsNone,
     EnteredOnOwnStack
<1> QED BY <1>1, <1>2, <1>3, <1>4, <1>5, <1>6, <1>7, <1>8 DEF Next

LEMMA SpecIInv == Spec => []IInv
BY InitIInv, NextIInv, PTL DEF Spec

-----------------------------------------------------------------------------
(* Every variable keeps its type, whatever is created, killed or reaped. *)
THEOREM TypeCorrect == Spec => []TypeOK
BY SpecIInv, PTL DEF IInv

(* The PCBs in use form one circle at every moment: the unbounded searches *)
(* of create_*, task_kill and schedule() cannot leave it or go on for ever. *)
THEOREM RingCorrect == Spec => []OneRing
BY SpecIInv, PTL DEF IInv

(* task_head and current_task never point to a PCB that kfree was given. *)
THEOREM NoUseAfterFree == Spec => []NoDanglingPointer
BY SpecIInv, PTL DEF IInv

(* schedule() always has the kernel's own task to fall back on. *)
THEOREM KernelAlwaysSchedulable == Spec => []KernelSchedulable
BY SpecIInv, PTL DEF IInv

(* A number names at most one task, although PCB addresses are reused. *)
THEOREM PidsNeverShared == Spec => []PidsUnique
BY SpecIInv, PTL DEF IInv

(* The four together: between any two handlers the task list is whole, free *)
(* of dangling pointers, able to schedule the kernel and its pids distinct. *)
THEOREM ListCorrect == Spec => []ListSound
<1>1. IInv => ListSound
  BY DEF IInv, ListSound
<1> QED BY <1>1, SpecIInv, PTL

(* The stack, directory and TSS stack in use are the current task's. *)
THEOREM ContextCorrect == Spec => []ContextMatches
BY SpecIInv, PTL DEF IInv

(* Once a dead task is off the processor no step gives it back: the new    *)
(* owner of a reused PCB address has a later number, and Switch stops only *)
(* at a task that is not dead and restores that task's own stack.          *)
LEMMA FinishedStep ==
  ASSUME IInv, [Next]_vars, NEW p \in Pid, Finished(p)
  PROVE  Finished(p)'
<1> USE DEF Finished
<1>1. ASSUME NEW u \in BOOLEAN, Create(u) PROVE Finished(p)'
  BY <1>1 DEF Create, NextId, hw, IInv, TypeOK, Pid
<1>2. ASSUME NEW q \in Pid, Kill(q) PROVE Finished(p)'
  BY <1>2 DEF Kill, hw, IInv, TypeOK
<1>3. CASE Exit
  BY <1>3 DEF Exit, hw, IInv, TypeOK
<1>4. CASE Timer
  BY <1>4 DEF Timer, pcb, hw
<1>5. CASE Enter
  BY <1>5 DEF Enter, hw
<1>6. CASE Skip
  BY <1>6 DEF Skip, pcb, hw
<1>7. CASE Switch
  <2>1. current_task \in live /\ status[current_task] # DEAD
    BY <1>7 DEF Switch, CanRun, IInv, NoDanglingPointer
  <2>2. cpu' = id[current_task]
    BY <1>7, <2>1 DEF Switch, IInv, ContextMatches
  <2> QED BY <1>7, <2>1, <2>2 DEF Switch, pcb
<1>8. CASE UNCHANGED vars
  BY <1>8 DEF vars
<1> QED BY <1>1, <1>2, <1>3, <1>4, <1>5, <1>6, <1>7, <1>8 DEF Next

(* A finished task never runs again. *)
THEOREM DeadStaysDead == Spec => FinishedForGood
<1>1. IInv /\ [Next]_vars => [\A p \in Pid : Finished(p) => Finished(p)']_vars
  BY FinishedStep
<1> QED BY <1>1, SpecIInv, PTL DEF Spec, FinishedForGood
=============================================================================
