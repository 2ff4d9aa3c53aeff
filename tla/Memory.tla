------------------------------- MODULE Memory --------------------------------
(***************************************************************************)
(* Physical frames (src/kernel/memory.c), address spaces with copy on      *)
(* write (src/kernel/vmm.c), and the operations that build, share, change  *)
(* and drop them: spawn and exec (src/kernel/elf.c), fork, exit and signal *)
(* delivery (src/kernel/scheduler.c) and sys_brk (src/kernel/kernel.c).    *)
(*                                                                         *)
(* A page table of the model stands for the PDPT, PD and PT on the way to  *)
(* the pages of one region.  System calls and faults run with interrupts   *)
(* off, so each is one step.  Frames run out at any point of them.         *)
(***************************************************************************)
EXTENDS SequencesExt, FiniteSetsExt, Integers

CONSTANTS
  Tasks,            \* task slots; 1 is the first process
  Frames,           \* frame numbers above the reserved ones
  Totals,           \* the values of pmm_total_block_count to consider
  HeapPages,        \* pages of the user heap, in order
  Region,           \* the page table that each page needs
  TASK_MAX_USER_PAGES,
  MaxCalls          \* bound on the system calls, stores and signals

VARIABLES
  total,            \* pmm_total_block_count
  mem,              \* the frames
  task,             \* the task slots
  current,          \* current_task
  panic,            \* the kernel has stopped
  calls             \* system calls, stores and signals left

vars == <<total, mem, task, current, panic, calls>>

NONE == 0                          \* no frame
Image == <<"code", "stack">>       \* what elf.c loads, in order
SignalPage == "below"              \* where a handler's frame goes when the stack is full
AddressOrder == <<"code">> \o HeapPages \o <<SignalPage, "stack">>
Pages == ToSet(AddressOrder)
Words == 1 .. 2                    \* the words of a page that are told apart
ZERO == 0                          \* a cleared word; a store leaves the task's number
CODE == -1                         \* a word of the program
Page(value) == [w \in Words |-> value]
Regions == Range(Region)

NoEntry == [frame |-> NONE, w |-> FALSE, cow |-> FALSE]
NoSpace == [pml4 |-> NONE, table |-> [r \in Regions |-> NONE], pte |-> [p \in Pages |-> NoEntry]]

\* A slot: the address space, the inventory user_physical_pages and the
\* number of heap pages below heap_end.
NoTask == [state |-> "UNUSED", space |-> NoSpace, pages |-> <<>>, heap |-> 0]

-----------------------------------------------------------------------------
(* memory.c *)

\* Operations on the frames return them as m, with a frame or a verdict.
pmm_alloc(m) ==
  LET free == (1 .. total) \ m.used
      f == Min(free)
  IN IF free = {} THEN [m |-> m, frame |-> NONE]
     ELSE [m |-> [m EXCEPT !.used = @ \cup {f}, !.refs[f] = 1], frame |-> f]

pmm_free(m, f) ==
  IF m.refs[f] = 0 THEN m
  ELSE [m EXCEPT !.refs[f] = @ - 1, !.used = IF m.refs[f] = 1 THEN @ \ {f} ELSE @]

FreeFrames(m, fs) == FoldLeft(pmm_free, m, fs)

pmm_ref_inc(m, f) == [m EXCEPT !.refs[f] = @ + 1]

-----------------------------------------------------------------------------
(* vmm.c *)

\* map_in_pml4: nothing happens when the table is missing and no frame is left.
map_in_pml4(m, space, page, entry) ==
  LET r == Region[page]
      a == pmm_alloc(m)
      mapped == [space EXCEPT !.pte[page] = entry]
  IN IF space.table[r] # NONE THEN [m |-> m, space |-> mapped]
     ELSE IF a.frame = NONE THEN [m |-> m, space |-> space]
     ELSE [m |-> a.m, space |-> [mapped EXCEPT !.table[r] = a.frame]]

vmm_is_mapped(space, page) == space.pte[page].frame # NONE

\* The tables and the top one are freed; the frames they map are not.
vmm_destroy_address_space(m, space) ==
  FreeFrames(m, SetToSeq((Range(space.table) \cup {space.pml4}) \ {NONE}))

\* Mutant of MappedPages: read-only pages are left out.
WritablePages(space) == SelectSeq(AddressOrder, LAMBDA p : space.pte[p].w \/ space.pte[p].cow)

MappedPages(space) == SelectSeq(AddressOrder, LAMBDA p : vmm_is_mapped(space, p))

\* A writable page becomes read only and copy on write.
Shared(entry) == IF entry.w THEN [entry EXCEPT !.w = FALSE, !.cow = TRUE] ELSE entry

\* Mutant of ClonePage: the reference is not counted.
ClonePageUncounted(acc, page) ==
  LET entry == Shared(acc.parent.pte[page])
      c == map_in_pml4(acc.m, acc.child, page, entry)
  IN [m |-> c.m, parent |-> [acc.parent EXCEPT !.pte[page] = entry], child |-> c.space]

\* One page of vmm_clone_address_space.  The count goes up even if the
\* child's table could not be made.
ClonePage(acc, page) ==
  LET entry == Shared(acc.parent.pte[page])
      c == map_in_pml4(acc.m, acc.child, page, entry)
  IN [m |-> pmm_ref_inc(c.m, entry.frame),
      parent |-> [acc.parent EXCEPT !.pte[page] = entry], child |-> c.space]

vmm_clone_address_space(m, parent) ==
  LET a == pmm_alloc(m) IN
  FoldLeft(ClonePage,
          [m |-> a.m, parent |-> parent, child |-> [NoSpace EXCEPT !.pml4 = a.frame]],
          MappedPages(parent))

\* replace_current_task_frame: the first entry of the inventory that matches.
ReplaceFrame(pages, old, new) ==
  LET at == {i \in 1 .. Len(pages) : pages[i] = old} IN
  IF at = {} THEN pages ELSE [pages EXCEPT ![Min(at)] = new]

\* The state that the operations of tasks work on.
State == [m |-> mem, task |-> task]

\* Mutant of vmm_page_fault_handler: a shared frame is not copied.
vmm_page_fault_in_place(s, t, page) ==
  [s EXCEPT !.task[t].space.pte[page] = [@ EXCEPT !.w = TRUE, !.cow = FALSE]]

\* A write fault on a copy-on-write page of task t; current is another task
\* when the scheduler delivers a signal.  Nothing changes without a frame.
vmm_page_fault_handler(s, t, page) ==
  LET old == s.task[t].space.pte[page].frame
      a == pmm_alloc(s.m)
      copied == [a.m EXCEPT !.bytes[a.frame] = a.m.bytes[old]]
      own(f) == [frame |-> f, w |-> TRUE, cow |-> FALSE]
      split == [s.task EXCEPT ![t].space.pte[page] = own(a.frame),
                              ![current].pages = ReplaceFrame(@, old, a.frame)]
  IN IF s.m.refs[old] <= 1 THEN [s EXCEPT !.task[t].space.pte[page] = own(old)]
     ELSE IF a.frame = NONE THEN s
     ELSE [m |-> pmm_free(copied, old), task |-> split]

\* A store to word w by the processor: the state after the fault, if there is one, and
\* whether the store went through.
Store(s, t, page, w, value) ==
  LET e == s.task[t].space.pte[page]
      r == IF e.cow /\ ~e.w THEN vmm_page_fault_handler(s, t, page) ELSE s
      f == r.task[t].space.pte[page]
  IN IF f.w THEN [s |-> [r EXCEPT !.m.bytes[f.frame][w] = value], ok |-> TRUE]
     ELSE [s |-> s, ok |-> FALSE]

\* vmm_validate_user_ptr with write_intent.
vmm_validate_user_ptr(space, page) == space.pte[page].w \/ space.pte[page].cow

-----------------------------------------------------------------------------
(* elf.c *)

\* One page of map_segment, map_user_stack or map_exec_stack.
LoadPage(acc, page) ==
  LET a == pmm_alloc(acc.m)
      filled == [a.m EXCEPT !.bytes[a.frame] = Page(IF page = "code" THEN CODE ELSE ZERO)]
      c == map_in_pml4(filled, acc.space, page,
                       [frame |-> a.frame, w |-> page # "code", cow |-> FALSE])
      failed(m) == [acc EXCEPT !.m = m, !.ok = FALSE]
  IN IF ~acc.ok THEN acc
     ELSE IF a.frame = NONE THEN failed(acc.m)
     ELSE IF Len(acc.pages) >= TASK_MAX_USER_PAGES THEN failed(pmm_free(a.m, a.frame))
     ELSE IF ~vmm_is_mapped(c.space, page) THEN failed(pmm_free(filled, a.frame))
     ELSE [m |-> c.m, space |-> c.space, pages |-> Append(acc.pages, a.frame), ok |-> TRUE]

\* A new address space with the image in it; on fail_image the tables are
\* freed, the pages already loaded are not.
LoadImage(m) ==
  LET a == pmm_alloc(m)
      r == FoldLeft(LoadPage, [m |-> a.m, space |-> [NoSpace EXCEPT !.pml4 = a.frame],
                               pages |-> <<>>, ok |-> TRUE], Image)
  IN IF a.frame = NONE THEN [m |-> m, space |-> NoSpace, pages |-> <<>>, ok |-> FALSE]
     ELSE IF r.ok THEN r
     ELSE [r EXCEPT !.m = vmm_destroy_address_space(r.m, r.space)]

\* allocate_task_slot: a slot that is not in use; its inventory is released.
FreeSlots == {t \in Tasks : task[t].state \in {"UNUSED", "DEAD"}}
Slot == Min(FreeSlots)
ReleaseSlot(m) == FreeFrames(m, task[Slot].pages)

-----------------------------------------------------------------------------
(* Steps *)

Running == ~panic /\ current # NONE /\ task[current].state = "ALIVE"

\* What a frame holds that no page maps is not kept: it is cleared or copied
\* over before it is mapped again.
Mapped(tasks) == {tasks[t].space.pte[p].frame : t \in Tasks, p \in Pages}
Become(s) ==
  /\ mem' = [s.m EXCEPT !.bytes = [f \in Frames |-> IF f \in Mapped(s.task) THEN @[f] ELSE Page(ZERO)]]
  /\ task' = s.task
Call == calls > 0 /\ calls' = calls - 1
Stay == UNCHANGED <<total, current, panic>>

Process(r) == [state |-> "ALIVE", space |-> r.space, pages |-> r.pages, heap |-> 0]

elf_load_process ==
  LET r == LoadImage(mem) IN
  /\ Running /\ Call
  /\ Become(IF ~r.ok THEN [m |-> r.m, task |-> task]
            ELSE IF FreeSlots = {} THEN [m |-> vmm_destroy_address_space(r.m, r.space), task |-> task]
            ELSE [m |-> ReleaseSlot(r.m), task |-> [task EXCEPT ![Slot] = Process(r)]])
  /\ Stay

\* The old image's tables are freed, its frames are not.
elf_exec_current ==
  LET r == LoadImage(mem) IN
  /\ Running /\ Call
  /\ Become(IF ~r.ok THEN [m |-> r.m, task |-> task]
            ELSE [m |-> vmm_destroy_address_space(r.m, task[current].space),
                  task |-> [task EXCEPT ![current] = Process(r)]])
  /\ Stay

scheduler_fork_current ==
  LET p == task[current]
      c == vmm_clone_address_space(mem, p.space)
      parent == [task EXCEPT ![current].space = c.parent]
  IN /\ Running /\ Call
     /\ Become(IF pmm_alloc(mem).frame = NONE THEN State
               ELSE IF FreeSlots = {}
               THEN [m |-> vmm_destroy_address_space(c.m, c.child), task |-> parent]
               ELSE [m |-> ReleaseSlot(c.m),
                     task |-> [parent EXCEPT ![Slot] = [p EXCEPT !.space = c.child]]])
     /\ Stay

\* One page of sys_brk; a failed map_in_pml4 goes unnoticed.
GrowPage(acc, page) ==
  LET a == pmm_alloc(acc.s.m)
      t == acc.s.task[current]
      zeroed == [a.m EXCEPT !.bytes[a.frame] = Page(ZERO)]
      c == map_in_pml4(zeroed, t.space, page, [frame |-> a.frame, w |-> TRUE, cow |-> FALSE])
  IN IF ~acc.ok \/ a.frame = NONE \/ Len(t.pages) >= TASK_MAX_USER_PAGES
     THEN [acc EXCEPT !.ok = FALSE]
     ELSE [s |-> [m |-> c.m, task |-> [acc.s.task EXCEPT
                    ![current].space = c.space, ![current].pages = Append(@, a.frame)]],
           ok |-> TRUE]

\* Growing maps the pages above heap_end; shrinking only moves heap_end.
sys_brk(n) ==
  LET t == task[current]
      g == FoldLeft(GrowPage, [s |-> State, ok |-> TRUE], SubSeq(HeapPages, t.heap + 1, n))
  IN /\ Running /\ Call
     /\ Become(IF n <= t.heap THEN [State EXCEPT !.task[current].heap = n]
               ELSE IF g.ok THEN [g.s EXCEPT !.task[current].heap = n]
               ELSE g.s)
     /\ Stay

\* scheduler_terminate_task_unlocked: the tables are freed, and the inventory
\* is emptied without freeing its frames.
Terminate(s, t) ==
  [m |-> vmm_destroy_address_space(s.m, s.task[t].space),
   task |-> [s.task EXCEPT ![t] = [NoTask EXCEPT !.state = "ZOMBIE"]]]

\* exit, or a signal that kills another task.
Exit(t) ==
  /\ Running /\ task[t].state = "ALIVE"
  /\ Become(Terminate(State, t)) /\ Stay /\ UNCHANGED calls

\* The parent collects a zombie.
Reap(t) ==
  /\ ~panic /\ task[t].state = "ZOMBIE"
  /\ task' = [task EXCEPT ![t].state = "DEAD"]
  /\ Stay /\ UNCHANGED <<mem, calls>>

\* A store by the program, to the first word: a fault that is not resolved
\* ends it.
UserStore(page) ==
  /\ Running /\ Call
  /\ LET r == Store(State, current, page, 1, current) IN
     Become(IF r.ok THEN r.s ELSE Terminate(State, current))
  /\ Stay

\* A store by the kernel on behalf of a system call, to the second word, after
\* the pointer was validated: a fault that is not resolved is a panic.
KernelStore(page) ==
  /\ Running /\ Call /\ vmm_validate_user_ptr(task[current].space, page)
  /\ LET r == Store(State, current, page, 2, current) IN Become(r.s) /\ panic' = ~r.ok
  /\ UNCHANGED <<total, current>>

\* deliver_pending_signal_unlocked: a frame for the handler on page, which is
\* mapped first when it is not; the task ends when that fails.
PushSignalFrame(t, page) ==
  LET a == pmm_alloc(mem)
      zeroed == [a.m EXCEPT !.bytes[a.frame] = Page(ZERO)]
      c == map_in_pml4(zeroed, task[t].space, page, [frame |-> a.frame, w |-> TRUE, cow |-> FALSE])
      s == IF vmm_is_mapped(task[t].space, page) THEN State
           ELSE [m |-> c.m, task |-> [task EXCEPT ![t].space = c.space,
                                                  ![t].pages = Append(@, a.frame)]]
      r == Store(s, t, page, 1, t)
  IN IF ~vmm_is_mapped(task[t].space, page)
        /\ (a.frame = NONE \/ Len(task[t].pages) >= TASK_MAX_USER_PAGES)
     THEN Become(Terminate(State, t)) /\ UNCHANGED <<current, panic>>
     ELSE Become(r.s) /\ panic' = ~r.ok /\ current' = IF r.ok THEN t ELSE current

\* The scheduler picks task t, and delivers a signal to it first or not.
Switch(t) ==
  /\ ~panic /\ task[t].state = "ALIVE"
  /\ \/ current # t /\ current' = t /\ UNCHANGED <<mem, task, panic, calls>>
     \/ Call /\ \E page \in {SignalPage, "stack"} : PushSignalFrame(t, page)
  /\ UNCHANGED total

\* The first process, loaded by kmain.
Init ==
  /\ total \in Totals
  /\ LET r == LoadImage([used |-> {}, refs |-> [f \in Frames |-> 0],
                         bytes |-> [f \in Frames |-> Page(ZERO)]]) IN
     /\ r.ok /\ mem = r.m
     /\ task = [t \in Tasks |-> IF t = 1 THEN Process(r) ELSE NoTask]
  /\ current = 1 /\ panic = FALSE /\ calls = MaxCalls

Next ==
  \/ elf_load_process \/ elf_exec_current \/ scheduler_fork_current
  \/ \E n \in 0 .. Len(HeapPages) : sys_brk(n)
  \/ \E t \in Tasks : Exit(t) \/ Reap(t) \/ Switch(t)
  \/ \E page \in Pages : UserStore(page) \/ KernelStore(page)

Spec == Init /\ [][Next]_vars

-----------------------------------------------------------------------------
(* Properties *)

\* The frames a task holds: its tables and what they map.
Entries(t) == {<<t, p>> : p \in {q \in Pages : vmm_is_mapped(task[t].space, q)}}
MappingsOf(f) == {e \in UNION {Entries(t) : t \in Tasks} : task[e[1]].space.pte[e[2]].frame = f}
TableFrames(t) == (Range(task[t].space.table) \cup {task[t].space.pml4}) \ {NONE}

\* The bitmap and the counts agree, and a page is not both writable and
\* copy on write.
TypeOK ==
  /\ mem.used \subseteq 1 .. total
  /\ mem.used = {f \in Frames : mem.refs[f] > 0}
  /\ \A t \in Tasks : /\ task[t].state \in {"UNUSED", "ALIVE", "ZOMBIE", "DEAD"}
                      /\ Len(task[t].pages) <= TASK_MAX_USER_PAGES
                      /\ \A p \in Pages : ~(task[t].space.pte[p].w /\ task[t].space.pte[p].cow)

\* A frame is never handed out while something uses it: its count covers all
\* the pages that map it, and a page table is nobody's page and nobody
\* else's table, whatever was shared, split, replaced or given up half way.
\* The program is never overwritten: its pages are mapped without write
\* permission, and sharing them does not make them copy on write.
MappedIsHeld ==
  /\ TypeOK
  /\ \A f \in 1 .. total : mem.refs[f] >= Cardinality(MappingsOf(f))
  /\ \A t \in Tasks : \A f \in TableFrames(t) :
       f \in mem.used /\ MappingsOf(f) = {} /\ \A u \in Tasks \ {t} : f \notin TableFrames(u)
  /\ \A t \in Tasks : vmm_is_mapped(task[t].space, "code")
       => mem.bytes[task[t].space.pte["code"].frame] = Page(CODE)

\* What a program sees of its memory: the image, the stack, and the heap
\* below heap_end.
Visible(t) == {p \in Pages : vmm_is_mapped(task[t].space, p)} \ ToSet(SubSeq(HeapPages, task[t].heap + 1, Len(HeapPages)))
View(t) == [p \in Visible(t) |-> mem.bytes[task[t].space.pte[p].frame]]

\* No step of one process changes what another one sees, however many frames
\* they share after fork (a signal is delivered to the task that is switched
\* to).  Its own memory changes one stored word at a time, whether or not the
\* page had to be copied, unless the process execs or moves heap_end.
StoresArePrivate ==
  [][\A t \in Tasks : task[t].state = "ALIVE" /\ task'[t].state = "ALIVE" =>
       /\ t \notin {current, current'} => View(t)' = View(t)
       /\ task'[t].space.pml4 = task[t].space.pml4 =>
            Cardinality({<<p, w>> \in (Visible(t) \cap Visible(t)') \X Words :
                           View(t)'[p][w] # View(t)[p][w]}) <= 1]_vars

\* fork copies: the child sees exactly its parent's memory, all of it unless
\* the frames ran out, and the parent sees no change.
ForkCopies ==
  [][\A t \in Tasks :
       task[t].state # "ALIVE" /\ task'[t].state = "ALIVE" /\ scheduler_fork_current =>
         /\ View(current)' = View(current)
         /\ \A p \in Visible(t)' : p \in Visible(current) /\ View(t)'[p] = View(current)[p]
         /\ mem'.used # 1 .. total => Visible(t)' = Visible(current)]_vars

\* When every process has ended and been collected its frames are free again
\* (docs/architecture/process_lifecycle.md).
ExitReturnsFrames == (\A t \in Tasks : task[t].state \in {"UNUSED", "DEAD"}) => mem.used = {}
=============================================================================
