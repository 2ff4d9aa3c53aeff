--------------------------- MODULE PipesRefProofs ---------------------------
(***************************************************************************)
(* Proofs that the reference counts of file descriptions are exact, and    *)
(* with them that a pipe lives as long as its ends, for any number of      *)
(* tasks, descriptors and pipes.                                           *)
(*                                                                         *)
(* Counted relates a descriptor table to the descriptions.  It is kept by  *)
(* the two elementary changes, a slot that is cleared and a slot that is   *)
(* filled, and by the two that touch a whole row, fork and termination.    *)
(* Fork fills the row of a dead task, which has to be known empty.         *)
(***************************************************************************)
EXTENDS PipesProofs, FiniteSetTheorems

FdTables == [Task -> [Fd -> Description \cup {Null}]]

Holders(H, d) == {tf \in Task \X Fd : H[tf[1]][tf[2]] = d}

Counted(H, D) ==
  \A d \in Description :
    /\ D[d].ref_count = Cardinality(Holders(H, d))
    /\ D[d].end = "free" <=> D[d].ref_count = 0

DeadClosed(H, S) == \A t \in Task : S[t] = "DEAD" => \A f \in Fd : H[t][f] = Null

RInv == IInv /\ Counted(fds, desc) /\ DeadClosed(fds, state)

-----------------------------------------------------------------------------
(* Counting descriptors *)

LEMMA HoldersFinite ==
  ASSUME NEW H, NEW d
  PROVE  IsFiniteSet(Holders(H, d)) /\ Cardinality(Holders(H, d)) \in Nat
<1>1. IsFiniteSet(Task) /\ IsFiniteSet(Fd)
  BY FS_Interval, PipesAssumption DEF Task, Fd
<1>2. IsFiniteSet(Task \X Fd)
  BY Zenon, <1>1, FS_Product
<1>3. Holders(H, d) \in SUBSET (Task \X Fd)
  BY Zenon DEF Holders
<1> QED
  BY ZenonT(60), <1>2, <1>3, FS_Subset, FS_CardinalityType

\* The descriptors of task t among the holders of d.
Row(H, t, d) == {t} \X {f \in Fd : H[t][f] = d}

LEMMA RowCounted ==
  ASSUME NEW H, NEW t \in Task, NEW d
  PROVE  /\ Row(H, t, d) \subseteq Holders(H, d) /\ IsFiniteSet(Row(H, t, d))
         /\ Cardinality(Row(H, t, d)) = Cardinality({f \in Fd : H[t][f] = d})
         /\ Cardinality(Row(H, t, d)) \in 0..Cardinality(Holders(H, d))
<1> DEFINE S == {f \in Fd : H[t][f] = d}
<1>1. Row(H, t, d) \subseteq Holders(H, d)
  BY Zenon DEF Row, Holders
<1>2. IsFiniteSet(S) /\ Cardinality(S) \in Nat
  <2>1. IsFiniteSet(Fd) /\ S \in SUBSET Fd
    BY FS_Interval, PipesAssumption DEF Fd
  <2> QED
    BY Zenon, <2>1, FS_Subset, FS_CardinalityType
<1>3. Cardinality(Row(H, t, d)) = 1 * Cardinality(S)
  <2>1. IsFiniteSet({t}) /\ Cardinality({t}) = 1
    BY Zenon, FS_Singleton
  <2>2. Row(H, t, d) = {t} \X S
    BY Zenon DEF Row
  <2> HIDE DEF S
  <2>3. Cardinality({t} \X S) = Cardinality({t}) * Cardinality(S)
    BY Zenon, <1>2, <2>1, FS_Product
  <2> QED
    BY Zenon, <2>1, <2>2, <2>3
<1>4. IsFiniteSet(Row(H, t, d)) /\ Cardinality(Row(H, t, d)) <= Cardinality(Holders(H, d))
  BY Zenon, <1>1, HoldersFinite, FS_Subset
<1> HIDE DEF S
<1>5. Cardinality(Row(H, t, d)) = Cardinality(S)
  BY <1>2, <1>3, SMTT(60)
<1>6. Cardinality(Row(H, t, d)) \in 0..Cardinality(Holders(H, d))
  BY <1>2, <1>4, <1>5, HoldersFinite, SMTT(60)
<1> QED
  BY Zenon, <1>1, <1>4, <1>5, <1>6 DEF S

\* Descriptor table G is H with v in slot f of task t.
Slot(H, G, t, f, v) ==
  \A u \in Task, g \in Fd : G[u][g] = IF u = t /\ g = f THEN v ELSE H[u][g]

LEMMA SlotSet ==
  ASSUME NEW H \in FdTables, NEW t \in Task, NEW f \in Fd, NEW v
  PROVE  Slot(H, [H EXCEPT ![t][f] = v], t, f, v)
BY Zenon DEF Slot, FdTables

LEMMA LessCounts ==
  ASSUME NEW x, DescOK(x), x.ref_count \in Nat \ {0}, x.end # "free"
  PROVE  Less(x).ref_count = x.ref_count - 1 /\ (Less(x).end = "free" <=> Less(x).ref_count = 0)
BY SMTT(60) DEF Less, DescOK, FreeDescription

\* An open descriptor names a description that is in use.
LEMMA NamedInUse ==
  ASSUME NEW H, NEW D, Counted(H, D), NEW t \in Task, NEW f \in Fd, NEW d \in Description,
         H[t][f] = d
  PROVE  D[d].end # "free" /\ D[d].ref_count \in Nat \ {0}
<1>1. <<t, f>> \in Holders(H, d)
  BY Zenon DEF Holders
<1>2. Cardinality(Holders(H, d)) # 0
  BY Zenon, <1>1, HoldersFinite, FS_EmptySet
<1> QED
  BY <1>2, HoldersFinite DEF Counted

\* A slot is cleared and the description it named loses a reference, or is freed.
LEMMA ClearCounted ==
  ASSUME NEW H, NEW D, Counted(H, D), NEW t \in Task, NEW f \in Fd, NEW o \in Description,
         H[t][f] = o, DescOK(D[o]), NEW G, Slot(H, G, t, f, Null), NEW E, Released(D, E, o)
  PROVE  Counted(G, E)
<1>1. Holders(G, o) = Holders(H, o) \ {<<t, f>>} /\ <<t, f>> \in Holders(H, o)
  BY SMTT(60) DEF Holders, Slot, Null, Description
<1>2. \A d \in Description \ {o} : Holders(G, d) = Holders(H, d)
  BY SMTT(60) DEF Holders, Slot, Null, Description
<1>3. Cardinality(Holders(G, o)) = Cardinality(Holders(H, o)) - 1
  BY ZenonT(60), <1>1, HoldersFinite, FS_RemoveElement
<1>4. D[o].end # "free" /\ D[o].ref_count \in Nat \ {0} /\ D[o].ref_count = Cardinality(Holders(H, o))
  BY SMTT(60), NamedInUse DEF Counted
<1>5. E[o].ref_count = Cardinality(Holders(G, o)) /\ (E[o].end = "free" <=> E[o].ref_count = 0)
  BY <1>3, <1>4, LessCounts DEF Released
<1> QED
  BY ZenonT(60), <1>2, <1>5 DEF Counted, Released

\* A free slot is filled and the description it names gains a reference.
LEMMA FillCounted ==
  ASSUME NEW H, NEW D, Counted(H, D), NEW t \in Task, NEW f \in Fd, H[t][f] = Null,
         NEW o \in Description, NEW G, Slot(H, G, t, f, o), NEW E,
         E[o].ref_count = D[o].ref_count + 1, E[o].end # "free",
         \A d \in Description \ {o} : E[d] = D[d]
  PROVE  Counted(G, E)
<1>1. Holders(G, o) = Holders(H, o) \cup {<<t, f>>} /\ <<t, f>> \notin Holders(H, o)
  BY SMTT(60) DEF Holders, Slot, Null, Description
<1>2. \A d \in Description \ {o} : Holders(G, d) = Holders(H, d)
  BY SMTT(60) DEF Holders, Slot, Null, Description
<1>3. Cardinality(Holders(G, o)) = Cardinality(Holders(H, o)) + 1
  BY ZenonT(60), <1>1, HoldersFinite, FS_AddElement
<1>4. Cardinality(Holders(H, o)) \in Nat
  BY Zenon, HoldersFinite
<1>5. E[o].ref_count = Cardinality(Holders(G, o)) /\ (E[o].end = "free" <=> E[o].ref_count = 0)
  BY <1>3, <1>4, SMTT(60) DEF Counted
<1> QED
  BY ZenonT(60), <1>2, <1>5 DEF Counted

\* dup2 onto an open descriptor: cleared, then filled.
LEMMA ReplaceCounted ==
  ASSUME NEW H \in FdTables, NEW D, Counted(H, D), NEW t \in Task, NEW old \in Fd, NEW new \in Fd,
         old # new, NEW o \in Description, H[t][old] = o, NEW v \in Description, H[t][new] = v,
         DescOK(D[v]), NEW C, Released(D, C, v), NEW E, Referenced(C, E, o),
         NEW J, Slot(H, J, t, new, o)
  PROVE  Counted(J, E)
<1> DEFINE G == [H EXCEPT ![t][new] = Null]
<1>1. Slot(H, G, t, new, Null)
  BY Zenon, SlotSet
<1> HIDE DEF G
<1>2. Slot(G, J, t, new, o) /\ G[t][new] = Null /\ G[t][old] = o
  BY <1>1, SMTT(60) DEF Slot
<1>3. Counted(G, C)
  BY Zenon, <1>1, ClearCounted
<1>4. C[o].end # "free"
  BY Zenon, <1>2, <1>3, NamedInUse
<1>5. E[o].ref_count = C[o].ref_count + 1 /\ E[o].end # "free" /\ \A d \in Description \ {o} : E[d] = C[d]
  BY Zenon, <1>4 DEF Referenced
<1> QED
  BY <1>2, <1>3, <1>5, FillCounted

-----------------------------------------------------------------------------
(* The actions and the counts *)

LEMMA InitRInv == Init => RInv
<1> SUFFICES ASSUME Init PROVE RInv
  BY Zenon
<1>1. IInv
  BY Zenon, InitIInv
<1>2. DeadClosed(fds, state)
  BY Zenon DEF Init, DeadClosed
<1>3. ASSUME NEW d \in Description
      PROVE  /\ desc[d].ref_count = Cardinality(Holders(fds, d))
             /\ desc[d].end = "free" <=> desc[d].ref_count = 0
  <2>1. CASE d <= FirstFd
    <3>1. desc[d] = [end |-> "console", pipe |-> Null, ref_count |-> 1]
      BY Zenon, <2>1 DEF Init
    <3>2. Holders(fds, d) = {<<1, d - 1>>}
      <4>1. <<1, d - 1>> \in Task \X Fd
        BY <2>1, PipesAssumption, SMTT(60) DEF Task, Fd, Description
      <4>2. \A t \in Task, f \in Fd : fds[t][f] = d <=> t = 1 /\ f = d - 1
        BY <2>1, PipesAssumption, SMTT(60) DEF Init, Task, Fd, Description, Null
      <4>3. ASSUME NEW x \in Holders(fds, d) PROVE x = <<1, d - 1>>
        BY <4>2, SMTT(60) DEF Holders
      <4>4. <<1, d - 1>> \in Holders(fds, d)
        BY Zenon, <4>1, <4>2 DEF Holders
      <4> QED
        BY Zenon, <4>3, <4>4
    <3>3. Cardinality(Holders(fds, d)) = 1
      BY Zenon, <3>2, FS_Singleton
    <3> QED
      BY <3>1, <3>3, SMTT(60)
  <2>2. CASE ~(d <= FirstFd)
    <3>1. desc[d] = FreeDescription
      BY Zenon, <2>2 DEF Init
    <3>2. \A t \in Task, f \in Fd : fds[t][f] # d
      BY <2>2, PipesAssumption, SMTT(60) DEF Init, Task, Fd, Description, Null
    <3>3. Holders(fds, d) = {}
      BY Zenon, <3>2 DEF Holders
    <3> QED
      BY <3>1, <3>3, FS_EmptySet DEF FreeDescription
  <2> QED
    BY Zenon, <2>1, <2>2
<1> QED
  BY Zenon, <1>1, <1>2, <1>3 DEF RInv, Counted

\* What a call leaves when it changes no descriptor.
LEMMA Steady ==
  ASSUME RInv, fds' = fds, desc' = desc, \A t \in Task : state'[t] = "DEAD" => state[t] = "DEAD"
  PROVE  Counted(fds, desc)' /\ DeadClosed(fds, state)'
BY ZenonT(60) DEF RInv, Counted, Holders, DeadClosed

\* A slot of a live task may change.
LEMMA SlotDeadClosed ==
  ASSUME RInv, NEW t \in Task, state[t] # "DEAD", NEW f \in Fd, NEW v,
         Slot(fds, fds', t, f, v),
         \A u \in Task : state'[u] = "DEAD" => state[u] = "DEAD"
  PROVE  DeadClosed(fds, state)'
BY SMTT(60) DEF RInv, DeadClosed, Slot

LEMMA CloseRef ==
  ASSUME RInv, NEW t \in Task, state[t] # "DEAD", NEW f \in Fd, sys_close(t, f)
  PROVE  Counted(fds, desc)' /\ DeadClosed(fds, state)'
<1> DEFINE r == file_description_unref(Tables, fds[t][f])
<1>1. fds[t][f] \in Description /\ DescOK(desc[fds[t][f]]) /\ fds \in FdTables /\ Good(Tables)
  BY Zenon, OpenDescription DEF sys_close, RInv, IInv, FdTables
<1>2. fds' = [fds EXCEPT ![t][f] = Null] /\ desc' = r.desc /\ state' = r.state
  BY Zenon DEF sys_close, Become
<1>3. Slot(fds, fds', t, f, Null)
  BY Zenon, <1>1, <1>2, SlotSet
<1>4. PICK o \in Description : o = fds[t][f]
  BY Zenon, <1>1
<1>5. NoDeath(Tables, r) /\ Released(desc, r.desc, o)
  BY Zenon, <1>1, <1>4, UnrefEffect, TablesShape
<1> HIDE DEF r
<1>6. Counted(fds', desc')
  BY SMTT(60), <1>1, <1>2, <1>3, <1>4, <1>5, ClearCounted DEF RInv
<1>7. \A u \in Task : state'[u] = "DEAD" => state[u] = "DEAD"
  BY Zenon, <1>2, <1>5, TablesShape DEF NoDeath
<1>8. DeadClosed(fds, state)'
  BY Zenon, <1>3, <1>7, SlotDeadClosed
<1> QED
  BY Zenon, <1>6, <1>8 DEF Counted, Holders

LEMMA FillRef ==
  ASSUME RInv, NEW t \in Task, state[t] # "DEAD", NEW old \in Fd, NEW new \in Fd, Open(t, old),
         ~Open(t, new), Duplicate(t, old, new)
  PROVE  Counted(fds, desc)' /\ DeadClosed(fds, state)'
<1> DEFINE o == fds[t][old]
           r == [Tables EXCEPT !.desc[o].ref_count = @ + 1]
<1>1. o \in Description /\ fds \in FdTables /\ Good(Tables)
  BY Zenon, OpenDescription DEF RInv, IInv, FdTables
<1>2. fds' = [fds EXCEPT ![t][new] = o] /\ desc' = r.desc /\ state' = r.state
  BY Zenon DEF Duplicate, Become
<1>3. Counted(fds, desc) /\ DeadClosed(fds, state) /\ desc[o].end # "free"
  BY Zenon, <1>1, NamedInUse DEF RInv
<1> HIDE DEF o
<1>4. Referenced(desc, r.desc, o) /\ r.state = state
  BY Zenon, <1>1, RefEffect, TablesShape
<1> HIDE DEF r
<1>5. Slot(fds, fds', t, new, o)
  BY Zenon, <1>1, <1>2, SlotSet
<1>6. Counted(fds', desc')
  <2>1. /\ r.desc[o].ref_count = desc[o].ref_count + 1 /\ r.desc[o].end # "free"
        /\ \A d \in Description \ {o} : r.desc[d] = desc[d]
    BY Zenon, <1>3, <1>4 DEF Referenced
  <2> QED
    BY <1>1, <1>2, <1>3, <1>5, <2>1, FillCounted DEF Open
<1>7. DeadClosed(fds, state)'
  BY Zenon, <1>2, <1>4, <1>5, SlotDeadClosed
<1> QED
  BY Zenon, <1>6, <1>7 DEF Counted, Holders

LEMMA ReplaceRef ==
  ASSUME RInv, NEW t \in Task, state[t] # "DEAD", NEW old \in Fd, NEW new \in Fd, Open(t, old),
         Open(t, new), old # new, fds' = [fds EXCEPT ![t][new] = fds[t][old]],
         NEW k, k = file_description_unref(Tables, fds[t][new]), NEW r,
         r = [k EXCEPT !.desc[fds[t][old]].ref_count = @ + 1], desc' = r.desc, state' = r.state
  PROVE  Counted(fds, desc)' /\ DeadClosed(fds, state)'
<1>1. /\ fds[t][old] \in Description /\ fds[t][new] \in Description /\ DescOK(desc[fds[t][new]])
      /\ fds \in FdTables /\ Good(Tables) /\ Counted(fds, desc) /\ DeadClosed(fds, state)
  BY Zenon, OpenDescription DEF RInv, IInv, FdTables
<1>2. PICK o \in Description, v \in Description : o = fds[t][old] /\ v = fds[t][new]
  BY Zenon, <1>1
<1>3. NoDeath(Tables, k) /\ Released(desc, k.desc, v)
  BY Zenon, <1>1, <1>2, UnrefEffect, TablesShape
<1>4. Good(k)
  BY Zenon, <1>1, UnrefGood
<1>5. Referenced(k.desc, r.desc, o) /\ r.state = k.state
  BY ZenonT(60), <1>2, <1>4, RefEffect
<1>6. Slot(fds, fds', t, new, o)
  BY Zenon, <1>1, <1>2, SlotSet
<1>7. Counted(fds', desc')
  BY ZenonT(60), <1>1, <1>2, <1>3, <1>5, <1>6, ReplaceCounted
<1>8. \A u \in Task : state'[u] = "DEAD" => state[u] = "DEAD"
  BY ZenonT(60), <1>3, <1>5, TablesShape DEF NoDeath
<1>9. DeadClosed(fds, state)'
  BY Zenon, <1>6, <1>8, SlotDeadClosed
<1> QED
  BY Zenon, <1>7, <1>9 DEF Counted, Holders

LEMMA SameCounted ==
  ASSUME NEW H, NEW D, Counted(H, D), NEW E,
         \A d \in Description : E[d] = D[d] \/ (E[d] = FreeDescription /\ D[d].end = "free")
  PROVE  Counted(H, E)
BY SMTT(60) DEF Counted, FreeDescription

LEMMA PipeRef ==
  ASSUME RInv, NEW t \in Task, state[t] # "DEAD", sys_pipe(t)
  PROVE  Counted(fds, desc)' /\ DeadClosed(fds, state)'
<1>0. PICK p \in Pipe, r \in Description, w \in Description : \E n, b : Making(t, p, r, w, n, b)
  BY Zenon, PipeCases DEF RInv
<1>1. PICK n, b : Making(t, p, r, w, n, b)
  BY Zenon, <1>0
<1>2. Good(n) /\ n.desc = desc /\ n.state = state
  BY ZenonT(60), <1>1, PipeCreated DEF RInv, Making
<1>3. w # r /\ b = Described(Described(n, r, "read", p), w, "write", p)
  BY Zenon, <1>1 DEF Making
<1>4. /\ Good(b) /\ b.state = state
      /\ b.desc[r] = NewEnd("read", p)
      /\ b.desc[w] = NewEnd("write", p)
      /\ \A e \in Description \ {r, w} : b.desc[e] = desc[e]
  BY SMTT(60), <1>2, <1>3, BothDescribed
<1>5. RInv /\ fds \in FdTables /\ Counted(fds, desc) /\ DeadClosed(fds, state)
  BY Zenon DEF RInv, IInv, FdTables
<1>6. ASSUME NEW rf \in Fd, NEW wf \in Fd, rf # wf, ~Open(t, rf), ~Open(t, wf),
             fds' = [fds EXCEPT ![t][rf] = r, ![t][wf] = w], Become(b)
      PROVE  Counted(fds', desc') /\ DeadClosed(fds', state')
  <2> DEFINE g == [fds EXCEPT ![t][rf] = r]
             D == [desc EXCEPT ![r] = b.desc[r]]
  <2>1. fds' = [g EXCEPT ![t][wf] = w]
    BY Zenon, <1>6
  <2>2. Slot(fds, g, t, rf, r)
    BY Zenon, <1>5, SlotSet
  <2>3. g \in FdTables
    BY Zenon, <1>5 DEF FdTables
  <2> HIDE DEF g
  <2>4. Slot(g, fds', t, wf, w)
    BY Zenon, <2>1, <2>3, SlotSet
  <2>5. D[r] = b.desc[r] /\ \A e \in Description \ {r} : D[e] = desc[e]
    <3>1. DOMAIN desc = Description
      BY Zenon, TablesShape DEF RInv, IInv, Good, Tidy, DescsOK
    <3> QED
      BY Zenon, <3>1
  <2> HIDE DEF D
  <2>6. Counted(g, D)
    <3>1. D[r].ref_count = desc[r].ref_count + 1 /\ D[r].end # "free"
      BY <1>1, <1>4, <1>5, <2>5, SMTT(60) DEF Counted, NewEnd, Making
    <3> QED
      BY SMTT(60), <1>5, <1>6, <2>2, <2>5, <3>1, FillCounted DEF Open
  <2>7. Counted(fds', b.desc)
    <3>1. b.desc[w].ref_count = D[w].ref_count + 1 /\ b.desc[w].end # "free"
      BY <1>1, <1>4, <1>5, <2>5, SMTT(60) DEF Counted, NewEnd, Making
    <3>2. g[t][wf] = Null
      BY Zenon, <1>6, <2>2 DEF Slot, Open
    <3>3. \A e \in Description \ {w} : b.desc[e] = D[e]
      BY Zenon, <1>4, <2>5
    <3> QED
      BY SMTT(60), <2>4, <2>6, <3>1, <3>2, <3>3, FillCounted
  <2>8. DeadClosed(fds', state)
    BY <1>5, <2>2, <2>4, SMTT(60) DEF DeadClosed, Slot
  <2> QED
    BY Zenon, <1>4, <1>6, <2>7, <2>8 DEF Become
<1>7. ASSUME fds' = fds, Become(file_description_unref(file_description_unref(b, w), r))
      PROVE  Counted(fds', desc') /\ DeadClosed(fds', state')
  <2>1. PICK x, y : x = file_description_unref(b, w) /\ y = file_description_unref(x, r) /\ Become(y)
    BY Zenon, <1>7
  <2>2. Good(x) /\ NoDeath(b, x) /\ Released(b.desc, x.desc, w)
    BY SMTT(60), <1>4, <2>1, UnrefGood, UnrefEffect
  <2>3. NoDeath(x, y) /\ Released(x.desc, y.desc, r)
    BY Zenon, <2>1, <2>2, UnrefEffect
  <2>4. y.desc[w] = FreeDescription /\ y.desc[r] = FreeDescription
    BY <1>1, <1>4, <2>2, <2>3, LessNew DEF Released, Making
  <2>5. \A e \in Description \ {r, w} : y.desc[e] = desc[e]
    BY Zenon, <1>4, <2>2, <2>3 DEF Released
  <2>6. Counted(fds, y.desc)
    BY SMTT(60), <1>1, <1>5, <2>4, <2>5, SameCounted DEF Making
  <2>7. DeadClosed(fds, y.state)
    BY <1>4, <1>5, <2>2, <2>3 DEF DeadClosed, NoDeath
  <2> QED
    BY SMTT(60), <1>7, <2>1, <2>6, <2>7 DEF Become
<1>8. ASSUME fds' = fds, NEW end \in {"read", "write"},
             Become(file_description_unref(Described(n, r, end, p), r))
      PROVE  Counted(fds', desc') /\ DeadClosed(fds', state')
  <2>1. PICK o, y : o = Described(n, r, end, p) /\ y = file_description_unref(o, r) /\ Become(y)
    BY Zenon, <1>8
  <2>2. Good(o) /\ Adds(n, o, r, NewEnd(end, p))
    BY <1>2, <2>1, DescribedEffect
  <2>3. NoDeath(o, y) /\ Released(o.desc, y.desc, r)
    BY Zenon, <2>1, <2>2, UnrefEffect
  <2>4. y.desc[r] = FreeDescription /\ \A e \in Description \ {r} : y.desc[e] = desc[e]
    BY SMTT(60), <1>2, <2>2, <2>3, LessNew DEF Released, Adds
  <2>5. Counted(fds, y.desc)
    BY SMTT(60), <1>1, <1>5, <2>4, SameCounted DEF Making
  <2>6. DeadClosed(fds, y.state)
    BY ZenonT(60), <1>2, <1>5, <2>2, <2>3 DEF DeadClosed, NoDeath, Adds
  <2> QED
    BY Zenon, <1>8, <2>1, <2>5, <2>6 DEF Become
<1>9. ASSUME fds' = fds, Become(n)
      PROVE  Counted(fds', desc') /\ DeadClosed(fds', state')
  BY Zenon, <1>2, <1>5, <1>9 DEF Become
<1>10. Counted(fds', desc') /\ DeadClosed(fds', state')
  BY <1>1, <1>6, <1>7, <1>8, <1>9, ZenonT(60) DEF Making
<1> QED
  BY Zenon, <1>10 DEF Counted, Holders, DeadClosed

\* fork gives the row of a dead task to the child.
LEMMA ForkRef ==
  ASSUME RInv, NEW t \in Task, state[t] # "DEAD", fork(t)
  PROVE  Counted(fds, desc)' /\ DeadClosed(fds, state)'
<1>1. PICK c \in Task :
        /\ state[c] = "DEAD" /\ fds' = [fds EXCEPT ![c] = fds[t]]
        /\ desc' = [d \in Description |-> [desc[d] EXCEPT !.ref_count = @ + Uses(t, d)]]
        /\ state' = [state EXCEPT ![c] = "READY"]
  BY ZenonT(60) DEF fork, Least
<1>2. /\ fds \in FdTables /\ Counted(fds, desc) /\ DeadClosed(fds, state)
      /\ state \in [Task -> {"DEAD", "READY", "SLEEPING"}] /\ DescsOK(desc)
  BY Zenon, TablesShape DEF RInv, IInv, FdTables, Good, Tidy, WaitsOK
<1>3. c # t /\ \A f \in Fd : fds[c][f] = Null
  BY Zenon, <1>1, <1>2 DEF DeadClosed
<1>4. \A u \in Task, f \in Fd : fds'[u][f] = IF u = c THEN fds[t][f] ELSE fds[u][f]
  BY Zenon, <1>1, <1>2 DEF FdTables
<1>5. ASSUME NEW d \in Description
      PROVE  /\ desc'[d].ref_count = Cardinality(Holders(fds', d))
             /\ desc'[d].end = "free" <=> desc'[d].ref_count = 0
  <2> DEFINE new == {c} \X {f \in Fd : fds[t][f] = d}
  <2>1. Holders(fds', d) = Holders(fds, d) \cup new
    BY <1>3, <1>4, SMTT(60) DEF Holders, Null, Description
  <2>2. Holders(fds, d) \cap new = {}
    BY <1>3, SMTT(60) DEF Holders, Null, Description
  <2>3. new = Row(fds', c, d) /\ {f \in Fd : fds'[c][f] = d} = {f \in Fd : fds[t][f] = d}
    BY ZenonT(60), <1>4 DEF Row
  <2>4. IsFiniteSet(new) /\ Cardinality(new) = Uses(t, d)
    <3>1. /\ IsFiniteSet(Row(fds', c, d))
          /\ Cardinality(Row(fds', c, d)) = Cardinality({f \in Fd : fds'[c][f] = d})
      BY ZenonT(60), RowCounted
    <3> HIDE DEF new
    <3> QED
      BY Zenon, <2>3, <3>1 DEF Uses
  <2>5. Uses(t, d) \in 0..Cardinality(Holders(fds, d))
    BY Zenon, RowCounted DEF Uses
  <2> HIDE DEF new
  <2>6. Cardinality(Holders(fds', d)) = Cardinality(Holders(fds, d)) + Cardinality(new) - Cardinality({})
    BY <2>1, <2>2, <2>4, HoldersFinite, FS_Union
  <2>7. /\ desc[d].ref_count = Cardinality(Holders(fds, d)) /\ Cardinality(Holders(fds, d)) \in Nat
        /\ desc[d].end = "free" <=> desc[d].ref_count = 0
    BY Zenon, <1>2, HoldersFinite DEF Counted
  <2>8. Cardinality(Holders(fds', d)) = Cardinality(Holders(fds, d)) + Uses(t, d)
    BY <2>4, <2>5, <2>6, <2>7, FS_EmptySet
  <2>9. desc'[d].ref_count = desc[d].ref_count + Uses(t, d) /\ desc'[d].end = desc[d].end
    BY ZenonT(60), <1>1, <1>2 DEF DescsOK, DescOK
  <2> QED
    BY <2>5, <2>7, <2>8, <2>9, SMTT(60)
<1>6. DeadClosed(fds', state')
  BY <1>1, <1>2, <1>3, <1>4, SMTT(60) DEF DeadClosed
<1> QED
  BY Zenon, <1>5, <1>6 DEF Counted, Holders, DeadClosed

\* Termination clears a row, and frees what only that row named.
LEMMA TerminateRef ==
  ASSUME RInv, NEW u \in Task, scheduler_terminate_task(u)
  PROVE  Counted(fds, desc)' /\ DeadClosed(fds, state)'
<1> DEFINE last == {d \in Description : Uses(u, d) > 0 /\ desc[d].ref_count = Uses(u, d)}
<1>1. CASE \E d \in last : desc[d].end \in {"read", "write"}
  <2>1. UNCHANGED <<fds, desc, state>>
    BY Zenon, <1>1 DEF scheduler_terminate_task
  <2> QED
    BY Zenon, <2>1, Steady
<1>2. CASE ~\E d \in last : desc[d].end \in {"read", "write"}
  <2>1. /\ fds' = [fds EXCEPT ![u] = [f \in Fd |-> Null]]
        /\ desc' = [d \in Description |->
                      IF d \in last THEN FreeDescription
                      ELSE [desc[d] EXCEPT !.ref_count = @ - Uses(u, d)]]
        /\ state' = [state EXCEPT ![u] = "DEAD"]
    BY Zenon, <1>2 DEF scheduler_terminate_task
  <2>2. /\ fds \in FdTables /\ Counted(fds, desc) /\ DeadClosed(fds, state)
        /\ state \in [Task -> {"DEAD", "READY", "SLEEPING"}] /\ DescsOK(desc)
    BY Zenon, TablesShape DEF RInv, IInv, FdTables, Good, Tidy, WaitsOK
  <2>3. \A v \in Task, f \in Fd : fds'[v][f] = IF v = u THEN Null ELSE fds[v][f]
    BY Zenon, <2>1, <2>2 DEF FdTables
  <2>4. ASSUME NEW d \in Description
        PROVE  /\ desc'[d].ref_count = Cardinality(Holders(fds', d))
               /\ desc'[d].end = "free" <=> desc'[d].ref_count = 0
    <3>1. Holders(fds', d) = Holders(fds, d) \ Row(fds, u, d)
      BY <2>3, SMTT(60) DEF Holders, Row, Null, Description
    <3>2. Holders(fds, d) \cap Row(fds, u, d) = Row(fds, u, d)
      BY ZenonT(60), RowCounted
    <3>3. Cardinality(Row(fds, u, d)) = Uses(u, d) /\ Uses(u, d) \in 0..Cardinality(Holders(fds, d))
      BY RowCounted DEF Uses
    <3>4. Cardinality(Holders(fds', d)) = Cardinality(Holders(fds, d)) - Uses(u, d)
      <4>1. /\ Cardinality(Holders(fds, d) \ Row(fds, u, d))
               = Cardinality(Holders(fds, d)) - Cardinality(Holders(fds, d) \cap Row(fds, u, d))
        BY ZenonT(60), HoldersFinite, FS_Difference
      <4> QED
        BY Zenon, <3>1, <3>2, <3>3, <4>1
    <3>5. /\ desc[d].ref_count = Cardinality(Holders(fds, d)) /\ Cardinality(Holders(fds, d)) \in Nat
          /\ desc[d].end = "free" <=> desc[d].ref_count = 0
      BY Zenon, <2>2, HoldersFinite DEF Counted
    <3>6. CASE Uses(u, d) > 0 /\ desc[d].ref_count = Uses(u, d)
      <4>1. desc'[d] = FreeDescription
        BY Zenon, <2>1, <3>6
      <4> QED
        BY <3>3, <3>4, <3>5, <3>6, <4>1, SMTT(60) DEF FreeDescription
    <3>7. CASE ~(Uses(u, d) > 0 /\ desc[d].ref_count = Uses(u, d))
      <4>1. desc'[d] = [desc[d] EXCEPT !.ref_count = @ - Uses(u, d)]
        BY Zenon, <2>1, <3>7
      <4>2. desc'[d].ref_count = desc[d].ref_count - Uses(u, d) /\ desc'[d].end = desc[d].end
        BY ZenonT(60), <2>2, <4>1 DEF DescsOK, DescOK
      <4> QED
        BY <3>3, <3>4, <3>5, <3>7, <4>2, SMTT(60)
    <3> QED
      BY Zenon, <3>6, <3>7
  <2>5. DeadClosed(fds', state')
    BY <2>1, <2>2, <2>3, SMTT(60) DEF DeadClosed
  <2> QED
    BY Zenon, <2>4, <2>5 DEF Counted, Holders, DeadClosed
<1> QED
  BY Zenon, <1>1, <1>2

\* Reads and writes change no descriptor, and kill nobody.
LEMMA TransferRef ==
  ASSUME RInv, NEW t \in Task, NEW f \in Fd, NEW p, NEW n, NEW s, NEW reason, fds' = fds,
         \/ Become(Read(Tables, p, n)) \/ Become(Write(Tables, p, s))
         \/ Become(Sleep(Tables, t, reason, p)) \/ Become(Tables)
  PROVE  Counted(fds, desc)' /\ DeadClosed(fds, state)'
<1> DEFINE a == [Tables EXCEPT !.pipe[p].read_pos = (@ + n) % PIPE_BUFFER_SIZE, !.pipe[p].count = @ - n]
           b == [Tables EXCEPT
                   !.pipe[p].data = [i \in 0..(PIPE_BUFFER_SIZE - 1) |->
                                       LET j == (i - Tables.pipe[p].write_pos) % PIPE_BUFFER_SIZE
                                       IN IF j < Len(s) THEN s[j + 1] ELSE @[i]],
                   !.pipe[p].write_pos = (@ + Len(s)) % PIPE_BUFFER_SIZE,
                   !.pipe[p].count = @ + Len(s)]
           c == Sleep(Tables, t, reason, p)
<1>1. Shape(a) /\ a.desc = desc /\ a.state = state
  BY Zenon, TablesShape DEF Shape
<1>2. Shape(b) /\ b.desc = desc /\ b.state = state
  BY Zenon, TablesShape DEF Shape
<1>3. c.desc = desc /\ c.state = [state EXCEPT ![t] = "SLEEPING"]
  BY Zenon, TablesShape DEF Shape, Sleep
<1>4. state \in [Task -> {"DEAD", "READY", "SLEEPING"}]
  BY Zenon, TablesShape DEF RInv, IInv, Good, Tidy, WaitsOK
<1>5. Read(Tables, p, n) = Wake(a, "PIPE_WRITE", p) /\ Write(Tables, p, s) = Wake(b, "PIPE_READ", p)
  BY Zenon DEF Read, Write
<1> HIDE DEF a, b, c
<1>6. desc' = desc /\ \A u \in Task : state'[u] = "DEAD" => state[u] = "DEAD"
  <2>1. CASE Become(Read(Tables, p, n))
    BY SMTT(60), <1>1, <1>5, <2>1, WakeNoDeath DEF Become, NoDeath
  <2>2. CASE Become(Write(Tables, p, s))
    BY <1>2, <1>5, <2>2, WakeNoDeath DEF Become, NoDeath
  <2>3. CASE Become(Sleep(Tables, t, reason, p))
    <3>1. desc' = desc /\ state' = [state EXCEPT ![t] = "SLEEPING"]
      BY Zenon, <1>3, <2>3 DEF Become, c
    <3> QED
      BY Zenon, <1>4, <3>1
  <2>4. CASE Become(Tables)
    BY Zenon, <2>4, TablesShape DEF Become
  <2> QED
    BY SMTT(60), <2>1, <2>2, <2>3, <2>4
<1> QED
  BY Zenon, <1>6, Steady

LEMMA NextRInv == RInv /\ [Next]_vars => RInv'
<1> SUFFICES ASSUME RInv, [Next]_vars PROVE Counted(fds, desc)' /\ DeadClosed(fds, state)'
  BY Zenon, NextIInv DEF RInv
<1>0. state \in [Task -> {"DEAD", "READY", "SLEEPING"}]
  BY Zenon, TablesShape DEF RInv, IInv, Good, Tidy, WaitsOK
<1>1. CASE UNCHANGED vars
  BY Zenon, <1>1, Steady DEF vars
<1>2. CASE scheduler_tick
  BY Zenon, <1>2, Steady DEF scheduler_tick
<1>3. ASSUME NEW t \in Task, state[t] # "DEAD", Syscall(t)
      PROVE  Counted(fds, desc)' /\ DeadClosed(fds, state)'
  <2>1. CASE sys_pipe(t)
    BY Zenon, <1>3, <2>1, PipeRef
  <2>2. CASE fork(t)
    BY Zenon, <1>3, <2>2, ForkRef
  <2>3. ASSUME NEW u \in Task, terminate(t, u) PROVE Counted(fds, desc)' /\ DeadClosed(fds, state)'
    BY Zenon, <2>3, TerminateRef DEF terminate
  <2>4. ASSUME NEW u \in Task, scheduler_send_signal(t, u)
        PROVE  Counted(fds, desc)' /\ DeadClosed(fds, state)'
    <3>1. fds' = fds /\ desc' = desc /\ state' = [state EXCEPT ![u] = "READY"]
      BY Zenon, <2>4 DEF scheduler_send_signal
    <3>2. \A v \in Task : state'[v] = "DEAD" => state[v] = "DEAD"
      BY Zenon, <1>0, <3>1
    <3> QED
      BY <3>1, <3>2, Steady
  <2>5. ASSUME NEW f \in Fd, sys_close(t, f) PROVE Counted(fds, desc)' /\ DeadClosed(fds, state)'
    BY SMTT(60), <1>3, <2>5, CloseRef
  <2>6. ASSUME NEW f \in Fd, pipe_write_broken(t, f)
        PROVE  Counted(fds, desc)' /\ DeadClosed(fds, state)'
    <3>1. CASE scheduler_terminate_task(t)
      BY Zenon, <3>1, TerminateRef
    <3>2. CASE fds' = fds /\ desc' = desc /\ state' = [state EXCEPT ![t] = "READY"]
      <4>1. \A v \in Task : state'[v] = "DEAD" => state[v] = "DEAD"
        BY Zenon, <1>0, <3>2
      <4> QED
        BY Zenon, <3>2, <4>1, Steady
    <3>3. CASE UNCHANGED <<fds, desc, state>>
      BY <3>3, Steady
    <3> QED
      BY Zenon, <2>6, <3>1, <3>2, <3>3 DEF pipe_write_broken
  <2>7. ASSUME NEW f \in Fd, NEW size, pipe_read(t, f, size)
        PROVE  Counted(fds, desc)' /\ DeadClosed(fds, state)'
    <3>1. PICK p, n : /\ fds' = fds
                      /\ Become(IF n > 0 THEN Read(Tables, p, n)
                                ELSE IF pipe[p].writers = 0 THEN Tables
                                ELSE Sleep(Tables, t, "PIPE_READ", p))
      BY Zenon, <2>7 DEF pipe_read
    <3> QED
      BY Zenon, <3>1, TransferRef
  <2>8. ASSUME NEW f \in Fd, NEW s, pipe_write(t, f, s)
        PROVE  Counted(fds, desc)' /\ DeadClosed(fds, state)'
    <3>1. PICK p, n : /\ fds' = fds
                      /\ Become(IF n > 0 THEN Write(Tables, p, SubSeq(s, 1, n))
                                ELSE Sleep(Tables, t, "PIPE_WRITE", p))
      BY Zenon, <2>8 DEF pipe_write
    <3> QED
      BY Zenon, <3>1, TransferRef
  <2>9. ASSUME NEW f \in Fd, NEW g \in Fd, sys_dup(t, f, g)
        PROVE  Counted(fds, desc)' /\ DeadClosed(fds, state)'
    <3>1. PICK new \in Least(FreeFds(t, g)) : Duplicate(t, f, new)
      BY Zenon, <2>9 DEF sys_dup
    <3>2. new \in Fd /\ ~Open(t, new) /\ Open(t, f)
      BY Zenon, <2>9, <3>1 DEF Least, FreeFds, sys_dup
    <3> QED
      BY Zenon, <1>3, <3>1, <3>2, FillRef
  <2>10. ASSUME NEW f \in Fd, NEW g \in Fd, sys_dup2(t, f, g)
         PROVE  Counted(fds, desc)' /\ DeadClosed(fds, state)'
    <3>1. Open(t, f) /\ f # g
      BY Zenon, <2>10 DEF sys_dup2
    <3>2. CASE ~Open(t, g) /\ Duplicate(t, f, g)
      BY SMTT(60), <1>3, <3>1, <3>2, FillRef
    <3>3. CASE /\ Open(t, g) /\ fds' = [fds EXCEPT ![t][g] = fds[t][f]]
               /\ LET k == file_description_unref(Tables, fds[t][g])
                  IN Become([k EXCEPT !.desc[fds[t][f]].ref_count = @ + 1])
      <4> DEFINE k == file_description_unref(Tables, fds[t][g])
                 r == [k EXCEPT !.desc[fds[t][f]].ref_count = @ + 1]
      <4>1. desc' = r.desc /\ state' = r.state
        BY Zenon, <3>3 DEF Become
      <4> QED
        BY ZenonT(60), <1>3, <3>1, <3>3, <4>1, ReplaceRef
    <3> QED
      BY Zenon, <2>10, <3>2, <3>3 DEF sys_dup2
  <2> QED
    BY SMTT(60), <1>3, <2>1, <2>2, <2>3, <2>4, <2>5, <2>6, <2>7, <2>8, <2>9, <2>10 DEF Syscall
<1> QED
  BY <1>1, <1>2, <1>3 DEF Next

\* Through fork, dup, dup2, close, pipe and exit, for any number of tasks and
\* descriptors: the reference count of a description is the number of descriptors
\* that name it, so file_description_unref frees it with the last one.
THEOREM RefCountsHold == Spec => []RefCountsExact
<1>1. RInv => RefCountsExact
  BY ZenonT(60) DEF RInv, Counted, Holders, RefCountsExact
<1> QED
  BY InitRInv, NextRInv, <1>1, PTL DEF Spec

-----------------------------------------------------------------------------
(* The theorems *)

LEMMA HoldersBounded ==
  ASSUME NEW H, NEW d
  PROVE  Cardinality(Holders(H, d)) \in 0..(MAX_TASKS * TASK_MAX_FDS)
<1>1. /\ IsFiniteSet(Task) /\ Cardinality(Task) = MAX_TASKS
      /\ IsFiniteSet(Fd) /\ Cardinality(Fd) = TASK_MAX_FDS
  <2>1. /\ IsFiniteSet(1..MAX_TASKS)
        /\ Cardinality(1..MAX_TASKS) = IF 1 > MAX_TASKS THEN 0 ELSE MAX_TASKS - 1 + 1
    BY FS_Interval, PipesAssumption
  <2>2. /\ IsFiniteSet(0..(TASK_MAX_FDS - 1))
        /\ Cardinality(0..(TASK_MAX_FDS - 1))
           = IF 0 > TASK_MAX_FDS - 1 THEN 0 ELSE (TASK_MAX_FDS - 1) - 0 + 1
    BY FS_Interval, PipesAssumption
  <2> QED
    BY <2>1, <2>2, PipesAssumption, SMTT(60) DEF Task, Fd
<1>2. IsFiniteSet(Task \X Fd) /\ Cardinality(Task \X Fd) = MAX_TASKS * TASK_MAX_FDS
  BY ZenonT(60), <1>1, FS_Product
<1>3. Holders(H, d) \in SUBSET (Task \X Fd)
  BY Zenon DEF Holders
<1>4. Cardinality(Holders(H, d)) <= MAX_TASKS * TASK_MAX_FDS
  BY <1>2, <1>3, FS_Subset
<1>5. MAX_TASKS * TASK_MAX_FDS \in Nat
  BY PipesAssumption, SMTT(60)
<1> QED
  BY <1>4, <1>5, HoldersFinite, SMTT(60)

LEMMA InvTypes == EInv /\ RInv => TypeOK
<1> SUFFICES ASSUME EInv, RInv PROVE TypeOK
  BY Zenon
<1>1. DescsOK(desc) /\ PipesOK(pipe) /\ WaitsOK(state, wait) /\ Counted(fds, desc)
  BY Zenon, GoodTables, TablesShape DEF Good, Tidy, RInv
<1>2. \A d \in Description : desc[d].ref_count \in 0..(MAX_TASKS * TASK_MAX_FDS)
  BY Zenon, <1>1, HoldersBounded DEF Counted
<1>3. desc \in [Description -> [end: {"free", "console", "read", "write"}, pipe: Pipe \cup {Null},
                               ref_count: 0..(MAX_TASKS * TASK_MAX_FDS)]]
  <2> DEFINE R == [end: {"free", "console", "read", "write"}, pipe: Pipe \cup {Null},
                   ref_count: 0..(MAX_TASKS * TASK_MAX_FDS)]
  <2>1. ASSUME NEW d \in Description PROVE desc[d] \in R
    <3>1. /\ desc[d] = [end |-> desc[d].end, pipe |-> desc[d].pipe, ref_count |-> desc[d].ref_count]
          /\ desc[d].end \in {"free", "console", "read", "write"} /\ desc[d].pipe \in Pipe \cup {Null}
      BY Zenon, <1>1 DEF DescsOK, DescOK
    <3>2. ASSUME NEW e \in {"free", "console", "read", "write"}, NEW p \in Pipe \cup {Null},
                 NEW n \in 0..(MAX_TASKS * TASK_MAX_FDS)
          PROVE  [end |-> e, pipe |-> p, ref_count |-> n] \in R
      BY ZenonT(60)
    <3> HIDE DEF R
    <3>3. [end |-> desc[d].end, pipe |-> desc[d].pipe, ref_count |-> desc[d].ref_count] \in R
      BY ZenonT(60), <1>2, <3>1, <3>2
    <3> QED
      BY Zenon, <3>1, <3>3
  <2> HIDE DEF R
  <2>2. desc = [d \in Description |-> desc[d]]
    BY Zenon, <1>1 DEF DescsOK
  <2>3. desc \in [Description -> R]
    BY Zenon, <2>1, <2>2
  <2> QED
    BY Zenon, <2>3 DEF R
<1>4. ASSUME NEW p \in Pipe
      PROVE  /\ pipe[p].read_pos \in 0..(PIPE_BUFFER_SIZE - 1)
             /\ pipe[p].write_pos \in 0..(PIPE_BUFFER_SIZE - 1)
             /\ pipe[p].count \in 0..PIPE_BUFFER_SIZE
             /\ pipe[p].readers \in {0, 1} /\ pipe[p].writers \in {0, 1}
  <2>1. PipeOK(pipe[p]) /\ pipe[p].readers \in {0, 1} /\ pipe[p].writers \in {0, 1}
    BY Zenon, <1>1 DEF PipesOK, EInv, EndsOK, Joint
  <2> QED
    BY <2>1, PipesAssumption, SMTT(60) DEF PipeOK, Wrap
<1>5. /\ fds \in [Task -> [Fd -> Description \cup {Null}]]
      /\ state \in [Task -> {"DEAD", "READY", "SLEEPING"}]
      /\ wait \in [Task -> [reason: {"NONE", "PIPE_READ", "PIPE_WRITE"}, target: Pipe \cup {Null}]]
      /\ current \in Task \cup {Null}
  BY Zenon, <1>1 DEF EInv, IInv, WaitsOK, Waits
<1> QED
  BY ZenonT(60), <1>3, <1>4, <1>5 DEF TypeOK

LEMMA CountEnds ==
  ASSUME EInv, NEW p, NEW end \in {"read", "write"}
  PROVE  Cardinality(Ends(p, end)) = IF EndOf(desc, end, p) THEN 1 ELSE 0
<1>1. CASE EndOf(desc, end, p)
  <2>1. PICK d \in Description : desc[d].end = end /\ desc[d].pipe = p
    BY Zenon, <1>1 DEF EndOf
  <2>2. Ends(p, end) = {d}
    BY Zenon, <2>1 DEF Ends, EInv, EndsOK, Sole
  <2> QED
    BY Zenon, <1>1, <2>2, FS_Singleton
<1>2. CASE ~EndOf(desc, end, p)
  <2>1. Ends(p, end) = {}
    BY Zenon, <1>2 DEF Ends, EndOf
  <2> QED
    BY Zenon, <1>2, <2>1, FS_EmptySet
<1> QED
  BY Zenon, <1>1, <1>2

\* For any number of tasks, descriptors and pipes and any buffer size, also when
\* pipe() fails half way: while an end of a pipe is open its buffer is allocated, and
\* readers and writers are the numbers of its open read and write ends.
THEOREM PipesLive == Spec => []PipeLivesWithItsEnds
<1>1. EInv /\ RInv => PipeLivesWithItsEnds
  <2> SUFFICES ASSUME EInv, RInv, NEW p \in Pipe, HasEnds(p)
               PROVE  /\ pipe[p].live
                      /\ pipe[p].readers = Cardinality(Ends(p, "read"))
                      /\ pipe[p].writers = Cardinality(Ends(p, "write"))
    BY Zenon, InvTypes DEF PipeLivesWithItsEnds
  <2>1. Joint(desc, pipe[p], p) /\ HasEnd(desc, p)
    BY Zenon, HasEndsEnd DEF EInv, EndsOK
  <2>2. /\ Cardinality(Ends(p, "read")) = IF EndOf(desc, "read", p) THEN 1 ELSE 0
        /\ Cardinality(Ends(p, "write")) = IF EndOf(desc, "write", p) THEN 1 ELSE 0
    BY Zenon, CountEnds
  <2> QED
    BY Zenon, <2>1, <2>2 DEF Joint
<1> QED
  BY InitEInv, NextEInv, InitRInv, NextRInv, <1>1, PTL DEF Spec

=============================================================================
