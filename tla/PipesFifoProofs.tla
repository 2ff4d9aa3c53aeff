-------------------------- MODULE PipesFifoProofs --------------------------
(***************************************************************************)
(* Proof that the ring buffers of Pipes implement the channels of Fifo,    *)
(* for any number of tasks, descriptors and pipes and any buffer size.     *)
(*                                                                         *)
(* The content of a pipe starts at read_pos and wraps around once.  The    *)
(* arithmetic of positions comes first, then what a read, a write and a    *)
(* close do to the content of a pipe, then the step simulation.            *)
(***************************************************************************)
EXTENDS PipesProofs

\* The bytes pipe x holds, oldest first.
Content(x) == [i \in 1..x.count |-> x.data[(x.read_pos + i - 1) % PIPE_BUFFER_SIZE]]

LEMMA QueueIsContent == queue = [p \in Pipe |-> Content(pipe[p])]
BY ZenonT(60) DEF queue, Content

-----------------------------------------------------------------------------
(* Positions *)

LEMMA RingPosition ==
  ASSUME NEW r \in 0..(PIPE_BUFFER_SIZE - 1), NEW i \in 1..PIPE_BUFFER_SIZE
  PROVE  /\ (r + i - 1) % PIPE_BUFFER_SIZE = Wrap(r + i - 1)
         /\ Wrap(r + i - 1) \in 0..(PIPE_BUFFER_SIZE - 1)
<1>1. r + i - 1 \in Int /\ 0 <= r + i - 1 /\ r + i - 1 < 2 * PIPE_BUFFER_SIZE
  BY PipesAssumption, SMTT(60)
<1>2. Wrap(r + i - 1) \in 0..(PIPE_BUFFER_SIZE - 1)
  BY PipesAssumption, SMTT(60) DEF Wrap
<1> QED
  BY Zenon, <1>1, <1>2, ModWrap

\* The read position after n bytes are taken.
LEMMA RingAdvance ==
  ASSUME NEW r \in 0..(PIPE_BUFFER_SIZE - 1), NEW n \in 1..PIPE_BUFFER_SIZE,
         NEW i \in 1..(PIPE_BUFFER_SIZE - n)
  PROVE  /\ (r + n) % PIPE_BUFFER_SIZE \in 0..(PIPE_BUFFER_SIZE - 1)
         /\ (((r + n) % PIPE_BUFFER_SIZE) + i - 1) % PIPE_BUFFER_SIZE = (r + (n + i) - 1) % PIPE_BUFFER_SIZE
<1>1. (r + n) % PIPE_BUFFER_SIZE = Wrap(r + n) /\ Wrap(r + n) \in 0..(PIPE_BUFFER_SIZE - 1)
  <2>1. r + n \in Int /\ 0 <= r + n /\ r + n < 2 * PIPE_BUFFER_SIZE
    BY PipesAssumption, SMTT(60)
  <2>2. Wrap(r + n) \in 0..(PIPE_BUFFER_SIZE - 1)
    BY PipesAssumption, SMTT(60) DEF Wrap
  <2> QED
    BY Zenon, <2>1, <2>2, ModWrap
<1>2. (Wrap(r + n) + i - 1) % PIPE_BUFFER_SIZE = Wrap(Wrap(r + n) + i - 1)
  <2>1. i \in 1..PIPE_BUFFER_SIZE
    BY PipesAssumption, SMTT(60)
  <2> QED
    BY Zenon, <1>1, <2>1, RingPosition
<1>3. (r + (n + i) - 1) % PIPE_BUFFER_SIZE = Wrap(r + (n + i) - 1)
  <2>1. n + i \in 1..PIPE_BUFFER_SIZE
    BY PipesAssumption, SMTT(60)
  <2> QED
    BY Zenon, <2>1, RingPosition
<1>4. Wrap(Wrap(r + n) + i - 1) = Wrap(r + (n + i) - 1)
  BY PipesAssumption, SMTT(60) DEF Wrap
<1> QED
  BY Zenon, <1>1, <1>2, <1>3, <1>4

LEMMA ModNegative ==
  ASSUME NEW a \in Int, - PIPE_BUFFER_SIZE <= a, a < PIPE_BUFFER_SIZE
  PROVE  a % PIPE_BUFFER_SIZE = IF a < 0 THEN a + PIPE_BUFFER_SIZE ELSE a
<1> DEFINE S == PIPE_BUFFER_SIZE
<1>0. S \in Nat \ {0}
  BY Zenon, PipesAssumption
<1>1. -S <= a /\ a < S
  BY Zenon
<1> HIDE DEF S
<1>2. CASE a < 0
  <2>1. a % S = a + S
    BY <1>0, <1>1, <1>2, SMTT(60)
  <2> QED
    BY Zenon, <1>2, <2>1 DEF S
<1>3. CASE ~(a < 0)
  <2>1. a % S = a
    BY <1>0, <1>1, <1>3, SMTT(60)
  <2> QED
    BY Zenon, <1>3, <2>1 DEF S
<1> QED
  BY Zenon, <1>2, <1>3

\* How far the i-th position from r lies ahead of the write position, with c bytes
\* in the ring: behind all free places for a byte it holds, and at place i - c for a
\* free one.
LEMMA RingDistance ==
  ASSUME NEW r \in 0..(PIPE_BUFFER_SIZE - 1), NEW c \in 0..PIPE_BUFFER_SIZE,
         NEW i \in 1..PIPE_BUFFER_SIZE
  PROVE  (((r + i - 1) % PIPE_BUFFER_SIZE) - Wrap(r + c)) % PIPE_BUFFER_SIZE
           = IF i <= c THEN (PIPE_BUFFER_SIZE - c) + (i - 1) ELSE (i - c) - 1
<1> DEFINE a == Wrap(r + i - 1) - Wrap(r + c)
<1>1. (r + i - 1) % PIPE_BUFFER_SIZE = Wrap(r + i - 1)
  BY Zenon, RingPosition
<1>2. a \in Int /\ - PIPE_BUFFER_SIZE <= a /\ a < PIPE_BUFFER_SIZE
  BY PipesAssumption, SMTT(60) DEF Wrap
<1>3. (IF a < 0 THEN a + PIPE_BUFFER_SIZE ELSE a)
        = IF i <= c THEN (PIPE_BUFFER_SIZE - c) + (i - 1) ELSE (i - c) - 1
  BY PipesAssumption, SMTT(60) DEF Wrap
<1> HIDE DEF a
<1>4. a % PIPE_BUFFER_SIZE = IF a < 0 THEN a + PIPE_BUFFER_SIZE ELSE a
  BY Zenon, <1>2, ModNegative
<1> QED
  BY Zenon, <1>1, <1>3, <1>4 DEF a

-----------------------------------------------------------------------------
(* Contents *)

Bytes(x) == {x.data[i] : i \in 0..(PIPE_BUFFER_SIZE - 1)}

LEMMA ContentSeq ==
  ASSUME NEW x, PipeOK(x)
  PROVE  /\ Content(x) \in Seq(Bytes(x)) /\ Len(Content(x)) = x.count
         /\ \A i \in 1..x.count : Content(x)[i] = x.data[(x.read_pos + i - 1) % PIPE_BUFFER_SIZE]
<1>1. x.count \in Nat /\ x.count <= PIPE_BUFFER_SIZE /\ x.read_pos \in 0..(PIPE_BUFFER_SIZE - 1)
  BY PipesAssumption, SMTT(60) DEF PipeOK
<1>2. \A i \in 1..x.count : (x.read_pos + i - 1) % PIPE_BUFFER_SIZE \in 0..(PIPE_BUFFER_SIZE - 1)
  <2> SUFFICES ASSUME NEW i \in 1..x.count
               PROVE  (x.read_pos + i - 1) % PIPE_BUFFER_SIZE \in 0..(PIPE_BUFFER_SIZE - 1)
    BY Zenon
  <2>1. i \in 1..PIPE_BUFFER_SIZE
    BY <1>1, PipesAssumption, SMTT(60)
  <2> QED
    BY Zenon, <1>1, <2>1, RingPosition
<1>3. Content(x) \in [1..x.count -> Bytes(x)]
  BY Zenon, <1>2 DEF Content, Bytes
<1>4. \A i \in 1..x.count : Content(x)[i] = x.data[(x.read_pos + i - 1) % PIPE_BUFFER_SIZE]
  BY Zenon DEF Content
<1>5. Content(x) \in Seq(Bytes(x)) /\ Len(Content(x)) = x.count
  BY <1>1, <1>3, SMTT(60)
<1> QED
  BY Zenon, <1>4, <1>5

LEMMA EmptyContent ==
  ASSUME NEW x, x.count = 0
  PROVE  Content(x) = << >>
BY SMTT(60) DEF Content

LEMMA ReadContent ==
  ASSUME NEW x, PipeOK(x), NEW n \in 1..x.count, NEW y, y.data = x.data, y.count = x.count - n,
         y.read_pos = (x.read_pos + n) % PIPE_BUFFER_SIZE
  PROVE  /\ n \in 1..Len(Content(x))
         /\ Content(y) = SubSeq(Content(x), n + 1, Len(Content(x)))
         /\ [i \in 1..n |-> x.data[(x.read_pos + i - 1) % PIPE_BUFFER_SIZE]] = SubSeq(Content(x), 1, n)
<1> DEFINE C == Content(x)
<1>1. /\ C \in Seq(Bytes(x)) /\ Len(C) = x.count
      /\ \A i \in 1..x.count : C[i] = x.data[(x.read_pos + i - 1) % PIPE_BUFFER_SIZE]
  BY Zenon, ContentSeq
<1>2. /\ x.count \in Nat /\ x.count <= PIPE_BUFFER_SIZE /\ x.read_pos \in 0..(PIPE_BUFFER_SIZE - 1)
      /\ n \in Int /\ 1 <= n /\ n <= x.count
  BY PipesAssumption, SMTT(60) DEF PipeOK
<1> HIDE DEF C
<1>3. SubSeq(C, n + 1, Len(C)) = [i \in 1..(Len(C) - n) |-> C[n + i]]
  BY <1>1, <1>2, SMTT(60)
<1>4. SubSeq(C, 1, n) = [i \in 1..n |-> C[i]]
  BY <1>1, <1>2, SMTT(60)
<1>5. ASSUME NEW i \in 1..(x.count - n)
      PROVE  C[n + i] = y.data[(y.read_pos + i - 1) % PIPE_BUFFER_SIZE]
  <2>1. i \in 1..(PIPE_BUFFER_SIZE - n) /\ n \in 1..PIPE_BUFFER_SIZE /\ n + i \in 1..x.count
    BY <1>2, PipesAssumption, SMTT(60)
  <2>2. (y.read_pos + i - 1) % PIPE_BUFFER_SIZE = (x.read_pos + (n + i) - 1) % PIPE_BUFFER_SIZE
    BY <1>2, <2>1, RingAdvance
  <2>3. C[n + i] = x.data[(x.read_pos + (n + i) - 1) % PIPE_BUFFER_SIZE]
    BY Zenon, <1>1, <2>1
  <2> QED
    BY Zenon, <2>2, <2>3
<1>6. Content(y) = [i \in 1..(x.count - n) |-> C[n + i]]
  BY Zenon, <1>5 DEF Content
<1>7. \A i \in 1..n : C[i] = x.data[(x.read_pos + i - 1) % PIPE_BUFFER_SIZE]
  BY <1>1, <1>2, SMTT(60)
<1>8. [i \in 1..n |-> x.data[(x.read_pos + i - 1) % PIPE_BUFFER_SIZE]] = SubSeq(C, 1, n)
  BY Zenon, <1>4, <1>7
<1> QED
  BY Zenon, <1>1, <1>2, <1>3, <1>6, <1>8 DEF C

LEMMA ConcatFunction ==
  ASSUME NEW S, NEW f \in Seq(S), NEW g \in Seq(S)
  PROVE  f \o g = [i \in 1..(Len(f) + Len(g)) |-> IF i <= Len(f) THEN f[i] ELSE g[i - Len(f)]]
<1> DEFINE h == f \o g
<1>1. /\ h \in Seq(S) /\ Len(h) = Len(f) + Len(g)
      /\ \A i \in 1..(Len(f) + Len(g)) : h[i] = IF i <= Len(f) THEN f[i] ELSE g[i - Len(f)]
  BY SMTT(60)
<1> HIDE DEF h
<1>2. h = [i \in 1..Len(h) |-> h[i]]
  BY <1>1, SMTT(60)
<1>3. h = [i \in 1..(Len(f) + Len(g)) |-> IF i <= Len(f) THEN f[i] ELSE g[i - Len(f)]]
  BY Zenon, <1>1, <1>2
<1> QED
  BY Zenon, <1>3 DEF h

LEMMA WriteContent ==
  ASSUME NEW x, PipeOK(x), NEW B, NEW s \in Seq(B), Len(s) \in 1..(PIPE_BUFFER_SIZE - x.count),
         NEW y, y.count = x.count + Len(s), y.read_pos = x.read_pos,
         y.data = [i \in 0..(PIPE_BUFFER_SIZE - 1) |->
                     LET j == (i - x.write_pos) % PIPE_BUFFER_SIZE
                     IN IF j < Len(s) THEN s[j + 1] ELSE x.data[i]]
  PROVE  Content(y) = Content(x) \o s
<1> DEFINE C == Content(x)
           U == Bytes(x) \cup B
<1>1. /\ C \in Seq(Bytes(x)) /\ Len(C) = x.count
      /\ \A i \in 1..x.count : C[i] = x.data[(x.read_pos + i - 1) % PIPE_BUFFER_SIZE]
  BY Zenon, ContentSeq
<1>2. /\ x.count \in 0..PIPE_BUFFER_SIZE /\ x.read_pos \in 0..(PIPE_BUFFER_SIZE - 1)
      /\ x.write_pos = Wrap(x.read_pos + x.count) /\ Len(s) \in Nat
      /\ x.count + Len(s) <= PIPE_BUFFER_SIZE
  BY PipesAssumption, SMTT(60) DEF PipeOK
<1> HIDE DEF C
<1>3. C \o s = [i \in 1..(x.count + Len(s)) |-> IF i <= x.count THEN C[i] ELSE s[i - x.count]]
  <2>1. C \in Seq(U) /\ s \in Seq(U)
    BY <1>1, SMTT(60)
  <2> HIDE DEF U
  <2>2. C \o s = [i \in 1..(Len(C) + Len(s)) |-> IF i <= Len(C) THEN C[i] ELSE s[i - Len(C)]]
    BY <2>1, ConcatFunction
  <2> QED
    BY Zenon, <1>1, <2>2
<1>4. ASSUME NEW i \in 1..(x.count + Len(s))
      PROVE  y.data[(y.read_pos + i - 1) % PIPE_BUFFER_SIZE]
               = IF i <= x.count THEN C[i] ELSE s[i - x.count]
  <2> DEFINE a == (x.read_pos + i - 1) % PIPE_BUFFER_SIZE
             j == (a - x.write_pos) % PIPE_BUFFER_SIZE
  <2>1. i \in 1..PIPE_BUFFER_SIZE /\ i \in Int /\ 1 <= i
    BY <1>2, PipesAssumption, SMTT(60)
  <2>2. a \in 0..(PIPE_BUFFER_SIZE - 1)
    BY ZenonT(60), <1>2, <2>1, RingPosition
  <2>3. j = IF i <= x.count THEN (PIPE_BUFFER_SIZE - x.count) + (i - 1) ELSE (i - x.count) - 1
    <3>1. PICK r \in 0..(PIPE_BUFFER_SIZE - 1), c \in 0..PIPE_BUFFER_SIZE :
            r = x.read_pos /\ c = x.count
      BY Zenon, <1>2
    <3>2. (((r + i - 1) % PIPE_BUFFER_SIZE) - Wrap(r + c)) % PIPE_BUFFER_SIZE
            = IF i <= c THEN (PIPE_BUFFER_SIZE - c) + (i - 1) ELSE (i - c) - 1
      BY Zenon, <2>1, RingDistance
    <3> QED
      BY Zenon, <1>2, <3>1, <3>2
  <2>4. y.data[a] = IF j < Len(s) THEN s[j + 1] ELSE x.data[a]
    BY Zenon, <2>2
  <2>5. a = (y.read_pos + i - 1) % PIPE_BUFFER_SIZE
    BY Zenon
  <2>6. i <= x.count => C[i] = x.data[a]
    BY <1>1, <1>2, <2>1, SMTT(60)
  <2> HIDE DEF a, j
  <2>7. CASE i <= x.count
    <3>1. ~(j < Len(s))
      BY <1>2, <2>1, <2>3, <2>7, PipesAssumption, SMTT(60)
    <3> QED
      BY Zenon, <2>4, <2>5, <2>6, <2>7, <3>1
  <2>8. CASE ~(i <= x.count)
    <3>1. j < Len(s) /\ j + 1 = i - x.count
      BY <1>2, <2>1, <2>3, <2>8, PipesAssumption, SMTT(60)
    <3> QED
      BY Zenon, <2>4, <2>5, <2>8, <3>1
  <2> QED
    BY Zenon, <2>7, <2>8
<1>5. Content(y) = [i \in 1..(x.count + Len(s)) |-> IF i <= x.count THEN C[i] ELSE s[i - x.count]]
  BY Zenon, <1>4 DEF Content
<1> QED
  BY Zenon, <1>3, <1>5 DEF C

-----------------------------------------------------------------------------
(* The steps *)

\* Between pipes P and Q nothing happened but that p may have been emptied.
Drains(P, Q, p) ==
  \A q \in Pipe : \/ Content(Q[q]) = Content(P[q])
                  \/ q = p /\ Content(Q[q]) = << >>

LEMMA DrainsTransitive ==
  ASSUME NEW P, NEW Q, NEW R, NEW p, Drains(P, Q, p), Drains(Q, R, p)
  PROVE  Drains(P, R, p)
BY Zenon DEF Drains

LEMMA DrainsFifo ==
  ASSUME NEW p, Drains(pipe, pipe', p), received' = << >>
  PROVE  F!Next
<1>1. CASE p \in Pipe /\ Content(pipe'[p]) = << >>
  <2>1. \A q \in Pipe : Content(pipe'[q]) = IF q = p THEN << >> ELSE Content(pipe[q])
    BY Zenon, <1>1 DEF Drains
  <2>2. queue' = [q \in Pipe |-> Content(pipe'[q])]
    BY Zenon DEF queue, Content
  <2>3. queue' = [queue EXCEPT ![p] = << >>]
    BY Zenon, <1>1, <2>1, <2>2, QueueIsContent
  <2>4. F!Create(p)
    BY Zenon, <2>3 DEF F!Create
  <2> QED
    BY Zenon, <1>1, <2>4 DEF F!Next
<1>2. CASE ~(p \in Pipe /\ Content(pipe'[p]) = << >>)
  <2>1. \A q \in Pipe : Content(pipe'[q]) = Content(pipe[q])
    BY Zenon, <1>2 DEF Drains
  <2>2. queue' = [q \in Pipe |-> Content(pipe'[q])]
    BY Zenon DEF queue, Content
  <2>3. queue' = queue
    BY Zenon, <2>1, <2>2, QueueIsContent
  <2> QED
    BY Zenon, <2>3 DEF F!Next, F!Nothing
<1> QED
  BY Zenon, <1>1, <1>2

LEMMA StillFifo ==
  ASSUME pipe' = pipe, received' = << >>
  PROVE  F!Next
<1>1. Drains(pipe, pipe', Null)
  BY Zenon DEF Drains
<1> QED
  BY Zenon, <1>1, DrainsFifo

LEMMA ClosedContent ==
  ASSUME NEW x, PipeOK(x), NEW end \in {"read", "write"}, NEW y, y = Closed(x, end)
  PROVE  Content(y) = Content(x) \/ Content(y) = << >>
<1>1. LET c == Closing(x, end)
      IN c.data = x.data /\ c.read_pos = x.read_pos /\ c.count = x.count
  BY Zenon DEF Closing, PipeOK
<1>2. Content(Closing(x, end)) = Content(x)
  BY Zenon, <1>1 DEF Content
<1>3. Content(FreePipe) = << >>
  <2>1. FreePipe.count = 0
    BY Zenon DEF FreePipe
  <2> QED
    BY Zenon, <2>1, EmptyContent
<1> QED
  BY Zenon, <1>2, <1>3 DEF Closed

LEMMA UnrefDrains ==
  ASSUME NEW k, Good(k), NEW d \in Description
  PROVE  Drains(k.pipe, file_description_unref(k, d).pipe, k.desc[d].pipe)
<1> DEFINE r == file_description_unref(k, d)
           p == k.desc[d].pipe
<1>1. CASE k.desc[d].ref_count > 1 \/ k.desc[d].end \notin {"read", "write"}
  <2>1. r.pipe = k.pipe
    BY Zenon, <1>1, UnrefPipe
  <2> QED
    BY Zenon, <2>1 DEF Drains
<1>2. CASE ~(k.desc[d].ref_count > 1 \/ k.desc[d].end \notin {"read", "write"})
  <2>1. r.pipe[p] = Closed(k.pipe[p], k.desc[d].end) /\ \A q \in Pipe \ {p} : r.pipe[q] = k.pipe[q]
    BY Zenon, <1>2, UnrefPipe
  <2>2. p \in Pipe /\ PipeOK(k.pipe[p])
    BY Zenon, <1>2 DEF Good, Tidy, DescsOK, DescOK, PipesOK
  <2> HIDE DEF r, p
  <2>3. Content(r.pipe[p]) = Content(k.pipe[p]) \/ Content(r.pipe[p]) = << >>
    BY Zenon, <1>2, <2>1, <2>2, ClosedContent
  <2>4. Drains(k.pipe, r.pipe, p)
    BY Zenon, <2>1, <2>3 DEF Drains
  <2> QED
    BY Zenon, <2>4 DEF r, p
<1> QED
  BY Zenon, <1>1, <1>2

LEMMA CloseFifo ==
  ASSUME IInv, NEW t \in Task, NEW f \in Fd, sys_close(t, f)
  PROVE  F!Next
<1>1. PICK d \in Description : d = fds[t][f]
  BY Zenon, OpenDescription DEF sys_close
<1>2. PICK k : k = file_description_unref(Tables, d) /\ Become(k) /\ received' = << >>
  BY Zenon, <1>1 DEF sys_close
<1>3. Drains(Tables.pipe, k.pipe, Tables.desc[d].pipe)
  BY Zenon, <1>2, UnrefDrains DEF IInv
<1>4. Drains(pipe, pipe', desc[d].pipe)
  BY Zenon, <1>2, <1>3, TablesShape DEF Become
<1> QED
  BY Zenon, <1>2, <1>4, DrainsFifo

LEMMA DuplicateFifo ==
  ASSUME IInv, NEW t \in Task, NEW old \in Fd, NEW new, Open(t, old), Duplicate(t, old, new),
         received' = << >>
  PROVE  F!Next
<1>1. PICK o \in Description : o = fds[t][old]
  BY Zenon, OpenDescription
<1>2. pipe' = [Tables EXCEPT !.desc[o].ref_count = @ + 1].pipe
  BY Zenon, <1>1 DEF Duplicate, Become
<1>3. [Tables EXCEPT !.desc[o].ref_count = @ + 1].pipe = Tables.pipe
  BY Zenon, RefPipe DEF IInv
<1> QED
  BY Zenon, <1>2, <1>3, TablesShape, StillFifo

LEMMA ReplaceFifo ==
  ASSUME IInv, NEW t \in Task, NEW old \in Fd, NEW new \in Fd, Open(t, old), Open(t, new),
         NEW k, k = file_description_unref(Tables, fds[t][new]),
         pipe' = [k EXCEPT !.desc[fds[t][old]].ref_count = @ + 1].pipe, received' = << >>
  PROVE  F!Next
<1>1. PICK o \in Description, v \in Description : o = fds[t][old] /\ v = fds[t][new]
  BY Zenon, OpenDescription
<1>2. Good(Tables) /\ k = file_description_unref(Tables, v)
  BY Zenon, <1>1 DEF IInv
<1>3. Good(k) /\ Drains(Tables.pipe, k.pipe, Tables.desc[v].pipe)
  BY Zenon, <1>2, UnrefGood, UnrefDrains
<1>4. [k EXCEPT !.desc[o].ref_count = @ + 1].pipe = k.pipe
  BY Zenon, <1>3, RefPipe
<1>5. Drains(pipe, pipe', Tables.desc[v].pipe)
  BY Zenon, <1>1, <1>3, <1>4, TablesShape
<1> QED
  BY Zenon, <1>5, DrainsFifo

LEMMA PipeFifo ==
  ASSUME IInv, NEW t \in Task, sys_pipe(t)
  PROVE  F!Next
<1>0. PICK p \in Pipe, r \in Description, w \in Description : \E n, b : Making(t, p, r, w, n, b)
  BY Zenon, PipeCases
<1>1. PICK n, b : Making(t, p, r, w, n, b)
  BY Zenon, <1>0
<1>2. received' = << >>
  BY Zenon DEF sys_pipe
<1>3. Good(n) /\ n.pipe[p].count = 0 /\ \A q \in Pipe \ {p} : n.pipe[q] = pipe[q]
  BY <1>1, PipeCreated DEF Making
<1>4. Drains(pipe, n.pipe, p)
  BY Zenon, <1>3, EmptyContent DEF Drains
<1>5. Good(b) /\ b.pipe = n.pipe /\ b.desc[r].pipe = p /\ b.desc[w].pipe = p
  <2>1. w # r /\ b = Described(Described(n, r, "read", p), w, "write", p)
    BY Zenon, <1>1 DEF Making
  <2>2. Good(b) /\ b.pipe = n.pipe /\ b.desc[r] = NewEnd("read", p) /\ b.desc[w] = NewEnd("write", p)
    BY <1>3, <2>1, BothDescribed
  <2> QED
    BY <2>2 DEF NewEnd
<1>6. CASE Become(b)
  BY Zenon, <1>2, <1>4, <1>5, <1>6, DrainsFifo DEF Become
<1>7. CASE Become(n)
  BY Zenon, <1>2, <1>4, <1>7, DrainsFifo DEF Become
<1>8. CASE Become(file_description_unref(file_description_unref(b, w), r))
  <2>1. PICK x, y : x = file_description_unref(b, w) /\ y = file_description_unref(x, r) /\ Become(y)
    BY Zenon, <1>8
  <2>2. Good(x) /\ Drains(b.pipe, x.pipe, p) /\ Released(b.desc, x.desc, w)
    BY Zenon, <1>5, <2>1, UnrefGood, UnrefDrains, UnrefEffect
  <2>3. x.desc[r].pipe = p
    BY Zenon, <1>1, <1>5, <2>2 DEF Released, Making
  <2>4. Drains(x.pipe, y.pipe, p)
    BY Zenon, <2>1, <2>2, <2>3, UnrefDrains
  <2>5. Drains(pipe, y.pipe, p)
    BY Zenon, <1>4, <1>5, <2>2, <2>4, DrainsTransitive
  <2> QED
    BY Zenon, <1>2, <2>1, <2>5, DrainsFifo DEF Become
<1>9. ASSUME NEW end \in {"read", "write"}, Become(file_description_unref(Described(n, r, end, p), r))
      PROVE  F!Next
  <2>1. PICK o, y : o = Described(n, r, end, p) /\ y = file_description_unref(o, r) /\ Become(y)
    BY Zenon, <1>9
  <2>2. Good(o) /\ Adds(n, o, r, NewEnd(end, p))
    BY Zenon, <1>3, <2>1, DescribedEffect
  <2>3. o.pipe = n.pipe /\ o.desc[r].pipe = p
    BY <2>2 DEF Adds, NewEnd
  <2>4. Drains(o.pipe, y.pipe, p)
    BY Zenon, <2>1, <2>2, <2>3, UnrefDrains
  <2>5. Drains(pipe, y.pipe, p)
    BY Zenon, <1>4, <2>3, <2>4, DrainsTransitive
  <2> QED
    BY Zenon, <1>2, <2>1, <2>5, DrainsFifo DEF Become
<1> QED
  BY Zenon, <1>1, <1>6, <1>7, <1>8, <1>9 DEF Making

\* A step that changes the content of pipe p alone, to what a channel may hold next.
LEMMA OneChanges ==
  ASSUME NEW p \in Pipe, NEW c, Content(pipe'[p]) = c,
         \A q \in Pipe \ {p} : pipe'[q] = pipe[q]
  PROVE  queue' = [queue EXCEPT ![p] = c] /\ queue[p] = Content(pipe[p])
<1>1. \A q \in Pipe : Content(pipe'[q]) = IF q = p THEN c ELSE Content(pipe[q])
  BY Zenon
<1>2. queue' = [q \in Pipe |-> Content(pipe'[q])]
  BY Zenon DEF queue, Content
<1> QED
  BY Zenon, <1>1, <1>2, QueueIsContent

LEMMA ReadFifo ==
  ASSUME IInv, NEW t \in Task, NEW f \in Fd, NEW size \in 1..PIPE_BUFFER_SIZE, pipe_read(t, f, size)
  PROVE  F!Next
<1>1. PICK p, n :
        /\ p = desc[fds[t][f]].pipe
        /\ n = IF size < pipe[p].count THEN size ELSE pipe[p].count
        /\ received' = [i \in 1..n |-> pipe[p].data[(pipe[p].read_pos + i - 1) % PIPE_BUFFER_SIZE]]
        /\ Become(IF n > 0 THEN Read(Tables, p, n)
                  ELSE IF pipe[p].writers = 0 THEN Tables ELSE Sleep(Tables, t, "PIPE_READ", p))
  BY ZenonT(60) DEF pipe_read
<1>2. p \in Pipe
  BY Zenon, <1>1, OpenDescription DEF pipe_read, DescOK
<1>3. PipesOK(pipe) /\ PipeOK(pipe[p])
  BY <1>2, TablesShape DEF IInv, Good, Tidy, PipesOK
<1>4. n \in 0..pipe[p].count
  <2>1. pipe[p].count \in 0..PIPE_BUFFER_SIZE
    BY Zenon, <1>3 DEF PipeOK
  <2>2. n = IF size < pipe[p].count THEN size ELSE pipe[p].count
    BY Zenon, <1>1
  <2> QED
    BY <2>1, <2>2, PipesAssumption, SMTT(60)
<1>5. CASE n > 0
  <2> DEFINE a == [Tables EXCEPT !.pipe[p].read_pos = (@ + n) % PIPE_BUFFER_SIZE, !.pipe[p].count = @ - n]
  <2>1. Read(Tables, p, n) = Wake(a, "PIPE_WRITE", p)
    BY Zenon DEF Read
  <2>2. /\ Shape(a) /\ \A q \in Pipe \ {p} : a.pipe[q] = pipe[q]
        /\ a.pipe[p].data = pipe[p].data /\ a.pipe[p].count = pipe[p].count - n
        /\ a.pipe[p].read_pos = (pipe[p].read_pos + n) % PIPE_BUFFER_SIZE
    BY ZenonT(60), <1>2, <1>3, TablesShape DEF Shape, PipesOK, PipeOK
  <2> HIDE DEF a
  <2>3. pipe' = a.pipe
    <3>1. Become(Wake(a, "PIPE_WRITE", p))
      BY Zenon, <1>1, <1>5, <2>1
    <3>2. Wake(a, "PIPE_WRITE", p).pipe = a.pipe
      BY ZenonT(60), <2>2, WakePipe
    <3> QED
      BY Zenon, <3>1, <3>2 DEF Become
  <2>4. n \in 1..pipe[p].count
    BY <1>4, <1>5, <1>3, SMTT(60) DEF PipeOK
  <2> DEFINE C == Content(pipe[p])
  <2>5. /\ n \in 1..Len(C) /\ Content(pipe'[p]) = SubSeq(C, n + 1, Len(C))
        /\ received' = SubSeq(C, 1, n)
    <3>1. PICK x, y : x = pipe[p] /\ y = pipe'[p]
      BY Zenon
    <3>2. /\ n \in 1..Len(Content(x)) /\ Content(y) = SubSeq(Content(x), n + 1, Len(Content(x)))
          /\ [i \in 1..n |-> x.data[(x.read_pos + i - 1) % PIPE_BUFFER_SIZE]] = SubSeq(Content(x), 1, n)
      <4>1. /\ PipeOK(x) /\ n \in 1..x.count /\ y.data = x.data /\ y.count = x.count - n
            /\ y.read_pos = (x.read_pos + n) % PIPE_BUFFER_SIZE
        BY Zenon, <1>3, <2>2, <2>3, <2>4, <3>1
      <4> QED
        BY Zenon, <4>1, ReadContent
    <3> QED
      BY ZenonT(60), <1>1, <3>1, <3>2
  <2> HIDE DEF C
  <2>6. queue' = [queue EXCEPT ![p] = SubSeq(C, n + 1, Len(C))] /\ queue[p] = C
    BY Zenon, <1>2, <2>2, <2>3, <2>5, OneChanges DEF C
  <2>7. F!Read(p)
    BY Zenon, <2>5, <2>6 DEF F!Read
  <2> QED
    BY Zenon, <1>2, <2>7 DEF F!Next
<1>6. CASE ~(n > 0)
  <2>1. Sleep(Tables, t, "PIPE_READ", p).pipe = pipe
    BY Zenon, TablesShape DEF Shape, Sleep
  <2>2. pipe' = pipe
    BY Zenon, <1>1, <1>6, <2>1, TablesShape DEF Become
  <2>3. n = 0
    BY <1>3, <1>4, <1>6, SMTT(60) DEF PipeOK
  <2>4. received' = << >>
    <3>1. received' = [i \in 1..0 |-> pipe[p].data[(pipe[p].read_pos + i - 1) % PIPE_BUFFER_SIZE]]
      BY Zenon, <1>1, <2>3
    <3> QED
      BY <3>1, SMTT(60)
  <2> QED
    BY Zenon, <2>2, <2>4, StillFifo
<1> QED
  BY Zenon, <1>5, <1>6

LEMMA WriteFifo ==
  ASSUME IInv, NEW t \in Task, NEW f \in Fd, NEW s \in Buffers, pipe_write(t, f, s)
  PROVE  F!Next
<1>1. PICK p, n :
        /\ p = desc[fds[t][f]].pipe
        /\ n = IF Len(s) < PIPE_BUFFER_SIZE - pipe[p].count THEN Len(s)
               ELSE PIPE_BUFFER_SIZE - pipe[p].count
        /\ received' = << >>
        /\ Become(IF n > 0 THEN Write(Tables, p, SubSeq(s, 1, n)) ELSE Sleep(Tables, t, "PIPE_WRITE", p))
  BY ZenonT(60) DEF pipe_write
<1>2. p \in Pipe
  BY Zenon, <1>1, OpenDescription DEF pipe_write, DescOK
<1>3. PipesOK(pipe) /\ PipeOK(pipe[p])
  BY Zenon, <1>2, TablesShape DEF IInv, Good, Tidy, PipesOK
<1>4. s \in Seq(Byte) /\ Len(s) \in Nat \ {0}
  <2>1. PICK m \in 1..MaxWrite : s \in [1..m -> Byte]
    BY Zenon DEF Buffers
  <2> QED
    BY <2>1, PipesAssumption, SMTT(60)
<1>5. CASE n > 0
  <2>1. n \in 1..Len(s) /\ n \in 1..(PIPE_BUFFER_SIZE - pipe[p].count)
    <3>1. pipe[p].count \in 0..PIPE_BUFFER_SIZE
      BY Zenon, <1>3 DEF PipeOK
    <3>2. n = IF Len(s) < PIPE_BUFFER_SIZE - pipe[p].count THEN Len(s)
              ELSE PIPE_BUFFER_SIZE - pipe[p].count
      BY Zenon, <1>1
    <3> QED
      BY <1>4, <1>5, <3>1, <3>2, PipesAssumption, SMTT(60)
  <2>2. PICK u : u = SubSeq(s, 1, n)
    BY Zenon
  <2>3. u \in Seq(Byte) /\ Len(u) = n /\ u \in [1..n -> Byte]
    <3>1. n \in Nat /\ 1 <= n /\ n <= Len(s)
      BY <1>4, <2>1, SMTT(60)
    <3>2. u = [i \in 1..n |-> s[i]] /\ \A i \in 1..n : s[i] \in Byte
      BY <1>4, <2>2, <3>1, SMTT(60)
    <3>3. u \in [1..n -> Byte]
      BY Zenon, <3>2
    <3> QED
      BY <3>1, <3>3, SMTT(60)
  <2> DEFINE D == [i \in 0..(PIPE_BUFFER_SIZE - 1) |->
                     LET j == (i - Tables.pipe[p].write_pos) % PIPE_BUFFER_SIZE
                     IN IF j < Len(u) THEN u[j + 1] ELSE Tables.pipe[p].data[i]]
             a == [Tables EXCEPT !.pipe[p].data = D,
                                 !.pipe[p].write_pos = (@ + Len(u)) % PIPE_BUFFER_SIZE,
                                 !.pipe[p].count = @ + Len(u)]
  <2>4. Write(Tables, p, u) = Wake(a, "PIPE_READ", p)
    BY Zenon DEF Write
  <2>5. D = [i \in 0..(PIPE_BUFFER_SIZE - 1) |->
               LET j == (i - pipe[p].write_pos) % PIPE_BUFFER_SIZE
               IN IF j < Len(u) THEN u[j + 1] ELSE pipe[p].data[i]]
    BY Zenon, TablesShape
  <2> HIDE DEF D
  <2>6. /\ Shape(a) /\ \A q \in Pipe \ {p} : a.pipe[q] = pipe[q]
        /\ a.pipe[p].data = D /\ a.pipe[p].count = pipe[p].count + Len(u)
        /\ a.pipe[p].read_pos = pipe[p].read_pos
    BY <1>2, <1>3, TablesShape, SMTT(60) DEF Shape, PipesOK, PipeOK
  <2> HIDE DEF a
  <2>7. pipe' = a.pipe
    <3>1. Become(Wake(a, "PIPE_READ", p))
      BY Zenon, <1>1, <1>5, <2>2, <2>4
    <3>2. Wake(a, "PIPE_READ", p).pipe = a.pipe
      BY ZenonT(60), <2>6, WakePipe
    <3> QED
      BY Zenon, <3>1, <3>2 DEF Become
  <2> DEFINE C == Content(pipe[p])
  <2>8. Content(pipe'[p]) = C \o u
    BY ZenonT(60), <1>3, <2>1, <2>3, <2>5, <2>6, <2>7, WriteContent
  <2>9. Len(C) = pipe[p].count
    BY Zenon, <1>3, ContentSeq
  <2> HIDE DEF C
  <2>10. queue' = [queue EXCEPT ![p] = C \o u] /\ queue[p] = C
    BY Zenon, <1>2, <2>6, <2>7, <2>8, OneChanges DEF C
  <2>11. F!Write(p)
    BY Zenon, <1>1, <2>1, <2>3, <2>9, <2>10 DEF F!Write
  <2> QED
    BY Zenon, <1>2, <2>11 DEF F!Next
<1>6. CASE ~(n > 0)
  <2>1. Sleep(Tables, t, "PIPE_WRITE", p).pipe = pipe
    BY Zenon, TablesShape DEF Shape, Sleep
  <2> QED
    BY Zenon, <1>1, <1>6, <2>1, StillFifo DEF Become
<1> QED
  BY Zenon, <1>5, <1>6

LEMMA TerminateStill ==
  ASSUME NEW u, scheduler_terminate_task(u)
  PROVE  pipe' = pipe
BY Zenon DEF scheduler_terminate_task

LEMMA NextFifo == IInv /\ [Next]_vars => [F!Next]_<<queue, received>>
<1> SUFFICES ASSUME IInv, [Next]_vars PROVE F!Next \/ UNCHANGED <<queue, received>>
  BY Zenon
<1>1. CASE UNCHANGED vars
  BY Zenon, <1>1 DEF vars, queue
<1>2. CASE scheduler_tick
  BY Zenon, <1>2, StillFifo DEF scheduler_tick
<1>3. ASSUME NEW t \in Task, Syscall(t) PROVE F!Next
  <2>1. CASE sys_pipe(t)
    BY Zenon, <2>1, PipeFifo
  <2>2. CASE fork(t)
    BY Zenon, <2>2, StillFifo DEF fork
  <2>3. ASSUME NEW u \in Task, terminate(t, u) PROVE F!Next
    BY Zenon, <2>3, TerminateStill, StillFifo DEF terminate
  <2>4. ASSUME NEW u \in Task, scheduler_send_signal(t, u) PROVE F!Next
    BY Zenon, <2>4, StillFifo DEF scheduler_send_signal
  <2>5. ASSUME NEW f \in Fd, sys_close(t, f) PROVE F!Next
    BY Zenon, <2>5, CloseFifo
  <2>6. ASSUME NEW f \in Fd, pipe_write_broken(t, f) PROVE F!Next
    BY Zenon, <2>6, TerminateStill, StillFifo DEF pipe_write_broken
  <2>7. ASSUME NEW f \in Fd, NEW size \in 1..PIPE_BUFFER_SIZE, pipe_read(t, f, size) PROVE F!Next
    BY Zenon, <2>7, ReadFifo
  <2>8. ASSUME NEW f \in Fd, NEW s \in Buffers, pipe_write(t, f, s) PROVE F!Next
    BY Zenon, <2>8, WriteFifo
  <2>9. ASSUME NEW f \in Fd, NEW g \in Fd, sys_dup(t, f, g) PROVE F!Next
    <3>1. Open(t, f) /\ received' = << >> /\ \E new : Duplicate(t, f, new)
      BY Zenon, <2>9 DEF sys_dup
    <3> QED
      BY Zenon, <3>1, DuplicateFifo
  <2>10. ASSUME NEW f \in Fd, NEW g \in Fd, sys_dup2(t, f, g) PROVE F!Next
    <3>1. Open(t, f) /\ received' = << >>
      BY Zenon, <2>10 DEF sys_dup2
    <3>2. CASE Duplicate(t, f, g)
      BY Zenon, <3>1, <3>2, DuplicateFifo
    <3>3. CASE /\ Open(t, g)
               /\ LET k == file_description_unref(Tables, fds[t][g])
                  IN Become([k EXCEPT !.desc[fds[t][f]].ref_count = @ + 1])
      <4> DEFINE k == file_description_unref(Tables, fds[t][g])
      <4>1. pipe' = [k EXCEPT !.desc[fds[t][f]].ref_count = @ + 1].pipe
        BY Zenon, <3>3 DEF Become
      <4> QED
        BY Zenon, <3>1, <3>3, <4>1, ReplaceFifo
    <3> QED
      BY Zenon, <2>10, <3>2, <3>3 DEF sys_dup2
  <2> QED
    BY <1>3, <2>1, <2>2, <2>3, <2>4, <2>5, <2>6, <2>7, <2>8, <2>9, <2>10 DEF Syscall
<1> QED
  BY Zenon, <1>1, <1>2, <1>3 DEF Next

LEMMA InitFifo == Init => F!Init
<1> SUFFICES ASSUME Init PROVE F!Init
  BY Zenon
<1>1. \A p \in Pipe : Content(pipe[p]) = << >>
  <2>1. FreePipe.count = 0
    BY Zenon DEF FreePipe
  <2> QED
    BY Zenon, <2>1, EmptyContent DEF Init
<1> QED
  BY Zenon, <1>1, QueueIsContent DEF F!Init, Init

\* The ring buffers of pipe_node_read and pipe_node_write implement first-in
\* first-out channels of PIPE_BUFFER_SIZE bytes, whatever pipe, fork, dup, dup2,
\* close, exit and signals do in between: no byte is lost, repeated or reordered,
\* and a channel is emptied only when its pipe is made or freed.
THEOREM PipesAreFifo == Spec => ImplementsFifo
<1>1. Spec => []IInv
  BY InitIInv, NextIInv, PTL DEF Spec
<1> QED
  BY <1>1, InitFifo, NextFifo, PTL DEF Spec, ImplementsFifo, F!Spec

=============================================================================
