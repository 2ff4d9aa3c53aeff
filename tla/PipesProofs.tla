----------------------------- MODULE PipesProofs -----------------------------
(***************************************************************************)
(* Proofs that no pipe sleeper is forgotten and that a pipe is freed with  *)
(* its last end, for any number of tasks, descriptors and pipes and any    *)
(* buffer size.                                                            *)
(*                                                                         *)
(* The handlers of Pipes compose functions on the kernel's tables, so the  *)
(* invariant is a predicate Good of the tables, and each helper gets a     *)
(* lemma that it keeps Good and others that say what it does.  The actions *)
(* follow from these lemmas.  EndsOK relates the descriptions to the pipes:*)
(* an end of a pipe has one description, and readers and writers say which *)
(* ends there are.                                                         *)
(***************************************************************************)
EXTENDS Pipes, TLAPS

DescOK(x) ==
  /\ DOMAIN x = {"end", "pipe", "ref_count"}
  /\ x = [end |-> x.end, pipe |-> x.pipe, ref_count |-> x.ref_count]
  /\ x.end \in {"free", "console", "read", "write"} /\ x.pipe \in Pipe \cup {Null}
  /\ x.end \in {"read", "write"} => x.pipe \in Pipe

\* A position in the ring that is less than one turn ahead.
Wrap(a) == IF a < PIPE_BUFFER_SIZE THEN a ELSE a - PIPE_BUFFER_SIZE

PipeOK(x) ==
  /\ DOMAIN x = {"data", "read_pos", "write_pos", "count", "readers", "writers", "live"}
  /\ x.count \in 0..PIPE_BUFFER_SIZE /\ x.read_pos \in 0..(PIPE_BUFFER_SIZE - 1)
  /\ x.write_pos = Wrap(x.read_pos + x.count)
  /\ x.readers \in Nat /\ x.writers \in Nat /\ x.live \in BOOLEAN
  /\ ~x.live => x.readers = 0 /\ x.writers = 0

DescsOK(D) ==
  /\ D = [d \in Description |-> D[d]] /\ DOMAIN D = Description
  /\ \A d \in Description : DescOK(D[d])
PipesOK(P) == DOMAIN P = Pipe /\ \A p \in Pipe : PipeOK(P[p])

Waits == [reason: {"NONE", "PIPE_READ", "PIPE_WRITE"}, target: Pipe \cup {Null}]

\* Only a sleeping task has a wait reason.
WaitsOK(S, W) ==
  /\ S \in [Task -> {"DEAD", "READY", "SLEEPING"}] /\ W \in [Task -> Waits]
  /\ \A t \in Task : S[t] # "SLEEPING" => W[t] = NotWaiting

\* Why a task with wait w may sleep.
Cause(P, w) ==
  /\ w.target \in Pipe
  /\ \/ w.reason = "PIPE_READ" /\ P[w.target].count = 0 /\ P[w.target].writers > 0
     \/ w.reason = "PIPE_WRITE" /\ P[w.target].count = PIPE_BUFFER_SIZE /\ P[w.target].readers > 0

Caused(P, S, W) == \A t \in Task : S[t] = "SLEEPING" => Cause(P, W[t])

Shape(k) == DOMAIN k = {"desc", "pipe", "state", "wait"}

\* All but the sleepers.
Tidy(k) == Shape(k) /\ DescsOK(k.desc) /\ PipesOK(k.pipe) /\ WaitsOK(k.state, k.wait)

Good(k) == Tidy(k) /\ Caused(k.pipe, k.state, k.wait)

IInv ==
  /\ fds \in [Task -> [Fd -> Description \cup {Null}]]
  /\ Good(Tables)

-----------------------------------------------------------------------------
(* The helpers keep the tables good *)

LEMMA ModWrap ==
  ASSUME NEW a \in Int, 0 <= a, a < 2 * PIPE_BUFFER_SIZE
  PROVE  a % PIPE_BUFFER_SIZE = Wrap(a)
<1> DEFINE S == PIPE_BUFFER_SIZE
<1>0. S \in Nat \ {0}
  BY Zenon, PipesAssumption
<1> HIDE DEF S
<1>1. CASE a < S
  <2>1. a % S = a
    BY <1>0, <1>1, SMTT(60)
  <2> QED
    BY Zenon, <1>1, <2>1 DEF Wrap, S
<1>2. CASE S <= a
  <2>1. a < 2 * S
    BY Zenon DEF S
  <2>2. a % S = a - S /\ ~(a < S)
    BY <1>0, <1>2, <2>1, SMTT(60)
  <2> QED
    BY Zenon, <2>2 DEF Wrap, S
<1> QED
  BY <1>0, <1>1, <1>2, SMTT(60)

LEMMA AheadWrap ==
  ASSUME NEW r \in 0..(PIPE_BUFFER_SIZE - 1), NEW c \in 0..PIPE_BUFFER_SIZE,
         NEW n \in 1..(PIPE_BUFFER_SIZE - c)
  PROVE  Wrap(Wrap(r + c) + n) = Wrap(r + (c + n)) /\ c + n \in 0..PIPE_BUFFER_SIZE
BY PipesAssumption, SMTT(60) DEF Wrap

LEMMA WrapRange ==
  ASSUME NEW r \in 0..(PIPE_BUFFER_SIZE - 1), NEW c \in 0..PIPE_BUFFER_SIZE
  PROVE  Wrap(r + c) \in 0..(PIPE_BUFFER_SIZE - 1)
BY PipesAssumption, SMTT(60) DEF Wrap

LEMMA BehindWrap ==
  ASSUME NEW r \in 0..(PIPE_BUFFER_SIZE - 1), NEW c \in 0..PIPE_BUFFER_SIZE, NEW n \in 1..c
  PROVE  /\ Wrap(Wrap(r + n) + (c - n)) = Wrap(r + c)
         /\ Wrap(r + n) \in 0..(PIPE_BUFFER_SIZE - 1) /\ c - n \in 0..PIPE_BUFFER_SIZE
BY PipesAssumption, SMTT(60) DEF Wrap

\* The cause of a sleep depends on the pipe it waits for alone.
LEMMA CauseKept ==
  ASSUME NEW P, NEW Q, NEW w, Cause(P, w), Q[w.target] = P[w.target]
  PROVE  Cause(Q, w)
BY Zenon DEF Cause

\* Wake repairs tables in which only the sleepers it wakes have lost their cause.
LEMMA WakeGood ==
  ASSUME NEW k, Tidy(k), NEW reason \in {"PIPE_READ", "PIPE_WRITE"}, NEW p \in Pipe,
         \A t \in Task : k.state[t] = "SLEEPING" /\ k.wait[t] # [reason |-> reason, target |-> p]
                           => Cause(k.pipe, k.wait[t])
  PROVE  Good(Wake(k, reason, p)) /\ Wake(k, reason, p).pipe = k.pipe
<1> DEFINE w == [reason |-> reason, target |-> p]
           S == [t \in Task |-> IF k.wait[t] = w THEN "READY" ELSE k.state[t]]
           W == [t \in Task |-> IF k.wait[t] = w THEN NotWaiting ELSE k.wait[t]]
           r == Wake(k, reason, p)
<1>1. Shape(r) /\ r.desc = k.desc /\ r.pipe = k.pipe /\ r.state = S /\ r.wait = W
  BY Zenon DEF Wake, Tidy, Shape
<1>2. WaitsOK(S, W)
  <2>1. NotWaiting \in Waits
    BY Zenon DEF NotWaiting, Waits, Null
  <2> QED
    BY Zenon, <2>1 DEF Tidy, WaitsOK
<1>3. Caused(k.pipe, S, W)
  BY Zenon DEF Caused
<1> QED
  BY Zenon, <1>1, <1>2, <1>3 DEF Good, Tidy

\* Closing an end wakes the sleepers of the other side when it was the last one.
LEMMA CloseEndGood ==
  ASSUME NEW k, Good(k), NEW end \in {"read", "write"}, NEW p \in Pipe
  PROVE  Good(CloseEnd(k, end, p)) /\ CloseEnd(k, end, p).desc = k.desc
<1> DEFINE R == [k EXCEPT !.pipe[p].readers = IF @ > 0 THEN @ - 1 ELSE 0]
           W == [k EXCEPT !.pipe[p].writers = IF @ > 0 THEN @ - 1 ELSE 0]
<1>0. PipeOK(k.pipe[p]) /\ Shape(k) /\ DOMAIN k.pipe = Pipe
  BY Zenon DEF Good, Tidy, PipesOK
<1>1. CASE end = "read"
  <2> DEFINE x == [k.pipe[p] EXCEPT !.readers = IF @ > 0 THEN @ - 1 ELSE 0]
  <2>1. /\ Shape(R) /\ R.desc = k.desc /\ R.state = k.state /\ R.wait = k.wait
        /\ R.pipe = [k.pipe EXCEPT ![p] = x]
    BY Zenon, <1>0 DEF Shape
  <2>2. PipeOK(x) /\ x.count = k.pipe[p].count /\ x.writers = k.pipe[p].writers
    BY <1>0, SMTT(60) DEF PipeOK
  <2>3. x.readers # 0 => k.pipe[p].readers > 0 /\ x.readers > 0
    BY <1>0, SMTT(60) DEF PipeOK
  <2> HIDE DEF x
  <2>4. DOMAIN R.pipe = Pipe /\ R.pipe[p] = x /\ \A q \in Pipe \ {p} : R.pipe[q] = k.pipe[q]
    BY Zenon, <1>0, <2>1
  <2> HIDE DEF R
  <2>5. Tidy(R)
    BY Zenon, <2>1, <2>2, <2>4 DEF Good, Tidy, PipesOK
  <2>6. ASSUME NEW t \in Task, R.state[t] = "SLEEPING",
               x.readers # 0 \/ R.wait[t] # [reason |-> "PIPE_WRITE", target |-> p]
        PROVE  Cause(R.pipe, R.wait[t])
    <3>1. Cause(k.pipe, k.wait[t]) /\ k.wait[t] \in Waits
      BY Zenon, <2>1, <2>6 DEF Good, Tidy, Caused, WaitsOK
    <3>2. k.wait[t].target = p /\ k.wait[t].reason = "PIPE_WRITE" => x.readers # 0
      BY Zenon, <2>6, <2>1, <3>1 DEF Waits
    <3>3. CASE k.wait[t].target # p
      <4>1. k.wait[t].target \in Pipe \ {p}
        BY Zenon, <3>1, <3>3 DEF Cause
      <4>2. R.pipe[k.wait[t].target] = k.pipe[k.wait[t].target]
        BY Zenon, <2>4, <4>1
      <4>3. R.wait = k.wait
        BY Zenon, <2>1
      <4> QED
        BY Zenon, <3>1, <4>2, <4>3, CauseKept
    <3>4. CASE k.wait[t].target = p
      BY Zenon, <2>1, <2>2, <2>3, <2>4, <3>1, <3>2, <3>4 DEF Cause
    <3> QED
      BY Zenon, <3>3, <3>4
  <2>7. CASE R.pipe[p].readers = 0
    <3>1. CloseEnd(k, end, p) = Wake(R, "PIPE_WRITE", p)
      BY Zenon, <1>1, <2>7 DEF CloseEnd, R
    <3>2. Wake(R, "PIPE_WRITE", p).desc = R.desc
      BY Zenon, <2>1 DEF Wake, Shape
    <3> QED
      BY Zenon, <2>1, <2>5, <2>6, <3>1, <3>2, WakeGood
  <2>8. CASE R.pipe[p].readers # 0
    <3>1. CloseEnd(k, end, p) = R
      BY Zenon, <1>1, <2>8 DEF CloseEnd, R
    <3> QED
      BY Zenon, <2>1, <2>4, <2>5, <2>6, <2>8, <3>1 DEF Good, Caused
  <2> QED
    BY Zenon, <2>7, <2>8
<1>2. CASE end = "write"
  <2> DEFINE x == [k.pipe[p] EXCEPT !.writers = IF @ > 0 THEN @ - 1 ELSE 0]
  <2>1. /\ Shape(W) /\ W.desc = k.desc /\ W.state = k.state /\ W.wait = k.wait
        /\ W.pipe = [k.pipe EXCEPT ![p] = x]
    BY Zenon, <1>0 DEF Shape
  <2>2. PipeOK(x) /\ x.count = k.pipe[p].count /\ x.readers = k.pipe[p].readers
    BY <1>0, SMTT(60) DEF PipeOK
  <2>3. x.writers # 0 => k.pipe[p].writers > 0 /\ x.writers > 0
    BY <1>0, SMTT(60) DEF PipeOK
  <2> HIDE DEF x
  <2>4. DOMAIN W.pipe = Pipe /\ W.pipe[p] = x /\ \A q \in Pipe \ {p} : W.pipe[q] = k.pipe[q]
    BY Zenon, <1>0, <2>1
  <2> HIDE DEF W
  <2>5. Tidy(W)
    BY Zenon, <2>1, <2>2, <2>4 DEF Good, Tidy, PipesOK
  <2>6. ASSUME NEW t \in Task, W.state[t] = "SLEEPING",
               x.writers # 0 \/ W.wait[t] # [reason |-> "PIPE_READ", target |-> p]
        PROVE  Cause(W.pipe, W.wait[t])
    <3>1. Cause(k.pipe, k.wait[t]) /\ k.wait[t] \in Waits
      BY Zenon, <2>1, <2>6 DEF Good, Tidy, Caused, WaitsOK
    <3>2. k.wait[t].target = p /\ k.wait[t].reason = "PIPE_READ" => x.writers # 0
      BY Zenon, <2>6, <2>1, <3>1 DEF Waits
    <3>3. CASE k.wait[t].target # p
      <4>1. k.wait[t].target \in Pipe \ {p}
        BY Zenon, <3>1, <3>3 DEF Cause
      <4>2. W.pipe[k.wait[t].target] = k.pipe[k.wait[t].target]
        BY Zenon, <2>4, <4>1
      <4>3. W.wait = k.wait
        BY Zenon, <2>1
      <4> QED
        BY Zenon, <3>1, <4>2, <4>3, CauseKept
    <3>4. CASE k.wait[t].target = p
      BY Zenon, <2>1, <2>2, <2>3, <2>4, <3>1, <3>2, <3>4 DEF Cause
    <3> QED
      BY Zenon, <3>3, <3>4
  <2>7. CASE W.pipe[p].writers = 0
    <3>1. CloseEnd(k, end, p) = Wake(W, "PIPE_READ", p)
      BY Zenon, <1>2, <2>7 DEF CloseEnd, W
    <3>2. Wake(W, "PIPE_READ", p).desc = W.desc
      BY Zenon, <2>1 DEF Wake, Shape
    <3> QED
      BY Zenon, <2>1, <2>5, <2>6, <3>1, <3>2, WakeGood
  <2>8. CASE W.pipe[p].writers # 0
    <3>1. CloseEnd(k, end, p) = W
      BY Zenon, <1>2, <2>8 DEF CloseEnd, W
    <3> QED
      BY Zenon, <2>1, <2>4, <2>5, <2>6, <2>8, <3>1 DEF Good, Caused
  <2> QED
    BY Zenon, <2>7, <2>8
<1> QED
  BY Zenon, <1>1, <1>2

\* The buffer is freed when nobody can sleep on it.
LEMMA PipeNodeCloseGood ==
  ASSUME NEW k, Good(k), NEW end \in {"read", "write"}, NEW p \in Pipe
  PROVE  Good(pipe_node_close(k, end, p)) /\ pipe_node_close(k, end, p).desc = k.desc
<1> DEFINE c == CloseEnd(k, end, p)
           r == [c EXCEPT !.pipe[p] = FreePipe]
<1>1. Good(c) /\ c.desc = k.desc
  BY Zenon, CloseEndGood
<1> HIDE DEF c
<1>2. CASE c.pipe[p].readers = 0 /\ c.pipe[p].writers = 0
  <2>1. pipe_node_close(k, end, p) = r
    BY Zenon, <1>2 DEF pipe_node_close, c
  <2>2. /\ Shape(r) /\ r.desc = c.desc /\ r.state = c.state /\ r.wait = c.wait
        /\ r.pipe = [c.pipe EXCEPT ![p] = FreePipe]
    BY Zenon, <1>1 DEF Good, Tidy, Shape
  <2>3. PipeOK(FreePipe)
    BY PipesAssumption, SMTT(60) DEF PipeOK, FreePipe, Wrap
  <2> HIDE DEF r
  <2>4. PipesOK(r.pipe) /\ \A q \in Pipe \ {p} : r.pipe[q] = c.pipe[q]
    BY Zenon, <1>1, <2>2, <2>3 DEF Good, Tidy, PipesOK
  <2>5. ASSUME NEW t \in Task, r.state[t] = "SLEEPING"
        PROVE  Cause(r.pipe, r.wait[t])
    <3>1. Cause(c.pipe, c.wait[t])
      BY Zenon, <1>1, <2>2, <2>5 DEF Good, Caused
    <3>2. c.wait[t].target \in Pipe \ {p}
      BY <1>2, <3>1 DEF Cause
    <3> QED
      BY ZenonT(60), <2>2, <2>4, <3>1, <3>2, CauseKept
  <2> QED
    BY Zenon, <1>1, <2>1, <2>2, <2>4, <2>5 DEF Good, Tidy, Caused
<1>3. CASE ~(c.pipe[p].readers = 0 /\ c.pipe[p].writers = 0)
  BY Zenon, <1>1, <1>3 DEF pipe_node_close, c
<1> QED
  BY Zenon, <1>2, <1>3

\* Sleepers do not depend on descriptions.
LEMMA DescriptionGood ==
  ASSUME NEW k, Good(k), NEW d \in Description, NEW x, DescOK(x)
  PROVE  /\ Good([k EXCEPT !.desc[d] = x])
         /\ [k EXCEPT !.desc[d] = x].pipe = k.pipe
         /\ [k EXCEPT !.desc[d] = x].desc = [k.desc EXCEPT ![d] = x]
<1> DEFINE r == [k EXCEPT !.desc[d] = x]
<1>1. /\ Shape(r) /\ r.pipe = k.pipe /\ r.state = k.state /\ r.wait = k.wait
      /\ r.desc = [k.desc EXCEPT ![d] = x]
  BY Zenon DEF Good, Tidy, Shape
<1>2. DescsOK(r.desc)
  BY <1>1, SMTT(60) DEF Good, Tidy, DescsOK
<1> QED
  BY Zenon, <1>1, <1>2 DEF Good, Tidy

LEMMA UnrefGood ==
  ASSUME NEW k, Good(k), NEW d \in Description
  PROVE  Good(file_description_unref(k, d))
<1> DEFINE x == [k.desc[d] EXCEPT !.ref_count = @ - 1]
           freed == [k EXCEPT !.desc[d] = FreeDescription]
<1>0. DescOK(k.desc[d])
  BY Zenon DEF Good, Tidy, DescsOK
<1>1. CASE k.desc[d].ref_count > 1
  <2>1. DescOK(x)
    BY <1>0, SMTT(60) DEF DescOK
  <2>2. file_description_unref(k, d) = [k EXCEPT !.desc[d] = x]
    BY Zenon, <1>1 DEF file_description_unref
  <2> QED
    BY <2>1, <2>2, DescriptionGood
<1>2. CASE ~(k.desc[d].ref_count > 1)
  <2>1. DescOK(FreeDescription)
    BY Zenon DEF DescOK, FreeDescription, Null
  <2>2. Good(freed)
    BY Zenon, <2>1, DescriptionGood
  <2> HIDE DEF freed
  <2>3. CASE k.desc[d].end \in {"read", "write"}
    <3>1. file_description_unref(k, d) = pipe_node_close(freed, k.desc[d].end, k.desc[d].pipe)
      BY Zenon, <1>2, <2>3 DEF file_description_unref, freed
    <3>2. k.desc[d].pipe \in Pipe
      BY Zenon, <1>0, <2>3 DEF DescOK
    <3> QED
      BY Zenon, <2>2, <2>3, <3>1, <3>2, PipeNodeCloseGood
  <2>4. CASE k.desc[d].end \notin {"read", "write"}
    <3>1. file_description_unref(k, d) = freed
      BY Zenon, <1>2, <2>4 DEF file_description_unref, freed
    <3> QED
      BY Zenon, <2>2, <3>1
  <2> QED
    BY Zenon, <2>3, <2>4
<1> QED
  BY Zenon, <1>1, <1>2

\* What is taken out makes room for every sleeping writer, and all are woken.
LEMMA ReadGood ==
  ASSUME NEW k, Good(k), NEW p \in Pipe, NEW n \in 1..k.pipe[p].count
  PROVE  Good(Read(k, p, n))
<1> DEFINE r == [k EXCEPT !.pipe[p].read_pos = (@ + n) % PIPE_BUFFER_SIZE, !.pipe[p].count = @ - n]
<1>0. PipeOK(k.pipe[p]) /\ Shape(k) /\ DOMAIN k.pipe = Pipe
  BY Zenon DEF Good, Tidy, PipesOK
<1>1. Shape(r) /\ r.desc = k.desc /\ r.state = k.state /\ r.wait = k.wait
  BY Zenon, <1>0 DEF Shape
<1>2. DOMAIN r.pipe = Pipe /\ \A q \in Pipe \ {p} : r.pipe[q] = k.pipe[q]
  BY Zenon, <1>0 DEF Shape
<1>3. PipeOK(r.pipe[p])
  <2>1. (k.pipe[p].read_pos + n) % PIPE_BUFFER_SIZE = Wrap(k.pipe[p].read_pos + n)
    <3>1. /\ k.pipe[p].read_pos + n \in Int /\ 0 <= k.pipe[p].read_pos + n
          /\ k.pipe[p].read_pos + n < 2 * PIPE_BUFFER_SIZE
      BY <1>0, PipesAssumption, SMTT(60) DEF PipeOK
    <3> QED
      BY Zenon, <3>1, ModWrap
  <2>2. /\ DOMAIN r.pipe[p] = DOMAIN k.pipe[p] /\ r.pipe[p].count = k.pipe[p].count - n
        /\ r.pipe[p].read_pos = (k.pipe[p].read_pos + n) % PIPE_BUFFER_SIZE
        /\ r.pipe[p].write_pos = k.pipe[p].write_pos /\ r.pipe[p].live = k.pipe[p].live
        /\ r.pipe[p].readers = k.pipe[p].readers /\ r.pipe[p].writers = k.pipe[p].writers
    BY Zenon, <1>0 DEF Shape, PipeOK
  <2>3. /\ Wrap(Wrap(k.pipe[p].read_pos + n) + (k.pipe[p].count - n)) = k.pipe[p].write_pos
        /\ Wrap(k.pipe[p].read_pos + n) \in 0..(PIPE_BUFFER_SIZE - 1)
        /\ k.pipe[p].count - n \in 0..PIPE_BUFFER_SIZE
    BY Zenon, <1>0, BehindWrap DEF PipeOK
  <2> HIDE DEF r
  <2> QED
    BY Zenon, <1>0, <2>1, <2>2, <2>3 DEF PipeOK
<1> HIDE DEF r
<1>4. ASSUME NEW t \in Task, r.state[t] = "SLEEPING",
             r.wait[t] # [reason |-> "PIPE_WRITE", target |-> p]
      PROVE  Cause(r.pipe, r.wait[t])
  <2>1. Cause(k.pipe, k.wait[t]) /\ k.wait[t] \in Waits
    BY Zenon, <1>1, <1>4 DEF Good, Tidy, Caused, WaitsOK
  <2>2. k.wait[t].target # p
    <3>1. k.wait[t].reason # "PIPE_WRITE" \/ k.wait[t].target # p
      BY Zenon, <1>1, <1>4, <2>1 DEF Waits
    <3>2. k.pipe[p].count # 0
      BY <1>0, SMTT(60) DEF PipeOK
    <3> QED
      BY Zenon, <2>1, <3>1, <3>2 DEF Cause
  <2> QED
    BY ZenonT(60), <1>1, <1>2, <2>1, <2>2 DEF Cause
<1>5. Tidy(r)
  BY Zenon, <1>1, <1>2, <1>3 DEF Good, Tidy, PipesOK
<1>6. Read(k, p, n) = Wake(r, "PIPE_WRITE", p)
  BY Zenon DEF Read, r
<1> QED
  BY Zenon, <1>4, <1>5, <1>6, WakeGood

\* What is put in ends the wait of every sleeping reader, and all are woken.
LEMMA WriteGood ==
  ASSUME NEW k, Good(k), NEW p \in Pipe, NEW s, Len(s) \in 1..(PIPE_BUFFER_SIZE - k.pipe[p].count)
  PROVE  Good(Write(k, p, s))
<1> DEFINE D == [i \in 0..(PIPE_BUFFER_SIZE - 1) |->
                   LET j == (i - k.pipe[p].write_pos) % PIPE_BUFFER_SIZE
                   IN IF j < Len(s) THEN s[j + 1] ELSE k.pipe[p].data[i]]
<1>0. PipeOK(k.pipe[p]) /\ Shape(k) /\ DOMAIN k.pipe = Pipe
  BY Zenon DEF Good, Tidy, PipesOK
<1> PICK l \in 1..(PIPE_BUFFER_SIZE - k.pipe[p].count) : l = Len(s)
  BY Zenon
<1> DEFINE r == [k EXCEPT !.pipe[p].data = D, !.pipe[p].write_pos = (@ + l) % PIPE_BUFFER_SIZE,
                          !.pipe[p].count = @ + l]
<1>1. Write(k, p, s) = Wake(r, "PIPE_READ", p)
  BY Zenon DEF Write, r, D
<1> HIDE DEF D
<1>2. Shape(r) /\ r.desc = k.desc /\ r.state = k.state /\ r.wait = k.wait
  BY ZenonT(60), <1>0 DEF Shape
<1>3. DOMAIN r.pipe = Pipe /\ \A q \in Pipe \ {p} : r.pipe[q] = k.pipe[q]
  BY ZenonT(60), <1>0 DEF Shape
<1>4. PipeOK(r.pipe[p])
  <2> DEFINE a == k.pipe[p].write_pos + l
             c == k.pipe[p].count + l
  <2>1. a % PIPE_BUFFER_SIZE = Wrap(a)
    <3>1. k.pipe[p].write_pos \in 0..(PIPE_BUFFER_SIZE - 1) /\ k.pipe[p].count \in 0..PIPE_BUFFER_SIZE
      BY Zenon, <1>0, WrapRange DEF PipeOK
    <3>2. a \in Int /\ 0 <= a /\ a < 2 * PIPE_BUFFER_SIZE
      BY SMTT(60), <3>1, PipesAssumption
    <3> QED
      BY Zenon, <3>2, ModWrap
  <2>2. /\ DOMAIN r.pipe[p] = DOMAIN k.pipe[p] /\ r.pipe[p].count = c
        /\ r.pipe[p].write_pos = a % PIPE_BUFFER_SIZE
        /\ r.pipe[p].read_pos = k.pipe[p].read_pos /\ r.pipe[p].live = k.pipe[p].live
        /\ r.pipe[p].readers = k.pipe[p].readers /\ r.pipe[p].writers = k.pipe[p].writers
    BY ZenonT(60), <1>0 DEF Shape, PipeOK
  <2>3. Wrap(a) = Wrap(k.pipe[p].read_pos + c) /\ c \in 0..PIPE_BUFFER_SIZE
    BY ZenonT(60), <1>0, AheadWrap DEF PipeOK
  <2> HIDE DEF r, a, c
  <2> QED
    BY Zenon, <1>0, <2>1, <2>2, <2>3 DEF PipeOK
<1> HIDE DEF r
<1>5. ASSUME NEW t \in Task, r.state[t] = "SLEEPING",
             r.wait[t] # [reason |-> "PIPE_READ", target |-> p]
      PROVE  Cause(r.pipe, r.wait[t])
  <2>1. Cause(k.pipe, k.wait[t]) /\ k.wait[t] \in Waits
    BY Zenon, <1>2, <1>5 DEF Good, Tidy, Caused, WaitsOK
  <2>2. k.wait[t].target # p
    <3>1. k.wait[t].reason # "PIPE_READ" \/ k.wait[t].target # p
      BY Zenon, <1>2, <1>5, <2>1 DEF Waits
    <3>2. k.pipe[p].count # PIPE_BUFFER_SIZE
      BY <1>0, PipesAssumption, SMTT(60) DEF PipeOK
    <3> QED
      BY Zenon, <2>1, <3>1, <3>2 DEF Cause
  <2> QED
    BY ZenonT(60), <1>2, <1>3, <2>1, <2>2 DEF Cause
<1>6. Tidy(r)
  BY Zenon, <1>2, <1>3, <1>4 DEF Good, Tidy, PipesOK
<1> QED
  BY Zenon, <1>5, <1>6, <1>1, WakeGood

LEMMA SleepGood ==
  ASSUME NEW k, Good(k), NEW t \in Task, NEW reason \in {"PIPE_READ", "PIPE_WRITE"}, NEW p \in Pipe,
         Cause(k.pipe, [reason |-> reason, target |-> p])
  PROVE  Good(Sleep(k, t, reason, p))
<1> DEFINE r == Sleep(k, t, reason, p)
           w == [reason |-> reason, target |-> p]
<1>1. /\ Shape(r) /\ r.desc = k.desc /\ r.pipe = k.pipe
      /\ r.state = [k.state EXCEPT ![t] = "SLEEPING"] /\ r.wait = [k.wait EXCEPT ![t] = w]
  BY Zenon DEF Sleep, Good, Tidy, Shape
<1>2. w \in Waits
  BY Zenon DEF Waits
<1> HIDE DEF r, w
<1>3. WaitsOK(r.state, r.wait)
  BY ZenonT(60), <1>1, <1>2 DEF Good, Tidy, WaitsOK
<1>4. Caused(r.pipe, r.state, r.wait)
  <2>1. Cause(k.pipe, w)
    BY Zenon DEF w
  <2> QED
    BY Zenon, <1>1, <2>1 DEF Good, Tidy, Caused, WaitsOK
<1> QED
  BY Zenon, <1>1, <1>3, <1>4 DEF Good, Tidy, r

LEMMA CountedGood ==
  ASSUME NEW k, Good(k), NEW d \in Description
  PROVE  Good([k EXCEPT !.desc[d].ref_count = @ + 1])
<1> DEFINE x == [k.desc[d] EXCEPT !.ref_count = @ + 1]
<1>1. DescOK(k.desc[d])
  BY Zenon DEF Good, Tidy, DescsOK
<1>2. DescOK(x)
  BY <1>1, SMTT(60) DEF DescOK
<1>3. [k EXCEPT !.desc[d].ref_count = @ + 1] = [k EXCEPT !.desc[d] = x]
  BY Zenon
<1> QED
  BY Zenon, <1>2, <1>3, DescriptionGood

LEMMA TablesShape ==
  /\ Shape(Tables)
  /\ Tables.desc = desc /\ Tables.pipe = pipe /\ Tables.state = state /\ Tables.wait = wait
BY Zenon DEF Tables, Shape

LEMMA BecomeGood ==
  ASSUME NEW k, Good(k), Become(k)
  PROVE  Good(Tables)'
BY Zenon, TablesShape DEF Become, Good, Tidy, Tables, Shape

\* A task that becomes ready or dies stops waiting.
LEMMA UpGood ==
  ASSUME Good(Tables), NEW u \in Task, NEW s \in {"READY", "DEAD"},
         state' = [state EXCEPT ![u] = s], wait' = [wait EXCEPT ![u] = NotWaiting],
         DescsOK(desc'), pipe' = pipe
  PROVE  Good(Tables)'
<1>1. WaitsOK(state, wait) /\ PipesOK(pipe) /\ Caused(pipe, state, wait)
  BY Zenon, TablesShape DEF Good, Tidy
<1>2. NotWaiting \in Waits
  BY Zenon DEF NotWaiting, Waits
<1>3. WaitsOK(state', wait')
  BY Zenon, <1>1, <1>2 DEF WaitsOK
<1>4. Caused(pipe, state', wait')
  BY Zenon, <1>1 DEF Caused, WaitsOK
<1>5. Good([desc |-> desc', pipe |-> pipe', state |-> state', wait |-> wait'])
  BY Zenon, <1>1, <1>3, <1>4 DEF Good, Tidy, Shape
<1> QED
  BY Zenon, <1>5 DEF Tables

\* A pipe that is not live has no sleepers.
LEMMA NewPipeGood ==
  ASSUME NEW k, Good(k), NEW p \in Pipe, ~k.pipe[p].live, NEW new, PipeOK(new)
  PROVE  Good([k EXCEPT !.pipe[p] = new])
<1> DEFINE r == [k EXCEPT !.pipe[p] = new]
<1>1. Shape(r) /\ r.desc = k.desc /\ r.state = k.state /\ r.wait = k.wait
  BY Zenon DEF Good, Tidy, Shape
<1>2. r.pipe = [k.pipe EXCEPT ![p] = new]
  BY Zenon DEF Good, Tidy, Shape
<1> HIDE DEF r
<1>3. PipesOK(r.pipe) /\ \A q \in Pipe \ {p} : r.pipe[q] = k.pipe[q]
  BY Zenon, <1>2 DEF Good, Tidy, PipesOK
<1>4. k.pipe[p].readers = 0 /\ k.pipe[p].writers = 0
  BY Zenon DEF Good, Tidy, PipesOK, PipeOK
<1>5. ASSUME NEW t \in Task, r.state[t] = "SLEEPING"
      PROVE  Cause(r.pipe, r.wait[t])
  <2>1. Cause(k.pipe, k.wait[t])
    BY Zenon, <1>1, <1>5 DEF Good, Caused
  <2>2. k.wait[t].target \in Pipe \ {p}
    BY <1>4, <2>1 DEF Cause
  <2> QED
    BY Zenon, <1>1, <1>3, <2>1, <2>2, CauseKept
<1> QED
  BY Zenon, <1>1, <1>3, <1>5 DEF Good, Tidy, Caused, r

\* A description for an end of a new pipe.
NewEnd(end, p) == [end |-> end, pipe |-> p, ref_count |-> 1]

LEMMA DescribedGood ==
  ASSUME NEW k, Good(k), NEW d \in Description, NEW p \in Pipe, NEW end \in {"read", "write"}
  PROVE  Good(Described(k, d, end, p))
<1>1. DescOK(NewEnd(end, p))
  BY Zenon DEF DescOK, NewEnd
<1>2. Described(k, d, end, p) = [k EXCEPT !.desc[d] = NewEnd(end, p)]
  BY Zenon DEF Described, NewEnd
<1> QED
  BY <1>1, <1>2, DescriptionGood

-----------------------------------------------------------------------------
(* What the helpers do *)

\* Nobody dies between tables k and r.
NoDeath(k, r) == \A t \in Task : r.state[t] = "DEAD" => k.state[t] = "DEAD"

LEMMA WakeNoDeath ==
  ASSUME NEW k, Shape(k), NEW reason, NEW p
  PROVE  NoDeath(k, Wake(k, reason, p)) /\ Wake(k, reason, p).desc = k.desc
<1> DEFINE S == [t \in Task |-> IF t \in {u \in Task : k.wait[u] = [reason |-> reason, target |-> p]}
                                THEN "READY" ELSE k.state[t]]
<1>1. Wake(k, reason, p).state = S /\ Wake(k, reason, p).desc = k.desc
  BY Zenon DEF Wake, Shape
<1>2. \A t \in Task : S[t] = "DEAD" => k.state[t] = "DEAD"
  BY Zenon
<1> QED
  BY Zenon, <1>1, <1>2 DEF NoDeath

LEMMA CloseNoDeath ==
  ASSUME NEW k, Good(k), NEW end \in {"read", "write"}, NEW p \in Pipe
  PROVE  NoDeath(k, pipe_node_close(k, end, p))
<1> DEFINE c == CloseEnd(k, end, p)
           R == [k EXCEPT !.pipe[p].readers = IF @ > 0 THEN @ - 1 ELSE 0]
           W == [k EXCEPT !.pipe[p].writers = IF @ > 0 THEN @ - 1 ELSE 0]
<1>1. Shape(R) /\ R.state = k.state /\ Shape(W) /\ W.state = k.state
  BY Zenon DEF Good, Tidy, Shape
<1>2. c \in {Wake(R, "PIPE_WRITE", p), R, Wake(W, "PIPE_READ", p), W}
  BY Zenon DEF CloseEnd
<1> HIDE DEF R, W
<1>3. NoDeath(k, c)
  BY <1>1, <1>2, WakeNoDeath DEF NoDeath
<1>4. Shape(c)
  BY Zenon, CloseEndGood DEF Good, Tidy
<1>5. pipe_node_close(k, end, p) \in {c, [c EXCEPT !.pipe[p] = FreePipe]}
  BY Zenon DEF pipe_node_close
<1> HIDE DEF c
<1>6. [c EXCEPT !.pipe[p] = FreePipe].state = c.state
  BY Zenon, <1>4 DEF Shape
<1> QED
  BY Zenon, <1>3, <1>5, <1>6 DEF NoDeath

\* A description with one reference less.
Less(x) == IF x.ref_count > 1 THEN [x EXCEPT !.ref_count = @ - 1] ELSE FreeDescription

\* Descriptions E are D with one reference to d less, or one more.
Released(D, E, d) == E[d] = Less(D[d]) /\ \A e \in Description \ {d} : E[e] = D[e]
Referenced(D, E, d) ==
  /\ E[d].ref_count = D[d].ref_count + 1 /\ E[d].end = D[d].end
  /\ \A e \in Description \ {d} : E[e] = D[e]

LEMMA UnrefEffect ==
  ASSUME NEW k, Good(k), NEW d \in Description
  PROVE  LET r == file_description_unref(k, d)
         IN /\ NoDeath(k, r)
            /\ Released(k.desc, r.desc, d)
<1> DEFINE x == [k.desc[d] EXCEPT !.ref_count = @ - 1]
           less == [k EXCEPT !.desc[d] = x]
           freed == [k EXCEPT !.desc[d] = FreeDescription]
<1>0. DescOK(k.desc[d]) /\ Shape(k) /\ DOMAIN k.desc = Description
  BY Zenon DEF Good, Tidy, DescsOK
<1>1. less.desc = [k.desc EXCEPT ![d] = x] /\ less.state = k.state
  BY Zenon, <1>0 DEF Shape
<1>2. freed.desc = [k.desc EXCEPT ![d] = FreeDescription] /\ freed.state = k.state
  BY Zenon, <1>0 DEF Shape
<1>3. Good(freed)
  <2>1. DescOK(FreeDescription)
    BY Zenon DEF DescOK, FreeDescription, Null
  <2> QED
    BY Zenon, <2>1, DescriptionGood
<1>4. CASE k.desc[d].ref_count > 1
  <2>1. file_description_unref(k, d) = less
    BY Zenon, <1>4 DEF file_description_unref
  <2> HIDE DEF x, less
  <2>2. NoDeath(k, less)
    BY Zenon, <1>1 DEF NoDeath
  <2>3. less.desc[d] = x /\ \A e \in Description \ {d} : less.desc[e] = k.desc[e]
    BY Zenon, <1>0, <1>1
  <2> QED
    BY Zenon, <1>4, <2>1, <2>2, <2>3 DEF x, Less, Released
<1>5. CASE ~(k.desc[d].ref_count > 1)
  <2> DEFINE r == file_description_unref(k, d)
  <2>1. \/ r = freed
        \/ /\ k.desc[d].end \in {"read", "write"}
           /\ r = pipe_node_close(freed, k.desc[d].end, k.desc[d].pipe)
    BY Zenon, <1>5 DEF file_description_unref
  <2> HIDE DEF r, freed
  <2>2. r.desc = freed.desc /\ NoDeath(freed, r)
    <3>1. CASE r = freed
      BY Zenon, <3>1 DEF NoDeath
    <3>2. CASE /\ k.desc[d].end \in {"read", "write"}
               /\ r = pipe_node_close(freed, k.desc[d].end, k.desc[d].pipe)
      BY <1>0, <1>3, <3>2, PipeNodeCloseGood, CloseNoDeath DEF DescOK
    <3> QED
      BY Zenon, <2>1, <3>1, <3>2
  <2>3. NoDeath(k, r)
    BY Zenon, <1>2, <2>2 DEF NoDeath
  <2>4. r.desc[d] = FreeDescription /\ \A e \in Description \ {d} : r.desc[e] = k.desc[e]
    BY Zenon, <1>0, <1>2, <2>2
  <2> QED
    BY Zenon, <1>5, <2>3, <2>4 DEF r, Less, Released
<1> QED
  BY Zenon, <1>4, <1>5

\* Duplicate and dup2 count the descriptor they fill.
LEMMA RefEffect ==
  ASSUME NEW k, Good(k), NEW o \in Description
  PROVE  LET r == [k EXCEPT !.desc[o].ref_count = @ + 1]
         IN Referenced(k.desc, r.desc, o) /\ r.state = k.state
<1> DEFINE r == [k EXCEPT !.desc[o].ref_count = @ + 1]
<1>1. DescOK(k.desc[o]) /\ Shape(k) /\ DOMAIN k.desc = Description
  BY Zenon DEF Good, Tidy, DescsOK
<1>2. r.desc = [k.desc EXCEPT ![o].ref_count = @ + 1] /\ r.state = k.state
  BY Zenon, <1>1 DEF Shape
<1> HIDE DEF r
<1>3. /\ r.desc[o].ref_count = k.desc[o].ref_count + 1 /\ r.desc[o].end = k.desc[o].end
      /\ \A d \in Description \ {o} : r.desc[d] = k.desc[d]
  BY <1>1, <1>2, SMTT(60) DEF DescOK
<1> QED
  BY Zenon, <1>2, <1>3 DEF r, Referenced

LEMMA RefPipe ==
  ASSUME NEW k, Good(k), NEW o \in Description
  PROVE  [k EXCEPT !.desc[o].ref_count = @ + 1].pipe = k.pipe
BY Zenon DEF Good, Tidy, Shape

LEMMA WakePipe ==
  ASSUME NEW k, Shape(k), NEW reason, NEW p
  PROVE  Wake(k, reason, p).pipe = k.pipe /\ Shape(Wake(k, reason, p))
BY Zenon DEF Wake, Shape

\* Pipe x after the description of one of its ends is gone.
Less1(n) == IF n > 0 THEN n - 1 ELSE 0
Closing(x, end) ==
  IF end = "read" THEN [x EXCEPT !.readers = Less1(@)] ELSE [x EXCEPT !.writers = Less1(@)]
Closed(x, end) ==
  IF Closing(x, end).readers = 0 /\ Closing(x, end).writers = 0 THEN FreePipe ELSE Closing(x, end)

LEMMA CloseEffect ==
  ASSUME NEW k, Good(k), NEW end \in {"read", "write"}, NEW p \in Pipe
  PROVE  LET c == pipe_node_close(k, end, p)
         IN c.pipe[p] = Closed(k.pipe[p], end) /\ \A q \in Pipe \ {p} : c.pipe[q] = k.pipe[q]
<1> DEFINE c == CloseEnd(k, end, p)
           x == Closing(k.pipe[p], end)
           R == [k EXCEPT !.pipe[p].readers = IF @ > 0 THEN @ - 1 ELSE 0]
           W == [k EXCEPT !.pipe[p].writers = IF @ > 0 THEN @ - 1 ELSE 0]
<1>1. Shape(k) /\ DOMAIN k.pipe = Pipe
  BY Zenon DEF Good, Tidy, PipesOK
<1>2. /\ end = "read" => c \in {R, Wake(R, "PIPE_WRITE", p)}
      /\ end = "write" => c \in {W, Wake(W, "PIPE_READ", p)}
  BY Zenon DEF CloseEnd
<1>3. /\ Shape(R) /\ (end = "read" => R.pipe = [k.pipe EXCEPT ![p] = x])
      /\ Shape(W) /\ (end = "write" => W.pipe = [k.pipe EXCEPT ![p] = x])
  BY Zenon, <1>1 DEF Shape, Closing, Less1
<1> HIDE DEF R, W, x
<1>4. Shape(c) /\ c.pipe = [k.pipe EXCEPT ![p] = x]
  BY <1>2, <1>3, WakePipe
<1>5. pipe_node_close(k, end, p) = IF c.pipe[p].readers = 0 /\ c.pipe[p].writers = 0
                                   THEN [c EXCEPT !.pipe[p] = FreePipe] ELSE c
  BY Zenon DEF pipe_node_close
<1> HIDE DEF c
<1>6. c.pipe[p] = x /\ DOMAIN c.pipe = Pipe /\ \A q \in Pipe \ {p} : c.pipe[q] = k.pipe[q]
  BY Zenon, <1>1, <1>4
<1>7. [c EXCEPT !.pipe[p] = FreePipe].pipe = [c.pipe EXCEPT ![p] = FreePipe]
  BY Zenon, <1>4 DEF Shape
<1>8. CASE x.readers = 0 /\ x.writers = 0
  <2>1. pipe_node_close(k, end, p).pipe = [c.pipe EXCEPT ![p] = FreePipe]
    BY Zenon, <1>5, <1>6, <1>7, <1>8
  <2>2. Closed(k.pipe[p], end) = FreePipe
    BY Zenon, <1>8 DEF Closed, x
  <2> QED
    BY Zenon, <1>6, <2>1, <2>2
<1>9. CASE ~(x.readers = 0 /\ x.writers = 0)
  BY Zenon, <1>5, <1>6, <1>9 DEF Closed, x
<1> QED
  BY Zenon, <1>8, <1>9

LEMMA UnrefPipe ==
  ASSUME NEW k, Good(k), NEW d \in Description
  PROVE  LET r == file_description_unref(k, d)
             p == k.desc[d].pipe
         IN IF k.desc[d].ref_count > 1 \/ k.desc[d].end \notin {"read", "write"}
            THEN r.pipe = k.pipe
            ELSE r.pipe[p] = Closed(k.pipe[p], k.desc[d].end) /\ \A q \in Pipe \ {p} : r.pipe[q] = k.pipe[q]
<1> DEFINE x == [k.desc[d] EXCEPT !.ref_count = @ - 1]
           less == [k EXCEPT !.desc[d] = x]
           freed == [k EXCEPT !.desc[d] = FreeDescription]
<1>0. DescOK(k.desc[d])
  BY Zenon DEF Good, Tidy, DescsOK
<1>1. less.pipe = k.pipe
  BY Zenon DEF Good, Tidy, Shape
<1>2. Good(freed) /\ freed.pipe = k.pipe
  <2>1. DescOK(FreeDescription)
    BY Zenon DEF DescOK, FreeDescription, Null
  <2> QED
    BY <2>1, DescriptionGood
<1>3. file_description_unref(k, d) =
        IF k.desc[d].ref_count > 1 THEN less
        ELSE IF k.desc[d].end \in {"read", "write"}
             THEN pipe_node_close(freed, k.desc[d].end, k.desc[d].pipe) ELSE freed
  BY Zenon DEF file_description_unref
<1> HIDE DEF less, freed
<1>4. ASSUME k.desc[d].end \in {"read", "write"}
      PROVE  LET c == pipe_node_close(freed, k.desc[d].end, k.desc[d].pipe)
                 p == k.desc[d].pipe
             IN c.pipe[p] = Closed(k.pipe[p], k.desc[d].end) /\ \A q \in Pipe \ {p} : c.pipe[q] = k.pipe[q]
  <2>1. PICK p \in Pipe : p = k.desc[d].pipe
    BY Zenon, <1>0, <1>4 DEF DescOK
  <2> QED
    BY SMTT(60), <1>2, <1>4, <2>1, CloseEffect
<1> QED
  BY Zenon, <1>1, <1>2, <1>3, <1>4

\* Tables r are k with description x in place d.
Adds(k, r, d, x) ==
  /\ r.state = k.state /\ r.pipe = k.pipe /\ r.desc[d] = x
  /\ \A e \in Description \ {d} : r.desc[e] = k.desc[e]

LEMMA DescribedEffect ==
  ASSUME NEW k, Good(k), NEW d \in Description, NEW end \in {"read", "write"}, NEW p \in Pipe
  PROVE  Good(Described(k, d, end, p)) /\ Adds(k, Described(k, d, end, p), d, NewEnd(end, p))
<1> DEFINE r == Described(k, d, end, p)
<1>1. Shape(k) /\ DOMAIN k.desc = Description
  BY Zenon DEF Good, Tidy, DescsOK
<1>2. r = [k EXCEPT !.desc[d] = NewEnd(end, p)]
  BY Zenon DEF Described, NewEnd
<1>3. Good(r)
  BY Zenon, DescribedGood
<1> HIDE DEF r
<1>4. r.state = k.state /\ r.pipe = k.pipe /\ r.desc = [k.desc EXCEPT ![d] = NewEnd(end, p)]
  BY Zenon, <1>1, <1>2 DEF Shape
<1>5. r.desc[d] = NewEnd(end, p) /\ \A e \in Description \ {d} : r.desc[e] = k.desc[e]
  BY Zenon, <1>1, <1>4
<1> QED
  BY Zenon, <1>3, <1>4, <1>5 DEF Adds, r

\* A description that was made and given back.
LEMMA LessNew ==
  ASSUME NEW end, NEW p
  PROVE  Less(NewEnd(end, p)) = FreeDescription
BY SMTT(60) DEF Less, NewEnd

LEMMA PipeCreated ==
  ASSUME IInv, NEW p \in Pipe, ~pipe[p].live, NEW k, k = NewPipe(p)
  PROVE  /\ Good(k) /\ k.desc = desc /\ k.state = state
         /\ k.pipe[p].readers = 1 /\ k.pipe[p].writers = 1 /\ k.pipe[p].live /\ k.pipe[p].count = 0
         /\ \A q \in Pipe \ {p} : k.pipe[q] = pipe[q]
<1> DEFINE new == [FreePipe EXCEPT !.data = [i \in 0..(PIPE_BUFFER_SIZE - 1) |-> CHOOSE b \in Byte : TRUE],
                                   !.readers = 1, !.writers = 1, !.live = TRUE]
<1>1. PipeOK(new) /\ new.readers = 1 /\ new.writers = 1 /\ new.live /\ new.count = 0
  BY PipesAssumption, SMTT(60) DEF PipeOK, FreePipe, Wrap
<1>2. k = [Tables EXCEPT !.pipe[p] = new]
  BY Zenon DEF NewPipe
<1> HIDE DEF new
<1>3. Good(k)
  BY <1>1, <1>2, NewPipeGood, TablesShape DEF IInv
<1>4. k.desc = desc /\ k.state = state /\ k.pipe = [pipe EXCEPT ![p] = new]
  BY Zenon, <1>2, TablesShape DEF Shape
<1>5. DOMAIN pipe = Pipe
  BY Zenon, TablesShape DEF IInv, Good, Tidy, PipesOK
<1>6. k.pipe[p] = new /\ \A q \in Pipe \ {p} : k.pipe[q] = pipe[q]
  BY Zenon, <1>4, <1>5
<1> QED
  BY Zenon, <1>1, <1>3, <1>4, <1>6

\* A new pipe with both its ends described.
LEMMA BothDescribed ==
  ASSUME NEW n, Good(n), NEW p \in Pipe, NEW r \in Description, NEW w \in Description, w # r,
         NEW b, b = Described(Described(n, r, "read", p), w, "write", p)
  PROVE  /\ Good(b) /\ b.state = n.state /\ b.pipe = n.pipe
         /\ b.desc[r] = NewEnd("read", p) /\ b.desc[w] = NewEnd("write", p)
         /\ \A e \in Description \ {r, w} : b.desc[e] = n.desc[e]
<1> DEFINE o == Described(n, r, "read", p)
<1>1. Good(o) /\ Adds(n, o, r, NewEnd("read", p))
  BY Zenon, DescribedEffect
<1> HIDE DEF o
<1>2. Good(Described(o, w, "write", p)) /\ Adds(o, Described(o, w, "write", p), w, NewEnd("write", p))
  BY Zenon, <1>1, DescribedEffect
<1>3. Good(b) /\ Adds(o, b, w, NewEnd("write", p))
  BY Zenon, <1>2 DEF o
<1> QED
  BY Zenon, <1>1, <1>3 DEF Adds

\* The ways sys_pipe can go, with n the new pipe and b that pipe with both ends.
Making(t, p, r, w, n, b) ==
  /\ ~pipe[p].live /\ desc[r].end = "free" /\ desc[w].end = "free" /\ w # r
  /\ n = NewPipe(p) /\ b = Described(Described(n, r, "read", p), w, "write", p)
  /\ \/ /\ \E rf \in Fd, wf \in Fd :
            /\ rf # wf /\ ~Open(t, rf) /\ ~Open(t, wf)
            /\ fds' = [fds EXCEPT ![t][rf] = r, ![t][wf] = w]
        /\ Become(b)
     \/ fds' = fds /\ Become(file_description_unref(file_description_unref(b, w), r))
     \/ fds' = fds /\ Become(n)
     \/ /\ fds' = fds
        /\ \E end \in {"read", "write"} :
             Become(file_description_unref(Described(n, r, end, p), r))

LEMMA PipeCases ==
  ASSUME IInv, NEW t \in Task, sys_pipe(t)
  PROVE  \E p \in Pipe, r \in Description, w \in Description : \E n, b : Making(t, p, r, w, n, b)
<1>1. PICK p \in Least({q \in Pipe : ~pipe[q].live}), r \in Description, w \in Description :
        /\ r \in Least({d \in Description : desc[d].end = "free"})
        /\ w \in Least({d \in Description : desc[d].end = "free"} \ {r})
        /\ \/ \E rf \in Least(FreeFds(t, FirstFd)) : \E wf \in Least(FreeFds(t, FirstFd) \ {rf}) :
                /\ fds' = [fds EXCEPT ![t][rf] = r, ![t][wf] = w]
                /\ Become(Described(Described(NewPipe(p), r, "read", p), w, "write", p))
           \/ /\ Become(file_description_unref(file_description_unref(
                         Described(Described(NewPipe(p), r, "read", p), w, "write", p), w), r))
              /\ UNCHANGED fds
           \/ /\ \/ Become(NewPipe(p))
                 \/ \E end \in {"read", "write"} :
                      Become(file_description_unref(Described(NewPipe(p), r, end, p), r))
              /\ UNCHANGED fds
  BY ZenonT(60) DEF sys_pipe
<1>2. p \in Pipe /\ ~pipe[p].live /\ desc[r].end = "free" /\ desc[w].end = "free" /\ w # r
  BY Zenon, <1>1 DEF Least
<1>3. PICK n, b : n = NewPipe(p) /\ b = Described(Described(n, r, "read", p), w, "write", p)
  BY Zenon
<1>4. \A rf \in Least(FreeFds(t, FirstFd)) : \A wf \in Least(FreeFds(t, FirstFd) \ {rf}) :
        rf \in Fd /\ wf \in Fd /\ rf # wf /\ ~Open(t, rf) /\ ~Open(t, wf)
  BY Zenon DEF Least, FreeFds
<1>5. \/ /\ \E rf \in Fd, wf \in Fd :
              /\ rf # wf /\ ~Open(t, rf) /\ ~Open(t, wf)
              /\ fds' = [fds EXCEPT ![t][rf] = r, ![t][wf] = w]
         /\ Become(b)
      \/ fds' = fds /\ Become(file_description_unref(file_description_unref(b, w), r))
      \/ fds' = fds /\ Become(n)
      \/ /\ fds' = fds
         /\ \E end \in {"read", "write"} : Become(file_description_unref(Described(n, r, end, p), r))
  BY <1>1, <1>3, <1>4, ZenonT(60)
<1> QED
  BY <1>2, <1>3, <1>5, ZenonT(60) DEF Making

-----------------------------------------------------------------------------
(* The actions *)

LEMMA InitIInv == Init => IInv
<1> SUFFICES ASSUME Init PROVE IInv
  BY Zenon
<1>1. fds \in [Task -> [Fd -> Description \cup {Null}]]
  <2>1. \A f \in Fd : f < FirstFd => f + 1 \in Description
    BY PipesAssumption, SMTT(60) DEF Fd, Description
  <2> QED
    BY Zenon, <2>1 DEF Init
<1>2. DescsOK(desc)
  <2>1. DescOK(FreeDescription) /\ DescOK([end |-> "console", pipe |-> Null, ref_count |-> 1])
    BY Zenon DEF DescOK, FreeDescription, Null
  <2> QED
    BY Zenon, <2>1 DEF Init, DescsOK
<1>3. PipesOK(pipe)
  <2>1. PipeOK(FreePipe)
    BY PipesAssumption, SMTT(60) DEF PipeOK, FreePipe, Wrap
  <2> QED
    BY Zenon, <2>1 DEF Init, PipesOK
<1>4. WaitsOK(state, wait) /\ Caused(pipe, state, wait)
  <2>1. NotWaiting \in Waits
    BY Zenon DEF NotWaiting, Waits
  <2> QED
    BY Zenon, <2>1 DEF Init, WaitsOK, Caused
<1> QED
  BY Zenon, <1>1, <1>2, <1>3, <1>4, TablesShape DEF IInv, Good, Tidy

\* What an open descriptor names.
LEMMA OpenDescription ==
  ASSUME IInv, NEW t \in Task, NEW f \in Fd, Open(t, f)
  PROVE  fds[t][f] \in Description /\ DescOK(desc[fds[t][f]])
BY TablesShape, SMTT(60) DEF IInv, Open, Good, Tidy, DescsOK, Null

LEMMA PipeStep ==
  ASSUME IInv, NEW t \in Task, sys_pipe(t)
  PROVE  IInv'
<1>0. PICK p \in Pipe, r \in Description, w \in Description : \E n, b : Making(t, p, r, w, n, b)
  BY Zenon, PipeCases
<1>1. PICK n, b : Making(t, p, r, w, n, b)
  BY Zenon, <1>0
<1>2. Good(n)
  BY Zenon, <1>1, PipeCreated DEF Making
<1>3. Good(b)
  BY Zenon, <1>1, <1>2, DescribedGood DEF Making
<1>4. Good(file_description_unref(file_description_unref(b, w), r))
  BY Zenon, <1>3, UnrefGood
<1>5. \A end \in {"read", "write"} : Good(file_description_unref(Described(n, r, end, p), r))
  BY Zenon, <1>2, DescribedGood, UnrefGood
<1>6. Good(Tables)'
  BY Zenon, <1>1, <1>2, <1>3, <1>4, <1>5, BecomeGood DEF Making
<1>7. ASSUME NEW rf \in Fd, NEW wf \in Fd, fds' = [fds EXCEPT ![t][rf] = r, ![t][wf] = w]
      PROVE  fds' \in [Task -> [Fd -> Description \cup {Null}]]
  <2> DEFINE g == [fds EXCEPT ![t][rf] = r]
  <2>1. g \in [Task -> [Fd -> Description \cup {Null}]]
    BY Zenon DEF IInv
  <2>2. fds' = [g EXCEPT ![t][wf] = w]
    BY Zenon, <1>7
  <2> HIDE DEF g
  <2> QED
    BY Zenon, <2>1, <2>2
<1>8. fds' \in [Task -> [Fd -> Description \cup {Null}]]
  BY Zenon, <1>1, <1>7 DEF IInv, Making
<1> QED
  BY Zenon, <1>6, <1>8 DEF IInv

LEMMA ReadStep ==
  ASSUME IInv, NEW t \in Task, NEW f \in Fd, NEW size \in 1..PIPE_BUFFER_SIZE, pipe_read(t, f, size)
  PROVE  IInv'
<1> DEFINE p == desc[fds[t][f]].pipe
           n == IF size < pipe[p].count THEN size ELSE pipe[p].count
<1>1. p \in Pipe
  BY Zenon, OpenDescription DEF pipe_read, DescOK
<1>2. PipeOK(pipe[p]) /\ Good(Tables)
  BY Zenon, <1>1, TablesShape DEF IInv, Good, Tidy, PipesOK
<1>3. Become(IF n > 0 THEN Read(Tables, p, n)
             ELSE IF pipe[p].writers = 0 THEN Tables ELSE Sleep(Tables, t, "PIPE_READ", p))
  BY Zenon DEF pipe_read
<1> HIDE DEF p
<1>4. pipe[p].count \in 0..PIPE_BUFFER_SIZE /\ pipe[p].writers \in Nat
  BY Zenon, <1>2 DEF PipeOK
<1>5. n > 0 => n \in 1..Tables.pipe[p].count
  BY <1>4, TablesShape, PipesAssumption, SMTT(60)
<1>6. ~(n > 0) => pipe[p].count = 0
  BY <1>4, PipesAssumption, SMTT(60)
<1> HIDE DEF n
<1>7. CASE n > 0
  BY ZenonT(60), <1>1, <1>2, <1>3, <1>5, <1>7, ReadGood, BecomeGood DEF IInv, pipe_read
<1>8. CASE ~(n > 0) /\ pipe[p].writers = 0
  BY ZenonT(60), <1>2, <1>3, <1>8, BecomeGood DEF IInv, pipe_read
<1>9. CASE ~(n > 0) /\ pipe[p].writers # 0
  <2>1. Cause(Tables.pipe, [reason |-> "PIPE_READ", target |-> p])
    BY <1>1, <1>4, <1>6, <1>9, TablesShape, SMTT(60) DEF Cause
  <2>2. Good(Sleep(Tables, t, "PIPE_READ", p))
    BY Zenon, <1>1, <1>2, <2>1, SleepGood
  <2> QED
    BY Zenon, <1>3, <1>9, <2>2, BecomeGood DEF IInv, pipe_read
<1> QED
  BY Zenon, <1>7, <1>8, <1>9

LEMMA WriteStep ==
  ASSUME IInv, NEW t \in Task, NEW f \in Fd, NEW s \in Buffers, pipe_write(t, f, s)
  PROVE  IInv'
<1> DEFINE p == desc[fds[t][f]].pipe
           space == PIPE_BUFFER_SIZE - pipe[p].count
           n == IF Len(s) < space THEN Len(s) ELSE space
<1>1. p \in Pipe
  BY ZenonT(60), OpenDescription DEF pipe_write, DescOK
<1>2. PipeOK(pipe[p]) /\ Good(Tables)
  BY Zenon, <1>1, TablesShape DEF IInv, Good, Tidy, PipesOK
<1>3. /\ pipe[p].readers > 0
      /\ Become(IF n > 0 THEN Write(Tables, p, SubSeq(s, 1, n)) ELSE Sleep(Tables, t, "PIPE_WRITE", p))
  BY Zenon DEF pipe_write
<1>4. s \in Seq(Byte) /\ Len(s) \in Nat \ {0}
  <2>1. PICK m \in 1..MaxWrite : s \in [1..m -> Byte]
    BY Zenon DEF Buffers
  <2> QED
    BY <2>1, PipesAssumption, SMTT(60)
<1> HIDE DEF p
<1>5. pipe[p].count \in 0..PIPE_BUFFER_SIZE
  BY Zenon, <1>2 DEF PipeOK
<1>6. n > 0 => n \in 1..Len(s) /\ n \in 1..(PIPE_BUFFER_SIZE - pipe[p].count)
  BY <1>4, <1>5, PipesAssumption, SMTT(60)
<1>7. ~(n > 0) => pipe[p].count = PIPE_BUFFER_SIZE
  BY <1>4, <1>5, PipesAssumption, SMTT(60)
<1> HIDE DEF n, space
<1>8. n > 0 => Len(SubSeq(s, 1, n)) \in 1..(PIPE_BUFFER_SIZE - Tables.pipe[p].count)
  <2>1. n > 0 => Len(SubSeq(s, 1, n)) = n
    BY <1>4, <1>6, SMTT(60)
  <2> QED
    BY Zenon, <1>6, <2>1, TablesShape
<1>9. CASE n > 0
  <2>1. Good(Write(Tables, p, SubSeq(s, 1, n)))
    BY Zenon, <1>1, <1>2, <1>8, <1>9, WriteGood
  <2> QED
    BY Zenon, <1>3, <1>9, <2>1, BecomeGood DEF IInv, pipe_write
<1>10. CASE ~(n > 0)
  <2>1. Cause(Tables.pipe, [reason |-> "PIPE_WRITE", target |-> p])
    BY Zenon, <1>1, <1>2, <1>3, <1>7, <1>10, TablesShape DEF Cause
  <2>2. Good(Sleep(Tables, t, "PIPE_WRITE", p))
    BY Zenon, <1>1, <1>2, <2>1, SleepGood
  <2> QED
    BY Zenon, <1>3, <1>10, <2>2, BecomeGood DEF IInv, pipe_write
<1> QED
  BY Zenon, <1>9, <1>10

LEMMA TerminateStep ==
  ASSUME IInv, NEW u \in Task, scheduler_terminate_task(u)
  PROVE  IInv'
<1> DEFINE last == {d \in Description : Uses(u, d) > 0 /\ desc[d].ref_count = Uses(u, d)}
<1>1. CASE \E d \in last : desc[d].end \in {"read", "write"}
  BY Zenon, <1>1 DEF scheduler_terminate_task, IInv, Good, Tables
<1>2. CASE ~\E d \in last : desc[d].end \in {"read", "write"}
  <2>1. /\ fds' = [fds EXCEPT ![u] = [f \in Fd |-> Null]]
        /\ desc' = [d \in Description |->
                      IF d \in last THEN FreeDescription
                      ELSE [desc[d] EXCEPT !.ref_count = @ - Uses(u, d)]]
        /\ state' = [state EXCEPT ![u] = "DEAD"] /\ wait' = [wait EXCEPT ![u] = NotWaiting]
        /\ pipe' = pipe
    BY Zenon, <1>2 DEF scheduler_terminate_task
  <2> HIDE DEF last
  <2>2. DescsOK(desc')
    <3>1. DescsOK(desc)
      BY Zenon, TablesShape DEF IInv, Good, Tidy
    <3>2. DescOK(FreeDescription)
      BY Zenon DEF DescOK, FreeDescription, Null
    <3>3. \A d \in Description : DescOK([desc[d] EXCEPT !.ref_count = @ - Uses(u, d)])
      BY <3>1, SMTT(60) DEF DescsOK, DescOK
    <3> QED
      BY Zenon, <2>1, <3>2, <3>3 DEF DescsOK
  <2>3. Good(Tables)'
    BY Zenon, <2>1, <2>2, UpGood DEF IInv
  <2>4. fds' \in [Task -> [Fd -> Description \cup {Null}]]
    BY Zenon, <2>1 DEF IInv
  <2> QED
    BY Zenon, <2>3, <2>4 DEF IInv
<1> QED
  BY Zenon, <1>1, <1>2

LEMMA BrokenStep ==
  ASSUME IInv, NEW t \in Task, NEW f \in Fd, pipe_write_broken(t, f)
  PROVE  IInv'
<1>1. CASE scheduler_terminate_task(t)
  BY Zenon, <1>1, TerminateStep
<1>2. CASE /\ state' = [state EXCEPT ![t] = "READY"] /\ wait' = [wait EXCEPT ![t] = NotWaiting]
           /\ UNCHANGED <<fds, desc, pipe>>
  <2>1. DescsOK(desc)
    BY Zenon, TablesShape DEF IInv, Good, Tidy
  <2> QED
    BY Zenon, <1>2, <2>1, UpGood DEF IInv
<1>3. CASE UNCHANGED <<fds, desc, pipe, state, wait>>
  BY Zenon, <1>3 DEF IInv, Tables
<1> QED
  BY Zenon, <1>1, <1>2, <1>3 DEF pipe_write_broken

LEMMA DuplicateStep ==
  ASSUME IInv, NEW t \in Task, NEW old \in Fd, NEW new \in Fd, Open(t, old), Duplicate(t, old, new)
  PROVE  IInv'
<1>1. fds[t][old] \in Description
  BY Zenon, OpenDescription
<1>2. Good(Tables)'
  BY ZenonT(60), <1>1, CountedGood, BecomeGood DEF Duplicate, IInv
<1>3. fds' \in [Task -> [Fd -> Description \cup {Null}]]
  BY Zenon, <1>1 DEF Duplicate, IInv
<1> QED
  BY Zenon, <1>2, <1>3 DEF IInv

LEMMA Dup2Step ==
  ASSUME IInv, NEW t \in Task, NEW old \in Fd, NEW new \in Fd, sys_dup2(t, old, new)
  PROVE  IInv'
<1> DEFINE k == file_description_unref(Tables, fds[t][new])
<1>1. CASE ~Open(t, new) /\ Duplicate(t, old, new)
  BY Zenon, <1>1, DuplicateStep DEF sys_dup2
<1>2. CASE /\ Open(t, new) /\ fds' = [fds EXCEPT ![t][new] = fds[t][old]]
           /\ Become([k EXCEPT !.desc[fds[t][old]].ref_count = @ + 1])
  <2>1. fds[t][old] \in Description /\ fds[t][new] \in Description
    BY Zenon, <1>2, OpenDescription DEF sys_dup2
  <2>2. Good(k)
    BY Zenon, <2>1, UnrefGood DEF IInv
  <2> HIDE DEF k
  <2>3. Good(Tables)'
    BY Zenon, <1>2, <2>1, <2>2, CountedGood, BecomeGood
  <2>4. fds' \in [Task -> [Fd -> Description \cup {Null}]]
    BY Zenon, <1>2, <2>1 DEF IInv
  <2> QED
    BY Zenon, <2>3, <2>4 DEF IInv
<1> QED
  BY Zenon, <1>1, <1>2 DEF sys_dup2

LEMMA CloseStep ==
  ASSUME IInv, NEW t \in Task, NEW f \in Fd, sys_close(t, f)
  PROVE  IInv'
<1>1. fds[t][f] \in Description
  BY Zenon, OpenDescription DEF sys_close
<1>2. Good(Tables)'
  BY Zenon, <1>1, UnrefGood, BecomeGood DEF sys_close, IInv
<1>3. fds' \in [Task -> [Fd -> Description \cup {Null}]]
  BY Zenon DEF sys_close, IInv
<1> QED
  BY Zenon, <1>2, <1>3 DEF IInv

LEMMA ForkStep ==
  ASSUME IInv, NEW t \in Task, fork(t)
  PROVE  IInv'
<1>1. PICK c \in Task :
        /\ fds' = [fds EXCEPT ![c] = fds[t]]
        /\ desc' = [d \in Description |-> [desc[d] EXCEPT !.ref_count = @ + Uses(t, d)]]
        /\ state' = [state EXCEPT ![c] = "READY"] /\ wait' = [wait EXCEPT ![c] = NotWaiting]
        /\ pipe' = pipe
  BY Zenon DEF fork, Least
<1>2. DescsOK(desc')
  <2>1. DescsOK(desc)
    BY Zenon, TablesShape DEF IInv, Good, Tidy
  <2>2. \A d \in Description : DescOK([desc[d] EXCEPT !.ref_count = @ + Uses(t, d)])
    BY <2>1, SMTT(60) DEF DescsOK, DescOK
  <2> QED
    BY Zenon, <1>1, <2>2 DEF DescsOK
<1>3. Good(Tables)'
  BY Zenon, <1>1, <1>2, UpGood DEF IInv
<1>4. fds' \in [Task -> [Fd -> Description \cup {Null}]]
  BY Zenon, <1>1 DEF IInv
<1> QED
  BY Zenon, <1>3, <1>4 DEF IInv

LEMMA NextIInv == IInv /\ [Next]_vars => IInv'
<1> SUFFICES ASSUME IInv, [Next]_vars PROVE IInv'
  BY Zenon
<1>1. CASE UNCHANGED vars
  BY Zenon, <1>1 DEF vars, IInv, Tables
<1>2. CASE scheduler_tick
  BY Zenon, <1>2 DEF scheduler_tick, IInv, Tables
<1>3. ASSUME NEW t \in Task, Syscall(t) PROVE IInv'
  <2>1. CASE sys_pipe(t)
    BY Zenon, <2>1, PipeStep
  <2>2. CASE fork(t)
    BY Zenon, <2>2, ForkStep
  <2>3. ASSUME NEW u \in Task, terminate(t, u) PROVE IInv'
    BY Zenon, <2>3, TerminateStep DEF terminate
  <2>4. ASSUME NEW u \in Task, scheduler_send_signal(t, u) PROVE IInv'
    <3>1. DescsOK(desc)
      BY Zenon, TablesShape DEF IInv, Good, Tidy
    <3> QED
      BY Zenon, <2>4, <3>1, UpGood DEF scheduler_send_signal, IInv
  <2>5. ASSUME NEW f \in Fd, sys_close(t, f) PROVE IInv'
    BY Zenon, <2>5, CloseStep
  <2>6. ASSUME NEW f \in Fd, pipe_write_broken(t, f) PROVE IInv'
    BY Zenon, <2>6, BrokenStep
  <2>7. ASSUME NEW f \in Fd, NEW size \in 1..PIPE_BUFFER_SIZE, pipe_read(t, f, size) PROVE IInv'
    BY Zenon, <2>7, ReadStep
  <2>8. ASSUME NEW f \in Fd, NEW s \in Buffers, pipe_write(t, f, s) PROVE IInv'
    BY Zenon, <2>8, WriteStep
  <2>9. ASSUME NEW f \in Fd, NEW g \in Fd, sys_dup(t, f, g) PROVE IInv'
    BY Zenon, <2>9, DuplicateStep DEF sys_dup, Least, FreeFds
  <2>10. ASSUME NEW f \in Fd, NEW g \in Fd, sys_dup2(t, f, g) PROVE IInv'
    BY Zenon, <2>10, Dup2Step
  <2> QED
    BY Zenon, <1>3, <2>1, <2>2, <2>3, <2>4, <2>5, <2>6, <2>7, <2>8, <2>9, <2>10 DEF Syscall
<1> QED
  BY Zenon, <1>1, <1>2, <1>3 DEF Next

\* pipe_read and pipe_write never lose a wake-up: whatever the tasks call and
\* whenever the timer ticks, a sleeping reader has an empty pipe with a write end
\* and a sleeping writer a full one with a read end.
THEOREM NoLostPipeWakeup == Spec => []SleepersHaveCause
<1>1. IInv => SleepersHaveCause
  BY ZenonT(60), TablesShape DEF IInv, Good, Caused, Cause, SleepersHaveCause
<1> QED
  BY <1>1, InitIInv, NextIInv, PTL DEF Spec

-----------------------------------------------------------------------------
(* Ends of pipes *)

EndOf(D, end, p) == \E d \in Description : D[d].end = end /\ D[d].pipe = p

HasEnd(D, p) == EndOf(D, "read", p) \/ EndOf(D, "write", p)

\* An end of a pipe has one description.
Sole(D) ==
  \A d, e \in Description :
    D[d].end \in {"read", "write"} /\ D[e].end = D[d].end /\ D[e].pipe = D[d].pipe => d = e

\* x is pipe p, and counts its ends as long as it has one.
Joint(D, x, p) ==
  /\ x.readers \in {0, 1} /\ x.writers \in {0, 1}
  /\ HasEnd(D, p) => /\ x.live
                     /\ x.readers = 1 <=> EndOf(D, "read", p)
                     /\ x.writers = 1 <=> EndOf(D, "write", p)

EndsOK(D, P) == Sole(D) /\ \A p \in Pipe : Joint(D, P[p], p)

\* Who loses its last end is freed.
Frees(D, E, P) == \A p \in Pipe : HasEnd(D, p) /\ ~HasEnd(E, p) => ~P[p].live

EInv == IInv /\ EndsOK(desc, pipe) /\ current \in Task \cup {Null}

-----------------------------------------------------------------------------
(* Changes of the tables *)

\* Descriptions of the same ends; console descriptions may come and go.
SameEnds(D, E) ==
  \A d \in Description :
    \/ E[d].end = D[d].end /\ E[d].pipe = D[d].pipe
    \/ E[d].end \notin {"read", "write"} /\ D[d].end \notin {"read", "write"}

SameFlags(x, y) == y.live = x.live /\ y.readers = x.readers /\ y.writers = x.writers

LEMMA SameEndOf ==
  ASSUME NEW D, NEW E, SameEnds(D, E), NEW p
  PROVE  /\ EndOf(E, "read", p) <=> EndOf(D, "read", p)
         /\ EndOf(E, "write", p) <=> EndOf(D, "write", p)
         /\ HasEnd(E, p) <=> HasEnd(D, p)
BY Zenon DEF SameEnds, EndOf, HasEnd

LEMMA SameSole ==
  ASSUME NEW D, NEW E, SameEnds(D, E), Sole(D)
  PROVE  Sole(E)
BY SMTT(60) DEF SameEnds, Sole

LEMMA KeepEnds ==
  ASSUME NEW D, NEW E, SameEnds(D, E), NEW P, EndsOK(D, P), NEW Q,
         \A p \in Pipe : SameFlags(P[p], Q[p])
  PROVE  EndsOK(E, Q) /\ Frees(D, E, Q)
<1>1. ASSUME NEW p \in Pipe PROVE Joint(E, Q[p], p)
  <2>1. Joint(D, P[p], p) /\ SameFlags(P[p], Q[p])
    BY ZenonT(60) DEF EndsOK
  <2> QED
    BY ZenonT(60), <2>1, SameEndOf DEF Joint, SameFlags
<1> QED
  BY ZenonT(60), <1>1, SameSole, SameEndOf DEF EndsOK, Frees

\* The flags of a pipe without ends say nothing.
LEMMA OrphanEnds ==
  ASSUME NEW D, NEW E, SameEnds(D, E), NEW P, EndsOK(D, P), NEW Q, NEW p \in Pipe, ~HasEnd(D, p),
         Q[p].readers \in {0, 1}, Q[p].writers \in {0, 1}, \A q \in Pipe \ {p} : Q[q] = P[q]
  PROVE  EndsOK(E, Q) /\ Frees(D, E, Q)
<1>1. ASSUME NEW q \in Pipe PROVE Joint(E, Q[q], q)
  <2>1. Joint(D, P[q], q)
    BY Zenon DEF EndsOK
  <2>2. CASE q = p
    BY ZenonT(60), <2>2, SameEndOf DEF Joint
  <2>3. CASE q # p
    BY ZenonT(60), <2>1, <2>3, SameEndOf DEF Joint
  <2> QED
    BY Zenon, <2>2, <2>3
<1> QED
  BY ZenonT(60), <1>1, SameSole, SameEndOf DEF EndsOK, Frees

\* The two ends of a new pipe.
LEMMA NewEnds ==
  ASSUME NEW D, NEW P, EndsOK(D, P), NEW p \in Pipe, ~P[p].live,
         NEW r \in Description, NEW w \in Description, r # w, D[r].end = "free", D[w].end = "free",
         NEW E, E[r].end = "read", E[r].pipe = p, E[w].end = "write", E[w].pipe = p,
         \A d \in Description \ {r, w} : E[d] = D[d],
         NEW Q, Q[p].readers = 1, Q[p].writers = 1, Q[p].live, \A q \in Pipe \ {p} : Q[q] = P[q]
  PROVE  EndsOK(E, Q) /\ Frees(D, E, Q)
<1>1. ~HasEnd(D, p)
  BY Zenon DEF EndsOK, Joint
<1>2. EndOf(E, "read", p) /\ EndOf(E, "write", p)
  BY Zenon DEF EndOf
<1>3. ASSUME NEW q \in Pipe, q # p
      PROVE  /\ EndOf(E, "read", q) <=> EndOf(D, "read", q)
             /\ EndOf(E, "write", q) <=> EndOf(D, "write", q)
  BY <1>3, SMTT(60) DEF EndOf
<1>4. ASSUME NEW q \in Pipe PROVE Joint(E, Q[q], q)
  <2>1. CASE q = p
    BY Zenon, <1>2, <2>1 DEF Joint
  <2>2. CASE q # p
    <3>1. Joint(D, P[q], q) /\ Q[q] = P[q]
      BY Zenon, <2>2 DEF EndsOK
    <3> QED
      BY ZenonT(60), <1>3, <2>2, <3>1 DEF Joint, HasEnd
  <2> QED
    BY ZenonT(60), <2>1, <2>2
<1>5. Sole(E)
  <2>1. \A d \in Description \ {r, w} : E[d].end \in {"read", "write"} => E[d].pipe # p
    BY ZenonT(60), <1>1 DEF HasEnd, EndOf
  <2> QED
    BY <2>1, SMTT(60) DEF EndsOK, Sole
<1>6. Frees(D, E, Q)
  BY Zenon, <1>1, <1>3 DEF Frees, HasEnd
<1> QED
  BY Zenon, <1>4, <1>5, <1>6 DEF EndsOK

LEMMA ClosedRead ==
  ASSUME NEW x, PipeOK(x), x.readers \in {0, 1}, x.writers \in {0, 1}, NEW y, y = Closed(x, "read")
  PROVE  /\ y.readers \in {0, 1} /\ y.writers \in {0, 1}
         /\ x.writers = 1 => y.readers = 0 /\ y.writers = 1 /\ (x.live => y.live)
         /\ x.writers = 0 => ~y.live
<1> DEFINE c == Closing(x, "read")
<1>1. c.live = x.live /\ c.readers = 0 /\ c.writers = x.writers
  BY SMTT(60) DEF Closing, Less1, PipeOK
<1>2. y = IF c.readers = 0 /\ c.writers = 0 THEN FreePipe ELSE c
  BY Zenon DEF Closed
<1>3. FreePipe.readers = 0 /\ FreePipe.writers = 0 /\ ~FreePipe.live
  BY Zenon DEF FreePipe
<1> HIDE DEF c
<1> QED
  BY <1>1, <1>2, <1>3, SMTT(60)

LEMMA ClosedWrite ==
  ASSUME NEW x, PipeOK(x), x.readers \in {0, 1}, x.writers \in {0, 1}, NEW y, y = Closed(x, "write")
  PROVE  /\ y.readers \in {0, 1} /\ y.writers \in {0, 1}
         /\ x.readers = 1 => y.readers = 1 /\ y.writers = 0 /\ (x.live => y.live)
         /\ x.readers = 0 => ~y.live
<1> DEFINE c == Closing(x, "write")
<1>1. c.live = x.live /\ c.writers = 0 /\ c.readers = x.readers
  BY SMTT(60) DEF Closing, Less1, PipeOK
<1>2. y = IF c.readers = 0 /\ c.writers = 0 THEN FreePipe ELSE c
  BY Zenon DEF Closed
<1>3. FreePipe.readers = 0 /\ FreePipe.writers = 0 /\ ~FreePipe.live
  BY Zenon DEF FreePipe
<1> HIDE DEF c
<1> QED
  BY <1>1, <1>2, <1>3, SMTT(60)

\* The sole description of an end is freed, and the end closed.
LEMMA CloseEnds ==
  ASSUME NEW D, NEW P, EndsOK(D, P), NEW d \in Description, D[d].end \in {"read", "write"},
         NEW p \in Pipe, D[d].pipe = p, PipeOK(P[p]),
         NEW E, E[d].end = "free", \A e \in Description \ {d} : E[e] = D[e],
         NEW Q, Q[p] = Closed(P[p], D[d].end), \A q \in Pipe \ {p} : Q[q] = P[q]
  PROVE  EndsOK(E, Q) /\ Frees(D, E, Q)
<1>1. Joint(D, P[p], p) /\ HasEnd(D, p) /\ Sole(D)
  BY Zenon DEF EndsOK, HasEnd, EndOf
<1>2. ~EndOf(E, D[d].end, p)
  BY <1>1, SMTT(60) DEF Sole, EndOf
<1>3. ASSUME NEW q \in Pipe, NEW end \in {"read", "write"}, q # p \/ end # D[d].end
      PROVE  EndOf(E, end, q) <=> EndOf(D, end, q)
  BY ZenonT(60), <1>3 DEF EndOf
<1>4. Sole(E)
  BY <1>1, SMTT(60) DEF Sole
<1>5. ASSUME NEW q \in Pipe, q # p
      PROVE  Joint(E, Q[q], q) /\ (HasEnd(D, q) => HasEnd(E, q))
  <2>1. Joint(D, P[q], q) /\ Q[q] = P[q]
    BY ZenonT(60), <1>5 DEF EndsOK
  <2> QED
    BY ZenonT(60), <1>3, <1>5, <2>1 DEF Joint, HasEnd
<1>6. Joint(E, Q[p], p) /\ (~HasEnd(E, p) => ~Q[p].live)
  <2>1. CASE D[d].end = "read"
    <3>1. EndOf(E, "write", p) <=> EndOf(D, "write", p)
      BY Zenon, <1>3, <2>1
    <3>2. ~EndOf(E, "read", p)
      BY Zenon, <1>2, <2>1
    <3>3. P[p].writers = 1 <=> EndOf(D, "write", p)
      BY ZenonT(60), <1>1 DEF Joint
    <3>4. P[p].writers \in {0, 1} /\ P[p].readers \in {0, 1} /\ P[p].live
      BY ZenonT(60), <1>1 DEF Joint
    <3>5. /\ Q[p].readers \in {0, 1} /\ Q[p].writers \in {0, 1}
          /\ P[p].writers = 1 => Q[p].readers = 0 /\ Q[p].writers = 1 /\ Q[p].live
          /\ P[p].writers = 0 => ~Q[p].live
      <4>1. Q[p] = Closed(P[p], "read")
        BY Zenon, <2>1
      <4> QED
        BY <3>4, <4>1, ClosedRead
    <3> QED
      BY Zenon, <3>1, <3>2, <3>3, <3>4, <3>5 DEF Joint, HasEnd
  <2>2. CASE D[d].end = "write"
    <3>1. EndOf(E, "read", p) <=> EndOf(D, "read", p)
      BY ZenonT(60), <1>3, <2>2
    <3>2. ~EndOf(E, "write", p)
      BY Zenon, <1>2, <2>2
    <3>3. P[p].readers = 1 <=> EndOf(D, "read", p)
      BY ZenonT(60), <1>1 DEF Joint
    <3>4. P[p].writers \in {0, 1} /\ P[p].readers \in {0, 1} /\ P[p].live
      BY Zenon, <1>1 DEF Joint
    <3>5. /\ Q[p].readers \in {0, 1} /\ Q[p].writers \in {0, 1}
          /\ P[p].readers = 1 => Q[p].readers = 1 /\ Q[p].writers = 0 /\ Q[p].live
          /\ P[p].readers = 0 => ~Q[p].live
      <4>1. Q[p] = Closed(P[p], "write")
        BY Zenon, <2>2
      <4> QED
        BY <3>4, <4>1, ClosedWrite
    <3> QED
      BY Zenon, <3>1, <3>2, <3>3, <3>4, <3>5 DEF Joint, HasEnd
  <2> QED
    BY ZenonT(60), <2>1, <2>2
<1> QED
  BY ZenonT(60), <1>4, <1>5, <1>6 DEF EndsOK, Frees

-----------------------------------------------------------------------------
(* What the helpers do to ends *)

LEMMA UnrefEnds ==
  ASSUME NEW k, Good(k), EndsOK(k.desc, k.pipe), NEW d \in Description
  PROVE  LET r == file_description_unref(k, d)
         IN EndsOK(r.desc, r.pipe) /\ Frees(k.desc, r.desc, r.pipe)
<1> DEFINE r == file_description_unref(k, d)
<1>1. Released(k.desc, r.desc, d) /\ DescOK(k.desc[d])
  BY ZenonT(60), UnrefEffect DEF Good, Tidy, DescsOK
<1>2. CASE k.desc[d].ref_count > 1 \/ k.desc[d].end \notin {"read", "write"}
  <2>1. r.pipe = k.pipe
    BY ZenonT(60), <1>2, UnrefPipe
  <2> HIDE DEF r
  <2>2. SameEnds(k.desc, r.desc)
    <3>1. /\ [k.desc[d] EXCEPT !.ref_count = @ - 1].end = k.desc[d].end
          /\ [k.desc[d] EXCEPT !.ref_count = @ - 1].pipe = k.desc[d].pipe
      BY Zenon, <1>1 DEF DescOK
    <3>2. FreeDescription.end = "free"
      BY Zenon DEF FreeDescription
    <3>3. \/ r.desc[d].end = k.desc[d].end /\ r.desc[d].pipe = k.desc[d].pipe
          \/ r.desc[d].end = "free" /\ k.desc[d].end \notin {"read", "write"}
      BY Zenon, <1>1, <1>2, <3>1, <3>2 DEF Released, Less
    <3> QED
      BY Zenon, <1>1, <3>3 DEF Released, SameEnds
  <2>3. \A p \in Pipe : SameFlags(k.pipe[p], r.pipe[p])
    BY Zenon, <2>1 DEF SameFlags
  <2> QED
    BY ZenonT(60), <2>2, <2>3, KeepEnds DEF r
<1>3. CASE ~(k.desc[d].ref_count > 1 \/ k.desc[d].end \notin {"read", "write"})
  <2>1. PICK p \in Pipe : p = k.desc[d].pipe
    BY Zenon, <1>1, <1>3 DEF DescOK
  <2>2. r.pipe[p] = Closed(k.pipe[p], k.desc[d].end) /\ \A q \in Pipe \ {p} : r.pipe[q] = k.pipe[q]
    BY Zenon, <1>3, <2>1, UnrefPipe
  <2> HIDE DEF r
  <2>3. r.desc[d].end = "free" /\ \A e \in Description \ {d} : r.desc[e] = k.desc[e]
    BY <1>1, <1>3 DEF Released, Less, FreeDescription
  <2>4. PipeOK(k.pipe[p])
    BY Zenon DEF Good, Tidy, PipesOK
  <2>5. k.desc[d].end \in {"read", "write"} /\ k.desc[d].pipe = p
    BY Zenon, <1>3, <2>1
  <2>6. EndsOK(r.desc, r.pipe) /\ Frees(k.desc, r.desc, r.pipe)
    BY <2>2, <2>3, <2>4, <2>5, CloseEnds
  <2> QED
    BY Zenon, <2>6 DEF r
<1> QED
  BY ZenonT(60), <1>2, <1>3

\* A description that gains a reference stays the end it was.
LEMMA RefEnds ==
  ASSUME NEW k, Good(k), NEW o \in Description
  PROVE  LET r == [k EXCEPT !.desc[o].ref_count = @ + 1]
         IN r.pipe = k.pipe /\ SameEnds(k.desc, r.desc)
<1> DEFINE x == [k.desc[o] EXCEPT !.ref_count = @ + 1]
           r == [k EXCEPT !.desc[o].ref_count = @ + 1]
<1>1. DescOK(k.desc[o]) /\ Shape(k) /\ DOMAIN k.desc = Description
  BY Zenon DEF Good, Tidy, DescsOK
<1>2. r.pipe = k.pipe /\ r.desc = [k.desc EXCEPT ![o] = x]
  BY Zenon, <1>1 DEF Shape
<1>3. x.end = k.desc[o].end /\ x.pipe = k.desc[o].pipe
  BY Zenon, <1>1 DEF DescOK
<1> HIDE DEF r, x
<1>4. \A d \in Description : r.desc[d] = IF d = o THEN x ELSE k.desc[d]
  BY Zenon, <1>1, <1>2
<1>5. SameEnds(k.desc, r.desc)
  BY Zenon, <1>3, <1>4 DEF SameEnds
<1> QED
  BY Zenon, <1>2, <1>5 DEF r

-----------------------------------------------------------------------------
(* The actions and the ends *)

\* What a step owes.
EndsKept == EndsOK(desc', pipe') /\ Frees(desc, desc', pipe')

LEMMA InitEnds == Init => EndsOK(desc, pipe)
<1> SUFFICES ASSUME Init PROVE EndsOK(desc, pipe)
  BY Zenon
<1>1. \A d \in Description : desc[d].end \notin {"read", "write"}
  BY Zenon DEF Init, FreeDescription
<1>2. \A p \in Pipe : pipe[p].readers = 0 /\ pipe[p].writers = 0
  BY Zenon DEF Init, FreePipe
<1> QED
  BY Zenon, <1>1, <1>2 DEF EndsOK, Sole, Joint, HasEnd, EndOf

LEMMA SteadyEnds ==
  ASSUME EInv, SameEnds(desc, desc'), \A p \in Pipe : SameFlags(pipe[p], pipe'[p])
  PROVE  EndsKept
BY Zenon, KeepEnds DEF EInv, EndsKept

LEMMA QuietEnds ==
  ASSUME EInv, desc' = desc, pipe' = pipe
  PROVE  EndsKept
BY Zenon, SteadyEnds DEF SameEnds, SameFlags

LEMMA GoodTables == EInv => Good(Tables) /\ EndsOK(Tables.desc, Tables.pipe)
BY Zenon, TablesShape DEF EInv, IInv

LEMMA UnrefStepEnds ==
  ASSUME EInv, NEW d \in Description, NEW k, k = file_description_unref(Tables, d)
  PROVE  Good(k) /\ EndsOK(k.desc, k.pipe) /\ Frees(desc, k.desc, k.pipe)
BY Zenon, GoodTables, TablesShape, UnrefEnds, UnrefGood

LEMMA CloseStepEnds ==
  ASSUME EInv, NEW t \in Task, NEW f \in Fd, sys_close(t, f)
  PROVE  EndsKept
<1>1. fds[t][f] \in Description
  BY Zenon, OpenDescription DEF sys_close, EInv
<1>2. PICK k : k = file_description_unref(Tables, fds[t][f]) /\ Become(k)
  BY Zenon DEF sys_close
<1> QED
  BY Zenon, <1>1, <1>2, UnrefStepEnds DEF Become, EndsKept

LEMMA DuplicateEnds ==
  ASSUME EInv, NEW t \in Task, NEW old \in Fd, NEW new \in Fd, Open(t, old), Duplicate(t, old, new)
  PROVE  EndsKept
<1> DEFINE r == [Tables EXCEPT !.desc[fds[t][old]].ref_count = @ + 1]
<1>1. fds[t][old] \in Description
  BY Zenon, OpenDescription DEF EInv
<1>2. r.pipe = pipe /\ SameEnds(desc, r.desc)
  BY Zenon, <1>1, GoodTables, TablesShape, RefEnds
<1>3. desc' = r.desc /\ pipe' = r.pipe
  BY Zenon DEF Duplicate, Become
<1> HIDE DEF r
<1> QED
  BY Zenon, <1>2, <1>3, SteadyEnds DEF SameFlags

LEMMA ReplaceEnds ==
  ASSUME EInv, NEW t \in Task, NEW old \in Fd, NEW new \in Fd, Open(t, old), Open(t, new),
         NEW k, k = file_description_unref(Tables, fds[t][new]), NEW r,
         r = [k EXCEPT !.desc[fds[t][old]].ref_count = @ + 1], desc' = r.desc, pipe' = r.pipe
  PROVE  EndsKept
<1>1. PICK o \in Description, v \in Description : o = fds[t][old] /\ v = fds[t][new]
  BY Zenon, OpenDescription DEF EInv
<1>2. Good(k) /\ EndsOK(k.desc, k.pipe) /\ Frees(desc, k.desc, k.pipe)
  BY Zenon, <1>1, UnrefStepEnds
<1>3. r.pipe = k.pipe /\ SameEnds(k.desc, r.desc)
  BY Zenon, <1>1, <1>2, RefEnds
<1>4. EndsOK(r.desc, r.pipe)
  BY ZenonT(60), <1>2, <1>3, KeepEnds DEF SameFlags
<1>5. Frees(desc, r.desc, r.pipe)
  BY Zenon, <1>2, <1>3, SameEndOf DEF Frees
<1> QED
  BY Zenon, <1>4, <1>5 DEF EndsKept

LEMMA ForkEnds ==
  ASSUME EInv, NEW t \in Task, fork(t)
  PROVE  EndsKept
<1>1. /\ desc' = [d \in Description |-> [desc[d] EXCEPT !.ref_count = @ + Uses(t, d)]]
      /\ pipe' = pipe
  BY Zenon DEF fork
<1>2. DescsOK(desc)
  BY Zenon, GoodTables, TablesShape DEF Good, Tidy
<1>3. SameEnds(desc, desc')
  <2> SUFFICES ASSUME NEW d \in Description
               PROVE  desc'[d].end = desc[d].end /\ desc'[d].pipe = desc[d].pipe
    BY Zenon DEF SameEnds
  <2> QED
    BY <1>1, <1>2, SMTT(60) DEF DescsOK, DescOK
<1> QED
  BY Zenon, <1>1, <1>3, SteadyEnds DEF SameFlags

\* Termination that would close an end does not return.
LEMMA TerminateEnds ==
  ASSUME EInv, NEW u \in Task, scheduler_terminate_task(u)
  PROVE  EndsKept
<1> DEFINE last == {d \in Description : Uses(u, d) > 0 /\ desc[d].ref_count = Uses(u, d)}
<1>1. CASE \E d \in last : desc[d].end \in {"read", "write"}
  BY Zenon, <1>1, QuietEnds DEF scheduler_terminate_task
<1>2. CASE ~\E d \in last : desc[d].end \in {"read", "write"}
  <2>1. /\ desc' = [d \in Description |->
                      IF d \in last THEN FreeDescription
                      ELSE [desc[d] EXCEPT !.ref_count = @ - Uses(u, d)]]
        /\ pipe' = pipe
    BY Zenon, <1>2 DEF scheduler_terminate_task
  <2> HIDE DEF last
  <2>2. DescsOK(desc)
    BY Zenon, GoodTables, TablesShape DEF Good, Tidy
  <2>3. ASSUME NEW d \in Description
        PROVE  \/ desc'[d].end = desc[d].end /\ desc'[d].pipe = desc[d].pipe
               \/ desc'[d].end \notin {"read", "write"} /\ desc[d].end \notin {"read", "write"}
    <3>1. CASE d \in last
      BY Zenon, <1>2, <2>1, <3>1 DEF FreeDescription
    <3>2. CASE d \notin last
      BY <2>1, <2>2, <3>2, SMTT(60) DEF DescsOK, DescOK
    <3> QED
      BY Zenon, <3>1, <3>2
  <2> QED
    BY Zenon, <2>1, <2>3, SteadyEnds DEF SameFlags, SameEnds
<1> QED
  BY Zenon, <1>1, <1>2

\* Bytes that go in or out leave the ends alone.
LEMMA TransferEnds ==
  ASSUME EInv, NEW t \in Task, NEW p \in Pipe, NEW n, NEW s, NEW reason,
         \/ Become(Read(Tables, p, n)) \/ Become(Write(Tables, p, s))
         \/ Become(Sleep(Tables, t, reason, p)) \/ Become(Tables)
  PROVE  EndsKept
<1> DEFINE D == [i \in 0..(PIPE_BUFFER_SIZE - 1) |->
                   LET j == (i - Tables.pipe[p].write_pos) % PIPE_BUFFER_SIZE
                   IN IF j < Len(s) THEN s[j + 1] ELSE Tables.pipe[p].data[i]]
           a == [Tables EXCEPT !.pipe[p].read_pos = (@ + n) % PIPE_BUFFER_SIZE, !.pipe[p].count = @ - n]
           b == [Tables EXCEPT !.pipe[p].data = D,
                               !.pipe[p].write_pos = (@ + Len(s)) % PIPE_BUFFER_SIZE,
                               !.pipe[p].count = @ + Len(s)]
           c == Sleep(Tables, t, reason, p)
<1>1. PipesOK(pipe)
  BY Zenon, GoodTables, TablesShape DEF Good, Tidy
<1>2. Read(Tables, p, n) = Wake(a, "PIPE_WRITE", p) /\ Write(Tables, p, s) = Wake(b, "PIPE_READ", p)
  BY Zenon DEF Read, Write
<1> HIDE DEF D
<1>3. Shape(a) /\ a.desc = desc /\ \A q \in Pipe : SameFlags(pipe[q], a.pipe[q])
  BY <1>1, TablesShape, SMTT(60) DEF Shape, SameFlags, PipesOK, PipeOK
<1>4. Shape(b) /\ b.desc = desc /\ \A q \in Pipe : SameFlags(pipe[q], b.pipe[q])
  BY <1>1, TablesShape, SMTT(60) DEF Shape, SameFlags, PipesOK, PipeOK
<1>5. c.desc = desc /\ c.pipe = pipe
  BY Zenon, TablesShape DEF Shape, Sleep
<1> HIDE DEF a, b, c
<1>6. desc' = desc /\ \A q \in Pipe : SameFlags(pipe[q], pipe'[q])
  <2>1. CASE Become(Read(Tables, p, n))
    <3>1. Wake(a, "PIPE_WRITE", p).pipe = a.pipe /\ Wake(a, "PIPE_WRITE", p).desc = a.desc
      BY Zenon, <1>3, WakePipe, WakeNoDeath
    <3> QED
      BY Zenon, <1>2, <1>3, <2>1, <3>1 DEF Become
  <2>2. CASE Become(Write(Tables, p, s))
    <3>1. Wake(b, "PIPE_READ", p).pipe = b.pipe /\ Wake(b, "PIPE_READ", p).desc = b.desc
      BY Zenon, <1>4, WakePipe, WakeNoDeath
    <3> QED
      BY Zenon, <1>2, <1>4, <2>2, <3>1 DEF Become
  <2>3. CASE Become(Sleep(Tables, t, reason, p))
    BY Zenon, <1>5, <2>3 DEF Become, SameFlags, c
  <2>4. CASE Become(Tables)
    BY Zenon, <2>4, TablesShape DEF Become, SameFlags
  <2> QED
    BY Zenon, <2>1, <2>2, <2>3, <2>4
<1> QED
  BY Zenon, <1>6, SteadyEnds DEF SameEnds

\* Both ends are described, or none: what fails on the way leaves no end behind.
LEMMA PipeEnds ==
  ASSUME EInv, NEW t \in Task, sys_pipe(t)
  PROVE  EndsKept
<1>0. PICK p \in Pipe, r \in Description, w \in Description : \E n, b : Making(t, p, r, w, n, b)
  BY Zenon, PipeCases DEF EInv
<1>1. PICK n, b : Making(t, p, r, w, n, b)
  BY Zenon, <1>0
<1>2. EndsOK(desc, pipe) /\ ~HasEnd(desc, p)
  BY Zenon, <1>1 DEF EInv, EndsOK, Joint, Making
<1>3. /\ Good(n) /\ n.desc = desc
      /\ n.pipe[p].readers = 1 /\ n.pipe[p].writers = 1 /\ n.pipe[p].live
      /\ \A q \in Pipe \ {p} : n.pipe[q] = pipe[q]
  BY <1>1, PipeCreated DEF EInv, Making
<1>4. /\ Good(b) /\ b.pipe = n.pipe
      /\ b.desc[r] = NewEnd("read", p)
      /\ b.desc[w] = NewEnd("write", p)
      /\ \A e \in Description \ {r, w} : b.desc[e] = desc[e]
  <2>1. w # r /\ b = Described(Described(n, r, "read", p), w, "write", p)
    BY Zenon, <1>1 DEF Making
  <2> QED
    BY SMTT(60), <1>3, <2>1, BothDescribed
<1>5. EndsOK(b.desc, b.pipe) /\ Frees(desc, b.desc, b.pipe)
  <2>1. b.desc[w].end = "write" /\ b.desc[w].pipe = p /\ b.desc[r].end = "read" /\ b.desc[r].pipe = p
    BY <1>4 DEF NewEnd
  <2> QED
    BY <1>1, <1>2, <1>3, <1>4, <2>1, NewEnds DEF Making
<1>6. CASE Become(b)
  BY Zenon, <1>5, <1>6 DEF Become, EndsKept
<1>7. CASE Become(file_description_unref(file_description_unref(b, w), r))
  <2>1. PICK x, y : x = file_description_unref(b, w) /\ y = file_description_unref(x, r) /\ Become(y)
    BY Zenon, <1>7
  <2>2. Good(x) /\ EndsOK(x.desc, x.pipe) /\ Released(b.desc, x.desc, w)
    BY Zenon, <1>4, <1>5, <2>1, UnrefGood, UnrefEnds, UnrefEffect
  <2>3. EndsOK(y.desc, y.pipe) /\ Released(x.desc, y.desc, r)
    BY Zenon, <2>1, <2>2, UnrefEnds, UnrefEffect
  <2>4. y.desc[w] = FreeDescription /\ y.desc[r] = FreeDescription
    BY SMTT(60), <1>1, <1>4, <2>2, <2>3, LessNew DEF Released, Making
  <2>5. \A e \in Description \ {r, w} : y.desc[e] = desc[e]
    BY Zenon, <1>4, <2>2, <2>3 DEF Released
  <2>6. SameEnds(desc, y.desc)
    BY <1>1, <2>4, <2>5 DEF SameEnds, FreeDescription, Making
  <2>7. Frees(desc, y.desc, y.pipe)
    BY Zenon, <2>6, SameEndOf DEF Frees
  <2> QED
    BY Zenon, <2>1, <2>3, <2>7 DEF Become, EndsKept
<1>8. CASE Become(n)
  <2>1. SameEnds(desc, n.desc)
    BY Zenon, <1>3 DEF SameEnds
  <2>2. EndsOK(n.desc, n.pipe) /\ Frees(desc, n.desc, n.pipe)
    BY <1>2, <1>3, <2>1, OrphanEnds
  <2> QED
    BY Zenon, <1>8, <2>2 DEF Become, EndsKept
<1>9. ASSUME NEW end \in {"read", "write"},
             Become(file_description_unref(Described(n, r, end, p), r))
      PROVE  EndsKept
  <2>1. PICK o, y : o = Described(n, r, end, p) /\ y = file_description_unref(o, r) /\ Become(y)
    BY Zenon, <1>9
  <2>2. Good(o) /\ Adds(n, o, r, NewEnd(end, p))
    BY Zenon, <1>3, <2>1, DescribedEffect
  <2>3. Released(o.desc, y.desc, r)
    BY Zenon, <2>1, <2>2, UnrefEffect
  <2>4. y.desc[r] = FreeDescription /\ \A e \in Description \ {r} : y.desc[e] = desc[e]
    BY <1>3, <2>2, <2>3, LessNew DEF Released, Adds
  <2>5. SameEnds(desc, y.desc)
    BY <1>1, <2>4 DEF SameEnds, FreeDescription, Making
  <2>6. o.desc[r].end = end /\ o.desc[r].pipe = p /\ ~(o.desc[r].ref_count > 1)
    BY <2>2, SMTT(60) DEF NewEnd, Adds
  <2>7. y.pipe[p] = Closed(n.pipe[p], end) /\ \A q \in Pipe \ {p} : y.pipe[q] = n.pipe[q]
    BY SMTT(60), <2>1, <2>2, <2>6, UnrefPipe DEF Adds
  <2>8. PipeOK(n.pipe[p])
    BY Zenon, <1>3 DEF Good, Tidy, PipesOK
  <2>9. y.pipe[p].readers \in {0, 1} /\ y.pipe[p].writers \in {0, 1}
    BY SMTT(60), <1>3, <2>7, <2>8, ClosedRead, ClosedWrite
  <2>10. EndsOK(y.desc, y.pipe) /\ Frees(desc, y.desc, y.pipe)
    BY <1>2, <1>3, <2>5, <2>7, <2>9, OrphanEnds
  <2> QED
    BY Zenon, <2>1, <2>10 DEF Become, EndsKept
<1> QED
  BY Zenon, <1>1, <1>6, <1>7, <1>8, <1>9 DEF Making

LEMMA NextEnds == EInv /\ [Next]_vars => EndsKept
<1> SUFFICES ASSUME EInv, [Next]_vars PROVE EndsKept
  BY Zenon
<1>1. CASE UNCHANGED vars
  BY Zenon, <1>1, QuietEnds DEF vars
<1>2. CASE scheduler_tick
  BY Zenon, <1>2, QuietEnds DEF scheduler_tick
<1>3. ASSUME NEW t \in Task, Syscall(t) PROVE EndsKept
  <2>1. CASE sys_pipe(t)
    BY Zenon, <2>1, PipeEnds
  <2>2. CASE fork(t)
    BY Zenon, <2>2, ForkEnds
  <2>3. ASSUME NEW u \in Task, terminate(t, u) PROVE EndsKept
    BY Zenon, <2>3, TerminateEnds DEF terminate
  <2>4. ASSUME NEW u \in Task, scheduler_send_signal(t, u) PROVE EndsKept
    BY Zenon, <2>4, QuietEnds DEF scheduler_send_signal
  <2>5. ASSUME NEW f \in Fd, sys_close(t, f) PROVE EndsKept
    BY Zenon, <2>5, CloseStepEnds
  <2>6. ASSUME NEW f \in Fd, pipe_write_broken(t, f) PROVE EndsKept
    BY Zenon, <2>6, TerminateEnds, QuietEnds DEF pipe_write_broken
  <2>7. ASSUME NEW f \in Fd, NEW size, pipe_read(t, f, size) PROVE EndsKept
    <3>1. PICK p, n : /\ p = desc[fds[t][f]].pipe
                      /\ Become(IF n > 0 THEN Read(Tables, p, n)
                                ELSE IF pipe[p].writers = 0 THEN Tables
                                ELSE Sleep(Tables, t, "PIPE_READ", p))
      BY ZenonT(60), <2>7 DEF pipe_read
    <3>2. p \in Pipe
      BY ZenonT(60), <2>7, <3>1, OpenDescription DEF pipe_read, EInv, DescOK
    <3> QED
      BY Zenon, <3>1, <3>2, TransferEnds
  <2>8. ASSUME NEW f \in Fd, NEW s, pipe_write(t, f, s) PROVE EndsKept
    <3>1. PICK p, n : /\ p = desc[fds[t][f]].pipe
                      /\ Become(IF n > 0 THEN Write(Tables, p, SubSeq(s, 1, n))
                                ELSE Sleep(Tables, t, "PIPE_WRITE", p))
      BY ZenonT(60), <2>8 DEF pipe_write
    <3>2. p \in Pipe
      BY Zenon, <2>8, <3>1, OpenDescription DEF pipe_write, EInv, DescOK
    <3> QED
      BY Zenon, <3>1, <3>2, TransferEnds
  <2>9. ASSUME NEW f \in Fd, NEW g \in Fd, sys_dup(t, f, g) PROVE EndsKept
    <3>1. PICK new \in Least(FreeFds(t, g)) : Duplicate(t, f, new) /\ Open(t, f)
      BY Zenon, <2>9 DEF sys_dup
    <3>2. new \in Fd
      BY Zenon, <3>1 DEF Least, FreeFds
    <3> QED
      BY Zenon, <3>1, <3>2, DuplicateEnds
  <2>10. ASSUME NEW f \in Fd, NEW g \in Fd, sys_dup2(t, f, g) PROVE EndsKept
    <3>1. Open(t, f)
      BY Zenon, <2>10 DEF sys_dup2
    <3>2. CASE Duplicate(t, f, g)
      BY Zenon, <3>1, <3>2, DuplicateEnds
    <3>3. CASE /\ Open(t, g)
               /\ LET k == file_description_unref(Tables, fds[t][g])
                  IN Become([k EXCEPT !.desc[fds[t][f]].ref_count = @ + 1])
      <4> DEFINE k == file_description_unref(Tables, fds[t][g])
                 r == [k EXCEPT !.desc[fds[t][f]].ref_count = @ + 1]
      <4>1. desc' = r.desc /\ pipe' = r.pipe
        BY Zenon, <3>3 DEF Become
      <4> QED
        BY Zenon, <3>1, <3>3, <4>1, ReplaceEnds
    <3> QED
      BY Zenon, <2>10, <3>2, <3>3 DEF sys_dup2
  <2> QED
    BY <1>3, <2>1, <2>2, <2>3, <2>4, <2>5, <2>6, <2>7, <2>8, <2>9, <2>10 DEF Syscall
<1> QED
  BY Zenon, <1>1, <1>2, <1>3 DEF Next

LEMMA NextCurrent ==
  ASSUME current \in Task \cup {Null}, [Next]_vars
  PROVE  current' \in Task \cup {Null}
<1>1. CASE scheduler_tick
  BY Zenon, <1>1 DEF scheduler_tick
<1>2. ASSUME NEW t \in Task, Syscall(t) PROVE current' = current
  BY <1>2, ZenonT(60) DEF Syscall, sys_pipe, fork, terminate, scheduler_send_signal, sys_close,
     pipe_write_broken, pipe_read, pipe_write, sys_dup, sys_dup2
<1> QED
  BY Zenon, <1>1, <1>2 DEF Next, vars

LEMMA NextEInv == EInv /\ [Next]_vars => EInv'
<1> SUFFICES ASSUME EInv, [Next]_vars PROVE EInv'
  BY Zenon
<1>1. IInv'
  BY Zenon, NextIInv DEF EInv
<1>2. EndsOK(desc', pipe')
  BY Zenon, NextEnds DEF EndsKept
<1>3. current' \in Task \cup {Null}
  BY Zenon, NextCurrent DEF EInv
<1>4. EndsOK(desc, pipe)'
  BY Zenon, <1>2 DEF EndsOK, Sole, Joint, HasEnd, EndOf
<1> QED
  BY Zenon, <1>1, <1>3, <1>4 DEF EInv

LEMMA InitEInv == Init => EInv
<1>1. Init => current \in Task \cup {Null}
  BY PipesAssumption, SMTT(60) DEF Init, Task
<1> QED
  BY Zenon, <1>1, InitIInv, InitEnds DEF EInv

LEMMA HasEndsEnd == ASSUME NEW p PROVE HasEnds(p) <=> HasEnd(desc, p)
BY Zenon DEF HasEnds, Ends, HasEnd, EndOf

\* The close or dup2 that takes the last open end of a pipe away frees the buffer
\* (pipe_node_close), and no other step frees the buffer of a pipe with an open end.
\* An exit or kill that would take an end's last descriptor hangs instead.
THEOREM LastCloseFrees == Spec => LastCloseFreesPipe
<1> DEFINE A == \A p \in Pipe : HasEnds(p) => (~HasEnds(p)' <=> ~pipe'[p].live)
<1>1. EInv /\ [Next]_vars => [A]_vars
  <2> SUFFICES ASSUME EInv, [Next]_vars, NEW p \in Pipe, HasEnds(p)
               PROVE  ~HasEnds(p)' <=> ~pipe'[p].live
    BY Zenon
  <2>1. Frees(desc, desc', pipe') /\ Joint(desc', pipe'[p], p)
    BY Zenon, NextEnds DEF EndsKept, EndsOK
  <2>2. HasEnd(desc, p) /\ (HasEnds(p)' <=> HasEnd(desc', p))
    BY Zenon, HasEndsEnd DEF HasEnds, Ends, HasEnd, EndOf
  <2> QED
    BY Zenon, <2>1, <2>2 DEF Frees, Joint
<1>2. Spec => []EInv
  BY InitEInv, NextEInv, PTL DEF Spec
<1> QED
  BY <1>1, <1>2, PTL DEF Spec, LastCloseFreesPipe

=============================================================================
