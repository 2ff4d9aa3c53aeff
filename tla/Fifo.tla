-------------------------------- MODULE Fifo --------------------------------
(***************************************************************************)
(* What pipes promise: each is a bounded first-in first-out channel.  A    *)
(* write puts some first bytes of its buffer at the end of one channel, a  *)
(* read takes bytes from its front and returns exactly those, and a        *)
(* channel is emptied only when it is created anew.                        *)
(***************************************************************************)
EXTENDS Naturals, Sequences

CONSTANTS Channels, Byte, Capacity

VARIABLES
  queue,     \* what each channel holds
  received   \* what the last operation returned

Write(c) ==
  \E n \in 1..(Capacity - Len(queue[c])) : \E s \in [1..n -> Byte] :
    /\ queue' = [queue EXCEPT ![c] = @ \o s]
    /\ received' = << >>

Read(c) ==
  \E n \in 1..Len(queue[c]) :
    /\ received' = SubSeq(queue[c], 1, n)
    /\ queue' = [queue EXCEPT ![c] = SubSeq(@, n + 1, Len(@))]

\* A read that finds nothing, at the end of the file or not, and all else.
Nothing == received' = << >> /\ UNCHANGED queue

Create(c) == queue' = [queue EXCEPT ![c] = << >>] /\ received' = << >>

Init == queue = [c \in Channels |-> << >>] /\ received = << >>

Next == Nothing \/ \E c \in Channels : Write(c) \/ Read(c) \/ Create(c)

Spec == Init /\ [][Next]_<<queue, received>>

=============================================================================
