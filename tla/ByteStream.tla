------------------------------ MODULE ByteStream ------------------------------
(* What a pipe promises: a bounded first-in first-out stream of bytes with   *)
(* two ends. Bytes come out once each, in the order they went in; nothing is *)
(* lost while an end is open; nothing goes in once the write end is closed.  *)
EXTENDS Naturals, Sequences

CONSTANTS Streams, Bytes, Capacity

VARIABLES q,      \* the bytes in each stream
          open,   \* its open ends
          last    \* the bytes delivered by the last step

vars == <<q, open, last>>

Ends == {"r", "w"}

Init == q = [s \in Streams |-> <<>>] /\ open = [s \in Streams |-> {}] /\ last = <<>>

Create(s) == open[s] = {} /\ open' = [open EXCEPT ![s] = Ends] /\ last' = <<>> /\ UNCHANGED q

Put(s, b) ==
  /\ open[s] = Ends /\ Len(q[s]) < Capacity
  /\ q' = [q EXCEPT ![s] = Append(@, b)] /\ last' = <<>> /\ UNCHANGED open

Get(s, k) ==
  /\ "r" \in open[s] /\ k <= Len(q[s])
  /\ last' = SubSeq(q[s], 1, k) /\ q' = [q EXCEPT ![s] = SubSeq(@, k + 1, Len(@))] /\ UNCHANGED open

\* Once both ends are closed the bytes are gone.
Close(s, e) ==
  /\ e \in open[s]
  /\ open' = [open EXCEPT ![s] = @ \ {e}]
  /\ q' = [q EXCEPT ![s] = IF open[s] = {e} THEN <<>> ELSE @]
  /\ last' = <<>>

Idle == last' = <<>> /\ UNCHANGED <<q, open>>

Next ==
  \/ Idle
  \/ \E s \in Streams :
       Create(s) \/ (\E k \in 0..Capacity : Get(s, k)) \/ (\E b \in Bytes : Put(s, b)) \/ (\E e \in Ends : Close(s, e))

Spec == Init /\ [][Next]_vars
===============================================================================
