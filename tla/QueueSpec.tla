------------------------------ MODULE QueueSpec ------------------------------
(***************************************************************************)
(* What the queues of the kernel promise their callers, threads and          *)
(* interrupt handlers alike: each queue is a bounded sequence, an item is    *)
(* added at its end in one step, and in one step the first item is handed to *)
(* exactly one receiver.                                                     *)
(***************************************************************************)
EXTENDS Naturals, Sequences

CONSTANTS
    Handle,     \* the queues
    Length,     \* the length of each
    Item,       \* what can be sent
    Receiver    \* threads, and the interrupt handlers as one

VARIABLES
    contents,   \* the items in each queue
    received    \* the item each receiver got last, and from which queue

Put(h, x) ==
    /\ Len(contents[h]) < Length[h]
    /\ contents' = [contents EXCEPT ![h] = Append(@, x)]

Take(h, r) ==
    /\ contents[h] # << >>
    /\ received' = [received EXCEPT ![r] = <<h, Head(contents[h])>>]
    /\ contents' = [contents EXCEPT ![h] = Tail(@)]

QueueInit ==
    /\ contents \in [Handle -> UNION {[1 .. n -> Item] : n \in 0 .. 1}]
    /\ received = [r \in Receiver |-> << >>]

\* Every step changes a queue.  A send to a member of a set also puts the member's
\* handle into the set.
QueueNext ==
    /\ contents' # contents
    /\ \/ \E h \in Handle, x \in Item : Put(h, x) /\ UNCHANGED received
       \/ \E h, s \in Handle, x \in Item :
             /\ h # s /\ Len(contents[h]) < Length[h] /\ Len(contents[s]) < Length[s]
             /\ contents' = [contents EXCEPT ![h] = Append(@, x), ![s] = Append(@, h)]
             /\ UNCHANGED received
       \/ \E h \in Handle, r \in Receiver : Take(h, r)

QSpec == QueueInit /\ [][QueueNext]_<<contents, received>>
=============================================================================
