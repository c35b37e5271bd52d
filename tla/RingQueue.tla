----------------------------- MODULE RingQueue -----------------------------
(***************************************************************************)
(* The three request queues of the packet-processor firmware (dma_queue,   *)
(* launch_queue and dec_queue of packet_processor.c).  Each is an array of *)
(* DISPATCH_WINDOW_SIZE entries with a read and a write index that only    *)
(* ever grow; an index is turned into an array position by masking it with *)
(* DISPATCH_WINDOW_SIZE-1.  Nothing in the code checks for a full queue: a *)
(* push onto a full queue overwrites the oldest entry, and so does Push.   *)
(*                                                                         *)
(* The 64-bit indices are unbounded naturals here: the window size is a    *)
(* power of two, so masking commutes with their wrap-around at 2^64.       *)
(***************************************************************************)
EXTENDS Integers

CONSTANT W      \* DISPATCH_WINDOW_SIZE: slots of the window, entries per queue

ASSUME WindowAssumption == W \in Nat \ {0}

Slots == 0 .. W - 1

EmptyRing(e) == [entry |-> [i \in Slots |-> e], read |-> 0, write |-> 0]

Rings(E) == [entry : [Slots -> E], read : Nat, write : Nat]

Pending(q) == q.read .. q.write - 1

IsEmpty(q) == q.read = q.write

At(q, i) == q.entry[i % W]

\* MUTANT of Front: the newest entry is taken
Newest(q) == At(q, q.write - 1)

Front(q) == At(q, q.read)

Push(q, e) == [entry |-> [q.entry EXCEPT ![q.write % W] = e],
               read  |-> q.read,
               write |-> q.write + 1]

\* MUTANT of Pop: the read index is not incremented
PopStuck(q) == q

Pop(q) == [q EXCEPT !.read = @ + 1]

Queued(q) == {At(q, i).packet_id : i \in Pending(q)}

\* no packet is queued twice; in particular no entry was overwritten, as two
\* positions W apart are the same entry
Distinct(q) ==
  \A i, j \in Pending(q) : At(q, i).packet_id = At(q, j).packet_id => i = j
=============================================================================
