------------------------------ MODULE MemHeap ------------------------------
(***************************************************************************)
(* The priority queue of the in-memory store: memstore's queueHeap under   *)
(* the algorithms of Go's container/heap.                                  *)
(*                                                                         *)
(* A heap is a record [items, index]: items is the slice (positions from   *)
(* 1), index the back-pointer kept in every entry (0 for "not in the       *)
(* heap").  k gives the priority and the run time of every entry.          *)
(***************************************************************************)
EXTENDS Integers, Sequences

Less(k, a, b) ==
    IF k[a].priority # k[b].priority
      THEN k[a].priority > k[b].priority
      ELSE k[a].runAt < k[b].runAt

\* The two assignments to index are made in this order, also when i = j.
Swap(h, i, j) ==
    LET a == h.items[i]  b == h.items[j] IN
    [items |-> [h.items EXCEPT ![i] = b, ![j] = a],
     index |-> [[h.index EXCEPT ![b] = i] EXCEPT ![a] = j]]

\* queueHeap.Push and Pop: at the end of the slice.
PushLast(h, e) ==
    [items |-> Append(h.items, e), index |-> [h.index EXCEPT ![e] = Len(h.items) + 1]]

PopLast(h) ==
    LET n == Len(h.items) IN
    [items |-> SubSeq(h.items, 1, n - 1), index |-> [h.index EXCEPT ![h.items[n]] = 0]]
-----------------------------------------------------------------------------
(* container/heap, from how memstore uses it. *)

RECURSIVE Up(_, _, _)
Up(k, h, j) ==
    LET i == j \div 2 IN
    IF j = 1 \/ ~Less(k, h.items[j], h.items[i])
      THEN h
      ELSE Up(k, Swap(h, i, j), i)

\* The child of i to compare with, among the first n entries.
SmallerChild(k, h, i, n) ==
    IF 2 * i + 1 <= n /\ Less(k, h.items[2 * i + 1], h.items[2 * i]) THEN 2 * i + 1 ELSE 2 * i

RECURSIVE Down(_, _, _, _)
Down(k, h, i, n) ==
    LET j == SmallerChild(k, h, i, n) IN
    IF 2 * i > n \/ ~Less(k, h.items[j], h.items[i])
      THEN h
      ELSE Down(k, Swap(h, i, j), j, n)

\* down, and up if that did not move the entry at i.
Sift(k, h, i, n) ==
    LET d == Down(k, h, i, n) IN
    IF d # h THEN d ELSE Up(k, h, i)

HeapPush(k, h, e) == Up(k, PushLast(h, e), Len(h.items) + 1)

HeapPop(k, h) ==
    LET n == Len(h.items) IN
    PopLast(Down(k, Swap(h, 1, n), 1, n - 1))

HeapRemove(k, h, i) ==
    LET n == Len(h.items) IN
    PopLast(IF i = n THEN h ELSE Sift(k, Swap(h, i, n), i, n - 1))

HeapFix(k, h, i) == Sift(k, h, i, Len(h.items))
-----------------------------------------------------------------------------
(* What a heap is supposed to be. *)

\* No entry sorts before its parent.
Ordered(k, h) ==
    \A i \in 2..Len(h.items) : ~Less(k, h.items[i], h.items[i \div 2])

Members(h) == {h.items[i] : i \in DOMAIN h.items}
=============================================================================
