---------------------------- MODULE LinkedQueue ----------------------------
(***************************************************************************)
(* The kernel's intrusive singly linked FIFO: a head and a tail pointer in *)
(* the queue, a next pointer in every element.  The run queues use         *)
(* ready_next, the wait queues wait_next (kernel/process/process.c).       *)
(*                                                                         *)
(* A list is a record [head, tail, next]; `next' is the pointer field of   *)
(* every element, shared by all queues that use the same field, so an      *)
(* element that is linked twice damages both queues here as it does in C.  *)
(***************************************************************************)
EXTENDS Integers, FiniteSets, Sequences

CONSTANTS Element, NULL     \* NULL is no Element

\* The element reached after n next pointers from the head, NULL past the end.
Following(l, x) == IF x = NULL THEN NULL ELSE l.next[x]

At(l) ==
    LET at[n \in Nat] == IF n = 0 THEN l.head ELSE Following(l, at[n - 1])
    IN  at

\* The numbers of steps in which a list of Elements can be walked to its end.
Steps == 0 .. Cardinality(Element)

Members(l) == {At(l)[n] : n \in Steps} \ {NULL}

\* The walk from the head ends: the chain is not a cycle.
Terminates(l) == At(l)[Cardinality(Element)] = NULL

\* The number of elements a walk visits (one more than there are elements when
\* the chain is a cycle, on which the code's loops do not end).
Length(l) == Cardinality({n \in Steps : At(l)[n] # NULL})

\* x->next = NULL; tail ? tail->next = x : head = x; tail = x.
Append1(l, x) ==
    LET cleared == [l.next EXCEPT ![x] = NULL] IN
    [head |-> IF l.tail = NULL THEN x ELSE l.head,
     tail |-> x,
     next |-> IF l.tail = NULL THEN cleared ELSE [cleared EXCEPT ![l.tail] = x]]

\* The walk of an unlink: the first position of x, and the element before it.
Position(l, x) == CHOOSE n \in Steps :
                     At(l)[n] = x /\ \A m \in 0 .. n - 1 : At(l)[m] # x

\* Take x out of the chain and leave its own next pointer NULL; nothing but
\* that pointer changes when x is not in the chain.
Unlink(l, x) ==
    IF x \notin Members(l) THEN [l EXCEPT !.next[x] = NULL]
    ELSE LET n    == Position(l, x)
             prev == IF n = 0 THEN NULL ELSE At(l)[n - 1]
             skip == IF prev = NULL THEN l.next ELSE [l.next EXCEPT ![prev] = l.next[x]]
         IN  [head |-> IF prev = NULL THEN l.next[x] ELSE l.head,
              tail |-> IF l.tail = x THEN prev ELSE l.tail,
              next |-> [skip EXCEPT ![x] = NULL]]

\* head = head->next; if (!head) tail = NULL; the removed element's next = NULL.
RemoveHead(l) ==
    LET second == l.next[l.head] IN
    [head |-> second,
     tail |-> IF second = NULL THEN NULL ELSE l.tail,
     next |-> [l.next EXCEPT ![l.head] = NULL]]

\* Head, tail and chain describe the same finite list.
WellFormed(l) ==
    /\ Terminates(l)
    /\ l.tail = IF l.head = NULL THEN NULL ELSE At(l)[Length(l) - 1]
=============================================================================
