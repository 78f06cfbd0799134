----------------------------- MODULE LinkedList -----------------------------
(***************************************************************************)
(* The singly linked lists of src/list.cc, as operators over a list value: *)
(* the head pointer and the Next field of every node, with 0 for NULL.     *)
(* Nodes are numbered 1..; a node fresh from malloc+memset has Next NULL.  *)
(***************************************************************************)

\* A list variable initialised to NULL over the nodes that may join it.
EmptyList(nodes) == [head |-> 0, next |-> [x \in nodes |-> 0]]

\* An add that forgets to make the first node the head.
LlAddObjectToHeadNoInit(l, x) ==
  IF l.head # 0 THEN [l EXCEPT !.next[x] = l.head, !.next[l.head] = x] ELSE l

\* _LlAddObjectToHead(&head, x): with a non-empty list it sets x->Next to
\* the head and then the head's Next to x, and leaves the head alone.
LlAddObjectToHead(l, x) ==
  IF l.head # 0 THEN [l EXCEPT !.next[x] = l.head, !.next[l.head] = x]
  ELSE [l EXCEPT !.head = x]

=============================================================================
