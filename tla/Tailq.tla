-------------------------------- MODULE Tailq --------------------------------
(***************************************************************************)
(* The tail queue of include/queue.h at the level of its pointers.         *)
(*                                                                         *)
(* A queue is a record                                                     *)
(*    first  tqh_first, the first element or NULL                          *)
(*    last   tqh_last, the ADDRESS of the last next pointer                *)
(*    next   tqe_next of every element                                     *)
(*    prev   tqe_prev of every element, the ADDRESS of the next pointer    *)
(*           that points to it                                             *)
(*    ok     FALSE once a store went through a NULL pointer                *)
(*                                                                         *)
(* The address of the field tqh_first is written HEAD, the address of the  *)
(* field tqe_next of the element e is written e.                           *)
(***************************************************************************)
EXTENDS Integers

NULL == -1
HEAD == -2

\* *(loc) = x, the only indirect store of the macros.
Store(q, loc, x) ==
    IF loc = NULL THEN [q EXCEPT !.ok = FALSE]
    ELSE IF loc = HEAD THEN [q EXCEPT !.first = x]
    ELSE [q EXCEPT !.next[loc] = x]

\* The links live in zeroed memory, TAILQ_INIT only sets the head.
TAILQ_INIT(Elem) ==
    [first |-> NULL, last |-> HEAD, ok |-> TRUE,
     next |-> [e \in Elem |-> NULL], prev |-> [e \in Elem |-> NULL]]

TAILQ_INSERT_HEAD(q, elm) ==
    LET linked == IF q.first # NULL
                  THEN [q EXCEPT !.next[elm] = q.first, !.prev[q.first] = elm]
                  ELSE [q EXCEPT !.next[elm] = NULL, !.last = elm]
    IN  [linked EXCEPT !.first = elm, !.prev[elm] = HEAD]

\* Mutant: the wrong end.
TAILQ_INSERT_TAIL_front(q, elm) == TAILQ_INSERT_HEAD(q, elm)

TAILQ_INSERT_TAIL(q, elm) ==
    LET linked == [q EXCEPT !.next[elm] = NULL, !.prev[elm] = q.last]
    IN  [Store(linked, q.last, elm) EXCEPT !.last = elm]

\* Mutants: the successor keeps its tqe_prev; the element stays where it is.
TAILQ_REMOVE_half(q, elm) == Store(q, q.prev[elm], q.next[elm])
TAILQ_REMOVE_nothing(q, elm) == q

TAILQ_REMOVE(q, elm) ==
    LET unlinked == IF q.next[elm] # NULL
                    THEN [q EXCEPT !.prev[q.next[elm]] = q.prev[elm]]
                    ELSE [q EXCEPT !.last = q.prev[elm]]
    IN  Store(unlinked, unlinked.prev[elm], unlinked.next[elm])

\* TAILQ_FOREACH: the element met after n steps from the first, NULL when the
\* traversal has ended before.
TAILQ_NTH(q, N) ==
    LET nth[n \in 0..N] == IF n = 0 THEN q.first
                           ELSE IF nth[n - 1] = NULL THEN NULL
                           ELSE q.next[nth[n - 1]]
    IN  nth

\* The elements such a traversal meets, in order, cut off after N steps.
TAILQ_SEQ(q, N) ==
    LET nth == TAILQ_NTH(q, N)
        len == CHOOSE n \in 0..N : \/ nth[n] = NULL /\ \A m \in 0..(n - 1) : nth[m] # NULL
                                   \/ n = N /\ \A m \in 0..N : nth[m] # NULL
    IN  [i \in 1..len |-> nth[i - 1]]

-------------------------------------------------------------------------------
\* The values a queue over the elements Elem can have.
Tailqs(Elem) ==
    [first : Elem \cup {NULL}, last : Elem \cup {HEAD, NULL}, ok : BOOLEAN,
     next : [Elem -> Elem \cup {NULL}], prev : [Elem -> Elem \cup {HEAD, NULL}]]

\* q links the elements of S and no other, said pointer by pointer with no
\* traversal: next and prev are inverse to each other, each end is the one the
\* head knows, and no link leaves S.
Linked(q, S) ==
    /\ q.first = NULL <=> q.last = HEAD
    /\ q.first # NULL => q.first \in S /\ q.prev[q.first] = HEAD
    /\ q.last # HEAD => q.last \in S /\ q.next[q.last] = NULL
    /\ \A e \in S :
          /\ IF q.next[e] = NULL THEN q.last = e
             ELSE q.next[e] \in S /\ q.prev[q.next[e]] = e
          /\ IF q.prev[e] = HEAD THEN q.first = e
             ELSE q.prev[e] \in S /\ q.next[q.prev[e]] = e
==============================================================================
