--------------------------- MODULE EnvSchedProofs ---------------------------
(***************************************************************************)
(* For any number of environments, ASIDs and boot processes, callers that  *)
(* keep to CarefulStart and CarefulDestroy never damage env_sched_list and *)
(* the kernel panics only when no process is left to run.                  *)
(***************************************************************************)
EXTENDS EnvSched, SequenceTheorems, FiniteSetTheorems, WellFoundedInduction,
        NaturalsInduction, TLAPS

-------------------------------------------------------------------------------
\* The list macros of include/queue.h, for every set of elements.

\* The links of S close no cycle: some numbering of the elements grows along
\* them.
Acyclic(q, S, N) ==
    \E rank \in [0..N -> Nat] :
        \A x \in S : q.next[x] # NULL => rank[x] < rank[q.next[x]]

\* TAILQ_INSERT_TAIL of an element that is not on the queue adds it, and the
\* head changes only if the queue was empty.
LEMMA InsertTailLinks ==
    ASSUME NEW N \in Nat, NEW q \in Tailqs(0..N), NEW S \in SUBSET (0..N), Linked(q, S),
           NEW e \in (0..N) \ S, NEW r, r = TAILQ_INSERT_TAIL(q, e)
    PROVE  /\ r \in Tailqs(0..N)
           /\ r.ok = q.ok
           /\ q.first # NULL => r.first = q.first
           /\ Linked(r, S \cup {e})
<1>1. CASE q.last = HEAD
  <2>1. /\ r.first = e
        /\ r.last = e
        /\ r.ok = q.ok
        /\ r.next = [q.next EXCEPT ![e] = NULL]
        /\ r.prev = [q.prev EXCEPT ![e] = HEAD]
        /\ r \in Tailqs(0..N)
    <3>1. r = [q EXCEPT !.next[e] = NULL, !.prev[e] = HEAD, !.first = e, !.last = e]
      BY <1>1 DEF TAILQ_INSERT_TAIL, Store, HEAD, NULL, Tailqs
    <3>2. r = [first |-> e, last |-> e, ok |-> q.ok,
               next |-> [q.next EXCEPT ![e] = NULL], prev |-> [q.prev EXCEPT ![e] = HEAD]]
      BY <3>1 DEF Tailqs
    <3> QED BY <3>2 DEF Tailqs
  <2>2. Linked(r, S \cup {e})
    BY <1>1, <2>1 DEF Linked, Tailqs, HEAD, NULL
  <2> QED BY <1>1, <2>1, <2>2 DEF Linked
<1>2. CASE q.last # HEAD
  <2>1. q.last \in S /\ q.last # NULL /\ q.last # e
    BY <1>2 DEF Linked, NULL
  <2>2. /\ r.first = q.first
        /\ r.last = e
        /\ r.ok = q.ok
        /\ r.next = [q.next EXCEPT ![e] = NULL, ![q.last] = e]
        /\ r.prev = [q.prev EXCEPT ![e] = q.last]
        /\ r \in Tailqs(0..N)
    BY <1>2, <2>1 DEF TAILQ_INSERT_TAIL, Store, HEAD, NULL, Tailqs
  <2>3. Linked(r, S \cup {e})
    BY <1>2, <2>1, <2>2 DEF Linked, Tailqs, HEAD, NULL
  <2> QED BY <2>2, <2>3
<1> QED BY <1>1, <1>2

\* TAILQ_INSERT_HEAD of an element that is not on the queue adds it.
LEMMA InsertHeadLinks ==
    ASSUME NEW N \in Nat, NEW q \in Tailqs(0..N), NEW S \in SUBSET (0..N), Linked(q, S),
           NEW e \in (0..N) \ S, NEW r, r = TAILQ_INSERT_HEAD(q, e)
    PROVE  /\ r \in Tailqs(0..N)
           /\ r.ok = q.ok
           /\ Linked(r, S \cup {e})
<1>1. CASE q.first = NULL
  <2>1. r = [first |-> e, last |-> e, ok |-> q.ok,
             next |-> [q.next EXCEPT ![e] = NULL], prev |-> [q.prev EXCEPT ![e] = HEAD]]
    BY <1>1 DEF TAILQ_INSERT_HEAD, Tailqs
  <2>2. r \in Tailqs(0..N) /\ r.ok = q.ok
    BY <2>1 DEF Tailqs
  <2>3. Linked(r, S \cup {e})
    BY <1>1, <2>1 DEF Linked, Tailqs, HEAD, NULL
  <2> QED BY <2>2, <2>3
<1>2. CASE q.first # NULL
  <2>1. q.first \in S /\ q.first # e /\ q.last # HEAD
    BY <1>2 DEF Linked
  <2>2. r = [first |-> e, last |-> q.last, ok |-> q.ok,
             next |-> [q.next EXCEPT ![e] = q.first],
             prev |-> [q.prev EXCEPT ![q.first] = e, ![e] = HEAD]]
    BY <1>2, <2>1 DEF TAILQ_INSERT_HEAD, Tailqs
  <2>3. r \in Tailqs(0..N) /\ r.ok = q.ok
    BY <2>1, <2>2 DEF Tailqs
  <2>4. /\ r.first = e /\ r.last = q.last
        /\ r.next[e] = q.first /\ r.prev[e] = HEAD /\ r.prev[q.first] = e
        /\ \A x \in S : r.next[x] = q.next[x]
        /\ \A x \in S : x # q.first => r.prev[x] = q.prev[x]
    <3>1. r.next = [q.next EXCEPT ![e] = q.first]
      BY <2>2
    <3>2. r.prev = [q.prev EXCEPT ![q.first] = e, ![e] = HEAD]
      BY <2>2
    <3>3. q.next \in [0..N -> (0..N) \cup {NULL}] /\ q.prev \in [0..N -> (0..N) \cup {HEAD, NULL}]
      BY DEF Tailqs
    <3>4. r.prev[e] = HEAD /\ r.prev[q.first] = e
      BY <2>1, <3>2, <3>3
    <3>5. r.first = e /\ r.last = q.last /\ r.next[e] = q.first
      BY <2>2, <3>1, <3>3
    <3>6. \A x \in S : r.next[x] = q.next[x]
      BY <3>1, <3>3
    <3>7. \A x \in S : x # q.first => r.prev[x] = q.prev[x]
      BY <3>2, <3>3
    <3> QED BY <3>4, <3>5, <3>6, <3>7
  <2>5. Linked(r, S \cup {e})
    <3>1. \A x \in S : q.next[x] # q.first
      BY DEF Linked, HEAD, NULL
    <3>2. \A x \in S : IF r.next[x] = NULL THEN r.last = x
                        ELSE r.next[x] \in S /\ r.prev[r.next[x]] = x
      <4> TAKE x \in S
      <4>1. r.next[x] = q.next[x]
        BY <2>4
      <4>2. CASE q.next[x] = NULL
        BY <2>4, <4>1, <4>2 DEF Linked
      <4>3. CASE q.next[x] # NULL
        <5>1. q.next[x] \in S /\ q.prev[q.next[x]] = x /\ q.next[x] # q.first
          BY <3>1, <4>3 DEF Linked
        <5> QED BY <2>4, <4>1, <4>3, <5>1
      <4> QED BY <4>2, <4>3
    <3>3. \A x \in S : IF r.prev[x] = HEAD THEN r.first = x
                        ELSE r.prev[x] \in S \cup {e} /\ r.next[r.prev[x]] = x
      <4> TAKE x \in S
      <4>1. CASE x = q.first
        <5>1. r.prev[x] = e /\ r.next[e] = x
          BY <2>4, <4>1
        <5>2. e # HEAD
          BY DEF HEAD
        <5> QED BY <5>1, <5>2
      <4>2. CASE x # q.first
        <5>1. r.prev[x] = q.prev[x]
          BY <2>4, <4>2
        <5>2. q.prev[x] # HEAD /\ q.prev[x] \in S /\ q.next[q.prev[x]] = x
          BY <4>2 DEF Linked
        <5>3. r.next[q.prev[x]] = x
          BY <2>4, <5>2
        <5> QED BY <5>1, <5>2, <5>3
      <4> QED BY <4>1, <4>2
    <3>4. IF r.next[e] = NULL THEN r.last = e
          ELSE r.next[e] \in S /\ r.prev[r.next[e]] = e
      BY <1>2, <2>1, <2>4
    <3>5. r.first # NULL /\ r.last # HEAD /\ r.last \in S /\ r.next[r.last] = NULL
      BY <2>1, <2>4 DEF Linked, NULL
    <3>6. r.first = e /\ r.prev[e] = HEAD
      BY <2>4
    <3>7. \A x \in S \cup {e} :
             /\ IF r.next[x] = NULL THEN r.last = x
                ELSE r.next[x] \in S \cup {e} /\ r.prev[r.next[x]] = x
             /\ IF r.prev[x] = HEAD THEN r.first = x
                ELSE r.prev[x] \in S \cup {e} /\ r.next[r.prev[x]] = x
      <4> TAKE x \in S \cup {e}
      <4>1. CASE x \in S
        BY <3>2, <3>3, <4>1
      <4>2. CASE x = e
        BY <3>4, <3>6, <4>2
      <4> QED BY <4>1, <4>2
    <3>8. /\ r.first = NULL <=> r.last = HEAD
          /\ r.first # NULL => r.first \in S \cup {e} /\ r.prev[r.first] = HEAD
          /\ r.last # HEAD => r.last \in S \cup {e} /\ r.next[r.last] = NULL
      BY <3>5, <3>6
    <3> QED BY <3>7, <3>8 DEF Linked
  <2> QED BY <2>3, <2>5
<1> QED BY <1>1, <1>2

\* TAILQ_REMOVE of an element of the queue takes it off, follows no NULL pointer,
\* and changes the head only if it is the element removed.
LEMMA RemoveLinks ==
    ASSUME NEW N \in Nat, NEW q \in Tailqs(0..N), NEW S \in SUBSET (0..N), Linked(q, S),
           NEW e \in S, NEW r, r = TAILQ_REMOVE(q, e)
    PROVE  /\ r \in Tailqs(0..N)
           /\ r.ok = q.ok
           /\ e # q.first => r.first = q.first
           /\ Linked(r, S \ {e})
<1> DEFINE p == q.prev[e]
           n == q.next[e]
<1>0. /\ p # NULL
      /\ p = HEAD \/ p \in S
      /\ n = NULL \/ n \in S
  <2>1. n = NULL \/ n \in S
    BY DEF Linked
  <2>2. p = HEAD \/ p \in S
    BY DEF Linked
  <2> QED BY <2>1, <2>2 DEF NULL, HEAD
<1>1. r = [first |-> IF p = HEAD THEN n ELSE q.first,
           last |-> IF n = NULL THEN p ELSE q.last,
           ok |-> q.ok,
           next |-> IF p = HEAD THEN q.next ELSE [q.next EXCEPT ![p] = n],
           prev |-> IF n = NULL THEN q.prev ELSE [q.prev EXCEPT ![n] = p]]
  <2>1. CASE p = HEAD /\ n = NULL
    BY <1>0, <2>1 DEF TAILQ_REMOVE, Store, Tailqs, HEAD, NULL
  <2>2. CASE p = HEAD /\ n # NULL
    BY <1>0, <2>2 DEF TAILQ_REMOVE, Store, Tailqs, HEAD, NULL
  <2>3. CASE p # HEAD /\ n = NULL
    BY <1>0, <2>3 DEF TAILQ_REMOVE, Store, Tailqs, HEAD, NULL
  <2>4. CASE p # HEAD /\ n # NULL
    BY <1>0, <2>4 DEF TAILQ_REMOVE, Store, Tailqs, HEAD, NULL
  <2> QED BY <2>1, <2>2, <2>3, <2>4
<1>2. r \in Tailqs(0..N) /\ r.ok = q.ok
  BY <1>0, <1>1 DEF Tailqs
<1>3. Linked(r, S \ {e})
  BY <1>0, <1>1, SMTT(40) DEF Linked, Tailqs, HEAD, NULL
<1>4. e # q.first => r.first = q.first
  <2>1. p = HEAD => q.first = e
    BY DEF Linked
  <2>2. r.first = IF p = HEAD THEN n ELSE q.first
    BY <1>1
  <2> QED BY <2>1, <2>2
<1> QED BY <1>2, <1>3, <1>4

\* The numbering of a queue, extended at the tail.
LEMMA InsertTailAcyclic ==
    ASSUME NEW N \in Nat, NEW q \in Tailqs(0..N), NEW S \in SUBSET (0..N), Linked(q, S),
           Acyclic(q, S, N), NEW e \in (0..N) \ S, NEW r, r = TAILQ_INSERT_TAIL(q, e)
    PROVE  Acyclic(r, S \cup {e}, N)
<1>1. PICK rank \in [0..N -> Nat] : \A x \in S : q.next[x] # NULL => rank[x] < rank[q.next[x]]
  BY DEF Acyclic
<1>2. q.last = HEAD \/ q.last \in S
  BY DEF Linked
<1>3. CASE q.last = HEAD
  <2>1. \A x \in S \cup {e} : r.next[x] = IF x = e THEN NULL ELSE q.next[x]
    <3>1. r.next = [q.next EXCEPT ![e] = NULL]
      BY <1>3 DEF TAILQ_INSERT_TAIL, Store, Tailqs, HEAD, NULL
    <3> QED BY <3>1 DEF Tailqs
  <2> QED BY <1>1, <2>1 DEF Acyclic
<1>4. CASE q.last \in S
  <2>1. r.next = [q.next EXCEPT ![e] = NULL, ![q.last] = e]
    BY <1>4 DEF TAILQ_INSERT_TAIL, Store, Tailqs, HEAD, NULL
  <2> DEFINE rank2 == [rank EXCEPT ![e] = rank[q.last] + 1]
  <2>2. rank2 \in [0..N -> Nat]
    <3>1. q.last \in 0..N
      BY <1>4
    <3>2. rank[q.last] \in Nat
      BY <3>1
    <3>3. rank[q.last] + 1 \in Nat
      BY <3>2
    <3> QED BY <3>3
  <2>3. ASSUME NEW x \in S \cup {e}, r.next[x] # NULL
        PROVE  rank2[x] < rank2[r.next[x]]
    <3>1. x # e
      BY <1>4, <2>1, <2>3 DEF Tailqs
    <3>2. CASE x = q.last
      BY <1>1, <1>4, <2>1, <3>1, <3>2 DEF Tailqs
    <3>3. CASE x # q.last
      <4>1. r.next[x] = q.next[x]
        BY <1>4, <2>1, <3>1, <3>3 DEF Tailqs
      <4>2. q.next[x] \in S
        BY <2>3, <3>1, <4>1 DEF Linked
      <4> QED BY <1>1, <2>3, <3>1, <4>1, <4>2
    <3> QED BY <3>2, <3>3
  <2> QED BY <2>2, <2>3 DEF Acyclic
<1> QED BY <1>2, <1>3, <1>4

\* The numbering of a queue, extended at the head.
LEMMA InsertHeadAcyclic ==
    ASSUME NEW N \in Nat, NEW q \in Tailqs(0..N), NEW S \in SUBSET (0..N), Linked(q, S),
           Acyclic(q, S, N), NEW e \in (0..N) \ S, NEW r, r = TAILQ_INSERT_HEAD(q, e)
    PROVE  Acyclic(r, S \cup {e}, N)
<1>1. PICK rank \in [0..N -> Nat] : \A x \in S : q.next[x] # NULL => rank[x] < rank[q.next[x]]
  BY DEF Acyclic
<1>2. r.next = [q.next EXCEPT ![e] = q.first]
  BY DEF TAILQ_INSERT_HEAD, Tailqs
<1> DEFINE rank2 == [x \in 0..N |-> IF x = e THEN 0 ELSE rank[x] + 1]
<1>3. rank2 \in [0..N -> Nat]
  BY <1>1
<1>4. ASSUME NEW x \in S \cup {e}, r.next[x] # NULL
      PROVE  rank2[x] < rank2[r.next[x]]
  <2>1. CASE x = e
    <3>1. r.next[x] = q.first /\ q.first \in S
      BY <1>2, <1>4, <2>1 DEF Tailqs, Linked
    <3>2. PICK y \in 0..N : y = r.next[x] /\ y # e
      BY <3>1
    <3>3. rank[y] \in Nat
      BY <1>1, <3>2
    <3>4. rank2[x] = 0 /\ rank2[y] = rank[y] + 1
      BY <2>1, <3>2
    <3> HIDE DEF rank2
    <3> QED BY <3>2, <3>3, <3>4
  <2>2. CASE x # e
    <3>1. r.next[x] = q.next[x] /\ q.next[x] \in S
      BY <1>2, <1>4, <2>2 DEF Tailqs, Linked
    <3>2. PICK y \in S : y = r.next[x] /\ y = q.next[x]
      BY <3>1
    <3>3. x \in S /\ x \in 0..N /\ y \in 0..N /\ y # e /\ y # NULL
      BY <1>4, <2>2, <3>2
    <3>4. rank[x] \in Nat /\ rank[y] \in Nat /\ rank[x] < rank[y]
      BY <1>1, <3>2, <3>3
    <3>5. rank2[x] = rank[x] + 1 /\ rank2[y] = rank[y] + 1
      BY <2>2, <3>3
    <3> HIDE DEF rank2
    <3> QED BY <3>2, <3>4, <3>5
  <2> QED BY <2>1, <2>2
<1> QED BY <1>3, <1>4 DEF Acyclic

\* The numbering of a queue serves what is left of it.
LEMMA RemoveAcyclic ==
    ASSUME NEW N \in Nat, NEW q \in Tailqs(0..N), NEW S \in SUBSET (0..N), Linked(q, S),
           Acyclic(q, S, N), NEW e \in S, NEW r, r = TAILQ_REMOVE(q, e)
    PROVE  Acyclic(r, S \ {e}, N)
<1>1. PICK rank \in [0..N -> Nat] : \A x \in S : q.next[x] # NULL => rank[x] < rank[q.next[x]]
  BY DEF Acyclic
<1> DEFINE p == q.prev[e]
           n == q.next[e]
<1>2. /\ n = NULL \/ n \in S
      /\ p = HEAD \/ (p \in S /\ q.next[p] = e)
  BY DEF Linked
<1>3. p # NULL
  BY <1>2 DEF NULL, HEAD
<1>4. r.next = IF p = HEAD THEN q.next ELSE [q.next EXCEPT ![p] = n]
  <2>1. CASE n = NULL
    BY <1>2, <1>3, <2>1 DEF TAILQ_REMOVE, Store, Tailqs, HEAD, NULL
  <2>2. CASE n # NULL /\ n # e
    BY <1>2, <1>3, <2>2 DEF TAILQ_REMOVE, Store, Tailqs, HEAD, NULL
  <2>3. n # e
    BY <1>1, <1>2 DEF NULL
  <2> QED BY <2>1, <2>2, <2>3
<1>5. ASSUME NEW x \in S \ {e}, r.next[x] # NULL
      PROVE  rank[x] < rank[r.next[x]]
  <2>1. CASE x = p
    <3>1. r.next[x] = n /\ n # NULL /\ p \in S /\ e \in S /\ q.next[p] = e
      <4>1. x # HEAD /\ x \in DOMAIN q.next
        BY DEF Tailqs, HEAD
      <4>2. r.next = [q.next EXCEPT ![p] = n]
        BY <1>4, <2>1, <4>1
      <4> QED BY <1>2, <1>5, <2>1, <4>1, <4>2
    <3>2. rank[p] < rank[e] /\ rank[e] < rank[n]
      <4>1. e # NULL
        BY DEF NULL
      <4>2. rank[p] < rank[e]
        BY <1>1, <3>1, <4>1
      <4>3. rank[e] < rank[n]
        BY <1>1, <3>1
      <4> QED BY <4>2, <4>3
    <3>3. rank[p] \in Nat /\ rank[e] \in Nat /\ rank[n] \in Nat
      BY <1>1, <1>2, <3>1
    <3> HIDE DEF p, n
    <3> QED BY <2>1, <3>1, <3>2, <3>3
  <2>2. CASE x # p
    <3>1. r.next[x] = q.next[x]
      BY <1>2, <1>4, <2>2 DEF Tailqs
    <3>2. q.next[x] # NULL /\ x \in S
      BY <1>5, <3>1
    <3> QED BY <1>1, <3>1, <3>2
  <2> QED BY <2>1, <2>2
<1> QED BY <1>1, <1>5 DEF Acyclic

\* An acyclic queue that links anything has a first element.
LEMMA NonemptyHasFirst ==
    ASSUME NEW N \in Nat, NEW q \in Tailqs(0..N), NEW S \in SUBSET (0..N), Linked(q, S),
           Acyclic(q, S, N), S # {}
    PROVE  q.first \in S
<1>1. PICK rank \in [0..N -> Nat] : \A x \in S : q.next[x] # NULL => rank[x] < rank[q.next[x]]
  BY DEF Acyclic
<1> DEFINE T == {rank[x] : x \in S}
           Less == {ss \in Nat \X Nat : ss[1] < ss[2]}
<1>2. PICK m \in T : \A y \in T : ~(<<y, m>> \in Less)
  <2>1. T \subseteq Nat /\ T # {}
    BY <1>1
  <2>2. IsWellFoundedOn(Less, Nat)
    BY NatLessThanWellFounded, Zenon DEF OpToRel
  <2> HIDE DEF T, Less
  <2> QED BY <2>1, <2>2, WFMin
<1>3. \A y \in T : ~(y < m)
  BY <1>1, <1>2
<1>4. PICK f \in S : m = rank[f]
  BY <1>2
<1>5. q.prev[f] = HEAD
  <2>1. SUFFICES ASSUME q.prev[f] # HEAD PROVE FALSE
    OBVIOUS
  <2>2. q.prev[f] \in S /\ q.next[q.prev[f]] = f
    BY <2>1 DEF Linked
  <2>3. rank[q.prev[f]] < rank[f]
    BY <1>1, <2>2, SMTT(40) DEF NULL
  <2> QED BY <1>3, <1>4, <2>2, <2>3
<1> QED BY <1>5 DEF Linked

-----------------------------------------------------------------------------
\* q is the list s, read pointer by pointer in both directions.
Lists(q, s) ==
    /\ q.first = IF s = <<>> THEN NULL ELSE s[1]
    /\ q.last = IF s = <<>> THEN HEAD ELSE s[Len(s)]
    /\ \A i \in 1..Len(s) :
          /\ q.next[s[i]] = IF i = Len(s) THEN NULL ELSE s[i + 1]
          /\ q.prev[s[i]] = IF i = 1 THEN HEAD ELSE s[i - 1]
    /\ \A i, j \in 1..Len(s) : s[i] = s[j] => i = j

Elements(s) == {s[i] : i \in 1..Len(s)}

\* Only the empty sequence has no element.
LEMMA EmptyElements ==
    ASSUME NEW S, NEW s \in Seq(S)
    PROVE  s = <<>> <=> Elements(s) = {}
<1>1. s # <<>> => 1 \in 1..Len(s)
  OBVIOUS
<1> QED BY <1>1 DEF Elements

\* The head of a sequence is its first element.
LEMMA HeadIsFirst ==
    ASSUME NEW S, NEW s \in Seq(S), s # <<>>
    PROVE  Head(s) = s[1]
OBVIOUS

\* Such a queue links its elements and no other.
LEMMA ListsLinked ==
    ASSUME NEW N \in Nat, NEW q \in Tailqs(0..N), NEW s \in Seq(0..N), Lists(q, s)
    PROVE  Linked(q, Elements(s))
<1> DEFINE S == Elements(s)
<1> USE DEF Elements
<1>1. PICK n \in Nat : n = Len(s)
  OBVIOUS
<1>2. /\ \A i \in 1..n : s[i] \in 0..N
      /\ \A i \in 1..n : q.next[s[i]] = IF i = n THEN NULL ELSE s[i + 1]
      /\ \A i \in 1..n : q.prev[s[i]] = IF i = 1 THEN HEAD ELSE s[i - 1]
      /\ q.first = IF n = 0 THEN NULL ELSE s[1]
      /\ q.last = IF n = 0 THEN HEAD ELSE s[n]
  BY <1>1 DEF Lists
<1>3. S \subseteq 0..N /\ \A x \in 0..N : x # NULL /\ x # HEAD
  BY <1>1, <1>2 DEF NULL, HEAD
<1>4. n # 0 => 1 \in 1..n /\ n \in 1..n
  OBVIOUS
<1>5. /\ q.first = NULL <=> q.last = HEAD
      /\ q.first # NULL => q.first \in S /\ q.prev[q.first] = HEAD
      /\ q.last # HEAD => q.last \in S /\ q.next[q.last] = NULL
  BY <1>1, <1>2, <1>3, <1>4
<1>6. ASSUME NEW e \in S
      PROVE  /\ IF q.next[e] = NULL THEN q.last = e
                ELSE q.next[e] \in S /\ q.prev[q.next[e]] = e
             /\ IF q.prev[e] = HEAD THEN q.first = e
                ELSE q.prev[e] \in S /\ q.next[q.prev[e]] = e
  <2>1. PICK i \in 1..n : e = s[i]
    BY <1>1
  <2>2. n # 0
    OBVIOUS
  <2>3. IF q.next[e] = NULL THEN q.last = e ELSE q.next[e] \in S /\ q.prev[q.next[e]] = e
    <3>1. CASE i = n
      BY <1>2, <2>1, <2>2, <3>1
    <3>2. CASE i # n
      <4>1. i + 1 \in 1..n /\ i + 1 # 1 /\ (i + 1) - 1 = i
        BY <3>2
      <4>2. q.next[e] = s[i + 1] /\ s[i + 1] \in S /\ q.prev[s[i + 1]] = s[i]
        BY <1>1, <1>2, <2>1, <3>2, <4>1
      <4> QED BY <1>3, <2>1, <4>2
    <3> QED BY <3>1, <3>2
  <2>4. IF q.prev[e] = HEAD THEN q.first = e ELSE q.prev[e] \in S /\ q.next[q.prev[e]] = e
    <3>1. CASE i = 1
      BY <1>2, <2>1, <2>2, <3>1
    <3>2. CASE i # 1
      <4>1. i - 1 \in 1..n /\ i - 1 # n /\ (i - 1) + 1 = i
        BY <3>2
      <4>2. q.prev[e] = s[i - 1] /\ s[i - 1] \in S /\ q.next[s[i - 1]] = s[i]
        BY <1>1, <1>2, <2>1, <3>2, <4>1
      <4> QED BY <1>3, <2>1, <4>2
    <3> QED BY <3>1, <3>2
  <2> QED BY <2>3, <2>4
<1> QED BY <1>5, <1>6 DEF Linked

\* TAILQ_INSERT_TAIL appends.
LEMMA InsertTailLists ==
    ASSUME NEW N \in Nat, NEW q \in Tailqs(0..N), NEW s \in Seq(0..N), Lists(q, s),
           NEW e \in 0..N, \A i \in 1..Len(s) : s[i] # e,
           NEW r, r = TAILQ_INSERT_TAIL(q, e)
    PROVE  Lists(r, Append(s, e))
<1>0. /\ \A i \in 1..Len(s) : q.next[s[i]] = IF i = Len(s) THEN NULL ELSE s[i + 1]
      /\ \A i \in 1..Len(s) : q.prev[s[i]] = IF i = 1 THEN HEAD ELSE s[i - 1]
      /\ \A i, j \in 1..Len(s) : s[i] = s[j] => i = j
  BY DEF Lists
<1>1. PICK t : t = Append(s, e)
  OBVIOUS
<1>2. /\ t \in Seq(0..N) /\ Len(t) = Len(s) + 1 /\ Len(s) \in Nat /\ t # <<>>
      /\ t[Len(s) + 1] = e /\ \A i \in 1..Len(s) : t[i] = s[i] /\ s[i] \in 0..N
  BY <1>1
<1>3. CASE s = <<>>
  <2>1. q.last = HEAD /\ q.first = NULL /\ Len(s) = 0
    BY <1>3 DEF Lists
  <2>2. r = [q EXCEPT !.next[e] = NULL, !.prev[e] = HEAD, !.first = e, !.last = e]
    BY <2>1 DEF TAILQ_INSERT_TAIL, Store, HEAD, NULL, Tailqs
  <2>3. r.first = e /\ r.last = e /\ r.next[e] = NULL /\ r.prev[e] = HEAD
    BY <2>2 DEF Tailqs
  <2>4. Len(t) = 1 /\ t[1] = e
    BY <1>2, <2>1
  <2> QED BY <1>1, <1>2, <2>3, <2>4 DEF Lists
<1>4. CASE s # <<>>
  <2>1. PICK l : l = s[Len(s)]
    OBVIOUS
  <2>2. Len(s) >= 1 /\ l \in 0..N /\ l # e /\ q.last = l /\ l # HEAD /\ l # NULL
    BY <1>2, <1>4, <2>1 DEF Lists, HEAD, NULL
  <2>3. /\ r.first = q.first
        /\ r.last = e
        /\ r.next = [q.next EXCEPT ![e] = NULL, ![l] = e]
        /\ r.prev = [q.prev EXCEPT ![e] = l]
    BY <2>2 DEF TAILQ_INSERT_TAIL, Store, HEAD, NULL, Tailqs
  <2>4. /\ r.next[e] = NULL /\ r.next[l] = e /\ r.prev[e] = l
        /\ \A x \in 0..N : x # e => r.prev[x] = q.prev[x] /\ (x # l => r.next[x] = q.next[x])
    BY <2>2, <2>3 DEF Tailqs
  <2>5. r.first = t[1] /\ r.last = t[Len(t)]
    BY <1>2, <1>4, <2>2, <2>3 DEF Lists
  <2>6. ASSUME NEW i \in 1..Len(t)
        PROVE  /\ r.next[t[i]] = IF i = Len(t) THEN NULL ELSE t[i + 1]
               /\ r.prev[t[i]] = IF i = 1 THEN HEAD ELSE t[i - 1]
    <3>1. CASE i = Len(t)
      BY <1>2, <2>1, <2>2, <2>4, <3>1
    <3>2. CASE i = Len(s)
      <4>1. i \in 1..Len(s) /\ t[i] = l /\ t[i + 1] = e /\ i # Len(t)
        BY <1>2, <2>1, <2>2, <3>2
      <4>2. i # 1 => t[i - 1] = s[i - 1]
        <5>1. i # 1 => i - 1 \in 1..Len(s)
          BY <1>2, <4>1
        <5> QED BY <1>2, <5>1
      <4>3. q.prev[l] = IF i = 1 THEN HEAD ELSE s[i - 1]
        BY <1>0, <2>1, <3>2, <4>1
      <4> QED BY <2>2, <2>4, <4>1, <4>2, <4>3
    <3>3. CASE i < Len(s)
      <4>1. i \in 1..Len(s) /\ i + 1 \in 1..Len(s) /\ Len(s) \in 1..Len(s)
        BY <1>2, <3>3
      <4>2. t[i] = s[i] /\ t[i + 1] = s[i + 1] /\ s[i] # l /\ s[i] # e /\ s[i] \in 0..N
        BY <1>2, <2>1, <3>3, <4>1 DEF Lists
      <4>3. i # 1 => t[i - 1] = s[i - 1]
        <5>1. i # 1 => i - 1 \in 1..Len(s)
          BY <1>2, <4>1
        <5> QED BY <1>2, <5>1
      <4>4. /\ q.next[s[i]] = s[i + 1]
            /\ q.prev[s[i]] = IF i = 1 THEN HEAD ELSE s[i - 1]
        <5>1. i # Len(s)
          BY <1>2, <3>3
        <5> QED BY <1>0, <4>1, <5>1
      <4>5. i # Len(t)
        BY <1>2, <3>3
      <4> QED BY <2>4, <4>2, <4>3, <4>4, <4>5
    <3> QED BY <1>2, <3>1, <3>2, <3>3
  <2>7. \A i, j \in 1..Len(t) : t[i] = t[j] => i = j
    <3>1. \A i \in 1..Len(t) : i = Len(s) + 1 \/ i \in 1..Len(s)
      BY <1>2
    <3>2. \A i \in 1..Len(s) : t[i] = s[i] /\ t[i] # e
      BY <1>2
    <3>3. ASSUME NEW i \in 1..Len(s), NEW j \in 1..Len(s), t[i] = t[j] PROVE i = j
      BY <1>0, <3>2, <3>3
    <3> QED BY <1>2, <3>1, <3>2, <3>3
  <2> QED BY <1>1, <1>2, <2>5, <2>6, <2>7 DEF Lists
<1> QED BY <1>3, <1>4

\* TAILQ_INSERT_HEAD prepends.
LEMMA InsertHeadLists ==
    ASSUME NEW N \in Nat, NEW q \in Tailqs(0..N), NEW s \in Seq(0..N), Lists(q, s),
           NEW e \in 0..N, \A i \in 1..Len(s) : s[i] # e,
           NEW r, r = TAILQ_INSERT_HEAD(q, e)
    PROVE  Lists(r, <<e>> \o s)
<1>0. /\ \A i \in 1..Len(s) : q.next[s[i]] = IF i = Len(s) THEN NULL ELSE s[i + 1]
      /\ \A i \in 1..Len(s) : q.prev[s[i]] = IF i = 1 THEN HEAD ELSE s[i - 1]
      /\ \A i, j \in 1..Len(s) : s[i] = s[j] => i = j
  BY DEF Lists
<1>1. PICK t : t = <<e>> \o s
  OBVIOUS
<1>2. /\ t \in Seq(0..N) /\ Len(t) = Len(s) + 1 /\ Len(s) \in Nat /\ t # <<>> /\ t[1] = e
      /\ \A i \in 1..Len(s) : t[i + 1] = s[i] /\ s[i] \in 0..N
  BY <1>1
<1>2b. Len(s) \in Nat /\ Len(t) = Len(s) + 1
  BY <1>2
<1>2a. \A i \in 2..Len(t) : i - 1 \in 1..Len(s) /\ t[i] = s[i - 1]
  BY <1>2
<1>3. CASE s = <<>>
  <2>1. q.first = NULL /\ Len(s) = 0
    BY <1>3 DEF Lists
  <2>2. r = [q EXCEPT !.next[e] = NULL, !.last = e, !.first = e, !.prev[e] = HEAD]
    BY <2>1 DEF TAILQ_INSERT_HEAD, Tailqs
  <2>3. r.first = e /\ r.last = e /\ r.next[e] = NULL /\ r.prev[e] = HEAD
    BY <2>2 DEF Tailqs
  <2>4. Len(t) = 1
    BY <1>2, <2>1
  <2> QED BY <1>1, <1>2, <2>3, <2>4 DEF Lists
<1>4. CASE s # <<>>
  <2>1. PICK f : f = s[1]
    OBVIOUS
  <2>2. Len(s) >= 1 /\ f \in 0..N /\ f # e /\ q.first = f /\ f # NULL
    BY <1>2, <1>4, <2>1 DEF Lists, NULL
  <2>3. r = [first |-> e, last |-> q.last, ok |-> q.ok,
             next |-> [q.next EXCEPT ![e] = f],
             prev |-> [q.prev EXCEPT ![f] = e, ![e] = HEAD]]
    BY <2>2 DEF TAILQ_INSERT_HEAD, Tailqs
  <2>4. /\ r.first = e /\ r.last = q.last
        /\ r.next[e] = f /\ r.prev[e] = HEAD /\ r.prev[f] = e
        /\ \A x \in 0..N : x # e => r.next[x] = q.next[x] /\ (x # f => r.prev[x] = q.prev[x])
    BY <2>2, <2>3 DEF Tailqs
  <2>5. r.first = t[1] /\ r.last = t[Len(t)]
    BY <1>2, <1>4, <2>2, <2>4 DEF Lists
  <2>6. ASSUME NEW i \in 1..Len(t)
        PROVE  /\ r.next[t[i]] = IF i = Len(t) THEN NULL ELSE t[i + 1]
               /\ r.prev[t[i]] = IF i = 1 THEN HEAD ELSE t[i - 1]
    <3>1. CASE i = 1
      BY <1>2, <2>1, <2>2, <2>4, <3>1
    <3>2. CASE i = 2
      <4>0. PICK n \in Nat : n = Len(s) /\ n >= 1 /\ Len(t) = n + 1
        BY <1>2b, <2>2
      <4>1. 1 \in 1..Len(s) /\ t[i] = f /\ t[i - 1] = e /\ (Len(s) # 1 => t[i + 1] = s[2])
        <5>1. 1 \in 1..Len(s) /\ t[1 + 1] = s[1] /\ i - 1 = 1 /\ 1 + 1 = i
          <6>1. 1 \in 1..Len(s) /\ i - 1 = 1 /\ 1 + 1 = i
            BY <1>2b, <2>2, <3>2
          <6> QED BY <1>2, <6>1
        <5>2. Len(s) # 1 => 2 \in 1..Len(s) /\ i + 1 = 2 + 1
          <6>1. n # 1 => 2 \in 1..n /\ i + 1 = 2 + 1
            BY <3>2, <4>0
          <6> QED BY <4>0, <6>1
        <5> QED BY <1>2, <2>1, <5>1, <5>2
      <4>2. q.next[f] = IF 1 = Len(s) THEN NULL ELSE s[2]
        <5>1. q.next[s[1]] = IF 1 = Len(s) THEN NULL ELSE s[1 + 1]
          BY <1>0, <4>1
        <5> QED BY <2>1, <5>1
      <4>3. i = Len(t) <=> Len(s) = 1
        <5>1. i = n + 1 <=> n = 1
          BY <3>2, <4>0
        <5> QED BY <4>0, <5>1
      <4> QED BY <2>2, <2>4, <3>2, <4>1, <4>2, <4>3
    <3>3. CASE i > 2
      <4>1. PICK k \in 1..Len(s) : k = i - 1
        BY <1>2, <1>2a, <3>3
      <4>2. k > 1 /\ 1 \in 1..Len(s) /\ k - 1 \in 1..Len(s)
        BY <1>2, <3>3, <4>1
      <4>3. t[i] = s[k] /\ t[i - 1] = s[k - 1] /\ s[k] # f /\ s[k] # e /\ s[k] \in 0..N
        <5>1. t[i] = s[k] /\ t[i - 1] = s[k - 1]
          <6>1. i \in 2..Len(t) /\ i - 1 \in 2..Len(t) /\ k - 1 = (i - 1) - 1
            BY <1>2, <3>3, <4>1
          <6> QED BY <1>2a, <4>1, <6>1
        <5>2. s[k] # s[1]
          BY <1>0, <4>2
        <5> QED BY <1>2, <2>1, <5>1, <5>2
      <4>4. k # Len(s) => t[i + 1] = s[k + 1]
        BY <1>2, <4>1
      <4>5. /\ q.next[s[k]] = IF k = Len(s) THEN NULL ELSE s[k + 1]
            /\ q.prev[s[k]] = s[k - 1]
        BY <4>2 DEF Lists
      <4>6. k = Len(s) <=> i = Len(t)
        BY <1>2, <4>1
      <4> QED BY <2>4, <3>3, <4>3, <4>4, <4>5, <4>6
    <3> QED BY <1>2, <3>1, <3>2, <3>3
  <2>7. \A i, j \in 1..Len(t) : t[i] = t[j] => i = j
    <3>1. \A i \in 1..Len(t) : i = 1 \/ i \in 2..Len(t)
      BY <1>2
    <3>2. ASSUME NEW i \in 2..Len(t), NEW j \in 2..Len(t), t[i] = t[j] PROVE i = j
      <4>1. i - 1 = j - 1
        <5>1. PICK a \in 1..Len(s), b \in 1..Len(s) : a = i - 1 /\ b = j - 1
          BY <1>2a
        <5>2. s[a] = s[b]
          BY <1>2a, <3>2, <5>1
        <5> QED BY <1>0, <5>1, <5>2
      <4> QED BY <1>2, <4>1
    <3>3. \A i \in 2..Len(t) : t[i] # e
      BY <1>2a
    <3> QED BY <1>2, <3>1, <3>2, <3>3
  <2> QED BY <1>1, <1>2, <2>5, <2>6, <2>7 DEF Lists
<1> QED BY <1>3, <1>4

\* A sequence without its element k.
Without(s, k) == SubSeq(s, 1, k - 1) \o SubSeq(s, k + 1, Len(s))

\* The elements behind k move one place forward.
LEMMA WithoutElement ==
    ASSUME NEW S, NEW s \in Seq(S), NEW k \in 1..Len(s)
    PROVE  /\ Without(s, k) \in Seq(S)
           /\ Len(Without(s, k)) = Len(s) - 1
           /\ \A i \in 1..(Len(s) - 1) : Without(s, k)[i] = IF i < k THEN s[i] ELSE s[i + 1]
<1> DEFINE t == Without(s, k)
<1>0. PICK n \in Nat : n = Len(s)
  OBVIOUS
<1>1. PICK a, b : a = SubSeq(s, 1, k - 1) /\ b = SubSeq(s, k + 1, n) /\ n = Len(s)
  BY <1>0
<1>2. k \in Int /\ k - 1 \in Int /\ k + 1 \in Int /\ n \in Int /\ k >= 1 /\ k <= n
  BY <1>1
<1>3. a \in Seq(S) /\ Len(a) = k - 1 /\ \A i \in 1..(k - 1) : a[i] = s[i]
  <2>1. \A i \in 1..(k - 1) : s[i] \in S
    BY <1>1, <1>2
  <2>2. /\ a \in Seq(S)
        /\ Len(a) = IF 1 <= k - 1 THEN (k - 1) - 1 + 1 ELSE 0
        /\ \A i \in 1..((k - 1) - 1 + 1) : a[i] = s[1 + i - 1]
    BY <1>1, <1>2, <2>1, SubSeqProperties
  <2> QED BY <1>2, <2>2
<1>4. b \in Seq(S) /\ Len(b) = n - k /\ \A i \in 1..(n - k) : b[i] = s[k + i]
  <2>1. \A i \in (k + 1)..n : s[i] \in S
    BY <1>1, <1>2
  <2>2. /\ b \in Seq(S)
        /\ Len(b) = IF k + 1 <= n THEN n - (k + 1) + 1 ELSE 0
        /\ \A i \in 1..(n - (k + 1) + 1) : b[i] = s[(k + 1) + i - 1]
    BY <1>1, <1>2, <2>1, SubSeqProperties
  <2>3. n - (k + 1) + 1 = n - k /\ \A i \in Int : (k + 1) + i - 1 = k + i
    BY <1>2
  <2>4. Len(b) = n - k
    BY <1>2, <2>2
  <2>5. \A i \in 1..(n - k) : b[i] = s[k + i]
    <3>1. SUFFICES ASSUME NEW i \in 1..(n - k) PROVE b[i] = s[k + i]
      OBVIOUS
    <3>2. i \in 1..(n - (k + 1) + 1) /\ (k + 1) + i - 1 = k + i
      BY <1>2
    <3> QED BY <2>2, <3>2
  <2> QED BY <2>2, <2>4, <2>5
<1>5. /\ t \in Seq(S)
      /\ Len(t) = Len(a) + Len(b)
      /\ \A i \in 1..(Len(a) + Len(b)) : t[i] = IF i <= Len(a) THEN a[i] ELSE b[i - Len(a)]
  <2>1. t = a \o b
    BY <1>1 DEF Without
  <2>2. /\ a \o b \in Seq(S)
        /\ Len(a \o b) = Len(a) + Len(b)
        /\ \A i \in 1..(Len(a) + Len(b)) : (a \o b)[i] = IF i <= Len(a) THEN a[i] ELSE b[i - Len(a)]
    BY <1>3, <1>4, ConcatProperties, Zenon
  <2> QED BY <2>1, <2>2, Zenon
<1>6. Len(t) = n - 1
  BY <1>2, <1>3, <1>4, <1>5
<1>7. ASSUME NEW i \in 1..(n - 1) PROVE t[i] = IF i < k THEN s[i] ELSE s[i + 1]
  <2>1. CASE i < k
    <3>1. i \in 1..(k - 1) /\ i <= k - 1
      BY <1>2, <2>1
    <3> QED BY <1>3, <1>5, <1>6, <2>1, <3>1
  <2>2. CASE ~(i < k)
    <3>1. i - (k - 1) \in 1..(n - k) /\ ~(i <= k - 1) /\ k + (i - (k - 1)) = i + 1
      BY <1>2, <2>2
    <3>2. b[i - (k - 1)] = s[i + 1]
      BY <1>4, <3>1
    <3> QED BY <1>3, <1>5, <1>6, <2>2, <3>1, <3>2
  <2> QED BY <2>1, <2>2
<1> HIDE DEF t
<1>8. t \in Seq(S) /\ Len(t) = Len(s) - 1
  BY <1>1, <1>5, <1>6
<1>9. \A i \in 1..(Len(s) - 1) : t[i] = IF i < k THEN s[i] ELSE s[i + 1]
  BY <1>1, <1>7
<1> QED BY <1>8, <1>9 DEF t

\* Tail drops the first.
LEMMA TailIsWithout ==
    ASSUME NEW S, NEW s \in Seq(S), s # <<>>
    PROVE  Tail(s) = Without(s, 1)
<1>1. PICK k \in 1..Len(s) : k = 1
  OBVIOUS
<1>2. /\ Without(s, k) \in Seq(S) /\ Len(Without(s, k)) = Len(s) - 1
      /\ \A i \in 1..(Len(s) - 1) : Without(s, k)[i] = IF i < k THEN s[i] ELSE s[i + 1]
  BY WithoutElement, Zenon
<1>3. /\ Tail(s) \in Seq(S) /\ Len(Tail(s)) = Len(s) - 1
      /\ \A i \in 1..(Len(s) - 1) : Tail(s)[i] = s[i + 1]
  OBVIOUS
<1>4. \A i \in 1..(Len(s) - 1) : ~(i < k)
  BY <1>1
<1>5. \A i \in 1..Len(Tail(s)) : Tail(s)[i] = Without(s, k)[i]
  BY <1>2, <1>3, <1>4
<1>6. Tail(s) = Without(s, k)
  BY <1>2, <1>3, <1>5, SeqEqual
<1> QED BY <1>1, <1>6

\* TAILQ_REMOVE takes one element out and leaves the others in their order.
LEMMA RemoveLists ==
    ASSUME NEW N \in Nat, NEW q \in Tailqs(0..N), NEW s \in Seq(0..N), Lists(q, s),
           NEW k \in 1..Len(s), NEW e, e = s[k],
           NEW r, r = TAILQ_REMOVE(q, e),
           NEW t, t = Without(s, k)
    PROVE  Lists(r, t)
<1>1. PICK n \in Nat : n = Len(s)
  OBVIOUS
<1>2. k \in 1..n /\ e \in 0..N /\ \A i \in 1..n : s[i] \in 0..N
  BY <1>1
<1>3. /\ t \in Seq(0..N) /\ Len(t) = n - 1
      /\ \A i \in 1..(n - 1) : t[i] = IF i < k THEN s[i] ELSE s[i + 1]
  <2>1. /\ t \in Seq(0..N) /\ Len(t) = Len(s) - 1
        /\ \A i \in 1..(Len(s) - 1) : t[i] = IF i < k THEN s[i] ELSE s[i + 1]
    BY WithoutElement, Zenon
  <2> QED BY <1>1, <2>1
<1>4. /\ \A i \in 1..n : q.next[s[i]] = IF i = n THEN NULL ELSE s[i + 1]
      /\ \A i \in 1..n : q.prev[s[i]] = IF i = 1 THEN HEAD ELSE s[i - 1]
      /\ \A i, j \in 1..n : s[i] = s[j] => i = j
      /\ q.first = s[1] /\ q.last = s[n]
  <2>1. s # <<>>
    BY <1>1, <1>2
  <2> QED BY <1>1, <2>1 DEF Lists
<1>5. PICK p, x : p = q.prev[e] /\ x = q.next[e]
  OBVIOUS
<1>6. /\ p = IF k = 1 THEN HEAD ELSE s[k - 1]
      /\ x = IF k = n THEN NULL ELSE s[k + 1]
      /\ p # e /\ x # e /\ p # NULL /\ x # HEAD
      /\ p \in 0..N \/ p = HEAD
      /\ x \in 0..N \/ x = NULL
  <2>1. k # 1 => k - 1 \in 1..n /\ k - 1 # k
    BY <1>2
  <2>2. k # n => k + 1 \in 1..n /\ k + 1 # k
    BY <1>2
  <2>3. /\ p = IF k = 1 THEN HEAD ELSE s[k - 1]
        /\ x = IF k = n THEN NULL ELSE s[k + 1]
    BY <1>2, <1>4, <1>5
  <2>4. k # 1 => p \in 0..N /\ p # e
    BY <1>2, <1>4, <2>1, <2>3
  <2>5. k # n => x \in 0..N /\ x # e
    BY <1>2, <1>4, <2>2, <2>3
  <2> QED BY <1>2, <2>3, <2>4, <2>5 DEF HEAD, NULL
<1>7. /\ r.first = IF p = HEAD THEN x ELSE q.first
      /\ r.last = IF x = NULL THEN p ELSE q.last
      /\ \A y \in 0..N : r.next[y] = IF y = p THEN x ELSE q.next[y]
      /\ \A y \in 0..N : r.prev[y] = IF y = x THEN p ELSE q.prev[y]
  <2>1. PICK u : u = IF x # NULL THEN [q EXCEPT !.prev[x] = p] ELSE [q EXCEPT !.last = p]
    OBVIOUS
  <2>2. r = Store(u, u.prev[e], u.next[e])
    BY <1>5, <2>1 DEF TAILQ_REMOVE
  <2>3. /\ u.first = q.first /\ u.next = q.next
        /\ u.last = IF x = NULL THEN p ELSE q.last
        /\ u.prev[e] = p /\ u.next[e] = x
        /\ \A y \in 0..N : u.prev[y] = IF y = x THEN p ELSE q.prev[y]
        /\ u \in [first : (0..N) \cup {NULL}, last : (0..N) \cup {HEAD, NULL}, ok : BOOLEAN,
                  next : [0..N -> (0..N) \cup {NULL}], prev : [0..N -> (0..N) \cup {HEAD, NULL}]]
    <3>1. CASE x = NULL
      <4>1. u = [q EXCEPT !.last = p] /\ p \in (0..N) \cup {HEAD, NULL}
        BY <1>6, <2>1, <3>1
      <4>2. \A y \in 0..N : y # x
        BY <3>1 DEF NULL
      <4>3. u.first = q.first /\ u.next = q.next /\ u.prev = q.prev /\ u.last = p
        BY <4>1 DEF Tailqs
      <4>4. u \in Tailqs(0..N)
        BY <4>1 DEF Tailqs
      <4> QED BY <1>5, <3>1, <4>2, <4>3, <4>4 DEF Tailqs
    <3>2. CASE x # NULL
      BY <1>2, <1>5, <1>6, <2>1, <3>2 DEF Tailqs
    <3> QED BY <3>1, <3>2
  <2>4. CASE p = HEAD
    <3>1. r = [u EXCEPT !.first = x]
      BY <1>6, <2>2, <2>3, <2>4 DEF Store
    <3>2. r.first = x /\ r.last = u.last /\ r.next = u.next /\ r.prev = u.prev
      BY <2>3, <3>1
    <3>3. \A y \in 0..N : y # p
      BY <2>4 DEF HEAD
    <3> QED BY <2>3, <2>4, <3>2, <3>3
  <2>5. CASE p # HEAD
    <3>1. r = [u EXCEPT !.next[p] = x]
      BY <1>6, <2>2, <2>3, <2>5 DEF Store
    <3>2. r.first = u.first /\ r.last = u.last /\ r.next = [u.next EXCEPT ![p] = x] /\ r.prev = u.prev
      BY <2>3, <3>1
    <3> QED BY <2>3, <2>5, <3>2
  <2> QED BY <2>4, <2>5
<1>8. \A i \in 1..n : i # k => s[i] # e
  BY <1>2, <1>4
<1>9. ASSUME NEW i \in 1..(n - 1)
      PROVE  /\ r.next[t[i]] = IF i = n - 1 THEN NULL ELSE t[i + 1]
             /\ r.prev[t[i]] = IF i = 1 THEN HEAD ELSE t[i - 1]
  <2>1. PICK j \in 1..n : j = IF i < k THEN i ELSE i + 1
    BY <1>2
  <2>2. t[i] = s[j] /\ s[j] \in 0..N /\ j # k /\ s[j] # e
    <3>1. j # k /\ j \in 1..n
      BY <1>2, <2>1
    <3>2. t[i] = s[j]
      BY <1>3, <2>1
    <3> QED BY <1>2, <1>8, <3>1, <3>2
  <2>3. /\ s[j] = p <=> i + 1 = k
        /\ s[j] = x <=> i = k
    <3>1. CASE k = 1
      <4>1. p # s[j] /\ i + 1 # k
        BY <1>6, <2>2, <3>1 DEF HEAD
      <4>2. s[j] = x <=> j = k + 1
        <5>1. CASE k = n
          BY <1>6, <2>2, <5>1 DEF NULL
        <5>2. CASE k # n
          BY <1>2, <1>4, <1>6, <5>2
        <5> QED BY <5>1, <5>2
      <4> QED BY <1>2, <2>1, <4>1, <4>2
    <3>2. CASE k # 1
      <4>1. s[j] = p <=> j = k - 1
        <5>1. k - 1 \in 1..n /\ p = s[k - 1]
          BY <1>2, <1>6, <3>2
        <5> QED BY <1>4, <5>1
      <4>2. s[j] = x <=> j = k + 1
        <5>1. CASE k = n
          BY <1>6, <2>2, <5>1 DEF NULL
        <5>2. CASE k # n
          BY <1>2, <1>4, <1>6, <5>2
        <5> QED BY <5>1, <5>2
      <4> QED BY <1>2, <2>1, <4>1, <4>2
    <3> QED BY <3>1, <3>2
  <2>4. r.next[t[i]] = IF i = n - 1 THEN NULL ELSE t[i + 1]
    <3>1. CASE i + 1 = k
      <4>1. r.next[t[i]] = x
        BY <1>7, <2>2, <2>3, <3>1
      <4>2. CASE k = n
        BY <1>6, <3>1, <4>1, <4>2
      <4>3. CASE k # n
        <5>1. k \in 1..(n - 1) /\ ~(k < k) /\ i # n - 1
          BY <1>2, <3>1, <4>3
        <5>2. t[k] = s[k + 1]
          BY <1>3, <5>1
        <5> QED BY <1>6, <3>1, <4>1, <4>3, <5>1, <5>2
      <4> QED BY <4>2, <4>3
    <3>2. CASE i + 1 # k
      <4>1. r.next[t[i]] = IF j = n THEN NULL ELSE s[j + 1]
        <5>1. r.next[s[j]] = q.next[s[j]]
          BY <1>7, <2>2, <2>3, <3>2
        <5>2. q.next[s[j]] = IF j = n THEN NULL ELSE s[j + 1]
          BY <1>4
        <5> QED BY <2>2, <5>1, <5>2
      <4>2. j = n <=> i = n - 1
        BY <1>2, <2>1, <3>2
      <4>3. i # n - 1 => i + 1 \in 1..(n - 1)
        BY <1>2
      <4>4. j + 1 = IF i + 1 < k THEN i + 1 ELSE (i + 1) + 1
        BY <1>2, <2>1, <3>2
      <4>5. i # n - 1 => t[i + 1] = s[j + 1]
        BY <1>3, <4>3, <4>4
      <4> QED BY <4>1, <4>2, <4>5
    <3> QED BY <3>1, <3>2
  <2>5. r.prev[t[i]] = IF i = 1 THEN HEAD ELSE t[i - 1]
    <3>1. CASE i = k
      <4>1. r.prev[t[i]] = p
        BY <1>7, <2>2, <2>3, <3>1
      <4>2. i # 1 => i - 1 \in 1..(n - 1) /\ i - 1 < k
        BY <1>2, <3>1
      <4>3. i # 1 => t[i - 1] = s[k - 1]
        BY <1>3, <3>1, <4>2
      <4> QED BY <1>6, <3>1, <4>1, <4>3
    <3>2. CASE i # k
      <4>1. r.prev[t[i]] = IF j = 1 THEN HEAD ELSE s[j - 1]
        <5>1. r.prev[s[j]] = q.prev[s[j]]
          BY <1>7, <2>2, <2>3, <3>2
        <5>2. q.prev[s[j]] = IF j = 1 THEN HEAD ELSE s[j - 1]
          BY <1>4
        <5> QED BY <2>2, <5>1, <5>2
      <4>2. j = 1 <=> i = 1
        BY <1>2, <2>1, <3>2
      <4>3. i # 1 => i - 1 \in 1..(n - 1)
        BY <1>2
      <4>4. j - 1 = IF i - 1 < k THEN i - 1 ELSE (i - 1) + 1
        BY <1>2, <2>1, <3>2
      <4>5. i # 1 => t[i - 1] = s[j - 1]
        BY <1>3, <4>3, <4>4
      <4> QED BY <4>1, <4>2, <4>5
    <3> QED BY <3>1, <3>2
  <2> QED BY <2>4, <2>5
<1>10. \A i, j \in 1..(n - 1) : t[i] = t[j] => i = j
  <2>1. SUFFICES ASSUME NEW i \in 1..(n - 1), NEW j \in 1..(n - 1), t[i] = t[j] PROVE i = j
    OBVIOUS
  <2>2. PICK a \in 1..n, b \in 1..n : /\ a = IF i < k THEN i ELSE i + 1
                                      /\ b = IF j < k THEN j ELSE j + 1
    BY <1>2
  <2>3. t[i] = s[a] /\ t[j] = s[b]
    BY <1>3, <2>2
  <2>4. a = b
    <3>1. s[a] = s[b]
      BY <2>1, <2>3
    <3> QED BY <1>4, <3>1
  <2> QED BY <1>2, <2>2, <2>4
<1>11. CASE n = 1
  <2>1. k = 1 /\ k = n /\ Len(t) = 0 /\ t = <<>>
    BY <1>2, <1>3, <1>11
  <2>2. r.first = NULL /\ r.last = HEAD
    BY <1>6, <1>7, <2>1
  <2> QED BY <2>1, <2>2 DEF Lists
<1>12. CASE n # 1
  <2>1. n - 1 >= 1 /\ t # <<>> /\ 1 \in 1..(n - 1) /\ n - 1 \in 1..(n - 1)
    <3>1. n - 1 >= 1 /\ 1 \in 1..(n - 1) /\ n - 1 \in 1..(n - 1)
      BY <1>2, <1>12
    <3>2. t = <<>> => Len(t) = 0
      OBVIOUS
    <3>3. n - 1 # 0
      BY <3>1
    <3>4. t # <<>>
      BY <1>3, <3>2, <3>3
    <3> QED BY <3>1, <3>4
  <2>2. r.first = t[1]
    <3>1. CASE k = 1
      <4>1. ~(1 < k) /\ k # n
        BY <1>12, <3>1
      <4>2. t[1] = s[1 + 1]
        BY <1>3, <2>1, <4>1
      <4> QED BY <1>6, <1>7, <3>1, <4>1, <4>2
    <3>2. CASE k # 1
      <4>1. p # HEAD /\ 1 < k
        BY <1>2, <1>6, <3>2 DEF HEAD
      <4> QED BY <1>3, <1>4, <1>7, <2>1, <4>1
    <3> QED BY <3>1, <3>2
  <2>3. r.last = t[n - 1]
    <3>1. CASE k = n
      <4>1. n - 1 < k /\ k # 1
        BY <1>12, <3>1
      <4>2. t[n - 1] = s[n - 1]
        BY <1>3, <2>1, <4>1
      <4> QED BY <1>6, <1>7, <3>1, <4>1, <4>2
    <3>2. CASE k # n
      <4>1. x # NULL
        BY <1>2, <1>6, <3>2 DEF NULL
      <4>2. ~(n - 1 < k) /\ (n - 1) + 1 = n
        BY <1>2, <3>2
      <4>3. t[n - 1] = s[n]
        BY <1>3, <2>1, <4>2
      <4> QED BY <1>4, <1>7, <4>1, <4>3
    <3> QED BY <3>1, <3>2
  <2>4. PICK m : m = Len(t)
    OBVIOUS
  <2>5. /\ r.first = IF t = <<>> THEN NULL ELSE t[1]
        /\ r.last = IF t = <<>> THEN HEAD ELSE t[m]
        /\ \A i \in 1..m : /\ r.next[t[i]] = IF i = m THEN NULL ELSE t[i + 1]
                           /\ r.prev[t[i]] = IF i = 1 THEN HEAD ELSE t[i - 1]
        /\ \A i, j \in 1..m : t[i] = t[j] => i = j
    <3>1. m = n - 1
      BY <1>3, <2>4
    <3> QED BY <1>9, <1>10, <2>1, <2>2, <2>3, <3>1
  <2> QED BY <2>4, <2>5 DEF Lists
<1> QED BY <1>11, <1>12

\* TAILQ_FOREACH meets the elements of the list in order, then NULL.
LEMMA ForeachLists ==
    ASSUME NEW N \in Nat, NEW q \in Tailqs(0..N), NEW s \in Seq(0..N), Lists(q, s),
           NEW M \in Nat
    PROVE  TAILQ_NTH(q, M) = [n \in 0..M |-> IF n < Len(s) THEN s[n + 1] ELSE NULL]
<1> DEFINE Body(g) == [n \in 0..M |-> IF n = 0 THEN q.first
                                      ELSE IF g[n - 1] = NULL THEN NULL
                                      ELSE q.next[g[n - 1]]]
           f == [n \in 0..M |-> IF n < Len(s) THEN s[n + 1] ELSE NULL]
<1>1. TAILQ_NTH(q, M) = CHOOSE g : g = Body(g)
  BY DEF TAILQ_NTH
<1>2. PICK l \in Nat : l = Len(s)
  OBVIOUS
<1>3. /\ \A i \in 1..l : s[i] \in 0..N /\ s[i] # NULL
      /\ \A i \in 1..l : q.next[s[i]] = IF i = l THEN NULL ELSE s[i + 1]
      /\ q.first = IF l = 0 THEN NULL ELSE s[1]
  <2>1. \A i \in 1..l : s[i] \in 0..N
    BY <1>2
  <2>2. \A i \in 1..l : s[i] # NULL
    BY <2>1 DEF NULL
  <2>3. \A i \in 1..l : q.next[s[i]] = IF i = l THEN NULL ELSE s[i + 1]
    BY <1>2 DEF Lists
  <2>4. q.first = IF l = 0 THEN NULL ELSE s[1]
    <3>1. q.first = IF s = <<>> THEN NULL ELSE s[1]
      BY DEF Lists
    <3>2. s = <<>> <=> l = 0
      BY <1>2
    <3> QED BY <3>1, <3>2
  <2> QED BY <2>1, <2>2, <2>3, <2>4
<1>4. ASSUME NEW n \in 0..M, n # 0
      PROVE  f[n] = IF f[n - 1] = NULL THEN NULL ELSE q.next[f[n - 1]]
  <2>1. n - 1 \in 0..M /\ (n - 1) + 1 = n
    BY <1>4
  <2>2. CASE n - 1 < l
    <3>1. n \in 1..l /\ f[n - 1] = s[n]
      BY <1>2, <1>4, <2>1, <2>2
    <3>2. n < l <=> n # l
      BY <3>1
    <3>3. f[n] = IF n = l THEN NULL ELSE s[n + 1]
      BY <1>2, <3>2
    <3> QED BY <1>3, <3>1, <3>3
  <2>3. CASE ~(n - 1 < l)
    <3>1. ~(n < l)
      BY <1>4, <2>3
    <3> QED BY <1>2, <2>1, <2>3, <3>1
  <2> QED BY <2>2, <2>3
<1>5. 0 \in 0..M /\ f[0] = q.first
  <2>1. 0 < l <=> l # 0
    OBVIOUS
  <2> QED BY <1>2, <1>3, <2>1
<1>6. f = Body(f)
  <2> HIDE DEF f
  <2>1. f = [n \in 0..M |-> f[n]]
    BY DEF f
  <2>2. \A n \in 0..M : f[n] = Body(f)[n]
    BY <1>4, <1>5
  <2> QED BY <2>1, <2>2
<1>7. PICK g : g = TAILQ_NTH(q, M) /\ g = Body(g)
  <2> HIDE DEF f, Body
  <2> QED BY <1>1, <1>6
<1> DEFINE Diff == {n \in 0..M : g[n] # f[n]}
           Less == {ss \in Nat \X Nat : ss[1] < ss[2]}
<1>8. Diff = {}
  <2>1. SUFFICES ASSUME Diff # {} PROVE FALSE
    OBVIOUS
  <2>2. PICK m \in Diff : \A y \in Diff : ~(<<y, m>> \in Less)
    <3>1. Diff \subseteq Nat
      OBVIOUS
    <3>2. IsWellFoundedOn(Less, Nat)
      BY NatLessThanWellFounded, Zenon DEF OpToRel
    <3> HIDE DEF Diff, Less
    <3> QED BY <2>1, <3>1, <3>2, WFMin
  <2> HIDE DEF f
  <2>3. m \in 0..M /\ g[m] # f[m]
    OBVIOUS
  <2>4. m # 0
    BY <1>5, <1>7, <2>3
  <2>5. m - 1 \in 0..M /\ m - 1 < m
    BY <2>3, <2>4
  <2>6. g[m - 1] = f[m - 1]
    <3>1. SUFFICES ASSUME g[m - 1] # f[m - 1] PROVE FALSE
      OBVIOUS
    <3>2. PICK y : y = m - 1
      OBVIOUS
    <3>3. y \in Diff /\ y \in Nat /\ m \in Nat /\ y < m
      BY <2>3, <2>5, <3>1, <3>2
    <3>4. <<y, m>> \in Less
      BY <3>3
    <3> HIDE DEF Diff, Less
    <3> QED BY <2>2, <3>3, <3>4
  <2>7. g[m] = IF g[m - 1] = NULL THEN NULL ELSE q.next[g[m - 1]]
    BY <1>7, <2>3, <2>4
  <2> QED BY <1>4, <2>3, <2>4, <2>6, <2>7
<1>9. g = [n \in 0..M |-> g[n]]
  BY <1>7
<1>10. g = f
  <2> HIDE DEF f
  <2>1. \A n \in 0..M : g[n] = f[n]
    BY <1>8
  <2>2. f = [n \in 0..M |-> f[n]]
    BY DEF f
  <2> QED BY <1>9, <2>1, <2>2
<1> QED BY <1>7, <1>10

\* So the traversal returns the list, if it is not cut off.
LEMMA SeqLists ==
    ASSUME NEW N \in Nat, NEW q \in Tailqs(0..N), NEW s \in Seq(0..N), Lists(q, s),
           NEW M \in Nat, Len(s) <= M
    PROVE  TAILQ_SEQ(q, M) = s
<1>1. PICK l \in Nat : l = Len(s)
  OBVIOUS
<1>2. PICK nth : nth = TAILQ_NTH(q, M)
  OBVIOUS
<1>3. nth = [n \in 0..M |-> IF n < l THEN s[n + 1] ELSE NULL]
  BY <1>1, <1>2, ForeachLists
<1>4. \A i \in 1..l : s[i] # NULL
  BY <1>1 DEF NULL
<1>5. l \in 0..M /\ nth[l] = NULL /\ \A m \in 0..(l - 1) : nth[m] # NULL
  <2>1. l \in 0..M /\ ~(l < l)
    BY <1>1
  <2>2. ASSUME NEW m \in 0..(l - 1) PROVE nth[m] # NULL
    <3>1. m \in 0..M /\ m < l /\ m + 1 \in 1..l
      BY <2>1
    <3> QED BY <1>3, <1>4, <3>1
  <2> QED BY <1>3, <2>1, <2>2
<1> DEFINE P(n) == \/ nth[n] = NULL /\ \A m \in 0..(n - 1) : nth[m] # NULL
                   \/ n = M /\ \A m \in 0..M : nth[m] # NULL
<1>6. ASSUME NEW n \in 0..M, P(n) PROVE n = l
  <2>1. nth[n] = NULL /\ \A m \in 0..(n - 1) : nth[m] # NULL
    BY <1>5, <1>6
  <2>2. ~(n < l)
    <3>1. n < l => n \in 0..(l - 1)
      OBVIOUS
    <3> QED BY <1>5, <2>1, <3>1
  <2>3. ~(l < n)
    <3>1. l < n => l \in 0..(n - 1)
      OBVIOUS
    <3> QED BY <1>5, <2>1, <3>1
  <2> QED BY <2>2, <2>3
<1>7. (CHOOSE n \in 0..M : P(n)) = l
  <2>1. P(l)
    BY <1>5
  <2> HIDE DEF P
  <2> QED BY <1>5, <1>6, <2>1
<1>8. TAILQ_SEQ(q, M) = [i \in 1..l |-> nth[i - 1]]
  BY <1>2, <1>7 DEF TAILQ_SEQ
<1>9. \A i \in 1..l : nth[i - 1] = s[i]
  <2>1. SUFFICES ASSUME NEW i \in 1..l PROVE nth[i - 1] = s[i]
    OBVIOUS
  <2>2. i - 1 \in 0..M /\ i - 1 < l /\ (i - 1) + 1 = i
    BY <1>5
  <2> QED BY <1>3, <2>2
<1>10. s = [i \in 1..l |-> s[i]]
  BY <1>1
<1> QED BY <1>8, <1>9, <1>10

\* A sequence without repetition is as long as its elements are many.
LEMMA DistinctElements ==
    ASSUME NEW S, IsFiniteSet(S), NEW s \in Seq(S),
           \A i, j \in 1..Len(s) : s[i] = s[j] => i = j
    PROVE  /\ Cardinality({s[i] : i \in 1..Len(s)}) = Len(s)
           /\ Len(s) <= Cardinality(S)
<1>1. PICK n \in Nat : n = Len(s)
  OBVIOUS
<1>2. PICK T : T = {s[i] : i \in 1..n}
  OBVIOUS
<1>3. s \in [1..n -> S] /\ T \in SUBSET S
  BY <1>1, <1>2
<1>4. \A i, j \in 1..n : s[i] = s[j] => i = j
  BY <1>1
<1>5. s \in Bijection(1..n, T)
  <2>1. s \in [1..n -> T]
    BY <1>2, <1>3
  <2>2. \A y \in T : \E i \in 1..n : s[i] = y
    BY <1>2
  <2> QED BY <1>4, <2>1, <2>2 DEF Bijection, Injection, Surjection, IsInjective
<1>6. IsFiniteSet(1..n) /\ Cardinality(1..n) = n
  <2>1. 1 \in Int /\ n \in Int
    OBVIOUS
  <2>2. IsFiniteSet(1..n) /\ Cardinality(1..n) = IF 1 > n THEN 0 ELSE n - 1 + 1
    BY <2>1, FS_Interval
  <2> QED BY <2>2
<1>7. IsFiniteSet(T) /\ Cardinality(T) = n
  BY <1>5, <1>6, FS_Bijection DEF ExistsBijection
<1>8. Cardinality(T) <= Cardinality(S)
  BY <1>3, FS_Subset
<1> QED BY <1>1, <1>2, <1>7, <1>8

\* The macros again, with everything a caller needs of the result.
LEMMA AppendList ==
    ASSUME NEW N \in Nat, NEW q \in Tailqs(0..N), NEW s \in Seq(0..N), Lists(q, s),
           NEW e \in 0..N, e \notin Elements(s)
    PROVE  /\ TAILQ_INSERT_TAIL(q, e) \in Tailqs(0..N)
           /\ TAILQ_INSERT_TAIL(q, e).ok = q.ok
           /\ Append(s, e) \in Seq(0..N)
           /\ Lists(TAILQ_INSERT_TAIL(q, e), Append(s, e))
           /\ Elements(Append(s, e)) = Elements(s) \cup {e}
<1>1. PICK t, r : t = Append(s, e) /\ r = TAILQ_INSERT_TAIL(q, e)
  OBVIOUS
<1>2. r \in Tailqs(0..N) /\ r.ok = q.ok
  <2>1. PICK l : l = q.last
    OBVIOUS
  <2>2. l = HEAD \/ l \in 0..N
    <3>1. CASE s = <<>>
      BY <2>1, <3>1 DEF Lists
    <3>2. CASE s # <<>>
      BY <2>1, <3>2 DEF Lists
    <3> QED BY <3>1, <3>2
  <2>3. CASE l = HEAD
    <3>1. r = [q EXCEPT !.next[e] = NULL, !.prev[e] = HEAD, !.first = e, !.last = e]
      BY <1>1, <2>1, <2>3 DEF TAILQ_INSERT_TAIL, Store, HEAD, NULL, Tailqs
    <3> QED BY <3>1 DEF Tailqs
  <2>4. CASE l \in 0..N
    <3>1. l # HEAD /\ l # NULL
      BY <2>4 DEF HEAD, NULL
    <3>2. PICK v : v = [q EXCEPT !.next[e] = NULL, !.prev[e] = l]
      OBVIOUS
    <3>3. v \in Tailqs(0..N) /\ v.ok = q.ok
      BY <2>4, <3>2 DEF Tailqs
    <3>4. r = [[v EXCEPT !.next[l] = e] EXCEPT !.last = e]
      BY <1>1, <2>1, <3>1, <3>2 DEF TAILQ_INSERT_TAIL, Store
    <3> QED BY <2>4, <3>3, <3>4 DEF Tailqs
  <2> QED BY <2>2, <2>3, <2>4
<1>3. \A i \in 1..Len(s) : s[i] # e
  BY DEF Elements
<1>4. Lists(r, t)
  BY <1>1, <1>3, InsertTailLists
<1>5. PICK n \in Nat : n = Len(s)
  OBVIOUS
<1>6. t \in Seq(0..N) /\ Len(t) = n + 1 /\ t[n + 1] = e /\ \A i \in 1..n : t[i] = s[i]
  BY <1>1, <1>5
<1>7. Elements(t) = Elements(s) \cup {e}
  <2>1. Elements(t) = {t[i] : i \in 1..(n + 1)} /\ Elements(s) = {s[i] : i \in 1..n}
    BY <1>5, <1>6 DEF Elements
  <2>2. \A i \in 1..(n + 1) : i = n + 1 \/ i \in 1..n
    OBVIOUS
  <2>3. \A i \in 1..n : i \in 1..(n + 1)
    OBVIOUS
  <2>4. n + 1 \in 1..(n + 1)
    OBVIOUS
  <2> QED BY <1>6, <2>1, <2>2, <2>3, <2>4
<1> QED BY <1>1, <1>2, <1>4, <1>6, <1>7

\* env_create: a new first element.
LEMMA PrependList ==
    ASSUME NEW N \in Nat, NEW q \in Tailqs(0..N), NEW s \in Seq(0..N), Lists(q, s),
           NEW e \in 0..N, e \notin Elements(s)
    PROVE  /\ <<e>> \o s \in Seq(0..N)
           /\ Lists(TAILQ_INSERT_HEAD(q, e), <<e>> \o s)
           /\ Elements(<<e>> \o s) = Elements(s) \cup {e}
<1>1. \A i \in 1..Len(s) : s[i] # e
  BY DEF Elements
<1>2. PICK t : t = <<e>> \o s
  OBVIOUS
<1>3. Lists(TAILQ_INSERT_HEAD(q, e), t)
  BY <1>1, <1>2, InsertHeadLists
<1>4. PICK n \in Nat : n = Len(s)
  OBVIOUS
<1>5. t \in Seq(0..N) /\ Len(t) = n + 1 /\ t[1] = e /\ \A i \in 1..n : t[i + 1] = s[i]
  BY <1>2, <1>4
<1>6. Elements(t) = {t[i] : i \in 1..(n + 1)} /\ Elements(s) = {s[i] : i \in 1..n}
  BY <1>4, <1>5 DEF Elements
<1>7. \A y \in Elements(t) : y \in Elements(s) \cup {e}
  <2>1. SUFFICES ASSUME NEW i \in 1..(n + 1) PROVE t[i] \in Elements(s) \cup {e}
    BY <1>6
  <2>2. CASE i = 1
    BY <1>5, <2>2
  <2>3. CASE i # 1
    <3>1. PICK j \in 1..n : j = i - 1 /\ j + 1 = i
      BY <2>3
    <3>2. t[i] = s[j]
      BY <1>5, <3>1
    <3> QED BY <1>6, <3>2
  <2> QED BY <2>2, <2>3
<1>8. \A y \in Elements(s) : y \in Elements(t)
  <2>1. SUFFICES ASSUME NEW i \in 1..n PROVE s[i] \in Elements(t)
    BY <1>6
  <2>2. t[i + 1] = s[i] /\ i + 1 \in 1..(n + 1)
    BY <1>5
  <2> QED BY <1>6, <2>2
<1>9. e \in Elements(t)
  <2>1. 1 \in 1..(n + 1)
    OBVIOUS
  <2> QED BY <1>5, <1>6, <2>1
<1>10. Elements(t) = Elements(s) \cup {e}
  BY <1>7, <1>8, <1>9
<1> QED BY <1>2, <1>3, <1>5, <1>10

\* An environment that blocks or dies.
LEMMA RemoveList ==
    ASSUME NEW N \in Nat, NEW q \in Tailqs(0..N), NEW s \in Seq(0..N), Lists(q, s),
           NEW k \in 1..Len(s)
    PROVE  /\ TAILQ_REMOVE(q, s[k]) \in Tailqs(0..N)
           /\ TAILQ_REMOVE(q, s[k]).ok = q.ok
           /\ Without(s, k) \in Seq(0..N)
           /\ Lists(TAILQ_REMOVE(q, s[k]), Without(s, k))
           /\ Elements(Without(s, k)) = Elements(s) \ {s[k]}
<1>0. PICK e, r, t : e = s[k] /\ r = TAILQ_REMOVE(q, e) /\ t = Without(s, k)
  OBVIOUS
<1>1. r \in Tailqs(0..N) /\ r.ok = q.ok
  <2>1. Elements(s) \in SUBSET (0..N) /\ e \in Elements(s)
    BY <1>0 DEF Elements
  <2>2. Linked(q, Elements(s))
    BY ListsLinked
  <2>3. q.prev[e] # NULL /\ q.next[e] # e /\ e \in 0..N
    <3>1. \A x \in Elements(s) : x # NULL
      BY <2>1 DEF NULL
    <3>2. q.prev[e] = HEAD \/ q.prev[e] \in Elements(s)
      BY <2>1, <2>2 DEF Linked
    <3>3. q.prev[e] # NULL
      BY <3>1, <3>2 DEF HEAD, NULL
    <3>4. PICK n \in Nat : n = Len(s)
      OBVIOUS
    <3>5. k \in 1..n /\ (k # n => k + 1 \in 1..n /\ k + 1 # k)
      BY <3>4
    <3>6. q.next[e] = IF k = n THEN NULL ELSE s[k + 1]
      BY <1>0, <3>4 DEF Lists
    <3>7. k # n => s[k + 1] # s[k]
      BY <3>4, <3>5 DEF Lists
    <3> QED BY <1>0, <2>1, <3>1, <3>3, <3>6, <3>7
  <2>4. PICK p, x : p = q.prev[e] /\ x = q.next[e]
    OBVIOUS
  <2>5. p \in (0..N) \cup {HEAD} /\ x \in (0..N) \cup {NULL} /\ x # e
    BY <2>3, <2>4 DEF Tailqs
  <2>6. PICK v : v = IF x # NULL THEN [q EXCEPT !.prev[x] = p] ELSE [q EXCEPT !.last = p]
    OBVIOUS
  <2>7. v \in Tailqs(0..N) /\ v.ok = q.ok /\ v.prev[e] = p /\ v.next[e] = x
    <3>1. CASE x = NULL
      BY <2>3, <2>4, <2>5, <2>6, <3>1 DEF Tailqs
    <3>2. CASE x # NULL
      BY <2>3, <2>4, <2>5, <2>6, <3>2 DEF Tailqs
    <3> QED BY <3>1, <3>2
  <2>8. r = IF p = HEAD THEN [v EXCEPT !.first = x] ELSE [v EXCEPT !.next[p] = x]
    <3>1. r = Store(v, v.prev[e], v.next[e])
      BY <1>0, <2>4, <2>6 DEF TAILQ_REMOVE
    <3>2. p # NULL
      BY <2>3, <2>4
    <3> QED BY <2>7, <3>1, <3>2 DEF Store
  <2>9. CASE p = HEAD
    BY <2>5, <2>7, <2>8, <2>9 DEF Tailqs
  <2>10. CASE p # HEAD
    BY <2>5, <2>7, <2>8, <2>10 DEF Tailqs
  <2> QED BY <2>9, <2>10
<1>2. Lists(r, t)
  BY <1>0, RemoveLists
<1>3. PICK n \in Nat : n = Len(s)
  OBVIOUS
<1>4. /\ t \in Seq(0..N) /\ Len(t) = n - 1
      /\ \A i \in 1..(n - 1) : t[i] = IF i < k THEN s[i] ELSE s[i + 1]
  <2>1. /\ t \in Seq(0..N) /\ Len(t) = Len(s) - 1
        /\ \A i \in 1..(Len(s) - 1) : t[i] = IF i < k THEN s[i] ELSE s[i + 1]
    BY <1>0, WithoutElement, Zenon
  <2> QED BY <1>3, <2>1
<1>5. \A i, j \in 1..n : s[i] = s[j] => i = j
  BY <1>3 DEF Lists
<1>6. Elements(t) = {t[i] : i \in 1..(n - 1)} /\ Elements(s) = {s[i] : i \in 1..n} /\ k \in 1..n
  BY <1>3, <1>4 DEF Elements
<1>7. \A i \in 1..(n - 1) : \E j \in 1..n : j # k /\ t[i] = s[j]
  <2>1. SUFFICES ASSUME NEW i \in 1..(n - 1) PROVE \E j \in 1..n : j # k /\ t[i] = s[j]
    OBVIOUS
  <2>2. CASE i < k
    <3>1. i \in 1..n /\ i # k
      BY <1>6, <2>2
    <3> QED BY <1>4, <2>2, <3>1
  <2>3. CASE ~(i < k)
    <3>1. i + 1 \in 1..n /\ i + 1 # k
      BY <1>6, <2>3
    <3> QED BY <1>4, <2>3, <3>1
  <2> QED BY <2>2, <2>3
<1>8. \A j \in 1..n : j # k => \E i \in 1..(n - 1) : t[i] = s[j]
  <2>1. SUFFICES ASSUME NEW j \in 1..n, j # k PROVE \E i \in 1..(n - 1) : t[i] = s[j]
    OBVIOUS
  <2>2. CASE j < k
    <3>1. j \in 1..(n - 1)
      BY <1>6, <2>2
    <3> QED BY <1>4, <2>2, <3>1
  <2>3. CASE ~(j < k)
    <3>1. j - 1 \in 1..(n - 1) /\ ~(j - 1 < k) /\ (j - 1) + 1 = j
      BY <1>6, <2>1, <2>3
    <3> QED BY <1>4, <3>1
  <2> QED BY <2>2, <2>3
<1>9. Elements(t) = Elements(s) \ {e}
  <2>1. \A y \in Elements(t) : y \in Elements(s) /\ y # e
    <3>1. SUFFICES ASSUME NEW i \in 1..(n - 1) PROVE t[i] \in Elements(s) /\ t[i] # e
      BY <1>6
    <3>2. PICK j \in 1..n : j # k /\ t[i] = s[j]
      BY <1>7
    <3>3. s[j] # s[k]
      BY <1>5, <1>6, <3>2
    <3> QED BY <1>0, <1>6, <3>2, <3>3
  <2>2. \A y \in Elements(s) : y # e => y \in Elements(t)
    <3>1. SUFFICES ASSUME NEW j \in 1..n, s[j] # e PROVE s[j] \in Elements(t)
      BY <1>6
    <3>2. PICK i \in 1..(n - 1) : t[i] = s[j]
      BY <1>0, <1>8, <3>1
    <3> QED BY <1>6, <3>2
  <2> QED BY <2>1, <2>2
<1> QED BY <1>0, <1>1, <1>2, <1>4, <1>9

\* The rotation of schedule: the first element becomes the last.
LEMMA RotateList ==
    ASSUME NEW N \in Nat, NEW q \in Tailqs(0..N), NEW s \in Seq(0..N), Lists(q, s),
           s # <<>>, NEW e \in 0..N, e = s[1]
    PROVE  /\ TAILQ_INSERT_TAIL(TAILQ_REMOVE(q, e), e) \in Tailqs(0..N)
           /\ TAILQ_INSERT_TAIL(TAILQ_REMOVE(q, e), e).ok = q.ok
           /\ Append(Tail(s), e) \in Seq(0..N)
           /\ Lists(TAILQ_INSERT_TAIL(TAILQ_REMOVE(q, e), e), Append(Tail(s), e))
           /\ Elements(Append(Tail(s), e)) = Elements(s)
<1>1. PICK k \in 1..Len(s) : k = 1
  OBVIOUS
<1>2. PICK u, v : u = Without(s, k) /\ v = TAILQ_REMOVE(q, e)
  OBVIOUS
<1>3. e = s[k] /\ Tail(s) = u
  <2>1. Tail(s) = Without(s, 1)
    BY TailIsWithout
  <2> QED BY <1>1, <1>2, <2>1
<1>4. /\ v \in Tailqs(0..N) /\ v.ok = q.ok
      /\ u \in Seq(0..N) /\ Lists(v, u) /\ Elements(u) = Elements(s) \ {e}
  <2>1. /\ TAILQ_REMOVE(q, s[k]) \in Tailqs(0..N)
        /\ TAILQ_REMOVE(q, s[k]).ok = q.ok
        /\ Without(s, k) \in Seq(0..N)
        /\ Lists(TAILQ_REMOVE(q, s[k]), Without(s, k))
        /\ Elements(Without(s, k)) = Elements(s) \ {s[k]}
    BY RemoveList
  <2> QED BY <1>2, <1>3, <2>1
<1>5. e \in 0..N /\ e \notin Elements(u) /\ e \in Elements(s)
  <2>1. e \in 0..N /\ e \in Elements(s)
    BY <1>3 DEF Elements
  <2> QED BY <1>4, <2>1
<1>7. /\ TAILQ_INSERT_TAIL(v, e) \in Tailqs(0..N)
      /\ TAILQ_INSERT_TAIL(v, e).ok = v.ok
      /\ Append(u, e) \in Seq(0..N)
      /\ Lists(TAILQ_INSERT_TAIL(v, e), Append(u, e))
      /\ Elements(Append(u, e)) = Elements(u) \cup {e}
  BY <1>4, <1>5, AppendList
<1>8. Elements(u) \cup {e} = Elements(s)
  BY <1>4, <1>5
<1> QED BY <1>2, <1>3, <1>4, <1>7, <1>8

-------------------------------------------------------------------------------
\* The scheduler.

N == NENV - 1

\* The slots on the free list are free, and no slot is on it twice.
FreeInv ==
    \A i, j \in 1..Len(env_free_list) :
        /\ env_status[env_free_list[i]] = "FREE"
        /\ env_free_list[i] = env_free_list[j] => i = j

\* The running process is the head of the list; during boot nothing runs.
CurInv ==
    /\ sched.ok /\ curenv # NULL => curenv = sched.first
    /\ boot > 0 => curenv = NULL /\ sched.ok

\* LinkInv alone admits a cycle of links that the head does not reach; with
\* Acyclic a list with a RUNNABLE environment has a first element.
IInv ==
    /\ TypeOK
    /\ LinkInv
    /\ sched.ok => Acyclic(sched, Runnable, N)
    /\ PanicOnlyWhenIdle
    /\ ReceivingIsBlocked
    /\ FreeInv
    /\ CurInv

\* The slots are the numbers up to N, the domain of the lemmas on Tailq.
LEMMA NType == N \in Nat /\ Env = 0..N
BY SizeAssumption DEF N, Env

\* env_init establishes the invariant: no environment, an empty queue.
LEMMA InitIInv == Init => IInv
<1> SUFFICES ASSUME Init PROVE IInv
  OBVIOUS
<1> USE SizeAssumption, NType
<1>1. TypeOK
  <2>1. sched \in Tailqs(Env)
    BY DEF Init, TAILQ_INIT, Tailqs
  <2>2. env_asid \in [Env -> Asid]
    BY DEF Init, Asid
  <2>3. env_free_list \in Seq(Env)
    BY DEF Init, N
  <2>4. env_ran \in [Env -> BOOLEAN] /\ env_ipc_recving \in [Env -> BOOLEAN]
    BY DEF Init
  <2>5. boot \in Nat /\ gen \in Nat /\ count \in Nat
    BY DEF Init
  <2>6. /\ env_status \in [Env -> {"FREE", "RUNNABLE", "NOT_RUNNABLE"}]
        /\ env_id \in [Env -> Nat]
        /\ env_parent_id \in [Env -> Nat]
        /\ env_pri \in [Env -> Nat]
    BY DEF Init
  <2> QED BY <2>1, <2>2, <2>3, <2>4, <2>5, <2>6 DEF Init, TypeOK
<1>2. Runnable = {}
  BY DEF Init, Runnable
<1>3. LinkInv /\ Acyclic(sched, Runnable, N)
  <2>1. sched.first = NULL /\ sched.last = HEAD
    BY DEF Init, TAILQ_INIT
  <2>2. [x \in 0..N |-> 0] \in [0..N -> Nat]
    OBVIOUS
  <2> QED BY <1>2, <2>1, <2>2 DEF LinkInv, Linked, Acyclic
<1>4. PanicOnlyWhenIdle /\ ReceivingIsBlocked /\ CurInv
  BY <1>2 DEF Init, PanicOnlyWhenIdle, ReceivingIsBlocked, CurInv, TAILQ_INIT
<1>5. FreeInv
  BY DEF Init, FreeInv, N
<1> QED BY <1>1, <1>3, <1>4, <1>5 DEF IInv

\* schedule dispatches the head of the queue it is given, and halts the kernel
\* only if that queue links nothing.
LEMMA ScheduleCorrect ==
    ASSUME TypeOK,
           NEW st \in [Env -> {"FREE", "RUNNABLE", "NOT_RUNNABLE"}],
           NEW R, R = {x \in Env : st[x] = "RUNNABLE"},
           NEW q \in Tailqs(Env), q.ok, Linked(q, R), Acyclic(q, R, N),
           NEW e \in Env \cup {NULL},
           e # NULL /\ st[e] = "RUNNABLE" => e = q.first,
           NEW ran \in [Env -> BOOLEAN],
           NEW yield \in BOOLEAN,
           schedule(yield, e, st, q, ran)
    PROVE  /\ sched' \in Tailqs(Env)
           /\ curenv' \in Env \cup {NULL}
           /\ count' \in Nat
           /\ env_ran' \in [Env -> BOOLEAN]
           /\ sched'.ok => /\ Linked(sched', R)
                           /\ Acyclic(sched', R, N)
                           /\ curenv' = sched'.first
           /\ ~sched'.ok => R = {}
<1> DEFINE drop == e = NULL \/ st[e] # "RUNNABLE"
           rotate == ~drop /\ (yield \/ count - 1 <= 0)
           q1 == TAILQ_REMOVE(q, e)
           q2 == IF rotate THEN TAILQ_INSERT_TAIL(q1, e) ELSE q
           n == IF drop \/ rotate THEN q2.first ELSE e
           runs == q2.ok /\ n # NULL /\ st[n] = "RUNNABLE"
<1> USE NType
<1>1. /\ sched' = [q2 EXCEPT !.ok = runs]
      /\ curenv' = IF runs THEN n ELSE e
      /\ count' = IF ~runs THEN count
                  ELSE IF drop \/ rotate THEN env_pri[n] ELSE count - 1
      /\ env_ran' = IF runs THEN [ran EXCEPT ![n] = TRUE] ELSE ran
  BY DEF schedule, slices
<1>2. R \in SUBSET (0..N)
  OBVIOUS
<1>3. q2 \in Tailqs(0..N) /\ q2.ok /\ Linked(q2, R) /\ Acyclic(q2, R, N)
  <2>1. CASE rotate
    <3>1. e \in R
      BY <2>1
    <3>2. q1 \in Tailqs(0..N) /\ q1.ok /\ Linked(q1, R \ {e})
      <4> HIDE DEF drop, rotate, q2, n, runs
      <4>1. q1 \in Tailqs(0..N) /\ q1.ok = q.ok /\ Linked(q1, R \ {e})
        BY <1>2, <3>1, RemoveLinks
      <4> QED BY <4>1
    <3>3. Acyclic(q1, R \ {e}, N)
      BY <1>2, <3>1, RemoveAcyclic
    <3>4. (R \ {e}) \cup {e} = R /\ e \in (0..N) \ (R \ {e})
      BY <1>2, <3>1
    <3> HIDE DEF q1
    <3>5. /\ TAILQ_INSERT_TAIL(q1, e) \in Tailqs(0..N)
          /\ TAILQ_INSERT_TAIL(q1, e).ok = q1.ok
          /\ Linked(TAILQ_INSERT_TAIL(q1, e), (R \ {e}) \cup {e})
      BY <1>2, <3>2, <3>4, InsertTailLinks
    <3>6. Acyclic(TAILQ_INSERT_TAIL(q1, e), (R \ {e}) \cup {e}, N)
      BY <1>2, <3>2, <3>3, <3>4, InsertTailAcyclic
    <3> QED BY <2>1, <3>2, <3>4, <3>5, <3>6
  <2>2. CASE ~rotate
    BY <2>2
  <2> QED BY <2>1, <2>2
<1>4. n \in Env \cup {NULL} /\ (n # NULL => n \in R /\ n = q2.first)
  <2>1. CASE drop \/ rotate
    BY <1>3, <2>1 DEF Linked, Tailqs
  <2>2. CASE ~(drop \/ rotate)
    BY <2>2
  <2> QED BY <2>1, <2>2
<1>5. runs <=> R # {}
  <2>1. R # {} => q2.first \in R
    BY <1>2, <1>3, NonemptyHasFirst
  <2>2. R # {} => n # NULL
    BY <2>1, <1>2 DEF NULL
  <2> HIDE DEF n, q2
  <2> QED BY <1>3, <1>4, <2>2
<1> HIDE DEF n, q2, runs
<1>6. sched' = [first |-> q2.first, last |-> q2.last, ok |-> runs, next |-> q2.next, prev |-> q2.prev]
  BY <1>1, <1>3 DEF Tailqs
<1>7. sched' \in Tailqs(Env)
  <2>1. runs \in BOOLEAN
    BY DEF runs
  <2> QED BY <1>3, <1>6, <2>1 DEF Tailqs
<1>8. Linked(sched', R) /\ Acyclic(sched', R, N)
  BY <1>3, <1>6, ZenonT(40) DEF Linked, Acyclic
<1>9. curenv' \in Env \cup {NULL} /\ env_ran' \in [Env -> BOOLEAN]
  BY <1>1, <1>4
<1>10. count' \in Nat
  <2>1. count \in Nat /\ (runs => env_pri[n] \in Nat)
    BY <1>4 DEF TypeOK, runs
  <2>2. ~(drop \/ rotate) => count - 1 > 0
    BY <2>1
  <2> QED BY <1>1, <2>1, <2>2
<1>11. runs => curenv' = sched'.first
  BY <1>1, <1>4, <1>6 DEF runs
<1> QED BY <1>5, <1>6, <1>7, <1>8, <1>9, <1>10, <1>11

-----------------------------------------------------------------------------
\* The invariant does not mention the variables of a step that leaves these
\* alone.
LEMMA StutterIInv ==
    ASSUME IInv, polling' \in BOOLEAN,
           UNCHANGED <<env_status, env_id, env_parent_id, env_asid, env_pri, env_ran,
                       env_ipc_recving, env_free_list, sched, curenv, count, asid_used,
                       gen, boot>>
    PROVE  IInv'
<1>1. TypeOK'
  BY DEF IInv, TypeOK
<1>2. Runnable' = Runnable
  BY DEF Runnable
<1>3. LinkInv' /\ (sched'.ok => Acyclic(sched, Runnable, N)')
  BY <1>2 DEF IInv, LinkInv, Linked, Acyclic
<1>4. PanicOnlyWhenIdle' /\ ReceivingIsBlocked'
  BY <1>2 DEF IInv, PanicOnlyWhenIdle, ReceivingIsBlocked
<1>5. FreeInv' /\ CurInv'
  BY DEF IInv, FreeInv, CurInv
<1> QED BY <1>1, <1>3, <1>4, <1>5 DEF IInv

\* A process names itself or a slot in use.
LEMMA EnvidNamesLive ==
    ASSUME IInv, InUserMode, NEW id \in EnvIds, NEW checkperm \in BOOLEAN,
           NEW e, e = envid2env(id, checkperm), e # NULL
    PROVE  e \in Env /\ env_status[e] # "FREE"
<1>1. curenv \in Runnable /\ curenv \in Env
  BY DEF IInv, InUserMode, CurenvRuns, CurInv, LinkInv, Linked, Runnable
<1>2. id \in Nat
  BY DEF IInv, TypeOK, EnvIds
<1>3. CASE id = 0
  BY <1>1, <1>3 DEF envid2env, Runnable
<1>4. CASE id # 0
  <2>1. id % NENV \in Env
    BY <1>2, SizeAssumption DEF Env
  <2>2. e = id % NENV /\ env_status[e] # "FREE"
    BY <1>4 DEF envid2env
  <2> QED BY <2>1, <2>2
<1> QED BY <1>3, <1>4

\* A slot that gets a new id.
LEMMA AllocIdType ==
    ASSUME TypeOK, NEW e \in Env, env_alloc_id(e)
    PROVE  env_id' \in [Env -> Nat] /\ gen' \in Nat /\ env_ran' \in [Env -> BOOLEAN]
<1>1. gen' \in Nat /\ gen' = gen + 1
  BY DEF env_alloc_id, TypeOK
<1>2. \A i, j \in Nat : i * j \in Nat
  OBVIOUS
<1>3. mkenvid(gen + 1, e) \in Nat
  <2>1. (gen + 1) * NENV \in Nat
    BY <1>1, <1>2, SizeAssumption
  <2> QED BY <2>1, SizeAssumption DEF mkenvid, Env
<1> QED BY <1>1, <1>3 DEF env_alloc_id, TypeOK

\* Taking the first slot off the free list.
LEMMA FreeHead ==
    ASSUME IInv, env_free_list # <<>>, NEW e, e = Head(env_free_list)
    PROVE  /\ e \in Env /\ env_status[e] = "FREE" /\ e \notin Runnable
           /\ ~env_ipc_recving[e] \/ ~sched.ok
           /\ Tail(env_free_list) \in Seq(Env)
           /\ \A i, j \in 1..Len(Tail(env_free_list)) :
                 /\ Tail(env_free_list)[i] \in Env
                 /\ env_status[Tail(env_free_list)[i]] = "FREE"
                 /\ Tail(env_free_list)[i] # e
                 /\ Tail(env_free_list)[i] = Tail(env_free_list)[j] => i = j
<1>1. env_free_list \in Seq(Env) /\ Len(env_free_list) > 0
  BY DEF IInv, TypeOK
<1>2. e = env_free_list[1] /\ e \in Env /\ env_status[e] = "FREE"
  BY <1>1 DEF IInv, FreeInv
<1>3. /\ Tail(env_free_list) \in Seq(Env)
      /\ Len(Tail(env_free_list)) = Len(env_free_list) - 1
      /\ \A i \in 1..Len(Tail(env_free_list)) : Tail(env_free_list)[i] = env_free_list[i + 1]
  BY <1>1
<1>4. \A i, j \in 1..Len(Tail(env_free_list)) :
         /\ Tail(env_free_list)[i] \in Env
         /\ env_status[Tail(env_free_list)[i]] = "FREE"
         /\ Tail(env_free_list)[i] # e
         /\ Tail(env_free_list)[i] = Tail(env_free_list)[j] => i = j
  BY <1>1, <1>2, <1>3 DEF IInv, FreeInv
<1> QED BY <1>2, <1>3, <1>4 DEF IInv, ReceivingIsBlocked, Runnable

\* Both dispatches that leave the statuses alone: a time slice, and a yield.
LEMMA DispatchIInv ==
    ASSUME IInv, sched.ok, boot = 0, NEW yield \in BOOLEAN,
           schedule(yield, curenv, env_status, sched, env_ran),
           UNCHANGED <<env_status, env_id, env_parent_id, env_asid, env_pri,
                       env_ipc_recving, env_free_list, asid_used, gen, boot, polling>>
    PROVE  IInv'
<1>1. TypeOK /\ Linked(sched, Runnable) /\ Acyclic(sched, Runnable, N)
  BY DEF IInv, LinkInv
<1>2. /\ sched' \in Tailqs(Env)
      /\ curenv' \in Env \cup {NULL}
      /\ count' \in Nat
      /\ env_ran' \in [Env -> BOOLEAN]
      /\ sched'.ok => /\ Linked(sched', Runnable)
                      /\ Acyclic(sched', Runnable, N)
                      /\ curenv' = sched'.first
      /\ ~sched'.ok => Runnable = {}
  <2>1. curenv # NULL => curenv = sched.first
    BY DEF IInv, CurInv
  <2>2. /\ env_status \in [Env -> {"FREE", "RUNNABLE", "NOT_RUNNABLE"}]
        /\ sched \in Tailqs(Env) /\ curenv \in Env \cup {NULL}
        /\ env_ran \in [Env -> BOOLEAN]
    BY <1>1 DEF TypeOK
  <2> QED BY <1>1, <2>1, <2>2, ScheduleCorrect DEF Runnable
<1>3. TypeOK'
  BY <1>1, <1>2 DEF TypeOK
<1>4. Runnable' = Runnable
  BY DEF Runnable
<1>5. LinkInv' /\ (sched'.ok => Acyclic(sched, Runnable, N)') /\ PanicOnlyWhenIdle'
  BY <1>2, <1>4 DEF LinkInv, PanicOnlyWhenIdle
<1>6. ReceivingIsBlocked' /\ FreeInv'
  BY DEF IInv, ReceivingIsBlocked, FreeInv
<1>7. CurInv'
  BY <1>2 DEF CurInv
<1> QED BY <1>3, <1>5, <1>6, <1>7 DEF IInv

\* env_create at boot puts a slot off the free list in front of the queue.
LEMMA CreateIInv ==
    ASSUME IInv, NEW p \in Priorities, env_create(p)
    PROVE  IInv'
<1>1. boot > 0 /\ boot \in Nat /\ curenv = NULL /\ sched.ok
  BY DEF env_create, IInv, TypeOK, CurInv
<1>2. PICK e \in Env :
         /\ env_alloc(e, 0)
         /\ env_pri' = [env_pri EXCEPT ![e] = p]
         /\ env_status' = [env_status EXCEPT ![e] = "RUNNABLE"]
         /\ sched' = TAILQ_INSERT_HEAD(sched, e)
  BY DEF env_create
<1>3. env_free_list # <<>> /\ e = Head(env_free_list) /\ env_free_list' = Tail(env_free_list)
  BY <1>2 DEF env_alloc, env_alloc_id
<1>4. /\ e \notin Runnable
      /\ env_free_list' \in Seq(Env)
      /\ \A i, j \in 1..Len(env_free_list') :
            /\ env_free_list'[i] \in Env
            /\ env_status[env_free_list'[i]] = "FREE"
            /\ env_free_list'[i] # e
            /\ env_free_list'[i] = env_free_list'[j] => i = j
  BY <1>3, FreeHead
<1>4a. ~env_ipc_recving[e]
  BY <1>1, <1>3, FreeHead
<1>5. UNCHANGED <<env_ipc_recving, curenv, count, polling>> /\ boot' = boot - 1
  BY DEF env_create
<1>6. /\ sched \in Tailqs(0..N) /\ Linked(sched, Runnable) /\ Acyclic(sched, Runnable, N)
      /\ Runnable \in SUBSET (0..N)
  BY <1>1, NType DEF IInv, TypeOK, LinkInv, Runnable
<1>7. Runnable' = Runnable \cup {e}
  BY <1>2 DEF IInv, TypeOK, Runnable
<1>8. sched' \in Tailqs(0..N) /\ sched'.ok /\ Linked(sched', Runnable')
  BY <1>1, <1>2, <1>4, <1>6, <1>7, NType, InsertHeadLinks
<1>9. Acyclic(sched', Runnable', N)
  BY <1>2, <1>4, <1>6, <1>7, NType, InsertHeadAcyclic
<1>10. TypeOK'
  <2>1. /\ env_id' \in [Env -> Nat] /\ gen' \in Nat
        /\ env_ran' \in [Env -> BOOLEAN]
        /\ env_parent_id' \in [Env -> Nat]
    <3>1. TypeOK /\ env_alloc_id(e)
      BY <1>2 DEF env_alloc, IInv
    <3>2. env_parent_id' \in [Env -> Nat]
      BY <1>2 DEF env_alloc, IInv, TypeOK
    <3> QED BY <3>1, <3>2, AllocIdType
  <2>2. env_asid' \in [Env -> Asid] /\ asid_used' \subseteq Asid
    BY <1>2 DEF env_alloc, IInv, TypeOK
  <2>3. env_pri' \in [Env -> Nat] /\ env_status' \in [Env -> {"FREE", "RUNNABLE", "NOT_RUNNABLE"}]
    BY <1>2, SizeAssumption DEF IInv, TypeOK
  <2>4. boot' \in Nat
    BY <1>1, <1>5
  <2> QED BY <1>4, <1>5, <1>8, <2>1, <2>2, <2>3, <2>4, NType DEF IInv, TypeOK
<1>11. LinkInv' /\ PanicOnlyWhenIdle'
  BY <1>8 DEF LinkInv, PanicOnlyWhenIdle
<1>12. ReceivingIsBlocked'
  BY <1>1, <1>2, <1>4a, <1>5 DEF IInv, TypeOK, ReceivingIsBlocked
<1>13. FreeInv'
  BY <1>2, <1>4 DEF IInv, TypeOK, FreeInv
<1>14. CurInv'
  BY <1>1, <1>5, <1>8 DEF CurInv
<1> QED BY <1>9, <1>10, <1>11, <1>12, <1>13, <1>14 DEF IInv

\* sys_exofork takes a slot that stays off the queue.
LEMMA ExoforkIInv ==
    ASSUME IInv, sys_exofork
    PROVE  IInv'
<1>1. sched.ok /\ boot = 0 /\ curenv \in Env
  BY DEF sys_exofork, InUserMode, CurenvRuns, IInv, TypeOK
<1>2. PICK e \in Env :
         /\ env_alloc(e, env_id[curenv])
         /\ env_status' = [env_status EXCEPT ![e] = "NOT_RUNNABLE"]
         /\ env_pri' = [env_pri EXCEPT ![e] = env_pri[curenv]]
  BY DEF sys_exofork
<1>3. env_free_list # <<>> /\ e = Head(env_free_list) /\ env_free_list' = Tail(env_free_list)
  BY <1>2 DEF env_alloc, env_alloc_id
<1>4. /\ e \notin Runnable
      /\ env_free_list' \in Seq(Env)
      /\ \A i, j \in 1..Len(env_free_list') :
            /\ env_free_list'[i] \in Env
            /\ env_status[env_free_list'[i]] = "FREE"
            /\ env_free_list'[i] # e
            /\ env_free_list'[i] = env_free_list'[j] => i = j
  BY <1>3, FreeHead
<1>5. UNCHANGED <<env_ipc_recving, sched, curenv, count, boot, polling>>
  BY DEF sys_exofork
<1>6. Runnable' = Runnable
  BY <1>2, <1>4 DEF IInv, TypeOK, Runnable
<1>7. TypeOK'
  <2>1. /\ env_id' \in [Env -> Nat] /\ gen' \in Nat
        /\ env_ran' \in [Env -> BOOLEAN]
        /\ env_parent_id' \in [Env -> Nat]
    <3>1. TypeOK /\ env_alloc_id(e)
      BY <1>2 DEF env_alloc, IInv
    <3>2. env_parent_id' \in [Env -> Nat]
      BY <1>1, <1>2 DEF env_alloc, IInv, TypeOK
    <3> QED BY <3>1, <3>2, AllocIdType
  <2>2. env_asid' \in [Env -> Asid] /\ asid_used' \subseteq Asid
    BY <1>2 DEF env_alloc, IInv, TypeOK
  <2>3. env_pri' \in [Env -> Nat] /\ env_status' \in [Env -> {"FREE", "RUNNABLE", "NOT_RUNNABLE"}]
    BY <1>1, <1>2 DEF IInv, TypeOK
  <2> QED BY <1>4, <1>5, <2>1, <2>2, <2>3 DEF IInv, TypeOK
<1>8. LinkInv' /\ (sched'.ok => Acyclic(sched, Runnable, N)') /\ PanicOnlyWhenIdle'
  BY <1>5, <1>6 DEF IInv, LinkInv, PanicOnlyWhenIdle
<1>9. ReceivingIsBlocked'
  BY <1>2, <1>5 DEF IInv, TypeOK, ReceivingIsBlocked
<1>10. FreeInv'
  BY <1>2, <1>4 DEF IInv, TypeOK, FreeInv
<1>11. CurInv'
  BY <1>5 DEF IInv, CurInv
<1> QED BY <1>7, <1>8, <1>9, <1>10, <1>11 DEF IInv

\* sys_exofork that fails for want of an ASID leaves the slot free.
LEMMA ExoforkNoAsidIInv ==
    ASSUME IInv, sys_exofork_no_asid
    PROVE  IInv'
<1>1. PICK e \in Env : env_alloc_id(e)
  BY DEF sys_exofork_no_asid
<1>2. UNCHANGED <<env_status, env_parent_id, env_asid, env_pri, env_ipc_recving,
                  env_free_list, sched, curenv, count, asid_used, boot, polling>>
  BY DEF sys_exofork_no_asid
<1>3. TypeOK'
  <2>1. env_id' \in [Env -> Nat] /\ gen' \in Nat /\ env_ran' \in [Env -> BOOLEAN]
    BY <1>1, AllocIdType DEF IInv
  <2> QED BY <1>2, <2>1 DEF IInv, TypeOK
<1>4. Runnable' = Runnable
  BY <1>2 DEF Runnable
<1> QED BY <1>2, <1>3, <1>4 DEF IInv, LinkInv, PanicOnlyWhenIdle, ReceivingIsBlocked, FreeInv, CurInv

\* sys_set_env_status on a careful target inserts or removes it once.
LEMMA SetStatusIInv ==
    ASSUME IInv, NEW id \in EnvIds, NEW s \in Statuses,
           InUserMode, CarefulStart(id), sys_set_env_status(id, s)
    PROVE  IInv'
<1> DEFINE e == envid2env(id, TRUE)
<1>1. e # NULL /\ e # curenv /\ ~env_ipc_recving[e]
  BY DEF CarefulStart
<1>2. e \in Env /\ env_status[e] # "FREE"
  <2> HIDE DEF e
  <2>1. e = envid2env(id, TRUE)
    BY DEF e
  <2> QED BY <1>1, <2>1, EnvidNamesLive
<1>3. /\ sched' = IF env_status[e] = "RUNNABLE" /\ s = "NOT_RUNNABLE"
                  THEN TAILQ_REMOVE(sched, e)
                  ELSE IF env_status[e] = "NOT_RUNNABLE" /\ s = "RUNNABLE"
                  THEN TAILQ_INSERT_TAIL(sched, e)
                  ELSE sched
      /\ env_status' = [env_status EXCEPT ![e] = s]
      /\ UNCHANGED <<env_id, env_parent_id, env_asid, env_pri, env_ran, env_ipc_recving,
                     env_free_list, curenv, count, asid_used, gen, boot, polling>>
  BY DEF sys_set_env_status
<1>4. sched.ok /\ boot = 0 /\ curenv # NULL
  BY DEF InUserMode, CurenvRuns
<1> HIDE DEF e
<1>5. /\ sched \in Tailqs(0..N) /\ Linked(sched, Runnable) /\ Acyclic(sched, Runnable, N)
      /\ Runnable \in SUBSET (0..N) /\ curenv = sched.first /\ N \in Nat /\ e \in 0..N
  BY <1>2, <1>4, NType DEF IInv, TypeOK, LinkInv, Runnable, CurInv
<1>6. /\ sched' \in Tailqs(0..N) /\ sched'.ok /\ sched'.first = sched.first
      /\ Linked(sched', Runnable') /\ Acyclic(sched', Runnable', N)
  <2>1. CASE env_status[e] = "RUNNABLE" /\ s = "NOT_RUNNABLE"
    <3>1. e \in Runnable /\ Runnable' = Runnable \ {e} /\ sched' = TAILQ_REMOVE(sched, e)
      BY <1>2, <1>3, <2>1 DEF Runnable, IInv, TypeOK
    <3>2. sched' \in Tailqs(0..N) /\ sched'.ok = sched.ok /\ Linked(sched', Runnable \ {e})
      BY <1>5, <3>1, RemoveLinks, SMTT(40)
    <3>3. Acyclic(sched', Runnable \ {e}, N)
      BY <1>5, <3>1, RemoveAcyclic
    <3>4. sched'.first = sched.first
      BY <1>1, <1>5, <3>1, RemoveLinks
    <3> QED BY <1>4, <3>1, <3>2, <3>3, <3>4
  <2>2. CASE env_status[e] = "NOT_RUNNABLE" /\ s = "RUNNABLE"
    <3>1. /\ e \in (0..N) \ Runnable /\ Runnable' = Runnable \cup {e}
          /\ sched' = TAILQ_INSERT_TAIL(sched, e)
      BY <1>2, <1>3, <1>5, <2>2 DEF Runnable, IInv, TypeOK
    <3>2. sched' \in Tailqs(0..N) /\ sched'.ok = sched.ok /\ Linked(sched', Runnable \cup {e})
      BY <1>5, <3>1, InsertTailLinks
    <3>3. Acyclic(sched', Runnable \cup {e}, N)
      BY <1>5, <3>1, InsertTailAcyclic
    <3>4. sched'.first = sched.first
      BY <1>4, <1>5, <3>1, InsertTailLinks, SMTT(40)
    <3> QED BY <1>4, <3>1, <3>2, <3>3, <3>4
  <2>3. CASE env_status[e] = s
    <3>1. Runnable' = Runnable /\ sched' = sched
      BY <1>2, <1>3, <2>3 DEF Runnable, IInv, TypeOK
    <3> QED BY <1>4, <1>5, <3>1
  <2>4. env_status[e] \in Statuses
    BY <1>2 DEF IInv, TypeOK, Statuses
  <2> QED BY <2>1, <2>2, <2>3, <2>4 DEF Statuses
<1>7. TypeOK'
  BY <1>3, <1>6, NType DEF IInv, TypeOK, Statuses
<1>8. LinkInv' /\ PanicOnlyWhenIdle'
  BY <1>6 DEF LinkInv, PanicOnlyWhenIdle
<1>9. ReceivingIsBlocked'
  BY <1>1, <1>3, <1>4 DEF IInv, TypeOK, ReceivingIsBlocked
<1>10. FreeInv'
  <2>1. \A i \in 1..Len(env_free_list) :
           env_free_list[i] \in Env /\ env_free_list[i] # e
    BY <1>2, SMTT(40) DEF IInv, TypeOK, FreeInv
  <2> QED BY <1>2, <1>3, <2>1 DEF IInv, TypeOK, FreeInv
<1>11. CurInv'
  BY <1>3, <1>4, <1>5, <1>6 DEF CurInv
<1> QED BY <1>6, <1>7, <1>8, <1>9, <1>10, <1>11 DEF IInv

\* sys_env_destroy of a runnable process removes it, and dispatches if it was
\* the caller.
LEMMA DestroyIInv ==
    ASSUME IInv, NEW id \in EnvIds, InUserMode, CarefulDestroy(id), sys_env_destroy(id)
    PROVE  IInv'
<1> DEFINE e == envid2env(id, TRUE)
           st == [env_status EXCEPT ![e] = "FREE"]
           q == TAILQ_REMOVE(sched, e)
<1>1. e # NULL /\ env_status[e] = "RUNNABLE"
  BY DEF CarefulDestroy
<1>2. e \in Env
  <2> HIDE DEF e
  <2>1. e = envid2env(id, TRUE)
    BY DEF e
  <2> QED BY <1>1, <2>1, EnvidNamesLive
<1>3. /\ asid_used' = asid_used \ {env_asid[e]}
      /\ env_status' = st
      /\ env_free_list' = <<e>> \o env_free_list
      /\ IF e = curenv
         THEN schedule(TRUE, NULL, st, q, env_ran)
         ELSE sched' = q /\ UNCHANGED <<curenv, count, env_ran>>
      /\ UNCHANGED <<env_id, env_parent_id, env_asid, env_pri, env_ipc_recving, gen, boot, polling>>
  BY DEF sys_env_destroy
<1>4. sched.ok /\ boot = 0 /\ curenv # NULL
  BY DEF InUserMode, CurenvRuns
<1> HIDE DEF e, q, st
<1>5. /\ sched \in Tailqs(0..N) /\ Linked(sched, Runnable) /\ Acyclic(sched, Runnable, N)
      /\ Runnable \in SUBSET (0..N) /\ curenv = sched.first /\ N \in Nat /\ e \in Runnable
  BY <1>1, <1>2, <1>4, NType DEF IInv, TypeOK, LinkInv, Runnable, CurInv
<1>6. /\ Runnable' = Runnable \ {e}
      /\ st \in [Env -> {"FREE", "RUNNABLE", "NOT_RUNNABLE"}]
      /\ Runnable \ {e} = {x \in Env : st[x] = "RUNNABLE"}
  BY <1>2, <1>3 DEF IInv, TypeOK, Runnable, st
<1>7. /\ q \in Tailqs(0..N) /\ q.ok /\ (e # sched.first => q.first = sched.first)
      /\ Linked(q, Runnable \ {e})
  BY <1>4, <1>5, RemoveLinks DEF q
<1>8. Acyclic(q, Runnable \ {e}, N)
  BY <1>5, RemoveAcyclic DEF q
<1>9. /\ sched' \in Tailqs(Env)
      /\ curenv' \in Env \cup {NULL}
      /\ count' \in Nat
      /\ env_ran' \in [Env -> BOOLEAN]
      /\ sched'.ok => /\ Linked(sched', Runnable')
                      /\ Acyclic(sched', Runnable', N)
                      /\ curenv' = sched'.first
      /\ ~sched'.ok => Runnable' = {}
  <2>1. CASE e = curenv
    <3>1. schedule(TRUE, NULL, st, q, env_ran)
      BY <1>3, <2>1
    <3>2. TypeOK /\ env_ran \in [Env -> BOOLEAN] /\ q \in Tailqs(Env)
      BY <1>7, NType DEF IInv, TypeOK
    <3> HIDE DEF Runnable
    <3> QED BY <1>6, <1>7, <1>8, <3>1, <3>2, ScheduleCorrect
  <2>2. CASE e # curenv
    BY <1>3, <1>5, <1>6, <1>7, <1>8, <2>2, NType DEF IInv, TypeOK
  <2> QED BY <2>1, <2>2
<1>10. env_free_list' \in Seq(Env) /\ FreeInv'
  <2>1. /\ env_free_list \in Seq(Env)
        /\ env_free_list' \in Seq(Env)
        /\ Len(env_free_list') = Len(env_free_list) + 1
        /\ env_free_list'[1] = e
        /\ \A i \in 2..Len(env_free_list') : env_free_list'[i] = env_free_list[i - 1]
    BY <1>2, <1>3 DEF IInv, TypeOK
  <2>2. \A i, j \in 1..Len(env_free_list) :
           /\ env_free_list[i] \in Env /\ env_free_list[i] # e
           /\ env_status[env_free_list[i]] = "FREE"
           /\ env_free_list[i] = env_free_list[j] => i = j
    BY <1>1, <2>1 DEF IInv, FreeInv
  <2>3. \A i \in 2..Len(env_free_list') :
           /\ i - 1 \in 1..Len(env_free_list)
           /\ env_free_list'[i] \in Env /\ env_free_list'[i] # e
           /\ env_status[env_free_list'[i]] = "FREE"
    BY <2>1, <2>2
  <2>4. env_status'[e] = "FREE" /\ \A x \in Env : env_status[x] = "FREE" => env_status'[x] = "FREE"
    BY <1>2, <1>3 DEF st, IInv, TypeOK
  <2>5. \A i, j \in 2..Len(env_free_list') : env_free_list'[i] = env_free_list'[j] => i = j
    BY <2>1, <2>2, <2>3, SMTT(40)
  <2> QED BY <2>1, <2>3, <2>4, <2>5, SMTT(40) DEF FreeInv
<1>11. TypeOK'
  BY <1>3, <1>6, <1>9, <1>10 DEF IInv, TypeOK
<1>12. LinkInv' /\ PanicOnlyWhenIdle'
  BY <1>9 DEF LinkInv, PanicOnlyWhenIdle
<1>13. ReceivingIsBlocked'
  BY <1>1, <1>2, <1>3, <1>4 DEF st, IInv, TypeOK, ReceivingIsBlocked
<1>14. CurInv'
  BY <1>3, <1>4, <1>9 DEF CurInv
<1> QED BY <1>9, <1>10, <1>11, <1>12, <1>13, <1>14 DEF IInv

\* sys_ipc_recv removes the caller and dispatches.
LEMMA RecvIInv ==
    ASSUME IInv, sys_ipc_recv
    PROVE  IInv'
<1> DEFINE st == [env_status EXCEPT ![curenv] = "NOT_RUNNABLE"]
           q == TAILQ_REMOVE(sched, curenv)
<1>1. /\ env_ipc_recving' = [env_ipc_recving EXCEPT ![curenv] = TRUE]
      /\ env_status' = st
      /\ schedule(TRUE, curenv, st, q, env_ran)
      /\ UNCHANGED <<env_id, env_parent_id, env_asid, env_pri, env_free_list,
                     asid_used, gen, boot, polling>>
      /\ sched.ok /\ boot = 0 /\ curenv # NULL
  BY DEF sys_ipc_recv, InUserMode, CurenvRuns
<1> HIDE DEF q, st
<1>2. /\ sched \in Tailqs(0..N) /\ Linked(sched, Runnable) /\ Acyclic(sched, Runnable, N)
      /\ Runnable \in SUBSET (0..N) /\ N \in Nat /\ curenv \in Runnable /\ curenv \in Env
  BY <1>1, NType DEF IInv, TypeOK, LinkInv, Runnable, CurInv, Linked
<1>3. /\ Runnable' = Runnable \ {curenv}
      /\ st \in [Env -> {"FREE", "RUNNABLE", "NOT_RUNNABLE"}]
      /\ st[curenv] # "RUNNABLE"
      /\ Runnable \ {curenv} = {x \in Env : st[x] = "RUNNABLE"}
  BY <1>1, <1>2 DEF IInv, TypeOK, Runnable, st
<1>4. q \in Tailqs(0..N) /\ q.ok /\ Linked(q, Runnable \ {curenv})
  BY <1>1, <1>2, RemoveLinks DEF q
<1>5. Acyclic(q, Runnable \ {curenv}, N)
  BY <1>2, RemoveAcyclic DEF q
<1>6. /\ sched' \in Tailqs(Env)
      /\ curenv' \in Env \cup {NULL}
      /\ count' \in Nat
      /\ env_ran' \in [Env -> BOOLEAN]
      /\ sched'.ok => /\ Linked(sched', Runnable')
                      /\ Acyclic(sched', Runnable', N)
                      /\ curenv' = sched'.first
      /\ ~sched'.ok => Runnable' = {}
  <2>1. TypeOK /\ env_ran \in [Env -> BOOLEAN] /\ q \in Tailqs(Env)
    BY <1>4, NType DEF IInv, TypeOK
  <2> QED BY <1>1, <1>2, <1>3, <1>4, <1>5, <2>1, ScheduleCorrect
<1>7. TypeOK'
  <2>1. env_ipc_recving' \in [Env -> BOOLEAN]
    BY <1>1 DEF IInv, TypeOK
  <2> QED BY <1>1, <1>3, <1>6, <2>1 DEF IInv, TypeOK
<1>8. LinkInv' /\ PanicOnlyWhenIdle'
  BY <1>6 DEF LinkInv, PanicOnlyWhenIdle
<1>9. ReceivingIsBlocked'
  BY <1>1, <1>2 DEF st, IInv, TypeOK, ReceivingIsBlocked
<1>10. FreeInv'
  <2>1. \A i \in 1..Len(env_free_list) :
           env_free_list[i] \in Env /\ env_free_list[i] # curenv
    BY <1>2, SMTT(40) DEF IInv, TypeOK, FreeInv, Runnable
  <2> QED BY <1>1, <1>2, <2>1 DEF st, IInv, TypeOK, FreeInv
<1>11. CurInv'
  BY <1>1, <1>6 DEF CurInv
<1> QED BY <1>6, <1>7, <1>8, <1>9, <1>10, <1>11 DEF IInv

\* sys_ipc_try_send inserts a receiver, which is off the queue.
LEMMA SendIInv ==
    ASSUME IInv, NEW id \in EnvIds, sys_ipc_try_send(id)
    PROVE  IInv'
<1> DEFINE e == envid2env(id, FALSE)
<1>1. /\ InUserMode
      /\ e # NULL
      /\ env_ipc_recving[e]
      /\ env_ipc_recving' = [env_ipc_recving EXCEPT ![e] = FALSE]
      /\ env_status' = [env_status EXCEPT ![e] = "RUNNABLE"]
      /\ sched' = TAILQ_INSERT_TAIL(sched, e)
      /\ UNCHANGED <<env_id, env_parent_id, env_asid, env_pri, env_ran, env_free_list,
                     curenv, count, asid_used, gen, boot, polling>>
  BY DEF sys_ipc_try_send
<1>2. e \in Env /\ env_status[e] # "FREE"
  <2> HIDE DEF e
  <2>1. e = envid2env(id, FALSE)
    BY DEF e
  <2> QED BY <1>1, <2>1, EnvidNamesLive
<1>3. sched.ok /\ boot = 0 /\ curenv # NULL
  BY <1>1 DEF InUserMode, CurenvRuns
<1> HIDE DEF e
<1>4. env_status[e] = "NOT_RUNNABLE"
  BY <1>1, <1>2, <1>3 DEF IInv, ReceivingIsBlocked
<1>5. /\ sched \in Tailqs(0..N) /\ Linked(sched, Runnable) /\ Acyclic(sched, Runnable, N)
      /\ Runnable \in SUBSET (0..N) /\ curenv = sched.first /\ N \in Nat
      /\ e \in (0..N) \ Runnable
  BY <1>2, <1>3, <1>4, NType DEF IInv, TypeOK, LinkInv, Runnable, CurInv
<1>6. Runnable' = Runnable \cup {e}
  BY <1>1, <1>2 DEF IInv, TypeOK, Runnable
<1>7. sched' \in Tailqs(0..N) /\ sched'.ok /\ sched'.first = sched.first /\ Linked(sched', Runnable')
  <2>1. /\ sched' \in Tailqs(0..N) /\ sched'.ok = sched.ok
        /\ sched.first # NULL => sched'.first = sched.first
        /\ Linked(sched', Runnable \cup {e})
    BY <1>1, <1>5, InsertTailLinks
  <2> QED BY <1>3, <1>5, <1>6, <2>1
<1>8. Acyclic(sched', Runnable', N)
  BY <1>1, <1>5, <1>6, InsertTailAcyclic
<1>9. TypeOK'
  <2>1. env_ipc_recving' \in [Env -> BOOLEAN]
    BY <1>1 DEF IInv, TypeOK
  <2> QED BY <1>1, <1>7, <2>1, NType DEF IInv, TypeOK
<1>10. LinkInv' /\ PanicOnlyWhenIdle'
  BY <1>7 DEF LinkInv, PanicOnlyWhenIdle
<1>11. ReceivingIsBlocked'
  BY <1>1, <1>2, <1>3 DEF IInv, TypeOK, ReceivingIsBlocked
<1>12. FreeInv'
  <2>1. \A i \in 1..Len(env_free_list) :
           env_free_list[i] \in Env /\ env_free_list[i] # e
    BY <1>2, SMTT(40) DEF IInv, TypeOK, FreeInv
  <2> QED BY <1>1, <1>2, <2>1 DEF IInv, TypeOK, FreeInv
<1>13. CurInv'
  BY <1>1, <1>3, <1>5, <1>7 DEF CurInv
<1> QED BY <1>8, <1>9, <1>10, <1>11, <1>12, <1>13 DEF IInv

-----------------------------------------------------------------------------
\* Every step of the kernel keeps the invariant.
LEMMA NextIInv == IInv /\ [Next]_vars => IInv'
<1> SUFFICES ASSUME IInv, [Next]_vars PROVE IInv'
  OBVIOUS
<1>1. CASE \E p \in Priorities : env_create(p)
  BY <1>1, CreateIInv
<1>2. CASE handle_int
  BY <1>2, DispatchIInv DEF handle_int
<1>3. CASE sys_yield
  BY <1>3, DispatchIInv DEF sys_yield, InUserMode, CurenvRuns
<1>4. CASE sys_exofork
  BY <1>4, ExoforkIInv
<1>5. CASE sys_exofork_no_asid
  BY <1>5, ExoforkNoAsidIInv
<1>6. CASE sys_ipc_recv
  BY <1>6, RecvIInv
<1>7. CASE \E id \in EnvIds : sys_ipc_try_send(id)
  BY <1>7, SendIInv
<1>8. CASE \E id \in EnvIds, s \in Statuses :
              InUserMode /\ CarefulStart(id) /\ sys_set_env_status(id, s)
  BY <1>8, SetStatusIInv
<1>9. CASE \E id \in EnvIds : InUserMode /\ CarefulDestroy(id) /\ sys_env_destroy(id)
  BY <1>9, DestroyIInv
<1>10. CASE sys_cgetc \/ sys_cgetc_return \/ UNCHANGED vars
  BY <1>10, StutterIInv DEF sys_cgetc, sys_cgetc_return, vars, IInv, TypeOK
<1> QED
  BY <1>1, <1>2, <1>3, <1>4, <1>5, <1>6, <1>7, <1>8, <1>9, <1>10 DEF Next, Always

\* The inductive invariant of env.c, sched.c and the system calls holds always.
THEOREM SpecIInv == Spec => []IInv
<1>1. Init => IInv
  BY InitIInv
<1>2. IInv /\ [Next]_vars => IInv'
  BY NextIInv
<1> QED BY <1>1, <1>2, PTL DEF Spec

\* Every variable of the kernel keeps its type, count its sign included.
THEOREM TypeCorrect == Spec => []TypeOK
<1>1. IInv => TypeOK
  BY DEF IInv
<1> QED BY <1>1, SpecIInv, PTL

\* env.c:18 for any number of environments: the links of env_sched_list join
\* the RUNNABLE environments and no other.
THEOREM SchedListLinked == Spec => []LinkInv
<1>1. IInv => LinkInv
  BY DEF IInv
<1> QED BY <1>1, SpecIInv, PTL

\* The kernel halts only when no environment is RUNNABLE.
THEOREM NoEarlyPanic == Spec => []PanicOnlyWhenIdle
<1>1. IInv => PanicOnlyWhenIdle
  BY DEF IInv
<1> QED BY <1>1, SpecIInv, PTL

\* A process marked as receiving is blocked, for callers that destroy only
\* RUNNABLE processes.
THEOREM ReceiversBlocked == Spec => []ReceivingIsBlocked
<1>1. IInv => ReceivingIsBlocked
  BY DEF IInv
<1> QED BY <1>1, SpecIInv, PTL

\* The running process is the head of env_sched_list.
THEOREM RunningIsHead == Spec => []CurenvAtHead
<1>1. IInv => CurenvAtHead
  BY DEF IInv, CurInv, CurenvAtHead, CurenvRuns
<1> QED BY <1>1, SpecIInv, PTL

-----------------------------------------------------------------------------
(***************************************************************************)
(* Slots and ASIDs.                                                        *)
(***************************************************************************)

\* A slot is in use or on the free list, and the ASIDs in the bitmap are those
\* of the slots in use, one each.
SlotInv ==
    /\ \A e \in Env : env_status[e] = "FREE" => \E i \in 1..Len(env_free_list) : env_free_list[i] = e
    /\ \A e \in Env : env_status[e] # "FREE" => env_asid[e] \in asid_used
    /\ \A a \in asid_used : \E e \in Env : env_status[e] # "FREE" /\ env_asid[e] = a
    /\ \A e, f \in Env : env_status[e] # "FREE" /\ env_status[f] # "FREE" /\ env_asid[e] = env_asid[f] => e = f

\* A step that frees no slot and takes none.
LEMMA KeepSlots ==
    ASSUME SlotInv, UNCHANGED <<env_free_list, env_asid, asid_used>>,
           \A e \in Env : env_status'[e] = "FREE" <=> env_status[e] = "FREE"
    PROVE  SlotInv'
BY DEF SlotInv

\* env_alloc takes one slot off the free list and one bit of the bitmap.
LEMMA AllocSlots ==
    ASSUME IInv, SlotInv, NEW e \in Env, NEW parent_id, env_alloc(e, parent_id),
           NEW st \in Statuses, env_status' = [env_status EXCEPT ![e] = st]
    PROVE  SlotInv'
<1>1. /\ env_free_list # <<>> /\ e = Head(env_free_list) /\ env_free_list' = Tail(env_free_list)
  BY DEF env_alloc, env_alloc_id
<1>2. PICK a \in Asid : /\ a \notin asid_used
                        /\ env_asid' = [env_asid EXCEPT ![e] = a]
                        /\ asid_used' = asid_used \cup {a}
  BY DEF env_alloc, asid_alloc
<1>3. env_status[e] = "FREE"
  BY <1>1, FreeHead
<1>4. /\ env_status'[e] # "FREE" /\ env_asid'[e] = a
      /\ \A x \in Env : x # e => env_status'[x] = env_status[x] /\ env_asid'[x] = env_asid[x]
  BY <1>2 DEF IInv, TypeOK, Statuses
<1>5. ASSUME NEW x \in Env, env_status'[x] = "FREE"
      PROVE  \E i \in 1..Len(env_free_list') : env_free_list'[i] = x
  <2>1. x # e /\ env_status[x] = "FREE"
    BY <1>4, <1>5
  <2>2. PICK i \in 1..Len(env_free_list) : env_free_list[i] = x
    BY <2>1 DEF SlotInv
  <2>3. /\ env_free_list[1] = e /\ Len(env_free_list) \in Nat
        /\ Len(env_free_list') = Len(env_free_list) - 1
        /\ \A j \in 1..Len(env_free_list') : env_free_list'[j] = env_free_list[j + 1]
    BY <1>1 DEF IInv, TypeOK
  <2>4. i # 1
    BY <2>1, <2>2, <2>3
  <2>5. i - 1 \in 1..Len(env_free_list') /\ (i - 1) + 1 = i
    BY <2>3, <2>4
  <2> QED BY <2>2, <2>3, <2>5
<1>6. \A x \in Env : env_status'[x] # "FREE" => env_asid'[x] \in asid_used'
  BY <1>2, <1>4 DEF SlotInv
<1>7. \A b \in asid_used' : \E x \in Env : env_status'[x] # "FREE" /\ env_asid'[x] = b
  <2>1. SUFFICES ASSUME NEW b \in asid_used'
                 PROVE  \E x \in Env : env_status'[x] # "FREE" /\ env_asid'[x] = b
    OBVIOUS
  <2>2. CASE b = a
    BY <1>4, <2>2
  <2>3. CASE b # a
    <3>1. PICK x \in Env : env_status[x] # "FREE" /\ env_asid[x] = b
      BY <1>2, <2>3 DEF SlotInv
    <3> QED BY <1>3, <1>4, <3>1
  <2> QED BY <2>2, <2>3
<1>8. \A x, y \in Env : env_status'[x] # "FREE" /\ env_status'[y] # "FREE" /\ env_asid'[x] = env_asid'[y] => x = y
  <2>1. \A x \in Env : x # e /\ env_status'[x] # "FREE" => env_asid'[x] # a
    BY <1>2, <1>4 DEF SlotInv
  <2> QED BY <1>4, <2>1 DEF SlotInv
<1> QED BY <1>5, <1>6, <1>7, <1>8 DEF SlotInv

\* sys_env_destroy gives both back.
LEMMA DestroySlots ==
    ASSUME IInv, SlotInv, NEW e \in Env, env_status[e] # "FREE",
           asid_used' = asid_used \ {env_asid[e]},
           env_status' = [env_status EXCEPT ![e] = "FREE"],
           env_free_list' = <<e>> \o env_free_list,
           env_asid' = env_asid
    PROVE  SlotInv'
<1>1. /\ env_status'[e] = "FREE"
      /\ \A x \in Env : x # e => env_status'[x] = env_status[x]
  BY DEF IInv, TypeOK
<1>2. ASSUME NEW x \in Env, env_status'[x] = "FREE"
      PROVE  \E i \in 1..Len(env_free_list') : env_free_list'[i] = x
  <2>1. /\ Len(env_free_list) \in Nat
        /\ Len(env_free_list') = Len(env_free_list) + 1
        /\ env_free_list'[1] = e
        /\ \A i \in 1..Len(env_free_list) : env_free_list'[i + 1] = env_free_list[i]
    BY DEF IInv, TypeOK
  <2>2. CASE x = e
    <3>1. 1 \in 1..Len(env_free_list')
      BY <2>1
    <3> QED BY <2>1, <2>2, <3>1
  <2>3. CASE x # e
    <3>1. PICK i \in 1..Len(env_free_list) : env_free_list[i] = x
      BY <1>1, <1>2, <2>3 DEF SlotInv
    <3>2. i + 1 \in 1..Len(env_free_list')
      BY <2>1
    <3> QED BY <2>1, <3>1, <3>2
  <2> QED BY <2>2, <2>3
<1>3. \A x \in Env : env_status'[x] # "FREE" => env_asid'[x] \in asid_used'
  BY <1>1 DEF SlotInv
<1>4. \A b \in asid_used' : \E x \in Env : env_status'[x] # "FREE" /\ env_asid'[x] = b
  BY <1>1 DEF SlotInv
<1>5. \A x, y \in Env : env_status'[x] # "FREE" /\ env_status'[y] # "FREE" /\ env_asid'[x] = env_asid'[y] => x = y
  BY <1>1 DEF SlotInv
<1> QED BY <1>2, <1>3, <1>4, <1>5 DEF SlotInv

\* Every step accounts for the slots and the ASIDs.
LEMMA NextSlots == IInv /\ SlotInv /\ [Next]_vars => SlotInv'
<1> SUFFICES ASSUME IInv, SlotInv, [Next]_vars PROVE SlotInv'
  OBVIOUS
<1>0. env_status \in [Env -> {"FREE", "RUNNABLE", "NOT_RUNNABLE"}]
  BY DEF IInv, TypeOK
<1>1. CASE \E p \in Priorities : env_create(p)
  <2>1. PICK e \in Env : env_alloc(e, 0) /\ env_status' = [env_status EXCEPT ![e] = "RUNNABLE"]
    BY <1>1 DEF env_create
  <2>2. "RUNNABLE" \in Statuses
    BY DEF Statuses
  <2> QED BY <2>1, <2>2, AllocSlots
<1>2. CASE \/ handle_int \/ sys_yield \/ sys_exofork_no_asid
           \/ sys_cgetc \/ sys_cgetc_return \/ UNCHANGED vars
  <2>1. UNCHANGED <<env_status, env_free_list, env_asid, asid_used>>
    BY <1>2 DEF handle_int, sys_yield, sys_exofork_no_asid, sys_cgetc, sys_cgetc_return, vars
  <2> QED BY <2>1, KeepSlots
<1>3. CASE sys_exofork
  <2>1. PICK e \in Env : env_alloc(e, env_id[curenv]) /\ env_status' = [env_status EXCEPT ![e] = "NOT_RUNNABLE"]
    BY <1>3 DEF sys_exofork
  <2>2. "NOT_RUNNABLE" \in Statuses
    BY DEF Statuses
  <2> QED BY <2>1, <2>2, AllocSlots
<1>4. CASE sys_ipc_recv
  <2>1. /\ env_status' = [env_status EXCEPT ![curenv] = "NOT_RUNNABLE"]
        /\ UNCHANGED <<env_free_list, env_asid, asid_used>>
        /\ InUserMode
    BY <1>4 DEF sys_ipc_recv
  <2>2. curenv \in Env /\ env_status[curenv] # "FREE"
    BY <2>1 DEF IInv, InUserMode, CurenvRuns, CurInv, LinkInv, Linked, Runnable
  <2>3. \A e \in Env : env_status'[e] = "FREE" <=> env_status[e] = "FREE"
    BY <1>0, <2>1, <2>2
  <2> QED BY <2>1, <2>3, KeepSlots
<1>5. CASE \E id \in EnvIds : sys_ipc_try_send(id)
  <2>1. PICK id \in EnvIds : sys_ipc_try_send(id)
    BY <1>5
  <2>2. PICK e : e = envid2env(id, FALSE)
    OBVIOUS
  <2>3. /\ InUserMode /\ e # NULL
        /\ env_status' = [env_status EXCEPT ![e] = "RUNNABLE"]
        /\ UNCHANGED <<env_free_list, env_asid, asid_used>>
    BY <2>1, <2>2 DEF sys_ipc_try_send
  <2>4. e \in Env /\ env_status[e] # "FREE"
    BY <2>2, <2>3, EnvidNamesLive
  <2>5. \A x \in Env : env_status'[x] = "FREE" <=> env_status[x] = "FREE"
    BY <1>0, <2>3, <2>4
  <2> QED BY <2>3, <2>5, KeepSlots
<1>6. CASE \E id \in EnvIds, s \in Statuses :
              InUserMode /\ CarefulStart(id) /\ sys_set_env_status(id, s)
  <2>1. PICK id \in EnvIds, s \in Statuses : InUserMode /\ sys_set_env_status(id, s)
    BY <1>6
  <2>2. PICK e : e = envid2env(id, TRUE)
    OBVIOUS
  <2>3. /\ e # NULL
        /\ env_status' = [env_status EXCEPT ![e] = s]
        /\ UNCHANGED <<env_free_list, env_asid, asid_used>>
    BY <2>1, <2>2 DEF sys_set_env_status
  <2>4. e \in Env /\ env_status[e] # "FREE"
    BY <2>1, <2>2, <2>3, EnvidNamesLive
  <2>5. \A x \in Env : env_status'[x] = "FREE" <=> env_status[x] = "FREE"
    BY <1>0, <2>3, <2>4 DEF Statuses
  <2> QED BY <2>3, <2>5, KeepSlots
<1>7. CASE \E id \in EnvIds : InUserMode /\ CarefulDestroy(id) /\ sys_env_destroy(id)
  <2>1. PICK id \in EnvIds : InUserMode /\ sys_env_destroy(id)
    BY <1>7
  <2>2. PICK e : e = envid2env(id, TRUE)
    OBVIOUS
  <2>3. /\ e # NULL
        /\ asid_used' = asid_used \ {env_asid[e]}
        /\ env_status' = [env_status EXCEPT ![e] = "FREE"]
        /\ env_free_list' = <<e>> \o env_free_list
        /\ env_asid' = env_asid
    BY <2>1, <2>2 DEF sys_env_destroy
  <2>4. e \in Env /\ env_status[e] # "FREE"
    BY <2>1, <2>2, <2>3, EnvidNamesLive
  <2> QED BY <2>3, <2>4, DestroySlots
<1> QED
  BY <1>1, <1>2, <1>3, <1>4, <1>5, <1>6, <1>7 DEF Next, Always

\* The counts of SlotsAccounted follow from the one-to-one correspondences.
LEMMA SlotsCounted == IInv /\ SlotInv => SlotsAccounted
<1> SUFFICES ASSUME IInv, SlotInv PROVE SlotsAccounted
  OBVIOUS
<1> DEFINE Live == {e \in Env : env_status[e] # "FREE"}
<1>1. env_free_list \in Seq(Env) /\ DOMAIN env_free_list = 1..Len(env_free_list)
  BY DEF IInv, TypeOK
<1>2. \A i \in 1..Len(env_free_list) : env_free_list[i] \in Env /\ env_status[env_free_list[i]] = "FREE"
  BY <1>1 DEF IInv, FreeInv
<1>3. {env_free_list[i] : i \in 1..Len(env_free_list)} = Env \ Live
  BY <1>2 DEF SlotInv
<1>4. IsFiniteSet(Env)
  <2>1. 0 \in Int /\ N \in Int
    BY NType
  <2> QED BY <2>1, NType, FS_Interval
<1>5. Cardinality({env_free_list[i] : i \in 1..Len(env_free_list)}) = Len(env_free_list)
  <2>1. \A i, j \in 1..Len(env_free_list) : env_free_list[i] = env_free_list[j] => i = j
    BY DEF IInv, FreeInv
  <2> QED BY <1>1, <1>4, <2>1, DistinctElements
<1>6. asid_used = {env_asid[e] : e \in Live}
  BY DEF SlotInv
<1>7. Cardinality(asid_used) = Cardinality(Live)
  <2>1. IsFiniteSet(Live)
    <3>1. Live \in SUBSET Env
      OBVIOUS
    <3> QED BY <1>4, <3>1, FS_Subset
  <2>2. PICK f : f = [e \in Live |-> env_asid[e]]
    OBVIOUS
  <2>3. f \in [Live -> asid_used] /\ \A a \in asid_used : \E e \in Live : f[e] = a
    BY <1>6, <2>2
  <2>4. \A d, e \in Live : f[d] = f[e] => d = e
    BY <2>2 DEF SlotInv
  <2> HIDE DEF Live
  <2>5. f \in Bijection(Live, asid_used)
    BY <2>3, <2>4 DEF Bijection, Injection, Surjection, IsInjective
  <2> QED BY <2>1, <2>5, FS_Bijection DEF ExistsBijection
<1> QED BY <1>1, <1>3, <1>5, <1>6, <1>7 DEF SlotsAccounted

\* Every slot of envs[] is in use or on env_free_list once, and asid_bitmap holds
\* one ASID for each slot in use, for any number of slots and ASIDs.
THEOREM SlotsAreAccounted == Spec => []SlotsAccounted
<1>1. Init => SlotInv
  <2> SUFFICES ASSUME Init PROVE SlotInv
    OBVIOUS
  <2>1. \A e \in Env : e + 1 \in 1..NENV /\ (e + 1) - 1 = e
    BY SizeAssumption DEF Env
  <2>2. env_free_list = [i \in 1..NENV |-> i - 1] /\ Len(env_free_list) = NENV
    BY SizeAssumption DEF Init
  <2>3. \A e \in Env : \E i \in 1..Len(env_free_list) : env_free_list[i] = e
    BY <2>1, <2>2
  <2>4. asid_used = {} /\ \A e \in Env : env_status[e] = "FREE"
    BY DEF Init
  <2> QED BY <2>3, <2>4 DEF SlotInv
<1> QED BY <1>1, NextSlots, SpecIInv, SlotsCounted, PTL DEF Spec

-----------------------------------------------------------------------------
(***************************************************************************)
(* env_sched_list as a sequence, and the refinement of SchedQueue.         *)
(***************************************************************************)

\* env_sched_list is the sequence s of the RUNNABLE environments.
Queued(s) == Lists(sched, s) /\ Runnable = Elements(s)

\* LinkInv and Acyclic say that there is one, but only a sequence names it.
SeqInv == \E s \in Seq(Env) : Queued(s)

\* A traversal of the queue finds that sequence.
LEMMA Traversed ==
    ASSUME NEW q \in Tailqs(Env), NEW s \in Seq(Env), Lists(q, s)
    PROVE  TAILQ_SEQ(q, NENV) = s
<1>1. IsFiniteSet(Env) /\ Cardinality(Env) = NENV
  <2>1. 0 \in Int /\ N \in Int /\ N >= 0
    BY NType
  <2>2. IsFiniteSet(0..N) /\ Cardinality(0..N) = IF 0 > N THEN 0 ELSE N - 0 + 1
    BY <2>1, FS_Interval
  <2>3. N + 1 = NENV /\ N - 0 + 1 = N + 1 /\ ~(0 > N)
    BY <2>1, SizeAssumption DEF N
  <2> QED BY <2>2, <2>3, NType
<1>2. \A i, j \in 1..Len(s) : s[i] = s[j] => i = j
  BY DEF Lists
<1>3. Len(s) <= NENV
  BY <1>1, <1>2, DistinctElements
<1>4. NENV \in Nat
  BY SizeAssumption
<1> QED BY <1>3, <1>4, NType, SeqLists

\* The lemmas on Tailq for the set Env: a new last element.
LEMMA EnvAppend ==
    ASSUME NEW q \in Tailqs(Env), NEW s \in Seq(Env), Lists(q, s), NEW e \in Env, e \notin Elements(s)
    PROVE  /\ TAILQ_INSERT_TAIL(q, e).ok = q.ok
           /\ Append(s, e) \in Seq(Env)
           /\ Lists(TAILQ_INSERT_TAIL(q, e), Append(s, e))
           /\ Elements(Append(s, e)) = Elements(s) \cup {e}
<1>1. PICK M \in Nat : Env = 0..M
  BY NType
<1>2. q \in Tailqs(0..M) /\ s \in Seq(0..M) /\ e \in 0..M
  BY <1>1
<1>3. /\ TAILQ_INSERT_TAIL(q, e).ok = q.ok
      /\ Append(s, e) \in Seq(0..M)
      /\ Lists(TAILQ_INSERT_TAIL(q, e), Append(s, e))
      /\ Elements(Append(s, e)) = Elements(s) \cup {e}
  BY <1>2, AppendList
<1> QED BY <1>1, <1>3

\* A new first element.
LEMMA EnvPrepend ==
    ASSUME NEW q \in Tailqs(Env), NEW s \in Seq(Env), Lists(q, s), NEW e \in Env, e \notin Elements(s)
    PROVE  /\ <<e>> \o s \in Seq(Env)
           /\ Lists(TAILQ_INSERT_HEAD(q, e), <<e>> \o s)
           /\ Elements(<<e>> \o s) = Elements(s) \cup {e}
<1>1. PICK M \in Nat : Env = 0..M
  BY NType
<1>2. q \in Tailqs(0..M) /\ s \in Seq(0..M) /\ e \in 0..M
  BY <1>1
<1>3. /\ <<e>> \o s \in Seq(0..M)
      /\ Lists(TAILQ_INSERT_HEAD(q, e), <<e>> \o s)
      /\ Elements(<<e>> \o s) = Elements(s) \cup {e}
  BY <1>2, PrependList
<1> QED BY <1>1, <1>3

\* The k-th element leaves.
LEMMA EnvRemove ==
    ASSUME NEW q \in Tailqs(Env), NEW s \in Seq(Env), Lists(q, s), NEW k \in 1..Len(s)
    PROVE  /\ TAILQ_REMOVE(q, s[k]) \in Tailqs(Env)
           /\ TAILQ_REMOVE(q, s[k]).ok = q.ok
           /\ Without(s, k) \in Seq(Env)
           /\ Lists(TAILQ_REMOVE(q, s[k]), Without(s, k))
           /\ Elements(Without(s, k)) = Elements(s) \ {s[k]}
<1>1. PICK M \in Nat : Env = 0..M
  BY NType
<1>2. q \in Tailqs(0..M) /\ s \in Seq(0..M)
  BY <1>1
<1>3. /\ TAILQ_REMOVE(q, s[k]) \in Tailqs(0..M)
      /\ TAILQ_REMOVE(q, s[k]).ok = q.ok
      /\ Without(s, k) \in Seq(0..M)
      /\ Lists(TAILQ_REMOVE(q, s[k]), Without(s, k))
      /\ Elements(Without(s, k)) = Elements(s) \ {s[k]}
  BY <1>2, RemoveList
<1> QED BY <1>1, <1>3

\* The first element goes to the end.
LEMMA EnvRotate ==
    ASSUME NEW q \in Tailqs(Env), NEW s \in Seq(Env), Lists(q, s), s # <<>>, NEW e \in Env, e = s[1]
    PROVE  /\ TAILQ_INSERT_TAIL(TAILQ_REMOVE(q, e), e) \in Tailqs(Env)
           /\ TAILQ_INSERT_TAIL(TAILQ_REMOVE(q, e), e).ok = q.ok
           /\ Append(Tail(s), e) \in Seq(Env)
           /\ Lists(TAILQ_INSERT_TAIL(TAILQ_REMOVE(q, e), e), Append(Tail(s), e))
           /\ Elements(Append(Tail(s), e)) = Elements(s)
<1>1. PICK M \in Nat : Env = 0..M
  BY NType
<1>2. q \in Tailqs(0..M) /\ s \in Seq(0..M) /\ e \in 0..M
  BY <1>1
<1>3. /\ TAILQ_INSERT_TAIL(TAILQ_REMOVE(q, e), e) \in Tailqs(0..M)
      /\ TAILQ_INSERT_TAIL(TAILQ_REMOVE(q, e), e).ok = q.ok
      /\ Append(Tail(s), e) \in Seq(0..M)
      /\ Lists(TAILQ_INSERT_TAIL(TAILQ_REMOVE(q, e), e), Append(Tail(s), e))
      /\ Elements(Append(Tail(s), e)) = Elements(s)
  BY <1>2, RotateList
<1> QED BY <1>1, <1>3

\* The environments that a table of statuses makes RUNNABLE.
RunnableIn(st) == {x \in Env : st[x] = "RUNNABLE"}

\* schedule's choice between the outgoing process e and the queue s: t is the queue
\* it leaves.
Dispatched(s, t, e, st) ==
    /\ Lists(sched', t)
    /\ Elements(t) = Elements(s)
    /\ IF e = NULL \/ st[e] # "RUNNABLE"
       THEN t = s /\ Running' = IF s = <<>> THEN NULL ELSE s[1]
       ELSE \/ t = Append(Tail(s), e) /\ Running' = t[1]
            \/ t = s /\ Running' = e

\* schedule is entered with the queue s in q, for the statuses st and the outgoing
\* process e.
Dispatching(s, q, e, st, ran, yield) ==
    /\ TypeOK
    /\ st \in [Env -> {"FREE", "RUNNABLE", "NOT_RUNNABLE"}]
    /\ s \in Seq(Env) /\ RunnableIn(st) = Elements(s)
    /\ q \in Tailqs(Env) /\ q.ok /\ Lists(q, s)
    /\ e \in Env \cup {NULL}
    /\ e # NULL /\ st[e] = "RUNNABLE" => s # <<>> /\ e = s[1]
    /\ ran \in [Env -> BOOLEAN]
    /\ yield \in BOOLEAN
    /\ schedule(yield, e, st, q, ran)

\* schedule, seen on the sequence: with nobody to preempt the head runs; else
\* the running process goes to the end, or keeps the CPU.
LEMMA ScheduleQueue ==
    ASSUME NEW s, NEW q, NEW e, NEW st, NEW ran, NEW yield, Dispatching(s, q, e, st, ran, yield)
    PROVE  \E t \in Seq(Env) : Dispatched(s, t, e, st)
<1> USE DEF Dispatching
<1> DEFINE drop == e = NULL \/ st[e] # "RUNNABLE"
           rotate == ~drop /\ (yield \/ count - 1 <= 0)
           q2 == IF rotate THEN TAILQ_INSERT_TAIL(TAILQ_REMOVE(q, e), e) ELSE q
           n == IF drop \/ rotate THEN q2.first ELSE e
           runs == q2.ok /\ n # NULL /\ st[n] = "RUNNABLE"
           t == IF rotate THEN Append(Tail(s), e) ELSE s
<1>1. sched' = [q2 EXCEPT !.ok = runs] /\ curenv' = IF runs THEN n ELSE e
  BY DEF schedule
<1>2. \A x \in Elements(s) : x \in Env /\ st[x] = "RUNNABLE"
  BY DEF RunnableIn
<1>3. /\ q2 \in Tailqs(Env) /\ q2.ok /\ t \in Seq(Env) /\ Lists(q2, t)
      /\ Elements(t) = Elements(s)
  <2>1. CASE rotate
    <3>1. s # <<>> /\ e = s[1] /\ e \in Env
      BY <2>1
    <3>3. q2 = TAILQ_INSERT_TAIL(TAILQ_REMOVE(q, e), e) /\ t = Append(Tail(s), e)
      BY <2>1
    <3> HIDE DEF q2, t, drop, rotate, n, runs
    <3>4. /\ TAILQ_INSERT_TAIL(TAILQ_REMOVE(q, e), e) \in Tailqs(Env)
          /\ TAILQ_INSERT_TAIL(TAILQ_REMOVE(q, e), e).ok = q.ok
          /\ Append(Tail(s), e) \in Seq(Env)
          /\ Lists(TAILQ_INSERT_TAIL(TAILQ_REMOVE(q, e), e), Append(Tail(s), e))
          /\ Elements(Append(Tail(s), e)) = Elements(s)
      BY <3>1, EnvRotate
    <3> QED BY <3>3, <3>4
  <2>2. CASE ~rotate
    BY <2>2
  <2> QED BY <2>1, <2>2
<1> HIDE DEF t, q2
<1>4. t = <<>> <=> s = <<>>
  <2>1. t = <<>> <=> Elements(t) = {}
    BY <1>3, EmptyElements
  <2>2. s = <<>> <=> Elements(s) = {}
    BY EmptyElements
  <2> QED BY <1>3, <2>1, <2>2
<1>5. n = IF drop \/ rotate THEN (IF t = <<>> THEN NULL ELSE t[1]) ELSE e
  BY <1>3 DEF Lists
<1>6. t # <<>> => t[1] \in Env /\ st[t[1]] = "RUNNABLE" /\ t[1] # NULL
  <2>1. SUFFICES ASSUME t # <<>> PROVE t[1] \in Env /\ st[t[1]] = "RUNNABLE" /\ t[1] # NULL
    OBVIOUS
  <2>2. 1 \in 1..Len(t)
    BY <1>3, <2>1
  <2>3. t[1] \in Elements(t)
    BY <2>2 DEF Elements
  <2>4. \A x \in Env : x # NULL
    BY DEF Env, NULL
  <2> QED BY <1>2, <1>3, <2>3, <2>4
<1>7. drop => t = s
  BY DEF t
<1>8. ~drop => /\ e \in Env /\ e # NULL /\ st[e] = "RUNNABLE" /\ s # <<>>
               /\ t = s \/ t = Append(Tail(s), e)
               /\ ~rotate => t = s
  BY DEF t
<1>9. Lists(sched', t) /\ sched'.ok = runs
  <2>1. /\ sched'.first = q2.first /\ sched'.last = q2.last /\ sched'.next = q2.next
        /\ sched'.prev = q2.prev /\ sched'.ok = runs
    <3>1. sched' = [q2 EXCEPT !.ok = runs]
      BY <1>1
    <3> HIDE DEF runs
    <3> QED BY <1>3, <3>1 DEF Tailqs
  <2> QED BY <1>3, <2>1 DEF Lists
<1>10. Running' = IF runs THEN n ELSE NULL
  BY <1>1, <1>9 DEF Running
<1>11. CASE drop
  <2>1. n = IF s = <<>> THEN NULL ELSE s[1]
    BY <1>4, <1>5, <1>7, <1>11
  <2>2. Running' = n
    BY <1>3, <1>4, <1>5, <1>6, <1>7, <1>10, <1>11, <2>1
  <2> QED BY <1>3, <1>7, <1>9, <1>11, <2>1, <2>2 DEF Dispatched
<1>12. CASE rotate
  <2>1. t # <<>> /\ n = t[1] /\ n # NULL /\ st[n] = "RUNNABLE"
    BY <1>4, <1>5, <1>6, <1>8, <1>12
  <2>2. Running' = t[1] /\ t = Append(Tail(s), e)
    BY <1>3, <1>10, <1>12, <2>1 DEF t
  <2> QED BY <1>3, <1>9, <1>12, <2>2 DEF Dispatched
<1>13. CASE ~drop /\ ~rotate
  <2>1. n = e /\ e # NULL /\ st[e] = "RUNNABLE" /\ t = s
    BY <1>5, <1>8, <1>13
  <2>2. Running' = e
    BY <1>3, <1>10, <2>1
  <2> QED BY <1>3, <1>9, <1>13, <2>1, <2>2 DEF Dispatched
<1> QED BY <1>11, <1>12, <1>13

\* What a step does to the sequence, with the abstract step it amounts to.
Follows(s, t) == Queued(s) /\ (Queued(t))' /\ TypeOK /\ TypeOK'

\* The mapped variables of SchedQueue before and after such a step.
LEMMA FollowsMaps ==
    ASSUME NEW s \in Seq(Env), NEW t \in Seq(Env), Follows(s, t)
    PROVE  SchedSeq = s /\ SchedSeq' = t
<1>1. sched \in Tailqs(Env) /\ Lists(sched, s) /\ sched' \in Tailqs(Env) /\ Lists(sched', t)
  BY DEF Follows, Queued, TypeOK
<1>2. TAILQ_SEQ(sched, NENV) = s /\ TAILQ_SEQ(sched', NENV) = t
  BY <1>1, Traversed
<1> QED BY <1>2 DEF SchedSeq

\* A step that leaves the queue and the running process alone.
LEMMA StutterStep ==
    ASSUME NEW s \in Seq(Env), Follows(s, s), Running' = Running
    PROVE  UNCHANGED <<SchedSeq, Running>>
<1>1. SchedSeq = s /\ SchedSeq' = s
  BY FollowsMaps
<1> QED BY <1>1

\* Boot.
LEMMA BootStep ==
    ASSUME NEW s \in Seq(Env), NEW e \in Env, NEW t \in Seq(Env), t = <<e>> \o s,
           \A i \in 1..Len(s) : s[i] # e,
           Follows(s, t), Running = NULL, Running' = NULL
    PROVE  Abstract!Next
<1>1. SchedSeq = s /\ SchedSeq' = t
  BY FollowsMaps
<1>2. ~Abstract!Contains(s, e)
  BY DEF Abstract!Contains
<1>3. Abstract!Boot(e)
  BY <1>1, <1>2 DEF Abstract!Boot
<1> QED BY <1>3 DEF Abstract!Next

\* Start.
LEMMA StartStep ==
    ASSUME NEW s \in Seq(Env), Follows(s, s), s # <<>>, Running = NULL, Running' = s[1]
    PROVE  Abstract!Next
<1>1. SchedSeq = s /\ SchedSeq' = s
  BY FollowsMaps
<1>2. Abstract!Start
  <2>1. Head(s) = s[1]
    OBVIOUS
  <2> QED BY <1>1, <2>1 DEF Abstract!Start
<1> QED BY <1>2 DEF Abstract!Next

\* Join.
LEMMA JoinStep ==
    ASSUME NEW s \in Seq(Env), NEW e \in Env, NEW t \in Seq(Env), t = Append(s, e),
           \A i \in 1..Len(s) : s[i] # e,
           Follows(s, t), Running' = Running
    PROVE  Abstract!Next
<1>1. SchedSeq = s /\ SchedSeq' = t
  BY FollowsMaps
<1>2. ~Abstract!Contains(s, e)
  BY DEF Abstract!Contains
<1>3. Abstract!Join(e)
  BY <1>1, <1>2 DEF Abstract!Join
<1> QED BY <1>3 DEF Abstract!Next

\* Rotate.
LEMMA RotateStep ==
    ASSUME NEW s \in Seq(Env), s # <<>>, NEW e \in Env, NEW t \in Seq(Env), t = Append(Tail(s), e),
           Follows(s, t), Running = e, Running' = t[1]
    PROVE  Abstract!Next
<1>1. SchedSeq = s /\ SchedSeq' = t
  BY FollowsMaps
<1>2. Running # NULL
  BY DEF Env, NULL
<1>3. Head(t) = t[1]
  <2>1. Tail(s) \in Seq(Env)
    OBVIOUS
  <2>2. t # <<>>
    BY <2>1
  <2> QED BY <2>2, HeadIsFirst, Zenon
<1>4. Abstract!Rotate
  BY <1>1, <1>2, <1>3 DEF Abstract!Rotate
<1> QED BY <1>4 DEF Abstract!Next

\* Leave.
LEMMA LeaveStep ==
    ASSUME NEW s \in Seq(Env), NEW e \in Env, NEW k \in 1..Len(s), s[k] = e,
           NEW t \in Seq(Env), t = Without(s, k), Follows(s, t),
           Running' = IF e = Running THEN (IF t = <<>> THEN NULL ELSE t[1]) ELSE Running
    PROVE  Abstract!Next
<1>1. SchedSeq = s /\ SchedSeq' = t
  BY FollowsMaps
<1>2. t = Abstract!RemoveAt(s, k)
  BY DEF Without, Abstract!RemoveAt
<1>3. Abstract!HeadOf(t) = IF t = <<>> THEN NULL ELSE t[1]
  <2>1. t # <<>> => Head(t) = t[1]
    OBVIOUS
  <2> QED BY <2>1 DEF Abstract!HeadOf
<1>4. Abstract!Leave(e)
  BY <1>1, <1>2, <1>3 DEF Abstract!Leave
<1> QED BY <1>4 DEF Abstract!Next

\* The sequence goes on, and the step is one of SchedQueue or changes nothing.
Implements == SeqInv' /\ [Abstract!Next]_<<SchedSeq, Running>>

\* A step after which the same sequence is queued.
LEMMA SameQueue ==
    ASSUME TypeOK, TypeOK', NEW s \in Seq(Env), Queued(s), sched' = sched, Runnable' = Runnable,
           curenv' = curenv
    PROVE  Implements
<1>1. (Queued(s))' /\ Running' = Running
  BY DEF Queued, Running
<1>2. Follows(s, s)
  BY <1>1 DEF Follows
<1>3. UNCHANGED <<SchedSeq, Running>>
  BY <1>1, <1>2, StutterStep
<1>4. SeqInv'
  BY <1>1 DEF SeqInv
<1> QED BY <1>3, <1>4 DEF Implements

\* While a process runs, it is the first of the sequence.
LEMMA RunningIsFirst ==
    ASSUME IInv, NEW s \in Seq(Env), Queued(s), sched.ok, curenv # NULL
    PROVE  s # <<>> /\ curenv = s[1] /\ curenv \in Env /\ curenv \in Runnable
<1>1. curenv = sched.first /\ curenv \in Runnable
  BY DEF IInv, CurInv, LinkInv, Linked
<1>2. curenv \in Env
  BY <1>1 DEF Runnable
<1> QED BY <1>1, <1>2 DEF Queued, Lists

\* A RUNNABLE environment has a place in the sequence.
LEMMA PlaceOf ==
    ASSUME NEW s \in Seq(Env), Queued(s), NEW e \in Runnable
    PROVE  \E k \in 1..Len(s) : s[k] = e
BY DEF Queued, Elements

\* env_create puts the new process in front.
LEMMA CreateImplements ==
    ASSUME IInv, TypeOK', NEW s \in Seq(Env), Queued(s), NEW p \in Priorities, env_create(p)
    PROVE  Implements
<1>1. boot > 0 /\ curenv = NULL /\ curenv' = NULL /\ TypeOK
  BY DEF env_create, IInv, TypeOK, CurInv
<1>2. PICK e \in Env :
         /\ env_alloc(e, 0)
         /\ env_status' = [env_status EXCEPT ![e] = "RUNNABLE"]
         /\ sched' = TAILQ_INSERT_HEAD(sched, e)
  BY DEF env_create
<1>3. e \notin Runnable
  <2>1. env_free_list # <<>> /\ e = Head(env_free_list)
    BY <1>2 DEF env_alloc, env_alloc_id
  <2> QED BY <2>1, FreeHead
<1>4. Runnable' = Runnable \cup {e}
  BY <1>1, <1>2 DEF TypeOK, Runnable
<1>5. sched \in Tailqs(Env) /\ Lists(sched, s) /\ e \notin Elements(s) /\ Runnable = Elements(s)
  BY <1>1, <1>3 DEF TypeOK, Queued
<1>6. PICK t : t = <<e>> \o s
  OBVIOUS
<1>7. t \in Seq(Env) /\ Lists(sched', t) /\ Elements(t) = Elements(s) \cup {e}
  BY <1>2, <1>5, <1>6, EnvPrepend
<1>8. (Queued(t))'
  BY <1>4, <1>5, <1>7 DEF Queued
<1>9. Running = NULL /\ Running' = NULL
  BY <1>1 DEF Running
<1>10. Follows(s, t)
  BY <1>1, <1>8 DEF Follows
<1>11. \A i \in 1..Len(s) : s[i] # e
  BY <1>5 DEF Elements
<1>12. Abstract!Next
  BY <1>6, <1>7, <1>9, <1>10, <1>11, BootStep
<1>13. SeqInv'
  BY <1>7, <1>8 DEF SeqInv
<1> QED BY <1>12, <1>13 DEF Implements

\* A time slice and a yield start the queue, rotate it or leave it alone.
LEMMA DispatchImplements ==
    ASSUME IInv, TypeOK', NEW s \in Seq(Env), Queued(s), sched.ok, NEW yield \in BOOLEAN,
           schedule(yield, curenv, env_status, sched, env_ran), env_status' = env_status
    PROVE  Implements
<1>1. TypeOK /\ Runnable' = Runnable /\ Runnable = Elements(s) /\ Lists(sched, s)
  BY DEF IInv, Runnable, Queued
<1>2. curenv # NULL => s # <<>> /\ curenv = s[1] /\ curenv \in Env /\ env_status[curenv] = "RUNNABLE"
  BY RunningIsFirst DEF Runnable
<1>3. PICK t \in Seq(Env) : Dispatched(s, t, curenv, env_status)
  <2>1. /\ env_status \in [Env -> {"FREE", "RUNNABLE", "NOT_RUNNABLE"}]
        /\ sched \in Tailqs(Env) /\ curenv \in Env \cup {NULL}
        /\ env_ran \in [Env -> BOOLEAN]
    BY <1>1 DEF TypeOK
  <2>2. RunnableIn(env_status) = Elements(s)
    BY <1>1 DEF Runnable, RunnableIn
  <2>3. Dispatching(s, sched, curenv, env_status, env_ran, yield)
    BY <1>1, <1>2, <2>1, <2>2 DEF Dispatching
  <2> QED BY <2>3, ScheduleQueue
<1>4. (Queued(t))' /\ Follows(s, t)
  BY <1>1, <1>3 DEF Dispatched, Queued, Follows
<1>5. SeqInv'
  BY <1>4 DEF SeqInv
<1>6. Running = curenv
  BY DEF Running
<1>7. CASE curenv = NULL
  <2>1. t = s /\ Running' = IF s = <<>> THEN NULL ELSE s[1]
    BY <1>3, <1>7 DEF Dispatched
  <2>2. CASE s = <<>>
    <3>1. UNCHANGED <<SchedSeq, Running>>
      BY <1>4, <1>6, <1>7, <2>1, <2>2, StutterStep
    <3> QED BY <1>5, <3>1 DEF Implements
  <2>3. CASE s # <<>>
    <3>1. Abstract!Next
      BY <1>4, <1>6, <1>7, <2>1, <2>3, StartStep
    <3> QED BY <1>5, <3>1 DEF Implements
  <2> QED BY <2>2, <2>3
<1>8. CASE curenv # NULL
  <2>1. CASE t = Append(Tail(s), curenv) /\ Running' = t[1]
    <3>1. Abstract!Next
      BY <1>2, <1>4, <1>6, <1>8, <2>1, RotateStep
    <3> QED BY <1>5, <3>1 DEF Implements
  <2>2. CASE t = s /\ Running' = curenv
    <3>1. UNCHANGED <<SchedSeq, Running>>
      BY <1>4, <1>6, <2>2, StutterStep
    <3> QED BY <1>5, <3>1 DEF Implements
  <2> QED BY <1>2, <1>3, <1>8, <2>1, <2>2 DEF Dispatched
<1> QED BY <1>7, <1>8

\* Waking an environment that is not RUNNABLE.
LEMMA JoinImplements ==
    ASSUME IInv, TypeOK', NEW s \in Seq(Env), Queued(s), NEW e \in Env, e \notin Runnable,
           env_status' = [env_status EXCEPT ![e] = "RUNNABLE"],
           sched' = TAILQ_INSERT_TAIL(sched, e), curenv' = curenv
    PROVE  Implements
<1>1. TypeOK /\ Runnable = Elements(s) /\ Lists(sched, s) /\ sched \in Tailqs(Env)
  BY DEF IInv, TypeOK, Queued
<1>2. Runnable' = Runnable \cup {e}
  BY <1>1 DEF TypeOK, Runnable
<1>3. PICK t : t = Append(s, e)
  OBVIOUS
<1>4. /\ TAILQ_INSERT_TAIL(sched, e).ok = sched.ok
      /\ Append(s, e) \in Seq(Env)
      /\ Lists(TAILQ_INSERT_TAIL(sched, e), Append(s, e))
      /\ Elements(Append(s, e)) = Elements(s) \cup {e}
  BY <1>1, EnvAppend
<1>5. t \in Seq(Env) /\ (Queued(t))' /\ Follows(s, t) /\ Running' = Running
  BY <1>1, <1>2, <1>3, <1>4 DEF Queued, Follows, Running
<1>6. \A i \in 1..Len(s) : s[i] # e
  BY <1>1 DEF Elements
<1>7. Abstract!Next
  BY <1>3, <1>5, <1>6, JoinStep
<1>8. SeqInv'
  BY <1>5 DEF SeqInv
<1> QED BY <1>7, <1>8 DEF Implements

\* Stopping a process that is RUNNABLE and does not run.
LEMMA StopImplements ==
    ASSUME IInv, TypeOK', NEW s \in Seq(Env), Queued(s), NEW e \in Runnable, sched.ok, e # curenv,
           NEW st \in {"FREE", "NOT_RUNNABLE"}, env_status' = [env_status EXCEPT ![e] = st],
           sched' = TAILQ_REMOVE(sched, e), curenv' = curenv
    PROVE  Implements
<1>1. TypeOK /\ Runnable = Elements(s) /\ Lists(sched, s) /\ sched \in Tailqs(Env) /\ e \in Env
  BY DEF IInv, TypeOK, Queued, Runnable
<1>2. Runnable' = Runnable \ {e}
  BY <1>1 DEF TypeOK, Runnable
<1>3. PICK k \in 1..Len(s) : s[k] = e
  BY PlaceOf
<1>4. PICK t : t = Without(s, k)
  OBVIOUS
<1>5. /\ TAILQ_REMOVE(sched, s[k]).ok = sched.ok
      /\ Without(s, k) \in Seq(Env)
      /\ Lists(TAILQ_REMOVE(sched, s[k]), Without(s, k))
      /\ Elements(Without(s, k)) = Elements(s) \ {s[k]}
  BY <1>1, EnvRemove
<1>6. t \in Seq(Env) /\ (Queued(t))' /\ Follows(s, t) /\ Running' = curenv /\ Running = curenv
  BY <1>1, <1>2, <1>3, <1>4, <1>5 DEF Queued, Follows, Running
<1>7. Abstract!Next
  BY <1>1, <1>3, <1>4, <1>6, LeaveStep
<1>8. SeqInv'
  BY <1>6 DEF SeqInv
<1> QED BY <1>7, <1>8 DEF Implements

\* Stopping the running process and dispatching the next one; sys_ipc_recv enters
\* schedule with curenv still set, sys_env_destroy has cleared it.
LEMMA StopRunningImplements ==
    ASSUME IInv, TypeOK', NEW s \in Seq(Env), Queued(s), sched.ok, curenv # NULL,
           NEW new \in {"FREE", "NOT_RUNNABLE"},
           NEW st, st = [env_status EXCEPT ![curenv] = new], env_status' = st,
           NEW e \in {curenv, NULL},
           schedule(TRUE, e, st, TAILQ_REMOVE(sched, curenv), env_ran)
    PROVE  Implements
<1>1. TypeOK /\ Runnable = Elements(s) /\ Lists(sched, s) /\ sched \in Tailqs(Env)
  BY DEF IInv, TypeOK, Queued
<1>2. curenv \in Env /\ curenv \in Runnable
  BY RunningIsFirst
<1>3. /\ st \in [Env -> {"FREE", "RUNNABLE", "NOT_RUNNABLE"}]
      /\ st[curenv] # "RUNNABLE"
      /\ RunnableIn(st) = Runnable \ {curenv}
      /\ Runnable' = Runnable \ {curenv}
  BY <1>1, <1>2 DEF TypeOK, Runnable, RunnableIn
<1>4. PICK k \in 1..Len(s) : s[k] = curenv
  BY <1>2, PlaceOf
<1>5. PICK u, q : u = Without(s, k) /\ q = TAILQ_REMOVE(sched, curenv)
  OBVIOUS
<1>6. /\ TAILQ_REMOVE(sched, s[k]) \in Tailqs(Env)
      /\ TAILQ_REMOVE(sched, s[k]).ok = sched.ok
      /\ Without(s, k) \in Seq(Env)
      /\ Lists(TAILQ_REMOVE(sched, s[k]), Without(s, k))
      /\ Elements(Without(s, k)) = Elements(s) \ {s[k]}
  BY <1>1, EnvRemove
<1>7. /\ q \in Tailqs(Env) /\ q.ok /\ u \in Seq(Env) /\ Lists(q, u)
      /\ RunnableIn(st) = Elements(u)
      /\ Runnable' = Elements(u)
  BY <1>1, <1>3, <1>4, <1>5, <1>6
<1>8. PICK yield \in BOOLEAN : schedule(yield, e, st, q, env_ran)
  BY <1>5
<1>9. e \in Env \cup {NULL} /\ (e = NULL \/ st[e] # "RUNNABLE") /\ env_ran \in [Env -> BOOLEAN]
  BY <1>1, <1>2, <1>3 DEF TypeOK
<1>10. PICK t \in Seq(Env) : Dispatched(u, t, e, st)
  <2>1. Dispatching(u, q, e, st, env_ran, yield)
    BY <1>1, <1>3, <1>7, <1>8, <1>9 DEF Dispatching
  <2> QED BY <2>1, ScheduleQueue
<1>11. t = u /\ Lists(sched', u) /\ Running' = IF u = <<>> THEN NULL ELSE u[1]
  BY <1>9, <1>10 DEF Dispatched
<1>12. (Queued(u))' /\ Follows(s, u) /\ Running = curenv
  BY <1>1, <1>7, <1>10, <1>11 DEF Queued, Follows, Running
<1>13. Abstract!Next
  BY <1>2, <1>4, <1>5, <1>7, <1>11, <1>12, LeaveStep
<1>14. SeqInv'
  BY <1>7, <1>12 DEF SeqInv
<1> QED BY <1>13, <1>14 DEF Implements

\* Every step of the kernel is a step of SchedQueue.
LEMMA NextImplements == IInv /\ IInv' /\ SeqInv /\ [Next]_vars => Implements
<1> SUFFICES ASSUME IInv, IInv', SeqInv, [Next]_vars PROVE Implements
  OBVIOUS
<1>0. TypeOK /\ TypeOK'
  BY DEF IInv
<1>s. PICK s \in Seq(Env) : Queued(s)
  BY DEF SeqInv
<1>1. CASE \E p \in Priorities : env_create(p)
  BY <1>0, <1>s, <1>1, CreateImplements
<1>2. CASE handle_int
  BY <1>0, <1>s, <1>2, DispatchImplements DEF handle_int
<1>3. CASE sys_yield
  BY <1>0, <1>s, <1>3, DispatchImplements DEF sys_yield, InUserMode, CurenvRuns
<1>4. CASE sys_exofork
  <2>1. PICK e \in Env : /\ env_alloc(e, env_id[curenv])
                         /\ env_status' = [env_status EXCEPT ![e] = "NOT_RUNNABLE"]
    BY <1>4 DEF sys_exofork
  <2>2. UNCHANGED <<sched, curenv>>
    BY <1>4 DEF sys_exofork
  <2>3. e \notin Runnable
    <3>1. env_free_list # <<>> /\ e = Head(env_free_list)
      BY <2>1 DEF env_alloc, env_alloc_id
    <3> QED BY <3>1, FreeHead
  <2>4. Runnable' = Runnable
    BY <1>0, <2>1, <2>3 DEF TypeOK, Runnable
  <2> QED BY <1>0, <1>s, <2>2, <2>4, SameQueue
<1>5. CASE sys_exofork_no_asid \/ sys_cgetc \/ sys_cgetc_return \/ UNCHANGED vars
  <2>1. UNCHANGED <<env_status, sched, curenv>>
    BY <1>5 DEF sys_exofork_no_asid, sys_cgetc, sys_cgetc_return, vars
  <2>2. Runnable' = Runnable
    BY <2>1 DEF Runnable
  <2> QED BY <1>0, <1>s, <2>1, <2>2, SameQueue
<1>6. CASE sys_ipc_recv
  <2>1. PICK st : st = [env_status EXCEPT ![curenv] = "NOT_RUNNABLE"]
    OBVIOUS
  <2>2. /\ sched.ok /\ curenv # NULL /\ env_status' = st
        /\ schedule(TRUE, curenv, st, TAILQ_REMOVE(sched, curenv), env_ran)
    BY <1>6, <2>1 DEF sys_ipc_recv, InUserMode, CurenvRuns
  <2>3. "NOT_RUNNABLE" \in {"FREE", "NOT_RUNNABLE"} /\ curenv \in {curenv, NULL}
    OBVIOUS
  <2> QED BY <1>0, <1>s, <2>1, <2>2, <2>3, StopRunningImplements
<1>7. CASE \E id \in EnvIds : sys_ipc_try_send(id)
  <2>1. PICK id \in EnvIds : sys_ipc_try_send(id)
    BY <1>7
  <2>2. PICK e : e = envid2env(id, FALSE)
    OBVIOUS
  <2>3. /\ InUserMode /\ e # NULL /\ env_ipc_recving[e]
        /\ env_status' = [env_status EXCEPT ![e] = "RUNNABLE"]
        /\ sched' = TAILQ_INSERT_TAIL(sched, e)
        /\ curenv' = curenv
    BY <2>1, <2>2 DEF sys_ipc_try_send
  <2>4. e \in Env
    BY <2>2, <2>3, EnvidNamesLive
  <2>5. e \notin Runnable
    BY <2>3, <2>4 DEF IInv, ReceivingIsBlocked, InUserMode, CurenvRuns, Runnable
  <2> QED BY <1>0, <1>s, <2>3, <2>4, <2>5, JoinImplements
<1>8. CASE \E id \in EnvIds, st \in Statuses :
              InUserMode /\ CarefulStart(id) /\ sys_set_env_status(id, st)
  <2>1. PICK id \in EnvIds, st \in Statuses :
           InUserMode /\ CarefulStart(id) /\ sys_set_env_status(id, st)
    BY <1>8
  <2>2. PICK e : e = envid2env(id, TRUE)
    OBVIOUS
  <2>3. /\ e # NULL /\ e # curenv
        /\ sched' = IF env_status[e] = "RUNNABLE" /\ st = "NOT_RUNNABLE"
                    THEN TAILQ_REMOVE(sched, e)
                    ELSE IF env_status[e] = "NOT_RUNNABLE" /\ st = "RUNNABLE"
                    THEN TAILQ_INSERT_TAIL(sched, e)
                    ELSE sched
        /\ env_status' = [env_status EXCEPT ![e] = st]
        /\ curenv' = curenv /\ sched.ok
    BY <2>1, <2>2 DEF CarefulStart, sys_set_env_status, InUserMode, CurenvRuns
  <2>4. e \in Env /\ env_status[e] # "FREE"
    BY <2>1, <2>2, <2>3, EnvidNamesLive
  <2>5. CASE env_status[e] = "RUNNABLE" /\ st = "NOT_RUNNABLE"
    <3>1. e \in Runnable /\ sched' = TAILQ_REMOVE(sched, e)
      BY <2>3, <2>4, <2>5 DEF Runnable
    <3> QED BY <1>0, <1>s, <2>3, <2>5, <3>1, StopImplements
  <2>6. CASE env_status[e] = "NOT_RUNNABLE" /\ st = "RUNNABLE"
    <3>1. e \notin Runnable /\ sched' = TAILQ_INSERT_TAIL(sched, e)
      BY <2>3, <2>4, <2>6 DEF Runnable
    <3> QED BY <1>0, <1>s, <2>3, <2>4, <2>6, <3>1, JoinImplements
  <2>7. CASE env_status[e] = st
    <3>1. sched' = sched /\ Runnable' = Runnable
      BY <1>0, <2>3, <2>4, <2>7 DEF Runnable, TypeOK
    <3> QED BY <1>0, <1>s, <2>3, <3>1, SameQueue
  <2>8. env_status[e] \in Statuses
    BY <1>0, <2>4 DEF TypeOK, Statuses
  <2> QED BY <2>1, <2>5, <2>6, <2>7, <2>8 DEF Statuses
<1>9. CASE \E id \in EnvIds : InUserMode /\ CarefulDestroy(id) /\ sys_env_destroy(id)
  <2>1. PICK id \in EnvIds : InUserMode /\ CarefulDestroy(id) /\ sys_env_destroy(id)
    BY <1>9
  <2>2. PICK e, st : e = envid2env(id, TRUE) /\ st = [env_status EXCEPT ![e] = "FREE"]
    OBVIOUS
  <2>3. /\ e # NULL /\ env_status[e] = "RUNNABLE" /\ sched.ok /\ curenv # NULL
        /\ env_status' = st
        /\ IF e = curenv
           THEN schedule(TRUE, NULL, st, TAILQ_REMOVE(sched, e), env_ran)
           ELSE sched' = TAILQ_REMOVE(sched, e) /\ UNCHANGED <<curenv, count, env_ran>>
    BY <2>1, <2>2 DEF CarefulDestroy, sys_env_destroy, InUserMode, CurenvRuns
  <2>4. e \in Env /\ e \in Runnable
    BY <2>1, <2>2, <2>3, EnvidNamesLive DEF Runnable
  <2>5. "FREE" \in {"FREE", "NOT_RUNNABLE"} /\ NULL \in {curenv, NULL}
    OBVIOUS
  <2>6. CASE e = curenv
    BY <1>0, <1>s, <2>2, <2>3, <2>5, <2>6, StopRunningImplements
  <2>7. CASE e # curenv
    BY <1>0, <1>s, <2>2, <2>3, <2>4, <2>5, <2>7, StopImplements
  <2> QED BY <2>6, <2>7
<1> QED
  BY <1>1, <1>2, <1>3, <1>4, <1>5, <1>6, <1>7, <1>8, <1>9 DEF Next, Always

\* env_init makes an empty queue.
LEMMA InitQueued == Init => Queued(<<>>)
<1> SUFFICES ASSUME Init PROVE Queued(<<>>)
  OBVIOUS
<1>1. sched.first = NULL /\ sched.last = HEAD
  BY DEF Init, TAILQ_INIT
<1>2. Runnable = {}
  BY DEF Init, Runnable
<1> QED BY <1>1, <1>2 DEF Queued, Lists, Elements

\* There is always a sequence that env_sched_list is.
THEOREM SpecSeqInv == Spec => []SeqInv
<1>1. Init => SeqInv
  <2>1. <<>> \in Seq(Env)
    OBVIOUS
  <2> QED BY <2>1, InitQueued DEF SeqInv
<1>2. IInv /\ IInv' /\ SeqInv /\ [Next]_vars => SeqInv'
  BY NextImplements DEF Implements
<1> QED BY <1>1, <1>2, SpecIInv, PTL DEF Spec

\* env.c:18 as TLC checks it, by traversing the list: for any number of
\* environments a traversal ends, meets every RUNNABLE environment once and
\* nothing else, and stops where tqh_last points.
THEOREM ListIsRunnable == Spec => []SchedListIffRunnable
<1>1. IInv /\ SeqInv => SchedListIffRunnable
  <2> SUFFICES ASSUME IInv, SeqInv PROVE SchedListIffRunnable
    OBVIOUS
  <2>1. PICK s \in Seq(Env) : Queued(s)
    BY DEF SeqInv
  <2>2. sched \in Tailqs(Env) /\ Lists(sched, s) /\ Runnable = Elements(s)
    BY <2>1 DEF IInv, TypeOK, Queued
  <2>3. SchedSeq = s
    BY <2>2, Traversed DEF SchedSeq
  <2>4. IsFiniteSet(Env)
    <3>1. 0 \in Int /\ N \in Int
      BY NType
    <3> QED BY <3>1, NType, FS_Interval
  <2>5. \A i, j \in 1..Len(s) : s[i] = s[j] => i = j
    BY <2>2 DEF Lists
  <2>6. Cardinality(Elements(s)) = Len(s)
    BY <2>4, <2>5, DistinctElements DEF Elements
  <2>7. sched.last = IF s = <<>> THEN HEAD ELSE s[Len(s)]
    BY <2>2 DEF Lists
  <2>8. {s[i] : i \in DOMAIN s} = Runnable
    BY <2>2 DEF Elements
  <2> QED BY <2>2, <2>3, <2>6, <2>7, <2>8 DEF SchedListIffRunnable
<1> QED BY <1>1, SpecIInv, SpecSeqInv, PTL

\* sched.c implements SchedQueue, step by step, for any number of environments.
THEOREM SchedulerIsAQueue == Spec => RefinesSchedQueue
<1>1. Init => Abstract!Init
  <2> SUFFICES ASSUME Init PROVE Abstract!Init
    OBVIOUS
  <2>1. sched \in Tailqs(Env) /\ Lists(sched, <<>>) /\ <<>> \in Seq(Env)
    BY InitIInv, InitQueued DEF IInv, TypeOK, Queued
  <2>2. SchedSeq = <<>>
    BY <2>1, Traversed DEF SchedSeq
  <2>3. Running = NULL
    BY DEF Init, Running
  <2> QED BY <2>2, <2>3 DEF Abstract!Init
<1>2. IInv /\ IInv' /\ SeqInv /\ [Next]_vars => [Abstract!Next]_<<SchedSeq, Running>>
  BY NextImplements DEF Implements
<1> QED BY <1>1, <1>2, SpecIInv, SpecSeqInv, PTL DEF Spec, RefinesSchedQueue, Abstract!Spec
=============================================================================
