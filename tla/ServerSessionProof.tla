------------------------- MODULE ServerSessionProof --------------------------
(***************************************************************************)
(* The sessions of the TCP server, for any number of blocks and objects:   *)
(* the lists of accept_thread stay well formed and nothing is used after   *)
(* it was freed, the vectors name the objects of their sessions, and these *)
(* are released in the order they were made from one another.              *)
(***************************************************************************)
EXTENDS ServerSession, FiniteSetTheorems, SequenceTheorems, WellFoundedInduction, TLAPS

-----------------------------------------------------------------------------
(* Linked lists *)

\* The list of the k nodes s, from its head along next.
List(next, head, k, s) ==
    /\ s \in [1..k -> Nodes]
    /\ \A i, j \in 1..k : s[i] = s[j] => i = j
    /\ head = IF k = 0 THEN Null ELSE s[1]
    /\ \A i \in 1..k : next[s[i]] = IF i = k THEN Null ELSE s[i + 1]

\* The nodes of s are linked the other way round along back.
Back(back, k, s) == \A i \in 1..k : back[s[i]] = IF i = 1 THEN Null ELSE s[i - 1]

\* The nodes in it.
Elements(k, s) == {s[i] : i \in 1..k}

\* A nonempty set of natural numbers has a least element.
LEMMA Least ==
    ASSUME NEW T \in SUBSET Nat, T # {}
    PROVE  \E x \in T : \A y \in T : x <= y
<1>1. IsWellFoundedOn(OpToRel(<, Nat), Nat)
  BY NatLessThanWellFounded
<1>2. PICK x \in T : \A y \in T : <<y, x>> \notin OpToRel(<, Nat)
  BY <1>1, WFMin
<1>3. OpToRel(<, Nat) = {ss \in Nat \X Nat : ss[1] < ss[2]}
  BY Zenon DEF OpToRel
<1>4. \A y \in T : <<y, x>> \notin {ss \in Nat \X Nat : ss[1] < ss[2]}
  BY <1>2, <1>3, Zenon
<1>5. ASSUME NEW y \in T PROVE x <= y
  <2>1. x \in Nat /\ y \in Nat
    OBVIOUS
  <2>2. <<y, x>> \in Nat \X Nat /\ ~(<<y, x>>[1] < <<y, x>>[2])
    BY <1>4, <2>1
  <2> QED
    BY <2>1, <2>2
<1> QED
  BY <1>5

\* What Walk meets along a list: its nodes in their order, then Null.
LEMMA WalkOfList ==
    ASSUME IsFiniteSet(Nodes), Null \notin Nodes, NEW h, NEW k \in Nat,
           k <= Cardinality(Nodes), NEW s, List(node2, h, k, s)
    PROVE  Walk(h) = [i \in 0..Cardinality(Nodes) |-> IF i < k THEN s[i + 1] ELSE Null]
<1> DEFINE N == Cardinality(Nodes)
           step(f) == [i \in 0..N |-> IF i = 0 THEN h
                                      ELSE IF f[i - 1] = Null THEN Null ELSE node2[f[i - 1]]]
           met == [i \in 0..N |-> IF i < k THEN s[i + 1] ELSE Null]
<1>1. N \in Nat
  BY FS_CardinalityType
<1> HIDE DEF N
<1>2. met = step(met)
  <2> SUFFICES ASSUME NEW i \in 0..N
               PROVE  met[i] = IF i = 0 THEN h
                               ELSE IF met[i - 1] = Null THEN Null ELSE node2[met[i - 1]]
    OBVIOUS
  <2>1. CASE i = 0
    BY <1>1, <2>1 DEF List
  <2>2. CASE i # 0
    <3>1. i - 1 \in 0..N /\ i \in Nat /\ i - 1 \in Nat
      BY <1>1, <2>2
    <3>2. CASE i - 1 < k
      <4>1. met[i - 1] = s[i] /\ s[i] \in Nodes
        BY <3>1, <3>2 DEF List
      <4>2. node2[s[i]] = IF i = k THEN Null ELSE s[i + 1]
        BY <3>1, <3>2, <2>2 DEF List
      <4> QED
        BY <4>1, <4>2, <2>2, <3>1, <3>2
    <3>3. CASE ~(i - 1 < k)
      BY <2>2, <3>1, <3>3
    <3> QED
      BY <3>2, <3>3
  <2> QED
    BY <2>1, <2>2
<1>3. Walk(h) = step(Walk(h))
  BY <1>2 DEF Walk, N
<1> HIDE DEF met
<1>4. ASSUME NEW j \in 0..N, Walk(h)[j] # met[j] PROVE FALSE
  <2> DEFINE T == {i \in 0..N : Walk(h)[i] # met[i]}
  <2>1. PICK i \in T : \A y \in T : i <= y
    <3>1. T \in SUBSET Nat /\ T # {}
      BY <1>1, <1>4
    <3> HIDE DEF T
    <3> QED
      BY <3>1, Least
  <2>2. i # 0
    BY <1>2, <1>3, <2>1, <1>1
  <2>3. i - 1 \in 0..N /\ i - 1 \notin T
    BY <2>1, <2>2, <1>1
  <2>4. Walk(h)[i - 1] = met[i - 1]
    BY <2>3
  <2>5. Walk(h)[i] = met[i]
    BY <2>4, <1>2, <1>3, <1>1
  <2> QED
    BY <2>1, <2>5
<1> QED
  BY <1>2, <1>3, <1>4 DEF met, N

\* The nodes a list has are those Walk meets, and Walk gets to its end.
LEMMA ReachOfList ==
    ASSUME IsFiniteSet(Nodes), Null \notin Nodes, NEW h, NEW k \in Nat,
           NEW s, List(node2, h, k, s)
    PROVE  Ends(h) /\ Reach(h) = Elements(k, s)
<1> DEFINE N == Cardinality(Nodes)
<1>1. N \in Nat
  BY FS_CardinalityType
<1>2. k <= N
  <2>1. s \in Injection(1..k, Nodes)
    BY DEF List, Injection, IsInjective
  <2>2. Cardinality(1..k) <= N
    BY <2>1, FS_Injection
  <2>3. Cardinality(1..k) = k
    BY FS_Interval
  <2> QED
    BY <2>2, <2>3
<1>3. Walk(h) = [i \in 0..N |-> IF i < k THEN s[i + 1] ELSE Null]
  BY <1>2, WalkOfList
<1> HIDE DEF N
<1>4. Ends(h)
  BY <1>1, <1>2, <1>3 DEF Ends, N
<1>5. ASSUME NEW n \in Reach(h) PROVE n \in Elements(k, s)
  <2>1. PICK i \in 0..N : n = IF i < k THEN s[i + 1] ELSE Null
    BY <1>3, <1>5 DEF Reach, Range
  <2>2. i < k /\ i + 1 \in 1..k
    BY <2>1, <1>1, <1>5 DEF Reach
  <2> QED
    BY <2>1, <2>2 DEF Elements
<1>6. ASSUME NEW i \in 1..k PROVE s[i] \in Reach(h)
  <2>1. i - 1 \in 0..N /\ i - 1 < k /\ s[i] # Null
    BY <1>1, <1>2 DEF List
  <2>2. Walk(h)[i - 1] = s[i]
    BY <1>3, <2>1
  <2> QED
    BY <2>1, <2>2, <1>3 DEF Reach, Range
<1> QED
  BY <1>4, <1>5, <1>6 DEF Elements

\* One more at the head; what links the others is as it was.
LEMMA ListCons ==
    ASSUME NEW next, NEW next1, NEW h, NEW k \in Nat, NEW s, List(next, h, k, s),
           NEW n \in Nodes, \A i \in 1..k : s[i] # n,
           next1[n] = h, \A i \in 1..k : next1[s[i]] = next[s[i]],
           NEW s1, s1 = [i \in 1..(k + 1) |-> IF i = 1 THEN n ELSE s[i - 1]]
    PROVE  List(next1, n, k + 1, s1)
<1>1. s1 \in [1..(k + 1) -> Nodes] /\ s1[1] = n
  BY DEF List
<1>2. \A i \in 1..(k + 1) : i # 1 => i - 1 \in 1..k /\ s1[i] = s[i - 1]
  OBVIOUS
<1>3. \A i, j \in 1..(k + 1) : s1[i] = s1[j] => i = j
  BY <1>1, <1>2 DEF List
<1>4. ASSUME NEW i \in 1..(k + 1)
      PROVE  next1[s1[i]] = IF i = k + 1 THEN Null ELSE s1[i + 1]
  <2>1. CASE i = 1
    BY <1>1, <2>1 DEF List
  <2>2. CASE i # 1
    BY <1>2, <2>2 DEF List
  <2> QED
    BY <2>1, <2>2
<1>5. n = IF k + 1 = 0 THEN Null ELSE s1[1]
  BY <1>1
<1>6. k + 1 \in Nat
  OBVIOUS
<1> QED
  BY <1>1, <1>3, <1>4, <1>5, <1>6 DEF List

\* Without the head; the rest is as it was.
LEMMA ListTail ==
    ASSUME NEW next, NEW next1, NEW h, NEW k \in Nat, k # 0, NEW s, List(next, h, k, s),
           \A i \in 1..k : i # 1 => next1[s[i]] = next[s[i]],
           NEW s1, s1 = [i \in 1..(k - 1) |-> s[i + 1]]
    PROVE  List(next1, next[h], k - 1, s1)
<1>1. \A i \in 1..(k - 1) : i + 1 \in 1..k /\ s1[i] = s[i + 1]
  OBVIOUS
<1>2. s1 \in [1..(k - 1) -> Nodes] /\ \A i, j \in 1..(k - 1) : s1[i] = s1[j] => i = j
  BY <1>1 DEF List
<1>3. next[h] = IF k - 1 = 0 THEN Null ELSE s1[1]
  BY DEF List
<1>4. ASSUME NEW i \in 1..(k - 1)
      PROVE  next1[s1[i]] = IF i = k - 1 THEN Null ELSE s1[i + 1]
  BY <1>1 DEF List
<1> QED
  BY <1>2, <1>3, <1>4 DEF List

\* Without the node at p: its older neighbour is linked to its younger one.
LEMMA ListRemove ==
    ASSUME NEW next, NEW next1, NEW h, NEW h1, NEW k \in Nat, NEW s, NEW s1,
           NEW p \in 1..k,
           List(next, h, k, s),
           \A i \in 1..k : i # p =>
              next1[s[i]] = IF i = p - 1 THEN next[s[p]] ELSE next[s[i]],
           h1 = IF p = 1 THEN next[s[p]] ELSE h,
           s1 = [i \in 1..(k - 1) |-> IF i < p THEN s[i] ELSE s[i + 1]]
    PROVE  List(next1, h1, k - 1, s1)
<1>1. \A i \in 1..(k - 1) : /\ i < p => i \in 1..k /\ s1[i] = s[i]
                            /\ ~(i < p) => i + 1 \in 1..k /\ s1[i] = s[i + 1]
  OBVIOUS
<1>2. s1 \in [1..(k - 1) -> Nodes]
  BY <1>1 DEF List
<1>3. \A i, j \in 1..(k - 1) : s1[i] = s1[j] => i = j
  BY <1>1 DEF List
<1>4. h1 = IF k - 1 = 0 THEN Null ELSE s1[1]
  BY DEF List
<1>5. ASSUME NEW i \in 1..(k - 1)
      PROVE  next1[s1[i]] = IF i = k - 1 THEN Null ELSE s1[i + 1]
  <2>1. CASE i < p - 1
    BY <1>1, <2>1 DEF List
  <2>2. CASE i = p - 1
    BY <1>1, <2>2 DEF List
  <2>3. CASE i > p - 1
    BY <1>1, <2>3 DEF List
  <2> QED
    BY <2>1, <2>2, <2>3
<1> QED
  BY <1>2, <1>3, <1>4, <1>5 DEF List
-----------------------------------------------------------------------------
(* The lists of the server *)

\* The threads whose nodes are in the list of children, and in the list of those
\* to delete.
Serving == {"check", "get", "wait", "exit", "release", "destroy"}
Leaving == {"unlock", "ended"}

\* Where the list of those to delete begins: accept_thread frees its nodes one by
\* one and sets dead at the end.
DeadHead == IF mutex = "accept" THEN cursor ELSE dead

Chained(k, s, m, t) ==
    /\ List(node2, young, k, s) /\ Back(node1, k, s)
    /\ List(node2, DeadHead, m, t)
    /\ \A n \in Nodes : pc[n] \in Serving <=> \E i \in 1..k : s[i] = n
    /\ \A n \in Nodes : pc[n] \in Leaving <=> \E i \in 1..m : t[i] = n
    /\ numChild = k + m

Lists == \E k, m \in Nat : \E s \in [1..k -> Nodes], t \in [1..m -> Nodes] : Chained(k, s, m, t)

ListTypes ==
    /\ server \in {"closed", "open", "closing"} /\ acc \in Accept
    /\ {cursor, young, dead} \subseteq Handle
    /\ mutex \in {"none", "accept"} \cup Nodes
    /\ numChild \in 0..ClientMax
    /\ node1 \in [Nodes -> Handle] /\ node2 \in [Nodes -> Handle]
    /\ alloc \subseteq Nodes
    /\ pc \in [Nodes -> Thread]

\* Who holds the mutex, what accept_thread has reached, and what is allocated.
Control ==
    /\ mutex = "accept" <=> acc \in {"deleting", "deletingLast"}
    /\ \A n \in Nodes : mutex = n <=> pc[n] = "unlock"
    /\ server = "closed" => acc = "none"
    /\ acc = "join" => cursor \in alloc
    /\ acc \in {"last", "deletingLast", "none"} => young = Null
    /\ acc = "none" => alloc = {}
    /\ \A n \in Nodes : pc[n] # "none" <=> n \in alloc

ListInv == ListTypes /\ Control /\ Lists

\* A step that leaves the lists alone.
LEMMA ListsKept ==
    ASSUME Lists, UNCHANGED <<node1, node2, young, numChild>>, DeadHead' = DeadHead,
           \A n \in Nodes : pc'[n] \in Serving <=> pc[n] \in Serving,
           \A n \in Nodes : pc'[n] \in Leaving <=> pc[n] \in Leaving
    PROVE  Lists'
<1>1. PICK k \in Nat, m \in Nat : \E s \in [1..k -> Nodes], t \in [1..m -> Nodes] :
        Chained(k, s, m, t)
  BY DEF Lists
<1>2. PICK s \in [1..k -> Nodes], t \in [1..m -> Nodes] : Chained(k, s, m, t)
  BY <1>1
<1>3. Chained(k, s, m, t)'
  BY <1>2 DEF Chained
<1> QED
  BY <1>3 DEF Lists

\* ADD_CHILD: the new node becomes the head of the children.
LEMMA ListsAdd ==
    ASSUME ListInv, NEW n \in Nodes, AddChild(n)
    PROVE  Lists'
<1>1. PICK k \in Nat, m \in Nat : \E s \in [1..k -> Nodes], t \in [1..m -> Nodes] :
        Chained(k, s, m, t)
  BY DEF ListInv, Lists
<1>2. PICK s \in [1..k -> Nodes], t \in [1..m -> Nodes] : Chained(k, s, m, t)
  BY <1>1
<1> DEFINE s1 == [i \in 1..(k + 1) |-> IF i = 1 THEN n ELSE s[i - 1]]
<1>3. pc[n] = "none" /\ pc' = [pc EXCEPT ![n] = "check"] /\ mutex = "none" /\ mutex' = mutex
  BY DEF AddChild, ListInv, Control
<1>4. /\ node2' = [node2 EXCEPT ![n] = young] /\ young' = n
      /\ node1' = [q \in Nodes |-> IF q = n THEN Null ELSE IF q = young THEN n ELSE node1[q]]
      /\ numChild' = numChild + 1 /\ dead' = dead /\ cursor' = cursor
  BY DEF AddChild
<1>5. (\A i \in 1..k : s[i] # n) /\ (\A i \in 1..m : t[i] # n)
  BY <1>2, <1>3 DEF Chained, Serving, Leaving
<1>6. List(node2', n, k + 1, s1)
  <2>1. node2'[n] = young /\ \A i \in 1..k : node2'[s[i]] = node2[s[i]]
    BY <1>4, <1>5 DEF ListInv, ListTypes
  <2>2. List(node2, young, k, s)
    BY <1>2 DEF Chained
  <2> QED
    BY <1>5, <2>1, <2>2, ListCons
<1>7. Back(node1', k + 1, s1)
  <2>1. \A i \in 1..(k + 1) : i # 1 => i - 1 \in 1..k /\ s1[i] = s[i - 1]
    OBVIOUS
  <2>2. ASSUME NEW i \in 1..(k + 1)
        PROVE  node1'[s1[i]] = IF i = 1 THEN Null ELSE s1[i - 1]
    <3>1. CASE i = 1
      BY <1>4, <3>1
    <3>2. CASE i = 2
      <4>1. s1[i] = s[1] /\ s[1] = young /\ young # n /\ young \in Nodes
        BY <1>2, <1>5, <2>1, <3>2 DEF Chained, List
      <4> QED
        BY <4>1, <1>4, <3>2
    <3>3. CASE i > 2
      <4>1. /\ s1[i] = s[i - 1] /\ i - 1 \in 1..k /\ i - 2 \in 1..k
            /\ s1[i - 1] = s[i - 2] /\ s[i - 1] # n /\ s[i - 1] \in Nodes
        BY <1>2, <1>5, <2>1, <3>3
      <4>2. s[i - 1] # young /\ node1[s[i - 1]] = s[i - 2]
        BY <1>2, <3>3, <4>1, SessionAssumption DEF Chained, List, Back
      <4> QED
        BY <4>1, <4>2, <1>4, <3>3
    <3> QED
      BY <3>1, <3>2, <3>3
  <2> QED
    BY <2>2 DEF Back
<1>8. List(node2', DeadHead', m, t)
  BY <1>2, <1>3, <1>4, <1>5 DEF Chained, List, DeadHead
<1>9. ASSUME NEW q \in Nodes
      PROVE  /\ pc'[q] \in Serving <=> \E i \in 1..(k + 1) : s1[i] = q
             /\ pc'[q] \in Leaving <=> \E i \in 1..m : t[i] = q
  <2>1. \A i \in 1..k : i + 1 \in 1..(k + 1) /\ s1[i + 1] = s[i]
    OBVIOUS
  <2>2. s1[1] = n /\ \A i \in 1..(k + 1) : i # 1 => i - 1 \in 1..k /\ s1[i] = s[i - 1]
    OBVIOUS
  <2>3. pc \in [Nodes -> Thread]
    BY DEF ListInv, ListTypes
  <2>4. CASE q = n
    BY <1>3, <1>5, <2>2, <2>3, <2>4 DEF Serving, Leaving
  <2>5. CASE q # n
    <3>1. pc'[q] = pc[q]
      BY <1>3, <2>3, <2>5
    <3>2. ASSUME NEW i \in 1..(k + 1), s1[i] = q PROVE \E j \in 1..k : s[j] = q
      BY <2>2, <2>5, <3>2
    <3>3. ASSUME NEW i \in 1..k, s[i] = q PROVE \E j \in 1..(k + 1) : s1[j] = q
      BY <2>1, <3>3
    <3> HIDE DEF s1
    <3> QED
      BY <3>1, <3>2, <3>3, <1>2 DEF Chained
  <2> QED
    BY <2>4, <2>5
<1>10. Chained(k + 1, s1, m, t)'
  <2>1. numChild' = k + 1 + m
    BY <1>2, <1>4 DEF Chained
  <2> QED
    BY <1>4, <1>6, <1>7, <1>8, <1>9, <2>1 DEF Chained
<1>11. k + 1 \in Nat /\ s1 \in [1..(k + 1) -> Nodes]
  BY <1>6 DEF List
<1> QED
  BY <1>10, <1>11 DEF Lists

\* DELETE_CHILD frees the head of the list of those to delete.
LEMMA ListsDelete ==
    ASSUME ListInv, DeleteNode
    PROVE  Lists' /\ cursor \in Nodes /\ pc[cursor] = "ended"
<1>1. PICK k \in Nat, m \in Nat : \E s \in [1..k -> Nodes], t \in [1..m -> Nodes] :
        Chained(k, s, m, t)
  BY DEF ListInv, Lists
<1>2. PICK s \in [1..k -> Nodes], t \in [1..m -> Nodes] : Chained(k, s, m, t)
  BY <1>1
<1> DEFINE t1 == [i \in 1..(m - 1) |-> t[i + 1]]
<1>3. /\ mutex = "accept" /\ mutex' = mutex /\ DeadHead = cursor
      /\ cursor \in Nodes /\ pc[cursor] = "ended" /\ pc \in [Nodes -> Thread]
  BY DEF DeleteNode, ListInv, ListTypes, Control, DeadHead, Handle
<1>4. /\ node1' = [node1 EXCEPT ![cursor] = Null] /\ node2' = [node2 EXCEPT ![cursor] = Null]
      /\ cursor' = node2[cursor] /\ pc' = [pc EXCEPT ![cursor] = "none"]
      /\ numChild' = numChild - 1 /\ young' = young
  BY DEF DeleteNode
<1>5. m # 0 /\ t[1] = cursor /\ (\A i \in 1..m : i # 1 => t[i] # cursor)
  BY <1>2, <1>3, SessionAssumption DEF Chained, List
<1>6. \A i \in 1..k : s[i] # cursor
  BY <1>2, <1>3 DEF Chained, Serving
<1>7. List(node2', DeadHead', m - 1, t1)
  <2>1. \A i \in 1..m : i # 1 => node2'[t[i]] = node2[t[i]]
    BY <1>4, <1>5 DEF ListInv, ListTypes
  <2>2. List(node2, cursor, m, t)
    BY <1>2, <1>3 DEF Chained
  <2>3. List(node2', node2[cursor], m - 1, t1)
    BY <1>5, <2>1, <2>2, ListTail
  <2> QED
    BY <2>3, <1>3, <1>4 DEF DeadHead
<1>8. List(node2', young', k, s) /\ Back(node1', k, s)
  BY <1>2, <1>4, <1>6 DEF Chained, List, Back, ListInv, ListTypes
<1>9. ASSUME NEW q \in Nodes
      PROVE  /\ pc'[q] \in Serving <=> \E i \in 1..k : s[i] = q
             /\ pc'[q] \in Leaving <=> \E i \in 1..(m - 1) : t1[i] = q
  <2>1. \A i \in 1..(m - 1) : i + 1 \in 1..m /\ i + 1 # 1 /\ t1[i] = t[i + 1]
    OBVIOUS
  <2>2. \A i \in 1..m : i # 1 => i - 1 \in 1..(m - 1) /\ t1[i - 1] = t[i]
    BY <1>5
  <2>3. CASE q = cursor
    BY <1>3, <1>4, <1>5, <1>6, <2>1, <2>3 DEF Serving, Leaving
  <2>4. CASE q # cursor
    <3>1. pc'[q] = pc[q]
      BY <1>3, <1>4, <2>4
    <3>2. ASSUME NEW i \in 1..(m - 1), t1[i] = q PROVE \E j \in 1..m : t[j] = q
      BY <2>1, <3>2
    <3>3. ASSUME NEW i \in 1..m, t[i] = q PROVE \E j \in 1..(m - 1) : t1[j] = q
      BY <2>2, <2>4, <3>3, <1>5
    <3> HIDE DEF t1
    <3> QED
      BY <3>1, <3>2, <3>3, <1>2 DEF Chained
  <2> QED
    BY <2>3, <2>4
<1>10. Chained(k, s, m - 1, t1)'
  <2>1. numChild' = k + (m - 1)
    BY <1>2, <1>4 DEF Chained
  <2> QED
    BY <1>7, <1>8, <1>9, <2>1 DEF Chained
<1>11. m - 1 \in Nat /\ t1 \in [1..(m - 1) -> Nodes]
  BY <1>5, <1>7 DEF List
<1> QED
  BY <1>3, <1>10, <1>11 DEF Lists

\* DESTROY_SELF: the node goes from the children to the head of those to delete.
LEMMA ListsDestroy ==
    ASSUME ListInv, NEW n \in Nodes, Destroy(n)
    PROVE  Lists'
<1>1. PICK k \in Nat, m \in Nat : \E s \in [1..k -> Nodes], t \in [1..m -> Nodes] :
        Chained(k, s, m, t)
  BY DEF ListInv, Lists
<1>2. PICK s \in [1..k -> Nodes], t \in [1..m -> Nodes] : Chained(k, s, m, t)
  BY <1>1
<1>3. /\ mutex = "none" /\ mutex' # "accept" /\ DeadHead = dead /\ DeadHead' = n
      /\ pc[n] = "destroy" /\ pc' = [pc EXCEPT ![n] = "unlock"] /\ pc \in [Nodes -> Thread]
  BY SessionAssumption DEF Destroy, Goto, ListInv, ListTypes, DeadHead
<1>4. PICK p \in 1..k : s[p] = n
  BY <1>2, <1>3 DEF Chained, Serving
<1>5. /\ \A i \in 1..k : i # p => s[i] # n
      /\ \A i \in 1..m : t[i] # n
      /\ \A i \in 1..k, j \in 1..m : s[i] # t[j]
  <2>1. \A i \in 1..k : i # p => s[i] # n
    BY <1>2, <1>4 DEF Chained, List
  <2>2. \A i \in 1..m : t[i] # n
    BY <1>2, <1>3 DEF Chained, Leaving
  <2>3. ASSUME NEW i \in 1..k, NEW j \in 1..m, s[i] = t[j] PROVE FALSE
    <3>1. s[i] \in Nodes
      OBVIOUS
    <3>2. pc[s[i]] \in Serving /\ pc[s[i]] \in Leaving
      BY <1>2, <2>3, <3>1 DEF Chained
    <3> QED
      BY <3>2 DEF Serving, Leaving
  <2> QED
    BY <2>1, <2>2, <2>3
<1>6. /\ node1[n] = (IF p = 1 THEN Null ELSE s[p - 1])
      /\ node2[n] = (IF p = k THEN Null ELSE s[p + 1])
      /\ dead = (IF m = 0 THEN Null ELSE t[1])
  BY <1>2, <1>3, <1>4 DEF Chained, List, Back
<1>7. /\ young' = IF node1[n] = Null THEN node2[n] ELSE young
      /\ numChild' = numChild
      /\ \A q \in Nodes : node2'[q] = IF q = n THEN dead
                                      ELSE IF q = node1[n] THEN node2[n] ELSE node2[q]
      /\ \A q \in Nodes : node1'[q] = IF q = dead THEN n
                                      ELSE IF q = node2[n] THEN node1[n] ELSE node1[q]
  BY DEF Destroy
<1> DEFINE s1 == [i \in 1..(k - 1) |-> IF i < p THEN s[i] ELSE s[i + 1]]
           t1 == [i \in 1..(m + 1) |-> IF i = 1 THEN n ELSE t[i - 1]]
<1>8. List(node2', young', k - 1, s1)
  <2>1. ASSUME NEW i \in 1..k, i # p
        PROVE  node2'[s[i]] = IF i = p - 1 THEN node2[s[p]] ELSE node2[s[i]]
    <3>1. s[i] \in Nodes /\ s[i] # n /\ s[i] # Null
      BY <1>5, <2>1, SessionAssumption
    <3>2. s[i] = node1[n] <=> i = p - 1
      BY <1>2, <1>6, <2>1, <3>1 DEF Chained, List
    <3> QED
      BY <1>4, <1>7, <3>1, <3>2
  <2>2. young' = IF p = 1 THEN node2[s[p]] ELSE young
    BY <1>4, <1>6, <1>7, SessionAssumption
  <2>3. List(node2, young, k, s)
    BY <1>2 DEF Chained
  <2>4. \A i \in 1..k : i # p =>
          node2'[s[i]] = IF i = p - 1 THEN node2[s[p]] ELSE node2[s[i]]
    BY <2>1
  <2>5. s1 = [i \in 1..(k - 1) |-> IF i < p THEN s[i] ELSE s[i + 1]]
    OBVIOUS
  <2> HIDE DEF s1
  <2> QED
    BY <2>2, <2>3, <2>4, <2>5, ListRemove
<1>9. Back(node1', k - 1, s1)
  <2>1. \A i \in 1..(k - 1) : /\ i < p => i \in 1..k /\ s1[i] = s[i]
                              /\ ~(i < p) => i + 1 \in 1..k /\ s1[i] = s[i + 1]
    OBVIOUS
  <2>2. ASSUME NEW i \in 1..k, i # p
        PROVE  node1'[s[i]] = IF i = p + 1 THEN node1[n] ELSE node1[s[i]]
    <3>1. s[i] \in Nodes /\ s[i] # dead /\ s[i] # Null
      BY <1>5, <1>6, SessionAssumption
    <3>2. s[i] = node2[n] <=> i = p + 1
      BY <1>2, <1>6, <2>2, <3>1 DEF Chained, List
    <3> QED
      BY <1>7, <3>1, <3>2
  <2>3. \A i \in 1..k : node1[s[i]] = IF i = 1 THEN Null ELSE s[i - 1]
    BY <1>2 DEF Chained, Back
  <2>4. ASSUME NEW i \in 1..(k - 1)
        PROVE  node1'[s1[i]] = IF i = 1 THEN Null ELSE s1[i - 1]
    <3>1. CASE i < p
      BY <2>1, <2>2, <2>3, <3>1
    <3>2. CASE i = p
      BY <1>6, <2>1, <2>2, <3>2
    <3>3. CASE i > p
      BY <2>1, <2>2, <2>3, <3>3
    <3> QED
      BY <3>1, <3>2, <3>3
  <2> QED
    BY <2>4 DEF Back
<1>10. List(node2', n, m + 1, t1)
  <2>1. ASSUME NEW i \in 1..m PROVE node2'[t[i]] = node2[t[i]]
    <3>1. t[i] # n /\ t[i] # node1[n] /\ t[i] \in Nodes
      BY <1>5, <1>6, SessionAssumption
    <3> QED
      BY <1>7, <3>1
  <2>2. List(node2, dead, m, t) /\ node2'[n] = dead
    BY <1>2, <1>3, <1>7 DEF Chained
  <2> QED
    BY <1>5, <2>1, <2>2, ListCons
<1>11. ASSUME NEW q \in Nodes
       PROVE  /\ pc'[q] \in Serving <=> \E i \in 1..(k - 1) : s1[i] = q
              /\ pc'[q] \in Leaving <=> \E i \in 1..(m + 1) : t1[i] = q
  <2>1. \A i \in 1..(k - 1) : /\ i < p => i \in 1..k /\ i # p /\ s1[i] = s[i]
                              /\ ~(i < p) => i + 1 \in 1..k /\ i + 1 # p /\ s1[i] = s[i + 1]
    OBVIOUS
  <2>2. \A i \in 1..k : /\ i < p => i \in 1..(k - 1) /\ s1[i] = s[i]
                        /\ i > p => i - 1 \in 1..(k - 1) /\ s1[i - 1] = s[i]
    OBVIOUS
  <2>3. \A i \in 1..m : i + 1 \in 1..(m + 1) /\ t1[i + 1] = t[i]
    OBVIOUS
  <2>4. 1 \in 1..(m + 1) /\ t1[1] = n
        /\ \A i \in 1..(m + 1) : i # 1 => i - 1 \in 1..m /\ t1[i] = t[i - 1]
    OBVIOUS
  <2>5. CASE q = n
    <3>1. pc'[q] = "unlock"
      BY <1>3, <2>5
    <3>2. \A i \in 1..(k - 1) : s1[i] # q
      BY <1>5, <2>1, <2>5
    <3> HIDE DEF s1, t1
    <3> QED
      BY <3>1, <3>2, <2>4, <2>5 DEF Serving, Leaving
  <2>6. CASE q # n
    <3>1. pc'[q] = pc[q]
      BY <1>3, <2>6
    <3>2. ASSUME NEW i \in 1..(k - 1), s1[i] = q PROVE \E j \in 1..k : s[j] = q
      BY <2>1, <3>2
    <3>3. ASSUME NEW i \in 1..k, s[i] = q PROVE \E j \in 1..(k - 1) : s1[j] = q
      <4>1. i < p \/ i > p
        BY <1>4, <2>6, <3>3
      <4> QED
        BY <4>1, <2>2, <3>3
    <3>4. ASSUME NEW i \in 1..(m + 1), t1[i] = q PROVE \E j \in 1..m : t[j] = q
      BY <2>4, <2>6, <3>4
    <3>5. ASSUME NEW i \in 1..m, t[i] = q PROVE \E j \in 1..(m + 1) : t1[j] = q
      BY <2>3, <3>5
    <3> HIDE DEF s1, t1
    <3> QED
      BY <3>1, <3>2, <3>3, <3>4, <3>5, <1>2 DEF Chained
  <2> QED
    BY <2>5, <2>6
<1>12. Chained(k - 1, s1, m + 1, t1)'
  <2>1. numChild' = (k - 1) + (m + 1)
    BY <1>2, <1>7 DEF Chained
  <2> QED
    BY <1>3, <1>8, <1>9, <1>10, <1>11, <2>1 DEF Chained
<1>13. /\ k - 1 \in Nat /\ s1 \in [1..(k - 1) -> Nodes]
       /\ m + 1 \in Nat /\ t1 \in [1..(m + 1) -> Nodes]
  BY <1>4, <1>8, <1>10 DEF List
<1> QED
  BY <1>12, <1>13 DEF Lists

\* Without a head there is no child.
LEMMA NoYoung ==
    ASSUME ListInv, young = Null
    PROVE  \A n \in Nodes : pc[n] \notin Serving
<1>1. PICK k \in Nat, m \in Nat : \E s \in [1..k -> Nodes], t \in [1..m -> Nodes] :
        Chained(k, s, m, t)
  BY DEF ListInv, Lists
<1>2. PICK s \in [1..k -> Nodes], t \in [1..m -> Nodes] : Chained(k, s, m, t)
  BY <1>1
<1>3. k = 0
  BY <1>2, SessionAssumption DEF Chained, List
<1> QED
  BY <1>2, <1>3 DEF Chained

\* With a head there is one: the head.
LEMMA YoungServes ==
    ASSUME ListInv, young # Null
    PROVE  young \in Nodes /\ pc[young] \in Serving
<1>1. PICK k \in Nat, m \in Nat : \E s \in [1..k -> Nodes], t \in [1..m -> Nodes] :
        Chained(k, s, m, t)
  BY DEF ListInv, Lists
<1>2. PICK s \in [1..k -> Nodes], t \in [1..m -> Nodes] : Chained(k, s, m, t)
  BY <1>1
<1>3. k # 0 /\ young = s[1] /\ 1 \in 1..k
  BY <1>2 DEF Chained, List
<1> QED
  BY <1>2, <1>3 DEF Chained

\* The same of the list of those to delete.
LEMMA NoDeadHead ==
    ASSUME ListInv, DeadHead = Null
    PROVE  \A n \in Nodes : pc[n] \notin Leaving
<1>1. PICK k \in Nat, m \in Nat : \E s \in [1..k -> Nodes], t \in [1..m -> Nodes] :
        Chained(k, s, m, t)
  BY DEF ListInv, Lists
<1>2. PICK s \in [1..k -> Nodes], t \in [1..m -> Nodes] : Chained(k, s, m, t)
  BY <1>1
<1>3. m = 0
  BY <1>2, SessionAssumption DEF Chained, List
<1> QED
  BY <1>2, <1>3 DEF Chained

LEMMA DeadHeadLeaves ==
    ASSUME ListInv, DeadHead # Null
    PROVE  DeadHead \in Nodes /\ pc[DeadHead] \in Leaving
<1>1. PICK k \in Nat, m \in Nat : \E s \in [1..k -> Nodes], t \in [1..m -> Nodes] :
        Chained(k, s, m, t)
  BY DEF ListInv, Lists
<1>2. PICK s \in [1..k -> Nodes], t \in [1..m -> Nodes] : Chained(k, s, m, t)
  BY <1>1
<1>3. m # 0 /\ DeadHead = t[1] /\ 1 \in 1..m
  BY <1>2 DEF Chained, List
<1> QED
  BY <1>2, <1>3 DEF Chained

\* A step of a thread that stays in the list of children.
LEMMA ThreadStep ==
    ASSUME ListInv, UNCHANGED <<server, acc, listVars>>,
           NEW n \in Nodes, pc[n] \in Serving, NEW p \in Serving, Goto(n, p)
    PROVE  ListInv'
<1>1. ListTypes'
  BY DEF ListInv, ListTypes, Goto, Serving, Thread, listVars
<1>2. \A q \in Nodes : pc'[q] = IF q = n THEN p ELSE pc[q]
  BY DEF ListInv, ListTypes, Goto
<1>3. Control'
  BY <1>2 DEF ListInv, Control, Serving, listVars
<1>4. Lists'
  <2>1. DeadHead' = DeadHead
    BY DEF DeadHead, listVars
  <2>2. \A q \in Nodes : /\ pc'[q] \in Serving <=> pc[q] \in Serving
                         /\ pc'[q] \in Leaving <=> pc[q] \in Leaving
    BY <1>2 DEF Serving, Leaving
  <2> QED
    BY <2>1, <2>2, ListsKept DEF ListInv, listVars
<1> QED
  BY <1>1, <1>3, <1>4 DEF ListInv

\* A step of accept_thread, or of the one who opens and closes the server, that
\* only goes on.
LEMMA AcceptStep ==
    ASSUME ListInv, UNCHANGED <<listVars, pc>>,
           server' \in {"closed", "open", "closing"}, acc' \in Accept, Control'
    PROVE  ListInv'
<1>1. ListTypes'
  BY DEF ListInv, ListTypes, listVars
<1>2. DeadHead' = DeadHead
  BY DEF DeadHead, listVars
<1>3. Lists'
  BY <1>2, ListsKept DEF ListInv, listVars
<1> QED
  BY <1>1, <1>3 DEF ListInv

LEMMA ListInvInit == Init => ListInv
<1> SUFFICES ASSUME Init PROVE ListInv
  OBVIOUS
<1>1. ListTypes
  BY SessionAssumption DEF Init, ListTypes, Handle, Accept, Thread
<1>2. Control
  BY SessionAssumption DEF Init, Control
<1>3. Lists
  <2> DEFINE e == [i \in 1..0 |-> Null]
  <2>1. e \in [1..0 -> Nodes] /\ 1..0 = {}
    OBVIOUS
  <2>2. \A n \in Nodes : pc[n] \notin Serving /\ pc[n] \notin Leaving
    BY DEF Init, Serving, Leaving
  <2>3. List(node2, young, 0, e) /\ Back(node1, 0, e) /\ List(node2, DeadHead, 0, e)
    BY <2>1 DEF Init, List, Back, DeadHead
  <2>4. Chained(0, e, 0, e)
    BY <2>1, <2>2, <2>3 DEF Init, Chained
  <2> QED
    BY <2>1, <2>4 DEF Lists
<1> QED
  BY <1>1, <1>2, <1>3 DEF ListInv

\* Every step keeps it.
LEMMA ListInvStep == ListInv /\ [Next]_vars => ListInv'
<1> SUFFICES ASSUME ListInv, [Next]_vars PROVE ListInv'
  OBVIOUS
<1>1. CASE OpenServer
  BY <1>1, AcceptStep DEF OpenServer, ListInv, Control, Accept, threadVars, listVars
<1>2. CASE CloseServer
  BY <1>2, AcceptStep DEF CloseServer, ListInv, ListTypes, Control, threadVars, listVars
<1>3. CASE ServerClosed
  BY <1>3, AcceptStep DEF ServerClosed, ListInv, ListTypes, Control, threadVars, listVars
<1>4. CASE AcceptWait
  BY <1>4, AcceptStep DEF AcceptWait, ListInv, ListTypes, Control, Accept, threadVars, listVars
<1>5. CASE NoClient
  BY <1>5, AcceptStep DEF NoClient, ListInv, ListTypes, Control, Accept, threadVars, listVars
<1>6. ASSUME NEW n \in Nodes, AddChild(n) PROVE ListInv'
  <2>1. ListTypes'
    BY <1>6, SessionAssumption
       DEF AddChild, ListInv, ListTypes, Handle, Accept, Thread
  <2>2. Control'
    BY <1>6, SessionAssumption DEF AddChild, ListInv, ListTypes, Control
  <2> QED
    BY <1>6, <2>1, <2>2, ListsAdd DEF ListInv
<1>7. CASE DeleteBegin
  <2>1. ListTypes'
    BY <1>7 DEF DeleteBegin, ListInv, ListTypes, Accept, threadVars
  <2>2. Control'
    BY <1>7, SessionAssumption DEF DeleteBegin, ListInv, Control, threadVars
  <2>3. DeadHead' = DeadHead
    BY <1>7 DEF DeleteBegin, DeadHead
  <2>4. Lists'
    BY <1>7, <2>3, ListsKept DEF DeleteBegin, ListInv, threadVars
  <2> QED
    BY <2>1, <2>2, <2>4 DEF ListInv
<1>8. CASE DeleteNode
  <2>1. Lists' /\ cursor \in Nodes /\ pc[cursor] = "ended"
    BY <1>8, ListsDelete
  <2>2. numChild' \in Nat
    <3>1. PICK k \in Nat, m \in Nat : numChild' = k + m
      BY <2>1 DEF Lists, Chained
    <3> QED
      BY <3>1
  <2>3. ListTypes'
    BY <1>8, <2>1, <2>2, SessionAssumption DEF DeleteNode, ListInv, ListTypes, Handle, Thread
  <2>4. Control'
    BY <1>8, <2>1, SessionAssumption DEF DeleteNode, ListInv, ListTypes, Control
  <2> QED
    BY <2>1, <2>3, <2>4 DEF ListInv
<1>9. CASE DeleteEnd
  <2>1. ListTypes'
    BY <1>9 DEF DeleteEnd, ListInv, ListTypes, Handle, Accept, threadVars
  <2>2. DeadHead = Null /\ DeadHead' = DeadHead
    BY <1>9 DEF DeleteEnd, DeadHead, ListInv, Control
  <2>3. acc = "deletingLast" => alloc = {}
    <3> SUFFICES ASSUME acc = "deletingLast", NEW n \in alloc PROVE FALSE
      OBVIOUS
    <3>1. n \in Nodes /\ pc[n] \in Thread /\ pc[n] # "none"
      BY DEF ListInv, ListTypes, Control
    <3>2. pc[n] \notin Serving /\ pc[n] \notin Leaving
      BY <2>2, <3>1, NoYoung, NoDeadHead DEF ListInv, Control
    <3> QED
      BY <3>1, <3>2 DEF Thread, Serving, Leaving
  <2>4. Control'
    BY <1>9, <2>3, SessionAssumption DEF DeleteEnd, ListInv, Control, threadVars
  <2>5. Lists'
    BY <1>9, <2>2, ListsKept DEF DeleteEnd, ListInv, threadVars
  <2> QED
    BY <2>1, <2>4, <2>5 DEF ListInv
<1>10. CASE EndChild
  <2>1. acc' \in {"last", "join"} /\ cursor' = young /\ (acc' = "last" <=> young = Null)
        /\ UNCHANGED <<server, mutex, numChild, young, dead, node1, node2, alloc, pc>>
    BY <1>10 DEF EndChild
  <2>2. ListTypes'
    BY <2>1 DEF ListInv, ListTypes, Accept
  <2>3. young # Null => young \in alloc
    BY YoungServes DEF ListInv, Control, Serving
  <2>4. Control'
    BY <1>10, <2>1, <2>3 DEF EndChild, ListInv, Control
  <2>5. DeadHead' = DeadHead
    BY <1>10, <2>1 DEF EndChild, ListInv, Control, DeadHead
  <2>6. Lists'
    BY <2>1, <2>5, ListsKept DEF ListInv
  <2> QED
    BY <2>2, <2>4, <2>6 DEF ListInv
<1>11. CASE JoinChild
  BY <1>11, AcceptStep DEF JoinChild, ListInv, ListTypes, Control, Accept, threadVars, listVars
<1>12. ASSUME NEW n \in Nodes, CheckTerm(n) PROVE ListInv'
  <2>1. pc[n] \in Serving /\ \E p \in Serving : Goto(n, p)
    BY <1>12 DEF CheckTerm, Serving
  <2> QED
    BY <1>12, <2>1, ThreadStep DEF CheckTerm
<1>13. ASSUME NEW n \in Nodes, GetNothing(n) PROVE ListInv'
  <2>1. pc[n] \in Serving /\ \E p \in Serving : Goto(n, p)
    BY <1>13 DEF GetNothing, Serving
  <2> QED
    BY <1>13, <2>1, ThreadStep DEF GetNothing
<1>14. ASSUME NEW n \in Nodes, GetError(n) PROVE ListInv'
  <2>1. pc[n] \in Serving /\ \E p \in Serving : Goto(n, p)
    BY <1>14 DEF GetError, Serving
  <2> QED
    BY <1>14, <2>1, ThreadStep DEF GetError
<1>15. ASSUME NEW n \in Nodes, GetRequest(n) PROVE ListInv'
  <2>1. pc[n] \in Serving /\ \E p \in Serving : Goto(n, p)
    BY <1>15 DEF GetRequest, Serving
  <2> QED
    BY <1>15, <2>1, ThreadStep DEF GetRequest
<1>16. ASSUME NEW n \in Nodes, GetBadOption(n) PROVE ListInv'
  <2>1. pc[n] \in Serving /\ \E p \in Serving : Goto(n, p)
    BY <1>16 DEF GetBadOption, Serving
  <2> QED
    BY <1>16, <2>1, ThreadStep DEF GetBadOption
<1>17. ASSUME NEW n \in Nodes, Answer(n) PROVE ListInv'
  <2>1. pc[n] \in Serving /\ \E p \in Serving : Goto(n, p)
    BY <1>17 DEF Answer, Serving
  <2> QED
    BY <1>17, <2>1, ThreadStep DEF Answer
<1>18. ASSUME NEW n \in Nodes, Abandon(n) PROVE ListInv'
  <2>1. pc[n] \in Serving /\ \E p \in Serving : Goto(n, p)
    BY <1>18 DEF Abandon, Serving
  <2> QED
    BY <1>18, <2>1, ThreadStep DEF Abandon
<1>19. ASSUME NEW n \in Nodes, ExitExec(n) PROVE ListInv'
  <2>1. pc[n] \in Serving /\ \E p \in Serving : Goto(n, p)
    BY <1>19 DEF ExitExec, Serving
  <2> QED
    BY <1>19, <2>1, ThreadStep DEF ExitExec
<1>20. ASSUME NEW n \in Nodes, Release(n) PROVE ListInv'
  <2>1. pc[n] \in Serving
    BY <1>20 DEF Release, Serving
  <2>2. \E p \in Serving : Goto(n, p)
    <3>1. CASE stack[n] = <<>>
      BY <1>20, <3>1 DEF Release, Serving
    <3>2. CASE stack[n] # <<>>
      <4>1. pc[n] = "release" /\ pc' = pc
        BY <1>20, <3>2 DEF Release
      <4>2. Goto(n, "release")
        BY <4>1 DEF Goto, ListInv, ListTypes
      <4> QED
        BY <4>2 DEF Serving
    <3> QED
      BY <3>1, <3>2
  <2> QED
    BY <1>20, <2>1, <2>2, ThreadStep DEF Release
<1>21. ASSUME NEW n \in Nodes, Destroy(n) PROVE ListInv'
  <2>1. pc[n] = "destroy" /\ mutex = "none" /\ young # Null
    <3>1. pc[n] = "destroy" /\ mutex = "none"
      BY <1>21 DEF Destroy
    <3> QED
      BY <3>1, NoYoung DEF Serving
  <2>2. ListTypes'
    BY <1>21 DEF Destroy, Goto, ListInv, ListTypes, Handle, Thread
  <2>3. Control'
    BY <1>21, <2>1, SessionAssumption DEF Destroy, Goto, ListInv, ListTypes, Control
  <2> QED
    BY <1>21, <2>2, <2>3, ListsDestroy DEF ListInv
<1>22. ASSUME NEW n \in Nodes, Unlock(n) PROVE ListInv'
  <2>1. /\ mutex = n /\ mutex' = "none" /\ pc[n] = "unlock" /\ pc' = [pc EXCEPT ![n] = "ended"]
        /\ UNCHANGED <<server, acc, cursor, numChild, young, dead, node1, node2, alloc>>
    BY <1>22 DEF Unlock, Goto, ListInv, Control
  <2>2. ListTypes'
    BY <2>1 DEF ListInv, ListTypes, Thread
  <2>3. \A q \in Nodes : pc'[q] = IF q = n THEN "ended" ELSE pc[q]
    BY <2>1 DEF ListInv, ListTypes
  <2>4. Control'
    BY <2>1, <2>3, SessionAssumption DEF ListInv, Control
  <2>5. DeadHead' = DeadHead
    BY <2>1, SessionAssumption DEF DeadHead
  <2>6. Lists'
    BY <2>1, <2>3, <2>5, ListsKept DEF ListInv, Serving, Leaving
  <2> QED
    BY <2>2, <2>4, <2>6 DEF ListInv
<1>23. CASE UNCHANGED <<server, acc, listVars, pc>>
  BY <1>23, AcceptStep DEF ListInv, ListTypes, Control, listVars
<1>24. ASSUME NEW n \in Nodes, Exec(n) PROVE ListInv'
  BY <1>24, <1>23 DEF Exec
<1>25. ASSUME NEW n \in Nodes, Disconnect(n) PROVE ListInv'
  BY <1>25, <1>23 DEF Disconnect, threadVars
<1>26. CASE UNCHANGED vars
  BY <1>26, <1>23 DEF vars, threadVars
<1> QED
  BY <1>1, <1>2, <1>3, <1>4, <1>5, <1>6, <1>7, <1>8, <1>9, <1>10, <1>11, <1>12, <1>13,
     <1>14, <1>15, <1>16, <1>17, <1>18, <1>19, <1>20, <1>21, <1>22, <1>24, <1>25, <1>26
  DEF Next, AcceptThread, RecvThread

THEOREM ListInvariant == Spec => []ListInv
BY ListInvInit, ListInvStep, PTL DEF Spec

\* A list of k nodes has k of them.
LEMMA ListCount ==
    ASSUME NEW next, NEW h, NEW k \in Nat, NEW s, List(next, h, k, s)
    PROVE  IsFiniteSet(Elements(k, s)) /\ Cardinality(Elements(k, s)) = k
<1> DEFINE S == Elements(k, s)
<1>1. IsFiniteSet(S)
  <2>1. S \subseteq Nodes
    BY DEF List, Elements
  <2> QED
    BY <2>1, SessionAssumption, FS_Subset
<1>2. s \in Injection(1..k, S) /\ s \in Surjection(1..k, S)
  BY DEF List, Elements, Injection, IsInjective, Surjection
<1>3. Cardinality(1..k) = Cardinality(S)
  BY <1>1, <1>2, FS_Injection
<1>4. Cardinality(1..k) = k
  BY FS_Interval
<1> QED
  BY <1>1, <1>3, <1>4

\* The links of change_relation: no node is lost, none is in both lists, and
\* num_child counts them, in every state but while accept_thread frees nodes.
THEOREM ListsAreWellFormed == Spec => []ListsWellFormed
<1>1. ListInv => ListsWellFormed
  <2> SUFFICES ASSUME ListInv, mutex # "accept"
               PROVE  /\ Ends(young) /\ Ends(dead)
                      /\ Reach(young) \cap Reach(dead) = {}
                      /\ Reach(young) \cup Reach(dead) = alloc
                      /\ numChild = Cardinality(alloc)
                      /\ young # Null => node1[young] = Null
                      /\ \A n \in Reach(young) : node2[n] # Null => node1[node2[n]] = n
    BY DEF ListsWellFormed
  <2>1. PICK k \in Nat, m \in Nat : \E s \in [1..k -> Nodes], t \in [1..m -> Nodes] :
          Chained(k, s, m, t)
    BY DEF ListInv, Lists
  <2>2. PICK s \in [1..k -> Nodes], t \in [1..m -> Nodes] : Chained(k, s, m, t)
    BY <2>1
  <2>3. List(node2, young, k, s) /\ List(node2, dead, m, t) /\ Back(node1, k, s)
    BY <2>2 DEF Chained, DeadHead
  <2>4. /\ Ends(young) /\ Reach(young) = Elements(k, s)
        /\ Ends(dead) /\ Reach(dead) = Elements(m, t)
    BY <2>3, ReachOfList, SessionAssumption
  <2>5. /\ \A n \in Nodes : n \in Reach(young) <=> pc[n] \in Serving
        /\ \A n \in Nodes : n \in Reach(dead) <=> pc[n] \in Leaving
        /\ Reach(young) \subseteq Nodes /\ Reach(dead) \subseteq Nodes
    BY <2>2, <2>4 DEF Chained, Elements
  <2>6. Reach(young) \cap Reach(dead) = {}
    BY <2>5 DEF Serving, Leaving
  <2>7. Reach(young) \cup Reach(dead) = alloc
    <3>1. alloc \subseteq Nodes /\ \A n \in Nodes : pc[n] \in Thread /\ (pc[n] # "none" <=> n \in alloc)
      BY DEF ListInv, ListTypes, Control
    <3> QED
      BY <2>5, <3>1 DEF Serving, Leaving, Thread
  <2>8. numChild = Cardinality(alloc)
    <3>1. /\ IsFiniteSet(Reach(young)) /\ Cardinality(Reach(young)) = k
          /\ IsFiniteSet(Reach(dead)) /\ Cardinality(Reach(dead)) = m
      BY <2>3, <2>4, ListCount
    <3>2. Cardinality(Reach(young) \cap Reach(dead)) = 0
      BY <2>6, FS_EmptySet
    <3>3. Cardinality(Reach(young) \cup Reach(dead)) = k + m - 0
      BY <3>1, <3>2, FS_Union
    <3>4. numChild = k + m
      BY <2>2 DEF Chained
    <3>5. k + m - 0 = k + m
      OBVIOUS
    <3> QED
      BY <2>7, <3>3, <3>4, <3>5
  <2>9. young # Null => node1[young] = Null
    BY <2>3 DEF List, Back
  <2>10. ASSUME NEW n \in Reach(young), node2[n] # Null PROVE node1[node2[n]] = n
    <3>1. PICK i \in 1..k : n = s[i]
      BY <2>4 DEF Elements
    <3>2. i # k /\ node2[n] = s[i + 1] /\ i + 1 \in 1..k
      BY <2>3, <2>10, <3>1 DEF List
    <3> QED
      BY <2>3, <3>1, <3>2 DEF Back
  <2> QED
    BY <2>4, <2>6, <2>7, <2>8, <2>9, <2>10
<1> QED
  BY <1>1, ListInvariant, PTL

\* A block is freed after its thread has ended, accept_thread points at allocated
\* ones, and ends when none is left and nobody holds the mutex.
THEOREM NothingIsUsedAfterFree == Spec => []NothingUsedAfterFree
<1>1. ListInv => NothingUsedAfterFree
  <2> SUFFICES ASSUME ListInv PROVE NothingUsedAfterFree
    OBVIOUS
  <2>1. cursor # Null /\ acc \in {"deleting", "deletingLast"} => cursor \in alloc
    <3> SUFFICES ASSUME cursor # Null, acc \in {"deleting", "deletingLast"}
                 PROVE  cursor \in alloc
      OBVIOUS
    <3>1. DeadHead = cursor
      BY DEF ListInv, Control, DeadHead
    <3>2. cursor \in Nodes /\ pc[cursor] \in Leaving
      BY <3>1, DeadHeadLeaves
    <3> QED
      BY <3>2 DEF ListInv, Control, Leaving
  <2>2. acc = "none" => alloc = {} /\ mutex = "none"
    <3> SUFFICES ASSUME acc = "none" PROVE mutex = "none" /\ alloc = {}
      OBVIOUS
    <3>1. alloc = {} /\ \A n \in Nodes : pc[n] = "none"
      BY DEF ListInv, Control
    <3> QED
      BY <3>1, SessionAssumption DEF ListInv, ListTypes, Control
  <2> QED
    BY <2>1, <2>2 DEF NothingUsedAfterFree, ListInv, Control
<1> QED
  BY <1>1, ListInvariant, PTL
-----------------------------------------------------------------------------
(* The objects *)

\* No object is in a vector twice.
Distinct(s) == \A i, j \in DOMAIN s : s[i] = s[j] => i = j

\* Of the objects in M, none is above one it was made from: par gives that one.
Ordered(s, M, par) ==
    \A i, j \in DOMAIN s : i < j /\ s[i] \in M /\ s[j] \in M => par[s[j]] # s[i]

\* The vector of a connection and the objects it made.  They differ by the object
\* of an answer that exec_thread has and recv_thread has not seen.
Vectored(n) ==
    /\ answer[n] = Null => Made(n) = ToSet(stack[n])
    /\ answer[n] # Null /\ request[n].op = "call" =>
         /\ Made(n) = ToSet(stack[n]) \cup {answer[n]}
         /\ answer[n] \notin ToSet(stack[n]) /\ Len(stack[n]) < ObjectMax
         /\ \A p \in Objects : parent[p] # answer[n]
    /\ answer[n] # Null /\ request[n].op = "release" =>
         /\ answer[n] \in ToSet(stack[n])
         /\ Made(n) = ToSet(stack[n]) \ {answer[n]}
    /\ Distinct(stack[n]) /\ Ordered(stack[n], Made(n), parent)

\* What a connection's threads have of a request.  An execution nobody waits for
\* is an abandoned one, which the bound allows only without objects.
Requested(n) ==
    /\ abandoned[n] => live = {} /\ stack[n] = <<>>
    /\ answer[n] # Null => pc[n] = "wait" /\ comp[n]
    /\ ~comp[n] /\ pc[n] # "wait" => abandoned[n]
    /\ ~comp[n] /\ pc[n] = "wait" =>
         /\ request[n].obj \in ToSet(stack[n]) \cup {Null}
         /\ request[n].op = "release" => request[n].obj # Null
    /\ pc[n] \in {"release", "destroy", "unlock", "ended", "none"} => comp[n]
    /\ pc[n] \in {"destroy", "unlock", "ended", "none"} => stack[n] = <<>>

ObjectTypes ==
    /\ term \in [Nodes -> BOOLEAN] /\ comp \in [Nodes -> BOOLEAN]
    /\ open \in [Nodes -> BOOLEAN] /\ abandoned \in [Nodes -> BOOLEAN]
    /\ request \in [Nodes -> [op : {"call", "release"}, obj : Objects \cup {Null}]]
    /\ answer \in [Nodes -> Objects \cup {Null}]
    /\ stack \in [Nodes -> Seq(Objects)] /\ \A n \in Nodes : Len(stack[n]) <= ObjectMax
    /\ live \subseteq Objects
    /\ maker \in [Objects -> Handle]
    /\ parent \in [Objects -> Objects \cup {Null}]

ObjectInv ==
    /\ ObjectTypes
    /\ \A p \in Objects : parent[p] \in live \cup {Null}
    /\ \A n \in Nodes : Vectored(n) /\ Requested(n)

\* The vector without the entry at p.
LEMMA VectorWithout ==
    ASSUME NEW s \in Seq(Objects), NEW s1 \in Seq(Objects), NEW p \in 1..Len(s),
           NEW M, NEW par, Distinct(s), Ordered(s, M, par),
           Len(s1) = Len(s) - 1,
           \A i \in 1..Len(s1) : s1[i] = IF i < p THEN s[i] ELSE s[i + 1]
    PROVE  /\ ToSet(s1) = ToSet(s) \ {s[p]} /\ s[p] \in ToSet(s)
           /\ Distinct(s1) /\ Ordered(s1, M, par)
<1>1. DOMAIN s = 1..Len(s) /\ DOMAIN s1 = 1..Len(s1) /\ Len(s) \in Nat /\ Len(s1) \in Nat
  OBVIOUS
<1>2. \A i \in 1..Len(s1) :
         /\ i < p => i \in 1..Len(s) /\ i # p /\ s1[i] = s[i]
         /\ ~(i < p) => i + 1 \in 1..Len(s) /\ i + 1 # p /\ s1[i] = s[i + 1]
  BY <1>1
<1>3. Distinct(s1)
  BY <1>1, <1>2 DEF Distinct
<1>4. ASSUME NEW i \in 1..Len(s1), NEW j \in 1..Len(s1), i < j, s1[i] \in M, s1[j] \in M
      PROVE  par[s1[j]] # s1[i]
  <2>1. \A a, b \in 1..Len(s) : a < b /\ s[a] \in M /\ s[b] \in M => par[s[b]] # s[a]
    BY <1>1 DEF Ordered
  <2>2. CASE j < p
    BY <1>2, <1>4, <2>1, <2>2
  <2>3. CASE ~(i < p)
    BY <1>2, <1>4, <2>1, <2>3
  <2>4. CASE i < p /\ ~(j < p)
    <3>1. /\ i \in 1..Len(s) /\ s1[i] = s[i]
          /\ j + 1 \in 1..Len(s) /\ s1[j] = s[j + 1] /\ i < j + 1
      BY <1>2, <1>4, <2>4
    <3> QED
      BY <1>4, <2>1, <3>1
  <2> QED
    BY <1>4, <2>2, <2>3, <2>4
<1>5. ASSUME NEW i \in 1..Len(s1) PROVE s1[i] \in ToSet(s) \ {s[p]}
  BY <1>1, <1>2 DEF ToSet, Distinct
<1>6. ASSUME NEW i \in 1..Len(s), i # p PROVE s[i] \in ToSet(s1)
  <2>1. CASE i < p
    <3>1. i \in 1..Len(s1) /\ s1[i] = s[i]
      BY <1>1, <2>1
    <3> QED
      BY <1>1, <3>1 DEF ToSet
  <2>2. CASE i > p
    <3>1. i - 1 \in 1..Len(s1) /\ s1[i - 1] = s[i]
      BY <1>1, <2>2
    <3> QED
      BY <1>1, <3>1 DEF ToSet
  <2> QED
    BY <1>6, <2>1, <2>2
<1>7. ToSet(s1) = ToSet(s) \ {s[p]} /\ s[p] \in ToSet(s)
  BY <1>1, <1>5, <1>6 DEF ToSet
<1> QED
  BY <1>1, <1>3, <1>4, <1>7 DEF Ordered

\* pop_vector at index 0.
LEMMA VectorTail ==
    ASSUME NEW s \in Seq(Objects), Distinct(s), s # <<>>,
           NEW M, NEW par, Ordered(s, M, par)
    PROVE  /\ Tail(s) \in Seq(Objects) /\ Len(Tail(s)) = Len(s) - 1
           /\ Head(s) \in ToSet(s) /\ ToSet(Tail(s)) = ToSet(s) \ {Head(s)}
           /\ Distinct(Tail(s)) /\ Ordered(Tail(s), M, par)
<1> DEFINE s1 == Tail(s)
<1>1. /\ s1 \in Seq(Objects) /\ Len(s1) = Len(s) - 1 /\ Head(s) = s[1]
      /\ 1 \in 1..Len(s) /\ \A i \in 1..Len(s1) : s1[i] = s[i + 1]
  OBVIOUS
<1>2. \A i \in 1..Len(s1) : s1[i] = IF i < 1 THEN s[i] ELSE s[i + 1]
  BY <1>1
<1> HIDE DEF s1
<1>3. ToSet(s1) = ToSet(s) \ {s[1]} /\ s[1] \in ToSet(s)
      /\ Distinct(s1) /\ Ordered(s1, M, par)
  BY <1>1, <1>2, VectorWithout
<1> QED
  BY <1>1, <1>3 DEF s1

\* push_vector, of an object that is new.
LEMMA VectorPush ==
    ASSUME NEW s \in Seq(Objects), Distinct(s), Len(s) < ObjectMax,
           NEW o \in Objects, o \notin ToSet(s),
           NEW M, NEW par, Ordered(s, M, par), \A p \in Objects : par[p] # o
    PROVE  /\ Push(s, o) \in Seq(Objects) /\ Len(Push(s, o)) = Len(s) + 1
           /\ ToSet(Push(s, o)) = ToSet(s) \cup {o}
           /\ Distinct(Push(s, o)) /\ Ordered(Push(s, o), M, par)
<1> DEFINE s1 == <<o>> \o s
<1>1. Push(s, o) = s1
  BY SessionAssumption DEF Push
<1>2. /\ s1 \in Seq(Objects) /\ Len(s1) = Len(s) + 1
      /\ \A i \in 1..Len(s1) : s1[i] = IF i = 1 THEN o ELSE s[i - 1]
  OBVIOUS
<1> HIDE DEF s1
<1>3. DOMAIN s = 1..Len(s) /\ DOMAIN s1 = 1..Len(s1) /\ Len(s) \in Nat /\ Len(s1) \in Nat
  BY <1>2
<1>4. s1[1] = o /\ 1 \in 1..Len(s1)
      /\ \A i \in 1..Len(s1) : i # 1 => i - 1 \in 1..Len(s) /\ s1[i] = s[i - 1]
  BY <1>2, <1>3
<1>5. \A i \in 1..Len(s) : i + 1 \in 1..Len(s1) /\ s1[i + 1] = s[i]
  BY <1>2, <1>3
<1>6. ToSet(s1) = ToSet(s) \cup {o}
  <2>1. \A x \in ToSet(s1) : x \in ToSet(s) \cup {o}
    BY <1>3, <1>4 DEF ToSet
  <2>2. \A x \in ToSet(s) : x \in ToSet(s1)
    BY <1>3, <1>5 DEF ToSet
  <2>3. o \in ToSet(s1)
    BY <1>3, <1>4 DEF ToSet
  <2> QED
    BY <2>1, <2>2, <2>3
<1>7. Distinct(s1)
  <2> SUFFICES ASSUME NEW i \in 1..Len(s1), NEW j \in 1..Len(s1), s1[i] = s1[j]
               PROVE  i = j
    BY <1>3 DEF Distinct
  <2>1. \A k \in 1..Len(s) : s[k] # o
    BY <1>3 DEF ToSet
  <2>2. CASE i = 1 \/ j = 1
    BY <1>4, <2>1, <2>2
  <2>3. CASE i # 1 /\ j # 1
    <3>1. i - 1 \in DOMAIN s /\ j - 1 \in DOMAIN s /\ s[i - 1] = s[j - 1]
      BY <1>3, <1>4, <2>3
    <3> QED
      BY <3>1, <1>3 DEF Distinct
  <2> QED
    BY <2>2, <2>3
<1>8. Ordered(s1, M, par)
  <2> SUFFICES ASSUME NEW i \in 1..Len(s1), NEW j \in 1..Len(s1), i < j,
                      s1[i] \in M, s1[j] \in M
               PROVE  par[s1[j]] # s1[i]
    BY <1>3 DEF Ordered
  <2>1. CASE i = 1
    BY <1>2, <1>4, <2>1
  <2>2. CASE i # 1
    <3>1. /\ i - 1 \in DOMAIN s /\ j - 1 \in DOMAIN s /\ i - 1 < j - 1
          /\ s1[i] = s[i - 1] /\ s1[j] = s[j - 1]
      BY <1>3, <1>4, <2>2
    <3> QED
      BY <3>1 DEF Ordered
  <2> QED
    BY <2>1, <2>2
<1> QED
  BY <1>1, <1>2, <1>6, <1>7, <1>8

\* search_vector and pop_vector, of an object that is there.
LEMMA VectorPop ==
    ASSUME NEW s \in Seq(Objects), Distinct(s), NEW o \in ToSet(s),
           NEW M, NEW par, Ordered(s, M, par)
    PROVE  /\ Pop(s, o) \in Seq(Objects) /\ Len(Pop(s, o)) = Len(s) - 1
           /\ ToSet(Pop(s, o)) = ToSet(s) \ {o}
           /\ Distinct(Pop(s, o)) /\ Ordered(Pop(s, o), M, par)
<1>1. PICK p \in 1..Len(s) : s[p] = o
  BY DEF ToSet
<1>2. {i \in DOMAIN s : s[i] = o} = {p}
  BY <1>1 DEF Distinct
<1>3. Min({p}) = p
  BY <1>1 DEF Min
<1> DEFINE x == SubSeq(s, 1, p - 1)
           y == SubSeq(s, p + 1, Len(s))
           s1 == x \o y
<1>4. Pop(s, o) = s1
  BY <1>2, <1>3 DEF Pop, RemoveAt
<1>5. x \in Seq(Objects) /\ Len(x) = p - 1 /\ \A i \in 1..(p - 1) : x[i] = s[i]
  <2>1. p - 1 \in Int /\ \A i \in 1..(p - 1) : s[i] \in Objects
    BY <1>1
  <2> QED
    BY <2>1, SubSeqProperties
<1>6. /\ y \in Seq(Objects) /\ Len(y) = Len(s) - p
      /\ \A i \in 1..(Len(s) - p) : y[i] = s[p + i]
  <2>1. p + 1 \in Int /\ Len(s) \in Int /\ \A i \in (p + 1)..Len(s) : s[i] \in Objects
    BY <1>1
  <2>2. /\ y \in Seq(Objects) /\ Len(y) = IF p + 1 <= Len(s) THEN Len(s) - (p + 1) + 1 ELSE 0
        /\ \A i \in 1..(Len(s) - (p + 1) + 1) : y[i] = s[p + 1 + i - 1]
    BY <2>1, SubSeqProperties
  <2> QED
    BY <2>2
<1> HIDE DEF x, y
<1>7. s1 \in Seq(Objects) /\ Len(s1) = Len(s) - 1
  <2>1. s1 \in Seq(Objects) /\ Len(s1) = Len(x) + Len(y)
    BY <1>5, <1>6, ConcatProperties
  <2> QED
    BY <1>5, <1>6, <2>1
<1>8. \A i \in 1..Len(s1) : s1[i] = IF i < p THEN s[i] ELSE s[i + 1]
  <2> SUFFICES ASSUME NEW i \in 1..Len(s1)
               PROVE  s1[i] = IF i < p THEN s[i] ELSE s[i + 1]
    OBVIOUS
  <2>1. s1[i] = IF i <= p - 1 THEN x[i] ELSE y[i - (p - 1)]
    BY <1>5, <1>6, <1>7, ConcatProperties
  <2>2. CASE i < p
    BY <1>5, <2>1, <2>2
  <2>3. CASE ~(i < p)
    <3>1. i - (p - 1) \in 1..(Len(s) - p) /\ p + (i - (p - 1)) = i + 1
      BY <1>7, <2>3
    <3> QED
      BY <1>6, <2>1, <2>3, <3>1
  <2> QED
    BY <2>2, <2>3
<1> HIDE DEF s1
<1>9. ToSet(s1) = ToSet(s) \ {s[p]} /\ Distinct(s1) /\ Ordered(s1, M, par)
  BY <1>7, <1>8, VectorWithout
<1> QED
  BY <1>1, <1>4, <1>7, <1>9

\* The order stays when objects go, and with them their places as parents.
LEMMA OrderedLess ==
    ASSUME NEW s \in Seq(Objects), NEW M, NEW par, Ordered(s, M, par), NEW M1 \in SUBSET M,
           NEW par1, \A p \in M1 : par1[p] = par[p] \/ par1[p] \notin Objects
    PROVE  Ordered(s, M1, par1)
BY DEF Ordered

\* The variables of one connection that the invariant is about.
Slot(n) == <<pc[n], comp[n], request[n], answer[n], stack[n], abandoned[n]>>

\* A connection that a step leaves alone.
LEMMA SlotKept ==
    ASSUME NEW q \in Nodes, Vectored(q), Requested(q), Slot(q)' = Slot(q),
           UNCHANGED objectVars
    PROVE  (Vectored(q) /\ Requested(q))'
<1>1. /\ pc'[q] = pc[q] /\ request'[q] = request[q] /\ answer'[q] = answer[q]
      /\ stack'[q] = stack[q] /\ comp'[q] = comp[q] /\ abandoned'[q] = abandoned[q]
  BY DEF Slot
<1>2. live' = live /\ maker' = maker /\ parent' = parent /\ Made(q)' = Made(q)
  BY DEF objectVars, Made
<1> QED
  BY <1>1, <1>2 DEF Vectored, Requested

\* A connection whose vector and answer a step leaves alone.
LEMMA VectorKept ==
    ASSUME NEW n \in Nodes, Vectored(n), UNCHANGED objectVars, stack'[n] = stack[n],
           answer'[n] = answer[n], answer[n] = Null \/ request'[n] = request[n]
    PROVE  Vectored(n)'
<1>1. live' = live /\ maker' = maker /\ parent' = parent /\ Made(n)' = Made(n)
  BY DEF objectVars, Made
<1> QED
  BY <1>1 DEF Vectored

\* A step of one connection that leaves the objects alone.
LEMMA SlotStep ==
    ASSUME ObjectInv, ObjectTypes', UNCHANGED objectVars, NEW n \in Nodes,
           (Vectored(n) /\ Requested(n))',
           \A q \in Nodes : q # n => Slot(q)' = Slot(q)
    PROVE  ObjectInv'
<1>1. \A q \in Nodes : (Vectored(q) /\ Requested(q))'
  BY SlotKept DEF ObjectInv
<1>2. \A p \in Objects : parent'[p] \in live' \cup {Null}
  BY DEF ObjectInv, objectVars
<1> QED
  BY <1>1, <1>2 DEF ObjectInv

\* A step that changes no connection.
LEMMA NoSlotStep ==
    ASSUME ObjectInv, UNCHANGED <<pc, comp, request, answer, stack, abandoned, objectVars>>,
           term' \in [Nodes -> BOOLEAN], open' \in [Nodes -> BOOLEAN]
    PROVE  ObjectInv'
<1>1. ObjectTypes'
  BY DEF ObjectInv, ObjectTypes, objectVars
<1>2. \A q \in Nodes : (Vectored(q) /\ Requested(q))'
  <2>1. \A q \in Nodes : Slot(q)' = Slot(q)
    BY DEF Slot
  <2> QED
    BY <2>1, SlotKept DEF ObjectInv
<1>3. \A p \in Objects : parent'[p] \in live' \cup {Null}
  BY DEF ObjectInv, objectVars
<1> QED
  BY <1>1, <1>2, <1>3 DEF ObjectInv

LEMMA ObjectInvInit == Init => ObjectInv
<1> SUFFICES ASSUME Init PROVE ObjectInv
  OBVIOUS
<1>1. ObjectTypes
  BY SessionAssumption DEF Init, ObjectTypes, Handle, NoRequest
<1>2. ASSUME NEW n \in Nodes PROVE Vectored(n)
  <2>1. Made(n) = {} /\ answer[n] = Null /\ stack[n] = <<>>
    BY DEF Init, Made
  <2>2. ToSet(<<>>) = {} /\ DOMAIN <<>> = {}
    BY DEF ToSet
  <2> QED
    BY <2>1, <2>2 DEF Vectored, Distinct, Ordered
<1>3. \A n \in Nodes : Requested(n)
  BY DEF Init, Requested
<1>4. \A p \in Objects : parent[p] \in live \cup {Null}
  BY DEF Init
<1> QED
  BY <1>1, <1>2, <1>3, <1>4 DEF ObjectInv

\* Steps of recv_thread that leave the vectors alone.
LEMMA ThreadObjects ==
    ASSUME ObjectInv, NEW n \in Nodes, pc \in [Nodes -> Thread],
           CheckTerm(n) \/ GetNothing(n) \/ GetError(n) \/ Unlock(n)
    PROVE  ObjectInv'
<1> DEFINE q == pc'[n]
<1>1. /\ UNCHANGED <<comp, request, answer, stack, abandoned, objectVars, term, open>>
      /\ \A r \in Nodes : r # n => pc'[r] = pc[r]
      /\ \/ pc[n] \in {"check", "get"} /\ q \in {"check", "get", "exit"}
         \/ pc[n] = "unlock" /\ q = "ended"
  BY DEF CheckTerm, GetNothing, GetError, Unlock, Goto, threadVars
<1>2. ObjectTypes'
  BY <1>1 DEF ObjectInv, ObjectTypes, objectVars
<1>3. Vectored(n)'
  BY <1>1, VectorKept DEF ObjectInv
<1>4. Requested(n)'
  BY <1>1 DEF ObjectInv, Requested, objectVars
<1>5. \A r \in Nodes : r # n => Slot(r)' = Slot(r)
  BY <1>1 DEF Slot
<1> QED
  BY <1>1, <1>2, <1>3, <1>4, <1>5, SlotStep DEF objectVars

\* GetRequest and GetBadOption hand a request over, and Abandon gives one up.
LEMMA RequestObjects ==
    ASSUME ObjectInv, NEW n \in Nodes, pc \in [Nodes -> Thread],
           GetRequest(n) \/ GetBadOption(n) \/ Abandon(n)
    PROVE  ObjectInv'
<1>1. answer[n] = Null /\ UNCHANGED <<answer, stack, objectVars, term, open>>
  BY DEF GetRequest, GetBadOption, Abandon, ObjectInv, Requested, threadVars
<1>2. ObjectTypes'
  <2>1. \A m \in Nodes : ToSet(stack[m]) \subseteq Objects
    BY DEF ObjectInv, ObjectTypes, ToSet
  <2>2. CASE GetRequest(n)
    <3>1. PICK op \in {"call", "release"}, o \in ToSet(stack[n]) \cup {Null} :
             request' = [request EXCEPT ![n] = [op |-> op, obj |-> o]]
      BY <2>2 DEF GetRequest
    <3> QED
      BY <1>1, <2>1, <2>2, <3>1 DEF GetRequest, ObjectInv, ObjectTypes, objectVars
  <2>3. CASE GetBadOption(n)
    BY <1>1, <2>3 DEF GetBadOption, NoRequest, ObjectInv, ObjectTypes, objectVars
  <2>4. CASE Abandon(n)
    BY <1>1, <2>4 DEF Abandon, ObjectInv, ObjectTypes, objectVars
  <2> QED
    BY <2>2, <2>3, <2>4
<1>3. Vectored(n)'
  BY <1>1, VectorKept DEF ObjectInv
<1>4. live = {} => stack[n] = <<>>
  <2>1. Made(n) = ToSet(stack[n]) /\ Made(n) \subseteq live /\ stack[n] \in Seq(Objects)
    BY <1>1 DEF ObjectInv, ObjectTypes, Vectored, Made
  <2>2. ASSUME stack[n] # <<>> PROVE stack[n][1] \in ToSet(stack[n])
    BY <2>1, <2>2 DEF ToSet
  <2> QED
    BY <2>1, <2>2
<1>5. Requested(n)'
  <2>1. CASE GetRequest(n)
    <3>1. PICK op \in {"call", "release"}, o \in ToSet(stack[n]) \cup {Null} :
             /\ op = "release" => o # Null
             /\ request' = [request EXCEPT ![n] = [op |-> op, obj |-> o]]
      BY <2>1 DEF GetRequest
    <3>2. request'[n].obj = o /\ request'[n].op = op
      BY <3>1 DEF ObjectInv, ObjectTypes
    <3>3. /\ pc'[n] = "wait" /\ abandoned' = abandoned /\ comp'[n] = FALSE
      BY <2>1 DEF GetRequest, Goto, ObjectInv, ObjectTypes
    <3> QED
      BY <1>1, <3>1, <3>2, <3>3 DEF ObjectInv, Requested, objectVars
  <2>2. CASE GetBadOption(n) \/ Abandon(n)
    <3>1. /\ live = {} /\ abandoned'[n] = TRUE /\ pc'[n] \in {"check", "exit"}
      BY <2>2 DEF GetBadOption, Abandon, Goto, ObjectInv, ObjectTypes
    <3> QED
      BY <1>1, <1>4, <3>1 DEF ObjectInv, Requested, objectVars
  <2> QED
    BY <2>1, <2>2
<1>6. \A r \in Nodes : r # n => Slot(r)' = Slot(r)
  BY <1>1 DEF Slot, GetRequest, GetBadOption, Abandon, Goto, ObjectInv, ObjectTypes
<1> QED
  BY <1>1, <1>2, <1>3, <1>5, <1>6, SlotStep DEF objectVars

\* comp_evt came: the vector takes up the answer.
LEMMA AnswerObjects ==
    ASSUME ObjectInv, NEW n \in Nodes, pc \in [Nodes -> Thread], Answer(n)
    PROVE  ObjectInv'
<1> DEFINE s == stack[n]
           s1 == stack'[n]
<1>1. /\ pc[n] = "wait" /\ comp[n] /\ pc'[n] \in {"check", "exit"}
      /\ UNCHANGED <<term, comp, abandoned, open, objectVars>>
      /\ request' = [request EXCEPT ![n] = NoRequest]
      /\ answer' = [answer EXCEPT ![n] = Null] /\ answer'[n] = Null
      /\ \A r \in Nodes : r # n => pc'[r] = pc[r]
  BY DEF Answer, Goto, ObjectInv, ObjectTypes
<1>2. s \in Seq(Objects) /\ Len(s) <= ObjectMax /\ request[n].op \in {"call", "release"}
      /\ answer[n] \in Objects \cup {Null}
  BY DEF ObjectInv, ObjectTypes
<1>3. stack' = [stack EXCEPT ![n] = s1]
      /\ s1 = IF answer[n] = Null THEN s
              ELSE IF request[n].op = "call" THEN Push(s, answer[n]) ELSE Pop(s, answer[n])
  BY DEF Answer, ObjectInv, ObjectTypes
<1>4. /\ s1 \in Seq(Objects) /\ Len(s1) <= ObjectMax /\ Made(n) = ToSet(s1)
      /\ Distinct(s1) /\ Ordered(s1, Made(n), parent)
      /\ abandoned[n] => s1 = <<>>
  <2>1. Vectored(n) /\ Requested(n)
    BY DEF ObjectInv
  <2>2. CASE answer[n] = Null
    BY <1>2, <1>3, <2>1, <2>2 DEF Vectored, Requested
  <2>3. CASE answer[n] # Null /\ request[n].op = "call"
    <3>1. s1 = Push(s, answer[n]) /\ answer[n] \in Objects /\ ~abandoned[n]
      BY <1>2, <1>3, <2>1, <2>3 DEF Vectored, Requested, Made
    <3>2. /\ Made(n) = ToSet(s) \cup {answer[n]} /\ answer[n] \notin ToSet(s)
          /\ Len(s) < ObjectMax /\ \A p \in Objects : parent[p] # answer[n]
          /\ Distinct(s) /\ Ordered(s, Made(n), parent)
      BY <2>1, <2>3 DEF Vectored
    <3> HIDE DEF s, s1
    <3>3. /\ s1 \in Seq(Objects) /\ Len(s1) = Len(s) + 1 /\ ToSet(s1) = ToSet(s) \cup {answer[n]}
          /\ Distinct(s1) /\ Ordered(s1, Made(n), parent)
      BY <1>2, <3>1, <3>2, VectorPush
    <3>4. Len(s1) <= ObjectMax
      BY <1>2, <3>2, <3>3, SessionAssumption
    <3> QED
      BY <3>1, <3>2, <3>3, <3>4
  <2>4. CASE answer[n] # Null /\ request[n].op = "release"
    <3>1. s1 = Pop(s, answer[n]) /\ answer[n] \in ToSet(s) /\ Made(n) = ToSet(s) \ {answer[n]}
          /\ Distinct(s) /\ Ordered(s, Made(n), parent)
      BY <1>2, <1>3, <2>1, <2>4 DEF Vectored
    <3>2. ~abandoned[n]
      BY <2>1, <3>1 DEF Requested, ToSet
    <3> HIDE DEF s, s1
    <3>3. /\ s1 \in Seq(Objects) /\ Len(s1) = Len(s) - 1 /\ ToSet(s1) = ToSet(s) \ {answer[n]}
          /\ Distinct(s1) /\ Ordered(s1, Made(n), parent)
      BY <1>2, <3>1, VectorPop
    <3>4. Len(s1) <= ObjectMax
      BY <1>2, <3>3, SessionAssumption
    <3> QED
      BY <3>1, <3>2, <3>3, <3>4
  <2> QED
    BY <1>2, <2>2, <2>3, <2>4
<1> HIDE DEF s, s1
<1>5. ObjectTypes'
  BY <1>1, <1>3, <1>4 DEF ObjectInv, ObjectTypes, objectVars, NoRequest
<1>6. stack'[n] = s1 /\ Made(n)' = Made(n) /\ parent' = parent /\ live' = live
  BY <1>1 DEF Made, objectVars, s1
<1>7. Vectored(n)'
  BY <1>1, <1>4, <1>6 DEF Vectored
<1>8. Requested(n)'
  BY <1>1, <1>4, <1>6 DEF ObjectInv, Requested
<1>9. \A r \in Nodes : r # n => Slot(r)' = Slot(r)
  BY <1>1, <1>3 DEF Slot, ObjectInv, ObjectTypes
<1> QED
  BY <1>1, <1>5, <1>7, <1>8, <1>9, SlotStep DEF objectVars

\* The executing thread is gone.
LEMMA ExitObjects ==
    ASSUME ObjectInv, NEW n \in Nodes, pc \in [Nodes -> Thread], ExitExec(n)
    PROVE  ObjectInv'
<1>1. /\ pc[n] = "exit" /\ pc' = [pc EXCEPT ![n] = "release"]
      /\ comp' = [comp EXCEPT ![n] = TRUE] /\ request' = [request EXCEPT ![n] = NoRequest]
      /\ answer' = [answer EXCEPT ![n] = Null]
      /\ UNCHANGED <<term, stack, abandoned, open, objectVars>>
  BY DEF ExitExec, Goto
<1>2. answer[n] = Null
  BY <1>1 DEF ObjectInv, Requested
<1>3. /\ pc'[n] = "release" /\ comp'[n] = TRUE /\ answer'[n] = Null
  BY <1>1 DEF ObjectInv, ObjectTypes
<1>4. ObjectTypes'
  BY <1>1 DEF ObjectInv, ObjectTypes, objectVars, NoRequest
<1>5. Vectored(n)'
  BY <1>1, <1>2, <1>3, VectorKept DEF ObjectInv
<1>6. Requested(n)'
  BY <1>1, <1>2, <1>3 DEF ObjectInv, Requested, objectVars
<1>7. \A r \in Nodes : r # n => Slot(r)' = Slot(r)
  BY <1>1 DEF Slot, ObjectInv, ObjectTypes
<1> QED
  BY <1>1, <1>4, <1>5, <1>6, <1>7, SlotStep DEF objectVars

\* A block becomes a connection, or a free block.
LEMMA BlockObjects ==
    ASSUME ObjectInv, NEW n \in Nodes, pc \in [Nodes -> Thread],
           \/ AddChild(n) /\ pc[n] = "none"
           \/ DeleteNode /\ n = cursor
    PROVE  ObjectInv'
<1>1. /\ pc[n] \in {"none", "ended"} /\ pc'[n] \in {"none", "check"}
      /\ UNCHANGED <<request, answer, objectVars>>
      /\ \A r \in Nodes : r # n => pc'[r] = pc[r]
  BY DEF AddChild, DeleteNode
<1>2. comp[n] /\ answer[n] = Null /\ stack[n] = <<>>
  BY <1>1 DEF ObjectInv, Requested
<1>3. comp'[n] /\ stack'[n] = <<>> /\ stack' \in [Nodes -> Seq(Objects)]
      /\ \A r \in Nodes : r # n => /\ comp'[r] = comp[r] /\ stack'[r] = stack[r]
                                   /\ abandoned'[r] = abandoned[r]
  BY <1>2 DEF AddChild, DeleteNode, ObjectInv, ObjectTypes
<1>4. abandoned'[n] => abandoned[n]
  BY DEF AddChild, DeleteNode, ObjectInv, ObjectTypes
<1>5. ObjectTypes'
  <2>1. /\ term' \in [Nodes -> BOOLEAN] /\ comp' \in [Nodes -> BOOLEAN]
        /\ open' \in [Nodes -> BOOLEAN] /\ abandoned' \in [Nodes -> BOOLEAN]
    BY DEF AddChild, DeleteNode, ObjectInv, ObjectTypes
  <2>2. \A r \in Nodes : Len(stack'[r]) <= ObjectMax
    BY <1>2, <1>3 DEF ObjectInv, ObjectTypes
  <2> QED
    BY <1>1, <1>3, <2>1, <2>2 DEF ObjectInv, ObjectTypes, objectVars
<1>6. Vectored(n)'
  BY <1>1, <1>2, <1>3, VectorKept DEF ObjectInv
<1>7. Requested(n)'
  BY <1>1, <1>2, <1>3, <1>4 DEF ObjectInv, Requested, objectVars
<1>8. \A r \in Nodes : r # n => Slot(r)' = Slot(r)
  BY <1>1, <1>3 DEF Slot
<1> QED
  BY <1>1, <1>5, <1>6, <1>7, <1>8, SlotStep DEF objectVars

\* An object goes: what the connections that did not make it keep.
LEMMA OthersWithout ==
    ASSUME ObjectInv, NEW n \in Nodes, NEW o \in Made(n), Gone(o),
           NEW q \in Nodes, q # n, Slot(q)' = Slot(q)
    PROVE  (Vectored(q) /\ Requested(q))'
<1>1. /\ pc'[q] = pc[q] /\ request'[q] = request[q] /\ answer'[q] = answer[q]
      /\ stack'[q] = stack[q] /\ comp'[q] = comp[q] /\ abandoned'[q] = abandoned[q]
  BY DEF Slot
<1>2. Made(q)' = Made(q)
  BY SessionAssumption DEF Gone, Made, ObjectInv, ObjectTypes
<1>3. \A p \in Objects : parent'[p] = parent[p] \/ parent'[p] = Null
  BY DEF Gone
<1>4. Vectored(q) /\ Requested(q) /\ stack[q] \in Seq(Objects) /\ Made(q) \subseteq Objects
  BY DEF ObjectInv, ObjectTypes, Made
<1>5. Ordered(stack'[q], Made(q)', parent')
  <2>1. Ordered(stack[q], Made(q), parent)
    BY <1>4 DEF Vectored
  <2>2. \A p \in Made(q) : parent'[p] = parent[p] \/ parent'[p] \notin Objects
    BY <1>3, <1>4, SessionAssumption
  <2>3. Ordered(stack[q], Made(q), parent')
    BY <1>4, <2>1, <2>2, OrderedLess
  <2> QED
    BY <1>1, <1>2, <2>3
<1>6. answer'[q] # Null => \A p \in Objects : parent[p] # answer'[q] => parent'[p] # answer'[q]
  BY <1>3
<1>7. Vectored(q)'
  BY <1>1, <1>2, <1>4, <1>5, <1>6 DEF Vectored
<1>8. live' \subseteq live
  BY DEF Gone
<1> QED
  BY <1>1, <1>4, <1>7, <1>8 DEF Requested

\* The order of the vector of the connection that made it.
LEMMA OrderWithout ==
    ASSUME ObjectInv, NEW n \in Nodes, NEW o \in Made(n), Gone(o), NEW s \in Seq(Objects),
           Ordered(s, Made(n), parent)
    PROVE  Ordered(s, Made(n)', parent') /\ Made(n)' = Made(n) \ {o}
<1>1. Made(n)' = Made(n) \ {o} /\ Made(n) \subseteq Objects
  BY SessionAssumption DEF Gone, Made, ObjectInv, ObjectTypes
<1>2. \A p \in Objects : parent'[p] = parent[p] \/ parent'[p] \notin Objects
  BY SessionAssumption DEF Gone
<1>3. Made(n)' \in SUBSET Made(n) /\ \A p \in Made(n)' : parent'[p] = parent[p] \/ parent'[p] \notin Objects
  BY <1>1, <1>2
<1> QED
  BY <1>1, <1>3, OrderedLess

\* What stays true of all objects.
LEMMA ObjectsWithout ==
    ASSUME ObjectInv, NEW o \in Objects, Gone(o)
    PROVE  /\ live' \subseteq Objects /\ maker' \in [Objects -> Handle]
           /\ parent' \in [Objects -> Objects \cup {Null}]
           /\ \A p \in Objects : parent'[p] \in live' \cup {Null}
BY DEF Gone, ObjectInv, ObjectTypes, Handle

\* The end of a connection: an object of its vector goes, or none is left.
LEMMA ReleaseObjects ==
    ASSUME ObjectInv, NEW n \in Nodes, pc \in [Nodes -> Thread], Release(n)
    PROVE  ObjectInv'
<1> DEFINE s == stack[n]
           o == Head(s)
<1>1. /\ pc[n] = "release" /\ UNCHANGED <<term, comp, request, answer, abandoned, open>>
      /\ \A r \in Nodes : r # n => pc'[r] = pc[r] /\ stack'[r] = stack[r]
  BY DEF Release, Goto, ObjectInv, ObjectTypes
<1>2. \A r \in Nodes : r # n => Slot(r)' = Slot(r)
  BY <1>1 DEF Slot
<1>3. answer[n] = Null /\ comp[n] /\ Vectored(n) /\ Requested(n)
  BY <1>1 DEF ObjectInv, Requested
<1>4. CASE s = <<>>
  <2>1. pc'[n] = "destroy" /\ UNCHANGED <<stack, objectVars>>
    BY <1>4 DEF Release, Goto
  <2>2. ObjectTypes'
    BY <1>1, <2>1 DEF ObjectInv, ObjectTypes, objectVars
  <2>3. Vectored(n)'
    BY <1>1, <2>1, VectorKept DEF ObjectInv
  <2>4. Requested(n)'
    BY <1>1, <1>3, <1>4, <2>1 DEF Requested, objectVars
  <2> QED
    BY <1>2, <2>1, <2>2, <2>3, <2>4, SlotStep
<1>5. CASE s # <<>>
  <2>1. pc' = pc /\ stack' = [stack EXCEPT ![n] = Tail(s)] /\ Gone(o)
    BY <1>5 DEF Release
  <2>2. s \in Seq(Objects) /\ Len(s) <= ObjectMax
    BY DEF ObjectInv, ObjectTypes
  <2>3. Made(n) = ToSet(s) /\ Distinct(s) /\ Ordered(s, Made(n), parent)
    BY <1>3 DEF Vectored
  <2> HIDE DEF s
  <2>4. /\ Tail(s) \in Seq(Objects) /\ Len(Tail(s)) = Len(s) - 1
        /\ o \in ToSet(s) /\ ToSet(Tail(s)) = ToSet(s) \ {o}
        /\ Distinct(Tail(s)) /\ Ordered(Tail(s), Made(n), parent)
    BY <1>5, <2>2, <2>3, VectorTail
  <2> HIDE DEF o
  <2>5. o \in Made(n) /\ o \in Objects
    BY <2>3, <2>4 DEF Made, ObjectInv, ObjectTypes
  <2>6. Ordered(Tail(s), Made(n)', parent') /\ Made(n)' = Made(n) \ {o}
    BY <2>1, <2>4, <2>5, OrderWithout
  <2>7. stack'[n] = Tail(s) /\ stack' \in [Nodes -> Seq(Objects)]
    BY <2>1, <2>4 DEF ObjectInv, ObjectTypes
  <2>8. /\ live' \subseteq Objects /\ maker' \in [Objects -> Handle]
        /\ parent' \in [Objects -> Objects \cup {Null}]
        /\ \A p \in Objects : parent'[p] \in live' \cup {Null}
    BY <2>1, <2>5, ObjectsWithout
  <2>9. ObjectTypes'
    <3>1. Len(stack'[n]) <= ObjectMax
      BY <2>2, <2>4, <2>7, SessionAssumption
    <3>2. \A r \in Nodes : Len(stack'[r]) <= ObjectMax
      BY <1>1, <3>1 DEF ObjectInv, ObjectTypes
    <3> QED
      BY <1>1, <2>7, <2>8, <3>2 DEF ObjectInv, ObjectTypes
  <2>10. Vectored(n)'
    BY <1>1, <1>3, <2>3, <2>4, <2>6, <2>7 DEF Vectored
  <2>11. Requested(n)'
    <3>1. ~abandoned[n]
      BY <1>3, <1>5 DEF Requested, s
    <3> QED
      BY <1>1, <1>3, <2>1, <3>1 DEF Requested
  <2>12. ASSUME NEW q \in Nodes PROVE (Vectored(q) /\ Requested(q))'
    BY <1>2, <2>1, <2>5, <2>10, <2>11, OthersWithout
  <2> QED
    BY <2>8, <2>9, <2>12 DEF ObjectInv
<1> QED
  BY <1>4, <1>5

\* The connection is gone, and with it the history of what it made.
LEMMA DestroyObjects ==
    ASSUME ObjectInv, NEW n \in Nodes, pc \in [Nodes -> Thread], Destroy(n)
    PROVE  ObjectInv'
<1>1. /\ pc[n] = "destroy" /\ pc'[n] = "unlock"
      /\ UNCHANGED <<term, comp, request, answer, stack, open, live, parent>>
      /\ maker' = [o \in Objects |-> IF maker[o] = n THEN Null ELSE maker[o]]
      /\ abandoned' = [abandoned EXCEPT ![n] = FALSE]
      /\ \A r \in Nodes : r # n => pc'[r] = pc[r]
  BY DEF Destroy, Goto
<1>2. answer[n] = Null /\ comp[n] /\ stack[n] = <<>> /\ Vectored(n)
  BY <1>1 DEF ObjectInv, Requested
<1>3. Made(n) = {}
  BY <1>2 DEF Vectored, ToSet
<1>4. \A q \in Nodes : Made(q)' = Made(q)
  <2> SUFFICES ASSUME NEW q \in Nodes PROVE Made(q)' = Made(q)
    OBVIOUS
  <2>1. \A x \in live : maker'[x] = q <=> maker[x] = q
    BY <1>1, <1>3, SessionAssumption DEF Made, ObjectInv, ObjectTypes
  <2> QED
    BY <1>1, <2>1 DEF Made
<1>5. ObjectTypes'
  BY <1>1 DEF ObjectInv, ObjectTypes, Handle
<1>6. \A q \in Nodes : Vectored(q)'
  BY <1>1, <1>4 DEF ObjectInv, Vectored
<1>7. ASSUME NEW q \in Nodes PROVE Requested(q)'
  <2>1. CASE q = n
    <3>1. abandoned'[n] = FALSE
      BY <1>1 DEF ObjectInv, ObjectTypes
    <3> QED
      BY <1>1, <1>2, <2>1, <3>1 DEF Requested
  <2>2. CASE q # n
    <3>1. abandoned'[q] = abandoned[q] /\ pc'[q] = pc[q]
      BY <1>1, <2>2 DEF ObjectInv, ObjectTypes
    <3> QED
      BY <1>1, <3>1 DEF ObjectInv, Requested
  <2> QED
    BY <2>1, <2>2
<1> QED
  BY <1>1, <1>5, <1>6, <1>7 DEF ObjectInv

\* The function behind the server ran: an object came, went, or none did.
LEMMA ExecObjects ==
    ASSUME ObjectInv, NEW n \in Nodes, Exec(n)
    PROVE  ObjectInv'
<1>1. /\ ~comp[n] /\ comp' = [comp EXCEPT ![n] = TRUE]
      /\ UNCHANGED <<pc, term, stack, abandoned, open>>
      /\ request' = IF pc[n] = "wait" THEN request ELSE [request EXCEPT ![n] = NoRequest]
  BY DEF Exec
<1>2. answer[n] = Null /\ Vectored(n) /\ Requested(n) /\ Made(n) = ToSet(stack[n])
  BY <1>1 DEF ObjectInv, Requested, Vectored
<1>3. /\ comp'[n] = TRUE /\ comp' \in [Nodes -> BOOLEAN]
      /\ request' \in [Nodes -> [op : {"call", "release"}, obj : Objects \cup {Null}]]
      /\ \A r \in Nodes : r # n => comp'[r] = comp[r] /\ request'[r] = request[r]
  BY <1>1 DEF ObjectInv, ObjectTypes, NoRequest
<1>4. pc[n] = "wait" => request'[n] = request[n]
  BY <1>1
<1>5. CASE answer' = [answer EXCEPT ![n] = Null] /\ UNCHANGED objectVars
  <2>1. answer'[n] = Null
    BY <1>5 DEF ObjectInv, ObjectTypes
  <2>2. ObjectTypes'
    BY <1>1, <1>3, <1>5 DEF ObjectInv, ObjectTypes, objectVars
  <2>3. Vectored(n)'
    BY <1>1, <1>2, <1>5, <2>1, VectorKept
  <2>4. Requested(n)'
    BY <1>1, <1>2, <1>3, <1>5, <2>1 DEF Requested, objectVars
  <2>5. \A r \in Nodes : r # n => Slot(r)' = Slot(r)
    BY <1>1, <1>3, <1>5 DEF Slot, ObjectInv, ObjectTypes
  <2> QED
    BY <1>5, <2>2, <2>3, <2>4, <2>5, SlotStep
<1>6. ASSUME request[n].op = "call", Len(stack[n]) < ObjectMax, \A m \in Nodes : ~abandoned[m],
             NEW o \in Objects \ live,
             answer' = [answer EXCEPT ![n] = o], live' = live \cup {o},
             maker' = [maker EXCEPT ![o] = n], parent' = [parent EXCEPT ![o] = request[n].obj]
      PROVE  ObjectInv'
  <2>1. pc[n] = "wait"
    BY <1>1, <1>2, <1>6 DEF Requested
  <2>2. request[n].obj \in Made(n) \cup {Null} /\ request[n].obj # o /\ request'[n] = request[n]
    BY <1>1, <1>2, <1>4, <1>6, <2>1, SessionAssumption DEF Requested, Made
  <2>3. answer'[n] = o /\ o # Null /\ (\A r \in Nodes : r # n => answer'[r] = answer[r])
        /\ \A p \in Objects : /\ maker'[p] = IF p = o THEN n ELSE maker[p]
                              /\ parent'[p] = IF p = o THEN request[n].obj ELSE parent[p]
    BY <1>6, SessionAssumption DEF ObjectInv, ObjectTypes
  <2>4. Made(n)' = Made(n) \cup {o} /\ \A q \in Nodes : q # n => Made(q)' = Made(q)
    BY <1>6, <2>3 DEF Made, ObjectInv, ObjectTypes
  <2>5. ObjectTypes'
    <3>1. request[n].obj \in Objects \cup {Null}
      BY DEF ObjectInv, ObjectTypes
    <3> QED
      BY <1>1, <1>3, <1>6, <3>1 DEF ObjectInv, ObjectTypes, Handle
  <2>6. \A p \in Objects : parent'[p] \in live' \cup {Null} /\ parent'[p] # o
    BY <1>6, <2>2, <2>3, SessionAssumption DEF ObjectInv, Made
  <2>7. ASSUME NEW q \in Nodes PROVE Ordered(stack'[q], Made(q)', parent')
    <3>1. Ordered(stack[q], Made(q), parent) /\ stack[q] \in Seq(Objects) /\ stack'[q] = stack[q]
      BY <1>1 DEF ObjectInv, ObjectTypes, Vectored
    <3>2. Made(q) \subseteq live /\ live \subseteq Objects
      BY DEF Made, ObjectInv, ObjectTypes
    <3>3. \A p \in Made(q) : parent'[p] = parent[p]
      BY <1>6, <2>3, <3>2
    <3>4. \A i \in DOMAIN stack[q] : stack[q][i] \in Made(q)' => stack[q][i] \in Made(q)
      <4>1. CASE q = n
        BY <1>2, <1>6, <2>4, <3>2, <4>1 DEF ToSet
      <4>2. CASE q # n
        BY <2>4, <4>2
      <4> QED
        BY <4>1, <4>2
    <3> QED
      BY <3>1, <3>3, <3>4 DEF Ordered
  <2>8. Vectored(n)'
    <3>1. o \notin ToSet(stack[n])
      BY <1>2, <1>6 DEF Made
    <3> QED
      BY <1>1, <1>2, <1>6, <2>2, <2>3, <2>4, <2>6, <2>7, <3>1 DEF Vectored
  <2>9. Requested(n)'
    BY <1>1, <1>2, <1>3, <1>6, <2>1 DEF Requested
  <2>10. ASSUME NEW q \in Nodes, q # n PROVE (Vectored(q) /\ Requested(q))'
    <3>1. Vectored(q) /\ Requested(q)
      BY DEF ObjectInv
    <3>2. /\ answer'[q] = answer[q] /\ request'[q] = request[q] /\ stack'[q] = stack[q]
          /\ pc'[q] = pc[q] /\ comp'[q] = comp[q] /\ abandoned'[q] = abandoned[q]
          /\ Made(q)' = Made(q)
      BY <1>1, <1>3, <2>3, <2>4, <2>10
    <3>3. ASSUME answer[q] # Null, request[q].op = "call", NEW p \in Objects PROVE parent'[p] # answer[q]
      <4>1. parent[p] # answer[q] /\ answer[q] \in Made(q)
        BY <3>1, <3>3 DEF Vectored
      <4>2. answer[q] \notin Made(n)
        BY <2>10, <4>1 DEF Made
      <4> QED
        BY <2>2, <2>3, <3>3, <4>1, <4>2
    <3>4. Vectored(q)'
      BY <2>7, <3>1, <3>2, <3>3 DEF Vectored
    <3>5. Requested(q)'
      BY <1>6, <3>1, <3>2 DEF Requested
    <3> QED
      BY <3>4, <3>5
  <2> QED
    BY <2>5, <2>6, <2>8, <2>9, <2>10 DEF ObjectInv
<1>7. CASE /\ request[n].op = "release" /\ request[n].obj \in live
           /\ answer' = [answer EXCEPT ![n] = request[n].obj]
           /\ Gone(request[n].obj)
  <2> DEFINE o == request[n].obj
  <2>1. pc[n] = "wait" /\ ~abandoned[n]
    BY <1>1, <1>2, <1>7 DEF Requested
  <2>2. o \in Objects /\ o # Null /\ o \in ToSet(stack[n]) /\ request'[n] = request[n]
    BY <1>1, <1>2, <1>4, <1>7, <2>1, SessionAssumption DEF Requested, ObjectInv, ObjectTypes
  <2>3. answer'[n] = o /\ \A r \in Nodes : r # n => answer'[r] = answer[r]
    BY <1>7 DEF ObjectInv, ObjectTypes
  <2>4. Gone(o) /\ o \in Made(n)
    BY <1>2, <1>7, <2>2
  <2>5. /\ live' \subseteq Objects /\ maker' \in [Objects -> Handle]
        /\ parent' \in [Objects -> Objects \cup {Null}]
        /\ \A p \in Objects : parent'[p] \in live' \cup {Null}
    BY <2>2, <2>4, ObjectsWithout
  <2>6. ObjectTypes'
    BY <1>1, <1>3, <1>7, <2>2, <2>5 DEF ObjectInv, ObjectTypes
  <2>7. Ordered(stack[n], Made(n)', parent') /\ Made(n)' = Made(n) \ {o}
    <3>1. stack[n] \in Seq(Objects) /\ Ordered(stack[n], Made(n), parent)
      BY <1>2 DEF ObjectInv, ObjectTypes, Vectored
    <3> QED
      BY <2>4, <3>1, OrderWithout
  <2>8. Vectored(n)'
    BY <1>1, <1>2, <1>7, <2>2, <2>3, <2>7 DEF Vectored
  <2>9. Requested(n)'
    BY <1>1, <1>2, <1>3, <2>1 DEF Requested
  <2>10. ASSUME NEW q \in Nodes, q # n PROVE (Vectored(q) /\ Requested(q))'
    <3>1. Slot(q)' = Slot(q)
      BY <1>1, <1>3, <2>3, <2>10 DEF Slot
    <3> QED
      BY <2>4, <2>10, <3>1, OthersWithout
  <2> QED
    BY <2>5, <2>6, <2>8, <2>9, <2>10 DEF ObjectInv
<1> QED
  BY <1>5, <1>6, <1>7 DEF Exec

\* Every step keeps it.
LEMMA ObjectInvStep == ListInv /\ ObjectInv /\ [Next]_vars => ObjectInv'
<1> SUFFICES ASSUME ListInv, ObjectInv, [Next]_vars PROVE ObjectInv'
  OBVIOUS
<1>1. pc \in [Nodes -> Thread] /\ term \in [Nodes -> BOOLEAN] /\ open \in [Nodes -> BOOLEAN]
  BY DEF ListInv, ListTypes, ObjectInv, ObjectTypes
<1>2. CASE UNCHANGED <<pc, comp, request, answer, stack, abandoned, objectVars, term, open>>
  BY <1>1, <1>2, NoSlotStep
<1>3. CASE OpenServer \/ CloseServer \/ ServerClosed \/ UNCHANGED vars
  BY <1>2, <1>3 DEF OpenServer, CloseServer, ServerClosed, vars, threadVars
<1>4. CASE AcceptWait \/ NoClient \/ DeleteBegin \/ DeleteEnd \/ JoinChild
  BY <1>2, <1>4 DEF AcceptWait, NoClient, DeleteBegin, DeleteEnd, JoinChild, threadVars
<1>5. CASE EndChild
  <2>1. UNCHANGED <<pc, comp, request, answer, stack, abandoned, objectVars, open>>
        /\ (term' = term \/ term' = [term EXCEPT ![young] = TRUE])
    BY <1>5 DEF EndChild
  <2> QED
    BY <1>1, <2>1, NoSlotStep
<1>6. ASSUME NEW n \in Nodes, AddChild(n) PROVE ObjectInv'
  <2>1. pc[n] = "none"
    BY <1>6 DEF AddChild, ListInv, Control
  <2> QED
    BY <1>1, <1>6, <2>1, BlockObjects
<1>7. CASE DeleteNode
  <2>1. cursor \in Nodes
    BY <1>7, ListsDelete
  <2> QED
    BY <1>1, <1>7, <2>1, BlockObjects
<1>8. ASSUME NEW n \in Nodes, RecvThread(n) PROVE ObjectInv'
  BY <1>1, <1>8, ThreadObjects, RequestObjects, AnswerObjects, ExitObjects, ReleaseObjects,
     DestroyObjects DEF RecvThread
<1>9. ASSUME NEW n \in Nodes, Disconnect(n) PROVE ObjectInv'
  <2>1. UNCHANGED <<pc, comp, request, answer, stack, abandoned, objectVars, term>>
        /\ open' = [open EXCEPT ![n] = FALSE]
    BY <1>9 DEF Disconnect, threadVars
  <2> QED
    BY <1>1, <2>1, NoSlotStep
<1> QED
  BY <1>3, <1>4, <1>5, <1>6, <1>7, <1>8, <1>9, ExecObjects DEF Next, AcceptThread

THEOREM ObjectInvariant == Spec => [](ListInv /\ ObjectInv)
BY ListInvInit, ListInvStep, ObjectInvInit, ObjectInvStep, PTL DEF Spec

\* What the variables hold.
THEOREM TypeCorrect == Spec => []TypeOK
<1>1. ListInv /\ ObjectInv => TypeOK
  BY DEF ListInv, ListTypes, ObjectInv, ObjectTypes, TypeOK
<1> QED
  BY <1>1, ObjectInvariant, PTL

\* recv_thread's vector names the objects the connection has, when no request of
\* it is executing and none was abandoned.
THEOREM ObjectsAreTracked == Spec => []ObjectsTracked
<1>1. ObjectInv => ObjectsTracked
  BY DEF ObjectInv, Vectored, Requested, ObjectsTracked
<1> QED
  BY <1>1, ObjectInvariant, PTL

\* The end of a connection releases no object before one that was made from it.
THEOREM ChildrenAreReleasedFirst == Spec => ChildrenReleasedFirst
<1> DEFINE First == \A n \in Nodes :
              pc[n] = "release" /\ stack[n] # <<>> /\ stack'[n] = Tail(stack[n])
                => \A o \in ToSet(stack'[n]) : parent[o] # Head(stack[n])
<1>1. ObjectInv => [First]_vars
  <2> SUFFICES ASSUME ObjectInv, NEW n \in Nodes, pc[n] = "release", stack[n] # <<>>,
                      stack'[n] = Tail(stack[n]), NEW o \in ToSet(Tail(stack[n]))
               PROVE  parent[o] # Head(stack[n])
    OBVIOUS
  <2> DEFINE s == stack[n]
  <2>1. s \in Seq(Objects) /\ Made(n) = ToSet(s) /\ Ordered(s, Made(n), parent)
    BY DEF ObjectInv, ObjectTypes, Vectored, Requested
  <2> HIDE DEF s
  <2>2. s # <<>> /\ o \in ToSet(Tail(s))
    BY DEF s
  <2>3. PICK i \in 1..Len(Tail(s)) : o = Tail(s)[i]
    BY <2>1, <2>2 DEF ToSet
  <2>4. /\ i + 1 \in DOMAIN s /\ 1 \in DOMAIN s /\ 1 < i + 1 /\ o = s[i + 1] /\ Head(s) = s[1]
    BY <2>1, <2>2, <2>3
  <2>5. s[1] \in Made(n) /\ s[i + 1] \in Made(n)
    BY <2>1, <2>4 DEF ToSet
  <2>6. parent[o] # Head(s)
    BY <2>1, <2>4, <2>5 DEF Ordered
  <2> QED
    BY <2>6 DEF s
<1> QED
  BY <1>1, ObjectInvariant, PTL DEF ChildrenReleasedFirst
=============================================================================
