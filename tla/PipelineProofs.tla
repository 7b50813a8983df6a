--------------------------- MODULE PipelineProofs ---------------------------
(***************************************************************************)
(* Theorems about Pipeline and the circular buffer Window, for every       *)
(* number of contexts, every pool and size of queue, every program and     *)
(* every number of traps: that the operations of a window leave no hole,   *)
(* and of the core the types, what window, queues and links say of each    *)
(* other, that nothing that went to memory is squashed, and that the core  *)
(* is sequentially consistent.                                             *)
(*                                                                         *)
(* The invariant of the core speaks of the order of the entries (Older),   *)
(* not of slots: the lemmas about Window say what each of its operations   *)
(* does to that order.                                                     *)
(***************************************************************************)
EXTENDS Pipeline, SubseqProofs, NaturalsInduction

-----------------------------------------------------------------------------
(* What the operations of a window keep, for every size and every set of    *)
(* entries: no operation leaves a hole, provided that what leaves is in the *)
(* window.  The argument measures slots by their age, the number of         *)
(* increments from the head.                                                *)

(* Facts about one step around the window. *)
LEMMA Around ==
  ASSUME NEW D, NEW n \in Nat \ {0}, NEW q \in WindowType(D, n), NEW s \in 0 .. n - 1
  PROVE  /\ q.size = n /\ DOMAIN q.w = 0 .. n - 1
         /\ window_increment(q, s) \in 0 .. n - 1
         /\ window_decrement(q, s) \in 0 .. n - 1
         /\ window_decrement(q, window_increment(q, s)) = s
         /\ window_increment(q, window_decrement(q, s)) = s
         /\ HeadSlot(q) \in 0 .. n - 1
         /\ Age(q, s) \in 0 .. n - 1
<1>1. /\ q.size = n /\ q.w \in [0 .. n - 1 -> D \union {None}]
      /\ q.last_created \in 0 .. n - 1 /\ q.last_committed \in 0 .. n - 1
  BY DEF WindowType
<1>2. /\ window_increment(q, s) \in 0 .. n - 1
      /\ window_decrement(q, s) \in 0 .. n - 1
      /\ window_decrement(q, window_increment(q, s)) = s
      /\ window_increment(q, window_decrement(q, s)) = s
  BY <1>1 DEF window_increment, window_decrement
<1>3. HeadSlot(q) \in 0 .. n - 1
  BY <1>1 DEF HeadSlot, window_increment
<1>4. Age(q, s) \in 0 .. n - 1
  BY <1>1, <1>3 DEF Age, Steps
<1> QED
  BY <1>1, <1>2, <1>3, <1>4

(* The age tells slots apart. *)
LEMMA AgeInjective ==
  ASSUME NEW D, NEW n \in Nat \ {0}, NEW q \in WindowType(D, n),
         NEW s \in 0 .. n - 1, NEW r \in 0 .. n - 1, Age(q, s) = Age(q, r)
  PROVE  s = r
<1>1. q.size = n /\ HeadSlot(q) \in 0 .. n - 1
  BY Around
<1> QED
  BY <1>1 DEF Age, Steps

(* A new window is empty. *)
LEMMA EmptyWhole ==
  ASSUME NEW D, NEW n \in Nat \ {0}
  PROVE  EmptyWindow(n) \in WindowType(D, n) /\ NoHoles(EmptyWindow(n))
<1> DEFINE q == EmptyWindow(n)
<1>1. q \in WindowType(D, n)
  BY DEF EmptyWindow, WindowType
<1>2. /\ q.w = [s \in 0 .. n - 1 |-> None]
      /\ q.last_created = n - 1 /\ q.last_committed = n - 1 /\ q.size = n
  BY DEF EmptyWindow
<1>3. empty(q)
  BY <1>2 DEF empty, slot_avail, window_increment
<1> QED
  BY <1>1, <1>2, <1>3 DEF NoHoles, Reach

(* insert() into a window that is not full. *)
THEOREM InsertedWhole ==
  ASSUME NEW D, None \notin D, NEW n \in Nat \ {0}, NEW q \in WindowType(D, n),
         NEW d \in D, NoHoles(q), slot_avail(q)
  PROVE  /\ Inserted(q, d) \in WindowType(D, n)
         /\ NoHoles(Inserted(q, d))
<1> DEFINE p == Inserted(q, d)
           c == window_increment(q, q.last_created)
<1>1. /\ q.size = n /\ q.w \in [0 .. n - 1 -> D \union {None}]
      /\ q.last_created \in 0 .. n - 1 /\ q.last_committed \in 0 .. n - 1
  BY DEF WindowType
<1>2. c \in 0 .. n - 1 /\ HeadSlot(q) \in 0 .. n - 1
  BY <1>1, Around
<1>3. /\ p.size = n /\ p.w = [q.w EXCEPT ![c] = d]
      /\ p.last_created = c /\ p.last_committed = q.last_committed
      /\ p \in WindowType(D, n)
  BY <1>1, <1>2 DEF Inserted, WindowType
<1>4. HeadSlot(p) = HeadSlot(q)
  BY <1>1, <1>3 DEF HeadSlot, window_increment
<1>5. p.w[c] # None
  BY <1>1, <1>2, <1>3
<1>6. \A s \in 0 .. n - 1 : p.w[s] # None <=> q.w[s] # None \/ s = c
  BY <1>1, <1>2, <1>3, <1>5
<1>7. ~empty(p)
  <2>1. CASE q.last_committed # c
    BY <2>1, <1>3 DEF empty
  <2>2. CASE q.last_committed = c
    <3>1. SUFFICES ASSUME slot_avail(p) PROVE FALSE
      BY DEF empty
    <3> DEFINE h == HeadSlot(q)
    <3>2. p.w[h] = None
      BY <3>1, <2>2, <1>1, <1>3 DEF slot_avail, window_increment, HeadSlot
    <3>3. q.w[h] = None /\ h # c
      BY <3>2, <1>2, <1>6, <1>5
    <3>4. ~empty(q)
      BY <3>3, <2>2, <1>1, <1>2 DEF empty, HeadSlot, window_increment
    <3>5. h \in Reach(q)
      BY <3>4, <1>1, <1>2 DEF Reach, SquashRange, Steps
    <3> QED
      BY <3>3, <3>5 DEF NoHoles
  <2> QED
    BY <2>1, <2>2
<1>8. CASE empty(q)
  <2>1. \A s \in 0 .. n - 1 : q.w[s] = None
    BY <1>1, <1>8 DEF NoHoles, Reach
  <2>2. c = HeadSlot(q)
    BY <1>8 DEF empty, HeadSlot
  <2>3. Reach(p) = {c}
    BY <2>2, <1>1, <1>2, <1>3, <1>4, <1>7 DEF Reach, SquashRange, Steps
  <2> QED
    BY <2>1, <2>3, <1>1, <1>2, <1>3, <1>6 DEF NoHoles
<1>9. CASE ~empty(q)
  <2> DEFINE h == HeadSlot(q)
  <2>1. c \notin Reach(q)
    BY DEF NoHoles, slot_avail
  <2>2. Steps(q, h, c) > Steps(q, h, q.last_created)
    BY <2>1, <1>1, <1>2, <1>9 DEF Reach, SquashRange, Steps
  <2>3. Steps(q, h, c) = Steps(q, h, q.last_created) + 1
    BY <2>2, <1>1, <1>2 DEF Steps, window_increment
  <2>4. \A s \in 0 .. n - 1 : Steps(p, h, s) = Steps(q, h, s)
    BY <1>1, <1>3 DEF Steps
  <2>5. \A s \in 0 .. n - 1 : Steps(q, h, s) = Steps(q, h, c) => s = c
    BY <1>1, <1>2 DEF Steps
  <2>6. \A s \in 0 .. n - 1 : Steps(q, h, s) \in Nat
    BY <1>1, <1>2 DEF Steps
  <2>7. Reach(p) = Reach(q) \union {c}
    BY SMTT(30), <2>3, <2>4, <2>5, <2>6, <1>1, <1>2, <1>3, <1>4, <1>7, <1>9 DEF Reach, SquashRange
  <2> QED
    BY <2>7, <1>1, <1>2, <1>3, <1>6 DEF NoHoles
<1> QED
  BY <1>3, <1>8, <1>9

(* pop_head() of an entry: the head slot is emptied, what was older than   *)
(* the entry is one slot younger.                                          *)
THEOREM PoppedWhole ==
  ASSUME NEW D, None \notin D, NEW n \in Nat \ {0}, NEW q \in WindowType(D, n),
         NEW d \in D, \E s \in DOMAIN q.w : q.w[s] = d, NoHoles(q)
  PROVE  /\ Popped(q, d) \in WindowType(D, n)
         /\ NoHoles(Popped(q, d))
<1> DEFINE p == Popped(q, d)
           h == HeadSlot(q)
           g == HeadSlot(p)
           e == SlotOf(q, d)
<1>1. /\ q.size = n /\ q.w \in [0 .. n - 1 -> D \union {None}]
      /\ q.last_created \in 0 .. n - 1 /\ q.last_committed \in 0 .. n - 1
  BY DEF WindowType
<1>2. h \in 0 .. n - 1 /\ e \in 0 .. n - 1 /\ q.w[e] = d
  BY <1>1, Around DEF SlotOf
<1>3. /\ p.size = n /\ p.last_created = q.last_created /\ p.last_committed = h
      /\ p.w = [s \in 0 .. n - 1 |->
                  IF s = h THEN None
                  ELSE IF Steps(q, h, s) <= Steps(q, h, e)
                  THEN q.w[window_decrement(q, s)] ELSE q.w[s]]
  BY <1>1 DEF Popped, WindowType
<1>4. p \in WindowType(D, n)
  <2>1. \A s \in 0 .. n - 1 : window_decrement(q, s) \in 0 .. n - 1
    BY Around
  <2>2. p.w \in [0 .. n - 1 -> D \union {None}]
    BY ZenonT(40), <1>1, <1>3, <2>1
  <2>3. p = [q EXCEPT !.last_committed = p.last_committed, !.w = p.w]
    BY <1>3 DEF Popped
  <2> QED
    BY <1>1, <1>2, <1>3, <2>2, <2>3 DEF WindowType
<1>5. ~empty(q) /\ e \in Reach(q)
  <2>1. e \in Reach(q)
    BY <1>1, <1>2 DEF NoHoles
  <2> QED
    BY <2>1 DEF Reach
<1>6. Reach(q) = {s \in 0 .. n - 1 : Steps(q, h, s) <= Steps(q, h, q.last_created)}
  BY <1>1, <1>5 DEF Reach, SquashRange
<1>7. {s \in 0 .. n - 1 : p.w[s] # None} = Reach(q) \ {h}
  <2> SUFFICES ASSUME NEW s \in 0 .. n - 1
               PROVE  p.w[s] # None <=> s \in Reach(q) /\ s # h
    BY <1>6
  <2>1. \A r \in 0 .. n - 1 : q.w[r] # None <=> r \in Reach(q)
    BY <1>1 DEF NoHoles
  <2>2. CASE s = h
    BY <2>2, <1>3
  <2>3. CASE s # h /\ Steps(q, h, s) <= Steps(q, h, e)
    <3>1. window_decrement(q, s) \in 0 .. n - 1
      BY Around
    <3>2. Steps(q, h, window_decrement(q, s)) = Steps(q, h, s) - 1
      BY <2>3, <1>1, <1>2 DEF Steps, window_decrement
    <3>3. \A r \in 0 .. n - 1 : Steps(q, h, r) \in Int
      BY <1>1, <1>2 DEF Steps
    <3>4. s \in Reach(q) /\ window_decrement(q, s) \in Reach(q)
      <4> DEFINE r == window_decrement(q, s)
                 last == Steps(q, h, q.last_created)
      <4>1. Steps(q, h, e) <= last
        BY <1>5, <1>6
      <4>2. Steps(q, h, s) \in Int /\ Steps(q, h, e) \in Int /\ last \in Int
        BY <1>1, <1>2, <3>3
      <4>3. Steps(q, h, s) <= last
        BY <4>1, <4>2, <2>3
      <4>4. Steps(q, h, r) <= last
        BY <4>2, <4>3, <3>2
      <4> QED
        BY <4>3, <4>4, <3>1, <1>6
    <3> QED
      BY <2>1, <2>3, <3>1, <3>4, <1>3
  <2>4. CASE s # h /\ ~(Steps(q, h, s) <= Steps(q, h, e))
    BY <2>1, <2>4, <1>3
  <2> QED
    BY <2>2, <2>3, <2>4
<1>8. g = window_increment(q, h) /\ g \in 0 .. n - 1
  BY <1>1, <1>2, <1>3 DEF HeadSlot, window_increment
<1>9. CASE q.last_created = h
  <2>1. Reach(q) = {h}
    BY <1>9, <1>1, <1>2, <1>6 DEF Steps
  <2>2. p.w[g] = None
    BY <1>7, <1>8, <2>1
  <2>3. empty(p)
    BY <1>9, <1>3, <1>8, <2>2 DEF empty, slot_avail, HeadSlot
  <2> QED
    BY <1>3, <1>4, <1>7, <2>1, <2>3 DEF NoHoles, Reach
<1>10. CASE q.last_created # h
  <2>1. ~empty(p)
    BY <1>10, <1>3 DEF empty
  <2>2. \A s \in 0 .. n - 1 : s # h => Steps(p, g, s) = Steps(q, h, s) - 1
    BY <1>1, <1>2, <1>3, <1>8 DEF Steps, window_increment
  <2>3. Steps(p, g, h) = n - 1
    BY <1>1, <1>2, <1>3, <1>8 DEF Steps, window_increment
  <2>4. \A s \in 0 .. n - 1 : Steps(q, h, s) \in 0 .. n - 1
    BY <1>1, <1>2 DEF Steps
  <2>5. Reach(p) = {s \in 0 .. n - 1 : Steps(p, g, s) <= Steps(p, g, q.last_created)}
    BY <2>1, <1>3 DEF Reach, SquashRange
  <2>6. Reach(p) = Reach(q) \ {h}
    <3>1. Steps(p, g, q.last_created) = Steps(q, h, q.last_created) - 1
      BY <2>2, <1>1, <1>10
    <3>2. /\ Steps(q, h, q.last_created) \in 0 .. n - 1
          /\ Steps(p, g, q.last_created) < n - 1
      BY SMTT(30), <3>1, <2>4, <1>1
    <3>3. h \notin Reach(p)
      <4>1. ~(Steps(p, g, h) <= Steps(p, g, q.last_created))
        BY <3>1, <3>2, <2>3
      <4> QED
        BY <4>1, <2>5
    <3>5. ASSUME NEW s \in 0 .. n - 1, s # h
          PROVE  s \in Reach(p) <=> s \in Reach(q)
      <4>1. Steps(q, h, s) \in 0 .. n - 1 /\ Steps(p, g, s) = Steps(q, h, s) - 1
        BY <3>5, <2>2, <2>4
      <4>2. Steps(p, g, s) <= Steps(p, g, q.last_created)
              <=> Steps(q, h, s) <= Steps(q, h, q.last_created)
        BY <4>1, <3>1, <3>2
      <4> QED
        BY <4>2, <2>5, <1>6
    <3>4. Reach(p) \subseteq 0 .. n - 1 /\ Reach(q) \subseteq 0 .. n - 1
      BY <2>5, <1>6
    <3> QED
      BY <3>3, <3>4, <3>5
  <2> QED
    BY <2>6, <1>3, <1>4, <1>7 DEF NoHoles
<1> QED
  BY <1>9, <1>10

(* The increments between two slots, by their ages. *)
LEMMA StepsByAge ==
  ASSUME NEW D, NEW n \in Nat \ {0}, NEW q \in WindowType(D, n),
         NEW s \in 0 .. n - 1, NEW r \in 0 .. n - 1
  PROVE  Steps(q, s, r) = IF Age(q, s) <= Age(q, r) THEN Age(q, r) - Age(q, s)
                          ELSE Age(q, r) - Age(q, s) + n
<1>1. q.size = n /\ HeadSlot(q) \in 0 .. n - 1
  BY Around
<1> QED
  BY <1>1 DEF Age, Steps

(* A window whose contents and ends are replaced is a window. *)
LEMMA ReplacedType ==
  ASSUME NEW D, NEW n \in Nat \ {0}, NEW q \in WindowType(D, n),
         NEW w \in [0 .. n - 1 -> D \union {None}],
         NEW a \in 0 .. n - 1, NEW b \in 0 .. n - 1
  PROVE  [q EXCEPT !.w = w, !.last_committed = a, !.last_created = b] \in WindowType(D, n)
BY DEF WindowType

(* The slot of the k-th step of the walk, the steps that find it taken, and *)
(* what collapse() keeps.                                                  *)
Visited(q, k) == CHOOSE s \in DOMAIN q.w : Age(q, s) = k - 1
Taken(q) == {k \in DOMAIN Walk(q) : Walk(q)[k] # None}
Left(q) == Pick(Walk(q), Taken(q))

(* The walk of collapse() visits the slots from the head to last_created   *)
(* once each; what is left goes to the slots from 0 on.                    *)
WalkRight(D, n, q) ==
  /\ Walk(q) \in Seq(D \union {None})
  /\ Len(Walk(q)) = Age(q, q.last_created) + 1
  /\ DOMAIN Walk(q) = 1 .. Age(q, q.last_created) + 1
  /\ \A k \in 1 .. Age(q, q.last_created) + 1 :
        /\ Visited(q, k) \in 0 .. n - 1 /\ Age(q, Visited(q, k)) = k - 1
        /\ Walk(q)[k] = q.w[Visited(q, k)]
  /\ Taken(q) \in SUBSET (1 .. Len(Walk(q)))
  /\ Left(q) \in Seq(D \union {None}) /\ Len(Left(q)) = Cardinality(Taken(q))
  /\ Cardinality(Taken(q)) \in 1 .. n
  /\ Range(Left(q)) = {Walk(q)[k] : k \in Taken(q)}
  /\ Collapsed(q).w = [s \in 0 .. n - 1 |->
        IF s < Cardinality(Taken(q)) THEN Left(q)[s + 1] ELSE None]
  /\ Collapsed(q).last_created = Cardinality(Taken(q)) - 1
  /\ Collapsed(q).size = n /\ Collapsed(q).last_committed = n - 1

LEMMA WalkFacts ==
  ASSUME NEW D, None \notin D, NEW n \in Nat \ {0}, NEW q \in WindowType(D, n),
         NEW r \in SquashRange(q, HeadSlot(q)), q.w[r] # None
  PROVE  WalkRight(D, n, q)
<1> DEFINE walk == Walk(q)
           K == {k \in DOMAIN walk : walk[k] # None}
           left == Pick(walk, K)
           c == Cardinality(K)
           p == Collapsed(q)
           E == D \union {None}
<1>1. /\ q.size = n /\ q.w \in [0 .. n - 1 -> E] /\ DOMAIN q.w = 0 .. n - 1
      /\ q.last_created \in 0 .. n - 1 /\ q.last_committed \in 0 .. n - 1
      /\ HeadSlot(q) \in 0 .. n - 1 /\ Age(q, q.last_created) \in 0 .. n - 1
  BY Around DEF WindowType
<1>2. r \in 0 .. n - 1 /\ Age(q, r) \in 0 .. n - 1 /\ Age(q, r) <= Age(q, q.last_created)
  <2>1. r \in 0 .. n - 1
    BY <1>1 DEF SquashRange
  <2> QED
    BY <2>1, Around DEF SquashRange, Age
<1> DEFINE m == Age(q, q.last_created) + 1
           at(k) == CHOOSE s \in DOMAIN q.w : Age(q, s) = k - 1
<1>3. m \in 1 .. n /\ walk = [k \in 1 .. m |-> q.w[at(k)]]
  BY <1>1 DEF Walk
<1>4. ASSUME NEW k \in 1 .. m
      PROVE  at(k) \in 0 .. n - 1 /\ Age(q, at(k)) = k - 1
  <2> DEFINE h == HeadSlot(q)
             s == IF h + k - 1 < n THEN h + k - 1 ELSE h + k - 1 - n
  <2>1. k \in 1 .. n /\ h \in 0 .. n - 1
    BY <1>1, <1>3
  <2>2. s \in 0 .. n - 1
    BY <2>1
  <2>3. Age(q, s) = k - 1
    <3> HIDE DEF h
    <3>1. Age(q, s) = IF s >= h THEN s - h ELSE s - h + n
      BY <1>1 DEF Age, Steps, h
    <3> QED
      BY <2>1, <3>1
  <2> QED
    BY <2>2, <2>3, <1>1
<1>5. walk \in Seq(E) /\ Len(walk) = m /\ DOMAIN walk = 1 .. m
  <2>1. \A k \in 1 .. m : q.w[at(k)] \in E
    BY <1>1, <1>4
  <2>2. walk \in [1 .. m -> E]
    BY <1>3, <2>1
  <2>3. m \in Nat /\ DOMAIN walk = 1 .. m
    BY <1>3
  <2> HIDE DEF walk, m
  <2> QED
    BY <2>2, <2>3, SeqDef, LenProperties
<1>6. K \in SUBSET (1 .. Len(walk)) /\ m \in Nat
  BY <1>3, <1>5
<1>7. left \in Seq(E) /\ Len(left) = c /\ Range(left) = {walk[k] : k \in K}
  BY <1>5, <1>6, PickProperties
<1>8. c \in 1 .. n
  <2>1. Age(q, r) + 1 \in K
    <3>1. Age(q, r) + 1 \in 1 .. m
      BY <1>1, <1>2
    <3>2. at(Age(q, r) + 1) = r
      <4> DEFINE k == Age(q, r) + 1
      <4>1. at(k) \in 0 .. n - 1 /\ Age(q, at(k)) = k - 1
        BY <3>1, <1>4
      <4>2. Age(q, at(k)) = Age(q, r)
        BY <4>1, <1>2
      <4> HIDE DEF at
      <4> QED
        BY <4>1, <4>2, <1>2, AgeInjective
    <3> QED
      BY <3>1, <3>2, <1>3, <1>5
  <2>2. IsFiniteSet(K) /\ c \in Nat
    BY <1>5, <1>6, Positions
  <2>3. c # 0
    BY <2>1, <2>2, FS_EmptySet
  <2>4. IsFiniteSet(1 .. m) /\ Cardinality(1 .. m) = m
    BY <1>3, FS_Interval
  <2>5. c <= m
    BY <2>4, <1>5, FS_Subset
  <2> QED
    BY <2>2, <2>3, <2>5, <1>3
<1>9. /\ p.size = n /\ p.last_committed = n - 1 /\ p.last_created = c - 1
       /\ p.w = [s \in 0 .. n - 1 |-> IF s < c THEN left[s + 1] ELSE None]
  BY <1>1, <1>7 DEF Collapsed, WindowType
<1>10. \A k \in 1 .. m : walk[k] = q.w[at(k)]
  BY <1>3
<1>11. Taken(q) = K /\ Left(q) = left
  BY DEF Taken, Left
<1>12. \A k : Visited(q, k) = at(k)
  BY DEF Visited
<1>13. \A k \in 1 .. m : /\ Visited(q, k) \in 0 .. n - 1 /\ Age(q, Visited(q, k)) = k - 1
                          /\ walk[k] = q.w[Visited(q, k)]
  <2> HIDE DEF walk, m, at
  <2> QED
    BY <1>4, <1>10, <1>12
<1>14. Len(left) = c /\ Len(left) \in 1 .. n
  BY <1>7, <1>8
<1> HIDE DEF K, left
<1> QED
  BY <1>5, <1>6, <1>7, <1>8, <1>9, <1>11, <1>13 DEF WalkRight

(* A window that collapse() leaves with something in it. *)
LEMMA CollapsedWhole ==
  ASSUME NEW D, None \notin D, NEW n \in Nat \ {0}, NEW q \in WindowType(D, n),
         NEW r \in SquashRange(q, HeadSlot(q)), q.w[r] # None
  PROVE  Collapsed(q) \in WindowType(D, n) /\ NoHoles(Collapsed(q))
<1> DEFINE walk == Walk(q)
           K == Taken(q)
           left == Left(q)
           c == Cardinality(K)
           p == Collapsed(q)
           E == D \union {None}
<1>1. q.size = n /\ DOMAIN q.w = 0 .. n - 1
  BY Around DEF WindowType
<1>2. WalkRight(D, n, q)
  BY WalkFacts
<1>7. left \in Seq(E) /\ Len(left) = c /\ Range(left) = {walk[k] : k \in K}
  BY <1>2 DEF WalkRight
<1>8. c \in 1 .. n
  BY <1>2 DEF WalkRight
<1>9. \A k \in 1 .. c : left[k] \in E /\ left[k] # None
  <2> TAKE k \in 1 .. c
  <2>1. DOMAIN left = 1 .. c /\ left[k] \in E
    BY <1>7, <1>8
  <2>2. left[k] \in Range(left)
    BY <2>1 DEF Range
  <2> QED
    BY <2>1, <2>2, <1>7 DEF Taken
<1>10. /\ p.size = n /\ p.last_committed = n - 1 /\ p.last_created = c - 1
       /\ p.w = [s \in 0 .. n - 1 |-> IF s < c THEN left[s + 1] ELSE None]
  BY <1>2 DEF WalkRight
<1>11. p \in WindowType(D, n)
  <2>1. p.w \in [0 .. n - 1 -> E]
    BY <1>8, <1>9, <1>10
  <2>2. p = [q EXCEPT !.w = p.w, !.last_committed = p.last_committed,
                      !.last_created = p.last_created]
    BY <1>10 DEF Collapsed
  <2>3. p.last_committed \in 0 .. n - 1 /\ p.last_created \in 0 .. n - 1
    BY <1>8, <1>10
  <2>4. [q EXCEPT !.w = p.w, !.last_committed = p.last_committed,
                  !.last_created = p.last_created] \in WindowType(D, n)
    <3> HIDE DEF p
    <3> QED
      BY <2>1, <2>3, ReplacedType
  <2> QED
    BY <2>2, <2>4
<1>12. \A s \in 0 .. n - 1 : p.w[s] # None <=> s < c
  <2> TAKE s \in 0 .. n - 1
  <2>1. CASE s < c
    <3>1. s + 1 \in 1 .. c
      BY <2>1, <1>8
    <3> QED
      BY <3>1, <2>1, <1>9, <1>10
  <2>2. CASE ~(s < c)
    BY <2>2, <1>10
  <2> QED
    BY <2>1, <2>2
<1>13. HeadSlot(p) = 0 /\ \A s \in 0 .. n - 1 : Steps(p, 0, s) = s
  BY <1>10 DEF HeadSlot, window_increment, Steps
<1>14. ~empty(p)
  <2>1. SUFFICES ASSUME c = n PROVE p.w[0] # None
    BY <1>8, <1>10, <1>13 DEF empty, slot_avail, window_increment
  <2> QED
    BY <1>8, <1>12
<1>15. Reach(p) = {s \in 0 .. n - 1 : s <= c - 1}
  <2>1. DOMAIN p.w = 0 .. n - 1 /\ c - 1 \in 0 .. n - 1
    BY <1>8, <1>10
  <2>2. Reach(p) = {s \in 0 .. n - 1 : Steps(p, 0, s) <= Steps(p, 0, c - 1)}
    BY <2>1, <1>10, <1>13, <1>14 DEF Reach, SquashRange
  <2> QED
    BY <2>1, <2>2, <1>13
<1>16. DOMAIN p.w = 0 .. n - 1
  BY <1>10
<1>17. NoHoles(p)
  <2> HIDE DEF p
  <2>1. \A s \in 0 .. n - 1 : s < c <=> s <= c - 1
    BY <1>8
  <2> QED
    BY <2>1, <1>12, <1>15, <1>16 DEF NoHoles
<1> QED
  BY <1>11, <1>17

(* squash() from a slot that is taken, by an entry that must go. *)
THEOREM SquashedWhole ==
  ASSUME NEW D, None \notin D, NEW n \in Nat \ {0}, NEW q \in WindowType(D, n),
         NoHoles(q), NEW dead \in SUBSET D, NEW s \in 0 .. n - 1, q.w[s] \in dead
  PROVE  /\ Squashed(q, s, dead) \in WindowType(D, n)
         /\ NoHoles(Squashed(q, s, dead))
<1> DEFINE h == HeadSlot(q)
           range == SquashRange(q, s)
           e == [q EXCEPT !.w = [r \in DOMAIN q.w |->
                  IF r \in range /\ q.w[r] \in dead THEN None ELSE q.w[r]]]
<1>1. /\ q.size = n /\ q.w \in [0 .. n - 1 -> D \union {None}] /\ DOMAIN q.w = 0 .. n - 1
      /\ q.last_created \in 0 .. n - 1 /\ q.last_committed \in 0 .. n - 1
      /\ h \in 0 .. n - 1
  BY Around DEF WindowType
<1>2. /\ e \in WindowType(D, n) /\ e.size = n
      /\ e.last_created = q.last_created /\ e.last_committed = q.last_committed
      /\ e.w = [r \in 0 .. n - 1 |->
                 IF r \in range /\ q.w[r] \in dead THEN None ELSE q.w[r]]
  <2>1. [r \in DOMAIN q.w |-> IF r \in range /\ q.w[r] \in dead THEN None ELSE q.w[r]]
          \in [0 .. n - 1 -> D \union {None}]
    BY <1>1
  <2> QED
    BY <1>1, <2>1 DEF WindowType
<1>3. q.w[s] # None /\ s \in Reach(q) /\ ~empty(q)
  BY <1>1 DEF NoHoles, Reach
<1>4. /\ \A r \in 0 .. n - 1 : q.w[r] # None <=> Age(q, r) <= Age(q, q.last_created)
      /\ Age(q, s) <= Age(q, q.last_created)
  BY <1>1, <1>3 DEF NoHoles, Reach, SquashRange, Age
<1>5. \A r \in 0 .. n - 1 : Age(q, r) \in 0 .. n - 1
  BY Around
<1>6. range = {r \in 0 .. n - 1 : Age(q, s) <= Age(q, r) /\ Age(q, r) <= Age(q, q.last_created)}
  <2> SUFFICES ASSUME NEW r \in 0 .. n - 1
               PROVE  r \in range <=> /\ Age(q, s) <= Age(q, r)
                                      /\ Age(q, r) <= Age(q, q.last_created)
    BY <1>1 DEF SquashRange
  <2>1. /\ Age(q, s) \in 0 .. n - 1 /\ Age(q, r) \in 0 .. n - 1
        /\ Age(q, q.last_created) \in 0 .. n - 1
    BY <1>1, <1>5
  <2>2. /\ Steps(q, s, r) = IF Age(q, s) <= Age(q, r) THEN Age(q, r) - Age(q, s)
                            ELSE Age(q, r) - Age(q, s) + n
        /\ Steps(q, s, q.last_created) = Age(q, q.last_created) - Age(q, s)
    BY <1>1, <1>4, StepsByAge
  <2>3. r \in range <=> Steps(q, s, r) <= Steps(q, s, q.last_created)
    BY <1>1 DEF SquashRange
  <2> QED
    BY <2>1, <2>2, <2>3
<1>7. CASE NeedCollapse(q, s, dead)
  <2>1. PICK r \in range : q.w[r] \notin dead
    BY <1>7 DEF NeedCollapse
  <2>2. r \in 0 .. n - 1 /\ q.w[r] # None
    BY <2>1, <1>4, <1>6
  <2>3. e.w[r] # None
    BY <2>1, <2>2, <1>2
  <2>4. HeadSlot(e) = h
    BY <1>1, <1>2 DEF HeadSlot, window_increment
  <2>5. r \in SquashRange(e, HeadSlot(e))
    BY <2>2, <2>4, <1>1, <1>2, <1>4 DEF SquashRange, Age, Steps
  <2>6. Squashed(q, s, dead) = Collapsed(e)
    BY <1>7 DEF Squashed
  <2>7. Collapsed(e) \in WindowType(D, n) /\ NoHoles(Collapsed(e))
    <3> HIDE DEF e
    <3> QED
      BY <2>3, <2>5, <1>2, CollapsedWhole
  <2> QED
    BY <2>6, <2>7
<1>8. CASE ~NeedCollapse(q, s, dead)
  <2> DEFINE p == Squashed(q, s, dead)
             b == window_decrement(q, s)
  <2>1. p = [e EXCEPT !.last_created = b] /\ b \in 0 .. n - 1
    BY <1>8, Around DEF Squashed
  <2>2. /\ p \in WindowType(D, n) /\ p.size = n /\ p.w = e.w
        /\ p.last_created = b /\ p.last_committed = q.last_committed
    BY <2>1, <1>2 DEF WindowType
  <2>3. HeadSlot(p) = h /\ \A r \in 0 .. n - 1 : Steps(p, h, r) = Age(q, r)
    BY <2>2, <1>1 DEF HeadSlot, window_increment, Age, Steps
  <2>4. \A r \in range : q.w[r] \in dead
    BY <1>8 DEF NeedCollapse
  <2>5. \A r \in 0 .. n - 1 : p.w[r] # None <=> Age(q, r) < Age(q, s)
    <3> TAKE r \in 0 .. n - 1
    <3>1. Age(q, r) \in 0 .. n - 1 /\ Age(q, s) \in 0 .. n - 1
          /\ Age(q, q.last_created) \in 0 .. n - 1
      BY <1>1, <1>5
    <3>2. CASE r \in range
      <4>1. p.w[r] = None
        BY <3>2, <2>2, <2>4, <1>2
      <4> QED
        BY <4>1, <3>1, <3>2, <1>6
    <3>3. CASE r \notin range
      <4>1. p.w[r] = q.w[r]
        BY <3>3, <2>2, <1>2
      <4> QED
        BY <4>1, <3>1, <3>3, <1>4, <1>6
    <3> QED
      BY <3>2, <3>3
  <2>6. CASE s = h
    <3>1. Age(q, s) = 0
      BY <2>6, <1>1 DEF Age, Steps
    <3>2. b = q.last_committed
      BY <2>6, <1>1 DEF window_decrement, window_increment, HeadSlot
    <3>3. \A r \in 0 .. n - 1 : p.w[r] = None
      BY <3>1, <2>5, <1>5
    <3>4. empty(p)
      BY <3>2, <3>3, <2>2, <2>3, <1>1 DEF empty, slot_avail, HeadSlot
    <3>5. DOMAIN p.w = 0 .. n - 1
      BY <2>2, <1>2
    <3>6. NoHoles(p)
      <4> HIDE DEF p
      <4> QED
        BY <3>3, <3>4, <3>5 DEF NoHoles, Reach
    <3> QED
      BY <3>6, <2>2
  <2>7. CASE s # h
    <3>1. Age(q, b) = Age(q, s) - 1
      BY <2>7, <1>1 DEF Age, Steps, window_decrement
    <3>2. ~empty(p)
      <4>1. b # q.last_committed
        BY SMTT(30), <2>7, <1>1 DEF window_decrement, window_increment, HeadSlot
      <4> QED
        BY <4>1, <2>2 DEF empty
    <3>3. Reach(p) = {r \in 0 .. n - 1 : Age(q, r) <= Age(q, b)}
      <4>1. DOMAIN p.w = 0 .. n - 1
        BY <2>2, <1>2
      <4>2. Reach(p) = {r \in 0 .. n - 1 : Steps(p, h, r) <= Steps(p, h, b)}
        BY <4>1, <3>2, <2>2, <2>3 DEF Reach, SquashRange
      <4> QED
        BY <4>2, <2>1, <2>3
    <3>4. ASSUME NEW r \in 0 .. n - 1
          PROVE  Age(q, r) <= Age(q, b) <=> Age(q, r) < Age(q, s)
      <4>1. Age(q, r) \in 0 .. n - 1 /\ Age(q, s) \in 0 .. n - 1
        BY <1>5
      <4> QED
        BY <4>1, <3>1
    <3> QED
      BY <3>3, <3>4, <2>2, <2>5, <1>2 DEF NoHoles
  <2> QED
    BY <2>6, <2>7
<1> QED
  BY <1>7, <1>8
-----------------------------------------------------------------------------
(* What is in a window, and that nothing is there twice. *)
Entries(q) == {q.w[s] : s \in DOMAIN q.w} \ {None}
Distinct(q) ==
  \A r, s \in DOMAIN q.w : q.w[r] = q.w[s] /\ q.w[r] # None => r = s

(* insert() adds one entry, in an empty slot. *)
LEMMA InsertedEntries ==
  ASSUME NEW D, None \notin D, NEW n \in Nat \ {0}, NEW q \in WindowType(D, n),
         NEW d \in D, slot_avail(q), Distinct(q), d \notin Entries(q)
  PROVE  LET c == window_increment(q, q.last_created)
             p == Inserted(q, d)
         IN /\ c \in 0 .. n - 1 /\ p.last_created = c
            /\ p.w = [q.w EXCEPT ![c] = d]
            /\ Entries(p) = Entries(q) \union {d}
            /\ Distinct(p)
<1> DEFINE c == window_increment(q, q.last_created)
           p == Inserted(q, d)
<1>1. q.w \in [0 .. n - 1 -> D \union {None}] /\ q.last_created \in 0 .. n - 1
  BY DEF WindowType
<1>2. c \in 0 .. n - 1
  BY <1>1, Around
<1>3. p.last_created = c /\ p.w = [q.w EXCEPT ![c] = d]
  BY <1>1, <1>2 DEF Inserted, WindowType
<1>4. q.w[c] = None
  BY DEF slot_avail
<1>5. Entries(p) = Entries(q) \union {d}
  BY <1>1, <1>2, <1>3, <1>4 DEF Entries
<1>6. Distinct(p)
  BY <1>1, <1>2, <1>3, <1>4 DEF Distinct, Entries
<1> QED
  BY <1>2, <1>3, <1>5, <1>6

(* Where the entry that pop_head(d) leaves in slot s comes from. *)
Shifted(q, d, s) ==
  IF Age(q, s) <= Age(q, SlotOf(q, d)) THEN window_decrement(q, s) ELSE s

(* Every slot but the head's gets an entry, and every entry but d a slot.  *)
PoppedRight(n, q, d) ==
  LET p == Popped(q, d)
      h == HeadSlot(q)
      e == SlotOf(q, d)
  IN /\ h \in 0 .. n - 1 /\ e \in 0 .. n - 1 /\ q.w[e] = d
     /\ p.w = [s \in 0 .. n - 1 |-> p.w[s]] /\ p.w[h] = None
     /\ \A s \in 0 .. n - 1 : s # h =>
          /\ Shifted(q, d, s) \in 0 .. n - 1 /\ p.w[s] = q.w[Shifted(q, d, s)]
          /\ Shifted(q, d, s) # e
          /\ Age(q, Shifted(q, d, s)) =
               IF Age(q, s) <= Age(q, e) THEN Age(q, s) - 1 ELSE Age(q, s)
     /\ \A k \in 0 .. n - 1 : k # e => \E s \in 0 .. n - 1 : s # h /\ Shifted(q, d, s) = k

LEMMA PoppedSlots ==
  ASSUME NEW D, None \notin D, NEW n \in Nat \ {0}, NEW q \in WindowType(D, n),
         NEW d \in D, d \in Entries(q)
  PROVE  PoppedRight(n, q, d)
<1> DEFINE p == Popped(q, d)
           h == HeadSlot(q)
           e == SlotOf(q, d)
           dec(s) == window_decrement(q, s)
           from(s) == IF Age(q, s) <= Age(q, e) THEN dec(s) ELSE s
<1>1. /\ q.size = n /\ q.w \in [0 .. n - 1 -> D \union {None}] /\ DOMAIN q.w = 0 .. n - 1
      /\ h \in 0 .. n - 1
  BY Around DEF WindowType
<1>2. e \in 0 .. n - 1 /\ q.w[e] = d
  BY <1>1 DEF SlotOf, Entries
<1>3. p.w = [s \in 0 .. n - 1 |->
              IF s = h THEN None
              ELSE IF Age(q, s) <= Age(q, e) THEN q.w[dec(s)] ELSE q.w[s]]
  BY <1>1 DEF Popped, WindowType, Age
<1>4. \A s \in 0 .. n - 1 : Age(q, s) \in 0 .. n - 1 /\ dec(s) \in 0 .. n - 1
  BY Around
<1>5. \A s \in 0 .. n - 1 : (Age(q, s) = 0 <=> s = h)
  BY <1>1 DEF Age, Steps
<1>6. \A s \in 0 .. n - 1 : s # h => Age(q, dec(s)) = Age(q, s) - 1
  BY <1>1 DEF Age, Steps, window_decrement
<1>7. \A r, s \in 0 .. n - 1 : Age(q, r) = Age(q, s) => r = s
  BY AgeInjective
<1>8. ASSUME NEW s \in 0 .. n - 1, s # h
      PROVE  /\ from(s) \in 0 .. n - 1 /\ p.w[s] = q.w[from(s)] /\ from(s) # e
             /\ Age(q, from(s)) = IF Age(q, s) <= Age(q, e) THEN Age(q, s) - 1 ELSE Age(q, s)
  <2>1. from(s) \in 0 .. n - 1 /\ p.w[s] = q.w[from(s)]
    BY <1>3, <1>4, <1>8
  <2>2. Age(q, s) \in 0 .. n - 1 /\ Age(q, e) \in 0 .. n - 1
    BY <1>2, <1>4
  <2>3. CASE Age(q, s) <= Age(q, e)
    <3>1. Age(q, from(s)) = Age(q, s) - 1
      BY <1>6, <1>8, <2>3
    <3> QED
      BY <2>1, <2>2, <2>3, <3>1
  <2>4. CASE ~(Age(q, s) <= Age(q, e))
    BY <2>1, <2>2, <2>4
  <2> QED
    BY <2>1, <2>3, <2>4
<1>10. ASSUME NEW k \in 0 .. n - 1, k # e
       PROVE  \E s \in 0 .. n - 1 : s # h /\ from(s) = k
  <2>1. Age(q, k) \in 0 .. n - 1 /\ Age(q, e) \in 0 .. n - 1 /\ Age(q, k) # Age(q, e)
    BY <1>2, <1>4, <1>7, <1>10
  <2>2. CASE Age(q, k) > Age(q, e)
    BY <2>1, <2>2, <1>5
  <2>3. CASE Age(q, k) < Age(q, e)
    <3> DEFINE s == window_increment(q, k)
    <3>1. s \in 0 .. n - 1 /\ dec(s) = k
      BY Around
    <3>2. s # h
      <4>1. SUFFICES ASSUME s = h PROVE FALSE
        OBVIOUS
      <4>2. Age(q, k) = n - 1
        BY <4>1, <1>1 DEF Age, Steps, window_increment
      <4> QED
        BY <4>2, <2>1, <2>3
    <3>3. Age(q, s) = Age(q, k) + 1
      BY <3>1, <3>2, <1>4, <1>6
    <3>4. from(s) = k
      BY <3>1, <3>3, <2>1, <2>3
    <3> QED
      BY <3>1, <3>2, <3>4
  <2> QED
    BY <2>1, <2>2, <2>3
<1>11. p.w = [s \in 0 .. n - 1 |-> p.w[s]] /\ p.w[h] = None
  BY <1>1, <1>3
<1>12. \A s : Shifted(q, d, s) = from(s)
  BY DEF Shifted
<1> HIDE DEF p, h, e, from
<1>13. /\ \A s \in 0 .. n - 1 : s # h =>
           /\ from(s) \in 0 .. n - 1 /\ p.w[s] = q.w[from(s)] /\ from(s) # e
           /\ Age(q, from(s)) = IF Age(q, s) <= Age(q, e) THEN Age(q, s) - 1 ELSE Age(q, s)
       /\ \A k \in 0 .. n - 1 : k # e => \E s \in 0 .. n - 1 : s # h /\ from(s) = k
  BY <1>8, <1>10
<1> QED
  BY <1>1, <1>2, <1>11, <1>12, <1>13 DEF PoppedRight, p, h, e

(* pop_head() takes one entry out; nothing else moves if it is the head. *)
THEOREM PoppedEntries ==
  ASSUME NEW D, None \notin D, NEW n \in Nat \ {0}, NEW q \in WindowType(D, n),
         NEW d \in D, d \in Entries(q), Distinct(q)
  PROVE  LET p == Popped(q, d)
         IN /\ Entries(p) = Entries(q) \ {d}
            /\ Distinct(p)
            /\ ~Moves(q, d) => p.w = [q.w EXCEPT ![HeadSlot(q)] = None]
<1> DEFINE p == Popped(q, d)
           h == HeadSlot(q)
           e == SlotOf(q, d)
           from(s) == Shifted(q, d, s)
<1>1. q.w \in [0 .. n - 1 -> D \union {None}] /\ DOMAIN q.w = 0 .. n - 1
  BY Around DEF WindowType
<1>2. PoppedRight(n, q, d)
  BY PoppedSlots
<1>3. /\ h \in 0 .. n - 1 /\ e \in 0 .. n - 1 /\ q.w[e] = d
      /\ p.w = [s \in 0 .. n - 1 |-> p.w[s]] /\ p.w[h] = None
  BY <1>2 DEF PoppedRight
<1>4. \A s \in 0 .. n - 1 : s # h =>
        /\ from(s) \in 0 .. n - 1 /\ p.w[s] = q.w[from(s)] /\ from(s) # e
        /\ Age(q, from(s)) = IF Age(q, s) <= Age(q, e) THEN Age(q, s) - 1 ELSE Age(q, s)
  BY <1>2 DEF PoppedRight
<1>5. \A k \in 0 .. n - 1 : k # e => \E s \in 0 .. n - 1 : s # h /\ from(s) = k
  BY <1>2 DEF PoppedRight
<1>6. \A s \in 0 .. n - 1 : Age(q, s) \in 0 .. n - 1
  BY Around
<1>7. \A r, s \in 0 .. n - 1 : Age(q, r) = Age(q, s) => r = s
  BY AgeInjective
<1> HIDE DEF from, p, h, e
<1>9. ASSUME NEW r \in 0 .. n - 1, NEW s \in 0 .. n - 1, r # h, s # h, from(r) = from(s)
      PROVE  r = s
  <2>1. Age(q, r) \in 0 .. n - 1 /\ Age(q, s) \in 0 .. n - 1 /\ Age(q, e) \in 0 .. n - 1
    BY <1>3, <1>6
  <2>2. Age(q, r) = Age(q, s)
    <3>1. /\ Age(q, from(r)) = IF Age(q, r) <= Age(q, e) THEN Age(q, r) - 1 ELSE Age(q, r)
          /\ Age(q, from(s)) = IF Age(q, s) <= Age(q, e) THEN Age(q, s) - 1 ELSE Age(q, s)
          /\ from(r) # e /\ from(s) # e
          /\ from(r) \in 0 .. n - 1 /\ from(s) \in 0 .. n - 1
      BY <1>4, <1>9
    <3>2. Age(q, from(r)) # Age(q, e)
      BY <3>1, <1>3, <1>7
    <3> QED
      BY <3>1, <3>2, <1>9, <2>1
  <2> QED
    BY <2>2, <1>7
<1>12. Distinct(p)
  <2> SUFFICES ASSUME NEW r \in 0 .. n - 1, NEW s \in 0 .. n - 1,
                      p.w[r] = p.w[s], p.w[r] # None
               PROVE  r = s
    BY <1>3 DEF Distinct
  <2>1. r # h /\ s # h
    BY <1>3
  <2>2. from(r) = from(s)
    BY <2>1, <1>1, <1>4 DEF Distinct
  <2> QED
    BY <2>1, <2>2, <1>9
<1>13. Entries(p) = Entries(q) \ {d}
  <2>1. ASSUME NEW x \in Entries(p) PROVE x \in Entries(q) \ {d}
    <3>1. PICK s \in 0 .. n - 1 : p.w[s] = x
      BY <2>1, <1>3 DEF Entries
    <3>2. x # None /\ s # h
      BY <2>1, <3>1, <1>3 DEF Entries
    <3>3. from(s) \in 0 .. n - 1 /\ x = q.w[from(s)] /\ from(s) # e
      BY <3>1, <3>2, <1>4
    <3>4. x # d
      BY <3>2, <3>3, <1>1, <1>3 DEF Distinct
    <3> QED
      BY <3>2, <3>3, <3>4, <1>1 DEF Entries
  <2>2. ASSUME NEW x \in Entries(q), x # d PROVE x \in Entries(p)
    <3>1. PICK k \in 0 .. n - 1 : q.w[k] = x
      BY <2>2, <1>1 DEF Entries
    <3>2. k # e
      BY <2>2, <3>1, <1>3
    <3>3. PICK s \in 0 .. n - 1 : s # h /\ from(s) = k
      BY <3>2, <1>5
    <3>4. p.w[s] = x
      BY <3>1, <3>3, <1>4
    <3> QED
      BY <3>4, <2>2, <1>3 DEF Entries
  <2> QED
    BY <2>1, <2>2
<1>14. ASSUME ~Moves(q, d) PROVE p.w = [q.w EXCEPT ![h] = None]
  <2>1. e = h
    BY <1>14, <1>1, <1>3 DEF Moves, head, Distinct, h
  <2>2. \A s \in 0 .. n - 1 : s # h => ~(Age(q, s) <= Age(q, e))
    <3> SUFFICES ASSUME NEW s \in 0 .. n - 1, s # h, Age(q, s) <= Age(q, e) PROVE FALSE
      OBVIOUS
    <3>1. q.size = n
      BY Around
    <3>2. Age(q, h) = 0
      BY <3>1, <1>3 DEF Age, Steps, h
    <3>3. Age(q, s) = 0
      BY <3>2, <2>1, <1>6
    <3> QED
      BY <3>2, <3>3, <1>3, <1>7
  <2>3. \A s \in 0 .. n - 1 : p.w[s] = IF s = h THEN None ELSE q.w[s]
    <3>1. \A s \in 0 .. n - 1 : s # h => from(s) = s
      BY <2>2 DEF from, Shifted, e
    <3> QED
      BY <3>1, <1>3, <1>4
  <2> QED
    BY <2>3, <1>1, <1>3
<1> QED
  BY <1>12, <1>13, <1>14 DEF p, h

(* collapse() keeps every entry of a window whose entries are all between  *)
(* the head and last_created.                                              *)
THEOREM CollapsedEntries ==
  ASSUME NEW D, None \notin D, NEW n \in Nat \ {0}, NEW q \in WindowType(D, n),
         Distinct(q), NEW r \in DOMAIN q.w, q.w[r] # None,
         \A s \in DOMAIN q.w : q.w[s] # None => s \in SquashRange(q, HeadSlot(q))
  PROVE  Entries(Collapsed(q)) = Entries(q) /\ Distinct(Collapsed(q))
<1> DEFINE walk == Walk(q)
           K == Taken(q)
           left == Left(q)
           c == Cardinality(K)
           p == Collapsed(q)
           E == D \union {None}
           m == Age(q, q.last_created) + 1
           at(k) == Visited(q, k)
<1>1. /\ q.size = n /\ q.w \in [0 .. n - 1 -> E] /\ DOMAIN q.w = 0 .. n - 1
      /\ q.last_created \in 0 .. n - 1
  BY Around DEF WindowType
<1>0. WalkRight(D, n, q)
  <2>1. r \in SquashRange(q, HeadSlot(q))
    OBVIOUS
  <2> QED
    BY <2>1, WalkFacts
<1>2. /\ walk \in Seq(E) /\ Len(walk) = m /\ DOMAIN walk = 1 .. m
      /\ K \in SUBSET (1 .. Len(walk)) /\ left \in Seq(E) /\ Len(left) = c /\ c \in 1 .. n
      /\ Range(left) = {walk[k] : k \in K}
      /\ \A k \in 1 .. m : at(k) \in 0 .. n - 1 /\ Age(q, at(k)) = k - 1
                            /\ walk[k] = q.w[at(k)]
      /\ p.w = [s \in 0 .. n - 1 |-> IF s < c THEN left[s + 1] ELSE None]
  BY <1>0 DEF WalkRight
<1>3. \A i, j \in K : walk[i] = walk[j] => i = j
  <2> SUFFICES ASSUME NEW i \in K, NEW j \in K, walk[i] = walk[j] PROVE i = j
    OBVIOUS
  <2>1. i \in 1 .. m /\ j \in 1 .. m /\ walk[i] # None
    BY <1>2 DEF Taken
  <2>2. at(i) = at(j)
    <3>1. /\ at(i) \in 0 .. n - 1 /\ walk[i] = q.w[at(i)]
          /\ at(j) \in 0 .. n - 1 /\ walk[j] = q.w[at(j)]
      BY <2>1, <1>2
    <3> HIDE DEF walk, at
    <3> QED
      BY <2>1, <3>1, <1>1 DEF Distinct
  <2>3. i - 1 = j - 1
    BY <2>1, <2>2, <1>2
  <2>4. i \in Int /\ j \in Int
    BY <2>1
  <2> QED
    BY <2>3, <2>4
<1>4. IsInjective(left)
  <2>1. left = Pick(walk, K)
    BY DEF Left
  <2> HIDE DEF walk, K, left, m, at, c
  <2>2. walk \in Seq(E) /\ K \in SUBSET (1 .. Len(walk))
    BY <1>2
  <2> QED
    BY <2>1, <2>2, <1>3, PickInjectiveOn
<1>5. DOMAIN left = 1 .. c /\ DOMAIN p.w = 0 .. n - 1
  BY <1>2
<1>6. Distinct(p)
  <2> SUFFICES ASSUME NEW i \in 0 .. n - 1, NEW s \in 0 .. n - 1,
                      p.w[i] = p.w[s], p.w[i] # None
               PROVE  i = s
    BY <1>5 DEF Distinct
  <2>1. i < c /\ s < c /\ left[i + 1] = left[s + 1]
    BY <1>2
  <2>2. i + 1 \in 1 .. c /\ s + 1 \in 1 .. c
    BY <2>1, <1>2
  <2>3. i + 1 = s + 1
    BY <2>1, <2>2, <1>4, <1>5 DEF IsInjective
  <2> QED
    BY <2>3
<1>7. Entries(p) = Range(left) \ {None}
  <2>1. ASSUME NEW x \in Entries(p) PROVE x \in Range(left) \ {None}
    <3>1. PICK s \in 0 .. n - 1 : p.w[s] = x /\ x # None
      BY <2>1, <1>5 DEF Entries
    <3>2. s + 1 \in 1 .. c /\ left[s + 1] = x
      BY <3>1, <1>2
    <3> QED
      BY <3>1, <3>2, <1>5 DEF Range
  <2>2. ASSUME NEW x \in Range(left), x # None PROVE x \in Entries(p)
    <3>1. PICK k \in 1 .. c : left[k] = x
      BY <2>2, <1>5 DEF Range
    <3>2. k - 1 \in 0 .. n - 1 /\ p.w[k - 1] = x
      BY <3>1, <1>2
    <3> QED
      BY <3>2, <2>2, <1>5 DEF Entries
  <2> QED
    BY <2>1, <2>2
<1>8. {walk[k] : k \in K} = Entries(q)
  <2>1. ASSUME NEW k \in K PROVE walk[k] \in Entries(q)
    <3>1. k \in 1 .. m /\ walk[k] # None
      BY <1>2 DEF Taken
    <3>2. at(k) \in 0 .. n - 1 /\ walk[k] = q.w[at(k)]
      BY <3>1, <1>2
    <3> HIDE DEF walk, at
    <3> QED
      BY <3>1, <3>2, <1>1 DEF Entries
  <2>2. ASSUME NEW x \in Entries(q) PROVE \E k \in K : walk[k] = x
    <3>1. PICK s \in 0 .. n - 1 : q.w[s] = x /\ x # None
      BY <2>2, <1>1 DEF Entries
    <3>2. Age(q, s) \in 0 .. n - 1 /\ Age(q, s) <= Age(q, q.last_created)
      BY <3>1, <1>1, Around DEF SquashRange, Age
    <3>3. Age(q, q.last_created) \in 0 .. n - 1
      BY <1>1, Around
    <3> DEFINE k == Age(q, s) + 1
    <3>4. k \in 1 .. m
      BY <3>2, <3>3
    <3>5. at(k) \in 0 .. n - 1 /\ Age(q, at(k)) = Age(q, s)
      BY <3>2, <3>4, <1>2
    <3>6. at(k) = s
      <4> HIDE DEF at
      <4> QED
        BY <3>5, AgeInjective
    <3>7. walk[k] = x
      BY <3>1, <3>4, <3>6, <1>2
    <3>8. k \in K
      BY <3>1, <3>4, <3>7, <1>2 DEF Taken
    <3> QED
      BY <3>7, <3>8
  <2> QED
    BY <2>1, <2>2
<1>9. None \notin Entries(q)
  BY DEF Entries
<1> QED
  BY <1>2, <1>6, <1>7, <1>8, <1>9
-----------------------------------------------------------------------------
(* The order of the entries: a is older than b when a walk from the head   *)
(* meets it first.                                                         *)
Older(q, a, b) ==
  /\ a # None /\ b # None
  /\ \E r, s \in DOMAIN q.w : q.w[r] = a /\ q.w[s] = b /\ Age(q, r) < Age(q, s)
Sound(D, n, q) == q \in WindowType(D, n) /\ NoHoles(q) /\ Distinct(q)
Lined(q) ==
  /\ \A a, b : Older(q, a, b) =>
       a \in Entries(q) /\ b \in Entries(q) /\ a # b /\ ~Older(q, b, a)
  /\ \A a, b, c : Older(q, a, b) /\ Older(q, b, c) => Older(q, a, c)
  /\ \A a, b \in Entries(q) : a = b \/ Older(q, a, b) \/ Older(q, b, a)

(* An entry has one slot, so that its age says who is older. *)
LEMMA EntryAt ==
  ASSUME NEW D, NEW n \in Nat \ {0}, NEW q \in WindowType(D, n), Distinct(q),
         NEW a \in Entries(q)
  PROVE  /\ a \in D /\ a # None
         /\ SlotOf(q, a) \in 0 .. n - 1 /\ q.w[SlotOf(q, a)] = a
         /\ \A s \in 0 .. n - 1 : q.w[s] = a => s = SlotOf(q, a)
<1>1. q.w \in [0 .. n - 1 -> D \union {None}]
  BY DEF WindowType
<1>2. \E s \in 0 .. n - 1 : q.w[s] = a
  BY <1>1 DEF Entries
<1>3. SlotOf(q, a) \in 0 .. n - 1 /\ q.w[SlotOf(q, a)] = a
  BY <1>1, <1>2 DEF SlotOf
<1>4. a # None /\ a \in D
  BY <1>1, <1>3 DEF Entries
<1> QED
  BY <1>1, <1>3, <1>4 DEF Distinct

LEMMA OlderByAge ==
  ASSUME NEW D, NEW n \in Nat \ {0}, NEW q \in WindowType(D, n), Distinct(q),
         NEW a \in Entries(q), NEW b \in Entries(q)
  PROVE  Older(q, a, b) <=> Age(q, SlotOf(q, a)) < Age(q, SlotOf(q, b))
<1>1. DOMAIN q.w = 0 .. n - 1
  BY DEF WindowType
<1>2. /\ a # None /\ SlotOf(q, a) \in 0 .. n - 1 /\ q.w[SlotOf(q, a)] = a
      /\ b # None /\ SlotOf(q, b) \in 0 .. n - 1 /\ q.w[SlotOf(q, b)] = b
  BY EntryAt
<1>3. ASSUME Age(q, SlotOf(q, a)) < Age(q, SlotOf(q, b)) PROVE Older(q, a, b)
  BY <1>1, <1>2, <1>3 DEF Older
<1>4. ASSUME Older(q, a, b) PROVE Age(q, SlotOf(q, a)) < Age(q, SlotOf(q, b))
  <2>1. PICK r, s \in 0 .. n - 1 : q.w[r] = a /\ q.w[s] = b /\ Age(q, r) < Age(q, s)
    BY <1>1, <1>4 DEF Older
  <2>2. r = SlotOf(q, a) /\ s = SlotOf(q, b)
    BY <2>1, EntryAt
  <2> QED
    BY <2>1, <2>2
<1> QED
  BY <1>3, <1>4

(* It is a total order. *)
LEMMA InLine ==
  ASSUME NEW D, NEW n \in Nat \ {0}, NEW q \in WindowType(D, n), Distinct(q)
  PROVE  Lined(q)
<1> DEFINE age(a) == Age(q, SlotOf(q, a))
<1>1. DOMAIN q.w = 0 .. n - 1
  BY DEF WindowType
<1>2. \A a, b : Older(q, a, b) => a \in Entries(q) /\ b \in Entries(q)
  BY DEF Older, Entries
<1>3. \A a \in Entries(q) : age(a) \in 0 .. n - 1
  BY EntryAt, Around
<1>4. \A a, b \in Entries(q) : Older(q, a, b) <=> age(a) < age(b)
  BY OlderByAge
<1>5. \A a, b \in Entries(q) : age(a) = age(b) => a = b
  <2> TAKE a, b \in Entries(q)
  <2> HAVE age(a) = age(b)
  <2>1. /\ SlotOf(q, a) \in 0 .. n - 1 /\ q.w[SlotOf(q, a)] = a
        /\ SlotOf(q, b) \in 0 .. n - 1 /\ q.w[SlotOf(q, b)] = b
    BY EntryAt
  <2>2. SlotOf(q, a) = SlotOf(q, b)
    BY <2>1, AgeInjective, age(a) = age(b)
  <2> QED
    BY <2>1, <2>2
<1> HIDE DEF age
<1>6. \A a, b : Older(q, a, b) => a # b /\ ~Older(q, b, a)
  BY <1>2, <1>3, <1>4
<1>7. \A a, b, c : Older(q, a, b) /\ Older(q, b, c) => Older(q, a, c)
  <2> SUFFICES ASSUME NEW a, NEW b, NEW c, Older(q, a, b), Older(q, b, c)
               PROVE  Older(q, a, c)
    OBVIOUS
  <2>1. a \in Entries(q) /\ b \in Entries(q) /\ c \in Entries(q)
    BY <1>2
  <2> QED
    BY <2>1, <1>3, <1>4
<1>8. \A a, b \in Entries(q) : a = b \/ Older(q, a, b) \/ Older(q, b, a)
  <2> TAKE a, b \in Entries(q)
  <2>1. age(a) \in 0 .. n - 1 /\ age(b) \in 0 .. n - 1
    BY <1>3
  <2>2. age(a) = age(b) \/ age(a) < age(b) \/ age(b) < age(a)
    BY <2>1
  <2> QED
    BY <2>2, <1>4, <1>5
<1> QED
  BY <1>2, <1>6, <1>7, <1>8 DEF Lined

(* The slots that walks visit are the taken ones, and an empty window has  *)
(* no entries.                                                             *)
LEMMA ReachIsTaken ==
  ASSUME NEW D, NEW n \in Nat \ {0}, NEW q, Sound(D, n, q)
  PROVE  /\ Reach(q) = {s \in 0 .. n - 1 : q.w[s] # None}
         /\ Entries(q) = {q.w[s] : s \in Reach(q)}
         /\ empty(q) => Entries(q) = {}
<1>1. DOMAIN q.w = 0 .. n - 1 /\ NoHoles(q)
  BY DEF WindowType, Sound
<1>2. Reach(q) = {s \in 0 .. n - 1 : q.w[s] # None}
  BY <1>1 DEF NoHoles
<1>3. Entries(q) = {q.w[s] : s \in Reach(q)}
  BY <1>1, <1>2 DEF Entries
<1>4. empty(q) => Reach(q) = {}
  BY DEF Reach
<1> QED
  BY <1>2, <1>3, <1>4

(* What a walk finds first and last, and the head. *)
LEMMA OldestEntry ==
  ASSUME NEW D, NEW n \in Nat \ {0}, NEW q, Sound(D, n, q),
         NEW S \in SUBSET Reach(q), S # {}
  PROVE  /\ OldestSlot(q, S) \in S
         /\ \A s \in S : q.w[s] = q.w[OldestSlot(q, S)]
                         \/ Older(q, q.w[OldestSlot(q, S)], q.w[s])
<1> DEFINE K == {Age(q, s) : s \in S}
<1>1. /\ q \in WindowType(D, n) /\ DOMAIN q.w = 0 .. n - 1 /\ Reach(q) \subseteq 0 .. n - 1
      /\ \A s \in S : q.w[s] # None
  <2>1. Reach(q) = {s \in 0 .. n - 1 : q.w[s] # None}
    BY ReachIsTaken
  <2>2. q \in WindowType(D, n)
    BY DEF Sound
  <2>3. DOMAIN q.w = 0 .. n - 1
    BY <2>2 DEF WindowType
  <2> QED
    BY <2>1, <2>2, <2>3
<1>2. \A s \in S : Age(q, s) \in 0 .. n - 1
  BY <1>1, Around
<1>3. IsFiniteSet(K) /\ K \subseteq Int /\ K # {}
  <2>1. IsFiniteSet(0 .. n - 1) /\ K \in SUBSET (0 .. n - 1)
    BY <1>2, FS_Interval
  <2>2. IsFiniteSet(K)
    BY <2>1, FS_Subset
  <2> QED
    BY <2>1, <2>2
<1>4. PICK k \in K : \A j \in K : k <= j
  BY <1>3, Extremes
<1>5. \E s \in S : \A r \in S : Age(q, s) <= Age(q, r)
  BY <1>4
<1> DEFINE a == OldestSlot(q, S)
<1>6. a \in S /\ \A r \in S : Age(q, a) <= Age(q, r)
  BY <1>5 DEF OldestSlot
<1> HIDE DEF a
<1>7. \A s \in S : s = a \/ Age(q, a) < Age(q, s)
  BY <1>1, <1>2, <1>6, AgeInjective
<1>8. \A s \in S : s = a \/ Older(q, q.w[a], q.w[s])
  BY <1>1, <1>6, <1>7 DEF Older
<1> QED
  BY <1>6, <1>8 DEF a

LEMMA YoungestEntry ==
  ASSUME NEW D, NEW n \in Nat \ {0}, NEW q, Sound(D, n, q),
         NEW S \in SUBSET Reach(q), S # {}
  PROVE  /\ YoungestSlot(q, S) \in S
         /\ \A s \in S : q.w[s] = q.w[YoungestSlot(q, S)]
                         \/ Older(q, q.w[s], q.w[YoungestSlot(q, S)])
<1> DEFINE K == {Age(q, s) : s \in S}
<1>1. /\ q \in WindowType(D, n) /\ DOMAIN q.w = 0 .. n - 1 /\ Reach(q) \subseteq 0 .. n - 1
      /\ \A s \in S : q.w[s] # None
  <2>1. Reach(q) = {s \in 0 .. n - 1 : q.w[s] # None}
    BY ReachIsTaken
  <2>2. q \in WindowType(D, n)
    BY DEF Sound
  <2>3. DOMAIN q.w = 0 .. n - 1
    BY <2>2 DEF WindowType
  <2> QED
    BY <2>1, <2>2, <2>3
<1>2. \A s \in S : Age(q, s) \in 0 .. n - 1
  BY <1>1, Around
<1>3. IsFiniteSet(K) /\ K \subseteq Int /\ K # {}
  <2>1. IsFiniteSet(0 .. n - 1) /\ K \in SUBSET (0 .. n - 1)
    BY <1>2, FS_Interval
  <2>2. IsFiniteSet(K)
    BY <2>1, FS_Subset
  <2> QED
    BY <2>1, <2>2
<1>4. PICK k \in K : \A j \in K : j <= k
  BY <1>3, Extremes
<1>5. \E s \in S : \A r \in S : Age(q, r) <= Age(q, s)
  BY <1>4
<1> DEFINE a == YoungestSlot(q, S)
<1>6. a \in S /\ \A r \in S : Age(q, r) <= Age(q, a)
  BY <1>5 DEF YoungestSlot
<1> HIDE DEF a
<1>7. \A s \in S : s = a \/ Age(q, s) < Age(q, a)
  BY <1>1, <1>2, <1>6, AgeInjective
<1>8. \A s \in S : s = a \/ Older(q, q.w[s], q.w[a])
  BY <1>1, <1>6, <1>7 DEF Older
<1> QED
  BY <1>6, <1>8 DEF a

LEMMA HeadEntry ==
  ASSUME NEW D, NEW n \in Nat \ {0}, NEW q, Sound(D, n, q), Entries(q) # {}
  PROVE  /\ head(q) \in Entries(q)
         /\ \A b \in Entries(q) : b = head(q) \/ Older(q, head(q), b)
<1> DEFINE h == HeadSlot(q)
<1>1. /\ q \in WindowType(D, n) /\ q.size = n /\ DOMAIN q.w = 0 .. n - 1 /\ h \in 0 .. n - 1
      /\ q.last_created \in 0 .. n - 1
  <2>1. q \in WindowType(D, n)
    BY DEF Sound
  <2> QED
    BY <2>1, Around DEF WindowType
<1>2. Reach(q) = {s \in 0 .. n - 1 : q.w[s] # None} /\ Entries(q) = {q.w[s] : s \in Reach(q)}
  BY ReachIsTaken
<1>3. ~empty(q)
  BY <1>2 DEF Reach
<1>4. Age(q, h) = 0 /\ \A s \in 0 .. n - 1 : Age(q, s) \in 0 .. n - 1
  <2>1. Age(q, h) = 0
    BY <1>1 DEF Age, Steps
  <2> QED
    BY <2>1, <1>1, Around
<1>5. h \in Reach(q)
  <2>1. Reach(q) = SquashRange(q, h)
    BY <1>3 DEF Reach
  <2>2. Steps(q, h, h) <= Steps(q, h, q.last_created)
    BY <1>1, <1>4 DEF Age
  <2> QED
    BY <2>1, <2>2, <1>1 DEF SquashRange
<1>6. head(q) = q.w[h] /\ q.w[h] # None /\ head(q) \in Entries(q)
  BY <1>2, <1>5 DEF head
<1>7. ASSUME NEW b \in Entries(q) PROVE b = head(q) \/ Older(q, head(q), b)
  <2>1. PICK s \in 0 .. n - 1 : q.w[s] = b /\ b # None
    BY <1>2
  <2>2. CASE s = h
    BY <2>1, <2>2, <1>6
  <2>3. CASE s # h
    <3>1. Age(q, h) # Age(q, s)
      BY <2>3, <1>1, AgeInjective
    <3>2. Age(q, h) < Age(q, s)
      BY <3>1, <1>1, <1>4
    <3> QED
      BY <3>2, <2>1, <1>1, <1>6 DEF Older
  <2> QED
    BY <2>2, <2>3
<1> QED
  BY <1>6, <1>7

(* An inserted entry is the youngest. *)
THEOREM InsertedOrder ==
  ASSUME NEW D, None \notin D, NEW n \in Nat \ {0}, NEW q, Sound(D, n, q),
         NEW d \in D, slot_avail(q), d \notin Entries(q)
  PROVE  /\ Sound(D, n, Inserted(q, d))
         /\ Entries(Inserted(q, d)) = Entries(q) \union {d}
         /\ \A a, b : Older(Inserted(q, d), a, b)
                        <=> Older(q, a, b) \/ (a \in Entries(q) /\ b = d)
         /\ Inserted(q, d).last_created \in 0 .. n - 1
         /\ Inserted(q, d).w = [q.w EXCEPT ![Inserted(q, d).last_created] = d]
         /\ q.w[Inserted(q, d).last_created] = None
<1> DEFINE p == Inserted(q, d)
           c == window_increment(q, q.last_created)
           h == HeadSlot(q)
<1>1. /\ q \in WindowType(D, n) /\ NoHoles(q) /\ Distinct(q)
      /\ q.size = n /\ q.w \in [0 .. n - 1 -> D \union {None}] /\ DOMAIN q.w = 0 .. n - 1
      /\ q.last_created \in 0 .. n - 1 /\ q.last_committed \in 0 .. n - 1 /\ h \in 0 .. n - 1
  <2>1. q \in WindowType(D, n) /\ NoHoles(q) /\ Distinct(q)
    BY DEF Sound
  <2> QED
    BY <2>1, Around DEF WindowType
<1>2. p \in WindowType(D, n) /\ NoHoles(p)
  BY <1>1, InsertedWhole
<1>3. /\ c \in 0 .. n - 1 /\ p.last_created = c /\ p.w = [q.w EXCEPT ![c] = d]
      /\ Entries(p) = Entries(q) \union {d} /\ Distinct(p)
  BY <1>1, InsertedEntries
<1>4. q.w[c] = None
  BY DEF slot_avail
<1>5. \A s \in 0 .. n - 1 : Age(p, s) = Age(q, s) /\ Age(q, s) \in 0 .. n - 1
  <2>1. p.size = n /\ p.last_committed = q.last_committed
    BY <1>1 DEF Inserted
  <2>2. \A s \in 0 .. n - 1 : Age(q, s) \in 0 .. n - 1
    BY <1>1, Around
  <2>3. HeadSlot(p) = h
    BY <2>1, <1>1 DEF HeadSlot, window_increment
  <2>4. \A s \in 0 .. n - 1 : Age(p, s) = Age(q, s)
    BY <2>1, <2>3, <1>1 DEF Age, Steps
  <2> QED
    BY <2>2, <2>4
<1>6. \A s \in 0 .. n - 1 : q.w[s] # None => Age(q, s) < Age(q, c)
  <2> TAKE s \in 0 .. n - 1
  <2> HAVE q.w[s] # None
  <2>1. c \notin Reach(q) /\ s \in Reach(q)
    BY <1>1, <1>3, <1>4, q.w[s] # None DEF NoHoles
  <2>2. ~(Age(q, c) <= Age(q, q.last_created)) /\ Age(q, s) <= Age(q, q.last_created)
    BY <2>1, <1>1, <1>3 DEF Reach, SquashRange, Age
  <2>3. /\ Age(q, c) \in 0 .. n - 1 /\ Age(q, s) \in 0 .. n - 1
        /\ Age(q, q.last_created) \in 0 .. n - 1
    BY <1>1, <1>3, <1>5
  <2> QED
    BY <2>2, <2>3
<1> HIDE DEF p, c
<1>7. ASSUME NEW a, NEW b, Older(p, a, b)
      PROVE  Older(q, a, b) \/ (a \in Entries(q) /\ b = d)
  <2>1. PICK r, s \in 0 .. n - 1 :
          a # None /\ b # None /\ p.w[r] = a /\ p.w[s] = b /\ Age(p, r) < Age(p, s)
    BY <1>1, <1>3, <1>7 DEF Older
  <2>2. Age(q, r) < Age(q, s) /\ Age(q, r) \in 0 .. n - 1 /\ Age(q, s) \in 0 .. n - 1
    BY <2>1, <1>5
  <2>3. r # c
    <3>1. SUFFICES ASSUME r = c PROVE FALSE
      OBVIOUS
    <3>2. s # c /\ q.w[s] = b
      BY <3>1, <2>1, <2>2, <1>1, <1>3
    <3> QED
      BY <3>1, <3>2, <2>1, <2>2, <1>6
  <2>4. q.w[r] = a
    BY <2>1, <2>3, <1>1, <1>3
  <2>5. CASE s = c
    <3>1. b = d
      BY <2>1, <2>5, <1>1, <1>3
    <3> QED
      BY <3>1, <2>1, <2>4, <1>1 DEF Entries
  <2>6. CASE s # c
    <3>1. q.w[s] = b
      BY <2>1, <2>6, <1>1, <1>3
    <3> QED
      BY <3>1, <2>1, <2>2, <2>4, <1>1 DEF Older
  <2> QED
    BY <2>5, <2>6
<1>8. ASSUME NEW a, NEW b, Older(q, a, b) PROVE Older(p, a, b)
  <2>1. PICK r, s \in 0 .. n - 1 :
          a # None /\ b # None /\ q.w[r] = a /\ q.w[s] = b /\ Age(q, r) < Age(q, s)
    BY <1>1, <1>8 DEF Older
  <2>2. p.w[r] = a /\ p.w[s] = b
    BY <2>1, <1>1, <1>3, <1>4
  <2>3. Age(p, r) < Age(p, s)
    BY <2>1, <1>5
  <2> QED
    BY <2>1, <2>2, <2>3, <1>1, <1>3 DEF Older
<1>9. ASSUME NEW a \in Entries(q) PROVE Older(p, a, d)
  <2>1. PICK r \in 0 .. n - 1 : q.w[r] = a /\ a # None
    BY <1>1 DEF Entries
  <2>2. p.w[r] = a /\ p.w[c] = d
    BY <2>1, <1>1, <1>3, <1>4
  <2>3. Age(p, r) < Age(p, c)
    BY <2>1, <1>3, <1>5, <1>6
  <2> QED
    BY <2>1, <2>2, <2>3, <1>1, <1>3 DEF Older
<1>10. \A a, b : Older(p, a, b) <=> Older(q, a, b) \/ (a \in Entries(q) /\ b = d)
  BY <1>7, <1>8, <1>9
<1>11. Sound(D, n, p)
  BY <1>2, <1>3 DEF Sound
<1> QED
  BY <1>3, <1>4, <1>10, <1>11 DEF p

(* A window p that lacks some entries of q and is otherwise in its order;  *)
(* if nothing moved, also in its slots.                                    *)
Shrunk(D, n, q, p, gone, moved) ==
  /\ Sound(D, n, p)
  /\ Entries(p) = Entries(q) \ gone
  /\ \A a, b \in Entries(p) : Older(p, a, b) <=> Older(q, a, b)
  /\ ~moved => \A s \in 0 .. n - 1 : q.w[s] \notin gone => p.w[s] = q.w[s]

(* pop_head() takes out one entry. *)
THEOREM PoppedShrinks ==
  ASSUME NEW D, None \notin D, NEW n \in Nat \ {0}, NEW q, Sound(D, n, q),
         NEW d \in Entries(q)
  PROVE  Shrunk(D, n, q, Popped(q, d), {d}, Moves(q, d))
<1> DEFINE p == Popped(q, d)
           h == HeadSlot(q)
           e == SlotOf(q, d)
           from(s) == Shifted(q, d, s)
<1>1. /\ q \in WindowType(D, n) /\ NoHoles(q) /\ Distinct(q)
      /\ q.size = n /\ q.w \in [0 .. n - 1 -> D \union {None}] /\ DOMAIN q.w = 0 .. n - 1
      /\ h \in 0 .. n - 1
  <2>1. q \in WindowType(D, n) /\ NoHoles(q) /\ Distinct(q)
    BY DEF Sound
  <2> QED
    BY <2>1, Around DEF WindowType
<1>2. d \in D /\ \E s \in DOMAIN q.w : q.w[s] = d
  BY <1>1 DEF Entries
<1>3. p \in WindowType(D, n) /\ NoHoles(p)
  BY <1>1, <1>2, PoppedWhole
<1>4. /\ Entries(p) = Entries(q) \ {d} /\ Distinct(p)
      /\ ~Moves(q, d) => p.w = [q.w EXCEPT ![h] = None]
  BY <1>1, <1>2, PoppedEntries
<1>5. PoppedRight(n, q, d)
  BY <1>1, <1>2, PoppedSlots
<1>6. /\ e \in 0 .. n - 1 /\ q.w[e] = d
      /\ p.w = [s \in 0 .. n - 1 |-> p.w[s]] /\ p.w[h] = None
      /\ \A s \in 0 .. n - 1 : s # h =>
           /\ from(s) \in 0 .. n - 1 /\ p.w[s] = q.w[from(s)] /\ from(s) # e
           /\ Age(q, from(s)) = IF Age(q, s) <= Age(q, e) THEN Age(q, s) - 1 ELSE Age(q, s)
  BY <1>5 DEF PoppedRight
<1>7. \A s \in 0 .. n - 1 : s # h => Age(p, s) = Age(q, s) - 1
  <2>1. p.size = n /\ p.last_committed = h
    BY <1>1 DEF Popped
  <2>2. HeadSlot(p) = IF h = n - 1 THEN 0 ELSE h + 1
    BY <2>1 DEF HeadSlot, window_increment
  <2> QED
    BY <2>1, <2>2, <1>1 DEF Age, Steps
<1>8. \A s \in 0 .. n - 1 : Age(q, s) \in 0 .. n - 1
  BY <1>1, Around
<1> HIDE DEF p, h, e, from
<1>9. ASSUME NEW a, NEW b, Older(p, a, b) PROVE Older(q, a, b)
  <2>1. PICK r, s \in 0 .. n - 1 :
          a # None /\ b # None /\ p.w[r] = a /\ p.w[s] = b /\ Age(p, r) < Age(p, s)
    BY <1>6, <1>9 DEF Older
  <2>2. r # h /\ s # h
    BY <2>1, <1>6
  <2>3. /\ Age(q, r) < Age(q, s) /\ Age(q, r) \in 0 .. n - 1 /\ Age(q, s) \in 0 .. n - 1
        /\ Age(q, e) \in 0 .. n - 1
    BY <2>1, <2>2, <1>6, <1>7, <1>8
  <2>4. /\ from(r) \in 0 .. n - 1 /\ a = q.w[from(r)] /\ from(s) \in 0 .. n - 1
        /\ b = q.w[from(s)] /\ from(r) # e /\ from(s) # e
        /\ Age(q, from(r)) = IF Age(q, r) <= Age(q, e) THEN Age(q, r) - 1 ELSE Age(q, r)
        /\ Age(q, from(s)) = IF Age(q, s) <= Age(q, e) THEN Age(q, s) - 1 ELSE Age(q, s)
    BY <2>1, <2>2, <1>6
  <2>5. Age(q, from(r)) < Age(q, from(s))
    BY <2>3, <2>4
  <2> QED
    BY <2>1, <2>4, <2>5, <1>1 DEF Older
<1>10. \A a, b \in Entries(p) : Older(p, a, b) <=> Older(q, a, b)
  <2> TAKE a, b \in Entries(p)
  <2>1. SUFFICES ASSUME Older(q, a, b) PROVE Older(p, a, b)
    BY <1>9
  <2>2. Lined(p) /\ Lined(q)
    BY <1>1, <1>3, <1>4, InLine
  <2>3. a # b /\ ~Older(q, b, a)
    BY <2>1, <2>2 DEF Lined
  <2>4. Older(p, a, b) \/ Older(p, b, a)
    BY <2>2, <2>3 DEF Lined
  <2> QED
    BY <2>3, <2>4, <1>9
<1>11. ~Moves(q, d) => \A s \in 0 .. n - 1 : q.w[s] \notin {d} => p.w[s] = q.w[s]
  <2> SUFFICES ASSUME ~Moves(q, d), NEW s \in 0 .. n - 1, q.w[s] # d PROVE p.w[s] = q.w[s]
    OBVIOUS
  <2>1. q.w[h] = d
    BY DEF Moves, head, h
  <2> QED
    BY <2>1, <1>1, <1>4
<1>12. Sound(D, n, p)
  BY <1>3, <1>4 DEF Sound
<1> QED
  BY <1>4, <1>10, <1>11, <1>12 DEF Shrunk, p

(* collapse() keeps the order. *)
LEMMA CollapsedOrder ==
  ASSUME NEW D, None \notin D, NEW n \in Nat \ {0}, NEW q \in WindowType(D, n),
         Distinct(q), NEW r \in DOMAIN q.w, q.w[r] # None,
         \A s \in DOMAIN q.w : q.w[s] # None => s \in SquashRange(q, HeadSlot(q))
  PROVE  \A a, b \in Entries(Collapsed(q)) : Older(Collapsed(q), a, b) <=> Older(q, a, b)
<1> DEFINE walk == Walk(q)
           K == Taken(q)
           left == Left(q)
           c == Cardinality(K)
           p == Collapsed(q)
           E == D \union {None}
           m == Age(q, q.last_created) + 1
           at(k) == Visited(q, k)
<1>1. q.size = n /\ DOMAIN q.w = 0 .. n - 1
  BY Around DEF WindowType
<1>2. r \in SquashRange(q, HeadSlot(q))
  OBVIOUS
<1>3. WalkRight(D, n, q)
  BY <1>2, WalkFacts
<1>4. /\ walk \in Seq(E) /\ Len(walk) = m /\ K \in SUBSET (1 .. Len(walk)) /\ c \in 1 .. n
      /\ \A k \in 1 .. m : at(k) \in 0 .. n - 1 /\ Age(q, at(k)) = k - 1
                            /\ walk[k] = q.w[at(k)]
      /\ p.w = [s \in 0 .. n - 1 |-> IF s < c THEN left[s + 1] ELSE None]
      /\ p.size = n /\ p.last_committed = n - 1
  BY <1>3 DEF WalkRight
<1>5. left = Pick(walk, K)
  BY DEF Left
<1>6. p \in WindowType(D, n) /\ Distinct(p) /\ Entries(p) = Entries(q)
  BY <1>2, CollapsedWhole, CollapsedEntries
<1>7. \A s \in 0 .. n - 1 : Age(p, s) = s
  <2>1. HeadSlot(p) = 0
    BY <1>4 DEF HeadSlot, window_increment
  <2> QED
    BY <2>1, <1>4 DEF Age, Steps
<1> HIDE DEF walk, K, left, c, p, m, at
<1>8. ASSUME NEW a, NEW b, Older(p, a, b) PROVE Older(q, a, b)
  <2>1. PICK i, j \in 0 .. n - 1 :
          a # None /\ b # None /\ p.w[i] = a /\ p.w[j] = b /\ Age(p, i) < Age(p, j)
    BY <1>4, <1>8 DEF Older
  <2>2. i < j /\ j < c /\ i < c /\ left[i + 1] = a /\ left[j + 1] = b
    BY <2>1, <1>4, <1>7
  <2>3. i + 1 \in 1 .. c /\ j + 1 \in 1 .. c /\ i + 1 < j + 1
    BY <2>2, <1>4
  <2>4. \E k, l \in K : k < l /\ left[i + 1] = walk[k] /\ left[j + 1] = walk[l]
    <3>1. i + 1 \in 1 .. Cardinality(K) /\ j + 1 \in 1 .. Cardinality(K)
      BY <2>3 DEF c
    <3> HIDE DEF E
    <3>2. walk \in Seq(E) /\ K \in SUBSET (1 .. Len(walk))
      BY <1>4
    <3>3. \E k, l \in K : k < l /\ Pick(walk, K)[i + 1] = walk[k]
                               /\ Pick(walk, K)[j + 1] = walk[l]
      BY <3>1, <3>2, <2>3, PickOrdered
    <3> QED
      BY <3>3, <1>5
  <2>5. PICK k, l \in K : k < l /\ a = walk[k] /\ b = walk[l]
    BY <2>2, <2>4
  <2>6. k \in 1 .. m /\ l \in 1 .. m
    BY <1>4
  <2>7. /\ at(k) \in 0 .. n - 1 /\ a = q.w[at(k)] /\ Age(q, at(k)) = k - 1
        /\ at(l) \in 0 .. n - 1 /\ b = q.w[at(l)] /\ Age(q, at(l)) = l - 1
    BY <2>5, <2>6, <1>4
  <2>8. k \in Int /\ l \in Int
    BY <2>6
  <2>9. Age(q, at(k)) < Age(q, at(l))
    BY <2>5, <2>7, <2>8
  <2> QED
    BY <2>1, <2>7, <2>9, <1>1 DEF Older
<1>9. \A a, b \in Entries(p) : Older(p, a, b) <=> Older(q, a, b)
  <2> TAKE a, b \in Entries(p)
  <2>1. SUFFICES ASSUME Older(q, a, b) PROVE Older(p, a, b)
    BY <1>8
  <2>2. Lined(p) /\ Lined(q)
    BY <1>6, InLine
  <2>3. a # b /\ ~Older(q, b, a)
    BY <2>1, <2>2 DEF Lined
  <2>4. Older(p, a, b) \/ Older(p, b, a)
    BY <2>2, <2>3 DEF Lined
  <2> QED
    BY <2>3, <2>4, <1>8
<1> QED
  BY <1>9 DEF p

(* An entry and all that are younger: what a squash from its slot erases,  *)
(* as far as it is dead.                                                   *)
From(q, a) == {a} \union {b \in Entries(q) : Older(q, a, b)}

LEMMA SquashedRange ==
  ASSUME NEW D, NEW n \in Nat \ {0}, NEW q, Sound(D, n, q),
         NEW s \in 0 .. n - 1, q.w[s] # None
  PROVE  /\ \A r \in 0 .. n - 1 :
              r \in SquashRange(q, s) <=> q.w[r] \in From(q, q.w[s])
         /\ {q.w[r] : r \in SquashRange(q, s)} = From(q, q.w[s])
<1> DEFINE a == q.w[s]
<1>1. /\ q \in WindowType(D, n) /\ NoHoles(q) /\ Distinct(q) /\ DOMAIN q.w = 0 .. n - 1
      /\ q.last_created \in 0 .. n - 1
  BY DEF Sound, WindowType
<1>2. Reach(q) = {r \in 0 .. n - 1 : q.w[r] # None}
  BY <1>1 DEF NoHoles
<1>3. s \in Reach(q) /\ ~empty(q)
  BY <1>2 DEF Reach
<1>4. \A r \in 0 .. n - 1 : Age(q, r) \in 0 .. n - 1
  BY <1>1, Around
<1>5. \A r \in 0 .. n - 1 : q.w[r] # None <=> Age(q, r) <= Age(q, q.last_created)
  BY <1>1, <1>2, <1>3 DEF Reach, SquashRange, Age
<1>6. ASSUME NEW r \in 0 .. n - 1
      PROVE  r \in SquashRange(q, s)
               <=> Age(q, s) <= Age(q, r) /\ Age(q, r) <= Age(q, q.last_created)
  <2>1. /\ Age(q, s) \in 0 .. n - 1 /\ Age(q, r) \in 0 .. n - 1
        /\ Age(q, q.last_created) \in 0 .. n - 1 /\ Age(q, s) <= Age(q, q.last_created)
    BY <1>1, <1>4, <1>5
  <2>2. /\ Steps(q, s, r) = IF Age(q, s) <= Age(q, r) THEN Age(q, r) - Age(q, s)
                            ELSE Age(q, r) - Age(q, s) + n
        /\ Steps(q, s, q.last_created) =
             IF Age(q, s) <= Age(q, q.last_created) THEN Age(q, q.last_created) - Age(q, s)
             ELSE Age(q, q.last_created) - Age(q, s) + n
    BY <1>1, StepsByAge
  <2>3. r \in SquashRange(q, s) <=> Steps(q, s, r) <= Steps(q, s, q.last_created)
    BY <1>1 DEF SquashRange
  <2> QED
    BY <2>1, <2>2, <2>3
<1>7. ASSUME NEW r \in 0 .. n - 1
      PROVE  r \in SquashRange(q, s) <=> q.w[r] \in From(q, a)
  <2>1. CASE q.w[r] = None
    <3>1. q.w[r] \notin From(q, a)
      BY <2>1 DEF From, Older
    <3> QED
      BY <3>1, <2>1, <1>5, <1>6
  <2>2. CASE q.w[r] # None
    <3>1. q.w[r] \in Entries(q) /\ a \in Entries(q)
      BY <2>2, <1>1 DEF Entries
    <3>2. r = SlotOf(q, q.w[r]) /\ s = SlotOf(q, a)
      BY <3>1, <1>1, EntryAt
    <3>3. Older(q, a, q.w[r]) <=> Age(q, s) < Age(q, r)
      BY <3>1, <3>2, <1>1, OlderByAge
    <3>4. q.w[r] = a <=> r = s
      BY <2>2, <1>1 DEF Distinct
    <3>5. q.w[r] \in From(q, a) <=> r = s \/ Age(q, s) < Age(q, r)
      BY <3>1, <3>3, <3>4 DEF From
    <3>6. Age(q, s) <= Age(q, r) <=> r = s \/ Age(q, s) < Age(q, r)
      <4>1. Age(q, s) \in 0 .. n - 1 /\ Age(q, r) \in 0 .. n - 1
        BY <1>4
      <4>2. Age(q, s) = Age(q, r) => r = s
        BY <1>1, AgeInjective
      <4> QED
        BY <4>1, <4>2
    <3> QED
      BY <3>5, <3>6, <2>2, <1>5, <1>6
  <2> QED
    BY <2>1, <2>2
<1>8. SquashRange(q, s) \subseteq 0 .. n - 1
  BY <1>1 DEF SquashRange
<1>9. \A b \in From(q, a) : \E r \in 0 .. n - 1 : q.w[r] = b
  BY <1>1 DEF From, Entries
<1> HIDE DEF a
<1>10. {q.w[r] : r \in SquashRange(q, s)} = From(q, a)
  BY <1>7, <1>8, <1>9
<1> QED
  BY <1>7, <1>10 DEF a

(* squash() takes out the dead entries from a slot on, whether it collapses *)
(* what is left or not.                                                    *)
THEOREM SquashedShrinks ==
  ASSUME NEW D, None \notin D, NEW n \in Nat \ {0}, NEW q, Sound(D, n, q),
         NEW dead \in SUBSET D, NEW s \in 0 .. n - 1, q.w[s] \in dead
  PROVE  Shrunk(D, n, q, Squashed(q, s, dead), From(q, q.w[s]) \intersect dead,
                NeedCollapse(q, s, dead))
<1> DEFINE h == HeadSlot(q)
           range == SquashRange(q, s)
           gone == From(q, q.w[s]) \intersect dead
           e == [q EXCEPT !.w = [r \in DOMAIN q.w |->
                  IF r \in range /\ q.w[r] \in dead THEN None ELSE q.w[r]]]
           p == Squashed(q, s, dead)
<1>1. /\ q \in WindowType(D, n) /\ NoHoles(q) /\ Distinct(q)
      /\ q.size = n /\ q.w \in [0 .. n - 1 -> D \union {None}] /\ DOMAIN q.w = 0 .. n - 1
      /\ q.last_created \in 0 .. n - 1 /\ q.last_committed \in 0 .. n - 1
      /\ h \in 0 .. n - 1
  <2>1. q \in WindowType(D, n) /\ NoHoles(q) /\ Distinct(q)
    BY DEF Sound
  <2> QED
    BY <2>1, Around DEF WindowType
<1>2. q.w[s] # None /\ None \notin gone /\ None \notin dead
  OBVIOUS
<1>3. \A r \in 0 .. n - 1 : r \in range <=> q.w[r] \in From(q, q.w[s])
  BY <1>2, SquashedRange
<1>4. p \in WindowType(D, n) /\ NoHoles(p)
  BY <1>1, SquashedWhole
<1>5. /\ e \in WindowType(D, n) /\ e.size = n
      /\ e.last_created = q.last_created /\ e.last_committed = q.last_committed
      /\ e.w = [r \in 0 .. n - 1 |-> IF q.w[r] \in gone THEN None ELSE q.w[r]]
  <2> DEFINE v == [r \in DOMAIN q.w |->
                     IF r \in range /\ q.w[r] \in dead THEN None ELSE q.w[r]]
  <2>1. v \in [0 .. n - 1 -> D \union {None}]
    BY <1>1
  <2>2. v = [r \in 0 .. n - 1 |-> IF q.w[r] \in gone THEN None ELSE q.w[r]]
    <3> HIDE DEF range
    <3> QED
      BY <1>1, <1>3
  <2>3. e = [q EXCEPT !.w = v]
    OBVIOUS
  <2> HIDE DEF v, gone, e
  <2> QED
    BY <1>1, <2>1, <2>2, <2>3 DEF WindowType
<1> HIDE DEF gone
<1>6. /\ \A r \in 0 .. n - 1 : e.w[r] = IF q.w[r] \in gone THEN None ELSE q.w[r]
      /\ DOMAIN e.w = 0 .. n - 1
  <2> HIDE DEF e
  <2> QED
    BY <1>5
<1>7. \A r \in 0 .. n - 1 : Age(e, r) = Age(q, r)
  <2> HIDE DEF e
  <2>1. HeadSlot(e) = h
    BY <1>1, <1>5 DEF HeadSlot, window_increment
  <2> QED
    BY <2>1, <1>1, <1>5 DEF Age, Steps
<1> HIDE DEF e
<1>8. Entries(e) = Entries(q) \ gone
  BY <1>1, <1>2, <1>6 DEF Entries
<1>9. Distinct(e)
  BY <1>1, <1>6 DEF Distinct
<1>10. \A a, b \in Entries(e) : Older(e, a, b) <=> Older(q, a, b)
  <2> TAKE a, b \in Entries(e)
  <2>1. /\ a \in Entries(q) /\ a \notin gone /\ a # None
        /\ b \in Entries(q) /\ b \notin gone /\ b # None
    BY <1>8 DEF Entries
  <2>2. ASSUME Older(e, a, b) PROVE Older(q, a, b)
    <3>1. PICK r, k \in 0 .. n - 1 : e.w[r] = a /\ e.w[k] = b /\ Age(e, r) < Age(e, k)
      BY <2>2, <1>6 DEF Older
    <3>2. q.w[r] = a /\ q.w[k] = b /\ Age(q, r) < Age(q, k)
      BY <2>1, <3>1, <1>6, <1>7
    <3> QED
      BY <2>1, <3>2, <1>1 DEF Older
  <2>3. ASSUME Older(q, a, b) PROVE Older(e, a, b)
    <3>1. PICK r, k \in 0 .. n - 1 : q.w[r] = a /\ q.w[k] = b /\ Age(q, r) < Age(q, k)
      BY <2>3, <1>1 DEF Older
    <3>2. e.w[r] = a /\ e.w[k] = b /\ Age(e, r) < Age(e, k)
      BY <2>1, <3>1, <1>6, <1>7
    <3> QED
      BY <2>1, <3>2, <1>6 DEF Older
  <2> QED
    BY <2>2, <2>3
<1>11. CASE NeedCollapse(q, s, dead)
  <2>1. p = Collapsed(e)
    BY <1>11 DEF Squashed, e
  <2>2. PICK r \in 0 .. n - 1 : r \in range /\ q.w[r] \notin dead
    BY <1>1, <1>11 DEF NeedCollapse, SquashRange
  <2>3. q.w[r] # None
    BY <2>2, <1>2, <1>3 DEF From, Older
  <2>4. e.w[r] # None /\ r \in DOMAIN e.w
    BY <2>2, <2>3, <1>6 DEF gone
  <2>5. \A k \in DOMAIN e.w : e.w[k] # None => k \in SquashRange(e, HeadSlot(e))
    <3> SUFFICES ASSUME NEW k \in 0 .. n - 1, e.w[k] # None
                 PROVE  k \in SquashRange(e, HeadSlot(e))
      BY <1>6
    <3>1. k \in Reach(q)
      BY <1>1, <1>6 DEF NoHoles
    <3>2. Age(q, k) <= Age(q, q.last_created)
      BY <3>1 DEF Reach, SquashRange, Age
    <3>3. Age(e, k) <= Age(e, e.last_created)
      BY <3>2, <1>1, <1>5, <1>7
    <3> QED
      BY <3>3, <1>6 DEF SquashRange, Age
  <2>6. Entries(p) = Entries(e) /\ Distinct(p)
    BY <2>1, <2>4, <2>5, <1>5, <1>9, CollapsedEntries
  <2>7. \A a, b \in Entries(p) : Older(p, a, b) <=> Older(e, a, b)
    BY <2>1, <2>4, <2>5, <1>5, <1>9, CollapsedOrder
  <2>8. \A a, b \in Entries(p) : Older(p, a, b) <=> Older(q, a, b)
    BY <2>6, <2>7, <1>10
  <2> HIDE DEF p
  <2> QED
    BY <2>6, <2>8, <1>4, <1>8, <1>11 DEF Shrunk, Sound, gone, p
<1>12. CASE ~NeedCollapse(q, s, dead)
  <2>1. p = [e EXCEPT !.last_created = window_decrement(q, s)]
    BY <1>12 DEF Squashed, e
  <2>2. p.w = e.w /\ p.last_committed = e.last_committed /\ p.size = n
    BY <2>1, <1>5 DEF WindowType
  <2>3. \A r \in 0 .. n - 1 : Age(p, r) = Age(e, r)
    <3> HIDE DEF p
    <3>1. HeadSlot(p) = HeadSlot(e)
      BY <2>2, <1>5 DEF HeadSlot, window_increment
    <3> QED
      BY <2>2, <3>1, <1>5 DEF Age, Steps
  <2> HIDE DEF p
  <2>4. Entries(p) = Entries(e) /\ Distinct(p)
    BY <2>2, <1>9 DEF Entries, Distinct
  <2>5. \A a, b : Older(p, a, b) <=> Older(e, a, b)
    <3> TAKE a, b
    <3>1. DOMAIN p.w = 0 .. n - 1 /\ DOMAIN e.w = 0 .. n - 1
      BY <2>2, <1>6
    <3> QED
      BY <3>1, <2>2, <2>3 DEF Older
  <2>6. \A a, b \in Entries(p) : Older(p, a, b) <=> Older(q, a, b)
    BY <2>4, <2>5, <1>10
  <2>7. \A r \in 0 .. n - 1 : q.w[r] \notin gone => p.w[r] = q.w[r]
    BY <2>2, <1>6
  <2> QED
    BY <2>4, <2>6, <2>7, <1>4, <1>8 DEF Shrunk, Sound, gone, p
<1> QED
  BY <1>11, <1>12

(* A window that loses nothing is as it was. *)
LEMMA SameShrinks ==
  ASSUME NEW D, NEW n \in Nat \ {0}, NEW q, Sound(D, n, q),
         NEW gone, gone \intersect Entries(q) = {}
  PROVE  Shrunk(D, n, q, q, gone, FALSE)
<1>1. Entries(q) = Entries(q) \ gone
  OBVIOUS
<1> QED
  BY <1>1 DEF Shrunk

(* A new window is empty. *)
LEMMA EmptySound ==
  ASSUME NEW D, NEW n \in Nat \ {0}
  PROVE  Sound(D, n, EmptyWindow(n)) /\ Entries(EmptyWindow(n)) = {}
<1>1. EmptyWindow(n).w = [s \in 0 .. n - 1 |-> None]
  BY DEF EmptyWindow
<1> QED
  BY <1>1, EmptyWhole DEF Sound, Distinct, Entries

-----------------------------------------------------------------------------
(* The core.                                                                *)

(* An instruction in flight, and those of a kind that are in their queue.  *)
Flying(f, i) == f[i].stage \in Before \cup PastExecute
Queueing(f, kinds) ==
  {i \in Instr : Flying(f, i) /\ f[i].op.kind \in kinds /\ f[i].stage \notin Undecoded}
Calm(f) ==
  /\ f \in [Instr -> Fields]
  /\ \A i \in Instr : /\ f[i].outstanding \in {{}, {"EVENTQ"}, {"MEM_HIER"}}
                      /\ Flying(f, i) => f[i].tid \in Ctxt /\ f[i].op \in Ops
                      /\ f[i].stage \in Undecoded => f[i].lsq_slot = -1

(* What an instruction recorded is where it is, and a queue is in the      *)
(* order of the window, context by context.                                *)
SlotsTrue(f, w) ==
  \A i \in Entries(w) : f[i].slot \in 0 .. window_size - 1 /\ w.w[f[i].slot] = i
LsqSlotsTrue(f, q, n) ==
  \A i \in Entries(q) : f[i].lsq_slot \in 0 .. n - 1 /\ q.w[f[i].lsq_slot] = i
SameOrder(f, w, q) ==
  \A a, b \in Entries(q) : f[a].tid = f[b].tid /\ Older(q, a, b) => Older(w, a, b)

(* i is its context's oldest or youngest, or j comes right behind it.      *)
First(f, w, i) == \A k \in Entries(w) : f[k].tid = f[i].tid => ~Older(w, k, i)
Last(f, w, i) == \A k \in Entries(w) : f[k].tid = f[i].tid => ~Older(w, i, k)
Behind(f, w, i, j) ==
  /\ i \in Entries(w) /\ j \in Entries(w) /\ f[j].tid = f[i].tid /\ Older(w, i, j)
  /\ \A k \in Entries(w) : f[k].tid = f[i].tid => ~(Older(w, i, k) /\ Older(w, k, j))
Links(f, w) ==
  \A i \in Entries(w) :
    /\ IF f[i].prev = None THEN First(f, w, i) ELSE Behind(f, w, f[i].prev, i)
    /\ IF f[i].next = None THEN Last(f, w, i) ELSE Behind(f, w, i, f[i].next)

Shape(f, w, l, s) ==
  /\ Calm(f)
  /\ Sound(Instr, window_size, w)
  /\ Sound(Instr, load_size, l) /\ Sound(Instr, store_size, s)
  /\ Entries(w) = {i \in Instr : Flying(f, i)}
  /\ Entries(l) = Queueing(f, Loads) /\ Entries(s) = Queueing(f, Stores)
  /\ SlotsTrue(f, w) /\ LsqSlotsTrue(f, l, load_size) /\ LsqSlotsTrue(f, s, store_size)
  /\ SameOrder(f, w, l) /\ SameOrder(f, w, s)
  /\ Links(f, w)

(* What went to memory, or is about to, is the oldest of its context.      *)
AfterAccess ==
  {"PROGRESS", "REEXEC", "COMMIT", "REEXEC_EXCEPTION", "REEXEC_SPEC_EXCEPTION"}
HasStarted(f, i) == f[i].op.kind \in {"load", "unsafe"} /\ f[i].stage \in AfterAccess
StartedFirst(f, w) ==
  \A i \in Entries(w) :
    /\ HasStarted(f, i) => First(f, w, i) /\ ~f[i].wrong
    /\ f[i].stage \in {"SAFE", "MEM"} => f[i].op.kind # "branch"
    /\ f[i].stage = "PROGRESS" => f[i].op.kind \in {"load", "unsafe"}

(* What is not on a wrong path follows the program, from what retired on.  *)
Course(f, w, re) ==
  \A i \in Entries(w) : ~f[i].wrong =>
    /\ f[i].pos \in DOMAIN Program[f[i].tid]
    /\ f[i].op = Program[f[i].tid][f[i].pos]
    /\ IF f[i].prev = None THEN f[i].pos = re[f[i].tid] + 1
       ELSE ~f[f[i].prev].wrong /\ f[i].pos = f[f[i].prev].pos + 1

(* What a context fetches next: only its youngest instruction may be one   *)
(* that fetch waits for, and fetch on the right path follows the youngest, *)
(* or what retired.                                                        *)
Front(f, w, fe, st, re, t) ==
  /\ \A i \in Entries(w) : f[i].tid = t /\ f[i].stage \in Undecoded =>
       f[i].next = None /\ "GPC_UNKNOWN" \in st[t]
  /\ \A i \in Entries(w) : f[i].tid = t /\ f[i].stage \in Faulty =>
       f[i].next = None /\ "STALL_UNTIL_EMPTY" \in st[t]
  /\ \A i \in Entries(w) :
       f[i].tid = t /\ f[i].next = None /\ f[i].stage \notin Undecoded /\ ~fe[t].wrong =>
         ~f[i].wrong /\ fe[t].pos = f[i].pos + 1
  /\ (\A i \in Entries(w) : f[i].tid # t) /\ ~fe[t].wrong => fe[t].pos = re[t] + 1

(* The store buffer holds retired stores in program order, and none of a   *)
(* context that has something under way to memory.                         *)
Buffered(f, b, re) ==
  /\ Sound(Instr, stbuf_size, b)
  /\ Entries(b) = {i \in Instr : f[i].stage \in InBuffer}
  /\ \A i \in Entries(b) :
       /\ f[i].tid \in Ctxt /\ f[i].pos \in DOMAIN Program[f[i].tid]
       /\ f[i].pos <= re[f[i].tid]
       /\ f[i].op = Program[f[i].tid][f[i].pos] /\ f[i].op.kind = "store"
  /\ \A i, j \in Entries(b) :
       f[i].tid = f[j].tid /\ Older(b, i, j) => f[i].pos < f[j].pos
  /\ \A i \in Instr : HasStarted(f, i) => \A j \in Entries(b) : f[j].tid # f[i].tid

(* An operation took effect when it retired and left the store buffer, or  *)
(* when memory answered.                                                   *)
Took(f, w, b, re, t, p) ==
  \/ p <= re[t] /\ \A i \in Entries(b) : f[i].tid = t => f[i].pos # p
  \/ \E i \in Entries(w) : /\ f[i].tid = t /\ f[i].pos = p
                           /\ f[i].op.kind = "load" /\ f[i].stage = "COMMIT"
Has(s, p) == \E k \in DOMAIN s : s[k].pos = p
DoneTrue(f, w, b, re, dn) ==
  \A t \in Ctxt : \A p \in Memory!MemoryOps(t) :
    Has(dn[t], p) <=> Took(f, w, b, re, t, p)

(* The other variables, and the whole invariant. *)
Vals == (Ctxt \X Nat) \union {Memory!Initial}
Typed ==
  /\ fetch \in [Ctxt -> [pos : Nat, wrong : BOOLEAN]]
  /\ fetch_status \in
       [Ctxt -> SUBSET {"GPC_UNKNOWN", "STALL_UNTIL_EMPTY", "LDQ_FULL", "STQ_FULL"}]
  /\ ivec \in [Ctxt -> BOOLEAN] /\ retired \in [Ctxt -> Nat] /\ traps \in 0 .. MaxTraps
  /\ mem \in [Addr -> Vals] /\ done \in [Ctxt -> Seq([pos : Nat, val : Vals])]
Followed(f, w, b, re, dn) ==
  StartedFirst(f, w) /\ Course(f, w, re) /\ Buffered(f, b, re) /\ DoneTrue(f, w, b, re, dn)
IInv ==
  /\ Typed /\ Shape(instr, iwindow, ldq, stq)
  /\ Followed(instr, iwindow, st_buffer, retired, done)
  /\ \A t \in Ctxt : Front(instr, iwindow, fetch, fetch_status, retired, t)

(* What a step does besides keeping it: no operation that started is lost, *)
(* and what it does to memory is what the abstract specification allows.   *)
Kept ==
  \A i \in Instr : HasStarted(instr, i) =>
    HasStarted(instr', i) \/ Refetched(i) \/ retired'[instr[i].tid] = instr[i].pos
Good == IInv' /\ Kept /\ [Memory!Next]_(Memory!vars)
-----------------------------------------------------------------------------
(* Two states of the pool that differ in what the instructions recorded of *)
(* their slots and links at most.                                          *)
Same(f, h, i) ==
  /\ h[i].tid = f[i].tid /\ h[i].pos = f[i].pos /\ h[i].op = f[i].op
  /\ h[i].wrong = f[i].wrong /\ h[i].miss = f[i].miss /\ h[i].stage = f[i].stage
  /\ h[i].outstanding = f[i].outstanding
SameLinks(f, h, i) == h[i].prev = f[i].prev /\ h[i].next = f[i].next

(* reassign_window_slot() and reassign_lsq_slot() write nothing else.      *)
LEMMA ReassignedIs ==
  ASSUME NEW f \in [Instr -> Fields], NEW n \in Nat \ {0}, NEW q, Sound(Instr, n, q),
         NEW m \in BOOLEAN
  PROVE  /\ Reassigned(f, q, m) \in [Instr -> Fields]
         /\ \A i \in Instr :
              /\ Same(f, Reassigned(f, q, m), i) /\ SameLinks(f, Reassigned(f, q, m), i)
              /\ Reassigned(f, q, m)[i].lsq_slot = f[i].lsq_slot
              /\ Reassigned(f, q, m)[i].slot =
                   IF m /\ i \in Entries(q) THEN SlotOf(q, i) ELSE f[i].slot
<1> DEFINE h == Reassigned(f, q, m)
<1>1. q \in WindowType(Instr, n) /\ Distinct(q) /\ DOMAIN q.w = 0 .. n - 1
  BY DEF Sound, WindowType
<1>2. \A i \in Instr : (\E s \in DOMAIN q.w : q.w[s] = i) <=> i \in Entries(q)
  BY InstrAssumption DEF Entries
<1>3. \A i \in Entries(q) : SlotOf(q, i) \in 0 .. n - 1
  BY <1>1, EntryAt
<1>4. h = [i \in Instr |-> IF m /\ i \in Entries(q)
                           THEN [f[i] EXCEPT !.slot = SlotOf(q, i)] ELSE f[i]]
  BY <1>2 DEF Reassigned
<1> HIDE DEF h
<1>5. ASSUME NEW i \in Instr
      PROVE  /\ h[i] \in Fields
             /\ Same(f, h, i) /\ SameLinks(f, h, i) /\ h[i].lsq_slot = f[i].lsq_slot
             /\ h[i].slot = IF m /\ i \in Entries(q) THEN SlotOf(q, i) ELSE f[i].slot
  <2>1. f[i] \in Fields
    OBVIOUS
  <2>2. CASE m /\ i \in Entries(q)
    <3>1. h[i] = [f[i] EXCEPT !.slot = SlotOf(q, i)] /\ SlotOf(q, i) \in Int
      BY <2>2, <1>3, <1>4
    <3> QED
      BY <3>1, <2>1, <2>2 DEF Fields, Same, SameLinks
  <2>3. CASE ~(m /\ i \in Entries(q))
    BY <2>1, <2>3, <1>4 DEF Same, SameLinks
  <2> QED
    BY <2>2, <2>3
<1>6. h \in [Instr -> Fields]
  BY <1>4, <1>5
<1> QED
  BY <1>5, <1>6 DEF h

LEMMA ReassignedLsqIs ==
  ASSUME NEW f \in [Instr -> Fields], NEW n \in Nat \ {0}, NEW q, Sound(Instr, n, q),
         NEW m \in BOOLEAN
  PROVE  /\ ReassignedLsq(f, q, m) \in [Instr -> Fields]
         /\ \A i \in Instr :
              /\ Same(f, ReassignedLsq(f, q, m), i) /\ SameLinks(f, ReassignedLsq(f, q, m), i)
              /\ ReassignedLsq(f, q, m)[i].slot = f[i].slot
              /\ ReassignedLsq(f, q, m)[i].lsq_slot =
                   IF m /\ i \in Entries(q) THEN SlotOf(q, i) ELSE f[i].lsq_slot
<1> DEFINE h == ReassignedLsq(f, q, m)
<1>1. q \in WindowType(Instr, n) /\ Distinct(q) /\ DOMAIN q.w = 0 .. n - 1
  BY DEF Sound, WindowType
<1>2. \A i \in Instr : (\E s \in DOMAIN q.w : q.w[s] = i) <=> i \in Entries(q)
  BY InstrAssumption DEF Entries
<1>3. \A i \in Entries(q) : SlotOf(q, i) \in 0 .. n - 1
  BY <1>1, EntryAt
<1>4. h = [i \in Instr |-> IF m /\ i \in Entries(q)
                           THEN [f[i] EXCEPT !.lsq_slot = SlotOf(q, i)] ELSE f[i]]
  BY <1>2 DEF ReassignedLsq
<1> HIDE DEF h
<1>5. ASSUME NEW i \in Instr
      PROVE  /\ h[i] \in Fields
             /\ Same(f, h, i) /\ SameLinks(f, h, i) /\ h[i].slot = f[i].slot
             /\ h[i].lsq_slot = IF m /\ i \in Entries(q) THEN SlotOf(q, i) ELSE f[i].lsq_slot
  <2>1. f[i] \in Fields
    OBVIOUS
  <2>2. CASE m /\ i \in Entries(q)
    <3>1. h[i] = [f[i] EXCEPT !.lsq_slot = SlotOf(q, i)] /\ SlotOf(q, i) \in Int
      BY <2>2, <1>3, <1>4
    <3> QED
      BY <3>1, <2>1, <2>2 DEF Fields, Same, SameLinks
  <2>3. CASE ~(m /\ i \in Entries(q))
    BY <2>1, <2>3, <1>4 DEF Same, SameLinks
  <2> QED
    BY <2>2, <2>3
<1>6. h \in [Instr -> Fields]
  BY <1>4, <1>5
<1> QED
  BY <1>5, <1>6 DEF h

(* What leaves the window: gone leaves the window and the queues, and      *)
(* whoever was linked to it is no longer.                                  *)
Unlinks(f, h, gone) ==
  /\ \A i \in Instr \ gone :
       /\ Same(f, h, i)
       /\ h[i].prev = IF f[i].prev \in gone THEN None ELSE f[i].prev
       /\ h[i].next = IF f[i].next \in gone THEN None ELSE f[i].next
  /\ \A i \in gone : ~Flying(h, i)

(* gone is what is oldest, or what is youngest, of a context. *)
Outer(f, w, gone) ==
  \A i \in Entries(w) \ gone :
    /\ f[i].prev \in gone =>
         \A k \in Entries(w) \ gone : f[k].tid = f[i].tid => ~Older(w, k, i)
    /\ f[i].next \in gone =>
         \A k \in Entries(w) \ gone : f[k].tid = f[i].tid => ~Older(w, i, k)

LEMMA SomeLeave ==
  ASSUME NEW f, NEW w, NEW l, NEW s, Shape(f, w, l, s),
         NEW gone \in SUBSET Entries(w), Outer(f, w, gone),
         NEW mw \in BOOLEAN, NEW ml \in BOOLEAN, NEW ms \in BOOLEAN,
         NEW w2, Shrunk(Instr, window_size, w, w2, gone, mw),
         NEW l2, Shrunk(Instr, load_size, l, l2, gone, ml),
         NEW s2, Shrunk(Instr, store_size, s, s2, gone, ms),
         NEW g \in [Instr -> Fields], Unlinks(f, g, gone),
         \A i \in Instr \ gone : g[i].slot = f[i].slot /\ g[i].lsq_slot = f[i].lsq_slot,
         \A i \in gone : /\ g[i].outstanding \in {{}, {"EVENTQ"}, {"MEM_HIER"}}
                         /\ g[i].stage \notin Undecoded
  PROVE  LET h == ReassignedLsq(ReassignedLsq(Reassigned(g, w2, mw), l2, ml), s2, ms)
         IN Shape(h, w2, l2, s2) /\ Unlinks(f, h, gone) /\ h \in [Instr -> Fields]
            /\ \A i \in Instr : Same(g, h, i) /\ SameLinks(g, h, i)
<1> DEFINE h1 == Reassigned(g, w2, mw)
           h2 == ReassignedLsq(h1, l2, ml)
           h == ReassignedLsq(h2, s2, ms)
<1>1. /\ window_size \in Nat \ {0} /\ load_size \in Nat \ {0} /\ store_size \in Nat \ {0}
      /\ None \notin Instr
  BY SizeAssumption, InstrAssumption
<1>2. /\ Sound(Instr, window_size, w2) /\ Sound(Instr, load_size, l2)
      /\ Sound(Instr, store_size, s2)
      /\ Entries(w2) = Entries(w) \ gone /\ Entries(l2) = Entries(l) \ gone
      /\ Entries(s2) = Entries(s) \ gone
  BY DEF Shrunk
<1>3. /\ Calm(f) /\ Sound(Instr, window_size, w)
      /\ Sound(Instr, load_size, l) /\ Sound(Instr, store_size, s)
      /\ Entries(w) = {i \in Instr : Flying(f, i)}
      /\ Entries(l) = Queueing(f, Loads) /\ Entries(s) = Queueing(f, Stores)
      /\ SlotsTrue(f, w) /\ LsqSlotsTrue(f, l, load_size) /\ LsqSlotsTrue(f, s, store_size)
      /\ SameOrder(f, w, l) /\ SameOrder(f, w, s) /\ Links(f, w)
  BY DEF Shape
<1>4. /\ h1 \in [Instr -> Fields]
      /\ \A i \in Instr :
           /\ Same(g, h1, i) /\ SameLinks(g, h1, i) /\ h1[i].lsq_slot = g[i].lsq_slot
           /\ h1[i].slot = IF mw /\ i \in Entries(w2) THEN SlotOf(w2, i) ELSE g[i].slot
  BY <1>1, <1>2, ReassignedIs
<1> HIDE DEF h1
<1>5. /\ h2 \in [Instr -> Fields]
      /\ \A i \in Instr :
           /\ Same(h1, h2, i) /\ SameLinks(h1, h2, i) /\ h2[i].slot = h1[i].slot
           /\ h2[i].lsq_slot = IF ml /\ i \in Entries(l2) THEN SlotOf(l2, i) ELSE h1[i].lsq_slot
  BY <1>1, <1>2, <1>4, ReassignedLsqIs
<1> HIDE DEF h2
<1>6. /\ h \in [Instr -> Fields]
      /\ \A i \in Instr :
           /\ Same(h2, h, i) /\ SameLinks(h2, h, i) /\ h[i].slot = h2[i].slot
           /\ h[i].lsq_slot = IF ms /\ i \in Entries(s2) THEN SlotOf(s2, i) ELSE h2[i].lsq_slot
  BY <1>1, <1>2, <1>5, ReassignedLsqIs
<1> HIDE DEF h
<1>7. \A i \in Instr : Same(g, h, i) /\ SameLinks(g, h, i)
  BY <1>4, <1>5, <1>6 DEF Same, SameLinks
<1>8. Unlinks(f, h, gone)
  <2>1. \A i \in Instr \ gone :
          /\ Same(f, g, i)
          /\ g[i].prev = IF f[i].prev \in gone THEN None ELSE f[i].prev
          /\ g[i].next = IF f[i].next \in gone THEN None ELSE f[i].next
    BY DEF Unlinks
  <2>2. \A i \in gone : i \in Instr /\ ~Flying(g, i)
    BY <1>3 DEF Unlinks
  <2>3. \A i \in Instr \ gone : Same(f, h, i)
    BY <2>1, <1>7 DEF Same
  <2>4. \A i \in gone : ~Flying(h, i)
    BY <2>2, <1>7 DEF Same, Flying
  <2> QED
    BY <2>1, <2>3, <2>4, <1>7 DEF Unlinks, SameLinks
<1>9. Entries(w) \subseteq Instr /\ Entries(l) \subseteq Entries(w) /\ Entries(s) \subseteq Entries(w)
      /\ Entries(l) \intersect Entries(s) = {}
  BY <1>3 DEF Queueing, Loads, Stores
<1>10. \A i \in Instr : Flying(h, i) <=> Flying(f, i) /\ i \notin gone
  BY <1>8 DEF Unlinks, Same, Flying
<1>11. Calm(h)
  <2> SUFFICES ASSUME NEW i \in Instr
               PROVE  /\ h[i].outstanding \in {{}, {"EVENTQ"}, {"MEM_HIER"}}
                      /\ Flying(h, i) => h[i].tid \in Ctxt /\ h[i].op \in Ops
                      /\ h[i].stage \in Undecoded => h[i].lsq_slot = -1
    BY <1>6 DEF Calm
  <2>1. CASE i \in gone
    <3>1. ~Flying(h, i)
      BY <2>1, <1>8 DEF Unlinks
    <3>2. Same(g, h, i)
      BY <1>7
    <3>3. h[i].outstanding = g[i].outstanding /\ h[i].stage = g[i].stage
      BY <3>2 DEF Same
    <3>4. g[i].outstanding \in {{}, {"EVENTQ"}, {"MEM_HIER"}} /\ g[i].stage \notin Undecoded
      BY <2>1
    <3> HIDE DEF Flying
    <3> QED
      BY <3>1, <3>3, <3>4
  <2>2. CASE i \notin gone
    <3>1. Same(f, h, i)
      BY <2>2, <1>8 DEF Unlinks
    <3>2. /\ f[i].outstanding \in {{}, {"EVENTQ"}, {"MEM_HIER"}}
          /\ Flying(f, i) => f[i].tid \in Ctxt /\ f[i].op \in Ops
          /\ f[i].stage \in Undecoded => f[i].lsq_slot = -1
      BY <1>3 DEF Calm
    <3>3. h[i].stage \in Undecoded => h[i].lsq_slot = f[i].lsq_slot
      <4>1. SUFFICES ASSUME h[i].stage \in Undecoded PROVE h[i].lsq_slot = f[i].lsq_slot
        OBVIOUS
      <4>2. f[i].stage \in Undecoded
        BY <4>1, <3>1 DEF Same
      <4>3. i \notin Entries(l2) /\ i \notin Entries(s2)
        BY <4>2, <1>2, <1>3 DEF Queueing
      <4> QED
        BY <4>3, <2>2, <1>4, <1>5, <1>6
    <3> QED
      BY <3>1, <3>2, <3>3 DEF Same, Flying
  <2> QED
    BY <2>1, <2>2
<1>12. /\ Entries(w2) = {i \in Instr : Flying(h, i)}
       /\ Entries(l2) = Queueing(h, Loads) /\ Entries(s2) = Queueing(h, Stores)
  <2>1. \A i \in Instr \ gone : h[i].op = f[i].op /\ h[i].stage = f[i].stage
    BY <1>8 DEF Unlinks, Same
  <2>2. Entries(w2) = {i \in Instr : Flying(h, i)}
    BY <1>2, <1>3, <1>10
  <2>3. ASSUME NEW K
        PROVE  Queueing(f, K) \ gone = Queueing(h, K)
    BY <2>1, <1>10 DEF Queueing
  <2> QED
    BY <2>2, <2>3, <1>2, <1>3
<1>13. SlotsTrue(h, w2)
  <2> SUFFICES ASSUME NEW i \in Entries(w2)
               PROVE  h[i].slot \in 0 .. window_size - 1 /\ w2.w[h[i].slot] = i
    BY DEF SlotsTrue
  <2>1. i \in Instr /\ i \in Entries(w) /\ i \notin gone
    BY <1>2, <1>9
  <2>2. h[i].slot = IF mw THEN SlotOf(w2, i) ELSE f[i].slot
    BY <2>1, <1>4, <1>5, <1>6
  <2>3. CASE mw
    <3>1. w2 \in WindowType(Instr, window_size) /\ Distinct(w2)
      BY <1>2 DEF Sound
    <3> QED
      BY <3>1, <2>2, <2>3, <1>1, EntryAt
  <2>4. CASE ~mw
    <3>1. f[i].slot \in 0 .. window_size - 1 /\ w.w[f[i].slot] = i
      BY <2>1, <1>3 DEF SlotsTrue
    <3>2. \A k \in 0 .. window_size - 1 : w.w[k] \notin gone => w2.w[k] = w.w[k]
      BY <2>4 DEF Shrunk
    <3> QED
      BY <3>1, <3>2, <2>1, <2>2, <2>4
  <2> QED
    BY <2>3, <2>4
<1>14. LsqSlotsTrue(h, l2, load_size)
  <2> SUFFICES ASSUME NEW i \in Entries(l2)
               PROVE  h[i].lsq_slot \in 0 .. load_size - 1 /\ l2.w[h[i].lsq_slot] = i
    BY DEF LsqSlotsTrue
  <2>1. i \in Instr /\ i \in Entries(l) /\ i \notin gone /\ i \notin Entries(s2)
    BY <1>2, <1>9
  <2>2. h[i].lsq_slot = IF ml THEN SlotOf(l2, i) ELSE f[i].lsq_slot
    BY <2>1, <1>4, <1>5, <1>6
  <2>3. CASE ml
    <3>1. l2 \in WindowType(Instr, load_size) /\ Distinct(l2)
      BY <1>2 DEF Sound
    <3> QED
      BY <3>1, <2>2, <2>3, <1>1, EntryAt
  <2>4. CASE ~ml
    <3>1. f[i].lsq_slot \in 0 .. load_size - 1 /\ l.w[f[i].lsq_slot] = i
      BY <2>1, <1>3 DEF LsqSlotsTrue
    <3>2. \A k \in 0 .. load_size - 1 : l.w[k] \notin gone => l2.w[k] = l.w[k]
      BY <2>4 DEF Shrunk
    <3> QED
      BY <3>1, <3>2, <2>1, <2>2, <2>4
  <2> QED
    BY <2>3, <2>4
<1>15. LsqSlotsTrue(h, s2, store_size)
  <2> SUFFICES ASSUME NEW i \in Entries(s2)
               PROVE  h[i].lsq_slot \in 0 .. store_size - 1 /\ s2.w[h[i].lsq_slot] = i
    BY DEF LsqSlotsTrue
  <2>1. i \in Instr /\ i \in Entries(s) /\ i \notin gone /\ i \notin Entries(l2)
    BY <1>2, <1>9
  <2>2. h[i].lsq_slot = IF ms THEN SlotOf(s2, i) ELSE f[i].lsq_slot
    BY <2>1, <1>4, <1>5, <1>6
  <2>3. CASE ms
    <3>1. s2 \in WindowType(Instr, store_size) /\ Distinct(s2)
      BY <1>2 DEF Sound
    <3> QED
      BY <3>1, <2>2, <2>3, <1>1, EntryAt
  <2>4. CASE ~ms
    <3>1. f[i].lsq_slot \in 0 .. store_size - 1 /\ s.w[f[i].lsq_slot] = i
      BY <2>1, <1>3 DEF LsqSlotsTrue
    <3>2. \A k \in 0 .. store_size - 1 : s.w[k] \notin gone => s2.w[k] = s.w[k]
      BY <2>4 DEF Shrunk
    <3> QED
      BY <3>1, <3>2, <2>1, <2>2, <2>4
  <2> QED
    BY <2>3, <2>4
<1>16. \A i \in Entries(w2) : h[i].tid = f[i].tid /\ i \in Entries(w) /\ i \in Instr \ gone
  BY <1>2, <1>8, <1>9 DEF Unlinks, Same
<1>17. \A a, b \in Entries(w2) : Older(w2, a, b) <=> Older(w, a, b)
  BY DEF Shrunk
<1>18. SameOrder(h, w2, l2) /\ SameOrder(h, w2, s2)
  <2>1. \A a, b \in Entries(l2) : h[a].tid = h[b].tid /\ Older(l2, a, b) => Older(w2, a, b)
    <3> SUFFICES ASSUME NEW a \in Entries(l2), NEW b \in Entries(l2),
                        h[a].tid = h[b].tid, Older(l2, a, b)
                 PROVE  Older(w2, a, b)
      OBVIOUS
    <3>1. a \in Entries(l) /\ b \in Entries(l) /\ a \in Entries(w2) /\ b \in Entries(w2)
      BY <1>2, <1>9
    <3>2. Older(l, a, b)
      BY DEF Shrunk
    <3>3. f[a].tid = f[b].tid
      BY <3>1, <1>16
    <3>4. Older(w, a, b)
      BY <3>1, <3>2, <3>3, <1>3 DEF SameOrder
    <3> QED
      BY <3>1, <3>4, <1>17
  <2>2. \A a, b \in Entries(s2) : h[a].tid = h[b].tid /\ Older(s2, a, b) => Older(w2, a, b)
    <3> SUFFICES ASSUME NEW a \in Entries(s2), NEW b \in Entries(s2),
                        h[a].tid = h[b].tid, Older(s2, a, b)
                 PROVE  Older(w2, a, b)
      OBVIOUS
    <3>1. a \in Entries(s) /\ b \in Entries(s) /\ a \in Entries(w2) /\ b \in Entries(w2)
      BY <1>2, <1>9
    <3>2. Older(s, a, b)
      BY DEF Shrunk
    <3>3. f[a].tid = f[b].tid
      BY <3>1, <1>16
    <3>4. Older(w, a, b)
      BY <3>1, <3>2, <3>3, <1>3 DEF SameOrder
    <3> QED
      BY <3>1, <3>4, <1>17
  <2> QED
    BY <2>1, <2>2 DEF SameOrder
<1>19. Links(h, w2)
  <2> SUFFICES ASSUME NEW i \in Entries(w2)
               PROVE  /\ IF h[i].prev = None THEN First(h, w2, i) ELSE Behind(h, w2, h[i].prev, i)
                      /\ IF h[i].next = None THEN Last(h, w2, i) ELSE Behind(h, w2, i, h[i].next)
    BY DEF Links
  <2>1. /\ h[i].prev = IF f[i].prev \in gone THEN None ELSE f[i].prev
        /\ h[i].next = IF f[i].next \in gone THEN None ELSE f[i].next
    BY <1>8, <1>16 DEF Unlinks
  <2>2. /\ IF f[i].prev = None THEN First(f, w, i) ELSE Behind(f, w, f[i].prev, i)
        /\ IF f[i].next = None THEN Last(f, w, i) ELSE Behind(f, w, i, f[i].next)
    BY <1>3, <1>16 DEF Links
  <2>3. ASSUME NEW a, NEW b, Behind(f, w, a, b), a \notin gone, b \notin gone
        PROVE  Behind(h, w2, a, b)
    <3>1. /\ a \in Entries(w2) /\ b \in Entries(w2) /\ f[b].tid = f[a].tid /\ Older(w, a, b)
          /\ \A k \in Entries(w) : f[k].tid = f[a].tid => ~(Older(w, a, k) /\ Older(w, k, b))
      BY <2>3, <1>2 DEF Behind
    <3>2. h[b].tid = h[a].tid /\ Older(w2, a, b)
      BY <3>1, <1>16, <1>17
    <3>3. \A k \in Entries(w2) : h[k].tid = h[a].tid => ~(Older(w2, a, k) /\ Older(w2, k, b))
      BY <3>1, <1>16, <1>17
    <3> QED
      BY <3>1, <3>2, <3>3 DEF Behind
  <2>4. IF h[i].prev = None THEN First(h, w2, i) ELSE Behind(h, w2, h[i].prev, i)
    <3>1. CASE f[i].prev \in gone
      <4>1. \A k \in Entries(w2) : f[k].tid = f[i].tid => ~Older(w, k, i)
        BY <3>1, <1>2, <1>16 DEF Outer
      <4>2. First(h, w2, i)
        BY <4>1, <1>16, <1>17 DEF First
      <4> QED
        BY <4>2, <2>1, <3>1
    <3>2. CASE f[i].prev \notin gone /\ f[i].prev = None
      <4>1. First(h, w2, i)
        BY <3>2, <2>2, <1>16, <1>17 DEF First
      <4> QED
        BY <4>1, <2>1, <3>2
    <3>3. CASE f[i].prev \notin gone /\ f[i].prev # None
      <4>1. Behind(h, w2, f[i].prev, i)
        BY <3>3, <2>2, <2>3, <1>16
      <4> QED
        BY <4>1, <2>1, <3>3
    <3> QED
      BY <3>1, <3>2, <3>3
  <2>5. IF h[i].next = None THEN Last(h, w2, i) ELSE Behind(h, w2, i, h[i].next)
    <3>1. CASE f[i].next \in gone
      <4>1. \A k \in Entries(w2) : f[k].tid = f[i].tid => ~Older(w, i, k)
        BY <3>1, <1>2, <1>16 DEF Outer
      <4>2. Last(h, w2, i)
        BY <4>1, <1>16, <1>17 DEF Last
      <4> QED
        BY <4>2, <2>1, <3>1
    <3>2. CASE f[i].next \notin gone /\ f[i].next = None
      <4>1. Last(h, w2, i)
        BY <3>2, <2>2, <1>16, <1>17 DEF Last
      <4> QED
        BY <4>1, <2>1, <3>2
    <3>3. CASE f[i].next \notin gone /\ f[i].next # None
      <4>1. Behind(h, w2, i, f[i].next)
        BY <3>3, <2>2, <2>3, <1>16
      <4> QED
        BY <4>1, <2>1, <3>3
    <3> QED
      BY <3>1, <3>2, <3>3
  <2> QED
    BY <2>4, <2>5
<1>20. Shape(h, w2, l2, s2)
  BY <1>2, <1>11, <1>12, <1>13, <1>14, <1>15, <1>18, <1>19 DEF Shape
<1> QED
  BY <1>6, <1>7, <1>8, <1>20 DEF h, h1, h2
-----------------------------------------------------------------------------
(* kill_all(): an instruction and its context's younger ones leave.        *)
Victims(f, w, i) == {j \in From(w, i) : f[j].tid = f[i].tid}

(* The first state of the pool, with gone dead. *)
LEMMA UnlinkedIs ==
  ASSUME NEW f \in [Instr -> Fields], NEW gone \in SUBSET Instr
  PROVE  /\ Unlinked(f, gone) \in [Instr -> Fields]
         /\ Unlinks(f, Unlinked(f, gone), gone)
         /\ \A i \in Instr \ gone : /\ Unlinked(f, gone)[i].slot = f[i].slot
                                    /\ Unlinked(f, gone)[i].lsq_slot = f[i].lsq_slot
         /\ \A i \in gone : /\ Unlinked(f, gone)[i].outstanding = f[i].outstanding
                            /\ Unlinked(f, gone)[i].stage = "END"
                            /\ Unlinked(f, gone)[i].op = NoOp
<1> DEFINE g == Unlinked(f, gone)
<1>1. ASSUME NEW i \in Instr, i \in gone
      PROVE  /\ g[i] \in Fields /\ g[i].outstanding = f[i].outstanding /\ g[i].stage = "END"
             /\ g[i].op = NoOp
  <2>1. g[i] = [Dead EXCEPT !.outstanding = f[i].outstanding]
    BY <1>1 DEF Unlinked
  <2>2. f[i].outstanding \in SUBSET {"EVENTQ", "MEM_HIER"}
    BY DEF Fields
  <2>3. /\ g[i] = [tid |-> None, pos |-> 0, op |-> NoOp, wrong |-> FALSE, miss |-> FALSE,
                   stage |-> "END", slot |-> -1, lsq_slot |-> -1, prev |-> None,
                   next |-> None, outstanding |-> f[i].outstanding]
    BY <2>1 DEF Dead
  <2> HIDE DEF g
  <2>4. g[i] \in Fields
    BY <2>2, <2>3 DEF Fields
  <2> QED
    BY <2>3, <2>4
<1>2. ASSUME NEW i \in Instr, i \notin gone
      PROVE  /\ g[i] \in Fields /\ Same(f, g, i)
             /\ g[i].prev = IF f[i].prev \in gone THEN None ELSE f[i].prev
             /\ g[i].next = IF f[i].next \in gone THEN None ELSE f[i].next
             /\ g[i].slot = f[i].slot /\ g[i].lsq_slot = f[i].lsq_slot
  <2> DEFINE p == IF f[i].prev \in gone THEN None ELSE f[i].prev
             x == IF f[i].next \in gone THEN None ELSE f[i].next
  <2>1. g[i] = [f[i] EXCEPT !.prev = p, !.next = x]
    BY <1>2 DEF Unlinked
  <2>2. f[i] \in Fields
    OBVIOUS
  <2>3. p \in Instr \union {None} /\ x \in Instr \union {None}
    BY <2>2 DEF Fields
  <2> HIDE DEF g, p, x
  <2>4. g[i] \in Fields /\ Same(f, g, i) /\ g[i].prev = p /\ g[i].next = x
        /\ g[i].slot = f[i].slot /\ g[i].lsq_slot = f[i].lsq_slot
    BY ZenonT(40), <2>1, <2>2, <2>3 DEF Fields, Same
  <2> QED
    BY <2>4 DEF p, x
<1>3. g = [i \in Instr |-> g[i]]
  BY DEF Unlinked
<1> HIDE DEF g
<1>4. g \in [Instr -> Fields]
  BY <1>1, <1>2, <1>3
<1>5. Unlinks(f, g, gone)
  BY <1>1, <1>2 DEF Unlinks, Flying, Before, PastExecute, Faulty, Exceptions, SpecExceptions
<1> QED
  BY <1>1, <1>2, <1>4, <1>5 DEF g

(* Only what a window holds matters of what leaves it. *)
LEMMA ShrunkSame ==
  ASSUME NEW D, NEW n \in Nat \ {0}, NEW q, Sound(D, n, q), NEW p, NEW m \in BOOLEAN,
         NEW a, NEW b, None \notin a, None \notin b,
         \A x \in Entries(q) : x \in a <=> x \in b,
         Shrunk(D, n, q, p, a, m)
  PROVE  Shrunk(D, n, q, p, b, m)
<1>1. DOMAIN q.w = 0 .. n - 1
  BY DEF Sound, WindowType
<1>2. \A s \in 0 .. n - 1 : q.w[s] \in a <=> q.w[s] \in b
  BY <1>1 DEF Entries
<1> QED
  BY <1>2 DEF Shrunk

(* The victims are what is youngest of their context. *)
LEMMA VictimsOuter ==
  ASSUME NEW f, NEW w, NEW l, NEW s, Shape(f, w, l, s), NEW i \in Entries(w)
  PROVE  /\ Victims(f, w, i) \in SUBSET Entries(w) /\ i \in Victims(f, w, i)
         /\ Outer(f, w, Victims(f, w, i))
         /\ \A j \in Entries(w), k \in Victims(f, w, i) :
              f[j].tid = f[k].tid /\ Older(w, k, j) => j \in Victims(f, w, i)
<1> DEFINE gone == Victims(f, w, i)
<1>1. Links(f, w) /\ w \in WindowType(Instr, window_size) /\ Distinct(w)
  BY DEF Shape, Sound
<1>2. Lined(w)
  BY <1>1, SizeAssumption, InLine
<1>3. gone \in SUBSET Entries(w) /\ i \in gone
  BY DEF Victims, From
<1>4. ASSUME NEW j \in Entries(w), NEW k \in gone, f[j].tid = f[k].tid, Older(w, k, j)
      PROVE  j \in gone
  <2>1. f[j].tid = f[i].tid /\ (k = i \/ Older(w, i, k))
    BY <1>4 DEF Victims, From
  <2>2. Older(w, i, j)
    BY <2>1, <1>2, <1>4 DEF Lined
  <2> QED
    BY <2>1, <2>2 DEF Victims, From
<1> HIDE DEF gone
<1>5. ASSUME NEW j \in Entries(w) \ gone
      PROVE  /\ f[j].prev \notin gone
             /\ f[j].next \in gone =>
                  \A k \in Entries(w) \ gone : f[k].tid = f[j].tid => ~Older(w, j, k)
  <2>1. /\ IF f[j].prev = None THEN First(f, w, j) ELSE Behind(f, w, f[j].prev, j)
        /\ IF f[j].next = None THEN Last(f, w, j) ELSE Behind(f, w, j, f[j].next)
    BY <1>1 DEF Links
  <2>2. None \notin gone
    BY <1>1, <1>3 DEF Entries
  <2>3. f[j].prev \notin gone
    <3>1. SUFFICES ASSUME f[j].prev \in gone PROVE FALSE
      OBVIOUS
    <3>2. Older(w, f[j].prev, j) /\ f[j].tid = f[f[j].prev].tid
      BY <3>1, <2>1, <2>2 DEF Behind
    <3> QED
      BY <3>1, <3>2, <1>4
  <2>4. ASSUME f[j].next \in gone, NEW k \in Entries(w) \ gone, f[k].tid = f[j].tid,
               Older(w, j, k)
        PROVE  FALSE
    <3> DEFINE x == f[j].next
    <3>1. Behind(f, w, j, x)
      BY <2>1, <2>2, <2>4
    <3>2. x \in Entries(w) /\ f[x].tid = f[j].tid /\ ~Older(w, k, x)
      BY <3>1, <2>4 DEF Behind
    <3>3. x = k \/ Older(w, x, k)
      BY <3>2, <2>4, <1>2 DEF Lined
    <3>4. Older(w, x, k)
      BY <3>3, <2>4
    <3>5. k \in gone
      BY <3>2, <3>4, <2>4, <1>4
    <3> QED
      BY <3>5
  <2> QED
    BY <2>3, <2>4
<1>6. Outer(f, w, gone)
  BY <1>5 DEF Outer
<1> QED
  BY <1>3, <1>4, <1>6 DEF gone

(* What squash() finds in the instruction window. *)
LEMMA WindowSquash ==
  ASSUME NEW f, NEW w, NEW l, NEW s, Shape(f, w, l, s), NEW i \in Entries(w),
         NEW own, own = {j \in Instr : f[j].tid = f[i].tid}
  PROVE  /\ {w.w[r] : r \in SquashRange(w, f[i].slot)} \intersect own = Victims(f, w, i)
         /\ Shrunk(Instr, window_size, w, Squashed(w, f[i].slot, own), Victims(f, w, i),
                   NeedCollapse(w, f[i].slot, own))
<1>1. /\ Sound(Instr, window_size, w) /\ window_size \in Nat \ {0} /\ None \notin Instr
      /\ Entries(w) \subseteq Instr
  BY SizeAssumption, InstrAssumption DEF Shape
<1>2. f[i].slot \in 0 .. window_size - 1 /\ w.w[f[i].slot] = i /\ i \in Instr
  BY <1>1 DEF Shape, SlotsTrue
<1>3. {w.w[r] : r \in SquashRange(w, f[i].slot)} = From(w, i)
  <2> DEFINE s0 == f[i].slot
  <2>1. s0 \in 0 .. window_size - 1 /\ w.w[s0] = i /\ w.w[s0] # None
    BY <1>1, <1>2
  <2> HIDE DEF s0
  <2>2. \A r \in 0 .. window_size - 1 : r \in SquashRange(w, s0) <=> w.w[r] \in From(w, i)
    BY <1>1, <2>1, SquashedRange
  <2>3. DOMAIN w.w = 0 .. window_size - 1
    BY <1>1 DEF Sound, WindowType
  <2>4. SquashRange(w, s0) \subseteq 0 .. window_size - 1
    BY <2>3 DEF SquashRange
  <2>5. \A j \in From(w, i) : \E r \in 0 .. window_size - 1 : w.w[r] = j
    BY <2>1, <2>3 DEF From, Entries
  <2>6. {w.w[r] : r \in SquashRange(w, s0)} = From(w, i)
    BY <2>2, <2>4, <2>5
  <2> QED
    BY <2>6 DEF s0
<1>4. From(w, i) \subseteq Instr
  BY <1>1, <1>2 DEF From
<1>5. From(w, i) \intersect own = Victims(f, w, i)
  BY <1>4 DEF Victims
<1>6. own \in SUBSET Instr /\ i \in own
  BY <1>2
<1>7. Shrunk(Instr, window_size, w, Squashed(w, f[i].slot, own), From(w, i) \intersect own,
             NeedCollapse(w, f[i].slot, own))
  BY <1>1, <1>2, <1>6, SquashedShrinks
<1> QED
  BY <1>3, <1>5, <1>7

(* squash() of a memory queue, from the slot of the oldest victim in it,   *)
(* takes out the victims: the queue is in the window's order.              *)
LEMMA QueueSquash ==
  ASSUME NEW f, Shape(f, iwindow, ldq, stq), NEW i \in Entries(iwindow),
         NEW q, NEW n \in Nat \ {0}, NEW kinds, Sound(Instr, n, q),
         Entries(q) = Queueing(f, kinds), LsqSlotsTrue(f, q, n), SameOrder(f, iwindow, q)
  PROVE  LET m == MemSquash(f, q, kinds, i, Victims(f, iwindow, i))
         IN /\ Shrunk(Instr, n, q, m.queue, Victims(f, iwindow, i), m.moved)
            /\ m.moved \in BOOLEAN
<1> DEFINE killed == Victims(f, iwindow, i)
           there == {j \in killed : f[j].op.kind \in kinds /\ f[j].lsq_slot # -1}
           first == iwindow.w[OldestSlot(iwindow, {f[j].slot : j \in there})]
           own == {j \in Instr : f[j].tid = f[i].tid}
           m == MemSquash(f, q, kinds, i, killed)
           w == iwindow
<1>1. /\ Sound(Instr, window_size, w) /\ window_size \in Nat \ {0} /\ None \notin Instr
      /\ Entries(w) = {j \in Instr : Flying(f, j)} /\ SlotsTrue(f, w)
      /\ \A j \in Instr : f[j].stage \in Undecoded => f[j].lsq_slot = -1
  BY SizeAssumption, InstrAssumption DEF Shape, Calm
<1>2. killed \in SUBSET Entries(w) /\ i \in killed
  BY VictimsOuter
<1>3. q \in WindowType(Instr, n) /\ Distinct(q) /\ w \in WindowType(Instr, window_size) /\ Distinct(w)
  BY <1>1 DEF Sound
<1>4. Lined(w) /\ Lined(q)
  BY <1>1, <1>3, InLine
<1>5. there = killed \intersect Entries(q)
  <2>1. \A j \in killed : j \in Instr /\ Flying(f, j)
    BY <1>1, <1>2
  <2>2. \A j \in Entries(q) : f[j].lsq_slot # -1
    BY DEF LsqSlotsTrue
  <2>3. ASSUME NEW j \in there PROVE j \in Entries(q)
    <3>1. /\ j \in killed /\ f[j].op.kind \in kinds /\ f[j].lsq_slot # -1
      OBVIOUS
    <3> HIDE DEF killed
    <3>2. f[j].stage \notin Undecoded
      BY <3>1, <2>1, <1>1
    <3> QED
      BY <3>1, <3>2, <2>1 DEF Queueing
  <2>4. ASSUME NEW j \in killed, j \in Entries(q) PROVE j \in there
    BY <2>2, <2>4 DEF Queueing
  <2> QED
    BY <2>3, <2>4
<1>6. m = IF there = {} THEN [queue |-> q, moved |-> FALSE]
          ELSE [queue |-> Squashed(q, f[first].lsq_slot, own),
                moved |-> NeedCollapse(q, f[first].lsq_slot, own)]
  BY DEF MemSquash
<1> HIDE DEF m, there, killed
<1>7. CASE there = {}
  <2>1. killed \intersect Entries(q) = {}
    BY <1>5, <1>7
  <2>2. Shrunk(Instr, n, q, q, killed, FALSE)
    BY <2>1, SameShrinks
  <2>3. m.queue = q /\ m.moved = FALSE
    BY <1>6, <1>7
  <2> QED
    BY <2>2, <2>3 DEF m, killed
<1>8. CASE there # {}
  <2> DEFINE S == {f[j].slot : j \in there}
  <2>1. \A j \in there : j \in Entries(w) /\ f[j].slot \in 0 .. window_size - 1
                         /\ w.w[f[j].slot] = j /\ j # None
    BY <1>1, <1>2, <1>5 DEF SlotsTrue
  <2>2. S \in SUBSET Reach(w) /\ S # {}
    <3>1. DOMAIN w.w = 0 .. window_size - 1 /\ NoHoles(w)
      BY <1>1 DEF Sound, WindowType
    <3>2. \A j \in there : f[j].slot \in Reach(w)
      BY <3>1, <2>1 DEF NoHoles
    <3> QED
      BY <3>2, <1>8
  <2>3. /\ OldestSlot(w, S) \in S
        /\ \A r \in S : w.w[r] = first \/ Older(w, first, w.w[r])
    <3> HIDE DEF S
    <3> QED
      BY <2>2, <1>1, OldestEntry DEF S
  <2> HIDE DEF first
  <2>4. first \in there
    <3>1. PICK j \in there : OldestSlot(w, S) = f[j].slot
      BY <2>3
    <3>2. first = j
      BY <3>1, <2>1 DEF first
    <3> QED
      BY <3>2
  <2>5. \A j \in there : j = first \/ Older(w, first, j)
    BY <2>1, <2>3
  <2>6. /\ first \in killed /\ first \in Entries(q) /\ first \in Instr
        /\ first \in Entries(w) /\ f[first].tid = f[i].tid
    BY <2>4, <1>1, <1>2, <1>5 DEF killed, Victims
  <2>7. f[first].lsq_slot \in 0 .. n - 1 /\ q.w[f[first].lsq_slot] = first
    BY <2>6 DEF LsqSlotsTrue
  <2>8. own \in SUBSET Instr /\ first \in own
    BY <2>6
  <2>9. Shrunk(Instr, n, q, Squashed(q, f[first].lsq_slot, own), From(q, first) \intersect own,
               NeedCollapse(q, f[first].lsq_slot, own))
    <3> HIDE DEF own
    <3> QED
      BY <2>7, <2>8, <1>1, SquashedShrinks
  <2>10. \A x \in Entries(q) : x \in From(q, first) \intersect own <=> x \in killed
    <3>0. Entries(q) \subseteq Entries(w) /\ Entries(w) \subseteq Instr
      BY <1>1 DEF Queueing
    <3>1. ASSUME NEW x \in Entries(q), x \in From(q, first), x \in own PROVE x \in killed
      <4>1. f[x].tid = f[first].tid /\ x \in Entries(w)
        BY <3>0, <3>1, <2>6
      <4>2. CASE x = first
        BY <4>2, <2>6
      <4>3. CASE Older(q, first, x)
        <5>1. Older(w, first, x)
          BY <4>1, <4>3, <2>6, <3>1 DEF SameOrder
        <5> QED
          BY <5>1, <4>1, <2>6, VictimsOuter DEF killed
      <4> QED
        BY <4>2, <4>3, <3>1 DEF From
    <3>2. ASSUME NEW x \in Entries(q), x \in killed PROVE x \in From(q, first) /\ x \in own
      <4>1. x \in there /\ x \in Instr /\ f[x].tid = f[i].tid
        BY <3>0, <3>2, <1>5 DEF killed, Victims
      <4>2. x = first \/ Older(q, first, x)
        <5>1. SUFFICES ASSUME Older(q, x, first) PROVE FALSE
          BY <2>6, <1>4 DEF Lined
        <5>2. Older(w, x, first)
          BY <5>1, <4>1, <2>6 DEF SameOrder
        <5>3. x = first \/ Older(w, first, x)
          BY <4>1, <2>5
        <5> QED
          BY <5>2, <5>3, <1>4 DEF Lined
      <4> QED
        BY <4>1, <4>2 DEF From
    <3> QED
      BY <3>1, <3>2
  <2>11. None \notin From(q, first) \intersect own /\ None \notin killed
    BY <1>1, <1>2, <2>8
  <2>12. NeedCollapse(q, f[first].lsq_slot, own) \in BOOLEAN
    BY DEF NeedCollapse
  <2>13. Shrunk(Instr, n, q, Squashed(q, f[first].lsq_slot, own), killed,
                NeedCollapse(q, f[first].lsq_slot, own))
    <3> HIDE DEF own
    <3> QED
      BY <2>9, <2>10, <2>11, <2>12, ShrunkSame
  <2>14. /\ m.queue = Squashed(q, f[first].lsq_slot, own)
         /\ m.moved = NeedCollapse(q, f[first].lsq_slot, own)
    BY <1>6, <1>8
  <2> QED
    BY <2>12, <2>13, <2>14 DEF m, killed
<1> QED
  BY <1>7, <1>8

(* What kill_all() does, in terms of the order. *)
Killed(f, i) ==
  /\ Shape(instr', iwindow', ldq', stq')
  /\ Unlinks(f, instr', Victims(f, iwindow, i))
  /\ \A j \in Victims(f, iwindow, i) : instr'[j].stage = "END"
  /\ Entries(iwindow') = Entries(iwindow) \ Victims(f, iwindow, i)
  /\ \A a, b \in Entries(iwindow') : Older(iwindow', a, b) <=> Older(iwindow, a, b)

LEMMA KillAll ==
  ASSUME NEW f, NEW status, Shape(f, iwindow, ldq, stq), NEW i \in Entries(iwindow),
         kill_all(i, f, status)
  PROVE  Killed(f, i)
<1> DEFINE own == {j \in Instr : f[j].tid = f[i].tid}
           gone == Victims(f, iwindow, i)
           loads == MemSquash(f, ldq, Loads, i, gone)
           stores == MemSquash(f, stq, Stores, i, gone)
           mw == NeedCollapse(iwindow, f[i].slot, own)
           g == Unlinked(f, gone)
<1>1. /\ window_size \in Nat \ {0} /\ load_size \in Nat \ {0} /\ store_size \in Nat \ {0}
  BY SizeAssumption
<1>2. /\ Calm(f) /\ f \in [Instr -> Fields] /\ Entries(iwindow) \subseteq Instr
      /\ Sound(Instr, load_size, ldq) /\ Sound(Instr, store_size, stq)
      /\ Entries(ldq) = Queueing(f, Loads) /\ Entries(stq) = Queueing(f, Stores)
      /\ LsqSlotsTrue(f, ldq, load_size) /\ LsqSlotsTrue(f, stq, store_size)
      /\ SameOrder(f, iwindow, ldq) /\ SameOrder(f, iwindow, stq)
  BY DEF Shape, Calm
<1>3. /\ {iwindow.w[r] : r \in SquashRange(iwindow, f[i].slot)} \intersect own = gone
      /\ Shrunk(Instr, window_size, iwindow, Squashed(iwindow, f[i].slot, own), gone, mw)
      /\ mw \in BOOLEAN
  BY WindowSquash DEF NeedCollapse
<1>4. Shrunk(Instr, load_size, ldq, loads.queue, gone, loads.moved) /\ loads.moved \in BOOLEAN
  BY <1>1, <1>2, QueueSquash
<1>5. Shrunk(Instr, store_size, stq, stores.queue, gone, stores.moved) /\ stores.moved \in BOOLEAN
  BY <1>1, <1>2, QueueSquash
<1>6. gone \in SUBSET Entries(iwindow) /\ Outer(f, iwindow, gone)
  BY VictimsOuter
<1>7. gone \in SUBSET Instr
  BY SMTT(30), <1>2, <1>6
<1>8. /\ iwindow' = Squashed(iwindow, f[i].slot, own)
      /\ ldq' = loads.queue /\ stq' = stores.queue
      /\ instr' = ReassignedLsq(ReassignedLsq(Reassigned(g, iwindow', mw), ldq', loads.moved),
                                stq', stores.moved)
  <2> HIDE DEF gone
  <2> QED
    BY <1>3 DEF kill_all, gone
<1> HIDE DEF own, gone, loads, stores, mw
<1>9. /\ g \in [Instr -> Fields] /\ Unlinks(f, g, gone)
      /\ \A j \in Instr \ gone : g[j].slot = f[j].slot /\ g[j].lsq_slot = f[j].lsq_slot
      /\ \A j \in gone : g[j].outstanding = f[j].outstanding /\ g[j].stage = "END"
  BY <1>2, <1>7, UnlinkedIs
<1> HIDE DEF g
<1>10. \A j \in gone : /\ g[j].outstanding \in {{}, {"EVENTQ"}, {"MEM_HIER"}}
                       /\ g[j].stage \notin Undecoded
  BY <1>2, <1>7, <1>9 DEF Calm, Undecoded
<1>11. /\ Shrunk(Instr, window_size, iwindow, iwindow', gone, mw)
       /\ Shrunk(Instr, load_size, ldq, ldq', gone, loads.moved)
       /\ Shrunk(Instr, store_size, stq, stq', gone, stores.moved)
  BY <1>3, <1>4, <1>5, <1>8
<1>12. /\ Shape(instr', iwindow', ldq', stq') /\ Unlinks(f, instr', gone)
       /\ \A j \in Instr : Same(g, instr', j)
  BY <1>3, <1>4, <1>5, <1>6, <1>8, <1>9, <1>10, <1>11, SomeLeave
<1>13. \A j \in gone : instr'[j].stage = "END"
  BY <1>7, <1>9, <1>12 DEF Same
<1> QED
  BY <1>11, <1>12, <1>13 DEF Killed, Shrunk, gone
-----------------------------------------------------------------------------
(* What the walks over a window find, and what Shape says of the queues.   *)
LEMMA OwnIs ==
  ASSUME NEW n \in Nat \ {0}, NEW q, Sound(Instr, n, q), NEW t
  PROVE  /\ Own(q, t) \in SUBSET Reach(q)
         /\ \A s \in 0 .. n - 1 : s \in Own(q, t) <=> q.w[s] # None /\ instr[q.w[s]].tid = t
         /\ {q.w[s] : s \in Own(q, t)} = {j \in Entries(q) : instr[j].tid = t}
         /\ empty_ctxt(q, t) <=> \A j \in Entries(q) : instr[j].tid # t
<1>1. DOMAIN q.w = 0 .. n - 1 /\ NoHoles(q)
  BY DEF Sound, WindowType
<1>2. \A s : s \in Reach(q) <=> s \in 0 .. n - 1 /\ q.w[s] # None
  BY <1>1 DEF NoHoles
<1>3. \A s : s \in Own(q, t) <=> s \in 0 .. n - 1 /\ q.w[s] # None /\ instr[q.w[s]].tid = t
  BY <1>2 DEF Own
<1>4. Own(q, t) \in SUBSET Reach(q)
  BY DEF Own
<1>5. {q.w[s] : s \in Own(q, t)} = {j \in Entries(q) : instr[j].tid = t}
  BY <1>1, <1>3 DEF Entries
<1>6. empty_ctxt(q, t) <=> \A j \in Entries(q) : instr[j].tid # t
  BY <1>1, <1>3 DEF Entries, empty_ctxt
<1> QED
  BY <1>3, <1>4, <1>5, <1>6

LEMMA OldestIs ==
  ASSUME NEW n \in Nat \ {0}, NEW q, Sound(Instr, n, q), NEW t, ~empty_ctxt(q, t)
  PROVE  /\ OldestOf(q, t) \in Entries(q) /\ instr[OldestOf(q, t)].tid = t
         /\ \A k \in Entries(q) : instr[k].tid = t =>
              k = OldestOf(q, t) \/ Older(q, OldestOf(q, t), k)
<1>1. Own(q, t) \in SUBSET Reach(q) /\ Own(q, t) # {}
  BY OwnIs DEF empty_ctxt
<1>2. /\ OldestSlot(q, Own(q, t)) \in Own(q, t)
      /\ \A s \in Own(q, t) : q.w[s] = OldestOf(q, t) \/ Older(q, OldestOf(q, t), q.w[s])
  BY <1>1, OldestEntry DEF OldestOf
<1>3. DOMAIN q.w = 0 .. n - 1 /\ Reach(q) \subseteq 0 .. n - 1
  BY DEF Sound, WindowType, NoHoles
<1>4. \A s \in 0 .. n - 1 : s \in Own(q, t) <=> q.w[s] # None /\ instr[q.w[s]].tid = t
  BY OwnIs
<1>5. OldestOf(q, t) \in Entries(q) /\ instr[OldestOf(q, t)].tid = t
  BY <1>1, <1>2, <1>3, <1>4 DEF OldestOf, Entries
<1>6. ASSUME NEW k \in Entries(q), instr[k].tid = t
      PROVE  k = OldestOf(q, t) \/ Older(q, OldestOf(q, t), k)
  <2>1. PICK s \in 0 .. n - 1 : q.w[s] = k /\ k # None
    BY <1>3 DEF Entries
  <2>2. s \in Own(q, t)
    BY <2>1, <1>4, <1>6
  <2> QED
    BY <2>1, <2>2, <1>2
<1> QED
  BY <1>5, <1>6

LEMMA TailIs ==
  ASSUME Sound(Instr, window_size, iwindow), NEW t
  PROVE  /\ empty_ctxt(iwindow, t) => tail(t) = None
         /\ ~empty_ctxt(iwindow, t) =>
              /\ tail(t) \in Entries(iwindow) /\ instr[tail(t)].tid = t
              /\ \A k \in Entries(iwindow) : instr[k].tid = t =>
                   k = tail(t) \/ Older(iwindow, k, tail(t))
<1> DEFINE q == iwindow
           n == window_size
           y == q.w[YoungestSlot(q, Own(q, t))]
<1>0. n \in Nat \ {0}
  BY SizeAssumption
<1>1. SUFFICES ASSUME ~empty_ctxt(q, t)
               PROVE  /\ y \in Entries(q) /\ instr[y].tid = t
                      /\ \A k \in Entries(q) : instr[k].tid = t => k = y \/ Older(q, k, y)
  BY DEF tail
<1> HIDE DEF n, q
<1>2. Sound(Instr, n, q)
  BY DEF n, q
<1>3. Own(q, t) \in SUBSET Reach(q) /\ Own(q, t) # {}
  BY <1>0, <1>1, <1>2, OwnIs DEF empty_ctxt
<1>4. /\ YoungestSlot(q, Own(q, t)) \in Own(q, t)
      /\ \A s \in Own(q, t) : q.w[s] = y \/ Older(q, q.w[s], y)
  BY <1>0, <1>2, <1>3, YoungestEntry
<1>5. DOMAIN q.w = 0 .. n - 1 /\ Reach(q) \subseteq 0 .. n - 1
  BY <1>2 DEF Sound, WindowType, NoHoles
<1>6. \A s \in 0 .. n - 1 : s \in Own(q, t) <=> q.w[s] # None /\ instr[q.w[s]].tid = t
  BY <1>0, <1>2, OwnIs
<1>7. y \in Entries(q) /\ instr[y].tid = t
  BY <1>3, <1>4, <1>5, <1>6 DEF Entries
<1> HIDE DEF y
<1>8. ASSUME NEW k \in Entries(q), instr[k].tid = t
      PROVE  k = y \/ Older(q, k, y)
  <2>1. PICK s \in 0 .. n - 1 : q.w[s] = k /\ k # None
    BY <1>5 DEF Entries
  <2>2. s \in Own(q, t)
    BY <2>1, <1>6, <1>8
  <2> QED
    BY <2>1, <2>2, <1>4
<1> QED
  BY <1>7, <1>8

(* The instruction that Oldest names has no older one of its context.      *)
LEMMA OldestFirst ==
  ASSUME Shape(instr, iwindow, ldq, stq), NEW t, NEW i, Oldest(t, i)
  PROVE  /\ i \in Entries(iwindow) /\ i \in Instr /\ instr[i].tid = t
         /\ First(instr, iwindow, i)
         /\ \A k \in Entries(iwindow) : instr[k].tid = t => k = i \/ Older(iwindow, i, k)
<1>1. /\ Sound(Instr, window_size, iwindow) /\ window_size \in Nat \ {0}
      /\ Entries(iwindow) \subseteq Instr
  BY SizeAssumption DEF Shape
<1>2. /\ i \in Entries(iwindow) /\ instr[i].tid = t
      /\ \A k \in Entries(iwindow) : instr[k].tid = t => k = i \/ Older(iwindow, i, k)
  BY <1>1, OldestIs DEF Oldest
<1>3. Lined(iwindow)
  BY <1>1, InLine DEF Sound
<1>4. First(instr, iwindow, i)
  BY <1>2, <1>3 DEF First, Lined
<1> QED
  BY <1>1, <1>2, <1>4

LEMMA ShapeWindow ==
  ASSUME Shape(instr, iwindow, ldq, stq), Sound(Instr, stbuf_size, st_buffer)
  PROVE  WindowTrue
<1>1. /\ Sound(Instr, window_size, iwindow) /\ SlotsTrue(instr, iwindow)
      /\ Entries(iwindow) = {i \in Instr : Flying(instr, i)}
  BY DEF Shape
<1>2. /\ NoHoles(iwindow) /\ NoHoles(st_buffer) /\ Distinct(iwindow)
      /\ DOMAIN iwindow.w = 0 .. window_size - 1
  BY <1>1 DEF Sound, WindowType
<1>3. \A i \in Instr : InFlight(i) <=> i \in Entries(iwindow)
  BY <1>1 DEF InFlight, Flying
<1>4. \A i \in Entries(iwindow) :
        instr[i].slot \in 0 .. window_size - 1 /\ iwindow.w[instr[i].slot] = i
  BY <1>1 DEF SlotsTrue
<1>5. ASSUME NEW i \in Instr, NEW s \in 0 .. window_size - 1
      PROVE  iwindow.w[s] = i <=> InFlight(i) /\ instr[i].slot = s
  <2>1. ASSUME iwindow.w[s] = i PROVE InFlight(i) /\ instr[i].slot = s
    <3>1. i \in Entries(iwindow) /\ i # None
      BY <2>1, <1>2, InstrAssumption DEF Entries
    <3> QED
      BY <3>1, <2>1, <1>2, <1>3, <1>4 DEF Distinct
  <2> QED
    BY <2>1, <1>3, <1>4
<1> QED
  BY <1>2, <1>3, <1>4, <1>5 DEF WindowTrue

LEMMA ShapeLsq ==
  ASSUME Shape(instr, iwindow, ldq, stq)
  PROVE  LsqTrue
<1>1. ASSUME NEW q, NEW n, Sound(Instr, n, q), LsqSlotsTrue(instr, q, n)
      PROVE  NoHoles(q) /\ \A s \in DOMAIN q.w : q.w[s] # None => instr[q.w[s]].lsq_slot = s
  <2>1. NoHoles(q) /\ Distinct(q) /\ DOMAIN q.w = 0 .. n - 1
    BY <1>1 DEF Sound, WindowType
  <2>2. ASSUME NEW s \in 0 .. n - 1, q.w[s] # None PROVE instr[q.w[s]].lsq_slot = s
    <3>1. q.w[s] \in Entries(q)
      BY <2>1, <2>2 DEF Entries
    <3>2. /\ instr[q.w[s]].lsq_slot \in 0 .. n - 1
          /\ q.w[instr[q.w[s]].lsq_slot] = q.w[s]
      BY <3>1, <1>1 DEF LsqSlotsTrue
    <3> QED
      BY <3>2, <2>1, <2>2 DEF Distinct
  <2> QED
    BY <2>1, <2>2
<1>2. /\ Sound(Instr, load_size, ldq) /\ LsqSlotsTrue(instr, ldq, load_size)
      /\ Sound(Instr, store_size, stq) /\ LsqSlotsTrue(instr, stq, store_size)
  BY DEF Shape
<1> QED
  BY <1>1, <1>2 DEF LsqTrue

LEMMA ShapeQueued ==
  ASSUME Shape(instr, iwindow, ldq, stq), NEW t,
         NEW n \in Nat \ {0}, NEW q, NEW kinds, Sound(Instr, n, q),
         Entries(q) = Queueing(instr, kinds), SameOrder(instr, iwindow, q)
  PROVE  Queued(q, t, kinds)
<1>1. /\ Sound(Instr, window_size, iwindow) /\ window_size \in Nat \ {0}
      /\ SlotsTrue(instr, iwindow) /\ Entries(iwindow) = {i \in Instr : Flying(instr, i)}
  BY SizeAssumption DEF Shape
<1>2. /\ iwindow \in WindowType(Instr, window_size) /\ Distinct(iwindow)
      /\ q \in WindowType(Instr, n) /\ Distinct(q)
      /\ DOMAIN q.w = 0 .. n - 1 /\ NoHoles(q)
  BY <1>1 DEF Sound, WindowType
<1>3. {q.w[s] : s \in Own(q, t)} = {j \in Entries(q) : instr[j].tid = t}
  BY OwnIs
<1>4. {iwindow.w[s] : s \in Own(iwindow, t)} = {j \in Entries(iwindow) : instr[j].tid = t}
  BY <1>1, OwnIs
<1>5. {j \in Entries(q) : instr[j].tid = t}
        = {i \in {j \in Entries(iwindow) : instr[j].tid = t} :
             instr[i].op.kind \in kinds /\ instr[i].stage \notin Undecoded}
  BY <1>1 DEF Queueing
<1>6. \A s \in Own(q, t) : s \in 0 .. n - 1 /\ q.w[s] # None /\ instr[q.w[s]].tid = t
  <2>1. Own(q, t) \in SUBSET Reach(q) /\ Reach(q) \subseteq 0 .. n - 1
    BY <1>2, OwnIs DEF NoHoles
  <2> QED
    BY <2>1, OwnIs
<1>7. ASSUME NEW r \in Own(q, t), NEW s \in Own(q, t), Age(q, r) < Age(q, s)
      PROVE  Age(iwindow, instr[q.w[r]].slot) < Age(iwindow, instr[q.w[s]].slot)
  <2> DEFINE a == q.w[r]
             b == q.w[s]
  <2>1. Older(q, a, b) /\ a \in Entries(q) /\ b \in Entries(q)
    BY <1>2, <1>6, <1>7 DEF Older, Entries
  <2>2. instr[a].tid = t /\ instr[b].tid = t
    BY <1>6
  <2>3. a \in Entries(iwindow) /\ b \in Entries(iwindow)
    BY <2>1, <1>1 DEF Queueing
  <2>4. Older(iwindow, a, b)
    BY <2>1, <2>2 DEF SameOrder
  <2> HIDE DEF a, b
  <2>5. instr[a].slot = SlotOf(iwindow, a) /\ instr[b].slot = SlotOf(iwindow, b)
    BY <2>3, <1>1, <1>2, EntryAt DEF SlotsTrue
  <2>6. Age(iwindow, SlotOf(iwindow, a)) < Age(iwindow, SlotOf(iwindow, b))
    BY <2>3, <2>4, <1>1, <1>2, OlderByAge
  <2> QED
    BY <2>5, <2>6 DEF a, b
<1> QED
  BY <1>3, <1>4, <1>5, <1>7 DEF Queued

LEMMA ShapeLinked ==
  ASSUME Shape(instr, iwindow, ldq, stq), NEW t
  PROVE  Linked(t)
<1> DEFINE w == iwindow
           n == window_size
           own == Own(w, t)
<1>1. Sound(Instr, n, w) /\ n \in Nat \ {0} /\ Links(instr, w)
  BY SizeAssumption DEF Shape
<1>2. /\ w \in WindowType(Instr, n) /\ Distinct(w) /\ DOMAIN w.w = 0 .. n - 1 /\ NoHoles(w)
  BY <1>1 DEF Sound, WindowType
<1>3. Lined(w)
  BY <1>1, <1>2, InLine
<1>4. /\ own \in SUBSET Reach(w) /\ Reach(w) \subseteq 0 .. n - 1
      /\ \A s \in 0 .. n - 1 : s \in own <=> w.w[s] # None /\ instr[w.w[s]].tid = t
  BY <1>1, <1>2, OwnIs DEF NoHoles
<1> HIDE DEF w, n, own
<1>5. ASSUME NEW r \in own, NEW s \in own
      PROVE  /\ Older(w, w.w[r], w.w[s]) <=> Age(w, r) < Age(w, s)
             /\ w.w[r] \in Entries(w)
  <2>1. w.w[r] \in Entries(w) /\ w.w[s] \in Entries(w) /\ r \in 0 .. n - 1 /\ s \in 0 .. n - 1
    BY <1>2, <1>4 DEF Entries
  <2>2. r = SlotOf(w, w.w[r]) /\ s = SlotOf(w, w.w[s])
    BY <2>1, <1>1, <1>2, EntryAt
  <2> QED
    BY <2>1, <2>2, <1>1, <1>2, OlderByAge
<1>6. \A k \in Entries(w) : instr[k].tid = t => \E r \in own : w.w[r] = k
  BY <1>2, <1>4 DEF Entries
<1>7. ASSUME NEW s \in own
      PROVE  LET older == {r \in own : Age(w, r) < Age(w, s)}
                 younger == {r \in own : Age(w, s) < Age(w, r)}
                 i == instr[w.w[s]]
             IN /\ i.prev = IF older = {} THEN None ELSE w.w[YoungestSlot(w, older)]
                /\ i.next = IF younger = {} THEN None ELSE w.w[OldestSlot(w, younger)]
  <2> DEFINE older == {r \in own : Age(w, r) < Age(w, s)}
             younger == {r \in own : Age(w, s) < Age(w, r)}
             i == w.w[s]
             y == w.w[YoungestSlot(w, older)]
             o == w.w[OldestSlot(w, younger)]
  <2>1. i \in Entries(w) /\ instr[i].tid = t /\ i # None
    BY <1>4, <1>5
  <2>2. /\ IF instr[i].prev = None THEN First(instr, w, i) ELSE Behind(instr, w, instr[i].prev, i)
        /\ IF instr[i].next = None THEN Last(instr, w, i) ELSE Behind(instr, w, i, instr[i].next)
    BY <2>1, <1>1 DEF Links
  <2>3. older \in SUBSET Reach(w) /\ younger \in SUBSET Reach(w)
    BY <1>4
  <2>4. ASSUME instr[i].prev = None PROVE older = {}
    <3>1. SUFFICES ASSUME NEW r \in own, Age(w, r) < Age(w, s) PROVE FALSE
      OBVIOUS
    <3>2. Older(w, w.w[r], i) /\ w.w[r] \in Entries(w) /\ instr[w.w[r]].tid = t
      BY <3>1, <1>4, <1>5
    <3> QED
      BY <3>2, <2>1, <2>2, <2>4 DEF First
  <2>5. ASSUME instr[i].prev # None PROVE older # {} /\ instr[i].prev = y
    <3> DEFINE j == instr[i].prev
    <3>1. /\ j \in Entries(w) /\ instr[j].tid = t /\ Older(w, j, i)
          /\ \A k \in Entries(w) : instr[k].tid = t => ~(Older(w, j, k) /\ Older(w, k, i))
      BY <2>1, <2>2, <2>5 DEF Behind
    <3> HIDE DEF j
    <3>2. PICK r \in own : w.w[r] = j
      BY <3>1, <1>6
    <3>3. r \in older
      BY <3>1, <3>2, <1>5
    <3> HIDE DEF older
    <3>4. YoungestSlot(w, older) \in older /\ (j = y \/ Older(w, j, y))
      BY <3>2, <3>3, <2>3, <1>1, YoungestEntry
    <3>5. YoungestSlot(w, older) \in own /\ Age(w, YoungestSlot(w, older)) < Age(w, s)
      BY <3>4 DEF older
    <3>6. y \in Entries(w) /\ instr[y].tid = t /\ Older(w, y, i)
      BY <3>5, <1>4, <1>5
    <3> HIDE DEF y, i
    <3>7. j = y
      BY <3>1, <3>4, <3>6
    <3> QED
      BY <3>3, <3>7 DEF j
  <2>6. ASSUME instr[i].next = None PROVE younger = {}
    <3>1. SUFFICES ASSUME NEW r \in own, Age(w, s) < Age(w, r) PROVE FALSE
      OBVIOUS
    <3>2. Older(w, i, w.w[r]) /\ w.w[r] \in Entries(w) /\ instr[w.w[r]].tid = t
      BY <3>1, <1>4, <1>5
    <3> QED
      BY <3>2, <2>1, <2>2, <2>6 DEF Last
  <2>7. ASSUME instr[i].next # None PROVE younger # {} /\ instr[i].next = o
    <3> DEFINE j == instr[i].next
    <3>1. /\ j \in Entries(w) /\ instr[j].tid = t /\ Older(w, i, j)
          /\ \A k \in Entries(w) : instr[k].tid = t => ~(Older(w, i, k) /\ Older(w, k, j))
      BY <2>1, <2>2, <2>7 DEF Behind
    <3> HIDE DEF j
    <3>2. PICK r \in own : w.w[r] = j
      BY <3>1, <1>6
    <3>3. r \in younger
      BY <3>1, <3>2, <1>5
    <3> HIDE DEF younger
    <3>4. OldestSlot(w, younger) \in younger /\ (j = o \/ Older(w, o, j))
      BY <3>2, <3>3, <2>3, <1>1, OldestEntry
    <3>5. OldestSlot(w, younger) \in own /\ Age(w, s) < Age(w, OldestSlot(w, younger))
      BY <3>4 DEF younger
    <3>6. o \in Entries(w) /\ instr[o].tid = t /\ Older(w, i, o)
      BY <3>5, <1>4, <1>5
    <3> HIDE DEF o, i
    <3>7. j = o
      BY <3>1, <3>4, <3>6
    <3> QED
      BY <3>3, <3>7 DEF j
  <2>8. instr[i].prev = IF older = {} THEN None ELSE y
    BY <2>4, <2>5
  <2>9. instr[i].next = IF younger = {} THEN None ELSE o
    BY <2>6, <2>7
  <2> QED
    BY <2>8, <2>9
<1> QED
  BY <1>7 DEF Linked, w, own

LEMMA ShapeQueues ==
  ASSUME Shape(instr, iwindow, ldq, stq)
  PROVE  QueuesAgree
<1> SUFFICES ASSUME NEW t \in Ctxt
             PROVE  Queued(ldq, t, Loads) /\ Queued(stq, t, Stores) /\ Linked(t)
  BY DEF QueuesAgree
<1>1. /\ load_size \in Nat \ {0} /\ store_size \in Nat \ {0}
      /\ Sound(Instr, load_size, ldq) /\ Sound(Instr, store_size, stq)
      /\ Entries(ldq) = Queueing(instr, Loads) /\ Entries(stq) = Queueing(instr, Stores)
      /\ SameOrder(instr, iwindow, ldq) /\ SameOrder(instr, iwindow, stq)
  BY SizeAssumption DEF Shape
<1> QED
  BY <1>1, ShapeQueued, ShapeLinked
-----------------------------------------------------------------------------
(* What the operations do to the shape.  Most advance an instruction and   *)
(* leave its place alone.                                                  *)
LEMMA SameShape ==
  ASSUME NEW f, NEW w, NEW l, NEW s, Shape(f, w, l, s),
         NEW g \in [Instr -> Fields],
         \A j \in Instr :
           /\ g[j].outstanding \in {{}, {"EVENTQ"}, {"MEM_HIER"}}
           /\ Flying(g, j) <=> Flying(f, j)
           /\ Flying(f, j) =>
                /\ g[j].tid = f[j].tid /\ g[j].op = f[j].op /\ SameLinks(f, g, j)
                /\ g[j].slot = f[j].slot /\ g[j].lsq_slot = f[j].lsq_slot
                /\ g[j].stage \in Undecoded <=> f[j].stage \in Undecoded
  PROVE  Shape(g, w, l, s)
<1>1. /\ Calm(f) /\ Sound(Instr, window_size, w)
      /\ Sound(Instr, load_size, l) /\ Sound(Instr, store_size, s)
      /\ Entries(w) = {i \in Instr : Flying(f, i)}
      /\ Entries(l) = Queueing(f, Loads) /\ Entries(s) = Queueing(f, Stores)
      /\ SlotsTrue(f, w) /\ LsqSlotsTrue(f, l, load_size) /\ LsqSlotsTrue(f, s, store_size)
      /\ SameOrder(f, w, l) /\ SameOrder(f, w, s) /\ Links(f, w)
  BY DEF Shape
<1>2. \A j \in Entries(w) :
        /\ j \in Instr /\ Flying(f, j)
        /\ g[j].tid = f[j].tid /\ g[j].op = f[j].op /\ SameLinks(f, g, j)
        /\ g[j].slot = f[j].slot /\ g[j].lsq_slot = f[j].lsq_slot
  BY <1>1
<1>3. Entries(l) \subseteq Entries(w) /\ Entries(s) \subseteq Entries(w)
  BY <1>1 DEF Queueing
<1>4. Calm(g)
  <2> SUFFICES ASSUME NEW j \in Instr
               PROVE  /\ g[j].outstanding \in {{}, {"EVENTQ"}, {"MEM_HIER"}}
                      /\ Flying(g, j) => g[j].tid \in Ctxt /\ g[j].op \in Ops
                      /\ g[j].stage \in Undecoded => g[j].lsq_slot = -1
    BY DEF Calm
  <2>1. g[j].stage \in Undecoded => Flying(g, j)
    BY DEF Flying, Before, Undecoded, PastExecute, Faulty, Exceptions, SpecExceptions
  <2>2. /\ Flying(f, j) => f[j].tid \in Ctxt /\ f[j].op \in Ops
        /\ f[j].stage \in Undecoded => f[j].lsq_slot = -1
    BY <1>1 DEF Calm
  <2> QED
    BY <2>1, <2>2
<1>5. /\ Entries(w) = {i \in Instr : Flying(g, i)}
      /\ Entries(l) = Queueing(g, Loads) /\ Entries(s) = Queueing(g, Stores)
  BY <1>1 DEF Queueing
<1>6. SlotsTrue(g, w) /\ LsqSlotsTrue(g, l, load_size) /\ LsqSlotsTrue(g, s, store_size)
  BY <1>1, <1>2, <1>3 DEF SlotsTrue, LsqSlotsTrue
<1>7. SameOrder(g, w, l) /\ SameOrder(g, w, s)
  BY <1>1, <1>2, <1>3 DEF SameOrder
<1>8. Links(g, w)
  <2>1. \A i, j : Behind(f, w, i, j) => Behind(g, w, i, j)
    BY <1>2 DEF Behind
  <2>2. \A i \in Entries(w) : /\ First(f, w, i) => First(g, w, i)
                              /\ Last(f, w, i) => Last(g, w, i)
    BY <1>2 DEF First, Last
  <2> QED
    BY <2>1, <2>2, <1>1, <1>2 DEF Links, SameLinks
<1> QED
  BY <1>1, <1>4, <1>5, <1>6, <1>7, <1>8 DEF Shape

(* A memory queue as the window has it. *)
QueueShape(f, w, q, n, kinds) ==
  /\ Sound(Instr, n, q) /\ Entries(q) = Queueing(f, kinds)
  /\ LsqSlotsTrue(f, q, n) /\ SameOrder(f, w, q)

(* A decoded instruction enters the queue of its kind, and no other.  It   *)
(* is the youngest of its context, so the orders still agree.              *)
LEMMA QueueDecoded ==
  ASSUME NEW f, NEW w, NEW l, NEW s, Shape(f, w, l, s),
         NEW i \in Instr, f[i].stage \in Undecoded, f[i].next = None,
         NEW g \in [Instr -> Fields], \A j \in Instr : j # i => g[j] = f[j],
         g[i].tid = f[i].tid, g[i].op = f[i].op, g[i].stage = "DECODE",
         NEW n \in Nat \ {0}, NEW q, NEW kinds, QueueShape(f, w, q, n, kinds)
  PROVE  /\ f[i].op.kind \notin kinds => QueueShape(g, w, q, n, kinds)
         /\ f[i].op.kind \in kinds /\ slot_avail(q) /\ g[i].lsq_slot = Inserted(q, i).last_created
              => QueueShape(g, w, Inserted(q, i), n, kinds)
<1>1. /\ Sound(Instr, n, q) /\ Entries(q) = Queueing(f, kinds)
      /\ LsqSlotsTrue(f, q, n) /\ SameOrder(f, w, q)
  BY DEF QueueShape
<1>2. Flying(f, i) /\ Flying(g, i) /\ i \notin Entries(q)
  BY <1>1 DEF Flying, Before, Queueing, Undecoded,
              PastExecute, Faulty, Exceptions, SpecExceptions
<1>3. \A j \in Entries(q) : j \in Instr /\ j # i /\ g[j] = f[j]
  BY <1>1, <1>2 DEF Queueing
<1>4. \A j \in Instr : j # i => (Flying(g, j) <=> Flying(f, j))
  BY DEF Flying
<1>5. ASSUME f[i].op.kind \notin kinds PROVE QueueShape(g, w, q, n, kinds)
  <2>1. Queueing(g, kinds) = Queueing(f, kinds)
    <3>1. ASSUME NEW j \in Instr PROVE j \in Queueing(g, kinds) <=> j \in Queueing(f, kinds)
      <4>1. CASE j = i
        BY <4>1, <1>5 DEF Queueing
      <4>2. CASE j # i
        BY <4>2, <1>4 DEF Queueing
      <4> QED
        BY <4>1, <4>2
    <3> QED
      BY <3>1 DEF Queueing
  <2>2. LsqSlotsTrue(g, q, n) /\ SameOrder(g, w, q)
    BY <1>1, <1>3 DEF LsqSlotsTrue, SameOrder
  <2> QED
    BY <2>1, <2>2, <1>1 DEF QueueShape
<1>6. ASSUME f[i].op.kind \in kinds, slot_avail(q), g[i].lsq_slot = Inserted(q, i).last_created
      PROVE  QueueShape(g, w, Inserted(q, i), n, kinds)
  <2> DEFINE p == Inserted(q, i)
             c == p.last_created
  <2>1. /\ Sound(Instr, n, p) /\ Entries(p) = Entries(q) \union {i}
        /\ \A a, b : Older(p, a, b) <=> Older(q, a, b) \/ (a \in Entries(q) /\ b = i)
        /\ c \in 0 .. n - 1 /\ p.w = [q.w EXCEPT ![c] = i] /\ q.w[c] = None
    BY <1>1, <1>2, <1>6, InstrAssumption, InsertedOrder
  <2> HIDE DEF p
  <2>2. Queueing(g, kinds) = Queueing(f, kinds) \union {i}
    <3>1. ASSUME NEW j \in Instr
          PROVE  j \in Queueing(g, kinds) <=> j \in Queueing(f, kinds) \/ j = i
      <4>1. CASE j = i
        BY <4>1, <1>2, <1>6 DEF Queueing, Undecoded
      <4>2. CASE j # i
        BY <4>2, <1>4 DEF Queueing
      <4> QED
        BY <4>1, <4>2
    <3> QED
      BY <3>1 DEF Queueing
  <2>3. DOMAIN q.w = 0 .. n - 1
    BY <1>1 DEF Sound, WindowType
  <2>4. LsqSlotsTrue(g, p, n)
    <3> SUFFICES ASSUME NEW j \in Entries(p)
                 PROVE  g[j].lsq_slot \in 0 .. n - 1 /\ p.w[g[j].lsq_slot] = j
      BY DEF LsqSlotsTrue
    <3>1. CASE j = i
      BY <3>1, <2>1, <2>3, <1>6 DEF p
    <3>2. CASE j # i
      <4>1. j \in Entries(q) /\ j # None
        BY <3>2, <2>1 DEF Entries
      <4>2. g[j].lsq_slot \in 0 .. n - 1 /\ q.w[g[j].lsq_slot] = j
        BY <4>1, <1>1, <1>3 DEF LsqSlotsTrue
      <4> QED
        BY <4>1, <4>2, <2>1, <2>3
    <3> QED
      BY <3>1, <3>2
  <2>5. SameOrder(g, w, p)
    <3> SUFFICES ASSUME NEW a \in Entries(p), NEW b \in Entries(p),
                        g[a].tid = g[b].tid, Older(p, a, b)
                 PROVE  Older(w, a, b)
      BY DEF SameOrder
    <3>1. a \in Instr /\ b \in Instr /\ f[a].tid = f[b].tid
      BY <2>1, <1>3
    <3>2. CASE Older(q, a, b)
      <4>1. Lined(q)
        BY <1>1, InLine DEF Sound
      <4>2. a \in Entries(q) /\ b \in Entries(q)
        BY <3>2, <4>1 DEF Lined
      <4> QED
        BY <3>1, <3>2, <4>2, <1>1 DEF SameOrder
    <3>3. CASE a \in Entries(q) /\ b = i
      <4>1. /\ Entries(w) = {j \in Instr : Flying(f, j)} /\ Links(f, w)
            /\ Sound(Instr, window_size, w) /\ window_size \in Nat \ {0}
        BY SizeAssumption DEF Shape
      <4>2. i \in Entries(w) /\ a \in Entries(w) /\ a # i
        BY <4>1, <3>3, <1>1, <1>2 DEF Queueing
      <4>3. Last(f, w, i)
        BY <4>1, <4>2 DEF Links
      <4>4. ~Older(w, i, a)
        BY <4>2, <4>3, <3>1, <3>3 DEF Last
      <4>5. Lined(w)
        BY <4>1, InLine DEF Sound
      <4> QED
        BY <4>2, <4>4, <4>5, <3>3 DEF Lined
    <3> QED
      BY <3>2, <3>3, <2>1
  <2> QED
    BY <2>1, <2>2, <2>4, <2>5, <1>1 DEF QueueShape, p
<1> QED
  BY <1>5, <1>6

(* PreDecode() of an instruction that is kept. *)
LEMMA Decoded ==
  ASSUME NEW f, NEW w, NEW l, NEW s, Shape(f, w, l, s),
         NEW i \in Instr, f[i].stage \in Undecoded, f[i].next = None,
         NEW g \in [Instr -> Fields], \A j \in Instr : j # i => g[j] = f[j],
         g[i].tid = f[i].tid, g[i].op = f[i].op, g[i].stage = "DECODE",
         g[i].outstanding = {"EVENTQ"}, g[i].slot = f[i].slot, SameLinks(f, g, i),
         f[i].op.kind \in Loads =>
           slot_avail(l) /\ g[i].lsq_slot = Inserted(l, i).last_created,
         f[i].op.kind \in Stores =>
           slot_avail(s) /\ g[i].lsq_slot = Inserted(s, i).last_created
  PROVE  Shape(g, w, IF f[i].op.kind \in Loads THEN Inserted(l, i) ELSE l,
                     IF f[i].op.kind \in Stores THEN Inserted(s, i) ELSE s)
<1> DEFINE l2 == IF f[i].op.kind \in Loads THEN Inserted(l, i) ELSE l
           s2 == IF f[i].op.kind \in Stores THEN Inserted(s, i) ELSE s
<1>1. /\ Calm(f) /\ Sound(Instr, window_size, w)
      /\ Entries(w) = {j \in Instr : Flying(f, j)} /\ SlotsTrue(f, w) /\ Links(f, w)
      /\ QueueShape(f, w, l, load_size, Loads) /\ QueueShape(f, w, s, store_size, Stores)
      /\ load_size \in Nat \ {0} /\ store_size \in Nat \ {0}
  BY SizeAssumption DEF Shape, QueueShape
<1>2. QueueShape(g, w, l2, load_size, Loads)
  <2>1. CASE f[i].op.kind \in Loads
    BY <2>1, <1>1, QueueDecoded
  <2>2. CASE f[i].op.kind \notin Loads
    BY <2>2, <1>1, QueueDecoded
  <2> QED
    BY <2>1, <2>2
<1>3. QueueShape(g, w, s2, store_size, Stores)
  <2>1. CASE f[i].op.kind \in Stores
    BY <2>1, <1>1, QueueDecoded
  <2>2. CASE f[i].op.kind \notin Stores
    BY <2>2, <1>1, QueueDecoded
  <2> QED
    BY <2>1, <2>2
<1> HIDE DEF l2, s2
<1>4. Flying(f, i) /\ Flying(g, i)
  BY DEF Flying, Before, Undecoded, PastExecute, Faulty, Exceptions, SpecExceptions
<1>5. \A j \in Instr : /\ Flying(g, j) <=> Flying(f, j)
                       /\ g[j].tid = f[j].tid /\ g[j].slot = f[j].slot /\ SameLinks(f, g, j)
  <2> TAKE j \in Instr
  <2>1. CASE j = i
    BY <2>1, <1>4
  <2>2. CASE j # i
    BY <2>2 DEF Flying, SameLinks
  <2> QED
    BY <2>1, <2>2
<1>6. Calm(g)
  <2> SUFFICES ASSUME NEW j \in Instr
               PROVE  /\ g[j].outstanding \in {{}, {"EVENTQ"}, {"MEM_HIER"}}
                      /\ Flying(g, j) => g[j].tid \in Ctxt /\ g[j].op \in Ops
                      /\ g[j].stage \in Undecoded => g[j].lsq_slot = -1
    BY DEF Calm
  <2>1. CASE j = i
    BY <2>1, <1>1, <1>4 DEF Calm, Undecoded
  <2>2. CASE j # i
    BY <2>2, <1>1, <1>5 DEF Calm
  <2> QED
    BY <2>1, <2>2
<1>7. \A j \in Entries(w) : j \in Instr
  BY <1>1
<1>8. Entries(w) = {j \in Instr : Flying(g, j)} /\ SlotsTrue(g, w)
  BY <1>1, <1>5, <1>7 DEF SlotsTrue
<1>9. Links(g, w)
  <2>1. \A a, b : Behind(f, w, a, b) => Behind(g, w, a, b)
    BY <1>5, <1>7 DEF Behind
  <2>2. \A a \in Entries(w) : /\ First(f, w, a) => First(g, w, a)
                              /\ Last(f, w, a) => Last(g, w, a)
    BY <1>5, <1>7 DEF First, Last
  <2> QED
    BY <2>1, <2>2, <1>1, <1>5, <1>7 DEF Links, SameLinks
<1> QED
  BY <1>1, <1>2, <1>3, <1>6, <1>8, <1>9 DEF Shape, QueueShape, l2, s2

(* Fetch(): the new instruction is the youngest of all. *)
LEMMA Fetched ==
  ASSUME Shape(instr, iwindow, ldq, stq), slot_avail(iwindow), NEW t \in Ctxt,
         NEW i \in Instr, ~Flying(instr, i), NEW new \in Fields,
         new.tid = t, new.op \in Ops, new.stage = "FETCH", new.lsq_slot = -1,
         new.slot = Inserted(iwindow, i).last_created, new.prev = tail(t), new.next = None,
         new.outstanding = {"MEM_HIER"}, NEW g,
         g = [j \in Instr |-> IF j = i THEN new
                              ELSE IF j = tail(t) THEN [instr[j] EXCEPT !.next = i]
                              ELSE instr[j]]
  PROVE  /\ Shape(g, Inserted(iwindow, i), ldq, stq)
         /\ Entries(Inserted(iwindow, i)) = Entries(iwindow) \union {i}
         /\ i \notin Entries(iwindow) /\ g[i] = new
         /\ \A j \in Instr \ {i} :
              /\ Same(instr, g, j) /\ g[j].prev = instr[j].prev
              /\ g[j].next = IF j = tail(t) THEN i ELSE instr[j].next
         /\ \A j \in Entries(iwindow) : Older(Inserted(iwindow, i), j, i)
         /\ \A a, b \in Entries(iwindow) :
              Older(Inserted(iwindow, i), a, b) <=> Older(iwindow, a, b)
         /\ \A j \in Entries(iwindow) : ~Older(Inserted(iwindow, i), i, j)
<1> DEFINE w == iwindow
           p == Inserted(iwindow, i)
           c == p.last_created
<1>1. /\ Calm(instr) /\ Sound(Instr, window_size, w)
      /\ Sound(Instr, load_size, ldq) /\ Sound(Instr, store_size, stq)
      /\ Entries(w) = {j \in Instr : Flying(instr, j)}
      /\ Entries(ldq) = Queueing(instr, Loads) /\ Entries(stq) = Queueing(instr, Stores)
      /\ SlotsTrue(instr, w)
      /\ LsqSlotsTrue(instr, ldq, load_size) /\ LsqSlotsTrue(instr, stq, store_size)
      /\ SameOrder(instr, w, ldq) /\ SameOrder(instr, w, stq) /\ Links(instr, w)
  BY DEF Shape
<1>2. window_size \in Nat \ {0} /\ None \notin Instr
  BY SizeAssumption, InstrAssumption
<1>3. i \notin Entries(w)
  BY <1>1
<1>4. /\ Sound(Instr, window_size, p) /\ Entries(p) = Entries(w) \union {i}
      /\ \A a, b : Older(p, a, b) <=> Older(w, a, b) \/ (a \in Entries(w) /\ b = i)
      /\ c \in 0 .. window_size - 1 /\ p.w = [w.w EXCEPT ![c] = i] /\ w.w[c] = None
  BY SMTT(30), <1>1, <1>2, <1>3, InsertedOrder
<1>5. Lined(w) /\ Lined(p)
  BY <1>1, <1>2, <1>4, InLine DEF Sound
<1>6. /\ empty_ctxt(w, t) => tail(t) = None
      /\ ~empty_ctxt(w, t) =>
           /\ tail(t) \in Entries(w) /\ instr[tail(t)].tid = t
           /\ \A k \in Entries(w) : instr[k].tid = t => k = tail(t) \/ Older(w, k, tail(t))
      /\ empty_ctxt(w, t) <=> \A j \in Entries(w) : instr[j].tid # t
  BY <1>1, <1>2, TailIs, OwnIs
<1>7. DOMAIN w.w = 0 .. window_size - 1 /\ new.slot = c
  BY <1>1 DEF Sound, WindowType
<1>8. instr \in [Instr -> Fields]
  BY <1>1 DEF Calm
<1> HIDE DEF p, c
<1>9. ASSUME NEW j \in Instr, j # i
      PROVE  /\ g[j] \in Fields /\ Same(instr, g, j) /\ g[j].prev = instr[j].prev
             /\ g[j].slot = instr[j].slot /\ g[j].lsq_slot = instr[j].lsq_slot
             /\ g[j].next = IF j = tail(t) THEN i ELSE instr[j].next
  <2>1. instr[j] \in Fields
    BY <1>8
  <2>2. CASE j = tail(t)
    <3>1. g[j] = [instr[j] EXCEPT !.next = i]
      BY <1>9, <2>2
    <3> QED
      BY <2>1, <2>2, <3>1 DEF Fields, Same
  <2>3. CASE j # tail(t)
    <3>1. g[j] = instr[j]
      BY <1>9, <2>3
    <3> QED
      BY <2>1, <2>3, <3>1 DEF Same
  <2> QED
    BY <2>2, <2>3
<1>10. g[i] = new
  OBVIOUS
<1>11. g \in [Instr -> Fields]
  <2>1. \A j \in Instr : g[j] \in Fields
    BY <1>9, <1>10
  <2> QED
    BY <2>1
<1>12. Flying(g, i) /\ \A j \in Instr \ {i} : Flying(g, j) <=> Flying(instr, j)
  BY <1>9, <1>10 DEF Flying, Same, Before
<1>13. \A j \in Entries(w) : j \in Instr \ {i}
  BY <1>1, <1>3
<1>14. Calm(g)
  <2> SUFFICES ASSUME NEW j \in Instr
               PROVE  /\ g[j].outstanding \in {{}, {"EVENTQ"}, {"MEM_HIER"}}
                      /\ Flying(g, j) => g[j].tid \in Ctxt /\ g[j].op \in Ops
                      /\ g[j].stage \in Undecoded => g[j].lsq_slot = -1
    BY <1>11 DEF Calm
  <2>1. CASE j = i
    BY <2>1, <1>10
  <2>2. CASE j # i
    BY <2>2, <1>1, <1>9, <1>12 DEF Calm, Same
  <2> QED
    BY <2>1, <2>2
<1>15. Entries(p) = {j \in Instr : Flying(g, j)}
  BY <1>1, <1>4, <1>12
<1>16. Queueing(g, Loads) = Queueing(instr, Loads) /\ Queueing(g, Stores) = Queueing(instr, Stores)
  <2>1. ASSUME NEW K, NEW j \in Instr PROVE j \in Queueing(g, K) <=> j \in Queueing(instr, K)
    <3>1. CASE j = i
      BY <3>1, <1>10 DEF Queueing, Undecoded
    <3>2. CASE j # i
      BY <3>2, <1>9, <1>12 DEF Queueing, Same
    <3> QED
      BY <3>1, <3>2
  <2> QED
    BY <2>1 DEF Queueing
<1>17. SlotsTrue(g, p)
  <2> SUFFICES ASSUME NEW j \in Entries(p)
               PROVE  g[j].slot \in 0 .. window_size - 1 /\ p.w[g[j].slot] = j
    BY DEF SlotsTrue
  <2>1. CASE j = i
    BY <2>1, <1>4, <1>7, <1>10
  <2>2. CASE j # i
    <3>1. j \in Entries(w) /\ j # None
      BY <2>2, <1>2, <1>4, <1>13
    <3>2. instr[j].slot \in 0 .. window_size - 1 /\ w.w[instr[j].slot] = j
      BY <3>1, <1>1 DEF SlotsTrue
    <3>3. instr[j].slot # c
      BY <3>1, <3>2, <1>4
    <3> QED
      BY <3>1, <3>2, <3>3, <1>4, <1>7, <1>9, <1>13
  <2> QED
    BY <2>1, <2>2
<1>18. \A j \in Entries(ldq) \union Entries(stq) : j \in Entries(w)
  BY <1>1 DEF Queueing
<1>19. /\ LsqSlotsTrue(g, ldq, load_size) /\ LsqSlotsTrue(g, stq, store_size)
       /\ SameOrder(g, p, ldq) /\ SameOrder(g, p, stq)
  <2>1. LsqSlotsTrue(g, ldq, load_size) /\ LsqSlotsTrue(g, stq, store_size)
    BY <1>1, <1>9, <1>13, <1>18 DEF LsqSlotsTrue
  <2>2. \A j \in Entries(w) : g[j].tid = instr[j].tid
    BY <1>9, <1>13 DEF Same
  <2>3. SameOrder(g, p, ldq)
    BY <2>2, <1>1, <1>4, <1>18 DEF SameOrder
  <2>4. SameOrder(g, p, stq)
    BY <2>2, <1>1, <1>4, <1>18 DEF SameOrder
  <2> QED
    BY <2>1, <2>3, <2>4
<1>20. Links(g, p)
  <2>1. \A j \in Entries(w) : g[j].tid = instr[j].tid
    BY <1>9, <1>13 DEF Same
  <2>2. \A a, b \in Entries(w) : Older(p, a, b) <=> Older(w, a, b)
    BY <1>3, <1>4
  <2>3. \A j : ~Older(p, i, j)
    BY <1>3, <1>4, <1>5 DEF Lined
  <2>4. ASSUME NEW a, NEW b, Behind(instr, w, a, b)
        PROVE  Behind(g, p, a, b)
    <3>1. /\ a \in Entries(w) /\ b \in Entries(w) /\ instr[b].tid = instr[a].tid
          /\ Older(w, a, b)
          /\ \A k \in Entries(w) :
               instr[k].tid = instr[a].tid => ~(Older(w, a, k) /\ Older(w, k, b))
      BY <2>4 DEF Behind
    <3>2. \A k \in Entries(p) : g[k].tid = g[a].tid => ~(Older(p, a, k) /\ Older(p, k, b))
      BY <3>1, <2>1, <2>2, <2>3, <1>4
    <3>3. a \in Entries(p) /\ b \in Entries(p) /\ g[b].tid = g[a].tid /\ Older(p, a, b)
      BY <3>1, <2>1, <2>2, <1>4
    <3> QED
      BY <3>2, <3>3 DEF Behind
  <2>5. ASSUME ~empty_ctxt(w, t) PROVE Behind(g, p, tail(t), i)
    <3>1. /\ tail(t) \in Entries(w) /\ g[tail(t)].tid = t
          /\ \A k \in Entries(w) : instr[k].tid = t => k = tail(t) \/ Older(w, k, tail(t))
      BY <2>5, <2>1, <1>6
    <3>2. tail(t) \in Entries(p) /\ i \in Entries(p) /\ g[i].tid = g[tail(t)].tid
          /\ Older(p, tail(t), i)
      BY <3>1, <1>4, <1>10
    <3>3. ASSUME NEW k \in Entries(p), g[k].tid = t, Older(p, tail(t), k), Older(p, k, i)
          PROVE FALSE
      <4>1. k # i
        BY <3>3, <2>3
      <4>2. k \in Entries(w) /\ instr[k].tid = t
        BY <4>1, <3>3, <2>1, <1>4
      <4>3. k = tail(t) \/ Older(w, k, tail(t))
        BY <4>2, <3>1
      <4>4. k = tail(t) \/ Older(p, k, tail(t))
        BY <4>2, <4>3, <3>1, <2>2
      <4> QED
        BY <4>4, <3>3, <1>5 DEF Lined
    <3> QED
      BY <3>1, <3>2, <3>3 DEF Behind
  <2> SUFFICES ASSUME NEW a \in Entries(p)
               PROVE  /\ IF g[a].prev = None THEN First(g, p, a) ELSE Behind(g, p, g[a].prev, a)
                      /\ IF g[a].next = None THEN Last(g, p, a) ELSE Behind(g, p, a, g[a].next)
    BY DEF Links
  <2>6. CASE a = i
    <3>1. Last(g, p, a)
      BY <2>6, <2>3 DEF Last
    <3>2. CASE empty_ctxt(w, t)
      <4>1. g[a].prev = None /\ \A k \in Entries(w) : g[k].tid # t
        BY <3>2, <2>6, <2>1, <1>6, <1>10
      <4>2. First(g, p, a)
        BY <4>1, <2>3, <2>6, <1>4, <1>10 DEF First
      <4> QED
        BY <3>1, <4>1, <4>2, <2>6, <1>10
    <3>3. CASE ~empty_ctxt(w, t)
      <4>1. Behind(g, p, tail(t), i)
        BY <3>3, <2>5
      <4>2. tail(t) # None
        BY <3>3, <1>2, <1>6, <1>13
      <4> QED
        BY <3>1, <4>1, <4>2, <2>6, <1>10
    <3> QED
      BY <3>2, <3>3
  <2>7. CASE a # i
    <3>1. a \in Entries(w) /\ a \in Instr
      BY <2>7, <1>4, <1>13
    <3>2. /\ IF instr[a].prev = None THEN First(instr, w, a)
             ELSE Behind(instr, w, instr[a].prev, a)
          /\ IF instr[a].next = None THEN Last(instr, w, a)
             ELSE Behind(instr, w, a, instr[a].next)
      BY <3>1, <1>1 DEF Links
    <3>3. First(instr, w, a) => First(g, p, a)
      BY <3>1, <2>1, <2>2, <2>3, <1>4 DEF First
    <3>4. IF g[a].prev = None THEN First(g, p, a) ELSE Behind(g, p, g[a].prev, a)
      BY <3>1, <3>2, <3>3, <2>4, <2>7, <1>9
    <3>5. CASE a = tail(t)
      <4>1. ~empty_ctxt(w, t)
        BY <3>1, <3>5, <1>2, <1>6
      <4>2. g[a].next = i /\ i # None
        BY <3>1, <3>5, <2>7, <1>2, <1>9
      <4> QED
        BY <4>1, <4>2, <3>4, <3>5, <2>5
    <3>6. CASE a # tail(t)
      <4>1. g[a].next = instr[a].next
        BY <3>1, <3>6, <2>7, <1>9
      <4>2. ASSUME instr[a].next = None PROVE Last(g, p, a)
        <5>1. Last(instr, w, a)
          BY <4>2, <3>2
        <5>2. ASSUME g[a].tid = t PROVE FALSE
          <6>1. instr[a].tid = t
            BY <5>2, <3>1, <2>1
          <6>2. Older(w, a, tail(t)) /\ tail(t) \in Entries(w) /\ instr[tail(t)].tid = t
            BY <6>1, <3>1, <3>6, <1>6
          <6> QED
            BY <5>1, <6>1, <6>2 DEF Last
        <5>3. \A k \in Entries(w) : g[k].tid = g[a].tid => ~Older(p, a, k)
          BY <5>1, <3>1, <2>1, <2>2 DEF Last
        <5> QED
          BY <5>2, <5>3, <1>4, <1>10 DEF Last
      <4> QED
        BY <4>1, <4>2, <3>2, <3>4, <2>4
    <3> QED
      BY <3>5, <3>6
  <2> QED
    BY <2>6, <2>7
<1>21. Shape(g, p, ldq, stq)
  BY <1>1, <1>4, <1>14, <1>15, <1>16, <1>17, <1>19, <1>20 DEF Shape
<1>22. \A j \in Entries(w) : Older(p, j, i) /\ ~Older(p, i, j)
  BY <1>4, <1>5 DEF Lined
<1>23. \A a, b \in Entries(w) : Older(p, a, b) <=> Older(w, a, b)
  BY <1>3, <1>4
<1> QED
  BY <1>3, <1>4, <1>9, <1>10, <1>21, <1>22, <1>23 DEF p

(* Dequeue(): the oldest instruction of a context leaves. *)
Gone(i, left) ==
  /\ Shape(instr', iwindow', ldq', stq')
  /\ Unlinks(instr, instr', {i}) /\ instr'[i].stage = left.stage
  /\ instr'[i].tid = left.tid /\ instr'[i].pos = left.pos /\ instr'[i].op = left.op
  /\ Entries(iwindow') = Entries(iwindow) \ {i}
  /\ \A a, b \in Entries(iwindow') : Older(iwindow', a, b) <=> Older(iwindow, a, b)

LEMMA Dequeued ==
  ASSUME Shape(instr, iwindow, ldq, stq), NEW t, NEW i, Oldest(t, i),
         NEW left \in Fields, left.outstanding = {},
         left.stage \notin Before \union PastExecute, Dequeue(i, left)
  PROVE  Gone(i, left)
<1> DEFINE w == iwindow
           ml == instr[i].op.kind \in Loads /\ instr[i].stage \notin Undecoded
           ms == instr[i].op.kind \in Stores /\ instr[i].stage \notin Undecoded
           f == [Unlinked(instr, {i}) EXCEPT ![i] = left]
<1>1. /\ Calm(instr) /\ Sound(Instr, window_size, w)
      /\ Sound(Instr, load_size, ldq) /\ Sound(Instr, store_size, stq)
      /\ Entries(w) = {j \in Instr : Flying(instr, j)}
      /\ Entries(ldq) = Queueing(instr, Loads) /\ Entries(stq) = Queueing(instr, Stores)
      /\ Links(instr, w)
  BY DEF Shape
<1>2. /\ window_size \in Nat \ {0} /\ load_size \in Nat \ {0} /\ store_size \in Nat \ {0}
      /\ None \notin Instr
  BY SizeAssumption, InstrAssumption
<1>3. /\ i \in Entries(w) /\ i \in Instr /\ instr[i].tid = t /\ First(instr, w, i)
  BY OldestFirst
<1>4. instr \in [Instr -> Fields]
  BY <1>1 DEF Calm
<1>5. iwindow' = Popped(w, i) /\ Shrunk(Instr, window_size, w, Popped(w, i), {i}, Moves(w, i))
  BY <1>1, <1>2, <1>3, PoppedShrinks DEF Dequeue
<1>6. /\ (ml /\ Moves(ldq, i)) \in BOOLEAN
      /\ Shrunk(Instr, load_size, ldq, ldq', {i}, ml /\ Moves(ldq, i))
  <2>1. CASE ml
    <3>1. i \in Entries(ldq) /\ ldq' = Popped(ldq, i)
      BY <2>1, <1>1, <1>3 DEF Queueing, Dequeue
    <3>2. Shrunk(Instr, load_size, ldq, Popped(ldq, i), {i}, Moves(ldq, i))
      BY <3>1, <1>1, <1>2, PoppedShrinks
    <3>3. (ml /\ Moves(ldq, i)) = Moves(ldq, i)
      BY <2>1 DEF Moves
    <3> QED
      BY <3>1, <3>2, <3>3 DEF Moves
  <2>2. CASE ~ml
    <3>1. i \notin Entries(ldq) /\ ldq' = ldq
      BY <2>2, <1>1, <1>3 DEF Queueing, Dequeue
    <3>2. Shrunk(Instr, load_size, ldq, ldq, {i}, FALSE)
      BY <3>1, <1>1, <1>2, SameShrinks
    <3>3. (ml /\ Moves(ldq, i)) = FALSE
      BY <2>2
    <3> QED
      BY <3>1, <3>2, <3>3
  <2> QED
    BY <2>1, <2>2
<1>7. /\ (ms /\ Moves(stq, i)) \in BOOLEAN
      /\ Shrunk(Instr, store_size, stq, stq', {i}, ms /\ Moves(stq, i))
  <2>1. CASE ms
    <3>1. i \in Entries(stq) /\ stq' = Popped(stq, i)
      BY <2>1, <1>1, <1>3 DEF Queueing, Dequeue
    <3>2. Shrunk(Instr, store_size, stq, Popped(stq, i), {i}, Moves(stq, i))
      BY <3>1, <1>1, <1>2, PoppedShrinks
    <3>3. (ms /\ Moves(stq, i)) = Moves(stq, i)
      BY <2>1 DEF Moves
    <3> QED
      BY <3>1, <3>2, <3>3 DEF Moves
  <2>2. CASE ~ms
    <3>1. i \notin Entries(stq) /\ stq' = stq
      BY <2>2, <1>1, <1>3 DEF Queueing, Dequeue
    <3>2. Shrunk(Instr, store_size, stq, stq, {i}, FALSE)
      BY <3>1, <1>1, <1>2, SameShrinks
    <3>3. (ms /\ Moves(stq, i)) = FALSE
      BY <2>2
    <3> QED
      BY <3>1, <3>2, <3>3
  <2> QED
    BY <2>1, <2>2
<1>8. /\ f \in [Instr -> Fields] /\ Unlinks(instr, f, {i}) /\ f[i] = left
      /\ \A j \in Instr \ {i} : f[j].slot = instr[j].slot /\ f[j].lsq_slot = instr[j].lsq_slot
  <2> DEFINE u == Unlinked(instr, {i})
  <2>1. /\ u \in [Instr -> Fields] /\ Unlinks(instr, u, {i})
        /\ \A j \in Instr \ {i} : u[j].slot = instr[j].slot /\ u[j].lsq_slot = instr[j].lsq_slot
    BY <1>3, <1>4, UnlinkedIs
  <2> HIDE DEF u
  <2>2. f = [u EXCEPT ![i] = left]
    BY DEF u
  <2> HIDE DEF f
  <2>3. f[i] = left /\ \A j \in Instr \ {i} : f[j] = u[j]
    BY <2>1, <2>2, <1>3
  <2>4. f \in [Instr -> Fields]
    BY <2>1, <2>2
  <2>5. Unlinks(instr, f, {i})
    BY <2>1, <2>3 DEF Unlinks, Same, Flying
  <2> QED
    BY <2>1, <2>3, <2>4, <2>5
<1>9. Outer(instr, w, {i})
  <2> SUFFICES ASSUME NEW j \in Entries(w), j # i
               PROVE  /\ instr[j].prev = i =>
                           \A k \in Entries(w) \ {i} : instr[k].tid = instr[j].tid => ~Older(w, k, j)
                      /\ instr[j].next # i
    BY DEF Outer
  <2>1. /\ IF instr[j].prev = None THEN First(instr, w, j) ELSE Behind(instr, w, instr[j].prev, j)
        /\ IF instr[j].next = None THEN Last(instr, w, j) ELSE Behind(instr, w, j, instr[j].next)
    BY <1>1 DEF Links
  <2>2. Lined(w) /\ i # None
    BY <1>1, <1>2, <1>3, InLine DEF Sound
  <2>3. ASSUME instr[j].prev = i, NEW k \in Entries(w) \ {i}, instr[k].tid = instr[j].tid,
               Older(w, k, j)
        PROVE  FALSE
    <3>1. Behind(instr, w, i, j)
      BY <2>1, <2>2, <2>3
    <3>2. instr[k].tid = instr[i].tid /\ ~Older(w, i, k)
      BY <3>1, <2>3 DEF Behind
    <3>3. Older(w, k, i)
      BY <3>2, <2>2, <1>3 DEF Lined
    <3> QED
      BY <3>2, <3>3, <1>3 DEF First
  <2>4. instr[j].next # i
    <3>1. SUFFICES ASSUME instr[j].next = i PROVE FALSE
      OBVIOUS
    <3>2. Behind(instr, w, j, i)
      BY <3>1, <2>1, <2>2
    <3> QED
      BY <3>2, <1>3 DEF Behind, First
  <2> QED
    BY <2>3, <2>4
<1>10. \A j \in {i} : f[j].outstanding \in {{}, {"EVENTQ"}, {"MEM_HIER"}} /\ f[j].stage \notin Undecoded
  BY <1>8 DEF Before, Undecoded, PastExecute, Faulty, Exceptions, SpecExceptions
<1>11. instr' = ReassignedLsq(ReassignedLsq(Reassigned(f, iwindow', Moves(w, i)),
                                           ldq', ml /\ Moves(ldq, i)),
                             stq', ms /\ Moves(stq, i))
  BY DEF Dequeue
<1>12. Moves(w, i) \in BOOLEAN /\ {i} \in SUBSET Entries(w)
  BY <1>3 DEF Moves
<1>13. Shrunk(Instr, window_size, w, iwindow', {i}, Moves(w, i))
  BY <1>5
<1> DEFINE bl == ml /\ Moves(ldq, i)
           bs == ms /\ Moves(stq, i)
           mw == Moves(w, i)
<1>14. /\ bl \in BOOLEAN /\ bs \in BOOLEAN /\ mw \in BOOLEAN
       /\ Shrunk(Instr, window_size, w, iwindow', {i}, mw)
       /\ Shrunk(Instr, load_size, ldq, ldq', {i}, bl)
       /\ Shrunk(Instr, store_size, stq, stq', {i}, bs)
       /\ instr' = ReassignedLsq(ReassignedLsq(Reassigned(f, iwindow', mw), ldq', bl), stq', bs)
  BY <1>6, <1>7, <1>11, <1>12, <1>13
<1> HIDE DEF f, ml, ms, bl, bs, mw
<1>15. /\ Shape(instr', iwindow', ldq', stq') /\ Unlinks(instr, instr', {i})
       /\ \A j \in Instr : Same(f, instr', j)
  BY <1>8, <1>9, <1>10, <1>12, <1>14, SomeLeave
<1>16. /\ Entries(iwindow') = Entries(w) \ {i}
       /\ \A a, b \in Entries(iwindow') : Older(iwindow', a, b) <=> Older(w, a, b)
  BY <1>13 DEF Shrunk
<1>17. Same(f, instr', i)
  BY <1>3, <1>15
<1> QED
  BY <1>8, <1>15, <1>16, <1>17 DEF Gone, Same
-----------------------------------------------------------------------------
(* The ends of a context: who has no predecessor is the one oldest, who    *)
(* has no successor the one youngest instruction.                          *)
Ends(f, w, i) ==
  /\ f[i].prev = None <=> First(f, w, i)
  /\ f[i].next = None <=> Last(f, w, i)
  /\ f[i].prev # None => Behind(f, w, f[i].prev, i)
  /\ f[i].next # None => Behind(f, w, i, f[i].next)
  /\ \A j \in Entries(w) : f[j].tid = f[i].tid =>
       /\ First(f, w, i) /\ First(f, w, j) => i = j
       /\ Last(f, w, i) /\ Last(f, w, j) => i = j

LEMMA EndsAre ==
  ASSUME NEW f, NEW w, NEW l, NEW s, Shape(f, w, l, s), NEW i \in Entries(w)
  PROVE  Ends(f, w, i)
<1>1. Links(f, w) /\ Sound(Instr, window_size, w) /\ window_size \in Nat \ {0}
  BY SizeAssumption DEF Shape
<1>2. Lined(w)
  BY <1>1, InLine DEF Sound
<1>3. /\ IF f[i].prev = None THEN First(f, w, i) ELSE Behind(f, w, f[i].prev, i)
      /\ IF f[i].next = None THEN Last(f, w, i) ELSE Behind(f, w, i, f[i].next)
  BY <1>1 DEF Links
<1>4. ASSUME NEW j, Behind(f, w, j, i) PROVE ~First(f, w, i)
  BY <1>4 DEF Behind, First
<1>5. ASSUME NEW j, Behind(f, w, i, j) PROVE ~Last(f, w, i)
  BY <1>5 DEF Behind, Last
<1>6. ASSUME NEW j \in Entries(w), f[j].tid = f[i].tid
      PROVE  /\ First(f, w, i) /\ First(f, w, j) => i = j
             /\ Last(f, w, i) /\ Last(f, w, j) => i = j
  <2>1. i = j \/ Older(w, i, j) \/ Older(w, j, i)
    BY <1>2 DEF Lined
  <2> QED
    BY <2>1, <1>6 DEF First, Last
<1> QED
  BY <1>3, <1>4, <1>5, <1>6 DEF Ends

(* A context whose instructions and fetch unit are as they were. *)
LEMMA FrontKept ==
  ASSUME NEW f, NEW w, NEW fe, NEW st, NEW re, NEW t, Front(f, w, fe, st, re, t),
         NEW g, NEW w2, NEW fe2, NEW st2, NEW re2,
         \A j : j \in Entries(w2) /\ g[j].tid = t <=> j \in Entries(w) /\ f[j].tid = t,
         \A j \in Entries(w) : f[j].tid = t =>
           /\ g[j].pos = f[j].pos /\ g[j].wrong = f[j].wrong /\ g[j].stage = f[j].stage
           /\ g[j].next = f[j].next,
         fe2[t] = fe[t], re2[t] = re[t], st[t] \subseteq st2[t]
  PROVE  Front(g, w2, fe2, st2, re2, t)
<1>1. ASSUME NEW j \in Entries(w2), g[j].tid = t
      PROVE  /\ j \in Entries(w) /\ f[j].tid = t
             /\ g[j].pos = f[j].pos /\ g[j].wrong = f[j].wrong /\ g[j].stage = f[j].stage
             /\ g[j].next = f[j].next
  BY <1>1
<1>2. \A j \in Entries(w2) : g[j].tid = t /\ g[j].stage \in Undecoded =>
        g[j].next = None /\ "GPC_UNKNOWN" \in st2[t]
  BY <1>1 DEF Front
<1>3. \A j \in Entries(w2) : g[j].tid = t /\ g[j].stage \in Faulty =>
        g[j].next = None /\ "STALL_UNTIL_EMPTY" \in st2[t]
  BY <1>1 DEF Front
<1>4. \A j \in Entries(w2) :
        g[j].tid = t /\ g[j].next = None /\ g[j].stage \notin Undecoded /\ ~fe2[t].wrong =>
          ~g[j].wrong /\ fe2[t].pos = g[j].pos + 1
  BY <1>1 DEF Front
<1>5. (\A j \in Entries(w2) : g[j].tid # t) /\ ~fe2[t].wrong => fe2[t].pos = re2[t] + 1
  BY DEF Front
<1> QED
  BY <1>2, <1>3, <1>4, <1>5 DEF Front

(* g differs from f in instruction i, whose place it leaves alone. *)
Advances(f, g, i) ==
  /\ i \in Instr /\ g \in [Instr -> Fields] /\ \A j \in Instr \ {i} : g[j] = f[j]
  /\ g[i].tid = f[i].tid /\ g[i].pos = f[i].pos /\ g[i].op = f[i].op
  /\ g[i].wrong = f[i].wrong /\ SameLinks(f, g, i)
  /\ Flying(g, i) <=> Flying(f, i)
  /\ g[i].stage \in InBuffer <=> f[i].stage \in InBuffer

LEMMA Advanced ==
  ASSUME NEW f, NEW w, NEW l, NEW s, NEW b, NEW re, NEW dn, Shape(f, w, l, s),
         Followed(f, w, b, re, dn), NEW g, NEW i, Advances(f, g, i),
         g[i].stage \in {"SAFE", "MEM"} => g[i].op.kind # "branch",
         g[i].stage = "PROGRESS" => g[i].op.kind \in {"load", "unsafe"},
         HasStarted(g, i) => /\ First(f, w, i) /\ ~f[i].wrong
                             /\ \A j \in Entries(b) : f[j].tid # f[i].tid
  PROVE  /\ StartedFirst(g, w) /\ Course(g, w, re) /\ Buffered(g, b, re)
         /\ (g[i].stage = "COMMIT" /\ g[i].op.kind = "load" <=>
             f[i].stage = "COMMIT" /\ f[i].op.kind = "load") => Followed(g, w, b, re, dn)
<1>1. /\ StartedFirst(f, w) /\ Course(f, w, re) /\ Buffered(f, b, re) /\ DoneTrue(f, w, b, re, dn)
      /\ Entries(w) = {j \in Instr : Flying(f, j)} /\ Calm(f) /\ Links(f, w)
  BY DEF Followed, Shape
<1>2. /\ i \in Instr /\ g \in [Instr -> Fields] /\ \A j \in Instr \ {i} : g[j] = f[j]
      /\ g[i].tid = f[i].tid /\ g[i].pos = f[i].pos /\ g[i].op = f[i].op
      /\ g[i].wrong = f[i].wrong /\ SameLinks(f, g, i)
      /\ Flying(g, i) <=> Flying(f, i)
      /\ g[i].stage \in InBuffer <=> f[i].stage \in InBuffer
  BY DEF Advances
<1>3. \A j \in Instr : /\ g[j].tid = f[j].tid /\ g[j].pos = f[j].pos /\ g[j].op = f[j].op
                       /\ g[j].wrong = f[j].wrong /\ g[j].prev = f[j].prev
  BY <1>2 DEF SameLinks
<1>4. \A j \in Entries(w) : j \in Instr
  BY <1>1
<1>5. \A j \in Instr : j # i => (HasStarted(g, j) <=> HasStarted(f, j))
  BY <1>2 DEF HasStarted
<1>6. StartedFirst(g, w)
  <2>1. \A j \in Entries(w) : First(f, w, j) => First(g, w, j)
    BY <1>3, <1>4 DEF First
  <2> SUFFICES ASSUME NEW j \in Entries(w)
               PROVE  /\ HasStarted(g, j) => First(g, w, j) /\ ~g[j].wrong
                      /\ g[j].stage \in {"SAFE", "MEM"} => g[j].op.kind # "branch"
                      /\ g[j].stage = "PROGRESS" => g[j].op.kind \in {"load", "unsafe"}
    BY DEF StartedFirst
  <2>2. CASE j = i
    BY <2>1, <2>2, <1>3, <1>4
  <2>3. CASE j # i
    BY <2>1, <2>3, <1>1, <1>2, <1>3, <1>4, <1>5 DEF StartedFirst
  <2> QED
    BY <2>2, <2>3
<1>7. Course(g, w, re)
  <2> SUFFICES ASSUME NEW j \in Entries(w), ~g[j].wrong
               PROVE  /\ g[j].pos \in DOMAIN Program[g[j].tid]
                      /\ g[j].op = Program[g[j].tid][g[j].pos]
                      /\ IF g[j].prev = None THEN g[j].pos = re[g[j].tid] + 1
                         ELSE ~g[g[j].prev].wrong /\ g[j].pos = g[g[j].prev].pos + 1
    BY DEF Course
  <2>1. ~f[j].wrong
    BY <1>3, <1>4
  <2>2. /\ f[j].pos \in DOMAIN Program[f[j].tid]
        /\ f[j].op = Program[f[j].tid][f[j].pos]
        /\ IF f[j].prev = None THEN f[j].pos = re[f[j].tid] + 1
           ELSE ~f[f[j].prev].wrong /\ f[j].pos = f[f[j].prev].pos + 1
    BY <2>1, <1>1 DEF Course
  <2>3. f[j].prev # None => f[j].prev \in Instr
    BY <1>1, <1>4 DEF Links, Behind
  <2> QED
    BY <2>2, <2>3, <1>3, <1>4
<1>8. Buffered(g, b, re)
  <2>1. /\ Sound(Instr, stbuf_size, b)
        /\ Entries(b) = {j \in Instr : f[j].stage \in InBuffer}
        /\ \A j \in Entries(b) :
             /\ f[j].tid \in Ctxt /\ f[j].pos \in DOMAIN Program[f[j].tid]
             /\ f[j].pos <= re[f[j].tid]
             /\ f[j].op = Program[f[j].tid][f[j].pos] /\ f[j].op.kind = "store"
        /\ \A j, k \in Entries(b) :
             f[j].tid = f[k].tid /\ Older(b, j, k) => f[j].pos < f[k].pos
        /\ \A j \in Instr : HasStarted(f, j) => \A k \in Entries(b) : f[k].tid # f[j].tid
    BY <1>1 DEF Buffered
  <2>2. \A j \in Instr : g[j].stage \in InBuffer <=> f[j].stage \in InBuffer
    BY <1>2
  <2>3. Entries(b) = {j \in Instr : g[j].stage \in InBuffer}
    BY <2>1, <2>2
  <2>4. \A j \in Entries(b) : j \in Instr
    BY <2>1
  <2>5. \A j \in Entries(b) :
          /\ g[j].tid \in Ctxt /\ g[j].pos \in DOMAIN Program[g[j].tid]
          /\ g[j].pos <= re[g[j].tid]
          /\ g[j].op = Program[g[j].tid][g[j].pos] /\ g[j].op.kind = "store"
    BY <2>1, <2>4, <1>3
  <2>6. \A j, k \in Entries(b) :
          g[j].tid = g[k].tid /\ Older(b, j, k) => g[j].pos < g[k].pos
    BY <2>1, <2>4, <1>3
  <2>7. \A j \in Instr : HasStarted(g, j) => \A k \in Entries(b) : g[k].tid # g[j].tid
    BY <2>1, <2>4, <1>3, <1>5
  <2> QED
    BY <2>1, <2>3, <2>5, <2>6, <2>7 DEF Buffered
<1>9. ASSUME g[i].stage = "COMMIT" /\ g[i].op.kind = "load" <=>
             f[i].stage = "COMMIT" /\ f[i].op.kind = "load"
      PROVE  DoneTrue(g, w, b, re, dn)
  <2>1. ASSUME NEW t, NEW p
        PROVE  Took(g, w, b, re, t, p) <=> Took(f, w, b, re, t, p)
    <3>1. \A j \in Entries(b) : g[j].tid = f[j].tid /\ g[j].pos = f[j].pos
      BY <1>1, <1>3 DEF Buffered
    <3>2. \A j \in Entries(w) :
            g[j].op.kind = "load" /\ g[j].stage = "COMMIT" <=>
            f[j].op.kind = "load" /\ f[j].stage = "COMMIT"
      BY <1>2, <1>4, <1>9
    <3> QED
      BY <3>1, <3>2, <1>3, <1>4 DEF Took
  <2> QED
    BY <2>1, <1>1 DEF DoneTrue
<1> QED
  BY <1>6, <1>7, <1>8, <1>9 DEF Followed

(* An instruction stays decoded or not, and its slots stay. *)
Goes(f, g, i) ==
  /\ Advances(f, g, i) /\ (g[i].stage \in Undecoded <=> f[i].stage \in Undecoded)
  /\ g[i].slot = f[i].slot /\ g[i].lsq_slot = f[i].lsq_slot
  /\ g[i].outstanding \in {{}, {"EVENTQ"}, {"MEM_HIER"}}

LEMMA StepShape ==
  ASSUME NEW f, NEW w, NEW l, NEW s, Shape(f, w, l, s), NEW g, NEW i, Goes(f, g, i)
  PROVE  Shape(g, w, l, s)
<1>1. /\ i \in Instr /\ g \in [Instr -> Fields] /\ \A j \in Instr \ {i} : g[j] = f[j]
      /\ g[i].tid = f[i].tid /\ g[i].op = f[i].op /\ SameLinks(f, g, i)
      /\ Flying(g, i) <=> Flying(f, i)
      /\ g[i].stage \in Undecoded <=> f[i].stage \in Undecoded
      /\ g[i].slot = f[i].slot /\ g[i].lsq_slot = f[i].lsq_slot
      /\ g[i].outstanding \in {{}, {"EVENTQ"}, {"MEM_HIER"}}
  BY DEF Goes, Advances
<1>2. \A j \in Instr : f[j].outstanding \in {{}, {"EVENTQ"}, {"MEM_HIER"}}
  BY DEF Shape, Calm
<1>3. ASSUME NEW j \in Instr
      PROVE  /\ g[j].outstanding \in {{}, {"EVENTQ"}, {"MEM_HIER"}}
             /\ Flying(g, j) <=> Flying(f, j)
             /\ Flying(f, j) =>
                  /\ g[j].tid = f[j].tid /\ g[j].op = f[j].op /\ SameLinks(f, g, j)
                  /\ g[j].slot = f[j].slot /\ g[j].lsq_slot = f[j].lsq_slot
                  /\ g[j].stage \in Undecoded <=> f[j].stage \in Undecoded
  <2>1. CASE j = i
    BY <2>1, <1>1
  <2>2. CASE j # i
    BY <2>2, <1>1, <1>2 DEF Flying, SameLinks
  <2> QED
    BY <2>1, <2>2
<1> QED
  BY <1>1, <1>3, SameShape

(* The contexts that i is not of. *)
LEMMA StepFronts ==
  ASSUME NEW f, NEW w, NEW l, NEW s, Shape(f, w, l, s), NEW g, NEW i, Advances(f, g, i),
         NEW t, ~Flying(f, i) \/ f[i].tid # t, NEW fe, NEW st, NEW re, Front(f, w, fe, st, re, t),
         NEW fe2, fe2[t] = fe[t], NEW st2, st[t] \subseteq st2[t]
  PROVE  Front(g, w, fe2, st2, re, t)
<1>1. Entries(w) = {j \in Instr : Flying(f, j)}
  BY DEF Shape
<1>2. i \in Instr /\ g[i].tid = f[i].tid /\ \A j \in Instr \ {i} : g[j] = f[j]
  BY DEF Advances
<1>3. \A j : j \in Entries(w) /\ g[j].tid = t <=> j \in Entries(w) /\ f[j].tid = t
  BY <1>1, <1>2
<1>4. \A j \in Entries(w) : f[j].tid = t => g[j] = f[j]
  BY <1>1, <1>2
<1> QED
  BY <1>3, <1>4, FrontKept

(* The context that i is of: i is its youngest, or fetch goes on as it was. *)
LEMMA YoungestFront ==
  ASSUME NEW f, NEW w, NEW l, NEW s, Shape(f, w, l, s), NEW g, NEW i, Advances(f, g, i),
         i \in Entries(w), f[i].next = None,
         NEW fe, NEW st, NEW re, NEW t, t = f[i].tid,
         g[i].stage \in Undecoded => "GPC_UNKNOWN" \in st[t],
         g[i].stage \in Faulty => "STALL_UNTIL_EMPTY" \in st[t],
         g[i].stage \notin Undecoded /\ ~fe[t].wrong => ~f[i].wrong /\ fe[t].pos = f[i].pos + 1,
         \A j \in Entries(w) : f[j].tid = t /\ f[j].next # None =>
           f[j].stage \notin Undecoded \union Faulty
  PROVE  Front(g, w, fe, st, re, t)
<1>1. Entries(w) = {j \in Instr : Flying(f, j)}
  BY DEF Shape
<1>2. /\ i \in Instr /\ \A j \in Instr \ {i} : g[j] = f[j]
      /\ g[i].tid = f[i].tid /\ g[i].pos = f[i].pos /\ g[i].wrong = f[i].wrong
      /\ g[i].next = f[i].next
  BY DEF Advances, SameLinks
<1>3. \A j \in Entries(w) : Ends(f, w, j)
  BY EndsAre
<1>4. ASSUME NEW j \in Entries(w), g[j].tid = t, j # i
      PROVE  /\ f[j].tid = t /\ g[j] = f[j] /\ f[j].next # None
             /\ f[j].stage \notin Undecoded \union Faulty
  <2>1. f[j].tid = f[i].tid /\ g[j] = f[j]
    BY <1>1, <1>2, <1>4
  <2>2. f[j].next # None
    BY <2>1, <1>3, <1>4 DEF Ends
  <2> QED
    BY <2>1, <2>2
<1>5. \A j \in Entries(w) : g[j].tid = t /\ g[j].stage \in Undecoded =>
        g[j].next = None /\ "GPC_UNKNOWN" \in st[t]
  BY <1>2, <1>4
<1>6. \A j \in Entries(w) : g[j].tid = t /\ g[j].stage \in Faulty =>
        g[j].next = None /\ "STALL_UNTIL_EMPTY" \in st[t]
  BY <1>2, <1>4
<1>7. \A j \in Entries(w) :
        g[j].tid = t /\ g[j].next = None /\ g[j].stage \notin Undecoded /\ ~fe[t].wrong =>
          ~g[j].wrong /\ fe[t].pos = g[j].pos + 1
  BY <1>2, <1>4
<1>8. ~\A j \in Entries(w) : g[j].tid # t
  BY <1>2
<1> QED
  BY <1>5, <1>6, <1>7, <1>8 DEF Front

LEMMA SameFront ==
  ASSUME NEW f, NEW w, NEW l, NEW s, Shape(f, w, l, s), NEW g, NEW i, Advances(f, g, i),
         f[i].stage \notin Undecoded,
         g[i].stage \notin Undecoded \union Faulty,
         NEW fe, NEW st, NEW re, NEW t, Front(f, w, fe, st, re, t),
         NEW fe2, fe2[t] = fe[t], NEW st2, st[t] \subseteq st2[t]
  PROVE  Front(g, w, fe2, st2, re, t)
<1>1. Entries(w) = {j \in Instr : Flying(f, j)}
  BY DEF Shape
<1>2. /\ i \in Instr /\ \A j \in Instr \ {i} : g[j] = f[j]
      /\ g[i].tid = f[i].tid /\ g[i].pos = f[i].pos /\ g[i].wrong = f[i].wrong
      /\ g[i].next = f[i].next
  BY DEF Advances, SameLinks
<1>3. \A j \in Entries(w) :
        /\ g[j].tid = f[j].tid /\ g[j].pos = f[j].pos /\ g[j].wrong = f[j].wrong
        /\ g[j].next = f[j].next
        /\ g[j].stage \in Undecoded <=> f[j].stage \in Undecoded
        /\ g[j].stage \in Faulty =>
             f[j].stage \in Faulty
  BY <1>1, <1>2
<1>4. \A j \in Entries(w) : g[j].tid = t /\ g[j].stage \in Undecoded =>
        g[j].next = None /\ "GPC_UNKNOWN" \in st2[t]
  BY <1>3 DEF Front
<1>5. \A j \in Entries(w) : g[j].tid = t /\ g[j].stage \in Faulty =>
        g[j].next = None /\ "STALL_UNTIL_EMPTY" \in st2[t]
  BY <1>3 DEF Front
<1>6. \A j \in Entries(w) :
        g[j].tid = t /\ g[j].next = None /\ g[j].stage \notin Undecoded /\ ~fe2[t].wrong =>
          ~g[j].wrong /\ fe2[t].pos = g[j].pos + 1
  BY <1>3 DEF Front
<1>7. (\A j \in Entries(w) : g[j].tid # t) /\ ~fe2[t].wrong => fe2[t].pos = re[t] + 1
  BY <1>3 DEF Front
<1> QED
  BY <1>4, <1>5, <1>6, <1>7 DEF Front

(* A step that does nothing to memory, and what has to be seen to of it. *)
LEMMA QuietGood ==
  ASSUME IInv, NEW i, Advances(instr, instr', i), Typed', Shape(instr', iwindow', ldq', stq'),
         UNCHANGED <<iwindow, st_buffer, retired, mem, done>>,
         instr'[i].stage \in {"SAFE", "MEM"} => instr'[i].op.kind # "branch",
         instr'[i].stage = "PROGRESS" => instr'[i].op.kind \in {"load", "unsafe"},
         HasStarted(instr', i) => /\ First(instr, iwindow, i) /\ ~instr[i].wrong
                                  /\ \A j \in Entries(st_buffer) : instr[j].tid # instr[i].tid,
         HasStarted(instr, i) => HasStarted(instr', i),
         instr'[i].stage = "COMMIT" /\ instr'[i].op.kind = "load" <=>
           instr[i].stage = "COMMIT" /\ instr[i].op.kind = "load",
         \A t \in Ctxt : \/ Front(instr', iwindow, fetch', fetch_status', retired, t)
                         \/ /\ ~Flying(instr, i) \/ instr[i].tid # t
                            /\ fetch'[t] = fetch[t] /\ fetch_status[t] \subseteq fetch_status'[t]
  PROVE  Good
<1>1. /\ Shape(instr, iwindow, ldq, stq)
      /\ Followed(instr, iwindow, st_buffer, retired, done)
      /\ \A t \in Ctxt : Front(instr, iwindow, fetch, fetch_status, retired, t)
  BY DEF IInv
<1>2. Followed(instr', iwindow, st_buffer, retired, done)
  BY <1>1, Advanced
<1>3. \A t \in Ctxt : Front(instr', iwindow, fetch', fetch_status', retired, t)
  BY <1>1, StepFronts
<1>4. IInv'
  BY <1>2, <1>3 DEF IInv
<1>5. Kept
  <2>1. \A j \in Instr \ {i} : instr'[j] = instr[j]
    BY DEF Advances
  <2> QED
    BY <2>1 DEF Kept, HasStarted
<1>6. UNCHANGED Memory!vars
  BY DEF Memory!vars
<1> QED
  BY <1>4, <1>5, <1>6 DEF Good
-----------------------------------------------------------------------------
(* The actions that leave window and queues as they are.                   *)
LEMMA GoesTo ==
  ASSUME NEW f \in [Instr -> Fields], NEW i \in Instr, NEW a, NEW g,
         g = [j \in Instr |-> IF j = i THEN g[i] ELSE f[j]],
         g[i].tid = f[i].tid, g[i].pos = f[i].pos, g[i].op = f[i].op,
         g[i].wrong = f[i].wrong, SameLinks(f, g, i),
         g[i].slot = f[i].slot, g[i].lsq_slot = f[i].lsq_slot,
         g[i].outstanding \in {{}, {"EVENTQ"}, {"MEM_HIER"}},
         g[i] \in Fields, g[i].stage = a, a \in Undecoded <=> f[i].stage \in Undecoded,
         \/ Flying(f, i) /\ a \in Before \union PastExecute
         \/ f[i].stage \in InBuffer /\ a \in InBuffer
  PROVE  Goes(f, g, i) /\ Advances(f, g, i) /\ g[i].stage = a
<1>1. g \in [Instr -> Fields] /\ \A j \in Instr \ {i} : g[j] = f[j]
  OBVIOUS
<1>2. /\ Flying(g, i) <=> Flying(f, i)
      /\ g[i].stage \in InBuffer <=> f[i].stage \in InBuffer
  BY DEF Flying, Before, PastExecute, Faulty, Exceptions, SpecExceptions, InBuffer
<1> QED
  BY <1>1, <1>2 DEF Goes, Advances

(* With or without a change of what is outstanding, and of miss. *)
Into(f, i, a) ==
  /\ f \in [Instr -> Fields] /\ i \in Instr
  /\ f[i].outstanding \in {{}, {"EVENTQ"}, {"MEM_HIER"}}
  /\ a \in Before \union PastExecute \union InBuffer
  /\ a \in Undecoded <=> f[i].stage \in Undecoded
  /\ \/ Flying(f, i) /\ a \in Before \union PastExecute
     \/ f[i].stage \in InBuffer /\ a \in InBuffer
Becomes(f, g, i, a) ==
  \E o \in {{}, {"EVENTQ"}, {"MEM_HIER"}} :
    \/ g = [f EXCEPT ![i].stage = a]
    \/ g = [f EXCEPT ![i].stage = a, ![i].outstanding = o]
    \/ g = [f EXCEPT ![i].outstanding = o, ![i].stage = a]
    \/ g = [f EXCEPT ![i].stage = a, ![i].outstanding = o, ![i].miss = FALSE]

LEMMA GoesOut ==
  ASSUME NEW f, NEW i, NEW a, Into(f, i, a), NEW g, Becomes(f, g, i, a)
  PROVE  Goes(f, g, i) /\ Advances(f, g, i) /\ g[i].stage = a
<1>1. /\ i \in Instr /\ f \in [Instr -> Fields] /\ f[i] \in Fields
      /\ f[i].outstanding \in {{}, {"EVENTQ"}, {"MEM_HIER"}}
      /\ a \in Before \union PastExecute \union InBuffer \union {"END"}
  BY DEF Into
<1>2. PICK o \in {{}, {"EVENTQ"}, {"MEM_HIER"}} :
        \/ g = [f EXCEPT ![i].stage = a]
        \/ g = [f EXCEPT ![i].stage = a, ![i].outstanding = o]
        \/ g = [f EXCEPT ![i].outstanding = o, ![i].stage = a]
        \/ g = [f EXCEPT ![i].stage = a, ![i].outstanding = o, ![i].miss = FALSE]
  BY DEF Becomes
<1> DEFINE h == [f EXCEPT ![i].stage = a]
           k == [f EXCEPT ![i].outstanding = o]
           u == [h EXCEPT ![i].outstanding = o]
<1>3. g = h \/ g = u \/ g = [k EXCEPT ![i].stage = a] \/ g = [u EXCEPT ![i].miss = FALSE]
  BY <1>2
<1> DEFINE Ok(x) ==
      /\ x \in [Instr -> Fields] /\ x[i] \in Fields /\ \A j \in Instr \ {i} : x[j] = f[j]
      /\ x[i].tid = f[i].tid /\ x[i].pos = f[i].pos /\ x[i].op = f[i].op
      /\ x[i].wrong = f[i].wrong /\ SameLinks(f, x, i)
      /\ x[i].slot = f[i].slot /\ x[i].lsq_slot = f[i].lsq_slot
      /\ x[i].outstanding \in {{}, {"EVENTQ"}, {"MEM_HIER"}}
<1>4. ASSUME NEW x, Ok(x), NEW y, y = [x EXCEPT ![i].stage = a]
      PROVE  Ok(y) /\ y[i].stage = a
  <2>1. y[i] = [x[i] EXCEPT !.stage = a] /\ \A j \in Instr \ {i} : y[j] = x[j]
    BY <1>1, <1>4
  <2>2. /\ y[i] \in Fields /\ y[i].stage = a
        /\ y[i].tid = x[i].tid /\ y[i].pos = x[i].pos /\ y[i].op = x[i].op
        /\ y[i].wrong = x[i].wrong /\ SameLinks(x, y, i)
        /\ y[i].slot = x[i].slot /\ y[i].lsq_slot = x[i].lsq_slot
        /\ y[i].outstanding = x[i].outstanding
    BY <2>1, <1>1, <1>4 DEF Fields, SameLinks
  <2>3. y \in [Instr -> Fields]
    BY <2>2, <1>4
  <2> QED
    BY <2>1, <2>2, <2>3, <1>4 DEF SameLinks
<1>5. ASSUME NEW x, Ok(x), NEW y, y = [x EXCEPT ![i].outstanding = o]
      PROVE  Ok(y) /\ y[i].stage = x[i].stage
  <2>1. y[i] = [x[i] EXCEPT !.outstanding = o] /\ \A j \in Instr \ {i} : y[j] = x[j]
    BY <1>1, <1>5
  <2>2. o \in SUBSET {"EVENTQ", "MEM_HIER"} /\ x[i] \in Fields
    BY <1>2, <1>5
  <2> HIDE DEF Ok, h, k, u
  <2>3. /\ y[i] \in Fields /\ y[i].stage = x[i].stage
        /\ y[i].tid = x[i].tid /\ y[i].pos = x[i].pos /\ y[i].op = x[i].op
        /\ y[i].wrong = x[i].wrong /\ SameLinks(x, y, i)
        /\ y[i].slot = x[i].slot /\ y[i].lsq_slot = x[i].lsq_slot
        /\ y[i].outstanding = o
    BY <2>1, <2>2 DEF Fields, SameLinks
  <2>4. y \in [Instr -> Fields]
    BY <2>3, <1>5 DEF Ok
  <2> QED
    BY <2>1, <2>3, <2>4, <1>2, <1>5 DEF Ok, SameLinks
<1>6. ASSUME NEW x, Ok(x), NEW y, y = [x EXCEPT ![i].miss = FALSE]
      PROVE  Ok(y) /\ y[i].stage = x[i].stage
  <2>1. y[i] = [x[i] EXCEPT !.miss = FALSE] /\ \A j \in Instr \ {i} : y[j] = x[j]
    BY <1>1, <1>6
  <2>2. x[i] \in Fields /\ FALSE \in BOOLEAN
    BY <1>6
  <2> HIDE DEF Ok, h, k, u
  <2>3. /\ y[i] \in Fields /\ y[i].stage = x[i].stage
        /\ y[i].tid = x[i].tid /\ y[i].pos = x[i].pos /\ y[i].op = x[i].op
        /\ y[i].wrong = x[i].wrong /\ SameLinks(x, y, i)
        /\ y[i].slot = x[i].slot /\ y[i].lsq_slot = x[i].lsq_slot
        /\ y[i].outstanding = x[i].outstanding
    BY ZenonT(40), <2>1, <2>2 DEF Fields, SameLinks
  <2>4. y \in [Instr -> Fields]
    BY <2>3, <1>6 DEF Ok
  <2> QED
    BY <2>1, <2>3, <2>4, <1>6 DEF Ok, SameLinks
<1>7. Ok(f)
  BY <1>1 DEF SameLinks
<1> HIDE DEF Ok
<1>8. Ok(h) /\ h[i].stage = a /\ Ok(k)
  BY <1>4, <1>5, <1>7
<1>9. Ok(u) /\ u[i].stage = a
  BY <1>5, <1>8
<1> HIDE DEF h, k, u
<1>10. Ok(g) /\ g[i].stage = a
  BY <1>3, <1>4, <1>6, <1>8, <1>9
<1>11. g = [j \in Instr |-> IF j = i THEN g[i] ELSE f[j]]
  BY <1>10 DEF Ok
<1> QED
  BY <1>1, <1>10, <1>11, GoesTo DEF Ok, Into

(* What IInv says of one instruction. *)
LEMMA Facts ==
  ASSUME IInv, NEW i \in Instr
  PROVE  /\ instr \in [Instr -> Fields] /\ Calm(instr)
         /\ instr[i].outstanding \in {{}, {"EVENTQ"}, {"MEM_HIER"}}
         /\ Shape(instr, iwindow, ldq, stq) /\ Typed
         /\ Entries(iwindow) = {j \in Instr : Flying(instr, j)}
         /\ Followed(instr, iwindow, st_buffer, retired, done)
         /\ StartedFirst(instr, iwindow) /\ Course(instr, iwindow, retired)
         /\ Buffered(instr, st_buffer, retired)
         /\ DoneTrue(instr, iwindow, st_buffer, retired, done)
         /\ Flying(instr, i) => /\ i \in Entries(iwindow) /\ Ends(instr, iwindow, i)
                                /\ instr[i].tid \in Ctxt /\ instr[i].op \in Ops
         /\ \A t \in Ctxt : Front(instr, iwindow, fetch, fetch_status, retired, t)
<1>1. Shape(instr, iwindow, ldq, stq)
  BY DEF IInv
<1>2. Entries(iwindow) = {j \in Instr : Flying(instr, j)} /\ Calm(instr)
  BY <1>1 DEF Shape
<1>3. Flying(instr, i) => i \in Entries(iwindow) /\ Ends(instr, iwindow, i)
  BY <1>1, <1>2, EndsAre
<1> QED
  BY <1>1, <1>2, <1>3 DEF IInv, Calm, Followed

(* The operations are of the four kinds. *)
LEMMA Kinds ==
  ASSUME NEW op \in Ops
  PROVE  op.kind \in {"branch", "load", "store", "unsafe"} /\ op.addr \in Addr
<1> DEFINE O == [kind : {"branch", "load", "store", "unsafe"}, addr : Addr]
<1>1. Program \in [Ctxt -> Seq(O)] /\ WrongOps \subseteq O
  BY ProgramAssumption
<1>2. CASE op \in WrongOps
  BY <1>1, <1>2
<1>3. CASE op \notin WrongOps
  <2>1. PICK t \in Ctxt : op \in {Program[t][p] : p \in DOMAIN Program[t]}
    BY <1>3 DEF Ops
  <2>2. PICK p \in DOMAIN Program[t] : op = Program[t][p]
    BY <2>1
  <2> HIDE DEF O
  <2>3. Program[t] \in Seq(O)
    BY <1>1
  <2>4. op \in O
    BY <2>2, <2>3
  <2> QED
    BY <2>4 DEF O
<1> QED
  BY <1>2, <1>3

LEMMA RenameGood ==
  ASSUME IInv, NEW i \in Instr, Rename(i) \/ Issue(i) PROVE Good
<1>0. /\ instr \in [Instr -> Fields] /\ Typed /\ Shape(instr, iwindow, ldq, stq)
      /\ instr[i].outstanding \in {{}, {"EVENTQ"}, {"MEM_HIER"}}
      /\ {} \in {{}, {"EVENTQ"}, {"MEM_HIER"}} /\ {"EVENTQ"} \in {{}, {"EVENTQ"}, {"MEM_HIER"}}
      /\ \A t \in Ctxt : Front(instr, iwindow, fetch, fetch_status, retired, t)
  BY Facts
<1>1. Flying(instr, i) /\ instr[i].stage \in {"DECODE", "WAIT"}
  BY DEF Rename, Issue, Flying, Before
<1>2. PICK a \in {"WAIT", "EXECUTE"} :
        /\ Goes(instr, instr', i) /\ Advances(instr, instr', i) /\ instr'[i].stage = a
  <2>1. CASE Rename(i)
    <3>1. Into(instr, i, "WAIT")
      BY <1>0, <1>1 DEF Into, Before, Undecoded
    <3>2. Becomes(instr, instr', i, "WAIT")
      BY <2>1 DEF Rename, Becomes
    <3> QED
      BY <3>1, <3>2, GoesOut
  <2>2. CASE Issue(i)
    <3>1. Into(instr, i, "EXECUTE")
      BY <1>0, <1>1 DEF Into, Before, Undecoded
    <3>2. Becomes(instr, instr', i, "EXECUTE")
      BY <2>2 DEF Issue, Becomes
    <3> QED
      BY <3>1, <3>2, GoesOut
  <2> QED
    BY <2>1, <2>2
<1>3. UNCHANGED <<queues, st_buffer, fetch, fetch_status, ivec, retired, mem, done, traps>>
  BY DEF Rename, Issue
<1>4. Typed'
  BY <1>0, <1>3 DEF Typed
<1>5. Shape(instr', iwindow', ldq', stq')
  BY <1>0, <1>2, <1>3, StepShape DEF queues
<1>6. \A t \in Ctxt : Front(instr', iwindow, fetch', fetch_status', retired, t)
  <2>1. /\ instr[i].stage \notin Undecoded
        /\ instr'[i].stage \notin Undecoded \union Faulty
    BY <1>1, <1>2 DEF Undecoded, Faulty, Exceptions, SpecExceptions
  <2> QED
    BY <2>1, <1>0, <1>2, <1>3, SameFront
<1>7. ~HasStarted(instr', i) /\ ~HasStarted(instr, i)
  BY <1>1, <1>2 DEF HasStarted, AfterAccess
<1> QED
  BY <1>1, <1>2, <1>3, <1>4, <1>5, <1>6, <1>7, QuietGood DEF queues

LEMMA StoreDoneGood ==
  ASSUME IInv, NEW i \in Instr, StoreDone(i) PROVE Good
<1>0. /\ instr \in [Instr -> Fields] /\ Typed /\ Shape(instr, iwindow, ldq, stq)
      /\ instr[i].outstanding \in {{}, {"EVENTQ"}, {"MEM_HIER"}}
      /\ {} \in {{}, {"EVENTQ"}, {"MEM_HIER"}} /\ {"EVENTQ"} \in {{}, {"EVENTQ"}, {"MEM_HIER"}}
      /\ \A t \in Ctxt : Front(instr, iwindow, fetch, fetch_status, retired, t)
  BY Facts
<1>1. ~Flying(instr, i) /\ instr[i].stage = "MEM_HIER"
  BY DEF StoreDone, Flying, Before, PastExecute, Faulty, Exceptions, SpecExceptions
<1>2. Goes(instr, instr', i) /\ Advances(instr, instr', i) /\ instr'[i].stage = "DONE"
  <2>1. Becomes(instr, instr', i, "DONE")
    BY DEF StoreDone, Becomes
  <2>2. Into(instr, i, "DONE")
    BY <1>0, <1>1 DEF Into, InBuffer, Undecoded
  <2> QED
    BY <2>1, <2>2, GoesOut
<1>3. UNCHANGED <<queues, st_buffer, fetch, fetch_status, ivec, retired, mem, done, traps>>
  BY DEF StoreDone
<1>4. Typed'
  BY <1>0, <1>3 DEF Typed
<1>5. Shape(instr', iwindow', ldq', stq')
  BY <1>0, <1>2, <1>3, StepShape DEF queues
<1>6. ~HasStarted(instr', i) /\ ~HasStarted(instr, i)
  BY <1>1, <1>2 DEF HasStarted, AfterAccess
<1> QED
  BY <1>1, <1>2, <1>3, <1>4, <1>5, <1>6, QuietGood DEF queues

LEMMA DeadWakeupGood ==
  ASSUME IInv, NEW i \in Instr, DeadWakeup(i) PROVE Good
<1>0. /\ instr \in [Instr -> Fields] /\ Typed /\ Shape(instr, iwindow, ldq, stq)
      /\ instr[i].outstanding \in {{}, {"EVENTQ"}, {"MEM_HIER"}}
      /\ {} \in {{}, {"EVENTQ"}, {"MEM_HIER"}} /\ {"EVENTQ"} \in {{}, {"EVENTQ"}, {"MEM_HIER"}}
      /\ \A t \in Ctxt : Front(instr, iwindow, fetch, fetch_status, retired, t)
  BY Facts
<1>1. ~Flying(instr, i) /\ instr[i].stage = "END"
  BY DEF DeadWakeup, Flying, Before, PastExecute, Faulty, Exceptions, SpecExceptions
<1>2. instr' = [instr EXCEPT ![i].outstanding = {}] /\ instr[i] \in Fields
  BY <1>0 DEF DeadWakeup
<1>3. /\ instr'[i] = [instr[i] EXCEPT !.outstanding = {}]
      /\ \A j \in Instr \ {i} : instr'[j] = instr[j]
  BY <1>0, <1>2
<1>4. /\ instr'[i] \in Fields
      /\ instr'[i].tid = instr[i].tid /\ instr'[i].pos = instr[i].pos
      /\ instr'[i].op = instr[i].op /\ instr'[i].wrong = instr[i].wrong
      /\ SameLinks(instr, instr', i) /\ instr'[i].stage = instr[i].stage
      /\ instr'[i].slot = instr[i].slot /\ instr'[i].lsq_slot = instr[i].lsq_slot
      /\ instr'[i].outstanding = {}
  BY <1>2, <1>3 DEF Fields, SameLinks
<1>5. instr' \in [Instr -> Fields]
  BY <1>0, <1>2, <1>4
<1>6. Goes(instr, instr', i) /\ Advances(instr, instr', i) /\ instr'[i].stage = "END"
  BY <1>1, <1>3, <1>4, <1>5 DEF Goes, Advances, Flying, Undecoded
<1>7. UNCHANGED <<queues, st_buffer, fetch, fetch_status, ivec, retired, mem, done, traps>>
  BY DEF DeadWakeup
<1>8. Typed'
  BY <1>0, <1>7 DEF Typed
<1>9. Shape(instr', iwindow', ldq', stq')
  BY <1>0, <1>6, <1>7, StepShape DEF queues
<1>10. ~HasStarted(instr', i) /\ ~HasStarted(instr, i)
  BY <1>1, <1>6 DEF HasStarted, AfterAccess
<1> QED
  BY <1>1, <1>6, <1>7, <1>8, <1>9, <1>10, QuietGood DEF queues
-----------------------------------------------------------------------------
(* What takes effect is what the abstract specification has next.          *)
LEMMA NextOp ==
  ASSUME IInv, NEW t \in Ctxt, NEW p \in Memory!MemoryOps(t),
         ~Took(instr, iwindow, st_buffer, retired, t, p),
         \A q \in Memory!MemoryOps(t) : q < p => Took(instr, iwindow, st_buffer, retired, t, q)
  PROVE  Memory!Left(t) # {} /\ Memory!Min(Memory!Left(t)) = p
<1> DEFINE L == Memory!Left(t)
           O == [kind : {"branch", "load", "store", "unsafe"}, addr : Addr]
<1>1. DoneTrue(instr, iwindow, st_buffer, retired, done)
  BY DEF IInv, Followed
<1>2. \A q \in Memory!MemoryOps(t) :
        Has(done[t], q)
          <=> Took(instr, iwindow, st_buffer, retired, t, q)
  BY <1>1 DEF DoneTrue
<1>3. \A q : q \in L <=> q \in Memory!MemoryOps(t)
                         /\ ~Took(instr, iwindow, st_buffer, retired, t, q)
  BY <1>2 DEF Memory!Left, Has
<1>4. Memory!MemoryOps(t) \subseteq Nat
  <2>1. Program \in [Ctxt -> Seq(O)]
    BY ProgramAssumption
  <2> HIDE DEF O
  <2>2. Program[t] \in Seq(O)
    BY <2>1
  <2>3. DOMAIN Program[t] \subseteq Nat
    BY <2>2
  <2> QED
    BY <2>3 DEF Memory!MemoryOps
<1> HIDE DEF L
<1>5. p \in L /\ L \subseteq Nat /\ \A q \in L : p =< q
  BY <1>3, <1>4
<1>6. Memory!Min(L) \in L /\ \A q \in L : Memory!Min(L) =< q
  <2>1. \E x \in L : \A q \in L : x =< q
    BY <1>5
  <2>2. Memory!Min(L) = CHOOSE x \in L : \A q \in L : x =< q
    BY DEF Memory!Min
  <2> QED
    BY <2>1, <2>2
<1>7. Memory!Min(L) = p
  <2> DEFINE m == Memory!Min(L)
  <2>1. m \in L /\ m =< p /\ p =< m
    BY <1>5, <1>6
  <2>2. m \in Nat /\ p \in Nat
    BY <2>1, <1>5
  <2> HIDE DEF m
  <2>3. m = p
    BY <2>1, <2>2
  <2> QED
    BY <2>3 DEF m
<1> QED
  BY <1>5, <1>7 DEF L

(* Effect(t, p): operation p of t takes effect. *)
Effect(t, p) ==
  \/ /\ Program[t][p].kind = "load"
     /\ done' = [done EXCEPT ![t] =
                   Append(@, [pos |-> p, val |-> mem[Program[t][p].addr]])]
     /\ UNCHANGED mem
  \/ /\ Program[t][p].kind # "load"
     /\ mem' = [mem EXCEPT ![Program[t][p].addr] = <<t, p>>]
     /\ done' = [done EXCEPT ![t] = Append(@, [pos |-> p, val |-> <<t, p>>])]

(* Then it is done, and nothing else is. *)
LEMMA EffectDone ==
  ASSUME IInv, NEW t \in Ctxt, NEW p \in DOMAIN Program[t], Effect(t, p)
  PROVE  /\ mem' \in [Addr -> Vals] /\ done' \in [Ctxt -> Seq([pos : Nat, val : Vals])]
         /\ \A c \in Ctxt : \A q :
              Has(done'[c], q) <=>
              Has(done[c], q) \/ (c = t /\ q = p)
<1> DEFINE O == [kind : {"branch", "load", "store", "unsafe"}, addr : Addr]
           R == [pos : Nat, val : Vals]
           a == Program[t][p].addr
<1>1. mem \in [Addr -> Vals] /\ done \in [Ctxt -> Seq(R)]
  BY DEF IInv, Typed
<1>2. Program[t][p] \in O /\ p \in Nat
  <2>1. Program \in [Ctxt -> Seq(O)]
    BY ProgramAssumption
  <2> HIDE DEF O
  <2>2. Program[t] \in Seq(O)
    BY <2>1
  <2> QED
    BY <2>2
<1>3. a \in Addr
  BY <1>2
<1>4. <<t, p>> \in Vals
  BY <1>2 DEF Vals
<1> HIDE DEF a, O
<1>5. PICK v \in Vals : /\ done' = [done EXCEPT ![t] = Append(done[t], [pos |-> p, val |-> v])]
                        /\ mem' = mem \/ mem' = [mem EXCEPT ![a] = v]
  <2>1. CASE Program[t][p].kind = "load"
    <3>1. mem[a] \in Vals
      BY <1>1, <1>3
    <3>2. done' = [done EXCEPT ![t] = Append(done[t], [pos |-> p, val |-> mem[a]])] /\ mem' = mem
      BY <2>1 DEF Effect, a
    <3> QED
      BY <3>1, <3>2
  <2>2. CASE Program[t][p].kind # "load"
    <3>1. /\ done' = [done EXCEPT ![t] = Append(done[t], [pos |-> p, val |-> <<t, p>>])]
          /\ mem' = [mem EXCEPT ![a] = <<t, p>>]
      BY <2>2 DEF Effect, a
    <3> QED
      BY <3>1, <1>4
  <2> QED
    BY <2>1, <2>2
<1>6. mem' \in [Addr -> Vals]
  BY <1>1, <1>3, <1>5
<1> DEFINE r == [pos |-> p, val |-> v]
<1>7. r \in R /\ r.pos = p
  BY <1>2
<1> HIDE DEF r, R
<1>8. done' = [done EXCEPT ![t] = Append(done[t], r)]
  BY <1>5 DEF r
<1>9. done[t] \in Seq(R) /\ Append(done[t], r) \in Seq(R)
  BY <1>1, <1>7
<1>10. done' \in [Ctxt -> Seq(R)]
  BY <1>1, <1>8, <1>9
<1>11. done'[t] = Append(done[t], r) /\ \A c \in Ctxt \ {t} : done'[c] = done[c]
  BY <1>1, <1>8
<1>12. \A q : Has(Append(done[t], r), q) <=>
              Has(done[t], q) \/ q = p
  <2> DEFINE n == Len(done[t])
             s == Append(done[t], r)
  <2>1. n \in Nat /\ DOMAIN done[t] = 1 .. n /\ DOMAIN s = 1 .. n + 1
        /\ s[n + 1] = r /\ \A k \in 1 .. n : s[k] = done[t][k]
    BY <1>9
  <2> HIDE DEF n, s
  <2>2. \A k \in 1 .. n + 1 : k \in 1 .. n \/ k = n + 1
    BY <2>1
  <2>3. n + 1 \in 1 .. n + 1 /\ \A k \in 1 .. n : k \in 1 .. n + 1
    BY <2>1
  <2>4. \A q : Has(s, q) <=>
               Has(done[t], q) \/ q = p
    BY <2>1, <2>2, <2>3, <1>7 DEF Has
  <2> QED
    BY <2>4 DEF s
<1>13. \A c \in Ctxt : \A q :
         Has(done'[c], q) <=>
         Has(done[c], q) \/ (c = t /\ q = p)
  <2> TAKE c \in Ctxt
  <2> TAKE q
  <2>1. CASE c = t
    BY <2>1, <1>11, <1>12
  <2>2. CASE c # t
    BY <2>2, <1>11
  <2> QED
    BY <2>1, <2>2
<1> QED
  BY <1>6, <1>10, <1>13 DEF R

(* The operations that took effect, by what the core holds afterwards. *)
Adds(g, w, b, re, t, p) ==
  \A c \in Ctxt : \A q \in Memory!MemoryOps(c) :
    Took(g, w, b, re, c, q) <=> Took(instr, iwindow, st_buffer, retired, c, q)
                                \/ (c = t /\ q = p)
TakesEffect(t, p) ==
  /\ t \in Ctxt /\ p \in Memory!MemoryOps(t) /\ Effect(t, p)
  /\ ~Took(instr, iwindow, st_buffer, retired, t, p)
  /\ \A q \in Memory!MemoryOps(t) : q < p => Took(instr, iwindow, st_buffer, retired, t, q)

(* A step at which operation p of t takes effect implements the abstract   *)
(* one, and keeps what is said of done.                                    *)
LEMMA EffectGood ==
  ASSUME IInv, NEW t, NEW p, TakesEffect(t, p),
         NEW g, NEW w, NEW b, NEW re, Adds(g, w, b, re, t, p)
  PROVE  /\ DoneTrue(g, w, b, re, done') /\ Memory!Next
         /\ mem' \in [Addr -> Vals] /\ done' \in [Ctxt -> Seq([pos : Nat, val : Vals])]
<1>1. /\ t \in Ctxt /\ p \in Memory!MemoryOps(t) /\ p \in DOMAIN Program[t] /\ Effect(t, p)
      /\ ~Took(instr, iwindow, st_buffer, retired, t, p)
      /\ \A q \in Memory!MemoryOps(t) : q < p => Took(instr, iwindow, st_buffer, retired, t, q)
  BY DEF TakesEffect, Memory!MemoryOps
<1>2. /\ mem' \in [Addr -> Vals] /\ done' \in [Ctxt -> Seq([pos : Nat, val : Vals])]
      /\ \A c \in Ctxt : \A q :
           Has(done'[c], q) <=>
           Has(done[c], q) \/ (c = t /\ q = p)
  BY <1>1, EffectDone
<1>3. DoneTrue(instr, iwindow, st_buffer, retired, done)
  BY DEF IInv, Followed
<1>4. DoneTrue(g, w, b, re, done')
  <2>1. \A c \in Ctxt : \A q \in Memory!MemoryOps(c) :
          Has(done[c], q)
            <=> Took(instr, iwindow, st_buffer, retired, c, q)
    BY <1>3 DEF DoneTrue
  <2>2. \A c \in Ctxt : \A q \in Memory!MemoryOps(c) :
          Has(done'[c], q) <=> Took(g, w, b, re, c, q)
    BY <2>1, <1>2 DEF Adds
  <2> QED
    BY <2>2 DEF DoneTrue
<1>5. Memory!Left(t) # {} /\ Memory!Min(Memory!Left(t)) = p
  BY <1>1, NextOp
<1>6. Memory!Load(t, p) \/ Memory!Store(t, p)
  BY <1>1 DEF Effect, Memory!Load, Memory!Store
<1>7. Memory!Next
  BY SMTT(30), <1>1, <1>5, <1>6 DEF Memory!Next
<1> QED
  BY <1>2, <1>4, <1>7

(* The oldest instruction of a context, on the right path, is the next     *)
(* that the program has, and everything before it took effect unless it    *)
(* is in the store buffer.                                                 *)
LEMMA OldestNext ==
  ASSUME IInv, NEW i \in Entries(iwindow), First(instr, iwindow, i), ~instr[i].wrong
  PROVE  LET t == instr[i].tid
             p == instr[i].pos
         IN /\ t \in Ctxt /\ p \in DOMAIN Program[t] /\ instr[i].op = Program[t][p]
            /\ retired[t] \in Nat /\ p = retired[t] + 1
            /\ \A q \in Memory!MemoryOps(t) : q \in Nat /\ (q < p => q <= retired[t])
            /\ \A q : Took(instr, iwindow, st_buffer, retired, t, q) /\ ~(q <= retired[t]) =>
                        q = p /\ instr[i].op.kind = "load" /\ instr[i].stage = "COMMIT"
<1> DEFINE t == instr[i].tid
           p == instr[i].pos
           O == [kind : {"branch", "load", "store", "unsafe"}, addr : Addr]
<1>1. i \in Instr /\ Flying(instr, i)
  BY DEF IInv, Shape
<1>2. /\ Course(instr, iwindow, retired) /\ StartedFirst(instr, iwindow) /\ Typed
      /\ Ends(instr, iwindow, i) /\ t \in Ctxt
      /\ Entries(iwindow) = {j \in Instr : Flying(instr, j)}
  BY <1>1, Facts
<1>3. instr[i].prev = None
  BY <1>2 DEF Ends
<1>4. p \in DOMAIN Program[t] /\ instr[i].op = Program[t][p] /\ p = retired[t] + 1
  BY <1>2, <1>3 DEF Course
<1>5. retired[t] \in Nat
  BY <1>2 DEF Typed
<1>6. \A q \in Memory!MemoryOps(t) : q \in Nat
  <2>1. Program \in [Ctxt -> Seq(O)]
    BY ProgramAssumption
  <2> HIDE DEF O
  <2>2. Program[t] \in Seq(O)
    BY <1>2, <2>1
  <2>3. DOMAIN Program[t] \subseteq Nat
    BY <2>2
  <2> QED
    BY <2>3 DEF Memory!MemoryOps
<1>7. ASSUME NEW q, Took(instr, iwindow, st_buffer, retired, t, q), ~(q <= retired[t])
      PROVE  q = p /\ instr[i].op.kind = "load" /\ instr[i].stage = "COMMIT"
  <2>1. PICK j \in Entries(iwindow) : /\ instr[j].tid = t /\ instr[j].pos = q
                                      /\ instr[j].op.kind = "load" /\ instr[j].stage = "COMMIT"
    BY <1>7 DEF Took
  <2>2. First(instr, iwindow, j)
    BY <2>1, <1>2 DEF StartedFirst, HasStarted, AfterAccess
  <2>3. i = j
    BY <2>1, <2>2, <1>2 DEF Ends
  <2> QED
    BY <2>1, <2>3
<1>8. \A q \in Memory!MemoryOps(t) : q < p => q <= retired[t]
  BY <1>4, <1>5, <1>6
<1> QED
  BY <1>2, <1>4, <1>5, <1>6, <1>7, <1>8
-----------------------------------------------------------------------------
(* More actions that leave instructions in their places.                   *)
LEMMA SuccessorIs ==
  ASSUME NEW f, NEW i, f[i] \in Fields
  PROVE  /\ Successor(f, i) \in [pos : Nat, wrong : BOOLEAN]
         /\ ~Successor(f, i).wrong => ~f[i].wrong /\ Successor(f, i).pos = f[i].pos + 1
BY DEF Fields, Successor, WrongPath

LEMMA InPlace ==
  ASSUME IInv, NEW i \in Instr
  PROVE  /\ instr \in [Instr -> Fields] /\ Typed /\ Shape(instr, iwindow, ldq, stq)
         /\ instr[i].outstanding \in {{}, {"EVENTQ"}, {"MEM_HIER"}}
         /\ \A t \in Ctxt : Front(instr, iwindow, fetch, fetch_status, retired, t)
         /\ Flying(instr, i) =>
              /\ i \in Entries(iwindow) /\ instr[i].tid \in Ctxt
              /\ instr[i].op.kind \in {"branch", "load", "store", "unsafe"}
              /\ \A j \in Entries(iwindow) : instr[j].tid = instr[i].tid /\ instr[j].next # None =>
                   instr[j].stage \notin Undecoded \union Faulty
BY Facts, Kinds DEF Front
-----------------------------------------------------------------------------
(* kill_all(): what is left follows the program, fetch follows what is     *)
(* left, and nothing that started is killed: the first victim is not what  *)
(* started, and the others are not their context's oldest.                 *)
Squashes(f, i, status) ==
  /\ i \in Entries(iwindow) /\ kill_all(i, f, status) /\ ~HasStarted(f, i)
  /\ Shape(f, iwindow, ldq, stq) /\ Followed(f, iwindow, st_buffer, retired, done)
  /\ status \in
       [Ctxt -> SUBSET {"GPC_UNKNOWN", "STALL_UNTIL_EMPTY", "LDQ_FULL", "STQ_FULL"}]
  /\ UNCHANGED <<st_buffer, ivec, retired, mem, done>> /\ traps' \in 0 .. MaxTraps
  /\ \A t \in Ctxt \ {f[i].tid} : Front(f, iwindow, fetch, status, retired, t)
  /\ \A j \in Entries(iwindow) : f[j].tid = f[i].tid =>
       /\ f[j].stage \in Undecoded => f[j].next = None
       /\ f[j].stage \in Faulty =>
            f[j].next = None \/ (f[j].next = i /\ "STALL_UNTIL_EMPTY" \in status[f[i].tid])
  /\ \A j \in Instr : HasStarted(instr, j) => HasStarted(f, j)

(* The instructions that remain. *)
Remains(f, i) ==
  \A j \in Entries(iwindow') :
    /\ j \in Instr /\ j \in Entries(iwindow) /\ j \notin Victims(f, iwindow, i)
    /\ Same(f, instr', j) /\ instr'[j].prev = f[j].prev
    /\ f[j].prev \notin Victims(f, iwindow, i)
    /\ instr'[j].next = IF f[j].next \in Victims(f, iwindow, i) THEN None ELSE f[j].next
    /\ f[j].next \in Victims(f, iwindow, i) => f[j].tid = f[i].tid
    /\ First(f, iwindow, j) => First(instr', iwindow', j)

LEMMA WhatRemains ==
  ASSUME NEW f, NEW i, NEW status, Squashes(f, i, status)
  PROVE  /\ Killed(f, i) /\ Remains(f, i)
         /\ \A j \in Instr : HasStarted(f, j) =>
              j \in Entries(iwindow) /\ j \notin Victims(f, iwindow, i) /\ HasStarted(instr', j)
<1> DEFINE w == iwindow
           gone == Victims(f, w, i)
<1>1. /\ i \in Entries(w) /\ Shape(f, w, ldq, stq) /\ StartedFirst(f, w) /\ ~HasStarted(f, i)
      /\ Entries(w) = {j \in Instr : Flying(f, j)}
      /\ Sound(Instr, window_size, w) /\ window_size \in Nat \ {0} /\ None \notin Instr
  BY SizeAssumption, InstrAssumption DEF Squashes, Followed, Shape
<1>2. Killed(f, i)
  BY KillAll DEF Squashes
<1>3. /\ gone \in SUBSET Entries(w) /\ i \in gone
      /\ \A j \in Entries(w), k \in gone : f[j].tid = f[k].tid /\ Older(w, k, j) => j \in gone
  BY <1>1, VictimsOuter
<1>4. \A j \in gone : f[j].tid = f[i].tid /\ (j = i \/ Older(w, i, j))
  BY DEF Victims, From
<1>5. /\ Unlinks(f, instr', gone) /\ Entries(iwindow') = Entries(w) \ gone
      /\ \A a, b \in Entries(iwindow') : Older(iwindow', a, b) <=> Older(w, a, b)
  BY <1>2 DEF Killed
<1> HIDE DEF gone
<1>6. \A j \in Entries(w) : Ends(f, w, j) /\ j # None
  BY <1>1, EndsAre
<1>7. ASSUME NEW j \in Entries(iwindow')
      PROVE  /\ j \in Instr /\ j \in Entries(w) /\ j \notin gone
             /\ Same(f, instr', j) /\ instr'[j].prev = f[j].prev /\ f[j].prev \notin gone
             /\ instr'[j].next = IF f[j].next \in gone THEN None ELSE f[j].next
             /\ f[j].next \in gone => f[j].tid = f[i].tid
             /\ First(f, w, j) => First(instr', iwindow', j)
  <2>1. j \in Instr /\ j \in Entries(w) /\ j \notin gone
    BY <1>1, <1>5
  <2>2. /\ Same(f, instr', j)
        /\ instr'[j].prev = IF f[j].prev \in gone THEN None ELSE f[j].prev
        /\ instr'[j].next = IF f[j].next \in gone THEN None ELSE f[j].next
    BY <2>1, <1>5 DEF Unlinks
  <2>3. f[j].prev \notin gone
    <3>1. SUFFICES ASSUME f[j].prev \in gone PROVE FALSE
      OBVIOUS
    <3>2. f[j].prev # None
      BY <3>1, <1>3, <1>6
    <3>3. Behind(f, w, f[j].prev, j)
      BY <3>2, <2>1, <1>6 DEF Ends
    <3> QED
      BY <3>1, <3>3, <2>1, <1>3 DEF Behind
  <2>4. ASSUME f[j].next \in gone PROVE f[j].tid = f[i].tid
    <3>1. f[j].next # None
      BY <2>4, <1>3, <1>6
    <3>2. Behind(f, w, j, f[j].next)
      BY <3>1, <2>1, <1>6 DEF Ends
    <3> QED
      BY <3>2, <2>4, <1>4 DEF Behind
  <2>5. \A k \in Entries(iwindow') : instr'[k].tid = f[k].tid /\ k \in Entries(w)
    BY <1>1, <1>5 DEF Unlinks, Same
  <2>6. First(f, w, j) => First(instr', iwindow', j)
    BY <2>5, <1>5 DEF First
  <2> QED
    BY <2>1, <2>2, <2>3, <2>4, <2>6
<1>8. Remains(f, i)
  BY <1>7 DEF Remains, gone
<1>9. ASSUME NEW j \in Instr, HasStarted(f, j)
      PROVE  j \in Entries(w) /\ j \notin gone /\ HasStarted(instr', j)
  <2>1. j \in Entries(w)
    BY <1>1, <1>9 DEF HasStarted, Flying, PastExecute, Faulty, Exceptions, SpecExceptions, AfterAccess
  <2>2. First(f, w, j)
    BY <2>1, <1>1, <1>9 DEF StartedFirst
  <2>3. j \notin gone
    BY <2>1, <2>2, <1>1, <1>4, <1>9 DEF First
  <2>4. Same(f, instr', j)
    BY <2>3, <1>5 DEF Unlinks
  <2> QED
    BY <2>1, <2>3, <2>4, <1>9 DEF Same, HasStarted
<1> QED
  BY <1>2, <1>8, <1>9 DEF gone

LEMMA KillFollowed ==
  ASSUME IInv, NEW f, NEW i, NEW status, Squashes(f, i, status)
  PROVE  Followed(instr', iwindow', st_buffer, retired, done)
<1> DEFINE w == iwindow
           gone == Victims(f, w, i)
<1>1. /\ StartedFirst(f, w) /\ Course(f, w, retired) /\ Buffered(f, st_buffer, retired)
      /\ DoneTrue(f, w, st_buffer, retired, done)
      /\ Entries(w) = {j \in Instr : Flying(f, j)} /\ i \in Entries(w) /\ Links(f, w)
  BY DEF Squashes, Followed, Shape
<1>2. /\ Killed(f, i) /\ Remains(f, i)
      /\ \A j \in Instr : HasStarted(f, j) =>
           j \in Entries(w) /\ j \notin gone /\ HasStarted(instr', j)
  BY WhatRemains
<1>3. /\ Unlinks(f, instr', gone) /\ Entries(iwindow') = Entries(w) \ gone
      /\ \A j \in gone : instr'[j].stage = "END"
      /\ Entries(iwindow') = {j \in Instr : Flying(instr', j)}
  BY <1>2 DEF Killed, Shape
<1>4. gone \in SUBSET Entries(w)
  BY <1>1, VictimsOuter DEF Squashes
<1> HIDE DEF gone
<1>5. ASSUME NEW j \in Entries(iwindow')
      PROVE  /\ j \in Instr /\ j \in Entries(w) /\ j \notin gone
             /\ instr'[j].tid = f[j].tid /\ instr'[j].pos = f[j].pos /\ instr'[j].op = f[j].op
             /\ instr'[j].wrong = f[j].wrong /\ instr'[j].stage = f[j].stage
             /\ instr'[j].prev = f[j].prev /\ f[j].prev \notin gone
             /\ First(f, w, j) => First(instr', iwindow', j)
  BY <1>2 DEF Remains, Same, gone
<1>6. \A j \in Instr \ gone :
        /\ instr'[j].tid = f[j].tid /\ instr'[j].pos = f[j].pos /\ instr'[j].op = f[j].op
        /\ instr'[j].wrong = f[j].wrong /\ instr'[j].stage = f[j].stage
  BY <1>3 DEF Unlinks, Same
<1>7. StartedFirst(instr', iwindow')
  BY <1>1, <1>5 DEF StartedFirst, HasStarted
<1>8. Course(instr', iwindow', retired)
  <2> SUFFICES ASSUME NEW j \in Entries(iwindow'), ~instr'[j].wrong
               PROVE  /\ instr'[j].pos \in DOMAIN Program[instr'[j].tid]
                      /\ instr'[j].op = Program[instr'[j].tid][instr'[j].pos]
                      /\ IF instr'[j].prev = None THEN instr'[j].pos = retired[instr'[j].tid] + 1
                         ELSE /\ ~instr'[instr'[j].prev].wrong
                              /\ instr'[j].pos = instr'[instr'[j].prev].pos + 1
    BY DEF Course
  <2>1. /\ f[j].pos \in DOMAIN Program[f[j].tid]
        /\ f[j].op = Program[f[j].tid][f[j].pos]
        /\ IF f[j].prev = None THEN f[j].pos = retired[f[j].tid] + 1
           ELSE ~f[f[j].prev].wrong /\ f[j].pos = f[f[j].prev].pos + 1
    BY <1>1, <1>5 DEF Course
  <2>2. f[j].prev # None => f[j].prev \in Instr \ gone
    BY <1>1, <1>5 DEF Links, Behind
  <2> QED
    BY <2>1, <2>2, <1>5, <1>6
<1>9. Buffered(instr', st_buffer, retired)
  <2>1. /\ Sound(Instr, stbuf_size, st_buffer)
        /\ Entries(st_buffer) = {j \in Instr : f[j].stage \in InBuffer}
        /\ \A j \in Entries(st_buffer) :
             /\ f[j].tid \in Ctxt /\ f[j].pos \in DOMAIN Program[f[j].tid]
             /\ f[j].pos <= retired[f[j].tid]
             /\ f[j].op = Program[f[j].tid][f[j].pos] /\ f[j].op.kind = "store"
        /\ \A j, k \in Entries(st_buffer) :
             f[j].tid = f[k].tid /\ Older(st_buffer, j, k) => f[j].pos < f[k].pos
        /\ \A j \in Instr : HasStarted(f, j) =>
             \A k \in Entries(st_buffer) : f[k].tid # f[j].tid
    BY <1>1 DEF Buffered
  <2>2. \A j \in gone : f[j].stage \notin InBuffer /\ instr'[j].stage \notin InBuffer
    BY <1>1, <1>3, <1>4 DEF Flying, Before, PastExecute, Faulty, Exceptions, SpecExceptions, InBuffer
  <2>3. Entries(st_buffer) = {j \in Instr : instr'[j].stage \in InBuffer}
    BY <2>1, <2>2, <1>6
  <2>4. \A j \in Entries(st_buffer) : j \in Instr \ gone
    BY <2>1, <2>2
  <2>5. \A j \in Entries(st_buffer) :
          /\ instr'[j].tid \in Ctxt /\ instr'[j].pos \in DOMAIN Program[instr'[j].tid]
          /\ instr'[j].pos <= retired[instr'[j].tid]
          /\ instr'[j].op = Program[instr'[j].tid][instr'[j].pos] /\ instr'[j].op.kind = "store"
    BY <2>1, <2>4, <1>6
  <2>6. \A j, k \in Entries(st_buffer) :
          instr'[j].tid = instr'[k].tid /\ Older(st_buffer, j, k) => instr'[j].pos < instr'[k].pos
    BY <2>1, <2>4, <1>6
  <2>7. \A j \in Instr : HasStarted(instr', j) => j \notin gone /\ HasStarted(f, j)
    BY <1>3, <1>6 DEF HasStarted, AfterAccess
  <2>8. \A j \in Instr : HasStarted(instr', j) =>
          \A k \in Entries(st_buffer) : instr'[k].tid # instr'[j].tid
    BY <2>1, <2>4, <2>7, <1>6
  <2> QED
    BY <2>1, <2>3, <2>5, <2>6, <2>8 DEF Buffered
<1>10. DoneTrue(instr', iwindow', st_buffer, retired, done)
  <2>1. ASSUME NEW t, NEW p
        PROVE  Took(instr', iwindow', st_buffer, retired, t, p)
                 <=> Took(f, w, st_buffer, retired, t, p)
    <3>1. \A j \in Entries(st_buffer) : instr'[j].tid = f[j].tid /\ instr'[j].pos = f[j].pos
      <4>1. \A j \in Entries(st_buffer) : j \in Instr /\ f[j].stage \in InBuffer
        BY <1>1 DEF Buffered
      <4>2. \A j \in gone : f[j].stage \notin InBuffer
        BY <1>1, <1>4 DEF Flying, Before, PastExecute, Faulty, Exceptions, SpecExceptions, InBuffer
      <4> QED
        BY <4>1, <4>2, <1>6
    <3>2. \A j \in Entries(w) : f[j].op.kind = "load" /\ f[j].stage = "COMMIT" =>
            j \in Entries(iwindow')
      BY <1>1, <1>2, <1>3 DEF HasStarted, gone, AfterAccess
    <3>3. (\E j \in Entries(iwindow') : /\ instr'[j].tid = t /\ instr'[j].pos = p
                                        /\ instr'[j].op.kind = "load" /\ instr'[j].stage = "COMMIT")
          <=> \E j \in Entries(w) : /\ f[j].tid = t /\ f[j].pos = p
                                    /\ f[j].op.kind = "load" /\ f[j].stage = "COMMIT"
      BY <3>2, <1>5
    <3> QED
      BY <3>1, <3>3 DEF Took
  <2> QED
    BY <2>1, <1>1 DEF DoneTrue
<1> QED
  BY <1>7, <1>8, <1>9, <1>10 DEF Followed

LEMMA KillFront ==
  ASSUME IInv, NEW f, NEW i, NEW status, Squashes(f, i, status), NEW t \in Ctxt
  PROVE  Front(instr', iwindow', fetch', fetch_status', retired, t)
<1> DEFINE w == iwindow
           gone == Victims(f, w, i)
           p == f[i].prev
           g == instr'
           w2 == iwindow'
<1>1. /\ Shape(f, w, ldq, stq) /\ Calm(f) /\ i \in Entries(w)
      /\ Entries(w) = {j \in Instr : Flying(f, j)} /\ None \notin Instr
      /\ f \in [Instr -> Fields] /\ f[i].tid \in Ctxt
  BY InstrAssumption DEF Squashes, Shape, Calm
<1>2. Remains(f, i) /\ Killed(f, i)
  BY WhatRemains
<1>3. Entries(w2) = Entries(w) \ gone
  BY <1>2 DEF Killed
<1>4. i \in gone /\ \A j \in gone : f[j].tid = f[i].tid /\ (j = i \/ Older(w, i, j))
  BY DEF Victims, From
<1>5. Ends(f, w, i)
  BY SMTT(30), <1>1, EndsAre
<1>6. /\ fetch' = [fetch EXCEPT ![f[i].tid] = fix_spec_state(f, f[i].tid, p)]
      /\ fetch_status' = [status EXCEPT ![f[i].tid] = status[f[i].tid] \ {"GPC_UNKNOWN"}]
      /\ fetch \in [Ctxt -> [pos : Nat, wrong : BOOLEAN]]
      /\ status \in [Ctxt -> SUBSET {"GPC_UNKNOWN", "STALL_UNTIL_EMPTY", "LDQ_FULL", "STQ_FULL"}]
  BY DEF Squashes, kill_all, IInv, Typed
<1>7. ASSUME NEW j \in Entries(w2)
      PROVE  /\ j \in Instr /\ j \in Entries(w) /\ j \notin gone
             /\ g[j].tid = f[j].tid /\ g[j].pos = f[j].pos /\ g[j].wrong = f[j].wrong
             /\ g[j].stage = f[j].stage
             /\ g[j].next = IF f[j].next \in gone THEN None ELSE f[j].next
             /\ f[j].next \in gone => f[j].tid = f[i].tid
  BY <1>2 DEF Remains, Same
<1> HIDE DEF gone, w, g, w2, p
<1>8. CASE t # f[i].tid
  <2>1. Front(f, w, fetch, status, retired, t)
    BY <1>8 DEF Squashes, w
  <2>2. \A j : j \in Entries(w2) /\ g[j].tid = t <=> j \in Entries(w) /\ f[j].tid = t
    BY <1>3, <1>4, <1>7, <1>8
  <2>3. \A j \in Entries(w) : f[j].tid = t =>
          /\ g[j].pos = f[j].pos /\ g[j].wrong = f[j].wrong /\ g[j].stage = f[j].stage
          /\ g[j].next = f[j].next
    BY <2>2, <1>7, <1>8
  <2>4. fetch'[t] = fetch[t] /\ fetch_status'[t] = status[t]
    BY <1>6, <1>8
  <2> QED
    BY <2>1, <2>2, <2>3, <2>4, FrontKept DEF g, w2
<1>9. CASE t = f[i].tid
  <2>1. /\ fetch'[t] = IF p = None THEN Committed(t) ELSE Successor(f, p)
        /\ fetch_status'[t] = status[t] \ {"GPC_UNKNOWN"}
    BY <1>1, <1>6, <1>9 DEF fix_spec_state
  <2>2. \A j \in Entries(w) : f[j].tid = t =>
          /\ f[j].stage \in Undecoded => f[j].next = None
          /\ f[j].stage \in Faulty =>
               f[j].next = None \/ (f[j].next = i /\ "STALL_UNTIL_EMPTY" \in status[t])
    BY <1>9 DEF Squashes, w
  <2>3. Lined(w)
    BY <1>1, SizeAssumption, InLine DEF Shape, Sound
  <2>4. ASSUME NEW j \in Entries(w2), g[j].tid = t
        PROVE  f[j].next # None /\ p # None /\ (g[j].next = None => j = p)
    <3>1. j \in Entries(w) /\ f[j].tid = f[i].tid /\ j \notin gone /\ j # i
      BY <2>4, <1>4, <1>7, <1>9
    <3>2. ~Older(w, i, j)
      BY <3>1 DEF gone, Victims, From
    <3>3. Older(w, j, i)
      BY <3>1, <3>2, <2>3, <1>1 DEF Lined, w
    <3>4. Ends(f, w, j)
      BY <3>1, <1>1, EndsAre DEF w
    <3>5. f[j].next # None
      BY <3>1, <3>3, <3>4, <1>1 DEF Ends, Last, w
    <3>6. p # None
      BY <3>1, <3>3, <1>5 DEF Ends, First, p, w
    <3>7. ASSUME g[j].next = None PROVE j = p
      <4>1. f[j].next \in gone
        BY <3>5, <3>7, <1>7
      <4>2. f[j].next = i \/ Older(w, i, f[j].next)
        BY <4>1, <1>4
      <4>3. Behind(f, w, j, f[j].next)
        BY <3>4, <3>5 DEF Ends
      <4>4. f[j].next = i
        BY <4>2, <4>3, <3>1, <3>3, <1>1 DEF Behind, w
      <4>5. Behind(f, w, j, i)
        BY <4>3, <4>4
      <4>6. Behind(f, w, p, i)
        BY <3>6, <1>5 DEF Ends, p, w
      <4>7. p \in Entries(w) /\ f[p].tid = f[j].tid /\ Older(w, p, i) /\ Older(w, j, i)
        BY <4>5, <4>6 DEF Behind
      <4>8. ~Older(w, p, j) /\ ~Older(w, j, p)
        BY <4>5, <4>6, <4>7, <3>1 DEF Behind
      <4> QED
        BY <4>7, <4>8, <3>1, <2>3 DEF Lined
    <3> QED
      BY <3>5, <3>6, <3>7
  <2>5. \A j \in Entries(w2) : g[j].tid = t /\ g[j].stage \in Undecoded =>
          g[j].next = None /\ "GPC_UNKNOWN" \in fetch_status'[t]
    BY <2>2, <2>4, <1>7
  <2>6. \A j \in Entries(w2) : g[j].tid = t /\ g[j].stage \in Faulty =>
          g[j].next = None /\ "STALL_UNTIL_EMPTY" \in fetch_status'[t]
    BY <2>1, <2>2, <2>4, <1>4, <1>7
  <2>7. \A j \in Entries(w2) :
          g[j].tid = t /\ g[j].next = None /\ g[j].stage \notin Undecoded /\ ~fetch'[t].wrong =>
            ~g[j].wrong /\ fetch'[t].pos = g[j].pos + 1
    <3> SUFFICES ASSUME NEW j \in Entries(w2), g[j].tid = t, g[j].next = None, ~fetch'[t].wrong
                 PROVE  ~g[j].wrong /\ fetch'[t].pos = g[j].pos + 1
      OBVIOUS
    <3>1. j = p /\ p # None /\ j \in Instr
      BY <2>4, <1>7
    <3>2. fetch'[t] = Successor(f, j) /\ f[j] \in Fields
      BY <3>1, <2>1, <1>1
    <3>3. ~f[j].wrong /\ Successor(f, j).pos = f[j].pos + 1
      BY <3>2, SuccessorIs
    <3> QED
      BY <3>2, <3>3, <1>7
  <2>8. ASSUME \A j \in Entries(w2) : g[j].tid # t PROVE fetch'[t].pos = retired[t] + 1
    <3>1. p = None
      <4>1. SUFFICES ASSUME p # None PROVE FALSE
        OBVIOUS
      <4>2. Behind(f, w, p, i)
        BY <4>1, <1>5 DEF Ends, p, w
      <4>3. p \in Entries(w) /\ f[p].tid = t /\ Older(w, p, i)
        BY <4>2, <1>9 DEF Behind
      <4>4. p \notin gone
        BY <4>3, <2>3, <1>4 DEF Lined
      <4> QED
        BY <4>3, <4>4, <2>8, <1>3, <1>7
    <3> QED
      BY <3>1, <2>1 DEF Committed
  <2> QED
    BY <2>5, <2>6, <2>7, <2>8 DEF Front, g, w2
<1> QED
  BY <1>8, <1>9

LEMMA KillGood ==
  ASSUME IInv, NEW f, NEW i, NEW status, Squashes(f, i, status) PROVE Good
<1>1. UNCHANGED <<st_buffer, ivec, retired, mem, done>> /\ traps' \in 0 .. MaxTraps
  BY DEF Squashes
<1>2. /\ Killed(f, i)
      /\ \A j \in Instr : HasStarted(f, j) => HasStarted(instr', j)
      /\ \A j \in Instr : HasStarted(instr, j) => HasStarted(f, j)
  BY WhatRemains DEF Squashes
<1>3. Typed'
  <2>1. Typed /\ f \in [Instr -> Fields] /\ Shape(f, iwindow, ldq, stq) /\ i \in Entries(iwindow)
        /\ f[i].tid \in Ctxt /\ None \notin Instr
    BY InstrAssumption DEF IInv, Squashes, Shape, Calm
  <2>2. /\ fetch' = [fetch EXCEPT ![f[i].tid] = fix_spec_state(f, f[i].tid, f[i].prev)]
        /\ fetch_status' = [status EXCEPT ![f[i].tid] = status[f[i].tid] \ {"GPC_UNKNOWN"}]
        /\ status \in [Ctxt -> SUBSET {"GPC_UNKNOWN", "STALL_UNTIL_EMPTY", "LDQ_FULL", "STQ_FULL"}]
    BY DEF Squashes, kill_all
  <2>3. fix_spec_state(f, f[i].tid, f[i].prev) \in [pos : Nat, wrong : BOOLEAN]
    <3>1. CASE f[i].prev = None
      <4>1. retired[f[i].tid] \in Nat
        BY <2>1 DEF Typed
      <4> QED
        BY <3>1, <4>1 DEF fix_spec_state, Committed
    <3>2. CASE f[i].prev # None
      <4>1. Ends(f, iwindow, i) /\ Entries(iwindow) \subseteq Instr
        BY <2>1, EndsAre DEF Shape
      <4>2. f[i].prev \in Instr
        BY <3>2, <4>1 DEF Ends, Behind
      <4>3. f[f[i].prev] \in Fields
        BY <4>2, <2>1
      <4> QED
        BY <3>2, <4>3, SuccessorIs DEF fix_spec_state
    <3> QED
      BY <3>1, <3>2
  <2>4. fetch' \in [Ctxt -> [pos : Nat, wrong : BOOLEAN]]
    BY <2>1, <2>2, <2>3 DEF Typed
  <2>5. fetch_status' \in
          [Ctxt -> SUBSET {"GPC_UNKNOWN", "STALL_UNTIL_EMPTY", "LDQ_FULL", "STQ_FULL"}]
    BY <2>1, <2>2
  <2> QED
    BY <2>1, <2>4, <2>5, <1>1 DEF Typed
<1>4. Shape(instr', iwindow', ldq', stq')
  BY <1>2 DEF Killed
<1>5. Followed(instr', iwindow', st_buffer', retired', done')
  BY <1>1, KillFollowed
<1>6. \A t \in Ctxt : Front(instr', iwindow', fetch', fetch_status', retired', t)
  BY <1>1, KillFront
<1>7. IInv'
  BY <1>3, <1>4, <1>5, <1>6 DEF IInv
<1>8. Kept
  BY <1>2 DEF Kept
<1>9. UNCHANGED Memory!vars
  BY <1>1 DEF Memory!vars
<1> QED
  BY <1>7, <1>8, <1>9 DEF Good
-----------------------------------------------------------------------------
(* The actions that squash.  f is what one instruction, k, made of itself  *)
(* before, which may be the one that goes first or one before it.          *)
LEMMA KillsGood ==
  ASSUME IInv, NEW f, NEW k, Advances(instr, f, k), Shape(f, iwindow, ldq, stq),
         Followed(f, iwindow, st_buffer, retired, done),
         HasStarted(instr, k) => HasStarted(f, k),
         NEW i \in Entries(iwindow), ~HasStarted(f, i),
         Flying(instr, k) => instr[k].tid = f[i].tid,
         NEW status \in
           [Ctxt -> SUBSET {"GPC_UNKNOWN", "STALL_UNTIL_EMPTY", "LDQ_FULL", "STQ_FULL"}],
         f[k].stage \in Undecoded => f[k].next = None,
         f[k].stage \in Faulty =>
           f[k].next = None \/ (f[k].next = i /\ "STALL_UNTIL_EMPTY" \in status[f[i].tid]),
         \A t \in Ctxt \ {f[i].tid} : fetch_status[t] \subseteq status[t],
         kill_all(i, f, status),
         UNCHANGED <<st_buffer, ivec, retired, mem, done>>, traps' \in 0 .. MaxTraps
  PROVE  Good
<1>1. /\ Shape(instr, iwindow, ldq, stq)
      /\ \A t \in Ctxt : Front(instr, iwindow, fetch, fetch_status, retired, t)
      /\ Entries(iwindow) = {j \in Instr : Flying(f, j)} /\ Calm(f)
  BY DEF IInv, Shape
<1>2. /\ k \in Instr /\ \A j \in Instr \ {k} : f[j] = instr[j]
      /\ f[k].tid = instr[k].tid
  BY DEF Advances
<1>3. \A t \in Ctxt \ {f[i].tid} : Front(f, iwindow, fetch, status, retired, t)
  BY <1>1, StepFronts
<1>4. f[i].tid \in Ctxt
  BY <1>1 DEF Calm
<1>5. \A j \in Entries(iwindow) : f[j].tid = f[i].tid =>
        /\ f[j].stage \in Undecoded => f[j].next = None
        /\ f[j].stage \in Faulty =>
             f[j].next = None \/ (f[j].next = i /\ "STALL_UNTIL_EMPTY" \in status[f[i].tid])
  BY <1>1, <1>2, <1>4 DEF Front
<1>6. \A j \in Instr : HasStarted(instr, j) => HasStarted(f, j)
  BY <1>2 DEF HasStarted
<1>7. Squashes(f, i, status)
  BY <1>3, <1>5, <1>6 DEF Squashes
<1> QED
  BY <1>7, KillGood

(* What comes next in a context is not its oldest. *)
LEMMA NextIs ==
  ASSUME IInv, NEW i \in Entries(iwindow), instr[i].next # None
  PROVE  /\ instr[i].next \in Entries(iwindow) /\ instr[i].next # i
         /\ instr[instr[i].next].tid = instr[i].tid /\ ~HasStarted(instr, instr[i].next)
<1> DEFINE n == instr[i].next
<1>1. /\ Shape(instr, iwindow, ldq, stq) /\ StartedFirst(instr, iwindow)
      /\ Sound(Instr, window_size, iwindow) /\ window_size \in Nat \ {0}
  BY SizeAssumption DEF IInv, Followed, Shape
<1>2. Lined(iwindow)
  BY <1>1, InLine DEF Sound
<1>3. Behind(instr, iwindow, i, n)
  BY <1>1, EndsAre DEF Ends
<1>4. n \in Entries(iwindow) /\ instr[n].tid = instr[i].tid /\ Older(iwindow, i, n)
  BY <1>3 DEF Behind
<1>5. n # i /\ ~First(instr, iwindow, n)
  BY <1>2, <1>4 DEF Lined, First
<1> QED
  BY <1>1, <1>4, <1>5 DEF StartedFirst

LEMMA KillNextGood ==
  ASSUME IInv, NEW f, NEW i \in Entries(iwindow), Advances(instr, f, i),
         Shape(f, iwindow, ldq, stq), Followed(f, iwindow, st_buffer, retired, done),
         HasStarted(instr, i) => HasStarted(f, i), f[i].next # None,
         NEW status \in
           [Ctxt -> SUBSET {"GPC_UNKNOWN", "STALL_UNTIL_EMPTY", "LDQ_FULL", "STQ_FULL"}],
         f[i].stage \notin Undecoded,
         f[i].stage \in Faulty =>
           "STALL_UNTIL_EMPTY" \in status[f[i].tid],
         \A t \in Ctxt \ {f[i].tid} : fetch_status[t] \subseteq status[t],
         kill_all(f[i].next, f, status),
         UNCHANGED <<st_buffer, ivec, retired, mem, done>>, traps' \in 0 .. MaxTraps
  PROVE  Good
<1> DEFINE n == f[i].next
<1>1. f[i].next = instr[i].next /\ f[i].tid = instr[i].tid
      /\ \A j \in Instr \ {i} : f[j] = instr[j]
  BY DEF Advances, SameLinks
<1>2. /\ n \in Entries(iwindow) /\ n # i /\ instr[n].tid = instr[i].tid
      /\ ~HasStarted(instr, n)
  BY <1>1, NextIs
<1>3. Entries(iwindow) \subseteq Instr
  BY DEF Shape
<1>4. f[n] = instr[n] /\ f[n].tid = f[i].tid /\ ~HasStarted(f, n)
  BY <1>1, <1>2, <1>3 DEF HasStarted
<1> HIDE DEF n
<1>5. /\ f[i].stage \in Faulty =>
           f[i].next = n /\ "STALL_UNTIL_EMPTY" \in status[f[n].tid]
      /\ kill_all(n, f, status)
      /\ \A t \in Ctxt \ {f[n].tid} : fetch_status[t] \subseteq status[t]
  BY <1>4 DEF n
<1> QED
  BY <1>1, <1>2, <1>4, <1>5, KillsGood

LEMMA KillSpeculativeGood ==
  ASSUME IInv, NEW t \in Ctxt, NEW i \in Instr, KillSpeculative(t, i) PROVE Good
<1>1. /\ Oldest(t, i) /\ instr[i].wrong /\ kill_all(i, instr, fetch_status)
      /\ UNCHANGED <<st_buffer, ivec, retired, mem, done, traps>>
  BY DEF KillSpeculative
<1>2. /\ Shape(instr, iwindow, ldq, stq) /\ Typed /\ instr \in [Instr -> Fields]
      /\ Followed(instr, iwindow, st_buffer, retired, done) /\ StartedFirst(instr, iwindow)
      /\ \A c \in Ctxt : Front(instr, iwindow, fetch, fetch_status, retired, c)
  BY Facts
<1>3. i \in Entries(iwindow) /\ instr[i].tid = t
  BY <1>1, <1>2, OldestFirst
<1>4. ~HasStarted(instr, i)
  BY <1>1, <1>2, <1>3 DEF StartedFirst
<1>5. Advances(instr, instr, i)
  BY <1>2 DEF Advances, SameLinks
<1>6. /\ instr[i].stage \in Undecoded => instr[i].next = None
      /\ instr[i].stage \in Faulty => instr[i].next = None
  BY <1>2, <1>3 DEF Front
<1> QED
  BY <1>1, <1>2, <1>3, <1>4, <1>5, <1>6, KillsGood DEF Typed

(* What a status gains stops no proof about the front. *)
LEMMA PrepareForInterruptGood ==
  ASSUME IInv, NEW t \in Ctxt, PrepareForInterrupt(t) PROVE Good
<1> DEFINE h == head(iwindow)
           status == [fetch_status EXCEPT ![t] = @ \cup {"STALL_UNTIL_EMPTY"}]
<1>1. /\ ~empty_ctxt(iwindow, t)
      /\ UNCHANGED <<st_buffer, ivec, retired, mem, done, traps>>
      /\ IF instr[h].tid = t /\ instr[h].stage \in Before
         THEN kill_all(h, instr, status) ELSE KillNext(h, instr, status)
  BY DEF PrepareForInterrupt
<1>2. /\ Shape(instr, iwindow, ldq, stq) /\ Typed
      /\ Followed(instr, iwindow, st_buffer, retired, done) /\ StartedFirst(instr, iwindow)
      /\ \A c \in Ctxt : Front(instr, iwindow, fetch, fetch_status, retired, c)
      /\ Sound(Instr, window_size, iwindow) /\ window_size \in Nat \ {0}
      /\ Entries(iwindow) = {j \in Instr : Flying(instr, j)} /\ Calm(instr)
      /\ instr \in [Instr -> Fields]
  BY SizeAssumption DEF IInv, Followed, Shape, Calm
<1>3. Entries(iwindow) # {}
  BY <1>1, <1>2, OwnIs
<1>4. h \in Entries(iwindow) /\ h \in Instr /\ instr[h].tid \in Ctxt
  BY <1>2, <1>3, HeadEntry DEF Calm
<1>5. Advances(instr, instr, h)
  BY <1>2, <1>4 DEF Advances, SameLinks
<1>6. /\ instr[h].stage \in Undecoded => instr[h].next = None
      /\ instr[h].stage \in Faulty => instr[h].next = None
  BY <1>2, <1>4 DEF Front
<1>7. /\ status \in [Ctxt -> SUBSET {"GPC_UNKNOWN", "STALL_UNTIL_EMPTY", "LDQ_FULL", "STQ_FULL"}]
      /\ \A c \in Ctxt : fetch_status[c] \subseteq status[c]
      /\ traps' \in 0 .. MaxTraps
  BY <1>1, <1>2 DEF Typed
<1> HIDE DEF h, status
<1>8. CASE instr[h].tid = t /\ instr[h].stage \in Before
  <2>1. ~HasStarted(instr, h)
    BY <1>8 DEF Before, HasStarted, AfterAccess
  <2>2. kill_all(h, instr, status)
    BY <1>1, <1>8
  <2> QED
    BY <2>1, <2>2, <1>1, <1>2, <1>4, <1>5, <1>6, <1>7, KillsGood
<1>9. CASE ~(instr[h].tid = t /\ instr[h].stage \in Before) /\ instr[h].next # None
  <2>1. kill_all(instr[h].next, instr, status)
    BY <1>1, <1>9 DEF KillNext
  <2> QED
    BY <2>1, <1>1, <1>2, <1>4, <1>5, <1>6, <1>7, <1>9, KillNextGood
<1>10. CASE ~(instr[h].tid = t /\ instr[h].stage \in Before) /\ instr[h].next = None
  <2>1. instr' = instr /\ fetch_status' = status /\ UNCHANGED <<queues, fetch>>
    BY <1>1, <1>10 DEF KillNext
  <2>2. Shape(instr', iwindow', ldq', stq') /\ UNCHANGED <<iwindow, fetch>>
    BY <2>1, <1>2 DEF queues
  <2>3. Typed'
    BY <2>1, <2>2, <1>1, <1>2, <1>7 DEF Typed
  <2>4. \A c \in Ctxt : Front(instr', iwindow, fetch', fetch_status', retired, c)
    BY <2>1, <2>2, <1>2, <1>7, FrontKept
  <2>5. IInv'
    BY <2>1, <2>2, <2>3, <2>4, <1>1, <1>2 DEF IInv
  <2>6. Kept /\ UNCHANGED Memory!vars
    BY <2>1, <1>1 DEF Kept, Memory!vars
  <2> QED
    BY <2>5, <2>6 DEF Good
<1> QED
  BY <1>8, <1>9, <1>10

LEMMA ExecuteGood ==
  ASSUME IInv, NEW i \in Instr, Execute(i) PROVE Good
<1> DEFINE t == instr[i].tid
           into == CASE instr[i].op.kind = "branch" -> "COMMIT"
                     [] instr[i].op.kind = "load" -> "SAFE"
                     [] OTHER -> "MEM"
           f == [instr EXCEPT ![i].stage = into, ![i].outstanding = {}, ![i].miss = FALSE]
           again == [f EXCEPT ![i].stage = "WAIT"]
           status == [fetch_status EXCEPT ![t] = @ \ {"STALL_UNTIL_EMPTY"}]
<1>1. /\ instr[i].stage = "EXECUTE"
      /\ UNCHANGED <<st_buffer, ivec, retired, mem, done, traps>>
      /\ IF ~instr[i].miss
         THEN /\ instr' = f \/ (instr[i].op.kind # "branch" /\ instr' = again)
              /\ UNCHANGED <<queues, fetch, fetch_status>>
         ELSE IF f[i].next # None THEN kill_all(f[i].next, f, status)
         ELSE /\ instr' = f
              /\ fetch' = [fetch EXCEPT ![t] = Successor(f, i)]
              /\ fetch_status' = status
              /\ UNCHANGED queues
  BY DEF Execute
<1>2. Flying(instr, i) /\ ~HasStarted(instr, i)
  BY <1>1 DEF Flying, Before, HasStarted, AfterAccess
<1>3. /\ instr \in [Instr -> Fields] /\ Typed /\ Shape(instr, iwindow, ldq, stq)
      /\ instr[i].outstanding \in {{}, {"EVENTQ"}, {"MEM_HIER"}}
      /\ \A c \in Ctxt : Front(instr, iwindow, fetch, fetch_status, retired, c)
      /\ i \in Entries(iwindow) /\ t \in Ctxt
      /\ instr[i].op.kind \in {"branch", "load", "store", "unsafe"}
      /\ \A j \in Entries(iwindow) : instr[j].tid = t /\ instr[j].next # None =>
           instr[j].stage \notin Undecoded \union Faulty
      /\ Followed(instr, iwindow, st_buffer, retired, done)
  BY <1>2, InPlace DEF IInv
<1>4. /\ into \in {"COMMIT", "SAFE", "MEM"}
      /\ into = "COMMIT" => instr[i].op.kind = "branch"
      /\ into # "COMMIT" => instr[i].op.kind # "branch"
  BY <1>3
<1>5. Goes(instr, f, i) /\ Advances(instr, f, i) /\ f[i].stage = into
  <2>1. Becomes(instr, f, i, into)
    BY DEF Becomes
  <2> HIDE DEF f
  <2>2. Into(instr, i, into)
    BY <1>1, <1>2, <1>3, <1>4 DEF Into, PastExecute, Faulty, Exceptions, SpecExceptions, Undecoded
  <2> QED
    BY <2>1, <2>2, GoesOut
<1>13. CASE ~instr[i].miss /\ instr[i].op.kind # "branch" /\ instr' = again
  <2>1. Goes(instr, instr', i) /\ Advances(instr, instr', i) /\ instr'[i].stage = "WAIT"
    <3>1. instr' = [instr EXCEPT ![i].stage = "WAIT", ![i].outstanding = {}, ![i].miss = FALSE]
      BY <1>3, <1>13
    <3>2. Becomes(instr, instr', i, "WAIT")
      BY <3>1 DEF Becomes
    <3>3. Into(instr, i, "WAIT")
      BY <1>1, <1>2, <1>3 DEF Into, Before, Undecoded
    <3> QED
      BY <3>2, <3>3, GoesOut
  <2>2. UNCHANGED <<iwindow, ldq, stq, fetch, fetch_status>>
    BY <1>1, <1>13 DEF queues
  <2> HIDE DEF f, into, status, again
  <2>3. Typed'
    BY <2>2, <1>1, <1>3 DEF Typed
  <2>4. Shape(instr', iwindow', ldq', stq')
    BY <2>1, <2>2, <1>3, StepShape
  <2>5. /\ \A c \in Ctxt : Front(instr', iwindow, fetch', fetch_status', retired, c)
        /\ ~HasStarted(instr', i)
    <3>1. instr[i].stage \notin Undecoded /\ "WAIT" \notin Undecoded \union Faulty \union AfterAccess
      BY <1>1 DEF Undecoded, Faulty, Exceptions, SpecExceptions, AfterAccess
    <3> QED
      BY <3>1, <2>1, <2>2, <1>3, SameFront DEF HasStarted
  <2> QED
    BY <2>1, <2>2, <2>3, <2>4, <2>5, <1>1, <1>2, QuietGood
<1> HIDE DEF f, into, status, again
<1>6. Shape(f, iwindow, ldq, stq)
  BY <1>3, <1>5, StepShape
<1>7. /\ f[i].op = instr[i].op /\ ~HasStarted(f, i)
      /\ f[i].tid = t /\ f[i].next = instr[i].next /\ f[i].wrong = instr[i].wrong
      /\ f[i].pos = instr[i].pos /\ f[i] \in Fields
  BY <1>4, <1>5 DEF Advances, SameLinks, HasStarted, AfterAccess
<1>8. Followed(f, iwindow, st_buffer, retired, done)
  BY <1>1, <1>3, <1>4, <1>5, <1>7, Advanced
<1>9. /\ status \in [Ctxt -> SUBSET {"GPC_UNKNOWN", "STALL_UNTIL_EMPTY", "LDQ_FULL", "STQ_FULL"}]
      /\ \A c \in Ctxt \ {t} : status[c] = fetch_status[c]
      /\ traps' \in 0 .. MaxTraps
  BY <1>1, <1>3 DEF Typed, status
<1>14. f[i].stage \notin Undecoded \union Faulty
  BY <1>4, <1>5 DEF Undecoded, Faulty, Exceptions, SpecExceptions
<1>10. CASE ~instr[i].miss /\ instr' = f
  <2>1. instr' = f /\ UNCHANGED <<iwindow, ldq, stq, fetch, fetch_status>>
    BY <1>1, <1>10 DEF queues
  <2>2. Typed'
    BY <2>1, <1>1, <1>3 DEF Typed
  <2>3. \A c \in Ctxt : Front(instr', iwindow, fetch', fetch_status', retired, c)
    <3>1. instr[i].stage \notin Undecoded
      BY <1>1 DEF Undecoded
    <3> QED
      BY <3>1, <2>1, <1>3, <1>5, <1>14, SameFront
  <2>4. Shape(instr', iwindow', ldq', stq')
    BY <2>1, <1>6
  <2> QED
    BY <2>1, <2>2, <2>3, <2>4, <1>1, <1>2, <1>4, <1>5, <1>7, QuietGood
<1>11. CASE instr[i].miss /\ f[i].next # None
  <2>1. kill_all(f[i].next, f, status)
    BY <1>1, <1>11
  <2>2. f[i].stage \notin Undecoded \union Faulty
    BY <1>14
  <2>3. \A c \in Ctxt \ {f[i].tid} : fetch_status[c] \subseteq status[c]
    BY <1>7, <1>9
  <2> HIDE DEF t
  <2> QED
    BY <2>1, <2>2, <2>3, <1>1, <1>2, <1>3, <1>5, <1>6, <1>8, <1>9, <1>11, KillNextGood
<1>12. CASE instr[i].miss /\ f[i].next = None
  <2>1. /\ instr' = f /\ UNCHANGED <<iwindow, ldq, stq>>
        /\ fetch' = [fetch EXCEPT ![t] = Successor(f, i)] /\ fetch_status' = status
    BY <1>1, <1>12 DEF queues
  <2>2. /\ Successor(f, i) \in [pos : Nat, wrong : BOOLEAN]
        /\ ~Successor(f, i).wrong => ~f[i].wrong /\ Successor(f, i).pos = f[i].pos + 1
    BY <1>7, SuccessorIs
  <2>3. fetch'[t] = Successor(f, i) /\ \A c \in Ctxt \ {t} : fetch'[c] = fetch[c]
    BY <2>1, <1>3 DEF Typed
  <2>4. fetch' \in [Ctxt -> [pos : Nat, wrong : BOOLEAN]]
    BY <2>1, <2>2, <1>3 DEF Typed
  <2>5. Typed'
    BY <2>1, <2>4, <1>1, <1>3, <1>9 DEF Typed
  <2>6. f[i].stage \notin Undecoded \union Faulty
    BY <1>14
  <2>10. ~fetch'[t].wrong => ~instr[i].wrong /\ fetch'[t].pos = instr[i].pos + 1
    BY <2>2, <2>3, <1>7
  <2>11. instr[i].next = None /\ t = instr[i].tid
    BY <1>7, <1>12
  <2> HIDE DEF t
  <2>7. Front(f, iwindow, fetch', fetch_status', retired, t)
    BY <2>6, <2>10, <2>11, <1>3, <1>5, YoungestFront
  <2>12. UNCHANGED <<iwindow, st_buffer, retired, mem, done>>
    BY <2>1, <1>1
  <2>8. \A c \in Ctxt : \/ Front(instr', iwindow, fetch', fetch_status', retired, c)
                        \/ /\ ~Flying(instr, i) \/ instr[i].tid # c
                           /\ fetch'[c] = fetch[c] /\ fetch_status[c] \subseteq fetch_status'[c]
    BY <2>1, <2>3, <2>7, <2>11, <1>9
  <2>9. Shape(instr', iwindow', ldq', stq')
    BY <2>1, <1>6
  <2>13. /\ Advances(instr, instr', i) /\ ~HasStarted(instr', i)
         /\ instr'[i].stage = into /\ instr'[i].op = instr[i].op
    BY <2>1, <1>5, <1>7
  <2>14. /\ instr'[i].stage \in {"SAFE", "MEM"} => instr'[i].op.kind # "branch"
         /\ instr'[i].stage # "PROGRESS"
         /\ ~(instr'[i].stage = "COMMIT" /\ instr'[i].op.kind = "load")
         /\ instr[i].stage # "COMMIT"
    BY <2>13, <1>1, <1>4
  <2> QED
    BY <2>5, <2>8, <2>9, <2>12, <2>13, <2>14, <1>2, QuietGood
<1> QED
  BY SMTT(30), <1>1, <1>10, <1>11, <1>12, <1>13

(* preparefor_exception(): it only stops being decoded, or not, where it   *)
(* was, and nothing is fetched behind it.                                  *)
LEMMA PrepareGood ==
  ASSUME IInv, NEW i \in Instr, NEW where \in {"FETCH", "EXECUTE", "REEXEC"},
         Flying(instr, i), instr[i].stage # "COMMIT",
         where = "FETCH" <=> instr[i].stage \in Undecoded,
         HasStarted(instr, i) => where = "REEXEC",
         where = "REEXEC" /\ instr[i].op.kind \in {"load", "unsafe"} =>
           /\ First(instr, iwindow, i) /\ ~instr[i].wrong
           /\ \A j \in Entries(st_buffer) : instr[j].tid # instr[i].tid,
         preparefor_exception(i, where), UNCHANGED <<st_buffer, ivec, retired, mem, done>>
  PROVE  Good
<1> DEFINE t == instr[i].tid
           a == IF speculative(i) THEN SpecException(where) ELSE Exception(where)
           f == [instr EXCEPT ![i].outstanding = {}, ![i].stage = a]
           status == [fetch_status EXCEPT ![t] = @ \cup {"STALL_UNTIL_EMPTY"}]
<1>1. /\ instr[i].wrong \/ traps < MaxTraps
      /\ traps' = (IF instr[i].wrong THEN traps ELSE traps + 1)
      /\ KillNext(i, f, status)
  BY DEF preparefor_exception
<1>3. /\ instr \in [Instr -> Fields] /\ Typed /\ Shape(instr, iwindow, ldq, stq)
      /\ instr[i].outstanding \in {{}, {"EVENTQ"}, {"MEM_HIER"}}
      /\ \A c \in Ctxt : Front(instr, iwindow, fetch, fetch_status, retired, c)
      /\ i \in Entries(iwindow) /\ t \in Ctxt
      /\ \A j \in Entries(iwindow) : instr[j].tid = t /\ instr[j].next # None =>
           instr[j].stage \notin Undecoded \union Faulty
      /\ Followed(instr, iwindow, st_buffer, retired, done)
  BY InPlace DEF IInv
<1>4. /\ a \in Faulty /\ a \notin {"SAFE", "MEM", "PROGRESS", "COMMIT"}
      /\ a \in Undecoded <=> where = "FETCH"
      /\ a \in AfterAccess <=> where = "REEXEC"
  BY DEF Exception, SpecException, Faulty, Exceptions, SpecExceptions, Undecoded, AfterAccess
<1> HIDE DEF a
<1>5. Goes(instr, f, i) /\ Advances(instr, f, i) /\ f[i].stage = a
  <2>1. Becomes(instr, f, i, a)
    BY DEF Becomes
  <2> HIDE DEF f
  <2>2. Into(instr, i, a)
    BY <1>3, <1>4 DEF Into, PastExecute
  <2> QED
    BY <2>1, <2>2, GoesOut
<1> HIDE DEF f, status
<1>6. Shape(f, iwindow, ldq, stq)
  BY <1>3, <1>5, StepShape
<1>7. /\ f[i].tid = t /\ f[i].next = instr[i].next /\ f[i].op = instr[i].op
      /\ HasStarted(f, i) => where = "REEXEC" /\ instr[i].op.kind \in {"load", "unsafe"}
      /\ HasStarted(instr, i) => HasStarted(f, i)
  BY <1>4, <1>5 DEF Advances, SameLinks, HasStarted
<1>8. Followed(f, iwindow, st_buffer, retired, done)
  BY <1>3, <1>4, <1>5, <1>7, Advanced
<1>9. /\ status \in [Ctxt -> SUBSET {"GPC_UNKNOWN", "STALL_UNTIL_EMPTY", "LDQ_FULL", "STQ_FULL"}]
      /\ \A c \in Ctxt : fetch_status[c] \subseteq status[c]
      /\ "STALL_UNTIL_EMPTY" \in status[t]
  BY <1>3 DEF Typed, status
<1>10. traps' \in 0 .. MaxTraps
  BY <1>1, <1>3, SizeAssumption DEF Typed
<1>11. CASE f[i].next # None
  <2>1. kill_all(f[i].next, f, status)
    BY <1>1, <1>11 DEF KillNext
  <2>2. f[i].stage \notin Undecoded /\ "STALL_UNTIL_EMPTY" \in status[f[i].tid]
    BY <1>3, <1>4, <1>5, <1>7, <1>9, <1>11
  <2> HIDE DEF t
  <2> QED
    BY <2>1, <2>2, <1>3, <1>5, <1>6, <1>7, <1>8, <1>9, <1>10, <1>11, KillNextGood
<1>12. CASE f[i].next = None
  <2>1. instr' = f /\ fetch_status' = status /\ UNCHANGED <<iwindow, ldq, stq, fetch>>
    BY <1>1, <1>12 DEF queues, KillNext
  <2>2. Typed'
    BY <2>1, <1>1, <1>3, <1>9, <1>10 DEF Typed
  <2>3. /\ instr[i].stage \notin Undecoded /\ ~fetch[t].wrong =>
             ~instr[i].wrong /\ fetch[t].pos = instr[i].pos + 1
        /\ instr[i].stage \in Undecoded => "GPC_UNKNOWN" \in fetch_status[t]
    BY <1>3, <1>7, <1>12 DEF Front
  <2>4. Front(f, iwindow, fetch', fetch_status', retired, t)
    BY <2>1, <2>3, <1>3, <1>4, <1>5, <1>7, <1>9, <1>12, YoungestFront
  <2>5. \A c \in Ctxt : \/ Front(instr', iwindow, fetch', fetch_status', retired, c)
                        \/ /\ ~Flying(instr, i) \/ instr[i].tid # c
                           /\ fetch'[c] = fetch[c] /\ fetch_status[c] \subseteq fetch_status'[c]
    BY <2>1, <2>4, <1>9
  <2>6. Shape(instr', iwindow', ldq', stq')
    BY <2>1, <1>6
  <2>7. UNCHANGED <<iwindow, st_buffer, retired, mem, done>>
    BY <2>1
  <2> QED
    BY <2>1, <2>2, <2>5, <2>6, <2>7, <1>4, <1>5, <1>7, QuietGood
<1> QED
  BY <1>11, <1>12

LEMMA FaultGood ==
  ASSUME IInv, NEW i \in Instr, Fault(i) PROVE Good
<1> DEFINE where == instr[i].stage
<1>1. /\ where \in {"FETCH", "EXECUTE"} /\ preparefor_exception(i, where)
      /\ UNCHANGED <<st_buffer, ivec, retired, mem, done>>
  BY DEF Fault
<1>2. /\ Flying(instr, i) /\ ~HasStarted(instr, i)
      /\ where = "FETCH" <=> instr[i].stage \in Undecoded
  BY <1>1 DEF Flying, Before, HasStarted, AfterAccess, Undecoded
<1>3. where \in {"FETCH", "EXECUTE", "REEXEC"} /\ instr[i].stage # "COMMIT" /\ where # "REEXEC"
  BY <1>1
<1> HIDE DEF where
<1> QED
  BY <1>1, <1>2, <1>3, PrepareGood

(* A load that started reads memory, and is done. *)
LEMMA LoadGood ==
  ASSUME IInv, NEW i \in Instr, instr[i].stage \in {"PROGRESS", "REEXEC"},
         instr[i].op.kind = "load", i \in Entries(iwindow), First(instr, iwindow, i), ~instr[i].wrong,
         \A j \in Entries(st_buffer) : instr[j].tid # instr[i].tid,
         Advances(instr, instr', i), instr'[i].stage = "COMMIT", Shape(instr', iwindow', ldq', stq'),
         \A c \in Ctxt : Front(instr', iwindow, fetch', fetch_status', retired, c),
         done' = [done EXCEPT ![instr[i].tid] =
                    Append(@, [pos |-> instr[i].pos, val |-> mem[instr[i].op.addr]])],
         UNCHANGED <<queues, st_buffer, fetch, fetch_status, ivec, retired, mem, traps>>
  PROVE  Good
<1> DEFINE t == instr[i].tid
           p == instr[i].pos
<1>2. Typed /\ Shape(instr, iwindow, ldq, stq)
  BY InPlace
<1>3. /\ StartedFirst(instr, iwindow) /\ Buffered(instr, st_buffer, retired)
      /\ Entries(iwindow) = {j \in Instr : Flying(instr, j)}
  BY Facts
<1>9. HasStarted(instr', i) /\ instr'[i].op = instr[i].op
  BY DEF HasStarted, Advances, AfterAccess
<1>1. /\ t \in Ctxt /\ p \in DOMAIN Program[t] /\ instr[i].op = Program[t][p]
      /\ retired[t] \in Nat /\ p = retired[t] + 1
      /\ \A q \in Memory!MemoryOps(t) : q \in Nat /\ (q < p => q <= retired[t])
      /\ \A q : Took(instr, iwindow, st_buffer, retired, t, q) /\ ~(q <= retired[t]) =>
                  q = p /\ instr[i].op.kind = "load" /\ instr[i].stage = "COMMIT"
  BY SMTT(30), OldestNext
<1>4. p \in Memory!MemoryOps(t) /\ Effect(t, p)
  BY <1>1 DEF Memory!MemoryOps, Effect
<1>5. ~Took(instr, iwindow, st_buffer, retired, t, p)
  BY <1>1
<1>6. \A q \in Memory!MemoryOps(t) : q < p => Took(instr, iwindow, st_buffer, retired, t, q)
  BY <1>1 DEF Took
<1>7. /\ StartedFirst(instr', iwindow) /\ Course(instr', iwindow, retired)
      /\ Buffered(instr', st_buffer, retired)
  <2>1. Followed(instr, iwindow, st_buffer, retired, done)
    BY DEF IInv
  <2> QED
    BY <2>1, <1>2, Advanced
<1>8. Adds(instr', iwindow, st_buffer, retired, t, p)
  <2> SUFFICES ASSUME NEW c \in Ctxt, NEW q \in Memory!MemoryOps(c)
               PROVE  Took(instr', iwindow, st_buffer, retired, c, q) <=>
                        Took(instr, iwindow, st_buffer, retired, c, q) \/ (c = t /\ q = p)
    BY DEF Adds
  <2>1. \A j \in Instr \ {i} : instr'[j] = instr[j]
    BY DEF Advances
  <2>2. instr'[i].tid = t /\ instr'[i].pos = p
    BY DEF Advances
  <2>3. \A j \in Entries(st_buffer) : instr'[j].tid = instr[j].tid /\ instr'[j].pos = instr[j].pos
    BY <2>1, <2>2, <1>3 DEF Buffered
  <2>4. (\E j \in Entries(iwindow) : /\ instr'[j].tid = c /\ instr'[j].pos = q
                                     /\ instr'[j].op.kind = "load" /\ instr'[j].stage = "COMMIT")
        <=> \/ \E j \in Entries(iwindow) :
                 /\ instr[j].tid = c /\ instr[j].pos = q
                 /\ instr[j].op.kind = "load" /\ instr[j].stage = "COMMIT"
            \/ c = t /\ q = p
    BY <2>1, <2>2, <1>3, <1>9
  <2> QED
    BY <2>3, <2>4 DEF Took
<1>10. /\ DoneTrue(instr', iwindow, st_buffer, retired, done') /\ Memory!Next
       /\ mem' \in [Addr -> Vals] /\ done' \in [Ctxt -> Seq([pos : Nat, val : Vals])]
  <2>1. TakesEffect(t, p)
    BY <1>1, <1>4, <1>5, <1>6 DEF TakesEffect
  <2> HIDE DEF t, p
  <2> QED
    BY <2>1, <1>8, EffectGood
<1>11. Typed'
  BY <1>2, <1>10 DEF Typed
<1>12. IInv'
  BY <1>7, <1>10, <1>11 DEF IInv, Followed, queues
<1>13. Kept
  <2>1. \A j \in Instr \ {i} : instr'[j] = instr[j]
    BY DEF Advances
  <2> QED
    BY <2>1, <1>9 DEF Kept, HasStarted
<1> QED
  BY <1>10, <1>12, <1>13 DEF Good

(* execute_after_release(): a load that is done takes effect.              *)
LEMMA ReleaseGood ==
  ASSUME IInv, NEW i \in Instr, instr[i].stage \in {"SAFE", "MEM", "PROGRESS", "REEXEC"},
         instr[i].op.kind \in {"load", "unsafe"} => HasStarted(instr, i),
         execute_after_release(i), UNCHANGED <<st_buffer, ivec, retired, mem>>
  PROVE  Good
<1> DEFINE t == instr[i].tid
           p == instr[i].pos
<1>1. /\ Flying(instr, i) /\ instr[i].stage \notin Undecoded
      /\ HasStarted(instr, i) <=> instr[i].op.kind \in {"load", "unsafe"}
  BY DEF Flying, PastExecute, Undecoded, HasStarted
<1>2. /\ instr \in [Instr -> Fields] /\ Typed /\ Shape(instr, iwindow, ldq, stq)
      /\ instr[i].outstanding \in {{}, {"EVENTQ"}, {"MEM_HIER"}}
      /\ \A c \in Ctxt : Front(instr, iwindow, fetch, fetch_status, retired, c)
      /\ i \in Entries(iwindow)
  BY <1>1, InPlace
<1>3. /\ StartedFirst(instr, iwindow) /\ Buffered(instr, st_buffer, retired)
      /\ Entries(iwindow) = {j \in Instr : Flying(instr, j)}
  BY <1>1, Facts
<1>4. instr[i].op.kind \in {"load", "unsafe"} =>
        /\ First(instr, iwindow, i) /\ ~instr[i].wrong
        /\ \A j \in Entries(st_buffer) : instr[j].tid # t
  BY <1>1, <1>2, <1>3 DEF StartedFirst, Buffered
<1>5. CASE preparefor_exception(i, "REEXEC") /\ done' = done
  <2>1. "REEXEC" \in {"FETCH", "EXECUTE", "REEXEC"} /\ "REEXEC" # "FETCH"
    OBVIOUS
  <2>2. instr[i].stage # "COMMIT"
    OBVIOUS
  <2> QED
    BY <2>1, <2>2, <1>1, <1>4, <1>5, PrepareGood
<1>6. ASSUME NEW a \in {"COMMIT", "REEXEC"},
             NEW o \in {{}, {"EVENTQ"}}, instr' = [instr EXCEPT ![i].stage = a, ![i].outstanding = o],
             UNCHANGED <<queues, fetch, fetch_status, traps>>
      PROVE  /\ Goes(instr, instr', i) /\ Advances(instr, instr', i) /\ instr'[i].stage = a
             /\ Shape(instr', iwindow', ldq', stq')
             /\ \A c \in Ctxt : Front(instr', iwindow, fetch', fetch_status', retired, c)
             /\ HasStarted(instr', i) <=> instr[i].op.kind \in {"load", "unsafe"}
             /\ instr'[i].op = instr[i].op
             /\ UNCHANGED iwindow
             /\ done' = done => Typed'
  <2>1. Becomes(instr, instr', i, a)
    BY <1>6 DEF Becomes
  <2>2. Into(instr, i, a) /\ a \notin Undecoded \union Faulty
    BY <1>1, <1>2 DEF Into, PastExecute, Undecoded, Faulty, Exceptions, SpecExceptions
  <2>3. Goes(instr, instr', i) /\ Advances(instr, instr', i) /\ instr'[i].stage = a
    BY <2>1, <2>2, GoesOut
  <2>4. Shape(instr', iwindow', ldq', stq')
    BY <2>3, <1>2, <1>6, StepShape DEF queues
  <2>5. \A c \in Ctxt : Front(instr', iwindow, fetch', fetch_status', retired, c)
    BY <2>2, <2>3, <1>1, <1>2, <1>6, SameFront
  <2>6. /\ HasStarted(instr', i) <=> instr[i].op.kind \in {"load", "unsafe"}
        /\ instr'[i].op = instr[i].op
    BY <2>3 DEF Advances, HasStarted, AfterAccess
  <2>7. done' = done => Typed'
    BY <1>2, <1>6 DEF Typed
  <2> QED
    BY <2>3, <2>4, <2>5, <2>6, <2>7, <1>6 DEF queues
<1>7. CASE /\ instr' = [instr EXCEPT ![i].stage = "REEXEC", ![i].outstanding = {"EVENTQ"}]
           /\ UNCHANGED <<queues, fetch, fetch_status, traps, done>>
  <2>1. /\ Advances(instr, instr', i) /\ instr'[i].stage = "REEXEC"
        /\ Shape(instr', iwindow', ldq', stq')
        /\ \A c \in Ctxt : Front(instr', iwindow, fetch', fetch_status', retired, c)
        /\ HasStarted(instr', i) <=> instr[i].op.kind \in {"load", "unsafe"}
        /\ UNCHANGED iwindow /\ Typed'
    BY <1>6, <1>7
  <2>2. instr[i].stage # "COMMIT"
    OBVIOUS
  <2> QED
    BY <2>1, <2>2, <1>1, <1>4, <1>7, QuietGood
<1>8. CASE /\ instr' = [instr EXCEPT ![i].stage = "COMMIT", ![i].outstanding = {}]
           /\ done' = IF instr[i].op.kind = "load"
                      THEN [done EXCEPT ![t] =
                              Append(@, [pos |-> p, val |-> mem[instr[i].op.addr]])]
                      ELSE done
           /\ UNCHANGED <<queues, fetch, fetch_status, traps>>
  <2>1. /\ Advances(instr, instr', i) /\ instr'[i].stage = "COMMIT"
        /\ Shape(instr', iwindow', ldq', stq')
        /\ \A c \in Ctxt : Front(instr', iwindow, fetch', fetch_status', retired, c)
        /\ HasStarted(instr', i) <=> instr[i].op.kind \in {"load", "unsafe"}
        /\ instr'[i].op = instr[i].op
        /\ UNCHANGED iwindow /\ (done' = done => Typed')
    BY <1>6, <1>8
  <2>2. CASE instr[i].op.kind # "load"
    <3>1. done' = done
      BY <2>2, <1>8
    <3> QED
      BY <3>1, <2>1, <2>2, <1>1, <1>4, <1>8, QuietGood
  <2>3. CASE instr[i].op.kind = "load"
    <3>1. instr[i].stage \in {"PROGRESS", "REEXEC"}
      BY <2>3 DEF HasStarted, AfterAccess
    <3> QED
      BY <3>1, <2>1, <2>3, <1>2, <1>4, <1>8, LoadGood
  <2> QED
    BY <2>2, <2>3
<1> QED
  BY <1>5, <1>7, <1>8 DEF execute_after_release

LEMMA MemHierDoneGood ==
  ASSUME IInv, NEW i \in Instr, MemHierDone(i) PROVE Good
<1>1. /\ instr[i].stage \in {"PROGRESS", "REEXEC"} /\ execute_after_release(i)
      /\ UNCHANGED <<st_buffer, ivec, retired, mem>>
  BY DEF MemHierDone
<1>2. instr[i].op.kind \in {"load", "unsafe"} => HasStarted(instr, i)
  BY <1>1 DEF HasStarted, AfterAccess
<1> QED
  BY <1>1, <1>2, ReleaseGood

LEMMA AccessGood ==
  ASSUME IInv, NEW t \in Ctxt, NEW i \in Instr, Access(t, i) PROVE Good
<1>1. /\ Oldest(t, i) /\ ~instr[i].wrong /\ instr[i].stage \in {"SAFE", "MEM"}
      /\ UNCHANGED <<st_buffer, ivec, retired, mem>>
  BY DEF Access
<1>2. Flying(instr, i) /\ instr[i].stage \notin Undecoded /\ ~HasStarted(instr, i)
  BY <1>1 DEF Flying, PastExecute, Undecoded, HasStarted, AfterAccess
<1>3. /\ instr \in [Instr -> Fields] /\ Typed /\ Shape(instr, iwindow, ldq, stq)
      /\ instr[i].outstanding \in {{}, {"EVENTQ"}, {"MEM_HIER"}}
      /\ \A c \in Ctxt : Front(instr, iwindow, fetch, fetch_status, retired, c)
      /\ i \in Entries(iwindow)
      /\ instr[i].op.kind \in {"branch", "load", "store", "unsafe"}
  BY <1>2, InPlace
<1>4. StartedFirst(instr, iwindow) /\ Buffered(instr, st_buffer, retired)
  BY Facts
<1>5. First(instr, iwindow, i)
  BY <1>1, <1>3, OldestFirst
<1>6. instr[i].op.kind # "branch"
  BY <1>1, <1>3, <1>4 DEF StartedFirst
<1>9. CASE instr[i].op.kind = "store"
  <2>1. execute_after_release(i)
    BY <1>9 DEF Access
  <2> QED
    BY <2>1, <1>1, <1>9, ReleaseGood
<1>10. CASE instr[i].op.kind # "store"
  <2> DEFINE g == [instr EXCEPT ![i].stage = "PROGRESS", ![i].outstanding = {"MEM_HIER"}]
  <2>7. /\ instr' = g /\ empty(st_buffer)
        /\ UNCHANGED <<queues, st_buffer, fetch, fetch_status, ivec, retired, mem, done, traps>>
    BY <1>10 DEF Access
  <2>8. Typed'
    BY <2>7, <1>3 DEF Typed
  <2>1. Goes(instr, instr', i) /\ Advances(instr, instr', i) /\ instr'[i].stage = "PROGRESS"
    <3>1. Becomes(instr, instr', i, "PROGRESS")
      BY <2>7 DEF Becomes
    <3>2. Into(instr, i, "PROGRESS")
      BY <1>2, <1>3 DEF Into, PastExecute, Undecoded
    <3> QED
      BY <3>1, <3>2, GoesOut
  <2> HIDE DEF g
  <2>2. Shape(instr', iwindow', ldq', stq')
    BY <2>1, <2>7, <1>3, StepShape DEF queues
  <2>9. "PROGRESS" \notin Undecoded \union Faulty
    BY DEF Undecoded, Faulty, Exceptions, SpecExceptions
  <2>3. \A c \in Ctxt : Front(instr', iwindow, fetch', fetch_status', retired, c)
    BY <2>1, <2>7, <2>9, <1>2, <1>3, SameFront
  <2>4. instr'[i].op = instr[i].op /\ instr'[i].op.kind \in {"load", "unsafe"}
    BY <2>1, <1>3, <1>6, <1>10 DEF Advances
  <2>5. \A j \in Entries(st_buffer) : instr[j].tid # instr[i].tid
    <3>1. Sound(Instr, stbuf_size, st_buffer)
      BY <1>4 DEF Buffered
    <3>2. stbuf_size \in Nat \ {0}
      BY SizeAssumption
    <3> QED
      BY <3>1, <3>2, <2>7, ReachIsTaken
  <2>6. instr[i].stage # "COMMIT" /\ instr'[i].stage # "COMMIT"
        /\ instr'[i].stage \notin {"SAFE", "MEM"}
    BY <2>1, <1>1
  <2> QED
    BY <2>1, <2>2, <2>3, <2>4, <2>5, <2>6, <2>7, <2>8, <1>1, <1>2, <1>5, QuietGood DEF queues
<1> QED
  BY <1>9, <1>10

(* An instruction whose memory request is answered, and nothing more. *)
Hears(f, g, i) == g = [f EXCEPT ![i].outstanding = {}]
LEMMA Answered ==
  ASSUME NEW f, NEW w, NEW l, NEW s, Shape(f, w, l, s), NEW i \in Instr,
         NEW g, Hears(f, g, i)
  PROVE  /\ Advances(f, g, i) /\ Shape(g, w, l, s) /\ g[i].stage = f[i].stage
<1>1. f \in [Instr -> Fields] /\ f[i] \in Fields
      /\ \A j \in Instr : f[j].outstanding \in {{}, {"EVENTQ"}, {"MEM_HIER"}}
  BY DEF Shape, Calm
<1>2. g[i] = [f[i] EXCEPT !.outstanding = {}] /\ \A j \in Instr \ {i} : g[j] = f[j]
  BY <1>1 DEF Hears
<1>3. /\ g[i] \in Fields
      /\ g[i].tid = f[i].tid /\ g[i].pos = f[i].pos
      /\ g[i].op = f[i].op /\ g[i].wrong = f[i].wrong
      /\ SameLinks(f, g, i) /\ g[i].stage = f[i].stage
      /\ g[i].slot = f[i].slot /\ g[i].lsq_slot = f[i].lsq_slot
      /\ g[i].outstanding = {}
  BY <1>1, <1>2 DEF Fields, SameLinks
<1>4. g \in [Instr -> Fields]
  BY <1>1, <1>3 DEF Hears
<1>5. Advances(f, g, i)
  BY <1>2, <1>3, <1>4 DEF Advances, Flying
<1>6. ASSUME NEW j \in Instr
      PROVE  /\ g[j].outstanding \in {{}, {"EVENTQ"}, {"MEM_HIER"}}
             /\ Flying(g, j) <=> Flying(f, j)
             /\ Flying(f, j) =>
                  /\ g[j].tid = f[j].tid /\ g[j].op = f[j].op /\ SameLinks(f, g, j)
                  /\ g[j].slot = f[j].slot /\ g[j].lsq_slot = f[j].lsq_slot
                  /\ g[j].stage \in Undecoded <=> f[j].stage \in Undecoded
  <2>1. CASE j = i
    BY <2>1, <1>3 DEF Flying
  <2>2. CASE j # i
    BY <2>2, <1>1, <1>2 DEF Flying, SameLinks
  <2> QED
    BY <2>1, <2>2
<1> QED
  BY <1>3, <1>4, <1>5, <1>6, SameShape

(* The fields of a decoded instruction. *)
Decodes(r, now, m, s) ==
  now = [r EXCEPT !.stage = "DECODE", !.outstanding = {"EVENTQ"}, !.miss = m, !.lsq_slot = s]
LEMMA NowDecoded ==
  ASSUME NEW r \in Fields, NEW m \in BOOLEAN, NEW s \in Int, NEW now, Decodes(r, now, m, s)
  PROVE  /\ now \in Fields
         /\ now.tid = r.tid /\ now.pos = r.pos /\ now.op = r.op /\ now.wrong = r.wrong
         /\ now.slot = r.slot /\ now.prev = r.prev /\ now.next = r.next
         /\ now.stage = "DECODE" /\ now.outstanding = {"EVENTQ"} /\ now.lsq_slot = s
<1> DEFINE r1 == [r EXCEPT !.stage = "DECODE"]
           r2 == [r1 EXCEPT !.outstanding = {"EVENTQ"}]
           r3 == [r2 EXCEPT !.miss = m]
           r4 == [r3 EXCEPT !.lsq_slot = s]
           As(x) == /\ x \in Fields
                    /\ x.tid = r.tid /\ x.pos = r.pos /\ x.op = r.op /\ x.wrong = r.wrong
                    /\ x.slot = r.slot /\ x.prev = r.prev /\ x.next = r.next
                    /\ x.stage = "DECODE"
<1>1. As(r1)
  BY DEF Fields, Before
<1>2. As(r2) /\ r2.outstanding = {"EVENTQ"}
  <2> HIDE DEF r1
  <2> QED
    BY <1>1 DEF Fields
<1>3. As(r3) /\ r3.outstanding = {"EVENTQ"}
  <2> HIDE DEF r1, r2
  <2> QED
    BY <1>2 DEF Fields
<1>4. As(r4) /\ r4.outstanding = {"EVENTQ"} /\ r4.lsq_slot = s
  <2> HIDE DEF r1, r2, r3
  <2> QED
    BY <1>3 DEF Fields
<1>5. now = r4
  BY DEF Decodes
<1> HIDE DEF r4
<1> QED
  BY <1>4, <1>5

LEMMA PreDecodeGood ==
  ASSUME IInv, NEW i \in Instr, PreDecode(i) PROVE Good
<1> DEFINE t == instr[i].tid
           load == instr[i].op.kind \in Loads
           store == instr[i].op.kind \in Stores
           q == IF load THEN ldq ELSE stq
           n == IF load THEN load_size ELSE store_size
           memory == instr[i].op.kind # "branch"
           why == IF load THEN "LDQ_FULL" ELSE "STQ_FULL"
           f == [instr EXCEPT ![i].outstanding = {}]
           status == [fetch_status EXCEPT ![t] = @ \cup {why}]
<1>1. /\ instr[i].stage = "FETCH" /\ UNCHANGED <<st_buffer, ivec, retired, mem, done, traps>>
      /\ memory /\ ~slot_avail(q) => kill_all(i, f, status)
  BY ZenonT(40) DEF PreDecode
<1>2. ~(memory /\ ~slot_avail(q)) =>
        /\ \E miss \in IF memory THEN {FALSE} ELSE BOOLEAN :
             LET now == [instr[i] EXCEPT !.stage = "DECODE", !.outstanding = {"EVENTQ"},
                                         !.miss = miss,
                                         !.lsq_slot = IF memory THEN Inserted(q, i).last_created
                                                      ELSE @]
             IN /\ instr' = [instr EXCEPT ![i] = now]
                /\ fetch' = [fetch EXCEPT ![t] = Successor(instr', i)]
        /\ ldq' = IF load THEN Inserted(ldq, i) ELSE ldq
        /\ stq' = IF store THEN Inserted(stq, i) ELSE stq
        /\ fetch_status' = [fetch_status EXCEPT ![t] = @ \ {"GPC_UNKNOWN"}]
        /\ UNCHANGED iwindow
  BY DEF PreDecode
<1>3. Flying(instr, i) /\ ~HasStarted(instr, i)
  BY <1>1 DEF Flying, Before, HasStarted, AfterAccess
<1>4. /\ instr \in [Instr -> Fields] /\ Typed /\ Shape(instr, iwindow, ldq, stq)
      /\ \A c \in Ctxt : Front(instr, iwindow, fetch, fetch_status, retired, c)
      /\ i \in Entries(iwindow) /\ t \in Ctxt
      /\ instr[i].op.kind \in {"branch", "load", "store", "unsafe"}
      /\ \A j \in Entries(iwindow) : instr[j].tid = t /\ instr[j].next # None =>
           instr[j].stage \notin Undecoded \union Faulty
      /\ Followed(instr, iwindow, st_buffer, retired, done)
  BY <1>3, InPlace DEF IInv
<1>5. instr[i].next = None
  BY <1>1, <1>4 DEF Front, Undecoded
<1>8. Hears(instr, f, i)
  BY DEF Hears
<1> HIDE DEF f
<1>6. CASE memory /\ ~slot_avail(q)
  <2>1. kill_all(i, f, status)
    BY <1>1, <1>6
  <2>2. Advances(instr, f, i) /\ Shape(f, iwindow, ldq, stq) /\ f[i].stage = "FETCH"
    BY <1>1, <1>4, <1>8, Answered
  <2>3. /\ status \in [Ctxt -> SUBSET {"GPC_UNKNOWN", "STALL_UNTIL_EMPTY", "LDQ_FULL", "STQ_FULL"}]
        /\ \A c \in Ctxt : fetch_status[c] \subseteq status[c]
    BY <1>4 DEF Typed
  <2> HIDE DEF status, q, why, memory, n, load, store
  <2>4. ~HasStarted(f, i) /\ f[i].tid = t /\ f[i].next = None
    BY <2>2, <1>5 DEF HasStarted, Advances, SameLinks, AfterAccess
  <2>5. Followed(f, iwindow, st_buffer, retired, done)
    BY <2>2, <2>4, <1>1, <1>4, Advanced
  <2>6. traps' \in 0 .. MaxTraps
    BY <1>1, <1>4 DEF Typed
  <2>7. UNCHANGED <<st_buffer, ivec, retired, mem, done>>
    BY <1>1
  <2> QED
    BY <2>1, <2>2, <2>3, <2>4, <2>5, <2>6, <2>7, <1>3, <1>4, KillsGood
<1>7. CASE ~(memory /\ ~slot_avail(q))
  <2>1. PICK miss \in BOOLEAN :
          /\ instr' = [instr EXCEPT ![i] =
               [instr[i] EXCEPT !.stage = "DECODE", !.outstanding = {"EVENTQ"}, !.miss = miss,
                                !.lsq_slot = IF memory THEN Inserted(q, i).last_created
                                             ELSE instr[i].lsq_slot]]
          /\ fetch' = [fetch EXCEPT ![t] = Successor(instr', i)]
    BY ZenonT(40), <1>2, <1>7
  <2>2. /\ ldq' = IF load THEN Inserted(ldq, i) ELSE ldq
        /\ stq' = IF store THEN Inserted(stq, i) ELSE stq
        /\ fetch_status' = [fetch_status EXCEPT ![t] = @ \ {"GPC_UNKNOWN"}]
        /\ UNCHANGED iwindow
    BY <1>2, <1>7
  <2>3. /\ memory => slot_avail(q)
        /\ memory <=> load \/ store
        /\ ~(load /\ store)
    BY <1>4, <1>7 DEF Loads, Stores
  <2>4. /\ Sound(Instr, n, q) /\ n \in Nat \ {0} /\ i \notin Entries(q) /\ None \notin Instr
    BY <1>1, InstrAssumption, SizeAssumption DEF IInv, Shape, Queueing, Undecoded
  <2>5. memory => Inserted(q, i).last_created \in Int
    <3> HIDE DEF q, n, memory
    <3>1. slot_avail(q) => Inserted(q, i).last_created \in 0 .. n - 1
      BY <2>4, InsertedOrder
    <3> QED
      BY <3>1, <2>3, <2>4
  <2> DEFINE s == IF memory THEN Inserted(q, i).last_created ELSE instr[i].lsq_slot
             now == [instr[i] EXCEPT !.stage = "DECODE", !.outstanding = {"EVENTQ"},
                                     !.miss = miss, !.lsq_slot = s]
  <2>6. instr[i] \in Fields /\ s \in Int
    BY <2>5, <1>4 DEF Fields
  <2>7. instr' = [instr EXCEPT ![i] = now]
    BY <2>1
  <2>8. load => q = ldq /\ s = Inserted(ldq, i).last_created /\ slot_avail(ldq)
    BY <2>3
  <2>9. store => q = stq /\ s = Inserted(stq, i).last_created /\ slot_avail(stq)
    BY <2>3
  <2> HIDE DEF s, memory, q, n
  <2>26. Decodes(instr[i], now, miss, s)
    BY DEF Decodes
  <2> HIDE DEF now
  <2>10. /\ now \in Fields
         /\ now.tid = instr[i].tid /\ now.pos = instr[i].pos /\ now.op = instr[i].op
         /\ now.wrong = instr[i].wrong /\ now.slot = instr[i].slot
         /\ now.prev = instr[i].prev /\ now.next = instr[i].next
         /\ now.stage = "DECODE" /\ now.outstanding = {"EVENTQ"} /\ now.lsq_slot = s
    BY <2>6, <2>26, NowDecoded
  <2>11. instr'[i] = now /\ \A j \in Instr \ {i} : instr'[j] = instr[j]
    BY <2>7, <1>4
  <2>12. instr' \in [Instr -> Fields]
    BY <2>7, <2>10, <1>4
  <2>13. SameLinks(instr, instr', i) /\ Flying(instr', i)
    BY <2>10, <2>11 DEF SameLinks, Flying, Before
  <2>14. Advances(instr, instr', i)
    BY <2>10, <2>11, <2>12, <2>13, <1>1, <1>3 DEF Advances, InBuffer
  <2>15. ~HasStarted(instr', i)
    BY <2>10, <2>11 DEF HasStarted, AfterAccess
  <2>16. Shape(instr', iwindow', ldq', stq')
    <3>1. Shape(instr', iwindow, IF load THEN Inserted(ldq, i) ELSE ldq,
                                 IF store THEN Inserted(stq, i) ELSE stq)
      BY <2>8, <2>9, <2>10, <2>11, <2>12, <2>13, <1>1, <1>4, <1>5, Decoded DEF Undecoded
    <3> QED
      BY <3>1, <2>2
  <2>17. /\ Successor(instr', i) \in [pos : Nat, wrong : BOOLEAN]
         /\ ~Successor(instr', i).wrong =>
              ~instr'[i].wrong /\ Successor(instr', i).pos = instr'[i].pos + 1
    BY <2>10, <2>11, SuccessorIs
  <2>18. fetch'[t] = Successor(instr', i) /\ \A c \in Ctxt \ {t} : fetch'[c] = fetch[c]
    BY <2>1, <1>4 DEF Typed
  <2>19. fetch' \in [Ctxt -> [pos : Nat, wrong : BOOLEAN]]
    BY <2>1, <2>17, <1>4 DEF Typed
  <2>20. /\ fetch_status' \in
              [Ctxt -> SUBSET {"GPC_UNKNOWN", "STALL_UNTIL_EMPTY", "LDQ_FULL", "STQ_FULL"}]
         /\ \A c \in Ctxt \ {t} : fetch_status'[c] = fetch_status[c]
    BY <2>2, <1>4 DEF Typed
  <2>21. Typed'
    BY <2>19, <2>20, <1>1, <1>4 DEF Typed
  <2>22. Front(instr', iwindow, fetch', fetch_status', retired, t)
    <3>1. ~fetch'[t].wrong => ~instr[i].wrong /\ fetch'[t].pos = instr[i].pos + 1
      BY <2>10, <2>11, <2>17, <2>18
    <3>2. instr'[i].stage = "DECODE" /\ t = instr[i].tid
      BY <2>10, <2>11
    <3>3. "DECODE" \notin Undecoded \union Faulty
      BY DEF Undecoded, Faulty, Exceptions, SpecExceptions
    <3> HIDE DEF t
    <3> QED
      BY <3>1, <3>2, <3>3, <2>14, <1>4, <1>5, YoungestFront
  <2>23. \A c \in Ctxt : \/ Front(instr', iwindow, fetch', fetch_status', retired, c)
                         \/ /\ ~Flying(instr, i) \/ instr[i].tid # c
                            /\ fetch'[c] = fetch[c] /\ fetch_status[c] \subseteq fetch_status'[c]
    BY <2>18, <2>20, <2>22
  <2>24. UNCHANGED <<iwindow, st_buffer, retired, mem, done>>
    BY <2>2, <1>1
  <2>25. instr'[i].stage = "DECODE"
    BY <2>10, <2>11
  <2> QED
    BY SMTT(30), <2>14, <2>15, <2>16, <2>21, <2>23, <2>24, <2>25, <1>1, <1>3, QuietGood
<1> QED
  BY SMTT(30), <1>6, <1>7
-----------------------------------------------------------------------------
(* The actions that take the oldest instruction of a context out.          *)
LEMMA DeadIs ==
  /\ Dead \in Fields /\ Dead.outstanding = {} /\ Dead.stage = "END"
  /\ Dead.stage \notin Before \union PastExecute \union InBuffer
BY DEF Dead, Fields, NoOp, Before, PastExecute, Faulty, Exceptions, SpecExceptions, InBuffer

Enters(left, t, p, op) ==
  left = [Dead EXCEPT !.tid = t, !.pos = p, !.op = op, !.stage = "INSERT"]
LEMMA EntersIs ==
  ASSUME NEW t \in Ctxt, NEW p \in Nat, NEW op \in Ops, NEW left, Enters(left, t, p, op)
  PROVE  /\ left \in Fields /\ left.outstanding = {} /\ left.stage = "INSERT"
         /\ left.tid = t /\ left.pos = p /\ left.op = op
         /\ left.stage \notin Before \union PastExecute
<1>1. left = [tid |-> t, pos |-> p, op |-> op, wrong |-> FALSE, miss |-> FALSE,
              stage |-> "INSERT", slot |-> -1, lsq_slot |-> -1, prev |-> None,
              next |-> None, outstanding |-> {}]
  BY DEF Enters, Dead
<1> QED
  BY <1>1 DEF Fields, Before, PastExecute, Faulty, Exceptions, SpecExceptions, InBuffer

(* What stays: only those right behind i have a new predecessor, none.     *)
Rest(i) ==
  /\ \A j \in Instr \ {i} : Same(instr, instr', j)
  /\ Entries(iwindow') = Entries(iwindow) \ {i}
  /\ \A j \in Entries(iwindow') :
       /\ j \in Instr /\ j # i
       /\ instr'[j].prev = IF instr[j].prev = i THEN None ELSE instr[j].prev
       /\ instr'[j].next = instr[j].next
       /\ First(instr, iwindow, j) => First(instr', iwindow', j)
       /\ instr[j].tid = instr[i].tid => instr[j].prev # None /\ ~HasStarted(instr, j)
       /\ instr[j].prev = i => instr[j].tid = instr[i].tid

LEMMA WhatRests ==
  ASSUME IInv, NEW t, NEW i, Oldest(t, i), NEW left, Gone(i, left)
  PROVE  Rest(i)
<1>1. /\ Shape(instr, iwindow, ldq, stq) /\ StartedFirst(instr, iwindow)
      /\ Entries(iwindow) \subseteq Instr /\ None \notin Instr
  BY InstrAssumption DEF IInv, Followed, Shape
<1>2. i \in Entries(iwindow) /\ i \in Instr /\ First(instr, iwindow, i)
  BY <1>1, OldestFirst
<1>3. /\ \A j \in Instr \ {i} :
           /\ Same(instr, instr', j)
           /\ instr'[j].prev = IF instr[j].prev = i THEN None ELSE instr[j].prev
           /\ instr'[j].next = IF instr[j].next = i THEN None ELSE instr[j].next
      /\ Entries(iwindow') = Entries(iwindow) \ {i}
      /\ \A a, b \in Entries(iwindow') : Older(iwindow', a, b) <=> Older(iwindow, a, b)
  BY DEF Gone, Unlinks
<1>4. ASSUME NEW j \in Entries(iwindow')
      PROVE  /\ j \in Instr /\ j # i
             /\ instr'[j].prev = IF instr[j].prev = i THEN None ELSE instr[j].prev
             /\ instr'[j].next = instr[j].next
             /\ First(instr, iwindow, j) => First(instr', iwindow', j)
             /\ instr[j].tid = instr[i].tid => instr[j].prev # None /\ ~HasStarted(instr, j)
             /\ instr[j].prev = i => instr[j].tid = instr[i].tid
  <2>1. j \in Entries(iwindow) /\ j # i /\ j \in Instr
    BY <1>1, <1>3
  <2>2. Ends(instr, iwindow, j)
    BY <2>1, <1>1, EndsAre
  <2>3. instr[j].next # i
    <3>1. SUFFICES ASSUME instr[j].next = i PROVE FALSE
      OBVIOUS
    <3>2. Behind(instr, iwindow, j, i)
      BY <3>1, <2>2, <1>1, <1>2 DEF Ends
    <3> QED
      BY <3>2, <1>2 DEF Behind, First
  <2>4. \A k \in Entries(iwindow') : instr'[k].tid = instr[k].tid /\ k \in Entries(iwindow)
    BY <1>1, <1>3 DEF Same
  <2>5. First(instr, iwindow, j) => First(instr', iwindow', j)
    BY <2>4, <1>3 DEF First
  <2>6. instr[j].tid = instr[i].tid => ~First(instr, iwindow, j)
    BY <2>1, <2>2, <1>2 DEF Ends
  <2>7. instr[j].tid = instr[i].tid => instr[j].prev # None /\ ~HasStarted(instr, j)
    BY <2>1, <2>2, <2>6, <1>1 DEF Ends, StartedFirst
  <2>8. instr[j].prev = i => instr[j].tid = instr[i].tid
    BY <2>2, <1>1, <1>2 DEF Ends, Behind
  <2> QED
    BY <2>1, <2>3, <2>5, <2>7, <2>8, <1>3
<1> QED
  BY <1>3, <1>4 DEF Rest

(* The contexts that i is not of, and what the stages of the rest say. *)
LEMMA RestFronts ==
  ASSUME IInv, NEW i \in Entries(iwindow), Rest(i), NEW c \in Ctxt, c # instr[i].tid,
         UNCHANGED <<fetch[c], retired[c]>>, fetch_status[c] \subseteq fetch_status'[c]
  PROVE  Front(instr', iwindow', fetch', fetch_status', retired', c)
<1>1. Front(instr, iwindow, fetch, fetch_status, retired, c)
  BY DEF IInv
<1>2. /\ \A j \in Instr \ {i} : Same(instr, instr', j)
      /\ Entries(iwindow') = Entries(iwindow) \ {i}
      /\ \A j \in Entries(iwindow') : j \in Instr /\ j # i /\ instr'[j].next = instr[j].next
  BY DEF Rest
<1>3. \A j : j \in Entries(iwindow') /\ instr'[j].tid = c <=>
               j \in Entries(iwindow) /\ instr[j].tid = c
  BY <1>2 DEF Same
<1>4. \A j \in Entries(iwindow) : instr[j].tid = c =>
        /\ instr'[j].pos = instr[j].pos /\ instr'[j].wrong = instr[j].wrong
        /\ instr'[j].stage = instr[j].stage /\ instr'[j].next = instr[j].next
  BY <1>2 DEF Same
<1> QED
  BY <1>1, <1>3, <1>4, FrontKept

LEMMA RestStarted ==
  ASSUME IInv, NEW i, Rest(i)
  PROVE  StartedFirst(instr', iwindow')
<1>1. StartedFirst(instr, iwindow)
  BY DEF IInv, Followed
<1>2. ASSUME NEW j \in Entries(iwindow')
      PROVE  /\ j \in Entries(iwindow)
             /\ instr'[j].op = instr[j].op /\ instr'[j].wrong = instr[j].wrong
             /\ instr'[j].stage = instr[j].stage
             /\ First(instr, iwindow, j) => First(instr', iwindow', j)
  BY <1>2 DEF Rest, Same
<1> QED
  BY <1>1, <1>2 DEF StartedFirst, HasStarted

(* Course after the oldest has left, having retired or as the only one. *)
LEMMA RestCourse ==
  ASSUME IInv, NEW i \in Entries(iwindow), Rest(i),
         \/ retired' = [retired EXCEPT ![instr[i].tid] = instr[i].pos] /\ ~instr[i].wrong
         \/ retired' = retired /\ \A j \in Entries(iwindow') : instr[j].tid # instr[i].tid
  PROVE  Course(instr', iwindow', retired')
<1>1. Course(instr, iwindow, retired) /\ Links(instr, iwindow) /\ Typed /\ Calm(instr)
      /\ Entries(iwindow) = {j \in Instr : Flying(instr, j)}
  BY DEF IInv, Followed, Shape
<1>2. ASSUME NEW j \in Entries(iwindow')
      PROVE  /\ j \in Entries(iwindow) /\ j \in Instr /\ j # i
             /\ instr'[j].tid = instr[j].tid /\ instr'[j].pos = instr[j].pos
             /\ instr'[j].op = instr[j].op /\ instr'[j].wrong = instr[j].wrong
             /\ instr'[j].prev = IF instr[j].prev = i THEN None ELSE instr[j].prev
             /\ instr[j].tid = instr[i].tid => instr[j].prev # None
             /\ instr[j].prev = i => instr[j].tid = instr[i].tid
  BY <1>2 DEF Rest, Same
<1>3. \A j \in Instr \ {i} : instr'[j].pos = instr[j].pos /\ instr'[j].wrong = instr[j].wrong
  BY DEF Rest, Same
<1> SUFFICES ASSUME NEW j \in Entries(iwindow'), ~instr'[j].wrong
             PROVE  /\ instr'[j].pos \in DOMAIN Program[instr'[j].tid]
                    /\ instr'[j].op = Program[instr'[j].tid][instr'[j].pos]
                    /\ IF instr'[j].prev = None
                       THEN instr'[j].pos = retired'[instr'[j].tid] + 1
                       ELSE /\ ~instr'[instr'[j].prev].wrong
                            /\ instr'[j].pos = instr'[instr'[j].prev].pos + 1
  BY DEF Course
<1>4. /\ instr[j].pos \in DOMAIN Program[instr[j].tid]
      /\ instr[j].op = Program[instr[j].tid][instr[j].pos]
      /\ IF instr[j].prev = None THEN instr[j].pos = retired[instr[j].tid] + 1
         ELSE ~instr[instr[j].prev].wrong /\ instr[j].pos = instr[instr[j].prev].pos + 1
  BY <1>1, <1>2 DEF Course
<1>5. instr[j].tid \in Ctxt /\ instr[i].tid \in Ctxt
  BY <1>1, <1>2 DEF Calm
<1>6. CASE instr[j].prev = None
  <2>1. instr[j].tid # instr[i].tid /\ instr'[j].prev = None
    BY <1>2, <1>6
  <2>2. retired'[instr[j].tid] = retired[instr[j].tid]
    BY <2>1, <1>1, <1>5 DEF Typed
  <2> QED
    BY <2>1, <2>2, <1>2, <1>4, <1>6
<1>7. CASE instr[j].prev = i /\ instr[j].prev # None
  <2>1. instr'[j].prev = None /\ instr[j].tid = instr[i].tid
    BY <1>2, <1>7
  <2>2. retired'[instr[j].tid] = instr[i].pos
    BY <2>1, <1>1, <1>5 DEF Typed
  <2> QED
    BY <2>1, <2>2, <1>2, <1>4, <1>7
<1>8. CASE instr[j].prev # i /\ instr[j].prev # None
  <2>1. instr[j].prev \in Instr \ {i} /\ instr'[j].prev = instr[j].prev
    BY <1>1, <1>2, <1>8 DEF Links, Behind
  <2> QED
    BY <2>1, <1>2, <1>3, <1>4, <1>8
<1> QED
  BY <1>6, <1>7, <1>8

LEMMA RetireFaultGood ==
  ASSUME IInv, NEW t \in Ctxt, NEW i \in Instr, RetireFault(t, i) PROVE Good
<1>1. /\ Oldest(t, i) /\ ~instr[i].wrong
      /\ UNCHANGED <<st_buffer, ivec, retired, mem, done, traps>>
      /\ instr[i].stage \in Faulty
  BY DEF RetireFault, Faulty
<1>2. Flying(instr, i) /\ instr[i].stage # "COMMIT"
  BY <1>1 DEF Flying, PastExecute, Faulty, Exceptions, SpecExceptions
<1>3. /\ instr \in [Instr -> Fields] /\ Typed /\ Shape(instr, iwindow, ldq, stq)
      /\ instr[i].outstanding \in {{}, {"EVENTQ"}, {"MEM_HIER"}}
      /\ \A c \in Ctxt : Front(instr, iwindow, fetch, fetch_status, retired, c)
      /\ i \in Entries(iwindow)
      /\ \A j \in Entries(iwindow) : instr[j].tid = instr[i].tid /\ instr[j].next # None =>
           instr[j].stage \notin Undecoded \union Faulty
  BY <1>2, InPlace
<1>4. /\ Buffered(instr, st_buffer, retired) /\ Ends(instr, iwindow, i)
      /\ DoneTrue(instr, iwindow, st_buffer, retired, done)
      /\ Entries(iwindow) = {j \in Instr : Flying(instr, j)}
      /\ StartedFirst(instr, iwindow)
  BY <1>2, Facts
<1>5. /\ instr[i].tid = t /\ First(instr, iwindow, i)
      /\ \A k \in Entries(iwindow) : instr[k].tid = t => k = i \/ Older(iwindow, i, k)
  BY <1>1, <1>3, OldestFirst
<1>6. instr[i].next = None
  BY <1>1, <1>3, <1>5 DEF Front
<1>7. CASE instr[i].stage \in SpecExceptions
  <2> DEFINE b == CASE instr[i].stage = SpecException("FETCH") -> "FETCH"
                    [] instr[i].stage = SpecException("EXECUTE") -> "WAIT"
                    [] OTHER -> "REEXEC"
             o == CASE instr[i].stage = SpecException("FETCH") -> {"MEM_HIER"}
                    [] instr[i].stage = SpecException("EXECUTE") -> {}
                    [] OTHER -> {"EVENTQ"}
  <2>1. /\ instr' = [instr EXCEPT ![i].stage = b, ![i].outstanding = o]
        /\ fetch_status' = [fetch_status EXCEPT ![t] = @ \ {"STALL_UNTIL_EMPTY"}]
        /\ UNCHANGED <<iwindow, ldq, stq, fetch>>
    <3>1. instr[i].stage \notin Exceptions
      BY <1>7 DEF Exceptions, SpecExceptions
    <3> QED
      BY <3>1, <1>3, <1>7 DEF RetireFault, queues
  <2>11. /\ b \in {"FETCH", "WAIT", "REEXEC"} /\ o \in {{}, {"EVENTQ"}, {"MEM_HIER"}}
         /\ b \in Undecoded <=> instr[i].stage \in Undecoded
         /\ b \in AfterAccess <=> instr[i].stage \in AfterAccess
    BY <1>7 DEF SpecExceptions, SpecException, Undecoded, AfterAccess
  <2> HIDE DEF b, o
  <2>12. b \notin Faulty \union {"SAFE", "MEM", "PROGRESS", "COMMIT"}
    BY <2>11 DEF Faulty, Exceptions, SpecExceptions
  <2>2. Goes(instr, instr', i) /\ Advances(instr, instr', i) /\ instr'[i].stage = b
    <3>1. Becomes(instr, instr', i, b)
      BY <2>1, <2>11 DEF Becomes
    <3>2. Into(instr, i, b)
      BY <2>11, <1>2, <1>3 DEF Into, Before, PastExecute
    <3> QED
      BY <3>1, <3>2, GoesOut
  <2>3. Shape(instr', iwindow', ldq', stq')
    BY <2>1, <2>2, <1>3, StepShape
  <2>4. Typed'
    <3>1. fetch_status' \in
            [Ctxt -> SUBSET {"GPC_UNKNOWN", "STALL_UNTIL_EMPTY", "LDQ_FULL", "STQ_FULL"}]
      BY <2>1, <1>3 DEF Typed
    <3> QED
      BY <3>1, <2>1, <1>1, <1>3 DEF Typed
  <2>5. \A c \in Ctxt \ {t} : fetch_status'[c] = fetch_status[c]
    BY <2>1, <1>3 DEF Typed
  <2>6. /\ instr[i].stage \notin Undecoded /\ ~fetch[t].wrong =>
             ~instr[i].wrong /\ fetch[t].pos = instr[i].pos + 1
        /\ instr[i].stage \in Undecoded => "GPC_UNKNOWN" \in fetch_status'[t]
    <3>1. fetch_status'[t] = fetch_status[t] \ {"STALL_UNTIL_EMPTY"}
      BY <2>1, <1>3 DEF Typed
    <3> QED
      BY <3>1, <1>3, <1>5, <1>6 DEF Front
  <2>7. Front(instr', iwindow, fetch', fetch_status', retired, t)
    <3>1. /\ instr'[i].stage \notin Undecoded /\ ~fetch[t].wrong =>
               ~instr[i].wrong /\ fetch[t].pos = instr[i].pos + 1
          /\ instr'[i].stage \in Undecoded => "GPC_UNKNOWN" \in fetch_status'[t]
          /\ instr'[i].stage \notin Faulty
      BY <2>2, <2>6, <2>11, <2>12
    <3>2. fetch' = fetch /\ Advances(instr, instr', i) /\ t = instr[i].tid
      BY <2>1, <2>2, <1>5
    <3> QED
      BY <3>1, <3>2, <1>3, <1>6, YoungestFront
  <2>8. \A c \in Ctxt : \/ Front(instr', iwindow, fetch', fetch_status', retired, c)
                        \/ /\ ~Flying(instr, i) \/ instr[i].tid # c
                           /\ fetch'[c] = fetch[c] /\ fetch_status[c] \subseteq fetch_status'[c]
    BY <2>1, <2>5, <2>7, <1>5
  <2>9. /\ HasStarted(instr', i) <=> HasStarted(instr, i)
        /\ HasStarted(instr, i) => \A j \in Entries(st_buffer) : instr[j].tid # instr[i].tid
    BY <2>2, <2>11, <1>4 DEF HasStarted, Advances, Buffered
  <2>10. UNCHANGED <<iwindow, st_buffer, retired, mem, done>>
    BY <2>1, <1>1
  <2> QED
    BY <2>2, <2>3, <2>4, <2>8, <2>9, <2>10, <2>12, <1>1, <1>2, <1>5, QuietGood
<1>8. CASE instr[i].stage \in Exceptions
  <2>1. /\ Dequeue(i, Dead)
        /\ fetch' = [fetch EXCEPT ![t] = Committed(t)]
        /\ fetch_status' = [fetch_status EXCEPT ![t] = @ \ {"GPC_UNKNOWN"}]
    <3>1. instr[i].stage \notin SpecExceptions
      BY <1>8 DEF Exceptions, SpecExceptions
    <3> QED
      BY <3>1, <1>8 DEF RetireFault
  <2>2. Gone(i, Dead)
    BY <2>1, <1>1, <1>3, Dequeued, DeadIs
  <2>3. Rest(i) /\ instr'[i].stage = "END" /\ Shape(instr', iwindow', ldq', stq')
    BY <2>2, <1>1, DeadIs, WhatRests DEF Gone
  <2>4. \A j \in Entries(iwindow') : instr[j].tid # t /\ instr'[j].tid # t
    <3> SUFFICES ASSUME NEW j \in Entries(iwindow'), instr[j].tid = t PROVE FALSE
      BY <2>3 DEF Rest, Same
    <3>1. j \in Entries(iwindow) /\ j # i
      BY <2>3 DEF Rest
    <3> QED
      BY <3>1, <1>4, <1>5, <1>6 DEF Ends, Last
  <2>5. \A j \in Instr \ {i} :
          /\ instr'[j].tid = instr[j].tid /\ instr'[j].pos = instr[j].pos
          /\ instr'[j].op = instr[j].op /\ instr'[j].stage = instr[j].stage
    BY <2>3 DEF Rest, Same
  <2>6. \A j \in Instr : HasStarted(instr', j) <=> j # i /\ HasStarted(instr, j)
    BY <2>3, <2>5 DEF HasStarted, AfterAccess
  <2>7. StartedFirst(instr', iwindow') /\ Course(instr', iwindow', retired')
    BY <2>3, <2>4, <1>1, <1>3, <1>5, RestStarted, RestCourse
  <2>8. \A j \in Entries(st_buffer) : j \in Instr \ {i}
    BY <1>4, <1>8 DEF Buffered, InBuffer, Exceptions
  <2>9. Buffered(instr', st_buffer', retired')
    <3>1. \A j \in Instr : instr'[j].stage \in InBuffer <=> instr[j].stage \in InBuffer
      BY <2>3, <2>5, <1>8 DEF InBuffer, Exceptions
    <3> QED
      BY <3>1, <2>5, <2>6, <2>8, <1>1, <1>2, <1>4 DEF Buffered
  <2>10. DoneTrue(instr', iwindow', st_buffer', retired', done')
    <3>1. ASSUME NEW c, NEW p
          PROVE  Took(instr', iwindow', st_buffer', retired', c, p)
                   <=> Took(instr, iwindow, st_buffer, retired, c, p)
      <4>1. (\E j \in Entries(iwindow') : /\ instr'[j].tid = c /\ instr'[j].pos = p
                                          /\ instr'[j].op.kind = "load" /\ instr'[j].stage = "COMMIT")
            <=> \E j \in Entries(iwindow) : /\ instr[j].tid = c /\ instr[j].pos = p
                                            /\ instr[j].op.kind = "load" /\ instr[j].stage = "COMMIT"
        BY <2>3, <2>5, <1>2 DEF Rest
      <4> QED
        BY <4>1, <2>5, <2>8, <1>1 DEF Took
    <3> QED
      BY <3>1, <1>1, <1>4 DEF DoneTrue
  <2>11. Typed'
    <3>1. Committed(t) \in [pos : Nat, wrong : BOOLEAN]
      BY <1>3 DEF Typed, Committed
    <3>2. fetch' \in [Ctxt -> [pos : Nat, wrong : BOOLEAN]]
      BY <3>1, <2>1, <1>3 DEF Typed
    <3>3. fetch_status' \in
            [Ctxt -> SUBSET {"GPC_UNKNOWN", "STALL_UNTIL_EMPTY", "LDQ_FULL", "STQ_FULL"}]
      BY <2>1, <1>3 DEF Typed
    <3> QED
      BY <3>2, <3>3, <1>1, <1>3 DEF Typed
  <2>12. ASSUME NEW c \in Ctxt
         PROVE  Front(instr', iwindow', fetch', fetch_status', retired', c)
    <3>1. CASE c = t
      <4>1. fetch'[t].pos = retired'[t] + 1
        BY <2>1, <1>1, <1>3 DEF Typed, Committed
      <4> QED
        BY <4>1, <3>1, <2>4 DEF Front
    <3>2. CASE c # t
      <4>1. fetch'[c] = fetch[c] /\ fetch_status'[c] = fetch_status[c] /\ retired'[c] = retired[c]
        BY <3>2, <2>1, <1>1, <1>3 DEF Typed
      <4> QED
        BY <4>1, <3>2, <2>3, <1>3, <1>5, RestFronts
    <3> QED
      BY <3>1, <3>2
  <2>13. IInv'
    BY <2>3, <2>7, <2>9, <2>10, <2>11, <2>12 DEF IInv, Followed
  <2>14. HasStarted(instr, i) => Refetched(i)
    <3>1. HasStarted(instr, i) => instr[i].stage = Exception("REEXEC")
      BY <1>8 DEF HasStarted, AfterAccess, Exceptions, Exception
    <3>2. instr[i].pos = retired[t] + 1
      BY <1>1, <1>3, <1>5, OldestNext
    <3>3. fetch'[t] = Committed(t)
      BY <2>1, <1>3 DEF Typed
    <3>4. fetch'[instr[i].tid] = [pos |-> instr[i].pos, wrong |-> FALSE]
      BY <3>2, <3>3, <1>5 DEF Committed
    <3> QED
      BY <3>1, <3>4 DEF Refetched
  <2>15. Kept /\ UNCHANGED Memory!vars
    BY <2>6, <2>14, <1>1 DEF Kept, Memory!vars
  <2> QED
    BY <2>13, <2>15 DEF Good
<1> QED
  BY <1>1, <1>7, <1>8 DEF Faulty

(* Retire(): what it is to the proof. *)
Retires(t, i) ==
  /\ Shape(instr', iwindow', ldq', stq') /\ Rest(i)
  /\ i \in Entries(iwindow) /\ i \in Instr /\ instr[i].tid = t /\ First(instr, iwindow, i)
  /\ ~instr[i].wrong /\ instr[i].stage = "COMMIT"
  /\ instr[i].pos \in DOMAIN Program[t] /\ instr[i].op = Program[t][instr[i].pos]
  /\ instr[i].pos = retired[t] + 1 /\ retired[t] \in Nat
  /\ \A q \in Memory!MemoryOps(t) : q \in Nat
  /\ instr[i].op.kind \in {"branch", "load", "store", "unsafe"}
  /\ retired' = [retired EXCEPT ![t] = instr[i].pos] /\ retired'[t] = instr[i].pos
  /\ \A c \in Ctxt \ {t} : retired'[c] = retired[c]
  /\ instr[i].op.kind = "store" =>
       /\ instr'[i].stage = "INSERT" /\ instr'[i].tid = t /\ instr'[i].op = instr[i].op
       /\ instr'[i].pos = instr[i].pos
       /\ slot_avail(st_buffer) /\ st_buffer' = Inserted(st_buffer, i)
  /\ instr[i].op.kind # "store" => instr'[i].stage = "END" /\ st_buffer' = st_buffer
  /\ UNCHANGED <<fetch, fetch_status, ivec, traps>>
  /\ instr[i].op.kind \in {"load", "unsafe"} =>
       \A j \in Entries(st_buffer) : instr[j].tid # t

LEMMA RetireIs ==
  ASSUME IInv, NEW t \in Ctxt, NEW i \in Instr, Retire(t, i)
  PROVE  Retires(t, i)
<1> DEFINE left == [Dead EXCEPT !.tid = t, !.pos = instr[i].pos,
                                !.op = instr[i].op, !.stage = "INSERT"]
<1>1. /\ Oldest(t, i) /\ ~instr[i].wrong /\ instr[i].stage = "COMMIT"
      /\ instr[i].op.kind = "store" =>
           slot_avail(st_buffer) /\ Dequeue(i, left) /\ st_buffer' = Inserted(st_buffer, i)
      /\ instr[i].op.kind # "store" => Dequeue(i, Dead) /\ st_buffer' = st_buffer
      /\ instr[i].op.kind = "unsafe" => empty_ctxt(st_buffer, t)
      /\ retired' = [retired EXCEPT ![t] = instr[i].pos]
      /\ UNCHANGED <<fetch, fetch_status, ivec, traps>>
  BY DEF Retire, full
<1>2. Flying(instr, i) /\ instr[i].stage \notin Undecoded
  BY <1>1 DEF Flying, PastExecute, Faulty, Exceptions, SpecExceptions, Undecoded
<1>3. /\ Typed /\ Shape(instr, iwindow, ldq, stq) /\ i \in Entries(iwindow)
      /\ instr[i].tid \in Ctxt /\ instr[i].op \in Ops
      /\ instr[i].op.kind \in {"branch", "load", "store", "unsafe"}
      /\ Buffered(instr, st_buffer, retired)
  BY <1>2, InPlace, Facts
<1>4. instr[i].tid = t /\ First(instr, iwindow, i)
  BY <1>1, <1>3, OldestFirst
<1>5. /\ instr[i].pos \in DOMAIN Program[t] /\ instr[i].op = Program[t][instr[i].pos]
      /\ retired[t] \in Nat /\ instr[i].pos = retired[t] + 1
      /\ \A q \in Memory!MemoryOps(t) : q \in Nat
  BY <1>1, <1>3, <1>4, OldestNext
<1>6. retired'[t] = instr[i].pos /\ \A c \in Ctxt \ {t} : retired'[c] = retired[c]
  BY <1>1, <1>3 DEF Typed
<1>7. instr[i].op.kind \in {"load", "unsafe"} => \A j \in Entries(st_buffer) : instr[j].tid # t
  <2>1. CASE instr[i].op.kind = "load"
    BY <2>1, <1>1, <1>3, <1>4 DEF Buffered, HasStarted, AfterAccess
  <2>2. CASE instr[i].op.kind = "unsafe"
    <3>1. Sound(Instr, stbuf_size, st_buffer) /\ stbuf_size \in Nat \ {0}
      BY <1>3, SizeAssumption DEF Buffered
    <3> QED
      BY <3>1, <2>2, <1>1, OwnIs
  <2> QED
    BY <2>1, <2>2
<1>8. CASE instr[i].op.kind = "store"
  <2>1. Enters(left, t, instr[i].pos, instr[i].op) /\ instr[i].pos \in Nat
    BY <1>5 DEF Enters
  <2> HIDE DEF left
  <2>2. /\ left \in Fields /\ left.outstanding = {} /\ left.stage = "INSERT"
        /\ left.tid = t /\ left.pos = instr[i].pos /\ left.op = instr[i].op
        /\ left.stage \notin Before \union PastExecute
    BY <2>1, <1>3, EntersIs
  <2>3. Gone(i, left)
    BY <2>2, <1>1, <1>2, <1>3, <1>8, Dequeued
  <2>4. Rest(i)
    BY <2>3, <1>1, WhatRests
  <2> QED
    BY <2>2, <2>3, <2>4, <1>1, <1>3, <1>4, <1>5, <1>6, <1>7, <1>8 DEF Retires, Gone
<1>9. CASE instr[i].op.kind # "store"
  <2>1. Gone(i, Dead)
    BY <1>1, <1>2, <1>3, <1>9, Dequeued, DeadIs
  <2>2. Rest(i)
    BY <2>1, <1>1, DeadIs, WhatRests
  <2>3. instr'[i].stage = "END"
    BY <2>1, DeadIs DEF Gone
  <2> QED
    BY <2>1, <2>2, <2>3, <1>1, <1>3, <1>4, <1>5, <1>6, <1>7, <1>9 DEF Retires, Gone
<1> QED
  BY <1>8, <1>9

LEMMA RetireBuffered ==
  ASSUME IInv, NEW t \in Ctxt, NEW i, Retires(t, i)
  PROVE  Buffered(instr', st_buffer', retired')
<1>1. /\ Rest(i) /\ i \in Instr /\ instr[i].tid = t /\ instr[i].stage = "COMMIT"
      /\ instr[i].pos \in DOMAIN Program[t] /\ instr[i].op = Program[t][instr[i].pos]
      /\ instr[i].pos = retired[t] + 1 /\ retired[t] \in Nat
      /\ retired'[t] = instr[i].pos /\ \A c \in Ctxt \ {t} : retired'[c] = retired[c]
      /\ instr[i].op.kind = "store" =>
           /\ instr'[i].stage = "INSERT" /\ instr'[i].tid = t /\ instr'[i].op = instr[i].op
           /\ instr'[i].pos = instr[i].pos
           /\ slot_avail(st_buffer) /\ st_buffer' = Inserted(st_buffer, i)
      /\ instr[i].op.kind # "store" => instr'[i].stage = "END" /\ st_buffer' = st_buffer
  BY DEF Retires
<1>2. \A j \in Instr \ {i} :
        /\ instr'[j].tid = instr[j].tid /\ instr'[j].pos = instr[j].pos
        /\ instr'[j].op = instr[j].op /\ instr'[j].stage = instr[j].stage
  BY <1>1 DEF Rest, Same
<1>3. /\ Sound(Instr, stbuf_size, st_buffer)
      /\ Entries(st_buffer) = {j \in Instr : instr[j].stage \in InBuffer}
      /\ \A j \in Entries(st_buffer) :
           /\ instr[j].tid \in Ctxt /\ instr[j].pos \in DOMAIN Program[instr[j].tid]
           /\ instr[j].pos <= retired[instr[j].tid]
           /\ instr[j].op = Program[instr[j].tid][instr[j].pos] /\ instr[j].op.kind = "store"
      /\ \A j, k \in Entries(st_buffer) :
           instr[j].tid = instr[k].tid /\ Older(st_buffer, j, k) => instr[j].pos < instr[k].pos
      /\ \A j \in Instr : HasStarted(instr, j) =>
           \A k \in Entries(st_buffer) : instr[k].tid # instr[j].tid
  BY DEF IInv, Followed, Buffered
<1>4. \A j \in Entries(st_buffer) : j \in Instr \ {i}
  BY <1>1, <1>3 DEF InBuffer
<1>5. \A j \in Entries(st_buffer) : instr[j].pos \in Nat /\ retired[instr[j].tid] \in Nat
  <2> TAKE j \in Entries(st_buffer)
  <2>1. j \in Instr /\ instr[j].tid \in Ctxt
    BY <1>3, <1>4
  <2>2. instr \in [Instr -> Fields] /\ retired \in [Ctxt -> Nat]
    BY DEF IInv, Shape, Calm, Typed
  <2>3. instr[j] \in Fields
    BY <2>1, <2>2
  <2> QED
    BY <2>1, <2>2, <2>3 DEF Fields
<1>6. \A j \in Entries(st_buffer) : instr[j].pos <= retired'[instr[j].tid]
  <2> TAKE j \in Entries(st_buffer)
  <2>1. instr[j].pos <= retired[instr[j].tid] /\ instr[j].tid \in Ctxt
    BY <1>3
  <2> QED
    BY <2>1, <1>1, <1>5
<1>7. \A j \in Instr : HasStarted(instr', j) => j # i /\ HasStarted(instr, j)
  BY <1>1, <1>2 DEF HasStarted, AfterAccess
<1>8. CASE instr[i].op.kind # "store"
  <2>1. st_buffer' = st_buffer /\ instr'[i].stage = "END"
    BY <1>1, <1>8
  <2>2. Entries(st_buffer) = {j \in Instr : instr'[j].stage \in InBuffer}
    BY <2>1, <1>1, <1>2, <1>3 DEF InBuffer
  <2>3. \A j \in Instr : HasStarted(instr', j) =>
          \A k \in Entries(st_buffer) : instr'[k].tid # instr'[j].tid
    BY <1>2, <1>3, <1>4, <1>7
  <2>4. \A j \in Entries(st_buffer) :
          /\ instr'[j].tid \in Ctxt /\ instr'[j].pos \in DOMAIN Program[instr'[j].tid]
          /\ instr'[j].pos <= retired'[instr'[j].tid]
          /\ instr'[j].op = Program[instr'[j].tid][instr'[j].pos] /\ instr'[j].op.kind = "store"
    BY <1>2, <1>3, <1>4, <1>6
  <2>5. \A j, k \in Entries(st_buffer) :
          instr'[j].tid = instr'[k].tid /\ Older(st_buffer, j, k) => instr'[j].pos < instr'[k].pos
    BY <1>2, <1>3, <1>4
  <2> QED
    BY <2>1, <2>2, <2>3, <2>4, <2>5, <1>3 DEF Buffered
<1>9. CASE instr[i].op.kind = "store"
  <2> DEFINE b == Inserted(st_buffer, i)
  <2>1. /\ st_buffer' = b /\ instr'[i].stage = "INSERT" /\ instr'[i].tid = t
        /\ instr'[i].op = instr[i].op /\ instr'[i].pos = instr[i].pos
    BY <1>1, <1>9
  <2>2. i \notin Entries(st_buffer) /\ stbuf_size \in Nat \ {0} /\ None \notin Instr
    BY <1>4, SizeAssumption, InstrAssumption
  <2>3. /\ Sound(Instr, stbuf_size, b) /\ Entries(b) = Entries(st_buffer) \union {i}
        /\ \A a, c : Older(b, a, c) <=> Older(st_buffer, a, c) \/ (a \in Entries(st_buffer) /\ c = i)
    <3>1. slot_avail(st_buffer) /\ Sound(Instr, stbuf_size, st_buffer) /\ i \in Instr
      BY <1>1, <1>3, <1>9
    <3> QED
      BY <3>1, <2>2, InsertedOrder
  <2> HIDE DEF b
  <2>4. Entries(b) = {j \in Instr : instr'[j].stage \in InBuffer}
    BY <2>1, <2>3, <1>1, <1>2, <1>3 DEF InBuffer
  <2>5. \A j \in Entries(b) :
          /\ instr'[j].tid \in Ctxt /\ instr'[j].pos \in DOMAIN Program[instr'[j].tid]
          /\ instr'[j].pos <= retired'[instr'[j].tid]
          /\ instr'[j].op = Program[instr'[j].tid][instr'[j].pos] /\ instr'[j].op.kind = "store"
    <3> TAKE j \in Entries(b)
    <3>1. CASE j = i
      BY <3>1, <2>1, <1>1, <1>9
    <3>2. CASE j # i
      BY <3>2, <2>3, <1>2, <1>3, <1>4, <1>6
    <3> QED
      BY <3>1, <3>2
  <2>6. \A j, k \in Entries(b) :
          instr'[j].tid = instr'[k].tid /\ Older(b, j, k) => instr'[j].pos < instr'[k].pos
    <3> TAKE j, k \in Entries(b)
    <3> SUFFICES ASSUME instr'[j].tid = instr'[k].tid, Older(b, j, k)
                 PROVE  instr'[j].pos < instr'[k].pos
      OBVIOUS
    <3>1. CASE Older(st_buffer, j, k)
      <4>1. Lined(st_buffer)
        BY <1>3, <2>2, InLine DEF Sound
      <4>2. j \in Entries(st_buffer) /\ k \in Entries(st_buffer)
        BY <3>1, <4>1 DEF Lined
      <4> QED
        BY <3>1, <4>2, <1>2, <1>3, <1>4
    <3>2. CASE j \in Entries(st_buffer) /\ k = i
      <4>1. instr[j].tid = t /\ instr'[j].pos = instr[j].pos /\ instr[j].pos <= retired[t]
        BY <3>2, <2>1, <1>2, <1>3, <1>4
      <4> QED
        BY <4>1, <3>2, <2>1, <1>1, <1>5
    <3> QED
      BY <3>1, <3>2, <2>3
  <2>7. \A j \in Instr : HasStarted(instr', j) =>
          \A k \in Entries(b) : instr'[k].tid # instr'[j].tid
    <3> SUFFICES ASSUME NEW j \in Instr, HasStarted(instr', j), NEW k \in Entries(b),
                        instr'[k].tid = instr'[j].tid
                 PROVE  FALSE
      OBVIOUS
    <3>1. j # i /\ HasStarted(instr, j) /\ instr'[j].tid = instr[j].tid
      BY <1>2, <1>7
    <3>2. CASE k = i
      <4>1. instr[j].tid = instr[i].tid
        BY <3>1, <3>2, <2>1, <1>1
      <4>2. j \in Entries(iwindow')
        <5>1. j \in Entries(iwindow)
          BY <3>1 DEF HasStarted, IInv, Shape, Flying, PastExecute, Faulty, Exceptions, SpecExceptions, AfterAccess
        <5> QED
          BY <5>1, <3>1, <1>1 DEF Rest
      <4> QED
        BY <4>1, <4>2, <3>1, <1>1 DEF Rest
    <3>3. CASE k # i
      BY <3>1, <3>3, <2>3, <1>2, <1>3, <1>4
    <3> QED
      BY <3>2, <3>3
  <2> QED
    BY <2>1, <2>3, <2>4, <2>5, <2>6, <2>7 DEF Buffered
<1> QED
  BY <1>8, <1>9

(* Nothing but an immediate-release store takes effect as it retires.      *)
LEMMA RetireTook ==
  ASSUME IInv, NEW t \in Ctxt, NEW i, Retires(t, i), NEW c \in Ctxt,
         NEW q \in Memory!MemoryOps(c)
  PROVE  Took(instr', iwindow', st_buffer', retired', c, q) <=>
           \/ Took(instr, iwindow, st_buffer, retired, c, q)
           \/ c = t /\ q = instr[i].pos /\ instr[i].op.kind = "unsafe"
<1> DEFINE p == instr[i].pos
           kind == instr[i].op.kind
           In(b, f) == \E j \in Entries(b) : f[j].tid = c /\ f[j].pos = q
           Answer(w, f) == \E j \in Entries(w) : /\ f[j].tid = c /\ f[j].pos = q
                                                 /\ f[j].op.kind = "load" /\ f[j].stage = "COMMIT"
<1>1. /\ Rest(i) /\ i \in Instr /\ i \in Entries(iwindow)
      /\ instr[i].tid = t /\ instr[i].stage = "COMMIT"
      /\ p \in DOMAIN Program[t] /\ instr[i].op = Program[t][p]
      /\ p = retired[t] + 1 /\ retired[t] \in Nat
      /\ retired'[t] = p /\ \A d \in Ctxt \ {t} : retired'[d] = retired[d]
      /\ \A r \in Memory!MemoryOps(t) : r \in Nat
      /\ kind \in {"branch", "load", "store", "unsafe"}
      /\ kind = "store" => /\ instr'[i].tid = t /\ instr'[i].pos = p
                           /\ slot_avail(st_buffer) /\ st_buffer' = Inserted(st_buffer, i)
      /\ kind # "store" => st_buffer' = st_buffer
      /\ kind \in {"load", "unsafe"} => \A j \in Entries(st_buffer) : instr[j].tid # t
  BY DEF Retires
<1>2. \A j \in Instr \ {i} :
        /\ instr'[j].tid = instr[j].tid /\ instr'[j].pos = instr[j].pos
        /\ instr'[j].op = instr[j].op /\ instr'[j].stage = instr[j].stage
  BY <1>1 DEF Rest, Same
<1>3. /\ Sound(Instr, stbuf_size, st_buffer) /\ stbuf_size \in Nat \ {0} /\ None \notin Instr
      /\ \A j \in Entries(st_buffer) : /\ j \in Instr \ {i} /\ instr[j].pos \in Nat
                                       /\ instr[j].pos <= retired[instr[j].tid]
      /\ StartedFirst(instr, iwindow)
      /\ Entries(iwindow) \subseteq Instr
  <2>1. /\ Buffered(instr, st_buffer, retired) /\ instr \in [Instr -> Fields]
        /\ StartedFirst(instr, iwindow) /\ Entries(iwindow) \subseteq Instr
    BY DEF IInv, Followed, Shape, Calm
  <2>2. \A j \in Entries(st_buffer) : j \in Instr \ {i} /\ instr[j].pos <= retired[instr[j].tid]
    BY <2>1, <1>1 DEF Buffered, InBuffer
  <2>3. \A j \in Instr : instr[j].pos \in Nat
    <3> TAKE j \in Instr
    <3>1. instr[j] \in Fields
      BY <2>1
    <3> QED
      BY <3>1 DEF Fields
  <2> QED
    BY <2>1, <2>2, <2>3, SizeAssumption, InstrAssumption DEF Buffered
<1>4. In(st_buffer', instr') <=> In(st_buffer, instr) \/ (kind = "store" /\ c = t /\ q = p)
  <2>1. CASE kind = "store"
    <3>1. Entries(st_buffer') = Entries(st_buffer) \union {i}
      <4>1. /\ slot_avail(st_buffer) /\ st_buffer' = Inserted(st_buffer, i) /\ i \in Instr
            /\ i \notin Entries(st_buffer)
        BY <2>1, <1>1, <1>3
      <4>2. Sound(Instr, stbuf_size, st_buffer) /\ stbuf_size \in Nat \ {0} /\ None \notin Instr
        BY <1>3
      <4>3. Entries(Inserted(st_buffer, i)) = Entries(st_buffer) \union {i}
        BY <4>1, <4>2, InsertedOrder
      <4> QED
        BY <4>1, <4>3
    <3> QED
      BY <3>1, <2>1, <1>1, <1>2, <1>3
  <2>2. CASE kind # "store"
    BY <2>2, <1>1, <1>2, <1>3
  <2> QED
    BY <2>1, <2>2
<1>5. Answer(iwindow, instr) <=> Answer(iwindow', instr') \/ (kind = "load" /\ c = t /\ q = p)
  <2>1. \A j \in Instr : j \in Entries(iwindow) <=> j \in Entries(iwindow') \/ j = i
    BY <1>1 DEF Rest
  <2>2. Entries(iwindow') \subseteq Instr \ {i}
    BY <1>1, <1>3 DEF Rest
  <2>3. Answer(iwindow', instr') =>
          \E j \in Entries(iwindow) : /\ instr[j].tid = c /\ instr[j].pos = q
                                      /\ instr[j].op.kind = "load" /\ instr[j].stage = "COMMIT"
    BY <2>1, <2>2, <1>2
  <2>4. ASSUME Answer(iwindow, instr), ~Answer(iwindow', instr')
        PROVE  kind = "load" /\ c = t /\ q = p
    <3>1. PICK j \in Entries(iwindow) : /\ instr[j].tid = c /\ instr[j].pos = q
                                        /\ instr[j].op.kind = "load" /\ instr[j].stage = "COMMIT"
      BY <2>4
    <3>2. j = i
      BY <3>1, <2>1, <2>2, <2>4, <1>2, <1>3
    <3> QED
      BY <3>1, <3>2, <1>1
  <2>5. kind = "load" /\ c = t /\ q = p => Answer(iwindow, instr)
    BY <1>1
  <2> QED
    BY <2>3, <2>4, <2>5
<1>6. c = t => ~Answer(iwindow', instr')
  <2> SUFFICES ASSUME c = t, NEW j \in Entries(iwindow'), instr'[j].tid = t,
                      instr'[j].op.kind = "load", instr'[j].stage = "COMMIT"
               PROVE  FALSE
    OBVIOUS
  <2>1. j \in Instr \ {i}
    BY <1>1 DEF Rest
  <2>2. instr[j].tid = instr[i].tid /\ HasStarted(instr, j)
    BY <2>1, <1>1, <1>2 DEF HasStarted, AfterAccess
  <2> QED
    BY <2>2, <1>1 DEF Rest
<1>7. /\ Took(instr, iwindow, st_buffer, retired, c, q)
           <=> (q <= retired[c] /\ ~In(st_buffer, instr)) \/ Answer(iwindow, instr)
      /\ Took(instr', iwindow', st_buffer', retired', c, q)
           <=> (q <= retired'[c] /\ ~In(st_buffer', instr')) \/ Answer(iwindow', instr')
  BY DEF Took
<1>8. CASE c # t
  <2>1. retired'[c] = retired[c]
    BY <1>1, <1>8
  <2> HIDE DEF In, Answer, p, kind
  <2> QED
    BY <2>1, <1>4, <1>5, <1>7, <1>8
<1>9. CASE c = t
  <2>1. q \in Nat /\ (q <= p <=> q <= retired[t] \/ q = p) /\ ~(p <= retired[t])
    BY <1>1, <1>9
  <2>2. q = p => ~In(st_buffer, instr)
    BY <2>1, <1>3, <1>9
  <2>3. q = p => kind # "branch"
    BY <1>1, <1>9 DEF Memory!MemoryOps
  <2>4. retired'[t] = p /\ kind \in {"branch", "load", "store", "unsafe"}
    BY <1>1
  <2> HIDE DEF In, Answer, p, kind
  <2>5. Took(instr', iwindow', st_buffer', retired', c, q)
          <=> (q <= retired[t] \/ q = p) /\ ~In(st_buffer, instr) /\ ~(kind = "store" /\ q = p)
    BY <2>1, <2>4, <1>4, <1>6, <1>7, <1>9
  <2>6. Took(instr, iwindow, st_buffer, retired, c, q)
          <=> (q <= retired[t] /\ ~In(st_buffer, instr)) \/ (kind = "load" /\ q = p)
    BY <1>5, <1>6, <1>7, <1>9
  <2>7. q = p => kind \in {"load", "store", "unsafe"} /\ ~(q <= retired[t])
    BY <2>1, <2>3, <2>4
  <2>8. Took(instr', iwindow', st_buffer', retired', c, q) <=>
           \/ Took(instr, iwindow, st_buffer, retired, c, q)
           \/ c = t /\ q = p /\ kind = "unsafe"
    BY <2>2, <2>5, <2>6, <2>7, <1>9
  <2> QED
    BY <2>8 DEF p, kind
<1> QED
  BY <1>8, <1>9

LEMMA RetireGood ==
  ASSUME IInv, NEW t \in Ctxt, NEW i \in Instr, Retire(t, i) PROVE Good
<1> DEFINE p == instr[i].pos
<1>1. Retires(t, i)
  BY RetireIs
<1>2. /\ Shape(instr', iwindow', ldq', stq') /\ Rest(i)
      /\ i \in Entries(iwindow) /\ instr[i].tid = t /\ First(instr, iwindow, i)
      /\ ~instr[i].wrong /\ instr[i].stage = "COMMIT"
      /\ p \in DOMAIN Program[t] /\ instr[i].op = Program[t][p]
      /\ p = retired[t] + 1 /\ retired[t] \in Nat
      /\ \A q \in Memory!MemoryOps(t) : q \in Nat
      /\ retired' = [retired EXCEPT ![t] = p] /\ retired'[t] = p
      /\ \A c \in Ctxt \ {t} : retired'[c] = retired[c]
      /\ UNCHANGED <<fetch, fetch_status, ivec, traps>>
      /\ instr[i].op.kind \in {"load", "unsafe"} =>
           \A j \in Entries(st_buffer) : instr[j].tid # t
  BY <1>1 DEF Retires
<1>3. /\ Typed /\ Shape(instr, iwindow, ldq, stq)
      /\ \A c \in Ctxt : Front(instr, iwindow, fetch, fetch_status, retired, c)
      /\ Entries(iwindow) = {j \in Instr : Flying(instr, j)}
      /\ Ends(instr, iwindow, i)
      /\ DoneTrue(instr, iwindow, st_buffer, retired, done)
  BY <1>2, Facts, EndsAre
<1>4. \A j \in Instr \ {i} :
        /\ instr'[j].tid = instr[j].tid /\ instr'[j].pos = instr[j].pos
        /\ instr'[j].op = instr[j].op /\ instr'[j].stage = instr[j].stage
        /\ instr'[j].wrong = instr[j].wrong
  BY <1>2 DEF Rest, Same
<1>5. StartedFirst(instr', iwindow') /\ Course(instr', iwindow', retired')
  BY <1>2, RestStarted, RestCourse
<1>6. Buffered(instr', st_buffer', retired')
  BY <1>1, RetireBuffered
<1>7. ASSUME NEW c \in Ctxt
      PROVE  Front(instr', iwindow', fetch', fetch_status', retired', c)
  <2>1. CASE c # t
    BY <2>1, <1>2, RestFronts
  <2>2. CASE c = t
    <3>1. ASSUME NEW j \in Entries(iwindow'), instr'[j].tid = t
          PROVE  /\ j \in Entries(iwindow) /\ instr[j].tid = t
                 /\ instr'[j].pos = instr[j].pos /\ instr'[j].stage = instr[j].stage
                 /\ instr'[j].wrong = instr[j].wrong /\ instr'[j].next = instr[j].next
      BY <3>1, <1>2, <1>4 DEF Rest
    <3>2. fetch'[t] = fetch[t] /\ fetch_status'[t] = fetch_status[t]
      BY <1>2
    <3>3. Front(instr, iwindow, fetch, fetch_status, retired, t)
      BY <1>3
    <3>4. ASSUME \A j \in Entries(iwindow') : instr'[j].tid # t, ~fetch[t].wrong
          PROVE  fetch[t].pos = p + 1
      <4>1. \A j \in Entries(iwindow) : instr[j].tid = t => j = i
        <5> TAKE j \in Entries(iwindow)
        <5>1. j # i => j \in Entries(iwindow') /\ j \in Instr \ {i}
          BY <1>2, <1>3 DEF Rest
        <5> QED
          BY <5>1, <3>4, <1>4
      <4>2. Last(instr, iwindow, i)
        <5>1. Lined(iwindow)
          BY <1>3, SizeAssumption, InLine DEF Shape, Sound
        <5> QED
          BY <4>1, <5>1, <1>2 DEF Last, Lined
      <4>3. instr[i].next = None
        BY <4>2, <1>3 DEF Ends
      <4> QED
        BY <4>3, <3>3, <3>4, <1>2 DEF Front, Undecoded
    <3>5. (\A j \in Entries(iwindow') : instr'[j].tid # t) /\ ~fetch'[t].wrong =>
            fetch'[t].pos = retired'[t] + 1
      BY <3>2, <3>4, <1>2
    <3>6. /\ \A j \in Entries(iwindow') : instr'[j].tid = t /\ instr'[j].stage \in Undecoded =>
               instr'[j].next = None /\ "GPC_UNKNOWN" \in fetch_status'[t]
          /\ \A j \in Entries(iwindow') :
               instr'[j].tid = t /\ instr'[j].stage \in Faulty =>
                 instr'[j].next = None /\ "STALL_UNTIL_EMPTY" \in fetch_status'[t]
          /\ \A j \in Entries(iwindow') :
               /\ instr'[j].tid = t /\ instr'[j].next = None /\ instr'[j].stage \notin Undecoded
               /\ ~fetch'[t].wrong
               => ~instr'[j].wrong /\ fetch'[t].pos = instr'[j].pos + 1
      BY <3>1, <3>2, <3>3 DEF Front
    <3> QED
      BY <3>5, <3>6, <2>2 DEF Front
  <2> QED
    BY <2>1, <2>2
<1>8. Kept
  <2>1. \A j \in Instr \ {i} : HasStarted(instr, j) => HasStarted(instr', j)
    BY <1>4 DEF HasStarted
  <2> QED
    BY <2>1, <1>2 DEF Kept
<1>9. /\ DoneTrue(instr', iwindow', st_buffer', retired', done')
      /\ [Memory!Next]_(Memory!vars)
      /\ mem' \in [Addr -> Vals] /\ done' \in [Ctxt -> Seq([pos : Nat, val : Vals])]
  <2>1. CASE instr[i].op.kind # "unsafe"
    <3>1. UNCHANGED <<mem, done>>
      BY <2>1 DEF Retire
    <3>2. \A c \in Ctxt : \A q \in Memory!MemoryOps(c) :
            Took(instr', iwindow', st_buffer', retired', c, q)
              <=> Took(instr, iwindow, st_buffer, retired, c, q)
      BY <2>1, <1>1, RetireTook
    <3> QED
      BY <3>1, <3>2, <1>3 DEF DoneTrue, Typed, Memory!vars
  <2>2. CASE instr[i].op.kind = "unsafe"
    <3>1. Effect(t, p)
      BY <2>2, <1>2 DEF Retire, TakeEffect, Effect
    <3>2. p \in Memory!MemoryOps(t)
      BY <2>2, <1>2 DEF Memory!MemoryOps
    <3>3. ~Took(instr, iwindow, st_buffer, retired, t, p)
      <4>1. \A q : Took(instr, iwindow, st_buffer, retired, t, q) /\ ~(q <= retired[t]) =>
                     q = p /\ instr[i].op.kind = "load" /\ instr[i].stage = "COMMIT"
        BY <1>2, OldestNext
      <4> QED
        BY <4>1, <2>2, <1>2
    <3>4. \A q \in Memory!MemoryOps(t) : q < p => Took(instr, iwindow, st_buffer, retired, t, q)
      BY <2>2, <1>2 DEF Took
    <3>5. TakesEffect(t, p)
      BY <3>1, <3>2, <3>3, <3>4 DEF TakesEffect
    <3>6. Adds(instr', iwindow', st_buffer', retired', t, p)
      BY <2>2, <1>1, RetireTook DEF Adds
    <3> HIDE DEF p
    <3> QED
      BY <3>5, <3>6, EffectGood
  <2> QED
    BY <2>1, <2>2
<1>10. Typed'
  <2>1. retired' \in [Ctxt -> Nat]
    BY <1>2, <1>3 DEF Typed
  <2> QED
    BY <2>1, <1>2, <1>3, <1>9 DEF Typed
<1>11. IInv'
  BY <1>2, <1>5, <1>6, <1>7, <1>9, <1>10 DEF IInv, Followed
<1> QED
  BY <1>8, <1>9, <1>11 DEF Good
-----------------------------------------------------------------------------
(* The store buffer.  Its oldest store of a context is the next of the     *)
(* context's operations that has not taken effect.                         *)
LEMMA BufferNext ==
  ASSUME IInv, NEW t \in Ctxt, ~empty_ctxt(st_buffer, t), NEW i, i = OldestOf(st_buffer, t)
  PROVE  LET p == instr[i].pos
         IN /\ i \in Entries(st_buffer) /\ i \in Instr /\ instr[i].tid = t
            /\ instr[i].stage \in InBuffer
            /\ p \in DOMAIN Program[t] /\ p \in Memory!MemoryOps(t)
            /\ instr[i].op = Program[t][p] /\ instr[i].op.kind = "store" /\ p <= retired[t]
            /\ ~Took(instr, iwindow, st_buffer, retired, t, p)
            /\ \A j \in Entries(st_buffer) : instr[j].tid = t => j = i \/ p < instr[j].pos
            /\ \A q \in Memory!MemoryOps(t) : q < p => Took(instr, iwindow, st_buffer, retired, t, q)
<1> DEFINE p == instr[i].pos
           O == [kind : {"branch", "load", "store", "unsafe"}, addr : Addr]
<1>1. /\ Sound(Instr, stbuf_size, st_buffer) /\ stbuf_size \in Nat \ {0}
      /\ Entries(st_buffer) = {j \in Instr : instr[j].stage \in InBuffer}
      /\ \A j \in Entries(st_buffer) :
           /\ instr[j].tid \in Ctxt /\ instr[j].pos \in DOMAIN Program[instr[j].tid]
           /\ instr[j].pos <= retired[instr[j].tid]
           /\ instr[j].op = Program[instr[j].tid][instr[j].pos] /\ instr[j].op.kind = "store"
      /\ \A j, k \in Entries(st_buffer) :
           instr[j].tid = instr[k].tid /\ Older(st_buffer, j, k) => instr[j].pos < instr[k].pos
      /\ \A j \in Instr : HasStarted(instr, j) =>
           \A k \in Entries(st_buffer) : instr[k].tid # instr[j].tid
  BY SizeAssumption DEF IInv, Followed, Buffered
<1>2. /\ instr \in [Instr -> Fields] /\ retired \in [Ctxt -> Nat]
      /\ Entries(iwindow) \subseteq Instr
  BY DEF IInv, Shape, Calm, Typed
<1>3. /\ i \in Entries(st_buffer) /\ instr[i].tid = t
      /\ \A k \in Entries(st_buffer) : instr[k].tid = t => k = i \/ Older(st_buffer, i, k)
  BY <1>1, OldestIs
<1>4. /\ i \in Instr /\ instr[i].stage \in InBuffer /\ p \in DOMAIN Program[t]
      /\ instr[i].op = Program[t][p] /\ instr[i].op.kind = "store" /\ p <= retired[t]
  BY <1>1, <1>3
<1>5. p \in Memory!MemoryOps(t)
  BY <1>4 DEF Memory!MemoryOps
<1>6. \A q \in Memory!MemoryOps(t) : q \in Nat
  <2>1. Program \in [Ctxt -> Seq(O)]
    BY ProgramAssumption
  <2> HIDE DEF O
  <2>2. Program[t] \in Seq(O)
    BY <2>1
  <2>3. DOMAIN Program[t] \subseteq Nat
    BY <2>2
  <2> QED
    BY <2>3 DEF Memory!MemoryOps
<1>7. \A j \in Entries(st_buffer) : instr[j].tid = t => j = i \/ p < instr[j].pos
  BY <1>1, <1>3
<1>8. ~Took(instr, iwindow, st_buffer, retired, t, p)
  <2> SUFFICES ASSUME NEW j \in Entries(iwindow), instr[j].tid = t,
                      instr[j].op.kind = "load", instr[j].stage = "COMMIT"
               PROVE  FALSE
    BY <1>3 DEF Took
  <2>1. HasStarted(instr, j) /\ j \in Instr
    BY <1>2 DEF HasStarted, AfterAccess
  <2> QED
    BY <2>1, <1>1, <1>3
<1>9. ASSUME NEW q \in Memory!MemoryOps(t), q < p
      PROVE  Took(instr, iwindow, st_buffer, retired, t, q)
  <2>1. q \in Nat /\ p \in Nat /\ retired[t] \in Nat
    BY <1>2, <1>5, <1>6
  <2>2. q <= retired[t] /\ q # p /\ ~(p < q)
    BY <2>1, <1>4, <1>9
  <2>3. \A j \in Entries(st_buffer) : instr[j].tid = t => instr[j].pos # q
    BY <2>2, <1>7
  <2> QED
    BY <2>2, <2>3 DEF Took
<1> QED
  BY <1>3, <1>4, <1>5, <1>7, <1>8, <1>9

(* A store that memory answered leaves the buffer, and its object dies.    *)
Buries(i) == instr' = [instr EXCEPT ![i] = Dead]

LEMMA BufferPopped ==
  ASSUME IInv, NEW i \in Entries(st_buffer), Buries(i), st_buffer' = Popped(st_buffer, i),
         UNCHANGED <<queues, retired>>
  PROVE  /\ Shape(instr', iwindow', ldq', stq')
         /\ StartedFirst(instr', iwindow') /\ Course(instr', iwindow', retired')
         /\ Buffered(instr', st_buffer', retired')
         /\ i \in Instr /\ \A j \in Instr \ {i} : instr'[j] = instr[j]
         /\ ~HasStarted(instr, i)
         /\ Entries(st_buffer') = Entries(st_buffer) \ {i}
         /\ Entries(iwindow) \subseteq Instr \ {i}
<1>1. /\ Shape(instr, iwindow, ldq, stq) /\ instr \in [Instr -> Fields]
      /\ Entries(iwindow) = {j \in Instr : Flying(instr, j)} /\ Links(instr, iwindow)
      /\ StartedFirst(instr, iwindow) /\ Course(instr, iwindow, retired)
      /\ \A j \in Instr : instr[j].outstanding \in {{}, {"EVENTQ"}, {"MEM_HIER"}}
      /\ UNCHANGED <<iwindow, ldq, stq>>
  BY DEF IInv, Followed, Shape, Calm, queues
<1>2. /\ Sound(Instr, stbuf_size, st_buffer) /\ stbuf_size \in Nat \ {0} /\ None \notin Instr
      /\ Entries(st_buffer) = {j \in Instr : instr[j].stage \in InBuffer}
      /\ \A j \in Entries(st_buffer) :
           /\ instr[j].tid \in Ctxt /\ instr[j].pos \in DOMAIN Program[instr[j].tid]
           /\ instr[j].pos <= retired[instr[j].tid]
           /\ instr[j].op = Program[instr[j].tid][instr[j].pos] /\ instr[j].op.kind = "store"
      /\ \A j, k \in Entries(st_buffer) :
           instr[j].tid = instr[k].tid /\ Older(st_buffer, j, k) => instr[j].pos < instr[k].pos
      /\ \A j \in Instr : HasStarted(instr, j) =>
           \A k \in Entries(st_buffer) : instr[k].tid # instr[j].tid
  BY SizeAssumption, InstrAssumption DEF IInv, Followed, Buffered
<1>3. /\ i \in Instr /\ instr[i].stage \in InBuffer /\ ~Flying(instr, i) /\ ~HasStarted(instr, i)
  BY <1>2 DEF Flying, Before, PastExecute, Faulty, Exceptions, SpecExceptions, InBuffer, HasStarted
<1>4. /\ instr' \in [Instr -> Fields] /\ instr'[i] = Dead
      /\ \A j \in Instr \ {i} : instr'[j] = instr[j]
  BY <1>1, <1>3, DeadIs DEF Buries
<1>5. ~Flying(instr', i) /\ ~HasStarted(instr', i) /\ instr'[i].stage \notin InBuffer
      /\ instr'[i].outstanding = {}
  BY <1>4, DeadIs DEF Flying, HasStarted, PastExecute, Faulty, Exceptions, SpecExceptions, AfterAccess
<1>6. Entries(iwindow) \subseteq Instr \ {i}
  BY <1>1, <1>3
<1>7. Shape(instr', iwindow', ldq', stq')
  <2>1. ASSUME NEW j \in Instr
        PROVE  /\ instr'[j].outstanding \in {{}, {"EVENTQ"}, {"MEM_HIER"}}
               /\ Flying(instr', j) <=> Flying(instr, j)
               /\ Flying(instr, j) =>
                    /\ instr'[j].tid = instr[j].tid /\ instr'[j].op = instr[j].op
                    /\ SameLinks(instr, instr', j)
                    /\ instr'[j].slot = instr[j].slot /\ instr'[j].lsq_slot = instr[j].lsq_slot
                    /\ instr'[j].stage \in Undecoded <=> instr[j].stage \in Undecoded
    <3>1. CASE j = i
      BY <3>1, <1>3, <1>5
    <3>2. CASE j # i
      BY <3>2, <1>1, <1>4 DEF Flying, SameLinks
    <3> QED
      BY <3>1, <3>2
  <2>2. Shape(instr', iwindow, ldq, stq)
    BY <2>1, <1>1, <1>4, SameShape
  <2> QED
    BY <2>2, <1>1
<1>8. \A j \in Entries(iwindow) : instr'[j] = instr[j]
  BY <1>4, <1>6
<1>9. StartedFirst(instr', iwindow')
  BY <1>1, <1>8 DEF StartedFirst, First, HasStarted
<1>10. Course(instr', iwindow', retired')
  <2>1. \A j \in Entries(iwindow) : instr[j].prev # None => instr[j].prev \in Entries(iwindow)
    BY <1>1 DEF Links, Behind
  <2> QED
    BY <2>1, <1>1, <1>8 DEF Course
<1>11. /\ Sound(Instr, stbuf_size, st_buffer')
       /\ Entries(st_buffer') = Entries(st_buffer) \ {i}
       /\ \A a, b \in Entries(st_buffer') : Older(st_buffer', a, b) <=> Older(st_buffer, a, b)
  <2>1. Shrunk(Instr, stbuf_size, st_buffer, Popped(st_buffer, i), {i}, Moves(st_buffer, i))
    BY <1>2, PoppedShrinks
  <2> QED
    BY <2>1 DEF Shrunk
<1>12. Buffered(instr', st_buffer', retired')
  <2>1. Entries(st_buffer') = {j \in Instr : instr'[j].stage \in InBuffer}
    BY <1>2, <1>4, <1>5, <1>11
  <2>2. \A j \in Entries(st_buffer') : j \in Entries(st_buffer) /\ instr'[j] = instr[j]
    BY <1>2, <1>4, <1>11
  <2>3. \A j \in Instr : HasStarted(instr', j) => instr'[j] = instr[j] /\ HasStarted(instr, j)
    BY <1>4, <1>5 DEF HasStarted
  <2>4. \A j \in Instr : HasStarted(instr', j) =>
          \A k \in Entries(st_buffer') : instr'[k].tid # instr'[j].tid
    BY <2>2, <2>3, <1>2
  <2> QED
    BY <2>1, <2>2, <2>4, <1>2, <1>11 DEF Buffered
<1> QED
  BY <1>3, <1>4, <1>6, <1>7, <1>9, <1>10, <1>11, <1>12

LEMMA StBufferGood ==
  ASSUME IInv, NEW t \in Ctxt, StBuffer(t) PROVE Good
<1> DEFINE i == OldestOf(st_buffer, t)
           p == instr[i].pos
<1>1. /\ ~empty_ctxt(st_buffer, t)
      /\ UNCHANGED <<queues, fetch, fetch_status, ivec, retired, traps>>
      /\ \/ /\ instr[i].stage = "INSERT"
            /\ instr' = [instr EXCEPT ![i].stage = "MEM_HIER", ![i].outstanding = {"MEM_HIER"}]
            /\ UNCHANGED <<st_buffer, mem, done>>
         \/ /\ instr[i].stage = "DONE"
            /\ instr' = [instr EXCEPT ![i] = Dead]
            /\ st_buffer' = Popped(st_buffer, i)
            /\ TakeEffect(i)
  BY DEF StBuffer
<1>2. /\ i \in Entries(st_buffer) /\ i \in Instr /\ instr[i].tid = t
      /\ instr[i].stage \in InBuffer
      /\ p \in DOMAIN Program[t] /\ p \in Memory!MemoryOps(t)
      /\ instr[i].op = Program[t][p] /\ instr[i].op.kind = "store" /\ p <= retired[t]
      /\ ~Took(instr, iwindow, st_buffer, retired, t, p)
      /\ \A j \in Entries(st_buffer) : instr[j].tid = t => j = i \/ p < instr[j].pos
      /\ \A q \in Memory!MemoryOps(t) : q < p => Took(instr, iwindow, st_buffer, retired, t, q)
  BY <1>1, BufferNext
<1> HIDE DEF i
<1>3. /\ instr \in [Instr -> Fields] /\ Typed /\ Shape(instr, iwindow, ldq, stq)
      /\ instr[i].outstanding \in {{}, {"EVENTQ"}, {"MEM_HIER"}}
      /\ \A c \in Ctxt : Front(instr, iwindow, fetch, fetch_status, retired, c)
  BY <1>2, InPlace
<1>4. ~Flying(instr, i) /\ ~HasStarted(instr, i)
  BY <1>2 DEF Flying, Before, PastExecute, Faulty, Exceptions, SpecExceptions, InBuffer, HasStarted
<1>5. CASE instr[i].stage = "INSERT"
  <2>1. /\ instr' = [instr EXCEPT ![i].stage = "MEM_HIER", ![i].outstanding = {"MEM_HIER"}]
        /\ UNCHANGED <<st_buffer, mem, done>>
    BY <1>1, <1>5
  <2>2. Goes(instr, instr', i) /\ Advances(instr, instr', i) /\ instr'[i].stage = "MEM_HIER"
    <3>1. Becomes(instr, instr', i, "MEM_HIER")
      BY <2>1 DEF Becomes
    <3>2. Into(instr, i, "MEM_HIER")
      BY <1>2, <1>3, <1>5 DEF Into, InBuffer, Undecoded
    <3> QED
      BY <3>1, <3>2, GoesOut
  <2>3. Typed'
    BY <2>1, <1>1, <1>3 DEF Typed
  <2>4. Shape(instr', iwindow', ldq', stq')
    BY <2>2, <1>1, <1>3, StepShape DEF queues
  <2>5. ~HasStarted(instr', i)
    BY <2>2 DEF HasStarted, AfterAccess
  <2>6. UNCHANGED <<iwindow, st_buffer, retired, mem, done, fetch, fetch_status>>
    BY <2>1, <1>1 DEF queues
  <2> QED
    BY <2>2, <2>3, <2>4, <2>5, <2>6, <1>4, <1>5, QuietGood
<1>6. CASE instr[i].stage = "DONE"
  <2>1. Buries(i) /\ st_buffer' = Popped(st_buffer, i) /\ TakeEffect(i)
    BY <1>1, <1>6 DEF Buries
  <2>2. /\ Shape(instr', iwindow', ldq', stq')
        /\ StartedFirst(instr', iwindow') /\ Course(instr', iwindow', retired')
        /\ Buffered(instr', st_buffer', retired')
        /\ \A j \in Instr \ {i} : instr'[j] = instr[j]
        /\ Entries(st_buffer') = Entries(st_buffer) \ {i}
        /\ Entries(iwindow) \subseteq Instr \ {i}
    BY <2>1, <1>1, <1>2, BufferPopped
  <2>3. Effect(t, p)
    BY <2>1, <1>2 DEF TakeEffect, Effect
  <2>4. TakesEffect(t, p)
    BY <2>3, <1>2 DEF TakesEffect
  <2>5. UNCHANGED <<iwindow, fetch, fetch_status, ivec, retired, traps>>
    BY <1>1 DEF queues
  <2>6. \A j \in Entries(st_buffer) : j \in Instr /\ instr[j].pos \in Nat
    <3>1. Entries(st_buffer) \subseteq Instr
      BY DEF IInv, Followed, Buffered
    <3>2. \A j \in Instr : instr[j].pos \in Nat
      <4> TAKE j \in Instr
      <4>1. instr[j] \in Fields
        BY <1>3
      <4> QED
        BY <4>1 DEF Fields
    <3> QED
      BY <3>1, <3>2
  <2>7. Adds(instr', iwindow', st_buffer', retired', t, p)
    <3> SUFFICES ASSUME NEW c \in Ctxt, NEW q \in Memory!MemoryOps(c)
                 PROVE  Took(instr', iwindow', st_buffer', retired', c, q) <=>
                          Took(instr, iwindow, st_buffer, retired, c, q) \/ (c = t /\ q = p)
      BY DEF Adds
    <3>1. (\E j \in Entries(iwindow') : /\ instr'[j].tid = c /\ instr'[j].pos = q
                                        /\ instr'[j].op.kind = "load" /\ instr'[j].stage = "COMMIT")
          <=> \E j \in Entries(iwindow) : /\ instr[j].tid = c /\ instr[j].pos = q
                                          /\ instr[j].op.kind = "load" /\ instr[j].stage = "COMMIT"
      BY <2>2, <2>5
    <3>2. \A j \in Entries(st_buffer') : j \in Entries(st_buffer) /\ j # i /\ instr'[j] = instr[j]
      BY <2>2, <2>6
    <3>3. (\A j \in Entries(st_buffer') : instr'[j].tid = c => instr'[j].pos # q)
          <=> \/ \A j \in Entries(st_buffer) : instr[j].tid = c => instr[j].pos # q
              \/ c = t /\ q = p
      <4>1. p \in Nat
        BY <2>6, <1>2
      <4>2. CASE c = t /\ q = p
        BY <4>1, <4>2, <3>2, <2>6, <1>2
      <4>3. CASE ~(c = t /\ q = p)
        BY <4>3, <3>2, <2>2, <1>2
      <4> QED
        BY <4>2, <4>3
    <3> QED
      BY <3>1, <3>3, <2>5, <1>2 DEF Took
  <2>8. /\ DoneTrue(instr', iwindow', st_buffer', retired', done') /\ Memory!Next
        /\ mem' \in [Addr -> Vals] /\ done' \in [Ctxt -> Seq([pos : Nat, val : Vals])]
    <3> HIDE DEF p
    <3> QED
      BY <2>4, <2>7, EffectGood
  <2>9. Typed'
    BY <2>5, <2>8, <1>3 DEF Typed
  <2>10. \A c \in Ctxt : Front(instr', iwindow', fetch', fetch_status', retired', c)
    <3> TAKE c \in Ctxt
    <3>1. \A j \in Entries(iwindow) : instr'[j] = instr[j]
      BY <2>2
    <3>2. Front(instr, iwindow, fetch, fetch_status, retired, c)
      BY <1>3
    <3> QED
      BY <3>1, <3>2, <2>5, FrontKept
  <2>11. IInv'
    BY <2>2, <2>8, <2>9, <2>10 DEF IInv, Followed
  <2>12. Kept
    BY <2>2, <1>4 DEF Kept, HasStarted
  <2> QED
    BY <2>8, <2>11, <2>12 DEF Good
<1> QED
  BY <1>1, <1>5, <1>6
-----------------------------------------------------------------------------
(* Steps of the control alone. *)
LEMMA ControlGood ==
  ASSUME IInv, UNCHANGED <<instr, queues, st_buffer, retired, mem, done>>, Typed',
         \A c \in Ctxt : Front(instr, iwindow, fetch', fetch_status', retired, c)
  PROVE  Good
<1>1. IInv'
  BY DEF IInv, queues
<1>2. Kept /\ UNCHANGED Memory!vars
  BY DEF Kept, Memory!vars
<1> QED
  BY <1>1, <1>2 DEF Good

LEMMA FrontEndGood ==
  ASSUME IInv, NEW t \in Ctxt, FrontEnd(t) PROVE Good
<1>1. UNCHANGED <<instr, queues, st_buffer, fetch, ivec, retired, mem, done, traps>>
  BY DEF FrontEnd
<1>2. /\ Typed /\ \A c \in Ctxt : Front(instr, iwindow, fetch, fetch_status, retired, c)
      /\ Sound(Instr, window_size, iwindow) /\ window_size \in Nat \ {0}
  BY SizeAssumption DEF IInv, Shape
<1>3. PICK out \in SUBSET {"STALL_UNTIL_EMPTY", "LDQ_FULL", "STQ_FULL"} :
        /\ fetch_status' = [fetch_status EXCEPT ![t] = fetch_status[t] \ out]
        /\ ~empty_ctxt(iwindow, t) => "STALL_UNTIL_EMPTY" \notin out
  <2> DEFINE out == (IF empty_ctxt(iwindow, t) THEN {"STALL_UNTIL_EMPTY"} ELSE {})
                    \cup (IF full(ldq) THEN {} ELSE {"LDQ_FULL"})
                    \cup (IF full(stq) THEN {} ELSE {"STQ_FULL"})
  <2>1. fetch_status' = [fetch_status EXCEPT ![t] = fetch_status[t] \ out]
    BY DEF FrontEnd
  <2>2. /\ out \in SUBSET {"STALL_UNTIL_EMPTY", "LDQ_FULL", "STQ_FULL"}
        /\ ~empty_ctxt(iwindow, t) => "STALL_UNTIL_EMPTY" \notin out
    OBVIOUS
  <2> QED
    BY <2>1, <2>2
<1>4. Typed'
  <2>1. fetch_status' \in
          [Ctxt -> SUBSET {"GPC_UNKNOWN", "STALL_UNTIL_EMPTY", "LDQ_FULL", "STQ_FULL"}]
    BY <1>2, <1>3 DEF Typed
  <2> QED
    BY <2>1, <1>1, <1>2 DEF Typed
<1>5. ASSUME NEW c \in Ctxt PROVE Front(instr, iwindow, fetch', fetch_status', retired, c)
  <2>1. Front(instr, iwindow, fetch, fetch_status, retired, c) /\ fetch' = fetch
    BY <1>1, <1>2
  <2>2. CASE c # t
    <3>1. fetch_status'[c] = fetch_status[c]
      BY <2>2, <1>2, <1>3 DEF Typed
    <3> QED
      BY <2>1, <3>1 DEF Front
  <2>3. CASE c = t
    <3>1. fetch_status'[t] = fetch_status[t] \ out /\ "GPC_UNKNOWN" \notin out
      BY <1>2, <1>3 DEF Typed
    <3>2. \A j \in Entries(iwindow) : instr[j].tid = t => "STALL_UNTIL_EMPTY" \notin out
      BY <1>2, <1>3, OwnIs
    <3> QED
      BY <2>1, <2>3, <3>1, <3>2 DEF Front
  <2> QED
    BY <2>2, <2>3
<1> QED
  BY <1>1, <1>4, <1>5, ControlGood

LEMMA InterruptGood ==
  ASSUME IInv, NEW t \in Ctxt, Interrupt(t) PROVE Good
<1>1. /\ UNCHANGED <<instr, queues, st_buffer, fetch, fetch_status, retired, mem, done>>
      /\ ivec' = [ivec EXCEPT ![t] = TRUE] /\ traps' = traps + 1 /\ traps < MaxTraps
  BY DEF Interrupt
<1>2. Typed /\ \A c \in Ctxt : Front(instr, iwindow, fetch, fetch_status, retired, c)
  BY DEF IInv
<1>3. ivec' \in [Ctxt -> BOOLEAN]
  BY <1>1, <1>2 DEF Typed
<1>4. traps' \in 0 .. MaxTraps
  <2>1. traps \in 0 .. MaxTraps
    BY <1>2 DEF Typed
  <2> QED
    BY <2>1, <1>1, SizeAssumption
<1>5. Typed'
  BY <1>1, <1>2, <1>3, <1>4 DEF Typed
<1> QED
  BY <1>1, <1>2, <1>5, ControlGood

LEMMA TakeGood ==
  ASSUME IInv, NEW t \in Ctxt, Take(t) PROVE Good
<1>1. /\ UNCHANGED <<instr, queues, st_buffer, fetch_status, retired, mem, done, traps>>
      /\ ivec' = [ivec EXCEPT ![t] = FALSE] /\ fetch' = [fetch EXCEPT ![t] = Committed(t)]
      /\ empty_ctxt(iwindow, t)
  BY DEF Take, CanTake
<1>2. /\ Typed /\ \A c \in Ctxt : Front(instr, iwindow, fetch, fetch_status, retired, c)
      /\ Sound(Instr, window_size, iwindow) /\ window_size \in Nat \ {0}
  BY SizeAssumption DEF IInv, Shape
<1>3. Committed(t) \in [pos : Nat, wrong : BOOLEAN] /\ Committed(t).pos = retired[t] + 1
  BY <1>2 DEF Committed, Typed
<1>4. /\ fetch' \in [Ctxt -> [pos : Nat, wrong : BOOLEAN]] /\ fetch'[t] = Committed(t)
      /\ \A c \in Ctxt \ {t} : fetch'[c] = fetch[c]
  BY <1>1, <1>2, <1>3 DEF Typed
<1>5. Typed'
  BY <1>1, <1>2, <1>4 DEF Typed
<1>6. ASSUME NEW c \in Ctxt PROVE Front(instr, iwindow, fetch', fetch_status', retired, c)
  <2>1. CASE c # t
    BY <2>1, <1>1, <1>2, <1>4 DEF Front
  <2>2. CASE c = t
    <3>1. \A j \in Entries(iwindow) : instr[j].tid # t
      BY <1>1, <1>2, OwnIs
    <3> QED
      BY <2>2, <3>1, <1>3, <1>4 DEF Front
  <2> QED
    BY <2>1, <2>2
<1> QED
  BY <1>1, <1>5, <1>6, ControlGood
-----------------------------------------------------------------------------
(* Fetch(): a new instruction follows the youngest of its context. *)
Starts(new, t, p, op, wrong, slot, prev) ==
  new = [Dead EXCEPT !.tid = t, !.pos = p, !.op = op, !.wrong = wrong, !.stage = "FETCH",
                     !.slot = slot, !.prev = prev, !.outstanding = {"MEM_HIER"}]
LEMMA StartsIs ==
  ASSUME NEW t \in Ctxt, NEW p \in Nat, NEW op \in Ops, NEW wrong \in BOOLEAN,
         NEW slot \in Int, NEW prev \in Instr \union {None}, NEW new,
         Starts(new, t, p, op, wrong, slot, prev)
  PROVE  /\ new \in Fields
         /\ new.tid = t /\ new.pos = p /\ new.op = op /\ new.wrong = wrong
         /\ new.stage = "FETCH" /\ new.slot = slot /\ new.lsq_slot = -1 /\ new.prev = prev
         /\ new.next = None /\ new.outstanding = {"MEM_HIER"}
<1>1. new = [tid |-> t, pos |-> p, op |-> op, wrong |-> wrong, miss |-> FALSE,
             stage |-> "FETCH", slot |-> slot, lsq_slot |-> -1, prev |-> prev,
             next |-> None, outstanding |-> {"MEM_HIER"}]
  BY DEF Starts, Dead
<1> QED
  BY <1>1 DEF Fields, Before

(* The new instruction, and what it leaves as it was. *)
Comes(t, i, op) ==
  /\ i \in Instr /\ instr[i].stage = "END" /\ i \notin Entries(iwindow)
  /\ IF fetch[t].wrong THEN op \in WrongOps
     ELSE fetch[t].pos \in DOMAIN Program[t] /\ op = Program[t][fetch[t].pos]
  /\ Shape(instr', iwindow', ldq', stq')
  /\ Entries(iwindow') = Entries(iwindow) \union {i}
  /\ instr'[i].tid = t /\ instr'[i].pos = fetch[t].pos /\ instr'[i].op = op
  /\ instr'[i].wrong = fetch[t].wrong /\ instr'[i].stage = "FETCH"
  /\ instr'[i].prev = tail(t) /\ instr'[i].next = None
  /\ \A j \in Instr \ {i} :
       /\ Same(instr, instr', j) /\ instr'[j].prev = instr[j].prev
       /\ instr'[j].next = IF j = tail(t) THEN i ELSE instr[j].next
  /\ \A a, b \in Entries(iwindow) : Older(iwindow', a, b) <=> Older(iwindow, a, b)
  /\ \A j \in Entries(iwindow) : ~Older(iwindow', i, j)

(* Where a context's fetch goes on, once nothing holds it up. *)
LEMMA FetchFrom ==
  ASSUME IInv, NEW t \in Ctxt, fetch_status[t] = {}
  PROVE  /\ \A j \in Entries(iwindow) : instr[j].tid = t =>
              instr[j].stage \notin Undecoded \union Faulty
         /\ tail(t) = None => \A j \in Entries(iwindow) : instr[j].tid # t
         /\ tail(t) # None =>
              /\ tail(t) \in Entries(iwindow) /\ instr[tail(t)].tid = t
              /\ \A j \in Entries(iwindow) : instr[j].tid = t /\ instr[j].next = None =>
                   j = tail(t)
         /\ ~fetch[t].wrong =>
              IF tail(t) = None THEN fetch[t].pos = retired[t] + 1
              ELSE ~instr[tail(t)].wrong /\ fetch[t].pos = instr[tail(t)].pos + 1
         /\ fetch[t].pos \in Nat /\ (~fetch[t].wrong => fetch[t].pos >= 1)
         /\ fetch[t].wrong \in BOOLEAN /\ tail(t) \in Instr \union {None}
<1>1. /\ Shape(instr, iwindow, ldq, stq) /\ Typed
      /\ Front(instr, iwindow, fetch, fetch_status, retired, t)
  BY DEF IInv
<1>2. /\ Sound(Instr, window_size, iwindow) /\ window_size \in Nat \ {0}
      /\ Entries(iwindow) \subseteq Instr /\ None \notin Instr /\ Links(instr, iwindow)
      /\ instr \in [Instr -> Fields]
  BY <1>1, SizeAssumption, InstrAssumption DEF Shape, Calm
<1>3. /\ empty_ctxt(iwindow, t) => tail(t) = None
      /\ ~empty_ctxt(iwindow, t) =>
           /\ tail(t) \in Entries(iwindow) /\ instr[tail(t)].tid = t
           /\ \A k \in Entries(iwindow) : instr[k].tid = t =>
                k = tail(t) \/ Older(iwindow, k, tail(t))
      /\ empty_ctxt(iwindow, t) <=> \A j \in Entries(iwindow) : instr[j].tid # t
  BY <1>2, TailIs, OwnIs
<1>4. /\ fetch[t].pos \in Nat /\ fetch[t].wrong \in BOOLEAN /\ retired[t] \in Nat
  BY <1>1 DEF Typed
<1>5. \A j \in Entries(iwindow) : instr[j].tid = t =>
        instr[j].stage \notin Undecoded \union Faulty
  BY <1>1 DEF Front
<1>6. CASE empty_ctxt(iwindow, t)
  <2>1. tail(t) = None /\ \A j \in Entries(iwindow) : instr[j].tid # t
    BY <1>3, <1>6
  <2>2. ~fetch[t].wrong => fetch[t].pos = retired[t] + 1
    BY <2>1, <1>1 DEF Front
  <2> QED
    BY <2>1, <2>2, <1>4, <1>5
<1>7. CASE ~empty_ctxt(iwindow, t)
  <2>1. tail(t) \in Entries(iwindow) /\ tail(t) \in Instr /\ tail(t) # None /\ instr[tail(t)].tid = t
    BY <1>2, <1>3, <1>7
  <2>2. ASSUME NEW j \in Entries(iwindow), instr[j].tid = t, instr[j].next = None
        PROVE  j = tail(t)
    <3>1. Last(instr, iwindow, j)
      BY <2>2, <1>2 DEF Links
    <3> QED
      BY <3>1, <2>1, <2>2, <1>3, <1>7 DEF Last
  <2>3. instr[tail(t)].next = None
    <3>1. SUFFICES ASSUME instr[tail(t)].next # None PROVE FALSE
      OBVIOUS
    <3>2. Behind(instr, iwindow, tail(t), instr[tail(t)].next)
      BY <3>1, <2>1, <1>2 DEF Links
    <3>3. PICK k \in Entries(iwindow) : instr[k].tid = t /\ Older(iwindow, tail(t), k)
      BY <3>2, <2>1 DEF Behind
    <3>4. k = tail(t) \/ Older(iwindow, k, tail(t))
      BY <3>3, <1>3, <1>7
    <3>5. Lined(iwindow)
      BY <1>2, InLine DEF Sound
    <3> QED
      BY <3>3, <3>4, <3>5 DEF Lined
  <2>4. ~fetch[t].wrong => ~instr[tail(t)].wrong /\ fetch[t].pos = instr[tail(t)].pos + 1
    BY <2>1, <2>3, <1>1, <1>5 DEF Front
  <2>5. instr[tail(t)].pos \in Nat
    BY <2>1, <1>2 DEF Fields
  <2> QED
    BY <2>1, <2>2, <2>4, <2>5, <1>4, <1>5
<1> QED
  BY <1>6, <1>7

LEMMA FetchComes ==
  ASSUME IInv, NEW t \in Ctxt, Fetch(t)
  PROVE  \E i, op : Comes(t, i, op)
<1>1. PICK i \in Free, op \in IF fetch[t].wrong THEN WrongOps ELSE {Program[t][fetch[t].pos]} :
        /\ iwindow' = Inserted(iwindow, i)
        /\ LET new == [Dead EXCEPT !.tid = t, !.pos = fetch[t].pos, !.op = op,
                                   !.wrong = fetch[t].wrong, !.stage = "FETCH",
                                   !.slot = iwindow'.last_created, !.prev = tail(t),
                                   !.outstanding = {"MEM_HIER"}]
           IN instr' = [j \in Instr |-> IF j = i THEN new
                                       ELSE IF j = tail(t) THEN [instr[j] EXCEPT !.next = i]
                                       ELSE instr[j]]
  BY DEF Fetch
<1>2. /\ fetch_status[t] = {} /\ slot_avail(iwindow) /\ UNCHANGED <<ldq, stq>>
      /\ fetch[t].wrong \/ fetch[t].pos <= Len(Program[t])
  BY DEF Fetch
<1> DEFINE new == [Dead EXCEPT !.tid = t, !.pos = fetch[t].pos, !.op = op,
                               !.wrong = fetch[t].wrong, !.stage = "FETCH",
                               !.slot = iwindow'.last_created, !.prev = tail(t),
                               !.outstanding = {"MEM_HIER"}]
<1>3. /\ Starts(new, t, fetch[t].pos, op, fetch[t].wrong, iwindow'.last_created, tail(t))
      /\ instr' = [j \in Instr |-> IF j = i THEN new
                                  ELSE IF j = tail(t) THEN [instr[j] EXCEPT !.next = i]
                                  ELSE instr[j]]
  BY <1>1 DEF Starts
<1> HIDE DEF new
<1>4. /\ fetch[t].pos \in Nat /\ (~fetch[t].wrong => fetch[t].pos >= 1)
      /\ fetch[t].wrong \in BOOLEAN /\ tail(t) \in Instr \union {None}
  BY <1>2, FetchFrom
<1>5. IF fetch[t].wrong THEN op \in WrongOps
      ELSE fetch[t].pos \in DOMAIN Program[t] /\ op = Program[t][fetch[t].pos]
  <2>1. \E S : Program[t] \in Seq(S)
    BY ProgramAssumption
  <2>2. ~fetch[t].wrong => fetch[t].pos \in DOMAIN Program[t]
    BY <2>1, <1>2, <1>4
  <2> QED
    BY <2>2, <1>1
<1>6. op \in Ops
  BY <1>5 DEF Ops
<1>7. /\ Shape(instr, iwindow, ldq, stq) /\ Sound(Instr, window_size, iwindow)
      /\ Entries(iwindow) = {j \in Instr : Flying(instr, j)}
  BY DEF IInv, Shape
<1>8. i \in Instr /\ instr[i].stage = "END" /\ ~Flying(instr, i) /\ i \notin Entries(iwindow)
  BY <1>1, <1>7 DEF Free, Flying, Before, PastExecute, Faulty, Exceptions, SpecExceptions
<1>9. window_size \in Nat \ {0} /\ None \notin Instr
  BY SizeAssumption, InstrAssumption
<1>10. Inserted(iwindow, i).last_created \in Int
  <2>1. slot_avail(iwindow) /\ Sound(Instr, window_size, iwindow)
    BY <1>2, <1>7
  <2>2. i \in Instr /\ i \notin Entries(iwindow)
    BY <1>8
  <2>3. Inserted(iwindow, i).last_created \in 0 .. window_size - 1
    BY <2>1, <2>2, <1>9, InsertedOrder
  <2> QED
    BY <2>3, <1>9
<1>11. /\ new \in Fields
       /\ new.tid = t /\ new.pos = fetch[t].pos /\ new.op = op /\ new.wrong = fetch[t].wrong
       /\ new.stage = "FETCH" /\ new.slot = Inserted(iwindow, i).last_created
       /\ new.lsq_slot = -1 /\ new.prev = tail(t)
       /\ new.next = None /\ new.outstanding = {"MEM_HIER"}
  <2>1. iwindow'.last_created = Inserted(iwindow, i).last_created
    BY <1>1
  <2> QED
    BY <2>1, <1>3, <1>4, <1>6, <1>10, StartsIs
<1>12. /\ Shape(instr', Inserted(iwindow, i), ldq, stq)
       /\ Entries(Inserted(iwindow, i)) = Entries(iwindow) \union {i}
       /\ instr'[i] = new
       /\ \A j \in Instr \ {i} :
            /\ Same(instr, instr', j) /\ instr'[j].prev = instr[j].prev
            /\ instr'[j].next = IF j = tail(t) THEN i ELSE instr[j].next
       /\ \A a, b \in Entries(iwindow) :
            Older(Inserted(iwindow, i), a, b) <=> Older(iwindow, a, b)
       /\ \A j \in Entries(iwindow) : ~Older(Inserted(iwindow, i), i, j)
  BY <1>2, <1>3, <1>6, <1>7, <1>8, <1>11, Fetched
<1>13. iwindow' = Inserted(iwindow, i) /\ ldq' = ldq /\ stq' = stq
  BY <1>1, <1>2
<1>14. Comes(t, i, op)
  BY <1>5, <1>8, <1>11, <1>12, <1>13 DEF Comes
<1> QED
  BY <1>14

LEMMA FetchGood ==
  ASSUME IInv, NEW t \in Ctxt, Fetch(t) PROVE Good
<1> DEFINE w == iwindow
           g == instr'
           w2 == iwindow'
<1>1. /\ fetch_status[t] = {}
      /\ fetch_status' = [fetch_status EXCEPT ![t] = @ \cup {"GPC_UNKNOWN"}]
      /\ UNCHANGED <<ldq, stq, st_buffer, fetch, ivec, retired, mem, done, traps>>
  BY DEF Fetch
<1>2. PICK i, op : Comes(t, i, op)
  BY FetchComes
<1>3. /\ i \in Instr /\ instr[i].stage = "END" /\ i \notin Entries(w)
      /\ Shape(g, w2, ldq', stq') /\ Entries(w2) = Entries(w) \union {i}
      /\ g[i].tid = t /\ g[i].pos = fetch[t].pos
      /\ g[i].wrong = fetch[t].wrong /\ g[i].stage = "FETCH"
      /\ g[i].prev = tail(t) /\ g[i].next = None
      /\ ~fetch[t].wrong => fetch[t].pos \in DOMAIN Program[t] /\ g[i].op = Program[t][fetch[t].pos]
  BY <1>2 DEF Comes
<1>4. \A j \in Instr \ {i} :
        /\ Same(instr, g, j) /\ g[j].prev = instr[j].prev
        /\ g[j].next = IF j = tail(t) THEN i ELSE instr[j].next
  BY <1>2 DEF Comes
<1>5. /\ \A a, b \in Entries(w) : Older(w2, a, b) <=> Older(w, a, b)
      /\ \A j \in Entries(w) : ~Older(w2, i, j)
  BY <1>2 DEF Comes
<1>6. /\ Typed /\ StartedFirst(instr, w) /\ Course(instr, w, retired)
      /\ Buffered(instr, st_buffer, retired) /\ DoneTrue(instr, w, st_buffer, retired, done)
      /\ \A c \in Ctxt : Front(instr, w, fetch, fetch_status, retired, c)
      /\ Entries(w) \subseteq Instr /\ None \notin Instr /\ Links(instr, w)
  BY InstrAssumption DEF IInv, Followed, Shape
<1>7. \A j \in Instr \ {i} :
        /\ g[j].tid = instr[j].tid /\ g[j].pos = instr[j].pos /\ g[j].op = instr[j].op
        /\ g[j].wrong = instr[j].wrong /\ g[j].stage = instr[j].stage
        /\ HasStarted(g, j) <=> HasStarted(instr, j)
  BY <1>4 DEF Same, HasStarted
<1>8. ~HasStarted(g, i) /\ ~HasStarted(instr, i) /\ g[i].stage \notin InBuffer
      /\ instr[i].stage \notin InBuffer
  BY <1>3 DEF HasStarted, InBuffer, AfterAccess
<1>9. \A j \in Entries(w) : j \in Instr \ {i} /\ j \in Entries(w2)
  BY <1>3, <1>6
<1>10. /\ \A j \in Entries(w) : instr[j].tid = t =>
            instr[j].stage \notin Undecoded \union Faulty
       /\ tail(t) = None => \A j \in Entries(w) : instr[j].tid # t
       /\ tail(t) # None =>
            /\ tail(t) \in Entries(w) /\ instr[tail(t)].tid = t
            /\ \A j \in Entries(w) : instr[j].tid = t /\ instr[j].next = None => j = tail(t)
       /\ ~fetch[t].wrong =>
            IF tail(t) = None THEN fetch[t].pos = retired[t] + 1
            ELSE ~instr[tail(t)].wrong /\ fetch[t].pos = instr[tail(t)].pos + 1
  BY <1>1, FetchFrom
<1> HIDE DEF g, w2
<1>11. StartedFirst(g, w2)
  <2> SUFFICES ASSUME NEW j \in Entries(w2)
               PROVE  /\ HasStarted(g, j) => First(g, w2, j) /\ ~g[j].wrong
                      /\ g[j].stage \in {"SAFE", "MEM"} => g[j].op.kind # "branch"
                      /\ g[j].stage = "PROGRESS" => g[j].op.kind \in {"load", "unsafe"}
    BY DEF StartedFirst
  <2>1. CASE j = i
    BY <2>1, <1>3, <1>8
  <2>2. CASE j # i
    <3>1. j \in Entries(w) /\ j \in Instr \ {i}
      BY <2>2, <1>3, <1>9
    <3>2. First(instr, w, j) => First(g, w2, j)
      BY <3>1, <1>3, <1>5, <1>7, <1>9 DEF First
    <3> QED
      BY <3>1, <3>2, <1>6, <1>7 DEF StartedFirst
  <2> QED
    BY <2>1, <2>2
<1>12. Course(g, w2, retired')
  <2> SUFFICES ASSUME NEW j \in Entries(w2), ~g[j].wrong
               PROVE  /\ g[j].pos \in DOMAIN Program[g[j].tid]
                      /\ g[j].op = Program[g[j].tid][g[j].pos]
                      /\ IF g[j].prev = None THEN g[j].pos = retired[g[j].tid] + 1
                         ELSE ~g[g[j].prev].wrong /\ g[j].pos = g[g[j].prev].pos + 1
    BY <1>1 DEF Course
  <2>1. CASE j = i
    <3>1. tail(t) # None => /\ g[tail(t)].wrong = instr[tail(t)].wrong
                            /\ g[tail(t)].pos = instr[tail(t)].pos
      BY <1>7, <1>9, <1>10
    <3> QED
      BY <2>1, <3>1, <1>3, <1>10
  <2>2. CASE j # i
    <3>1. j \in Entries(w) /\ j \in Instr \ {i}
      BY <2>2, <1>3, <1>9
    <3>2. g[j].prev = instr[j].prev
      BY <3>1, <1>4
    <3>3. instr[j].prev # None => instr[j].prev \in Instr \ {i}
      BY <3>1, <1>6, <1>9 DEF Links, Behind
    <3> QED
      BY <3>1, <3>2, <3>3, <1>6, <1>7 DEF Course
  <2> QED
    BY <2>1, <2>2
<1>13. Buffered(g, st_buffer', retired')
  <2>1. \A j \in Instr : g[j].stage \in InBuffer <=> instr[j].stage \in InBuffer
    BY <1>7, <1>8
  <2>2. \A j \in Entries(st_buffer) : j \in Instr \ {i}
    BY <1>6, <1>8 DEF Buffered
  <2>3. \A j \in Instr : HasStarted(g, j) <=> j # i /\ HasStarted(instr, j)
    BY <1>7, <1>8
  <2> QED
    BY <2>1, <2>2, <2>3, <1>1, <1>6, <1>7 DEF Buffered
<1>14. DoneTrue(g, w2, st_buffer', retired', done')
  <2>1. \A j \in Entries(st_buffer) : j \in Instr \ {i}
    BY <1>6, <1>8 DEF Buffered
  <2>2. \A c, p : Took(g, w2, st_buffer, retired, c, p) <=> Took(instr, w, st_buffer, retired, c, p)
    BY <2>1, <1>3, <1>7, <1>9 DEF Took
  <2> QED
    BY <2>2, <1>1, <1>6 DEF DoneTrue
<1>15. /\ fetch_status'[t] = {"GPC_UNKNOWN"}
       /\ \A c \in Ctxt \ {t} : fetch_status'[c] = fetch_status[c]
       /\ Typed'
  <2>1. /\ fetch_status'[t] = {"GPC_UNKNOWN"}
        /\ \A c \in Ctxt \ {t} : fetch_status'[c] = fetch_status[c]
        /\ fetch_status' \in
             [Ctxt -> SUBSET {"GPC_UNKNOWN", "STALL_UNTIL_EMPTY", "LDQ_FULL", "STQ_FULL"}]
    BY <1>1, <1>6 DEF Typed
  <2> QED
    BY <2>1, <1>1, <1>6 DEF Typed
<1>16. ASSUME NEW c \in Ctxt PROVE Front(g, w2, fetch', fetch_status', retired', c)
  <2>1. CASE c # t
    <3>1. \A j : j \in Entries(w2) /\ g[j].tid = c <=> j \in Entries(w) /\ instr[j].tid = c
      BY <2>1, <1>3, <1>7, <1>9
    <3>2. \A j \in Entries(w) : instr[j].tid = c => j # tail(t)
      BY <2>1, <1>6, <1>9, <1>10
    <3>3. \A j \in Entries(w) : instr[j].tid = c =>
            /\ g[j].pos = instr[j].pos /\ g[j].wrong = instr[j].wrong
            /\ g[j].stage = instr[j].stage /\ g[j].next = instr[j].next
      BY <3>2, <1>4, <1>7, <1>9
    <3>4. fetch'[c] = fetch[c] /\ retired'[c] = retired[c] /\ fetch_status[c] \subseteq fetch_status'[c]
      BY <2>1, <1>1, <1>15
    <3>5. Front(instr, w, fetch, fetch_status, retired, c)
      BY <1>6
    <3> QED
      BY <3>1, <3>3, <3>4, <3>5, FrontKept
  <2>2. CASE c = t
    <3>1. \A j \in Entries(w2) : g[j].tid = t => j = i \/ (j \in Entries(w) /\ instr[j].tid = t)
      BY <1>3, <1>7, <1>9
    <3>2. \A j \in Entries(w) : instr[j].tid = t => g[j].next # None
      BY <1>3, <1>4, <1>6, <1>9, <1>10
    <3>3. \A j \in Entries(w) : instr[j].tid = t =>
            g[j].stage \notin Undecoded \union Faulty
      BY <1>7, <1>9, <1>10
    <3>4. "FETCH" \in Undecoded \ Faulty
      BY DEF Undecoded, Faulty, Exceptions, SpecExceptions
    <3> QED
      BY <2>2, <3>1, <3>2, <3>3, <3>4, <1>3, <1>15 DEF Front
  <2> QED
    BY <2>1, <2>2
<1>17. IInv'
  BY <1>3, <1>11, <1>12, <1>13, <1>14, <1>15, <1>16 DEF IInv, Followed, g, w2
<1>18. Kept /\ UNCHANGED Memory!vars
  BY <1>1, <1>7, <1>8 DEF Kept, g, Memory!vars
<1> QED
  BY <1>17, <1>18 DEF Good
-----------------------------------------------------------------------------
(* It holds initially: nothing is in flight. *)
LEMMA InitGood ==
  ASSUME Init PROVE IInv /\ Memory!Init
<1>1. /\ Sound(Instr, window_size, iwindow) /\ Entries(iwindow) = {}
      /\ Sound(Instr, load_size, ldq) /\ Entries(ldq) = {}
      /\ Sound(Instr, store_size, stq) /\ Entries(stq) = {}
      /\ Sound(Instr, stbuf_size, st_buffer) /\ Entries(st_buffer) = {}
  BY SizeAssumption, EmptySound DEF Init
<1>2. instr = [i \in Instr |-> Dead] /\ retired = [t \in Ctxt |-> 0]
      /\ done = [t \in Ctxt |-> <<>>] /\ fetch = [t \in Ctxt |-> [pos |-> 1, wrong |-> FALSE]]
  BY DEF Init
<1>3. \A i \in Instr : /\ instr[i] = Dead /\ instr[i].outstanding = {}
                       /\ instr[i].stage = "END" /\ ~Flying(instr, i)
                       /\ instr[i].stage \notin InBuffer /\ ~HasStarted(instr, i)
  BY <1>2, DeadIs DEF Flying, HasStarted, AfterAccess
<1>4. Calm(instr)
  <2>1. instr \in [Instr -> Fields]
    BY <1>2, DeadIs
  <2> QED
    BY <2>1, <1>3 DEF Calm, Undecoded
<1>5. Queueing(instr, Loads) = {} /\ Queueing(instr, Stores) = {}
  BY <1>3 DEF Queueing
<1>6. /\ SlotsTrue(instr, iwindow) /\ Links(instr, iwindow)
      /\ LsqSlotsTrue(instr, ldq, load_size) /\ LsqSlotsTrue(instr, stq, store_size)
      /\ SameOrder(instr, iwindow, ldq) /\ SameOrder(instr, iwindow, stq)
  BY <1>1 DEF SlotsTrue, Links, LsqSlotsTrue, SameOrder
<1>7. Shape(instr, iwindow, ldq, stq)
  BY <1>1, <1>3, <1>4, <1>5, <1>6 DEF Shape
<1>8. StartedFirst(instr, iwindow) /\ Course(instr, iwindow, retired)
  BY <1>1 DEF StartedFirst, Course
<1>9. Buffered(instr, st_buffer, retired)
  BY <1>1, <1>3 DEF Buffered
<1>10. DoneTrue(instr, iwindow, st_buffer, retired, done)
  <2> SUFFICES ASSUME NEW t \in Ctxt, NEW p \in Memory!MemoryOps(t)
               PROVE  Has(done[t], p) <=> Took(instr, iwindow, st_buffer, retired, t, p)
    BY DEF DoneTrue
  <2>1. Program[t] \in Seq([kind : {"branch", "load", "store", "unsafe"}, addr : Addr])
    BY ProgramAssumption
  <2>2. p \in Nat /\ p >= 1
    BY <2>1 DEF Memory!MemoryOps
  <2>3. ~Has(done[t], p)
    BY <1>2 DEF Has
  <2>4. ~Took(instr, iwindow, st_buffer, retired, t, p)
    BY <2>2, <1>1, <1>2 DEF Took
  <2> QED
    BY <2>3, <2>4
<1>11. \A t \in Ctxt : Front(instr, iwindow, fetch, fetch_status, retired, t)
  BY <1>1, <1>2 DEF Front
<1>12. Typed
  <2>1. fetch \in [Ctxt -> [pos : Nat, wrong : BOOLEAN]] /\ retired \in [Ctxt -> Nat]
    BY <1>2
  <2>2. /\ fetch_status \in
             [Ctxt -> SUBSET {"GPC_UNKNOWN", "STALL_UNTIL_EMPTY", "LDQ_FULL", "STQ_FULL"}]
        /\ ivec \in [Ctxt -> BOOLEAN]
    BY DEF Init
  <2>3. traps \in 0 .. MaxTraps
    BY SizeAssumption DEF Init
  <2>4. mem \in [Addr -> Vals]
    BY DEF Init, Vals, Memory!Initial
  <2>5. done \in [Ctxt -> Seq([pos : Nat, val : Vals])]
    BY <1>2
  <2> QED
    BY <2>1, <2>2, <2>3, <2>4, <2>5 DEF Typed
<1>13. Memory!Init
  BY DEF Init, Memory!Init, Memory!Initial
<1> QED
  BY <1>7, <1>8, <1>9, <1>10, <1>11, <1>12, <1>13 DEF IInv, Followed

(* Every step keeps it, one case for each action. *)
LEMMA NextGood ==
  ASSUME IInv, [Next]_vars PROVE Good
<1>1. CASE UNCHANGED vars
  <2>1. UNCHANGED <<instr, queues, st_buffer, fetch, fetch_status, ivec, retired, mem, done, traps>>
    BY <1>1 DEF vars, queues
  <2>2. Typed' /\ \A c \in Ctxt : Front(instr, iwindow, fetch', fetch_status', retired, c)
    BY <2>1 DEF IInv, Typed
  <2> QED
    BY <2>1, <2>2, ControlGood
<1>2. ASSUME NEW i \in Instr, Step(i) PROVE Good
  BY <1>2, PreDecodeGood, RenameGood, ExecuteGood, MemHierDoneGood, StoreDoneGood, DeadWakeupGood
     DEF Step
<1>3. ASSUME NEW i \in Instr, Fault(i) PROVE Good
  BY <1>3, FaultGood
<1>4. ASSUME NEW t \in Ctxt, Cycle(t) PROVE Good
  BY <1>4, FetchGood, StBufferGood, FrontEndGood, TakeGood, PrepareForInterruptGood DEF Cycle
<1>5. ASSUME NEW t \in Ctxt, Interrupt(t) PROVE Good
  BY <1>5, InterruptGood
<1>6. ASSUME NEW t \in Ctxt, NEW i \in Instr, Finish(t, i) PROVE Good
  BY <1>6, KillSpeculativeGood, AccessGood, RetireGood, RetireFaultGood DEF Finish
<1>7. CASE Finished
  BY <1>7, <1>1 DEF Finished
<1> QED
  BY <1>1, <1>2, <1>3, <1>4, <1>5, <1>6, <1>7 DEF Next

LEMMA Inductive == Spec => []IInv
<1>1. Init => IInv
  BY InitGood
<1>2. IInv /\ [Next]_vars => IInv'
  BY NextGood DEF Good
<1> QED
  BY <1>1, <1>2, PTL DEF Spec
-----------------------------------------------------------------------------
(* Every variable has its type, for any sizes of window and queues, and no *)
(* instruction object has two things outstanding: insert_event() and the   *)
(* memory hierarchy never hold the same object.                            *)
THEOREM TypeCorrect == Spec => []TypeOK
<1>1. ASSUME IInv PROVE TypeOK
  <2>1. Typed /\ Calm(instr) /\ Buffered(instr, st_buffer, retired)
        /\ Sound(Instr, window_size, iwindow)
        /\ Sound(Instr, load_size, ldq) /\ Sound(Instr, store_size, stq)
    BY <1>1 DEF IInv, Followed, Shape
  <2>2. Sound(Instr, stbuf_size, st_buffer)
    BY <2>1 DEF Buffered
  <2>3. ASSUME NEW i \in Instr PROVE Cardinality(instr[i].outstanding) <= 1
    <3>1. instr[i].outstanding \in {{}, {"EVENTQ"}, {"MEM_HIER"}}
      BY <2>1 DEF Calm
    <3>2. /\ Cardinality({}) = 0 /\ Cardinality({"EVENTQ"}) = 1
          /\ Cardinality({"MEM_HIER"}) = 1
      BY FS_EmptySet, FS_Singleton
    <3> QED
      BY SMTT(30), <3>1, <3>2
  <2> QED
    BY <2>1, <2>2, <2>3 DEF TypeOK, Typed, Calm, Sound
<1> QED
  BY <1>1, Inductive, PTL

(* The instruction window and the store buffer never have holes, and an    *)
(* instruction in flight is in the slot it recorded and nowhere else,      *)
(* however squash() and collapse() moved it for another context's sake.    *)
THEOREM WindowSound == Spec => []WindowTrue
<1>1. IInv => WindowTrue
  BY ShapeWindow DEF IInv, Followed, Buffered
<1> QED
  BY <1>1, Inductive, PTL

(* The same of load queue and store queue: the lsq_slot kill_all() squashes *)
(* from is where the instruction is.                                       *)
THEOREM LsqSound == Spec => []LsqTrue
<1>1. IInv => LsqTrue
  BY ShapeLsq DEF IInv
<1> QED
  BY <1>1, Inductive, PTL

(* A context's entries of load and store queue are its decoded loads and   *)
(* stores in the window's order, and prev and next follow that order.      *)
THEOREM QueuesSound == Spec => []QueuesAgree
<1>1. IInv => QueuesAgree
  BY ShapeQueues DEF IInv
<1> QED
  BY <1>1, Inductive, PTL

(* No branch, fault, full queue or interrupt of another instruction        *)
(* squashes one that went to memory: it stays until it retires, or until   *)
(* its own re-execution has faulted, and then it is what is fetched next.  *)
THEOREM StartedKept == Spec => StartedIsKept
<1>1. IInv /\ [Next]_vars => Kept
  BY NextGood DEF Good
<1>2. /\ \A i \in Instr : Started(i) <=> HasStarted(instr, i)
      /\ \A i \in Instr : Started(i)' <=> HasStarted(instr', i)
  <2>1. AfterAccess =
          {"PROGRESS", "REEXEC", "COMMIT", Exception("REEXEC"), SpecException("REEXEC")}
    BY DEF AfterAccess, Exception, SpecException
  <2> QED
    BY <2>1 DEF Started, HasStarted
<1>3. Kept => \A i \in Instr : Started(i) =>
                \/ Started(i)' \/ Refetched(i)
                \/ retired'[instr[i].tid] = instr[i].pos
  BY <1>2 DEF Kept
<1>4. IInv /\ [Next]_vars =>
        [\A i \in Instr : Started(i) =>
           \/ Started(i)' \/ Refetched(i)
           \/ retired'[instr[i].tid] = instr[i].pos]_vars
  BY <1>1, <1>3
<1> QED
  BY <1>4, Inductive, PTL DEF Spec, StartedIsKept

(* The core implements SeqMemory for any contexts, programs and sizes: the *)
(* memory operations of each context take effect in program order, once    *)
(* each, and a load returns what the last store to its address wrote.      *)
THEOREM SequentiallyConsistent == Spec => Sequential
<1>1. Init => Memory!Init
  BY InitGood
<1>2. IInv /\ [Next]_vars => [Memory!Next]_(Memory!vars)
  BY NextGood DEF Good
<1> QED
  BY <1>1, <1>2, Inductive, PTL DEF Spec, Sequential, Memory!Spec
=============================================================================
