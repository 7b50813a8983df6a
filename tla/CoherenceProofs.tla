--------------------------- MODULE CoherenceProofs --------------------------
(***************************************************************************)
(* What the abstract specification is worth: whatever implements it has a  *)
(* single writer per line, for any number of caches and lines.  CmpIncl is *)
(* checked (property Coherent) and proved (CmpInclProofs, Implements) to   *)
(* implement it.                                                           *)
(***************************************************************************)
EXTENDS Coherence, TLAPS

(* The types are inductive: the model's rights and requests stay in their   *)
(* sets.                                                                    *)
THEOREM TypeCorrect == Spec => []TypeOK
<1>1. Init => TypeOK
  BY DEF Init, TypeOK, Rights
<1>2. TypeOK /\ [Next]_<<right, pending>> => TypeOK'
  <2> SUFFICES ASSUME TypeOK, [Next]_<<right, pending>>
               PROVE  TypeOK'
    OBVIOUS
  <2>1. ASSUME NEW p \in Caches, NEW r \in Requests, NEW lost, Ask(p, r, lost)
        PROVE  TypeOK'
    BY <2>1 DEF Ask, TypeOK, Rights
  <2>2. ASSUME NEW p \in Caches, NEW a \in Addrs, NEW new \in Rights,
               NEW done \in SUBSET pending[p], Move(p, a, new, done)
        PROVE  TypeOK'
    <3>1. right' \in [Caches -> [Addrs -> Rights]]
      BY <2>2 DEF Move, TypeOK
    <3>2. pending' \in [Caches -> SUBSET Requests]
      BY <2>2 DEF Move, TypeOK
    <3> QED
      BY <3>1, <3>2 DEF TypeOK
  <2>3. CASE UNCHANGED <<right, pending>>
    BY <2>3 DEF TypeOK
  <2> QED
    BY <2>1, <2>2, <2>3 DEF Next
<1> QED
  BY <1>1, <1>2, PTL DEF Spec

(* A right to write excludes every other right to the line: a step that     *)
(* grants one right looks at the rights of all the other caches.            *)
THEOREM SoleWriter == Spec => []Exclusion
<1>1. Init => Exclusion
  BY DEF Init, Exclusion
<1>2. TypeOK /\ Exclusion /\ [Next]_<<right, pending>> => Exclusion'
  <2> SUFFICES ASSUME TypeOK, Exclusion, [Next]_<<right, pending>>
               PROVE  Exclusion'
    OBVIOUS
  <2>1. ASSUME NEW p \in Caches, NEW r \in Requests, NEW lost, Ask(p, r, lost)
        PROVE  Exclusion'
    <3>1. \A q \in Caches, a \in Addrs :
            right'[q][a] = right[q][a] \/ right'[q][a] = "none"
      BY <2>1 DEF Ask, TypeOK
    <3> QED
      BY <3>1 DEF Exclusion
  <2>2. ASSUME NEW p \in Caches, NEW a \in Addrs, NEW new \in Rights,
               NEW done \in SUBSET pending[p], Move(p, a, new, done)
        PROVE  Exclusion'
    <3>1. /\ right'[p][a] = new
          /\ \A q \in Caches, b \in Addrs :
               q # p \/ b # a => right'[q][b] = right[q][b]
      BY <2>2 DEF Move, TypeOK
    <3>2. /\ new = "write" => \A q \in Caches \ {p} : right[q][a] = "none"
          /\ new = "read" => \A q \in Caches \ {p} : right[q][a] # "write"
          /\ new \in {"none", "read", "write"}
      BY <2>2 DEF Move, Rights
    <3> SUFFICES ASSUME NEW x \in Caches, NEW y \in Caches, NEW b \in Addrs,
                        x # y, right'[x][b] = "write"
                 PROVE  right'[y][b] = "none"
      BY DEF Exclusion
    <3>3. CASE b = a /\ x = p
      BY <3>1, <3>2, <3>3
    <3>4. CASE b = a /\ y = p
      <4>1. right[x][a] = "write"
        BY <3>1, <3>4
      <4> QED
        BY <3>1, <3>2, <3>4, <4>1
    <3>5. CASE b # a \/ (x # p /\ y # p)
      BY <3>1, <3>5 DEF Exclusion
    <3> QED
      BY <3>3, <3>4, <3>5
  <2>3. CASE UNCHANGED <<right, pending>>
    BY <2>3 DEF Exclusion
  <2> QED
    BY <2>1, <2>2, <2>3 DEF Next
<1>3. Spec => []TypeOK
  BY TypeCorrect
<1> QED
  BY <1>1, <1>2, <1>3, PTL DEF Spec
=============================================================================
