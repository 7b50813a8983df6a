----------------------------- MODULE Coherence ------------------------------
(***************************************************************************)
(* What a coherence protocol promises to the processors above it, whatever *)
(* messages it uses: each cache holds a right to each line, a right to     *)
(* write excludes every other right, and a processor's request is answered *)
(* by a cache only while it holds the right the request needs.             *)
(***************************************************************************)
CONSTANTS
  Caches,    \* the caches that answer processors
  Addrs,     \* line addresses
  Uncached   \* addresses whose requests pass the caches by

VARIABLES
  right,     \* right[p][a]: "none", "read" or "write"
  pending    \* pending[p]: requests <<op, a>> of p that are not answered

Requests == {"LD", "ST"} \X Addrs
Rights == {"none", "read", "write"}

Init ==
  /\ right = [p \in Caches |-> [a \in Addrs |-> "none"]]
  /\ pending = [p \in Caches |-> {}]

(* The right that answers request r. *)
Allows(new, r) == new = "write" \/ (new = "read" /\ r[1] = "LD")

(* A processor asks; the cache may give up lines to make room.              *)
Ask(p, r, lost) ==
  /\ pending' = [pending EXCEPT ![p] = @ \union {r}]
  /\ right' = [right EXCEPT ![p] =
                 [a \in Addrs |-> IF a \in lost THEN "none" ELSE right[p][a]]]

(* The right of p to line a becomes new, and the requests done are answered.*)
(* With new = "none" it is a loss, with done = {} no one is answered.       *)
Move(p, a, new, done) ==
  /\ new = "write" => \A q \in Caches \ {p} : right[q][a] = "none"
  /\ new = "read" => \A q \in Caches \ {p} : right[q][a] # "write"
  /\ \A r \in done : r[2] = a /\ (a \in Uncached \/ Allows(new, r))
  /\ right' = [right EXCEPT ![p][a] = new]
  /\ pending' = [pending EXCEPT ![p] = @ \ done]

Next ==
  \E p \in Caches :
    \/ \E r \in Requests : \E lost \in {{}} \union {{a} : a \in Addrs} :
         Ask(p, r, lost)
    \/ \E a \in Addrs, new \in Rights : \E done \in SUBSET pending[p] :
         Move(p, a, new, done)

Spec == Init /\ [][Next]_<<right, pending>>

-----------------------------------------------------------------------------
TypeOK ==
  /\ right \in [Caches -> [Addrs -> Rights]]
  /\ pending \in [Caches -> SUBSET Requests]

(* A cache that may write a line is the only one with a right to it: no     *)
(* processor reads a value that another is replacing.                       *)
Exclusion ==
  \A p, q \in Caches : \A a \in Addrs :
    p # q /\ right[p][a] = "write" => right[q][a] = "none"
=============================================================================
