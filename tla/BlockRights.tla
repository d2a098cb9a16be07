---------------------------- MODULE BlockRights ----------------------------
(***************************************************************************)
(* What the cores are promised of one block: a core asks, and in the end   *)
(* is served with the rights it asked for; the rights of all cores always  *)
(* allow either one writer or any number of readers.  Nothing is said of   *)
(* caches, directories or messages.                                        *)
(***************************************************************************)
CONSTANT Cores

VARIABLES
  want,     \* what each core is waiting for: "None", "Load" or "Store"
  rights    \* what each core may do without asking: "none", "read", "write"

vars == <<want, rights>>

Rights == {"none", "read", "write"}

(* The rights that serve a request.  They are gained in no other way. *)
Enough(op) == IF op = "Load" THEN {"read", "write"} ELSE {"write"}

Init ==
  /\ want = [c \in Cores |-> "None"]
  /\ rights = [c \in Cores |-> "none"]

(* Core c may hold r beside what the others hold. *)
Compatible(c, r) ==
  \A d \in Cores \ {c} :
    /\ r = "write" => rights[d] = "none"
    /\ r = "read" => rights[d] # "write"

Hold(c, r) ==
  /\ Compatible(c, r)
  /\ rights' = [rights EXCEPT ![c] = r]

(* A core that asks may lose the lesser rights it has on the spot. *)
Ask(c, op) ==
  /\ want[c] = "None"
  /\ want' = [want EXCEPT ![c] = op]
  /\ \E r \in {rights[c], "none"} : Hold(c, r)

Serve(c) ==
  /\ want[c] # "None"
  /\ want' = [want EXCEPT ![c] = "None"]
  /\ \E r \in Enough(want[c]) : Hold(c, r)

Lose(c) ==
  /\ \E r \in IF rights[c] = "write" THEN {"none", "read"} ELSE {"none"} : Hold(c, r)
  /\ UNCHANGED want

Next ==
  \E c \in Cores :
    \/ \E op \in {"Load", "Store"} : Ask(c, op)
    \/ Serve(c)
    \/ Lose(c)

EveryAskServed == \A c \in Cores : want[c] # "None" ~> want[c] = "None"

Spec == Init /\ [][Next]_vars /\ EveryAskServed
=============================================================================
