------------------------------ MODULE SingleUse ------------------------------
(***************************************************************************)
(* What a connection grant, a launcher token and a round trip of a sign-in *)
(* promise: each is made once and accepted once at most, and not after it  *)
(* was revoked or dropped.                                                 *)
(***************************************************************************)
EXTENDS Naturals

CONSTANT Tokens

VARIABLES status, handed

States == {"none", "live", "spent", "void"}

Init == status = [t \in Tokens |-> "none"] /\ handed = [t \in Tokens |-> 0]

Become(t, from, to) == status[t] = from /\ status' = [status EXCEPT ![t] = to]

Mint(t)  == Become(t, "none", "live") /\ UNCHANGED handed
Spend(t) == Become(t, "live", "spent") /\ handed' = [handed EXCEPT ![t] = 1]

\* revokeAssignment() and offboarding revoke every token of a person at once.
VoidSome ==
  \E S \in SUBSET {t \in Tokens : status[t] = "live"} :
    /\ status' = [t \in Tokens |-> IF t \in S THEN "void" ELSE status[t]]
    /\ UNCHANGED handed

Next == VoidSome \/ \E t \in Tokens : Mint(t) \/ Spend(t)

Spec == Init /\ [][Next]_<<status, handed>>
=============================================================================
