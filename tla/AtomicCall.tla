----------------------------- MODULE AtomicCall -----------------------------
(***************************************************************************)
(* What the handlers count on when they call the controller: a call takes  *)
(* effect once or not at all, in the same moment in which its answer is    *)
(* decided, and never after it.  (That holds while the caller waits.  A    *)
(* call that its caller gives up can be applied late, which TokenIdentity  *)
(* and RoleAttributes model.)                                              *)
(***************************************************************************)
EXTENDS Naturals

CONSTANT Calls

VARIABLES
    effects,    \* how often each call took effect
    answer      \* "none" so far, "ok" or "error"

Init ==
    /\ effects = [c \in Calls |-> 0]
    /\ answer = [c \in Calls |-> "none"]

Works(c) ==
    /\ answer[c] = "none"
    /\ effects' = [effects EXCEPT ![c] = @ + 1]
    /\ \E res \in {"ok", "error"} : answer' = [answer EXCEPT ![c] = res]

Breaks(c) ==
    /\ answer[c] = "none"
    /\ answer' = [answer EXCEPT ![c] = "error"]
    /\ UNCHANGED effects

Next == \E c \in Calls : Works(c) \/ Breaks(c)

Spec == Init /\ [][Next]_<<effects, answer>>
=============================================================================
