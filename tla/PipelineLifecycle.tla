-------------------------- MODULE PipelineLifecycle --------------------------
(***************************************************************************)
(* The lifecycle of one distributed model instance, as the type            *)
(* PipelineState of internal/split/split.go declares it and as a driver    *)
(* advertises it to the pool: an instance is launched loading, becomes     *)
(* ready or fails, and can vanish at any time.  Only a fresh launch leads  *)
(* back to loading.                                                        *)
(***************************************************************************)
CONSTANT Models
VARIABLE slot

SlotState == {"absent", "loading", "ready", "error"}

Move(m, from, to) == slot[m] = from /\ slot' = [slot EXCEPT ![m] = to]

Init == slot = [m \in Models |-> "absent"]

Launch(m)  == Move(m, "absent", "loading")
Succeed(m) == Move(m, "loading", "ready")
Fail(m)    == Move(m, "loading", "error")
Vanish(S)  == slot' = [m \in Models |-> IF m \in S THEN "absent" ELSE slot[m]]

Next == \/ \E m \in Models : Launch(m) \/ Succeed(m) \/ Fail(m)
        \/ \E S \in SUBSET Models : Vanish(S)

Spec == Init /\ [][Next]_slot
=============================================================================
