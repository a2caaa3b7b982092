---------------------------- MODULE TxtRecordSet ----------------------------
(***************************************************************************)
(* What internal/publisher/publisher.go promises of a Publisher: the TXT   *)
(* values at a name are a set, EnsureRecord adds its own value to it and   *)
(* DeleteRecord takes its own value away, each leaves every other value    *)
(* alone, may be repeated, and reports success only once its effect holds; *)
(* one that fails may have its effect, then or later.                      *)
(***************************************************************************)
CONSTANTS Job, Value, Initial, Ensures, ValueOf

VARIABLES values,   \* the TXT values at the name
          result    \* result[j]: "none", "ok" or "error"

vars == <<values, result>>

Effect(j, s) == IF j \in Ensures THEN s \cup {ValueOf[j]} ELSE s \ {ValueOf[j]}

Init == /\ values \in SUBSET Initial
        /\ result = [j \in Job |-> "none"]

\* The effect of a call comes before its outcome, or late if it has failed.
Apply(j) == /\ result[j] # "ok"
            /\ values' = Effect(j, values)
            /\ UNCHANGED result

Succeed(j) == /\ result[j] = "none"
              /\ values' \in {values, Effect(j, values)}
              /\ values' = Effect(j, values')
              /\ result' = [result EXCEPT ![j] = "ok"]

Fail(j) == /\ result[j] = "none"
           /\ result' = [result EXCEPT ![j] = "error"]
           /\ values' \in {values, Effect(j, values)}

Next == \E j \in Job : Apply(j) \/ Succeed(j) \/ Fail(j)

Spec == Init /\ [][Next]_vars
=============================================================================
