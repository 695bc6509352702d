--------------------------- MODULE SoundOptimizer ---------------------------
(***************************************************************************)
(* What every optimizer of the project promises, whatever its search: at   *)
(* every moment the program it holds means what the original means, to the *)
(* extent that the request asks for, and it finishes.  The rewrite driver  *)
(* and the schedule tuner are implementations.                             *)
(***************************************************************************)
CONSTANTS Programs,
          Requests,            \* such as the numeric mode
          Preserves(_, _, _)   \* Preserves(request, original, optimized)

VARIABLES request, original, program, done

vars == <<request, original, program, done>>

Init ==
  /\ request \in Requests
  /\ original \in Programs
  /\ program = original
  /\ done = FALSE

Replace ==
  /\ ~ done
  /\ Preserves(request, original, program')
  /\ UNCHANGED <<request, original, done>>

Finish ==
  /\ ~ done
  /\ done' = TRUE
  /\ UNCHANGED <<request, original, program>>

Next == Replace \/ Finish

Spec == Init /\ [][Next]_vars

Finishes == <>done

=============================================================================
