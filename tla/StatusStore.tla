----------------------------- MODULE StatusStore -----------------------------
(***************************************************************************)
(* What the order rows promise about the statuses the engine reports: each *)
(* one waits until a transaction records it, several may be recorded       *)
(* together, and only a writer that stops may give up those that wait.     *)
(***************************************************************************)
CONSTANT OrderId

VARIABLES waiting,     \* orders whose status is reported and not recorded
          done,        \* orders whose status is recorded
          abandoned    \* the writer stopped without recording what waited

store == <<waiting, done, abandoned>>

Report(o) ==
  /\ o \notin waiting \cup done
  /\ waiting' = waiting \cup {o}
  /\ UNCHANGED <<done, abandoned>>

Record(S) ==
  /\ S \subseteq waiting /\ S # {}
  /\ waiting' = waiting \ S
  /\ done' = done \cup S
  /\ UNCHANGED abandoned

(* What waits at the end may have been recorded or not.                    *)
Abandon(S) ==
  /\ ~abandoned
  /\ abandoned' = TRUE
  /\ waiting' = {}
  /\ done' = done \cup S

Init == waiting = {} /\ done = {} /\ abandoned = FALSE

Next == \/ \E o \in OrderId : Report(o)
        \/ \E S \in SUBSET waiting : Record(S) \/ Abandon(S)

Spec == Init /\ [][Next]_store

=============================================================================
