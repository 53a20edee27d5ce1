---------------------------- MODULE WorkDelivery ----------------------------
(***************************************************************************)
(* What the job pipeline of file.cheap promises, without saying how: a     *)
(* task that reached the queue stays queued until it is finished or        *)
(* dropped, and it is only finished once its result has been stored.  The  *)
(* owner may delete the file of a task at any time: that waives the result *)
(* and may remove it, but never finishes or forgets a queued task.         *)
(***************************************************************************)
CONSTANT Tasks

VARIABLES task,      \* progress of each task
          stored,    \* tasks whose result is stored
          waived     \* tasks whose result the owner gave up

vars == <<task, stored, waived>>

TypeOK == /\ task \in [Tasks -> {"new", "queued", "finished", "dropped"}]
          /\ stored \in SUBSET Tasks
          /\ waived \in SUBSET Tasks

Init == /\ task = [t \in Tasks |-> "new"]
        /\ stored = {}
        /\ waived = {}

Submit(t) == /\ task[t] = "new"
             /\ task' = [task EXCEPT ![t] = "queued"]
             /\ UNCHANGED <<stored, waived>>

\* A result may be stored again when a task is run a second time.
Store(t) == /\ task[t] = "queued"
            /\ stored' = stored \cup {t}
            /\ UNCHANGED <<task, waived>>

Finish(t) == /\ task[t] = "queued"
             /\ t \in stored \cup waived
             /\ task' = [task EXCEPT ![t] = "finished"]
             /\ UNCHANGED <<stored, waived>>

Drop(t) == /\ task[t] = "queued"
           /\ task' = [task EXCEPT ![t] = "dropped"]
           /\ UNCHANGED <<stored, waived>>

\* The results of the tasks T are no longer owed, stored or not.
Waive(T) == /\ waived' = waived \cup T
            /\ UNCHANGED <<task, stored>>

Remove(t) == /\ t \in waived
             /\ stored' = stored \ {t}
             /\ UNCHANGED <<task, waived>>

Next == \/ \E t \in Tasks : \/ Submit(t) \/ Store(t) \/ Finish(t) \/ Drop(t)
                             \/ Remove(t)
        \/ \E T \in SUBSET Tasks : Waive(T)

Spec == Init /\ [][Next]_vars
=============================================================================
