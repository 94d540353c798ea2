----------------------------- MODULE CoEnvLife ------------------------------
(***************************************************************************)
(* co_env keeps the promise of TaskLife.  The status of a task is read off *)
(* the list it is in; a task that is being removed has ended, and so have  *)
(* its events, although they are deleted one by one.                       *)
(***************************************************************************)
EXTENDS CoEnv

StatusOf(t) ==
  CASE t \notin valid_cothreads -> "absent"
    [] t \in valid_cothreads \cap add_list -> "added"
    [] t \in (valid_cothreads \cap rd_list) \ add_list -> "ready"
    [] OTHER -> "blocked"

LiveNodes == {n \in DOMAIN node : node[n].thread_ptr \in valid_cothreads}

Life == INSTANCE TaskLife WITH
  Nobody <- Null,
  status <- [t \in Threads |-> StatusOf(t)],
  running <- IF pc = "run" THEN it ELSE Null,
  doomed <- cancel_list,
  owner <- [n \in LiveNodes |-> node[n].thread_ptr]

\* Every step of the scheduler is a step that TaskLife allows, or none: no task
\* is lost or wakes by itself, none runs once it is cancelled, no event of a blocked
\* task is consumed silently, and only a task that returns or whose id is in
\* cancel_list is removed.
ImplementsTaskLife == Life!LifeSpec

=============================================================================
