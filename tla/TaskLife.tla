------------------------------ MODULE TaskLife ------------------------------
(***************************************************************************)
(* What co_env promises to the owner of a task, whatever its lists do:     *)
(* a task is added, becomes ready, runs while it is ready, may block on    *)
(* events of its own, and ends because it finished or was cancelled.  One  *)
(* task runs at a time, and none whose cancellation is pending.  Each      *)
(* registered event is consumed at most once, and the event of a blocked   *)
(* task is not consumed without making the task ready.                     *)
(*                                                                         *)
(* Tasks and events are known by ids that the owner may keep too long: a   *)
(* cancellation is pending until no task has its id, so it strikes a task  *)
(* that gets the id meanwhile, and a task that runs may withdraw the event *)
(* of another by its id.                                                   *)
(***************************************************************************)
CONSTANTS Threads, Nodes, Nobody

VARIABLES
  status,   (* "absent", "added", "ready" or "blocked"                      *)
  running,  (* the task that runs, or Nobody                                *)
  doomed,   (* the ids that cancel_task was called for                      *)
  owner     (* the task that waits for each registered event                *)

lifeVars == <<status, running, doomed, owner>>

LifeInit ==
  /\ status = [t \in Threads |-> "absent"]
  /\ running = Nobody
  /\ doomed = {}
  /\ owner = [n \in {} |-> {}]

OwnedBy(t) == {n \in DOMAIN owner : owner[n] = t}
OwnerWithout(S) == [n \in DOMAIN owner \ S |-> owner[n]]

Add(t) ==
  /\ status[t] = "absent"
  /\ status' = [status EXCEPT ![t] = "added"]
  /\ UNCHANGED <<running, doomed, owner>>

Doom(t) ==
  /\ status[t] # "absent"
  /\ doomed' = doomed \cup {t}
  /\ UNCHANGED <<status, running, owner>>

\* All new tasks become ready together.
AdmitAll ==
  /\ running = Nobody
  /\ status' = [t \in Threads |-> IF status[t] = "added" THEN "ready" ELSE status[t]]
  /\ UNCHANGED <<running, doomed, owner>>

Start(t) ==
  /\ running = Nobody
  /\ status[t] = "ready"
  /\ t \notin doomed
  /\ running' = t
  /\ UNCHANGED <<status, doomed, owner>>

Stop ==
  /\ running # Nobody
  /\ running' = Nobody
  /\ UNCHANGED <<status, doomed, owner>>

BlockTask(t) ==
  /\ running = t
  /\ running' = Nobody
  /\ status' = [status EXCEPT ![t] = "blocked"]
  /\ UNCHANGED <<doomed, owner>>

Register(t, n) ==
  /\ running = t
  /\ n \notin DOMAIN owner
  /\ owner' = [m \in DOMAIN owner \cup {n} |-> IF m = n THEN t ELSE owner[m]]
  /\ UNCHANGED <<status, running, doomed>>

\* The task that runs cancels an event.
Withdraw(n) ==
  /\ running # Nobody
  /\ n \in DOMAIN owner
  /\ owner' = OwnerWithout({n})
  /\ UNCHANGED <<status, running, doomed>>

\* An event is consumed while no task runs, and wakes its owner.
Consume(n) ==
  /\ running = Nobody
  /\ n \in DOMAIN owner
  /\ status[owner[n]] \in {"ready", "blocked"}
  /\ status' = [status EXCEPT ![owner[n]] = "ready"]
  /\ owner' = OwnerWithout({n})
  /\ UNCHANGED <<running, doomed>>

\* A task ends with its events: it runs and returns, or it was cancelled.
End(t) ==
  /\ status[t] \in {"ready", "blocked"}
  /\ running = t \/ (running = Nobody /\ t \in doomed)
  /\ running' = Nobody
  /\ status' = [status EXCEPT ![t] = "absent"]
  /\ owner' = OwnerWithout(OwnedBy(t))
  /\ UNCHANGED doomed

\* The cancellations have been carried out.
Settle ==
  /\ running = Nobody
  /\ \A t \in doomed : status[t] = "absent"
  /\ doomed' = {}
  /\ UNCHANGED <<status, running, owner>>

LifeNext ==
  \/ \E t \in Threads : Add(t) \/ Doom(t) \/ Start(t) \/ BlockTask(t) \/ End(t)
  \/ \E t \in Threads, n \in Nodes : Register(t, n)
  \/ \E n \in Nodes : Withdraw(n) \/ Consume(n)
  \/ AdmitAll \/ Stop \/ Settle

LifeSpec == LifeInit /\ [][LifeNext]_lifeVars

=============================================================================
