--------------------------- MODULE DriverRegistry ---------------------------
(***************************************************************************)
(* The driver registry (drivers/driver.c): drivers are registered one by   *)
(* one, then driver_init_all sorts them by priority and makes passes over  *)
(* the sorted queue, initialising every driver whose dependency is ready,  *)
(* until a pass makes no progress.                                         *)
(*                                                                         *)
(* Who depends on whom, the priorities and which drivers fail to           *)
(* initialise are constants: the theorems hold for every choice of them.   *)
(***************************************************************************)
EXTENDS Integers, Sequences, FiniteSets

CONSTANTS Drivers,       \* the names of the driver_t structures
          NoDriver,      \* the empty string in depends_on
          MAX_DRIVERS,
          priority, depends_on,
          CanFail        \* drivers whose init may return an error

ASSUME RegistryAssumption ==
  /\ NoDriver \notin Drivers
  /\ MAX_DRIVERS \in Nat
  /\ priority \in [Drivers -> Nat]
  /\ depends_on \in [Drivers -> Drivers \cup {NoDriver}]
  /\ CanFail \subseteq Drivers

VARIABLES driver_registry,    \* in the order of registration
          status,             \* driver->status
          sorted_queue,       \* of driver_init_all; <<>> before it is built
          position,           \* i, the next entry of the pass
          pass, progress_made, initialized_count,
          initializing        \* is driver_init_all running?

registryVars == <<driver_registry, status, sorted_queue, position, pass,
                  progress_made, initialized_count, initializing>>

Registered == {driver_registry[i] : i \in DOMAIN driver_registry}
driver_count == Len(driver_registry)

RegistryInit ==
  /\ driver_registry = <<>>
  /\ status = [d \in Drivers |-> "UNINITIALIZED"]
  /\ sorted_queue = <<>>
  /\ position = 1 /\ pass = 0
  /\ progress_made = TRUE /\ initialized_count = 0
  /\ initializing = FALSE

(* E_NOMEM when the table is full, E_EXISTS for a name already there.      *)
driver_register(d) ==
  /\ ~initializing
  /\ IF driver_count >= MAX_DRIVERS \/ d \in Registered
       THEN UNCHANGED <<driver_registry, status>>
       ELSE /\ driver_registry' = Append(driver_registry, d)
            /\ status' = [status EXCEPT ![d] = "UNINITIALIZED"]
  /\ UNCHANGED <<sorted_queue, position, pass, progress_made,
                 initialized_count, initializing>>

(* Variant: that the dependency is registered is taken to be enough.       *)
driver_dependencies_met_Registered(d) ==
  depends_on[d] = NoDriver \/ depends_on[d] \in Registered

driver_dependencies_met(d) ==
  \/ depends_on[d] = NoDriver
  \/ /\ depends_on[d] \in Registered
     /\ status[depends_on[d]] \in {"INITIALIZED", "ENABLED"}

(* The insertion sort puts a driver behind every entry of a priority that  *)
(* is not greater: the result is ordered by priority, and drivers of equal *)
(* priority keep the order of registration.                                *)
Rank(i) ==
  Cardinality({j \in DOMAIN driver_registry :
    LET pi == priority[driver_registry[i]]
        pj == priority[driver_registry[j]]
    IN  pj < pi \/ (pj = pi /\ j <= i)})

Sorted ==
  [k \in DOMAIN driver_registry |->
     driver_registry[CHOOSE i \in DOMAIN driver_registry : Rank(i) = k]]

driver_init_all ==
  /\ ~initializing
  /\ initializing' = TRUE
  /\ sorted_queue' = Sorted
  /\ position' = 1 /\ pass' = 1 /\ progress_made' = FALSE /\ initialized_count' = 0
  /\ UNCHANGED <<driver_registry, status>>

(* One entry of a pass: a driver that was processed, or has to wait for    *)
(* its dependency, is skipped; any other one is initialised, or fails.     *)
skip_driver ==
  /\ initializing /\ position \in DOMAIN sorted_queue
  /\ LET d == sorted_queue[position] IN
       status[d] # "UNINITIALIZED" \/ ~driver_dependencies_met(d)
  /\ position' = position + 1
  /\ UNCHANGED <<driver_registry, status, sorted_queue, pass, progress_made,
                 initialized_count, initializing>>

init_driver(d, ok) ==
  /\ initializing /\ position \in DOMAIN sorted_queue
  /\ d = sorted_queue[position]
  /\ status[d] = "UNINITIALIZED" /\ driver_dependencies_met(d)
  /\ ok \/ d \in CanFail
  /\ status' = [status EXCEPT ![d] = IF ok THEN "INITIALIZED" ELSE "FAILED"]
  /\ initialized_count' = initialized_count + 1
  /\ progress_made' = TRUE
  /\ position' = position + 1
  /\ UNCHANGED <<driver_registry, sorted_queue, pass, initializing>>

(* The conditions under which another pass is made.                        *)
Again ==
  /\ progress_made
  /\ initialized_count < driver_count
  /\ pass < driver_count * 2

(* Variant: the last entry of the queue is left out of every pass.         *)
EndOfPass_Early == initializing /\ position >= Len(sorted_queue)

EndOfPass == initializing /\ position \notin DOMAIN sorted_queue

next_pass ==
  /\ EndOfPass /\ Again
  /\ pass' = (pass + 1) % 256 /\ position' = 1 /\ progress_made' = FALSE
  /\ UNCHANGED <<driver_registry, status, sorted_queue, initialized_count,
                 initializing>>

passes_done ==
  /\ EndOfPass /\ ~Again
  /\ initializing' = FALSE
  /\ UNCHANGED <<driver_registry, status, sorted_queue, position, pass,
                 progress_made, initialized_count>>

RegistryNext ==
  \/ \E d \in Drivers : driver_register(d)
  \/ driver_init_all \/ skip_driver
  \/ \E d \in Drivers, ok \in BOOLEAN : init_driver(d, ok)
  \/ next_pass \/ passes_done

RegistrySpec == RegistryInit /\ [][RegistryNext]_registryVars

---------------------------------------------------------------------------
(* Properties. *)

(* No driver's init runs before the driver it depends on is ready: one     *)
(* that was initialised, or failed, has a dependency that is registered    *)
(* and was itself initialised, whatever the priorities are.                *)
DependencyFirst ==
  \A d \in Drivers :
    status[d] # "UNINITIALIZED" /\ depends_on[d] # NoDriver =>
      depends_on[d] \in Registered /\ status[depends_on[d]] = "INITIALIZED"

(* The passes stop only when nothing more can be done: a driver that is    *)
(* still uninitialised when driver_init_all returns waits for a dependency *)
(* that failed, is missing or waits itself.  The limit on the number of    *)
(* passes never cuts this short.                                           *)
NothingLeftOut ==
  EndOfPass /\ ~Again =>
    \A d \in Registered :
      status[d] = "UNINITIALIZED" => ~driver_dependencies_met(d)
=============================================================================
