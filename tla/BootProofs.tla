----------------------------- MODULE BootProofs -----------------------------
(***************************************************************************)
(* Proofs about the driver registry, for every set of drivers, priorities, *)
(* dependencies and outcomes of the init functions, and about start-up,    *)
(* which uses the registry as the registry means to be used.               *)
(***************************************************************************)
EXTENDS Boot, FiniteSetTheorems, TLAPS

-----------------------------------------------------------------------------
(* The driver registry. *)

(* What the step of an init needs to know about the registry.              *)
RegistryTypeOK ==
  /\ driver_registry \in Seq(Drivers)
  /\ status \in [Drivers -> {"UNINITIALIZED", "INITIALIZED", "FAILED"}]

(* Inductive by itself once the types are known: a driver that              *)
(* driver_register resets is not in the registry, so nothing that was      *)
(* initialised depends on it.                                              *)
IInv == RegistryTypeOK /\ DependencyFirst

(* The registry grows by exactly the driver that driver_register appends.  *)
LEMMA RegisteredAppend ==
  ASSUME RegistryTypeOK, NEW d \in Drivers,
         driver_registry' = Append(driver_registry, d)
  PROVE  Registered' = Registered \cup {d}
  <1>1. /\ Len(driver_registry) \in Nat
        /\ DOMAIN driver_registry = 1 .. Len(driver_registry)
        /\ DOMAIN driver_registry' = 1 .. Len(driver_registry) + 1
        /\ \A i \in 1 .. Len(driver_registry) : driver_registry'[i] = driver_registry[i]
        /\ driver_registry'[Len(driver_registry) + 1] = d
    BY DEF RegistryTypeOK
  <1> QED
    BY <1>1 DEF Registered

(* RegistryInit establishes the invariant.                                 *)
LEMMA RegistryInitIInv == RegistryInit => IInv
  BY DEF RegistryInit, IInv, RegistryTypeOK, DependencyFirst, Registered

(* Every step of the registry keeps the invariant.                         *)
LEMMA RegistryStepIInv == IInv /\ [RegistryNext]_registryVars => IInv'
  <1> SUFFICES ASSUME IInv, [RegistryNext]_registryVars PROVE IInv'
    BY Zenon
  <1> USE DEF IInv
  <1>1. ASSUME UNCHANGED <<driver_registry, status>> PROVE IInv'
    BY Zenon, <1>1 DEF RegistryTypeOK, DependencyFirst, Registered
  <1>2. ASSUME NEW d \in Drivers, driver_register(d) PROVE IInv'
    <2>1. CASE UNCHANGED <<driver_registry, status>>
      BY Zenon, <2>1, <1>1
    <2>2. CASE /\ d \notin Registered
               /\ driver_registry' = Append(driver_registry, d)
               /\ status' = [status EXCEPT ![d] = "UNINITIALIZED"]
      <3>1. Registered' = Registered \cup {d}
        BY Zenon, <2>2, RegisteredAppend
      <3>2. RegistryTypeOK'
        BY <2>2 DEF RegistryTypeOK
      <3> QED
        BY <2>2, <3>1, <3>2 DEF RegistryTypeOK, DependencyFirst
    <2> QED
      BY Zenon, <1>2, <2>1, <2>2 DEF driver_register
  <1>3. ASSUME NEW d \in Drivers, NEW ok \in BOOLEAN, init_driver(d, ok)
        PROVE  IInv'
    <2>1. /\ status[d] = "UNINITIALIZED"
          /\ status' = [status EXCEPT ![d] = IF ok THEN "INITIALIZED" ELSE "FAILED"]
          /\ driver_registry' = driver_registry
          /\ driver_dependencies_met(d)
      BY Zenon, <1>3 DEF init_driver
    <2>2. Registered' = Registered
      BY Zenon, <2>1 DEF Registered
    <2>3. RegistryTypeOK'
      BY Zenon, <2>1 DEF RegistryTypeOK
    <2>4. Registered \subseteq Drivers
      BY DEF RegistryTypeOK, Registered
    <2>5. ASSUME NEW e \in Drivers, status'[e] # "UNINITIALIZED", depends_on[e] # NoDriver
          PROVE  depends_on[e] \in Registered /\ status'[depends_on[e]] = "INITIALIZED"
      <3>1. depends_on[e] \in Registered /\ status[depends_on[e]] = "INITIALIZED"
        <4>1. CASE e = d
          BY Zenon, <4>1, <2>1, <2>4, <2>5 DEF RegistryTypeOK, driver_dependencies_met
        <4>2. CASE e # d
          BY Zenon, <4>2, <2>1, <2>5 DEF RegistryTypeOK, DependencyFirst
        <4> QED
          BY Zenon, <4>1, <4>2
      <3>2. depends_on[e] # d
        BY Zenon, <3>1, <2>1
      <3> QED
        BY Zenon, <3>1, <3>2, <2>1, <2>4 DEF RegistryTypeOK
    <2> QED
      BY Zenon, <2>2, <2>3, <2>5 DEF DependencyFirst
  <1> QED
    <2>1. CASE UNCHANGED registryVars
      BY Zenon, <2>1, <1>1 DEF registryVars
    <2>2. CASE driver_init_all \/ skip_driver \/ next_pass \/ passes_done
      BY Zenon, <2>2, <1>1 DEF driver_init_all, skip_driver, next_pass, passes_done
    <2> QED
      BY Zenon, <2>1, <2>2, <1>2, <1>3 DEF RegistryNext

(* driver_init_all runs no init before the driver's dependency is ready,   *)
(* for every priority and every dependency the drivers declare.            *)
THEOREM RegistryDependencyFirst == RegistrySpec => []DependencyFirst
  <1>1. IInv => DependencyFirst
    BY Zenon DEF IInv
  <1> QED
    BY <1>1, RegistryInitIInv, RegistryStepIInv, PTL DEF RegistrySpec

-----------------------------------------------------------------------------
(* The sort of driver_init_all. *)

(* The entries the sort puts at or before entry i.                         *)
Below(i) ==
  {j \in DOMAIN driver_registry :
    LET pi == priority[driver_registry[i]]
        pj == priority[driver_registry[j]]
    IN  pj < pi \/ (pj = pi /\ j <= i)}

(* Entries have different ranks, between 1 and the number of entries.      *)
LEMMA Ranks ==
  ASSUME RegistryTypeOK
  PROVE  /\ \A i \in DOMAIN driver_registry : Rank(i) \in DOMAIN driver_registry
         /\ \A i, j \in DOMAIN driver_registry : Rank(i) = Rank(j) => i = j
  <1> DEFINE n == Len(driver_registry)
  <1>1. n \in Nat /\ DOMAIN driver_registry = 1 .. n
    BY DEF RegistryTypeOK
  <1>2. \A i \in 1 .. n : priority[driver_registry[i]] \in Nat
    BY <1>1, RegistryAssumption DEF RegistryTypeOK
  <1> HIDE DEF n
  <1>3. \A i \in 1 .. n : Rank(i) = Cardinality(Below(i))
    BY Zenon, <1>1 DEF Rank, Below
  <1>4. \A i \in 1 .. n : Below(i) \subseteq 1 .. n /\ i \in Below(i)
    BY <1>1, <1>2 DEF Below
  <1>5. IsFiniteSet(1 .. n) /\ Cardinality(1 .. n) = n
    BY <1>1, FS_Interval
  <1>6. \A i \in 1 .. n : /\ IsFiniteSet(Below(i)) /\ Cardinality(Below(i)) \in Nat
                          /\ Cardinality(Below(i)) <= n /\ Cardinality(Below(i)) # 0
    <2> SUFFICES ASSUME NEW i \in 1 .. n
                 PROVE  /\ IsFiniteSet(Below(i)) /\ Cardinality(Below(i)) \in Nat
                        /\ Cardinality(Below(i)) <= n /\ Cardinality(Below(i)) # 0
      BY Zenon
    <2>1. Below(i) \in SUBSET (1 .. n) /\ Below(i) # {}
      BY Zenon, <1>4
    <2> QED
      BY <1>5, <2>1, FS_Subset, FS_CardinalityType, FS_EmptySet
  <1>7. ASSUME NEW i \in 1 .. n, NEW j \in 1 .. n,
               \/ priority[driver_registry[i]] < priority[driver_registry[j]]
               \/ priority[driver_registry[i]] = priority[driver_registry[j]] /\ i < j
        PROVE  Rank(i) # Rank(j)
    <2>1. Below(i) \subseteq Below(j)
      BY <1>1, <1>2, <1>7 DEF Below
    <2>2. j \in Below(j) /\ j \notin Below(i)
      BY <1>1, <1>2, <1>4, <1>7 DEF Below
    <2>3. Cardinality(Below(j)) # Cardinality(Below(i))
      BY Zenon, <1>6, <2>1, <2>2, FS_Subset
    <2> QED
      BY Zenon, <1>3, <2>3
  <1>8. ASSUME NEW i \in 1 .. n, NEW j \in 1 .. n, i # j PROVE Rank(i) # Rank(j)
    <2>1. \/ priority[driver_registry[i]] < priority[driver_registry[j]]
          \/ priority[driver_registry[j]] < priority[driver_registry[i]]
          \/ priority[driver_registry[i]] = priority[driver_registry[j]] /\ (i < j \/ j < i)
      BY <1>1, <1>2, <1>8
    <2> QED
      BY Zenon, <1>7, <2>1
  <1>9. \A i \in 1 .. n : Rank(i) \in 1 .. n
    BY <1>1, <1>3, <1>6
  <1> QED
    BY Zenon, <1>1, <1>8, <1>9

(* The sort keeps every driver: the sorted queue holds what is registered, *)
(* and has as many entries.                                                *)
LEMMA SortedHoldsAll ==
  ASSUME RegistryTypeOK
  PROVE  /\ DOMAIN Sorted = DOMAIN driver_registry
         /\ Registered = {Sorted[k] : k \in DOMAIN Sorted}
  <1> DEFINE D == DOMAIN driver_registry
             f == [i \in D |-> Rank(i)]
  <1>1. /\ Len(driver_registry) \in Nat /\ D = 1 .. Len(driver_registry)
    BY DEF RegistryTypeOK
  <1>2. f \in [D -> D] /\ \A i, j \in D : f[i] = f[j] => i = j
    BY Zenon, Ranks
  <1>3. f \in Injection(D, D)
    BY Zenon, <1>2 DEF Injection, IsInjective
  <1>4. IsFiniteSet(D)
    BY <1>1, FS_Interval
  <1>5. f \in Surjection(D, D)
    BY Zenon, <1>3, <1>4, FS_Injection
  <1>6. \A k \in D : \E i \in D : Rank(i) = k
    BY Zenon, <1>5 DEF Surjection
  <1>7. \A k \in D : (CHOOSE i \in D : Rank(i) = k) \in D
    BY Zenon, <1>6
  <1>8. \A i \in D : Rank(i) \in D /\ (CHOOSE j \in D : Rank(j) = Rank(i)) = i
    BY Zenon, Ranks
  <1>9. DOMAIN Sorted = D /\ \A k \in D : Sorted[k] = driver_registry[CHOOSE i \in D : Rank(i) = k]
    BY Zenon DEF Sorted
  <1> HIDE DEF D
  <1>10. \A k \in D : Sorted[k] \in Registered
    BY Zenon, <1>7, <1>9 DEF Registered, D
  <1>11. \A i \in D : \E k \in D : Sorted[k] = driver_registry[i]
    BY <1>8, <1>9
  <1> QED
    BY <1>9, <1>10, <1>11 DEF Registered, D

-----------------------------------------------------------------------------
(* The passes of driver_init_all. *)

Processed == {d \in Registered : status[d] # "UNINITIALIZED"}

(* While driver_init_all runs: its queue holds what is registered; it      *)
(* counts no driver twice; every pass but the current one initialised one; *)
(* and as long as the current pass has not, what it went past has to wait. *)
PassesOK ==
  /\ position \in Nat \ {0} /\ pass \in Nat /\ initialized_count \in Nat
  /\ initializing =>
       /\ DOMAIN sorted_queue = DOMAIN driver_registry
       /\ Registered = {sorted_queue[k] : k \in DOMAIN sorted_queue}
       /\ initialized_count <= Cardinality(Processed)
       /\ pass <= initialized_count + 1
       /\ progress_made => pass <= initialized_count
       /\ ~progress_made =>
            \A k \in DOMAIN sorted_queue :
              k < position => \/ status[sorted_queue[k]] # "UNINITIALIZED"
                              \/ ~driver_dependencies_met(sorted_queue[k])

RInv == IInv /\ PassesOK

(* The registered drivers are no more than the entries of the registry.    *)
LEMMA RegisteredFinite ==
  ASSUME RegistryTypeOK
  PROVE  /\ IsFiniteSet(Registered) /\ Cardinality(Registered) \in Nat
         /\ Cardinality(Registered) <= driver_count /\ driver_count \in Nat
         /\ IsFiniteSet(Processed) /\ Cardinality(Processed) \in Nat
         /\ Processed \subseteq Registered /\ Registered \subseteq Drivers
         /\ Cardinality(Processed) = Cardinality(Registered) => Processed = Registered
         /\ Cardinality(Processed) <= Cardinality(Registered)
  <1> DEFINE D == DOMAIN driver_registry
  <1>1. driver_count \in Nat /\ D = 1 .. driver_count
    BY DEF RegistryTypeOK, driver_count
  <1>2. driver_registry \in Surjection(D, Registered)
    BY <1>1 DEF Surjection, Registered, RegistryTypeOK
  <1>3. IsFiniteSet(D) /\ Cardinality(D) = driver_count
    BY <1>1, FS_Interval
  <1>4. IsFiniteSet(Registered) /\ Cardinality(Registered) <= driver_count
    BY Zenon, <1>2, <1>3, FS_Surjection
  <1>5. Processed \subseteq Registered
    BY Zenon DEF Processed
  <1>6. Registered \subseteq Drivers
    BY DEF Registered, RegistryTypeOK
  <1> QED
    BY Zenon, <1>1, <1>4, <1>5, <1>6, FS_Subset, FS_CardinalityType

(* RegistryInit establishes it: driver_init_all does not run yet.          *)
LEMMA RegistryInitRInv == RegistryInit => RInv
  <1> SUFFICES ASSUME RegistryInit PROVE PassesOK
    BY Zenon, RegistryInitIInv DEF RInv
  <1>1. ~initializing /\ position = 1 /\ pass = 0 /\ initialized_count = 0
    BY Zenon DEF RegistryInit
  <1> QED
    BY <1>1 DEF PassesOK

(* What no step of a pass changes in what PassesOK says of the queue.      *)
LEMMA RegistrySame ==
  ASSUME UNCHANGED <<driver_registry, status>>
  PROVE  /\ Registered' = Registered /\ Processed' = Processed
         /\ \A d : driver_dependencies_met(d)' = driver_dependencies_met(d)
  <1>1. Registered' = Registered
    BY Zenon DEF Registered
  <1> QED
    BY Zenon, <1>1 DEF Processed, driver_dependencies_met

(* An init makes a driver that was not processed a processed one.          *)
LEMMA ProcessedGrows ==
  ASSUME IInv, NEW d \in Registered, NEW s \in {"INITIALIZED", "FAILED"},
         status[d] = "UNINITIALIZED", status' = [status EXCEPT ![d] = s],
         UNCHANGED driver_registry
  PROVE  Cardinality(Processed') = Cardinality(Processed) + 1
  <1>1. Registered' = Registered /\ d \in Drivers /\ status \in [Drivers -> {"UNINITIALIZED", "INITIALIZED", "FAILED"}]
    BY Zenon, RegisteredFinite DEF Registered, IInv, RegistryTypeOK
  <1>2. Processed' = Processed \cup {d} /\ d \notin Processed
    BY Zenon, <1>1, RegisteredFinite DEF Processed, IInv
  <1> QED
    BY Zenon, <1>2, RegisteredFinite, FS_AddElement DEF IInv

(* Every step of the registry keeps the account of the passes.             *)
LEMMA RegistryStepRInv == RInv /\ [RegistryNext]_registryVars => RInv'
  <1> SUFFICES ASSUME RInv, [RegistryNext]_registryVars PROVE PassesOK'
    BY Zenon, RegistryStepIInv DEF RInv
  <1>1. IInv /\ RegistryTypeOK /\ PassesOK
    BY Zenon DEF RInv, IInv
  <1>2. CASE UNCHANGED registryVars
    BY Zenon, <1>1, <1>2, RegistrySame DEF registryVars, PassesOK
  <1>3. ASSUME NEW d \in Drivers, driver_register(d) PROVE PassesOK'
    BY Zenon, <1>1, <1>3 DEF driver_register, PassesOK
  <1>4. CASE driver_init_all
    <2>1. /\ initializing' = TRUE /\ sorted_queue' = Sorted /\ position' = 1 /\ pass' = 1
          /\ progress_made' = FALSE /\ initialized_count' = 0 /\ UNCHANGED <<driver_registry, status>>
      BY Zenon, <1>4 DEF driver_init_all
    <2>2. /\ DOMAIN sorted_queue' = DOMAIN driver_registry'
          /\ Registered' = {sorted_queue'[k] : k \in DOMAIN sorted_queue'}
      BY Zenon, <1>1, <2>1, SortedHoldsAll, RegistrySame
    <2>3. 0 <= Cardinality(Processed')
      BY <1>1, <2>1, RegistrySame, RegisteredFinite
    <2>4. \A k \in DOMAIN sorted_queue' : ~ (k < 1)
      BY <1>1, <2>1, <2>2 DEF RegistryTypeOK
    <2> QED
      BY <2>1, <2>2, <2>3, <2>4 DEF PassesOK
  <1>5. CASE skip_driver
    <2>1. /\ initializing /\ position \in DOMAIN sorted_queue /\ position' = position + 1
          /\ UNCHANGED <<driver_registry, status, sorted_queue, pass, progress_made,
                         initialized_count, initializing>>
          /\ status[sorted_queue[position]] # "UNINITIALIZED"
               \/ ~driver_dependencies_met(sorted_queue[position])
      BY Zenon, <1>5 DEF skip_driver
    <2>2. DOMAIN sorted_queue \subseteq Nat
      BY <1>1, <2>1 DEF PassesOK, RegistryTypeOK
    <2>3. \A k \in DOMAIN sorted_queue : k < position + 1 => k < position \/ k = position
      BY <1>1, <2>2 DEF PassesOK
    <2> QED
      BY <1>1, <2>1, <2>3, RegistrySame DEF PassesOK
  <1>6. ASSUME NEW d \in Drivers, NEW ok \in BOOLEAN, init_driver(d, ok) PROVE PassesOK'
    <2>1. /\ initializing /\ position \in DOMAIN sorted_queue /\ position' = position + 1
          /\ d = sorted_queue[position] /\ status[d] = "UNINITIALIZED"
          /\ initialized_count' = initialized_count + 1 /\ progress_made' = TRUE
          /\ UNCHANGED <<driver_registry, sorted_queue, pass, initializing>>
      BY Zenon, <1>6 DEF init_driver
    <2>2. PICK s \in {"INITIALIZED", "FAILED"} : status' = [status EXCEPT ![d] = s]
      BY Zenon, <1>6 DEF init_driver
    <2>3. d \in Registered /\ Registered' = Registered
      BY Zenon, <1>1, <2>1 DEF PassesOK, Registered
    <2>4. Cardinality(Processed') = Cardinality(Processed) + 1 /\ Cardinality(Processed) \in Nat
      BY Zenon, <1>1, <2>1, <2>2, <2>3, ProcessedGrows, RegisteredFinite
    <2> QED
      BY <1>1, <2>1, <2>3, <2>4 DEF PassesOK
  <1>7. CASE next_pass
    <2>1. /\ initializing /\ progress_made /\ pass' = (pass + 1) % 256 /\ position' = 1
          /\ progress_made' = FALSE
          /\ UNCHANGED <<driver_registry, status, sorted_queue, initialized_count, initializing>>
      BY Zenon, <1>7 DEF next_pass, EndOfPass, Again
    <2>2. pass' \in Nat /\ pass' <= pass + 1
      BY <1>1, <2>1 DEF PassesOK
    <2>3. \A k \in DOMAIN sorted_queue : ~ (k < 1)
      BY <1>1, <2>1 DEF PassesOK, RegistryTypeOK
    <2> QED
      BY <1>1, <2>1, <2>2, <2>3, RegistrySame DEF PassesOK
  <1>8. CASE passes_done
    BY Zenon, <1>1, <1>8 DEF passes_done, PassesOK
  <1> QED
    BY Zenon, <1>2, <1>3, <1>4, <1>5, <1>6, <1>7, <1>8 DEF RegistryNext

(* NothingLeftOut, for every number of drivers, priorities, dependencies   *)
(* and failures: the limit of two passes per driver, counted in a byte,    *)
(* never ends driver_init_all before a pass that initialised nothing.      *)
THEOREM RegistryNothingLeftOut == RegistrySpec => []NothingLeftOut
  <1>1. RInv => NothingLeftOut
    <2> SUFFICES ASSUME RInv, EndOfPass, ~Again, NEW d \in Registered,
                        status[d] = "UNINITIALIZED"
                 PROVE  ~driver_dependencies_met(d)
      BY Zenon DEF NothingLeftOut
    <2>1. initializing /\ position \notin DOMAIN sorted_queue /\ PassesOK /\ RegistryTypeOK
      BY Zenon DEF EndOfPass, RInv, IInv
    <2>2. PICK k \in DOMAIN sorted_queue : d = sorted_queue[k]
      BY Zenon, <2>1 DEF PassesOK
    <2>3. Cardinality(Processed) < Cardinality(Registered)
      <3>1. d \notin Processed
        BY Zenon DEF Processed
      <3> QED
        BY <2>1, <3>1, RegisteredFinite
    <2>4. initialized_count < driver_count
      BY <2>1, <2>3, RegisteredFinite DEF PassesOK
    <2>5. ~progress_made
      <3>1. ASSUME progress_made PROVE pass < driver_count * 2
        BY <2>1, <2>4, <3>1, RegisteredFinite DEF PassesOK
      <3> QED
        BY Zenon, <2>4, <3>1 DEF Again
    <2>6. k < position
      <3>1. DOMAIN sorted_queue = 1 .. Len(driver_registry) /\ Len(driver_registry) \in Nat
        BY <2>1 DEF PassesOK, RegistryTypeOK
      <3> QED
        BY <2>1, <3>1 DEF PassesOK
    <2> QED
      BY Zenon, <2>1, <2>2, <2>5, <2>6 DEF PassesOK
  <1> QED
    BY <1>1, RegistryInitRInv, RegistryStepRInv, PTL DEF RegistrySpec

-----------------------------------------------------------------------------
(* Start-up. *)

(* A step of start-up is a step of the registry or leaves it alone.        *)
LEMMA BootStepRegistry == [Next]_vars => [RegistryNext]_registryVars
  <1> SUFFICES ASSUME [Next]_vars PROVE [RegistryNext]_registryVars
    BY Zenon
  <1>1. CASE register_drivers
    <2>1. registered + 1 \in 1 .. 6 /\ driver_register(RegistrationOrder[registered + 1])
      BY <1>1 DEF register_drivers, RegistrationOrder
    <2>2. RegistrationOrder[registered + 1] \in Drivers
      BY <2>1, BootAssumption DEF RegistrationOrder
    <2> QED
      BY Zenon, <2>1, <2>2 DEF RegistryNext
  <1>2. CASE start_init_all
    BY Zenon, <1>2 DEF start_init_all, RegistryNext
  <1>3. CASE run_driver_init
    BY Zenon, <1>3 DEF run_driver_init, RegistryNext
  <1>4. CASE end_init_all
    BY Zenon, <1>4 DEF end_init_all, RegistryNext
  <1>5. CASE task_init \/ scheduler_init \/ create_shell \/ add_shell \/ idt_enable_interrupts
    BY Zenon, <1>5 DEF task_init, scheduler_init, create_shell, add_shell, idt_enable_interrupts
  <1>6. CASE pit_handler \/ shell_blocks \/ keyboard_handler
    BY Zenon, <1>6 DEF pit_handler, shell_blocks, keyboard_handler
  <1>7. CASE UNCHANGED vars
    BY Zenon, <1>7 DEF vars
  <1> QED
    BY Zenon, <1>1, <1>2, <1>3, <1>4, <1>5, <1>6, <1>7 DEF Next, kernel_main

(* Start-up implements the registry's specification: kernel_main calls its *)
(* functions, and no interrupt touches what they keep.                     *)
THEOREM BootImplementsRegistry == Spec => RegistrySpec
  <1>1. Init => RegistryInit
    BY Zenon DEF Init
  <1> QED
    BY <1>1, BootStepRegistry, PTL DEF Spec, RegistrySpec

(* During start-up no driver's init runs before its dependency is ready,   *)
(* whenever the timer and the keyboard interrupt.                          *)
THEOREM BootDependencyFirst == Spec => []DependencyFirst
  BY BootImplementsRegistry, RegistryDependencyFirst, PTL

(* The same for the passes: none ends too early, whenever the timer and    *)
(* the keyboard interrupt.                                                 *)
THEOREM BootNothingLeftOut == Spec => []NothingLeftOut
  BY BootImplementsRegistry, RegistryNothingLeftOut, PTL

-----------------------------------------------------------------------------
(* The tasks during start-up. *)

BootTypeOK ==
  /\ state \in [Tasks -> {"none", "READY", "RUNNING", "BLOCKED"}]
  /\ rq \in [head : Tasks \cup {Null}, tail : Tasks \cup {Null}, next : [Tasks -> {Null}]]

(* No task yet: before task_init, or because there is no memory.           *)
NoTask ==
  /\ pc \in {"register", "init_all", "task_init", "scheduler_init", "create_shell",
             "enable", "idle_loop"}
  /\ current_task = Null /\ rq.head = Null
  /\ state[Idle] = "none" /\ state[Shell] = "none"

(* Idle exists; the timer has nobody to switch to.                         *)
OnlyIdle ==
  /\ rq.head = Null /\ state[Shell] = "none"
  /\ \/ pc = "set_current" /\ current_task = Null /\ state[Idle] = "READY"
     \/ /\ pc \in {"create_shell", "enable", "idle_loop"}
        /\ current_task = Idle /\ state[Idle] = "RUNNING"

(* The shell exists, and is not linked in yet.                             *)
ShellCreated ==
  /\ pc = "add_head" /\ rq.head = Null /\ current_task = Idle
  /\ state[Idle] = "RUNNING" /\ state[Shell] = "READY"

(* From then on one of the two runs.  If the other one is ready, it alone  *)
(* is in the queue.                                                        *)
BothRun ==
  /\ pc \in {"add_tail", "enable", "idle_loop"}
  /\ \/ /\ current_task = Idle /\ state[Idle] = "RUNNING" /\ state[Shell] = "READY"
        /\ rq.head = Shell /\ (rq.tail = Shell \/ pc = "add_tail")
     \/ /\ current_task = Idle /\ state[Idle] = "RUNNING" /\ state[Shell] = "BLOCKED"
        /\ rq.head = Null
     \/ /\ current_task = Shell /\ state[Shell] = "RUNNING" /\ state[Idle] = "READY"
        /\ rq.head = Idle /\ rq.tail = Idle

BInv == BootTypeOK /\ (NoTask \/ OnlyIdle \/ ShellCreated \/ BothRun)

(* The queue of two tasks, of which one runs, is empty when a task joins   *)
(* it and when one has left it.                                            *)
LEMMA OneInQueue ==
  ASSUME NEW q \in [head : Tasks \cup {Null}, tail : Tasks \cup {Null}, next : [Tasks -> {Null}]],
         NEW t \in Tasks
  PROVE  /\ q.head # Null =>
              scheduler_pick_next(q) = [head |-> Null, tail |-> Null, next |-> q.next]
         /\ q.head = Null =>
              scheduler_add_task(q, t) = [head |-> t, tail |-> t, next |-> q.next]
  <1>1. q.next \in [Tasks -> {Null}] /\ q.next[t] = Null /\ [q.next EXCEPT ![t] = Null] = q.next
    BY Zenon
  <1>2. q.head # Null => q.head \in Tasks /\ q.next[q.head] = Null /\ [q.next EXCEPT ![q.head] = Null] = q.next
    BY Zenon, <1>1
  <1> QED
    BY Zenon, <1>1, <1>2 DEF scheduler_pick_next, scheduler_add_task

(* A tick that ends a slice swaps the two tasks, and does nothing while    *)
(* there is only one.                                                      *)
LEMMA TickBInv == BInv /\ pit_handler => BInv'
  <1> SUFFICES ASSUME BInv, pit_handler PROVE BInv'
    BY Zenon
  <1>1. UNCHANGED pc /\ current_task # Null
    BY Zenon DEF pit_handler
  <1>2. CASE UNCHANGED <<rq, state, current_task>>
    BY Zenon, <1>1, <1>2 DEF BInv, BootTypeOK, NoTask, OnlyIdle, ShellCreated, BothRun
  <1>3. CASE ~UNCHANGED <<rq, state, current_task>>
    <2> DEFINE old == current_task
               new == rq.head
               rest == scheduler_pick_next(rq)
               ready == state[old] = "RUNNING"
    <2>1. /\ new # Null
          /\ rq' = IF ready THEN scheduler_add_task(rest, old) ELSE rest
          /\ state' = [state EXCEPT ![old] = IF ready THEN "READY" ELSE @, ![new] = "RUNNING"]
          /\ current_task' = new
      BY Zenon, <1>3 DEF pit_handler, SwitchFrom
    <2>2. /\ BothRun /\ ready /\ old \in Tasks /\ new \in Tasks /\ old # new
          /\ state[old] = "RUNNING" /\ state[new] = "READY"
      BY Zenon, <1>1, <2>1, BootAssumption
      DEF BInv, BootTypeOK, NoTask, OnlyIdle, ShellCreated, BothRun, Tasks
    <2>3. rest = [head |-> Null, tail |-> Null, next |-> rq.next] /\ rq.next \in [Tasks -> {Null}]
      BY Zenon, <2>1, <2>2, OneInQueue DEF BInv, BootTypeOK
    <2>4. rest \in [head : Tasks \cup {Null}, tail : Tasks \cup {Null}, next : [Tasks -> {Null}]]
      BY <2>3
    <2> HIDE DEF rest
    <2>5. rq' = [head |-> old, tail |-> old, next |-> rq.next]
      BY Zenon, <2>1, <2>2, <2>3, <2>4, OneInQueue
    <2>6. /\ state' \in [Tasks -> {"none", "READY", "RUNNING", "BLOCKED"}]
          /\ state'[old] = "READY" /\ state'[new] = "RUNNING"
      BY Zenon, <2>1, <2>2 DEF BInv, BootTypeOK
    <2>7. BootTypeOK'
      BY Zenon, <2>2, <2>3, <2>5, <2>6 DEF BootTypeOK
    <2>8. BothRun'
      BY <1>1, <2>1, <2>2, <2>5, <2>6, BootAssumption DEF BothRun, Tasks
    <2> QED
      BY Zenon, <2>7, <2>8 DEF BInv
  <1> QED
    BY Zenon, <1>2, <1>3

(* The shell blocks and is woken again.                                    *)
LEMMA ShellBInv == BInv /\ (shell_blocks \/ keyboard_handler) => BInv'
  <1> SUFFICES ASSUME BInv, shell_blocks \/ keyboard_handler PROVE BInv'
    BY Zenon
  <1> USE BootAssumption DEF Tasks
  <1>1. CASE shell_blocks
    <2>1. /\ current_task = Shell /\ rq.head # Null /\ rq' = scheduler_pick_next(rq) /\ UNCHANGED pc
          /\ state' = [state EXCEPT ![Shell] = "BLOCKED", ![rq.head] = "RUNNING"]
          /\ current_task' = rq.head
      BY Zenon, <1>1 DEF shell_blocks
    <2>2. BothRun /\ rq.head = Idle /\ BootTypeOK
      BY Zenon, <2>1 DEF BInv, NoTask, OnlyIdle, ShellCreated, BothRun
    <2>3. rq' = [head |-> Null, tail |-> Null, next |-> rq.next] /\ rq.next \in [Tasks -> {Null}]
      BY Zenon, <2>1, <2>2, OneInQueue DEF BootTypeOK
    <2>4. /\ state' \in [Tasks -> {"none", "READY", "RUNNING", "BLOCKED"}]
          /\ state'[Shell] = "BLOCKED" /\ state'[Idle] = "RUNNING"
      BY Zenon, <2>1, <2>2 DEF BootTypeOK
    <2> QED
      BY <2>1, <2>2, <2>3, <2>4 DEF BInv, BootTypeOK, BothRun
  <1>2. CASE keyboard_handler
    <2>1. /\ state[Shell] = "BLOCKED" /\ rq' = scheduler_add_task(rq, Shell)
          /\ state' = [state EXCEPT ![Shell] = "READY"] /\ UNCHANGED <<pc, current_task>>
      BY Zenon, <1>2 DEF keyboard_handler
    <2>2. BothRun /\ current_task = Idle /\ rq.head = Null /\ state[Idle] = "RUNNING" /\ BootTypeOK
      BY Zenon, <2>1 DEF BInv, NoTask, OnlyIdle, ShellCreated, BothRun
    <2>3. rq' = [head |-> Shell, tail |-> Shell, next |-> rq.next] /\ rq.next \in [Tasks -> {Null}]
      BY Zenon, <2>1, <2>2, OneInQueue DEF BootTypeOK
    <2>4. /\ state' \in [Tasks -> {"none", "READY", "RUNNING", "BLOCKED"}]
          /\ state'[Shell] = "READY" /\ state'[Idle] = "RUNNING"
      BY Zenon, <2>1, <2>2 DEF BootTypeOK
    <2> QED
      BY <2>1, <2>2, <2>3, <2>4 DEF BInv, BootTypeOK, BothRun
  <1> QED
    BY Zenon, <1>1, <1>2

(* kernel_main creates the two tasks and links the shell in.               *)
LEMMA KernelMainBInv == BInv /\ kernel_main => BInv'
  <1> SUFFICES ASSUME BInv, kernel_main PROVE BInv'
    OBVIOUS
  <1> USE BootAssumption DEF Tasks
  <1>1. CASE register_drivers \/ start_init_all \/ run_driver_init \/ end_init_all
             \/ idt_enable_interrupts
    <2>1. /\ UNCHANGED <<rq, state, current_task>>
          /\ \/ pc \in {"register", "init_all"} /\ pc' \in {"register", "init_all", "task_init"}
             \/ pc = "enable" /\ pc' = "idle_loop"
      BY Zenon, <1>1 DEF register_drivers, start_init_all, run_driver_init, end_init_all,
                  idt_enable_interrupts, InKernelMain
    <2> QED
      BY Zenon, <2>1 DEF BInv, BootTypeOK, NoTask, OnlyIdle, ShellCreated, BothRun
  <1>2. CASE task_init
    <2>1. /\ pc = "task_init" /\ pc' = "scheduler_init" /\ UNCHANGED state
          /\ \/ current_task' = Null /\ rq' = [rq EXCEPT !.head = Null, !.tail = Null]
             \/ UNCHANGED <<current_task, rq>>
      BY Zenon, <1>2 DEF task_init, InKernelMain
    <2>2. NoTask /\ BootTypeOK
      BY Zenon, <2>1 DEF BInv, NoTask, OnlyIdle, ShellCreated, BothRun
    <2>3. BootTypeOK' /\ rq'.head = Null
      BY Zenon, <2>1, <2>2 DEF BootTypeOK, NoTask
    <2> QED
      BY Zenon, <2>1, <2>2, <2>3 DEF BInv, NoTask
  <1>3. CASE scheduler_init \/ create_shell
    <2>1. CASE /\ UNCHANGED <<rq, state, current_task>>
               /\ \/ pc = "scheduler_init" /\ pc' = "create_shell"
                  \/ pc = "create_shell" /\ pc' = "enable"
      BY Zenon, <2>1 DEF BInv, BootTypeOK, NoTask, OnlyIdle, ShellCreated, BothRun
    <2>2. CASE /\ pc = "scheduler_init" /\ pc' = "set_current" /\ task_create(Idle)
               /\ UNCHANGED current_task
      <3>1. NoTask /\ BootTypeOK
        BY Zenon, <2>2 DEF BInv, NoTask, OnlyIdle, ShellCreated, BothRun
      <3>2. BootTypeOK' /\ rq'.head = Null /\ state'[Idle] = "READY" /\ state'[Shell] = "none"
        BY Zenon, <2>2, <3>1 DEF BootTypeOK, NoTask, task_create
      <3> QED
        BY Zenon, <2>2, <3>1, <3>2 DEF BInv, NoTask, OnlyIdle
    <2>3. CASE /\ pc = "set_current" /\ pc' = "create_shell" /\ UNCHANGED rq
               /\ state' = [state EXCEPT ![Idle] = "RUNNING"] /\ current_task' = Idle
      <3>1. OnlyIdle /\ BootTypeOK
        BY Zenon, <2>3 DEF BInv, NoTask, OnlyIdle, ShellCreated, BothRun
      <3>2. BootTypeOK' /\ state'[Idle] = "RUNNING" /\ state'[Shell] = "none"
        BY Zenon, <2>3, <3>1 DEF BootTypeOK, OnlyIdle
      <3> QED
        BY Zenon, <2>3, <3>1, <3>2 DEF BInv, OnlyIdle
    <2>4. CASE /\ pc = "create_shell" /\ pc' = "add_head" /\ state[Idle] # "none"
               /\ task_create(Shell) /\ UNCHANGED current_task
      <3>1. OnlyIdle /\ BootTypeOK
        BY Zenon, <2>4 DEF BInv, NoTask, OnlyIdle, ShellCreated, BothRun
      <3>2. BootTypeOK' /\ rq'.head = Null /\ state'[Idle] = state[Idle] /\ state'[Shell] = "READY"
        BY Zenon, <2>4, <3>1 DEF BootTypeOK, OnlyIdle, task_create
      <3> QED
        BY Zenon, <2>4, <3>1, <3>2 DEF BInv, OnlyIdle, ShellCreated
    <2> QED
      BY Zenon, <1>3, <2>1, <2>2, <2>3, <2>4 DEF scheduler_init, create_shell, InKernelMain
  <1>4. CASE add_shell
    <2>1. CASE /\ pc = "add_head" /\ pc' = "add_tail" /\ UNCHANGED <<state, current_task>>
               /\ rq' = IF rq.head = Null
                          THEN [rq EXCEPT !.head = Shell, !.next[Shell] = Null]
                          ELSE [rq EXCEPT !.next = [@ EXCEPT ![Shell] = Null, ![rq.tail] = Shell]]
      <3>1. ShellCreated /\ BootTypeOK
        BY Zenon, <2>1 DEF BInv, NoTask, OnlyIdle, ShellCreated, BothRun
      <3>2. BootTypeOK' /\ rq'.head = Shell
        BY Zenon, <2>1, <3>1 DEF BootTypeOK, ShellCreated
      <3> QED
        BY Zenon, <2>1, <3>1, <3>2 DEF BInv, ShellCreated, BothRun
    <2>2. CASE /\ pc = "add_tail" /\ pc' = "enable" /\ UNCHANGED <<state, current_task>>
               /\ rq' = [rq EXCEPT !.tail = Shell] /\ current_task # Shell
      <3>1. BothRun /\ BootTypeOK
        BY Zenon, <2>2 DEF BInv, NoTask, OnlyIdle, ShellCreated, BothRun
      <3>2. BootTypeOK' /\ rq'.head = rq.head /\ rq'.tail = Shell
        BY Zenon, <2>2, <3>1 DEF BootTypeOK
      <3> QED
        BY Zenon, <2>2, <3>1, <3>2 DEF BInv, BothRun
    <2> QED
      BY Zenon, <1>4, <2>1, <2>2 DEF add_shell, InKernelMain
  <1> QED
    BY Zenon, <1>1, <1>2, <1>3, <1>4 DEF kernel_main

(* ReadyIsQueued, for every driver set and length of a time slice: with    *)
(* interrupts on while kernel_main builds the ready queue, a task that is  *)
(* ready is in it once, and its tail is right when it is used.             *)
THEOREM BootReadyIsQueued == Spec => []ReadyIsQueued
  <1>1. Init => BInv
    BY BootAssumption DEF Init, BInv, BootTypeOK, NoTask, Tasks
  <1>2. BInv /\ [Next]_vars => BInv'
    <2>1. ASSUME BInv, UNCHANGED vars PROVE BInv'
      BY Zenon, <2>1 DEF vars, bootVars, BInv, BootTypeOK, NoTask, OnlyIdle, ShellCreated, BothRun
    <2> QED
      BY Zenon, <2>1, TickBInv, ShellBInv, KernelMainBInv DEF Next
  <1>3. BInv => ReadyIsQueued
    <2> SUFFICES ASSUME BInv, pc \in {"add_tail", "enable", "idle_loop"}
                 PROVE  /\ After(Second) = Null
                        /\ \A t \in Tasks : state[t] = "READY" <=> t \in {First, Second}
                        /\ First # Null => \/ rq.tail = IF Second = Null THEN First ELSE Second
                                           \/ pc = "add_tail" /\ current_task = Idle
      BY Zenon DEF ReadyIsQueued
    <2>1. Second = Null /\ After(Second) = Null
      BY Zenon DEF BInv, BootTypeOK, First, Second, After
    <2>2. NoTask \/ OnlyIdle \/ BothRun
      BY Zenon DEF BInv, ShellCreated
    <2> QED
      BY Zenon, <2>1, <2>2, BootAssumption DEF First, Tasks, NoTask, OnlyIdle, BothRun
  <1> QED
    BY <1>1, <1>2, <1>3, PTL DEF Spec
=============================================================================
