------------------------------ MODULE Intruder ------------------------------
(***************************************************************************)
(* Intruder (core/src/intruder.rs): start_attack hands an attack to a task *)
(* of its own, the driver, which spawns one worker per request under a     *)
(* semaphore; stop_attack and clear_results may be called at any time.     *)
(*                                                                         *)
(* All of them share one flag, is_running, and one list of results.  The   *)
(* flag does not say which attack it belongs to: an attack is stopped only *)
(* if its driver reads the flag while it is down.                          *)
(*                                                                         *)
(* A call of start_attack that finds the flag up returns "Attack already   *)
(* running" and changes nothing, so it is no step.                         *)
(***************************************************************************)
EXTENDS Integers, Sequences, FiniteSets, Functions

CONSTANTS
    MaxAttacks,     \* bound: attacks started in a behaviour
    Sizes,          \* requests an attack may generate (0: no payload, or no position)
    Concurrencies,  \* options.concurrency of a caller
    MaxPermits,     \* Semaphore::MAX_PERMITS
    MayOverflow,    \* TRUE: a debug build is asked for more combinations than a usize counts
    MayStop,        \* TRUE: stop_attack is called
    MayClear        \* TRUE: clear_results is called

ASSUME AttackAssumption == MaxAttacks \in Nat
ASSUME SizeAssumption == Sizes \subseteq Nat /\ Sizes # {}
ASSUME ConcurrencyAssumption == Concurrencies \subseteq Nat /\ Concurrencies # {}
ASSUME PermitAssumption == MaxPermits \in Nat \ {0}
ASSUME CallerAssumption == MayStop \in BOOLEAN /\ MayClear \in BOOLEAN /\ MayOverflow \in BOOLEAN

VARIABLES
    running,    \* is_running
    results,    \* the results, in the order they were pushed
    started,    \* attacks started: the last one is the latest
    driver,     \* per attack: where its handler or driver is
    workers,    \* spawned workers that have not ended
    stopped,    \* history: stop_attack was called
    late        \* history, per attack: workers spawned while the flag was down

vars == <<running, results, started, driver, workers, stopped, late>>

Attacks == 1..MaxAttacks
Stages == {"unborn", "clear", "generate", "check", "acquire", "spawn", "join", "ended", "panicked"}
Unborn == [at |-> "unborn", size |-> 0, permits |-> 0, next |-> 0]

Under(a) == driver[a].at \notin {"unborn", "ended", "panicked"}
WorkersOf(a) == {w \in workers : w.attack = a}
\* The permit of the semaphore goes from the driver to the worker it spawns.
PermitsTaken(a) == Cardinality(WorkersOf(a)) + IF driver[a].at = "spawn" THEN 1 ELSE 0

TypeOK ==
    /\ running \in BOOLEAN
    /\ stopped \in BOOLEAN
    /\ results \in Seq([attack : Attacks, id : Nat])
    /\ started \in 0..MaxAttacks
    /\ driver \in [Attacks -> [at : Stages, size : Nat, permits : Nat, next : Nat]]
    /\ workers \subseteq [attack : Attacks, id : Nat]
    /\ late \in [Attacks -> Nat]

----------------------------------------------------------------------------
\* start_attack, in the task of the caller

\* is_running.swap(true)
Start ==
    /\ started < MaxAttacks
    /\ ~running
    /\ running' = TRUE
    /\ started' = started + 1
    /\ driver' = [driver EXCEPT ![started + 1].at = "clear"]
    /\ late' = [a \in Attacks |-> 0]
    /\ UNCHANGED <<results, workers, stopped>>

\* Mutant: the results of the attack before are kept.
ForgetNothing(a) ==
    /\ driver[a].at = "clear"
    /\ driver' = [driver EXCEPT ![a].at = "generate"]
    /\ UNCHANGED <<running, results, started, workers, stopped, late>>

\* self.clear_results()
Forget(a) ==
    /\ driver[a].at = "clear"
    /\ results' = <<>>
    /\ driver' = [driver EXCEPT ![a].at = "generate"]
    /\ UNCHANGED <<running, started, workers, stopped, late>>

\* generate_requests, then tokio::spawn of the driver, which makes its semaphore.
Generate(a) ==
    /\ driver[a].at = "generate"
    /\ \E n \in Sizes, c \in Concurrencies :
           /\ c <= MaxPermits
           /\ driver' = [driver EXCEPT ![a] =
                            [at |-> "check", size |-> n, next |-> 1,
                             permits |-> IF c = 0 THEN 1 ELSE c]]
    /\ UNCHANGED <<running, results, started, workers, stopped, late>>

\* The handler panics where the combinations overflow, or the driver where it asks the
\* semaphore for more permits than it can have.  The flag was up and stays up, in a debug
\* build; a release build aborts (Cargo.toml:43), and that is the end of the behaviour.
Panic(a) ==
    /\ driver[a].at = "generate"
    /\ MayOverflow \/ \E c \in Concurrencies : c > MaxPermits
    /\ driver' = [driver EXCEPT ![a] = [Unborn EXCEPT !.at = "panicked"]]
    /\ UNCHANGED <<running, results, started, workers, stopped, late>>

----------------------------------------------------------------------------
\* The driver of attack a

\* Mutant: the flag is not read.
CheckDeaf(a) ==
    /\ driver[a].at = "check"
    /\ driver' = [driver EXCEPT ![a].at =
                     IF driver[a].next <= driver[a].size THEN "acquire" ELSE "join"]
    /\ UNCHANGED <<running, results, started, workers, stopped, late>>

\* The head of the loop: no request left, or the flag is down.
Check(a) ==
    /\ driver[a].at = "check"
    /\ driver' = [driver EXCEPT ![a].at =
                     IF driver[a].next <= driver[a].size /\ running THEN "acquire" ELSE "join"]
    /\ UNCHANGED <<running, results, started, workers, stopped, late>>

\* Mutant: workers are spawned without a permit.
AcquireFree(a) ==
    /\ driver[a].at = "acquire"
    /\ driver' = [driver EXCEPT ![a].at = "spawn"]
    /\ UNCHANGED <<running, results, started, workers, stopped, late>>

\* semaphore.acquire_owned().await, then the delay.
Acquire(a) ==
    /\ driver[a].at = "acquire"
    /\ PermitsTaken(a) < driver[a].permits
    /\ driver' = [driver EXCEPT ![a].at = "spawn"]
    /\ UNCHANGED <<running, results, started, workers, stopped, late>>

\* Mutant: the loop forgets to move on.
SpawnAgain(a) ==
    /\ driver[a].at = "spawn"
    /\ workers' = workers \cup {[attack |-> a, id |-> driver[a].next]}
    /\ driver' = [driver EXCEPT ![a].at = "check"]
    /\ late' = [late EXCEPT ![a] = @ + IF running THEN 0 ELSE 1]
    /\ UNCHANGED <<running, results, started, stopped>>

\* The flag is not read again between the permit and the worker.
Spawn(a) ==
    /\ driver[a].at = "spawn"
    /\ workers' = workers \cup {[attack |-> a, id |-> driver[a].next]}
    /\ driver' = [driver EXCEPT ![a].at = "check", ![a].next = @ + 1]
    /\ late' = [late EXCEPT ![a] = @ + IF running THEN 0 ELSE 1]
    /\ UNCHANGED <<running, results, started, stopped>>

\* Mutant: the flag goes down when the last worker is spawned.
FinishEarly(a) ==
    /\ driver[a].at = "join"
    /\ running' = FALSE
    /\ driver' = [driver EXCEPT ![a] = [Unborn EXCEPT !.at = "ended"]]
    /\ UNCHANGED <<results, started, workers, stopped, late>>

\* Mutant: the flag is left up.
FinishSilent(a) ==
    /\ driver[a].at = "join"
    /\ WorkersOf(a) = {}
    /\ driver' = [driver EXCEPT ![a] = [Unborn EXCEPT !.at = "ended"]]
    /\ UNCHANGED <<running, results, started, workers, stopped, late>>

\* All handles awaited, is_running.store(false): whichever attack it was for.
Finish(a) ==
    /\ driver[a].at = "join"
    /\ WorkersOf(a) = {}
    /\ running' = FALSE
    /\ driver' = [driver EXCEPT ![a] = [Unborn EXCEPT !.at = "ended"]]
    /\ UNCHANGED <<results, started, workers, stopped, late>>

----------------------------------------------------------------------------
\* A worker: an answer is a result, an error of any kind is none

Answered(w) ==
    /\ w \in workers
    /\ workers' = workers \ {w}
    /\ results' = Append(results, w)
    /\ UNCHANGED <<running, started, driver, stopped, late>>

Failed(w) ==
    /\ w \in workers
    /\ workers' = workers \ {w}
    /\ UNCHANGED <<running, results, started, driver, stopped, late>>

----------------------------------------------------------------------------
\* The other API calls

Stop ==
    /\ MayStop
    /\ running
    /\ running' = FALSE
    /\ stopped' = TRUE
    /\ UNCHANGED <<results, started, driver, workers, late>>

ClearResults ==
    /\ MayClear
    /\ results # <<>>
    /\ results' = <<>>
    /\ UNCHANGED <<running, started, driver, workers, stopped, late>>

----------------------------------------------------------------------------
Init ==
    /\ running = FALSE
    /\ results = <<>>
    /\ started = 0
    /\ driver = [a \in Attacks |-> Unborn]
    /\ workers = {}
    /\ stopped = FALSE
    /\ late = [a \in Attacks |-> 0]

Drive(a) ==
    \/ Forget(a) \/ Generate(a) \/ Panic(a)
    \/ Check(a) \/ Acquire(a) \/ Spawn(a) \/ Finish(a)

Work(a) == \E w \in WorkersOf(a) : Answered(w) \/ Failed(w)

Next ==
    \/ Start
    \/ \E a \in Attacks : Drive(a) \/ Work(a)
    \/ Stop
    \/ ClearResults

Spec == Init /\ [][Next]_vars

\* The runtime polls every task that can go on, and every connection ends in
\* an answer or an error; nobody has to start, stop or clear anything.
Fairness == \A a \in Attacks : WF_vars(Drive(a)) /\ WF_vars(Work(a))

FairSpec == Spec /\ Fairness

----------------------------------------------------------------------------
\* Properties

\* No request is answered twice, stopped attack or not: the results a user
\* reads name each request of an attack once (intruder.rs:114).
ResultsDistinct ==
    /\ \A i, j \in DOMAIN results : results[i] = results[j] => i = j
    /\ \A i \in DOMAIN results : results[i] \notin workers

\* Never more requests of one attack in flight than the caller's concurrency,
\* one if that is zero (intruder.rs:86).
ConcurrencyBound == \A a \in Attacks : Under(a) => PermitsTaken(a) <= driver[a].permits

\* After stop_attack a driver spawns at most one more worker, the one it had
\* already passed the check for, until another attack begins (intruder.rs:94).
OneMoreAfterStop == \A a \in Attacks : late[a] <= 1

\* One attack at a time: "Attack already running" (intruder.rs:79) is the
\* answer to a start while another attack is under way.
OneAttackAtATime == \A a, b \in Attacks : Under(a) /\ Under(b) => a = b

\* Until somebody stops an attack, the flag tells: it is down only when every
\* attack is over and no request is in flight (intruder.rs:153).
IdleMeansFinished ==
    ~stopped /\ ~running => workers = {} /\ \A a \in Attacks : ~Under(a)

Latest == IF started = 0 THEN Unborn ELSE driver[started]

\* Every attack comes to an end, whatever the concurrency and the number of requests,
\* and leaves the intruder ready for another, stopped or not; but after a panic the flag
\* stays up until stop_attack is called (intruder.rs:83, 90, 153, 267).
AttacksEnd ==
    /\ \A a \in Attacks : driver[a].at = "clear" ~> driver[a].at \in {"ended", "panicked"}
    /\ <>[](running => Latest.at = "panicked")

\* What a user sees of it: attacks one after the other, each with results of
\* its own only until one is stopped.
Session == INSTANCE AttackSession WITH
    busy <- running,
    attack <- started,
    answers <- IF Latest.at = "clear" THEN {} ELSE Range(results)
SessionSpec == Session!Spec
=============================================================================
