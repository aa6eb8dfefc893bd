--------------------------- MODULE IntruderProofs ---------------------------
(***************************************************************************)
(* Theorems about Intruder, for any number of attacks, any sizes and any   *)
(* concurrencies, whoever stops attacks and clears results; and about the  *)
(* Payloads of its requests, for every template and any lists.             *)
(***************************************************************************)
EXTENDS Intruder, Payloads, FiniteSetTheorems, SequenceTheorems, WellFoundedInduction, TLAPS

State == [at : Stages, size : Nat, permits : Nat, next : Nat]
Result == [attack : Attacks, id : Nat]
Live == {"check", "acquire", "spawn", "join"}

----------------------------------------------------------------------------
\* Type correctness

LEMMA StepTypes == TypeOK /\ [Next]_vars => TypeOK'
<1> SUFFICES ASSUME TypeOK, [Next]_vars PROVE TypeOK'
  OBVIOUS
<1> USE DEF TypeOK
<1>0. CASE UNCHANGED vars
  BY <1>0 DEF vars
<1>1. CASE Start
  <2>1. started + 1 \in Attacks /\ started' \in 0..MaxAttacks
    BY <1>1, AttackAssumption DEF Start, Attacks
  <2>2. driver' \in [Attacks -> State]
    <3>1. [driver[started + 1] EXCEPT !.at = "clear"] \in State
      BY <2>1 DEF State, Stages
    <3>2. driver' = [driver EXCEPT ![started + 1] = [driver[started + 1] EXCEPT !.at = "clear"]]
      BY <1>1, <2>1 DEF Start
    <3>3. QED
      BY <3>1, <3>2 DEF State
  <2>3. late' \in [Attacks -> Nat]
    BY <1>1 DEF Start
  <2>4. running' \in BOOLEAN /\ stopped' \in BOOLEAN
    BY <1>1 DEF Start
  <2>5. results' \in Seq([attack : Attacks, id : Nat])
    BY <1>1 DEF Start
  <2>6. workers' \subseteq [attack : Attacks, id : Nat]
    BY <1>1 DEF Start
  <2>7. QED
    BY <2>1, <2>2, <2>3, <2>4, <2>5, <2>6 DEF State
<1>2. ASSUME NEW a \in Attacks, Drive(a) PROVE TypeOK'
  <2>1. CASE Forget(a)
    <3>1. results' \in Seq([attack : Attacks, id : Nat])
      BY <2>1 DEF Forget
    <3>2. [driver[a] EXCEPT !.at = "generate"] \in State
      BY DEF State, Stages
    <3>3. driver' \in [Attacks -> State]
      BY <2>1, <3>2 DEF Forget, State
    <3>4. QED
      BY <2>1, <3>1, <3>3 DEF Forget, State
  <2>2. CASE Generate(a)
    <3>1. PICK n \in Sizes, c \in Concurrencies :
              driver' = [driver EXCEPT ![a] =
                            [at |-> "check", size |-> n, next |-> 1,
                             permits |-> IF c = 0 THEN 1 ELSE c]]
      BY <2>2 DEF Generate
    <3>2. n \in Nat /\ c \in Nat
      BY SizeAssumption, ConcurrencyAssumption
    <3>3. [at |-> "check", size |-> n, next |-> 1,
           permits |-> IF c = 0 THEN 1 ELSE c] \in State
      BY <3>2 DEF State, Stages
    <3>4. QED
      BY <3>1, <3>3, <2>2 DEF Generate, State
  <2>3. CASE Check(a)
    BY <2>3 DEF Check, Stages
  <2>4. CASE Acquire(a)
    BY <2>4 DEF Acquire, Stages
  <2>5. CASE Spawn(a)
    <3>1. driver[a].next \in Nat /\ driver[a].next + 1 \in Nat
      OBVIOUS
    <3>2. [driver[a] EXCEPT !.at = "check", !.next = @ + 1] \in State
      BY <3>1 DEF State, Stages
    <3>3. driver' = [driver EXCEPT ![a] = [driver[a] EXCEPT !.at = "check", !.next = @ + 1]]
      BY <2>5 DEF Spawn
    <3>4. driver' \in [Attacks -> State]
      BY <3>2, <3>3 DEF State
    <3>5. [attack |-> a, id |-> driver[a].next] \in [attack : Attacks, id : Nat]
      BY <3>1
    <3>6. late' \in [Attacks -> Nat]
      <4>1. late[a] + 0 \in Nat /\ late[a] + 1 \in Nat
        OBVIOUS
      <4>2. late' = [late EXCEPT ![a] = @ + 0] \/ late' = [late EXCEPT ![a] = @ + 1]
        BY <2>5 DEF Spawn
      <4>3. QED
        BY <4>1, <4>2
    <3>7. QED
      BY <2>5, <3>4, <3>5, <3>6 DEF Spawn, State
  <2>6. CASE Finish(a)
    BY <2>6 DEF Finish, Stages, Unborn
  <2>7. CASE Panic(a)
    <3>1. [Unborn EXCEPT !.at = "panicked"] \in State
      BY DEF Unborn, State, Stages
    <3>2. driver' \in [Attacks -> State]
      BY <2>7, <3>1 DEF Panic, State
    <3>3. QED
      BY <2>7, <3>2 DEF Panic, State
  <2>8. QED
    BY <1>2, <2>1, <2>2, <2>3, <2>4, <2>5, <2>6, <2>7 DEF Drive
<1>3. ASSUME NEW w \in workers, Answered(w) PROVE TypeOK'
  BY <1>3 DEF Answered
<1>4. ASSUME NEW w \in workers, Failed(w) PROVE TypeOK'
  BY <1>4 DEF Failed
<1>5. CASE Stop
  BY <1>5 DEF Stop
<1>6. CASE ClearResults
  BY <1>6 DEF ClearResults
<1>7. QED
  BY <1>0, <1>1, <1>2, <1>3, <1>4, <1>5, <1>6 DEF Next, Work, WorkersOf

\* Every reachable state has the expected types (intruder.rs:59).
THEOREM IntruderTypes == Spec => []TypeOK
<1>1. Init => TypeOK
  <2>1. Unborn \in State
    BY DEF Unborn, State, Stages
  <2>2. ASSUME Init PROVE TypeOK
    <3>1. running \in BOOLEAN /\ stopped \in BOOLEAN
      BY <2>2 DEF Init
    <3>2. results \in Seq([attack : Attacks, id : Nat])
      BY <2>2 DEF Init
    <3>3. started \in 0..MaxAttacks
      BY <2>2, AttackAssumption DEF Init
    <3>4. driver \in [Attacks -> State]
      BY <2>1, <2>2 DEF Init
    <3>5. workers = {} /\ late \in [Attacks -> Nat]
      BY <2>2 DEF Init
    <3>6. QED
      BY <3>1, <3>2, <3>3, <3>4, <3>5 DEF TypeOK, State
  <2>3. QED
    BY <2>2
<1>2. QED
  BY <1>1, StepTypes, PTL DEF Spec

----------------------------------------------------------------------------
\* A stop lets at most one more request out.  The flag is read again before
\* the next one, so a late worker leaves its driver before a check that fails.

LateInv ==
    \A a \in Attacks :
        /\ late[a] \in {0, 1}
        /\ late[a] = 1 => ~running /\ driver[a].at \in {"check", "join", "ended"}

LEMMA StepLate == TypeOK /\ LateInv /\ [Next]_vars => LateInv'
<1> SUFFICES ASSUME TypeOK, LateInv, [Next]_vars PROVE LateInv'
  OBVIOUS
<1> USE DEF TypeOK, LateInv
<1>0. CASE UNCHANGED vars
  BY <1>0 DEF vars
<1>1. CASE Start
  BY <1>1 DEF Start
<1>2. ASSUME NEW a \in Attacks, Drive(a) PROVE LateInv'
  <2>1. CASE Forget(a)
    BY <2>1 DEF Forget
  <2>2. CASE Generate(a)
    BY <2>2 DEF Generate
  <2>3. CASE Check(a)
    BY <2>3 DEF Check
  <2>4. CASE Acquire(a)
    BY <2>4 DEF Acquire
  <2>5. CASE Spawn(a)
    BY <2>5 DEF Spawn
  <2>6. CASE Finish(a) \/ Panic(a)
    BY <2>6 DEF Finish, Panic, Unborn
  <2>7. QED
    BY <1>2, <2>1, <2>2, <2>3, <2>4, <2>5, <2>6 DEF Drive
<1>3. ASSUME NEW w \in workers, Answered(w) \/ Failed(w) PROVE LateInv'
  BY <1>3 DEF Answered, Failed
<1>4. CASE Stop
  BY <1>4 DEF Stop
<1>5. CASE ClearResults
  BY <1>5 DEF ClearResults
<1>6. QED
  BY <1>0, <1>1, <1>2, <1>3, <1>4, <1>5 DEF Next, Work, WorkersOf

\* After stop_attack a driver spawns at most one more worker until the next
\* attack begins, however many attacks are draining (intruder.rs:94).
THEOREM OneMore == Spec => []OneMoreAfterStop
<1>1. Init => LateInv
  BY DEF Init, LateInv
<1>2. LateInv => OneMoreAfterStop
  BY DEF LateInv, OneMoreAfterStop
<1>3. QED
  BY <1>1, <1>2, StepLate, IntruderTypes, PTL DEF Spec

----------------------------------------------------------------------------
\* Workers and results

\* Workers belong to live attacks, and an id is below the next one its driver
\* will hand out for as long as it can still hand one out.
WorkInv ==
    /\ \A w \in workers : driver[w.attack].at \in Live /\ w.id < driver[w.attack].next
    /\ \A i \in DOMAIN results :
           /\ driver[results[i].attack].at \in Live \cup {"ended"}
           /\ driver[results[i].attack].at \in Live =>
                  results[i].id < driver[results[i].attack].next

\* Attacks beyond the latest one have not begun.
FreshInv == \A a \in Attacks : a > started => driver[a].at = "unborn"

LEMMA StepFresh == TypeOK /\ FreshInv /\ [Next]_vars => FreshInv'
<1> SUFFICES ASSUME TypeOK, FreshInv, [Next]_vars, NEW b \in Attacks, b > started'
             PROVE  driver'[b].at = "unborn"
  BY DEF FreshInv
<1> USE DEF TypeOK, FreshInv, Attacks
<1>1. CASE Start
  BY <1>1, AttackAssumption DEF Start
<1>2. ASSUME NEW a \in Attacks, Drive(a) PROVE driver'[b].at = "unborn"
  <2>1. driver[a].at # "unborn" /\ started' = started
    BY <1>2 DEF Drive, Forget, Generate, Panic, Check, Acquire, Spawn, Finish
  <2>2. a # b
    BY <2>1, AttackAssumption
  <2>3. driver'[b] = driver[b]
    BY <1>2, <2>2 DEF Drive, Forget, Generate, Panic, Check, Acquire, Spawn, Finish
  <2>4. QED
    BY <2>1, <2>3
<1>3. CASE UNCHANGED <<driver, started>>
  BY <1>3
<1>4. QED
  BY <1>1, <1>2, <1>3
     DEF Next, Work, WorkersOf, Answered, Failed, Stop, ClearResults, vars

\* The results after one more: the ones before, and the new one.
LEMMA AppendFacts ==
    ASSUME TypeOK, NEW w
    PROVE  /\ DOMAIN Append(results, w) = DOMAIN results \cup {Len(results) + 1}
           /\ \A i \in DOMAIN results : i # Len(results) + 1 /\ Append(results, w)[i] = results[i]
           /\ Append(results, w)[Len(results) + 1] = w
<1>1. results \in Seq(Result)
  BY DEF TypeOK, Result
<1>2. QED
  BY <1>1

\* What a step does to the driver of an attack, as far as its workers and its
\* results are concerned: it never starts over and never gives back an id.
Onward(b) ==
    /\ driver[b].at \in Live => driver'[b].at \in Live \cup {"ended"}
    /\ driver'[b].at \in Live => driver[b].at = "generate" \/ driver'[b].next >= driver[b].next
    /\ driver[b].at = "ended" => driver'[b].at = "ended"

LEMMA OnwardKeepsResults ==
    ASSUME TypeOK, WorkInv, NEW r \in Result,
           driver[r.attack].at \in Live \cup {"ended"},
           driver[r.attack].at \in Live => r.id < driver[r.attack].next,
           Onward(r.attack), driver'[r.attack].next \in Nat
    PROVE  /\ driver'[r.attack].at \in Live \cup {"ended"}
           /\ driver'[r.attack].at \in Live => r.id < driver'[r.attack].next
BY DEF Onward, Live, Result, TypeOK

LEMMA StepOnward ==
    TypeOK /\ FreshInv /\ [Next]_vars /\ TypeOK' => \A b \in Attacks : Onward(b)
<1> SUFFICES ASSUME TypeOK, FreshInv, [Next]_vars, TypeOK', NEW b \in Attacks PROVE Onward(b)
  OBVIOUS
<1> USE DEF TypeOK, Onward, Live
<1>1. CASE UNCHANGED driver
  BY <1>1
<1>2. CASE Start
  <2>1. started + 1 \in Attacks
    BY <1>2, AttackAssumption DEF Start, Attacks
  <2>2. CASE b = started + 1
    <3>1. driver[b].at = "unborn"
      BY <2>1, <2>2 DEF FreshInv
    <3>2. driver'[b].at = "clear"
      BY <1>2, <2>1, <2>2 DEF Start
    <3>3. QED
      BY <3>1, <3>2
  <2>3. CASE b # started + 1
    BY <1>2, <2>1, <2>3 DEF Start
  <2>4. QED
    BY <2>2, <2>3
<1>3. ASSUME NEW a \in Attacks, Drive(a) PROVE Onward(b)
  <2>1. CASE b # a
    <3>1. driver'[b] = driver[b]
      BY <1>3, <2>1 DEF Drive, Forget, Generate, Panic, Check, Acquire, Spawn, Finish
    <3>2. driver[b].next \in Nat
      OBVIOUS
    <3>3. QED
      BY <3>1, <3>2
  <2>2. CASE b = a
    <3>1. CASE Forget(a)
      BY <2>2, <3>1 DEF Forget
    <3>2. CASE Generate(a)
      BY <2>2, <3>2 DEF Generate
    <3>3. CASE Check(a)
      BY <2>2, <3>3 DEF Check
    <3>4. CASE Acquire(a)
      BY <2>2, <3>4 DEF Acquire
    <3>5. CASE Spawn(a)
      BY <2>2, <3>5 DEF Spawn
    <3>6. CASE Finish(a) \/ Panic(a)
      BY <2>2, <3>6 DEF Finish, Panic, Unborn
    <3>7. QED
      BY <1>3, <3>1, <3>2, <3>3, <3>4, <3>5, <3>6 DEF Drive
  <2>3. QED
    BY <2>1, <2>2
<1>4. QED
  BY <1>1, <1>2, <1>3
     DEF Next, Work, WorkersOf, Answered, Failed, Stop, ClearResults, vars

LEMMA StepWork == TypeOK /\ FreshInv /\ WorkInv /\ [Next]_vars => WorkInv'
<1> SUFFICES ASSUME TypeOK, FreshInv, WorkInv, [Next]_vars PROVE WorkInv'
  OBVIOUS
<1>1. TypeOK' /\ \A b \in Attacks : Onward(b)
  BY StepTypes, StepOnward
<1>2. \A b \in Attacks : driver[b].next \in Nat /\ driver'[b].next \in Nat
  BY <1>1 DEF TypeOK
<1>3. ASSUME NEW r \in Result,
             /\ driver[r.attack].at \in Live \cup {"ended"}
             /\ driver[r.attack].at \in Live => r.id < driver[r.attack].next
      PROVE  /\ driver'[r.attack].at \in Live \cup {"ended"}
             /\ driver'[r.attack].at \in Live => r.id < driver'[r.attack].next
  <2>1. r.attack \in Attacks
    BY DEF Result
  <2>2. QED
    BY <1>1, <1>2, <1>3, <2>1, OnwardKeepsResults
<1>4. ASSUME NEW i \in DOMAIN results'
      PROVE  /\ driver'[results'[i].attack].at \in Live \cup {"ended"}
             /\ driver'[results'[i].attack].at \in Live =>
                    results'[i].id < driver'[results'[i].attack].next
  <2>1. (\E j \in DOMAIN results : results'[i] = results[j]) \/ results'[i] \in workers
    <3>1. CASE results' = results
      BY <1>4, <3>1
    <3>2. CASE results' = <<>>
      BY <1>4, <3>2
    <3>3. ASSUME NEW w \in workers, results' = Append(results, w)
          PROVE  (\E j \in DOMAIN results : results'[i] = results[j]) \/ results'[i] \in workers
      BY <1>4, <3>3, AppendFacts
    <3>4. QED
      BY <3>1, <3>2, <3>3
         DEF Next, Drive, Work, WorkersOf, Start, Forget, Generate, Panic, Check, Acquire,
             Spawn, Finish, Answered, Failed, Stop, ClearResults, vars
  <2>2. CASE results'[i] \in workers
    BY <2>2, <1>3 DEF WorkInv, TypeOK, Result
  <2>3. ASSUME NEW j \in DOMAIN results, results'[i] = results[j]
        PROVE  /\ driver'[results'[i].attack].at \in Live \cup {"ended"}
               /\ driver'[results'[i].attack].at \in Live =>
                      results'[i].id < driver'[results'[i].attack].next
    <3>1. results[j] \in Result
      <4>1. results \in Seq(Result)
        BY DEF TypeOK, Result
      <4>2. QED
        BY <4>1
    <3>2. QED
      BY <3>1, <2>3, <1>3 DEF WorkInv
  <2>4. QED
    BY <2>1, <2>2, <2>3
<1>5. ASSUME NEW w \in workers'
      PROVE  driver'[w.attack].at \in Live /\ w.id < driver'[w.attack].next
  <2>1. CASE w \in workers
    <3>1. w \in Result /\ w.attack \in Attacks
      BY <2>1 DEF TypeOK, Result
    <3>2. driver[w.attack].at \in Live /\ w.id < driver[w.attack].next
      BY <2>1 DEF WorkInv
    <3>3. driver'[w.attack].at # "ended"
      <4>1. ASSUME NEW a \in Attacks, Finish(a) PROVE driver'[w.attack].at # "ended"
        <5>1. w.attack # a
          BY <4>1, <2>1 DEF Finish, WorkersOf
        <5>2. driver'[w.attack] = driver[w.attack]
          BY <4>1, <5>1, <3>1 DEF Finish, TypeOK
        <5>3. QED
          BY <5>2, <3>2 DEF Live
      <4>2. ASSUME NEW a \in Attacks, Drive(a), ~Finish(a)
            PROVE  driver'[w.attack].at # "ended"
        <5>1. driver'[w.attack] = driver[w.attack] \/ driver'[a].at # "ended"
          BY <4>2 DEF Drive, Forget, Generate, Panic, Unborn, Check, Acquire, Spawn, TypeOK
        <5>2. w.attack # a => driver'[w.attack] = driver[w.attack]
          BY <4>2, <3>1 DEF Drive, Forget, Generate, Panic, Check, Acquire, Spawn, TypeOK
        <5>3. QED
          BY <5>1, <5>2, <3>2 DEF Live
      <4>3. CASE Start
        BY <4>3, <3>1, <3>2 DEF Start, TypeOK, Live
      <4>4. CASE UNCHANGED driver
        BY <4>4, <3>2 DEF Live
      <4>5. QED
        BY <4>1, <4>2, <4>3, <4>4
           DEF Next, Work, WorkersOf, Answered, Failed, Stop, ClearResults, vars
    <3>4. QED
      BY <1>3, <3>1, <3>2, <3>3 DEF Live
  <2>2. CASE w \notin workers
    <3>1. PICK a \in Attacks : Spawn(a)
      BY <1>5, <2>2 DEF Next, Drive, Work, WorkersOf, Start, Forget, Generate, Panic, Check, Acquire,
                        Finish, Answered, Failed, Stop, ClearResults, vars
    <3>2. w.attack = a /\ w.id = driver[a].next
      BY <3>1, <1>5, <2>2 DEF Spawn
    <3>3. driver'[a].at = "check" /\ driver'[a].next = driver[a].next + 1
      BY <3>1 DEF Spawn, TypeOK
    <3>4. QED
      BY <3>2, <3>3, <1>2 DEF Live
  <2>3. QED
    BY <2>1, <2>2
<1>6. QED
  BY <1>4, <1>5 DEF WorkInv

LEMMA StepDistinct ==
    TypeOK /\ WorkInv /\ ResultsDistinct /\ [Next]_vars => ResultsDistinct'
<1> SUFFICES ASSUME TypeOK, WorkInv, ResultsDistinct, [Next]_vars PROVE ResultsDistinct'
  OBVIOUS
<1> USE DEF ResultsDistinct
<1>0. CASE UNCHANGED vars
  BY <1>0 DEF vars
<1>1. CASE Start
  BY <1>1 DEF Start
<1>2. ASSUME NEW a \in Attacks, Drive(a) PROVE ResultsDistinct'
  <2>1. CASE Forget(a)
    BY <2>1 DEF Forget
  <2>2. CASE Spawn(a)
    <3> DEFINE new == [attack |-> a, id |-> driver[a].next]
    <3>1. results' = results /\ workers' = workers \cup {new} /\ driver[a].at = "spawn"
      BY <2>2 DEF Spawn
    <3>2. ASSUME NEW i \in DOMAIN results PROVE results[i] # new
      <4>1. results[i].attack = a => results[i].id < driver[a].next
        BY <3>1 DEF WorkInv, Live
      <4>2. driver[a].next \in Nat
        BY DEF TypeOK
      <4>3. QED
        BY <4>1, <4>2
    <3>3. QED
      BY <3>1, <3>2
  <2>3. CASE Generate(a) \/ Panic(a) \/ Check(a) \/ Acquire(a) \/ Finish(a)
    BY <2>3 DEF Generate, Panic, Check, Acquire, Finish
  <2>4. QED
    BY <1>2, <2>1, <2>2, <2>3 DEF Drive
<1>3. ASSUME NEW w \in workers, Answered(w) PROVE ResultsDistinct'
  <2>1. results' = Append(results, w) /\ workers' = workers \ {w}
    BY <1>3 DEF Answered
  <2>2. QED
    BY <2>1, AppendFacts DEF ResultsDistinct
<1>4. ASSUME NEW w \in workers, Failed(w) PROVE ResultsDistinct'
  BY <1>4 DEF Failed
<1>5. CASE Stop
  BY <1>5 DEF Stop
<1>6. CASE ClearResults
  BY <1>6 DEF ClearResults
<1>7. QED
  BY <1>0, <1>1, <1>2, <1>3, <1>4, <1>5, <1>6 DEF Next, Work, WorkersOf

\* No request of an attack is answered twice, although stopped attacks drain
\* into the results of later ones (intruder.rs:125).
THEOREM NoneTwice == Spec => []ResultsDistinct
<1>1. Init => FreshInv /\ WorkInv /\ ResultsDistinct
  BY DEF Init, FreshInv, WorkInv, ResultsDistinct, Unborn
<1>2. QED
  BY <1>1, StepFresh, StepWork, StepDistinct, IntruderTypes, PTL DEF Spec

----------------------------------------------------------------------------
\* Permits

LEMMA FiniteWorkers ==
    ASSUME IsFiniteSet(workers), NEW a
    PROVE  IsFiniteSet(WorkersOf(a)) /\ Cardinality(WorkersOf(a)) \in Nat
<1>1. WorkersOf(a) \in SUBSET workers
  BY DEF WorkersOf
<1>2. QED
  BY <1>1, FS_Subset, FS_CardinalityType

FiniteInv == IsFiniteSet(workers)

LEMMA StepFinite == FiniteInv /\ [Next]_vars => FiniteInv'
<1> SUFFICES ASSUME IsFiniteSet(workers), [Next]_vars PROVE IsFiniteSet(workers')
  BY DEF FiniteInv
<1>1. workers' = workers \/ (\E w : workers' = workers \cup {w} \/ workers' = workers \ {w})
  BY DEF Next, Drive, Work, WorkersOf, Start, Forget, Generate, Panic, Check, Acquire, Spawn,
         Finish, Answered, Failed, Stop, ClearResults, vars
<1>2. QED
  BY <1>1, FS_AddElement, FS_RemoveElement

LEMMA StepBound ==
    TypeOK /\ FreshInv /\ WorkInv /\ FiniteInv /\ ConcurrencyBound /\ [Next]_vars
        => ConcurrencyBound'
<1> SUFFICES ASSUME TypeOK, FreshInv, WorkInv, IsFiniteSet(workers), ConcurrencyBound,
                    [Next]_vars, NEW b \in Attacks, Under(b)'
             PROVE  PermitsTaken(b)' <= driver'[b].permits
  BY DEF ConcurrencyBound, FiniteInv
<1>1. /\ Cardinality(WorkersOf(b)) \in Nat
      /\ driver[b].permits \in Nat
      /\ driver'[b].permits \in Nat
  <2>1. TypeOK'
    BY StepTypes
  <2>2. QED
    BY <2>1, FiniteWorkers DEF TypeOK
<1>2. Under(b) => PermitsTaken(b) <= driver[b].permits
  BY DEF ConcurrencyBound
<1>3. driver[b].at \notin Live => Cardinality(WorkersOf(b)) = 0
  <2>1. driver[b].at \notin Live => WorkersOf(b) = {}
    BY DEF WorkInv, WorkersOf
  <2>2. QED
    BY <2>1, FS_EmptySet
<1>4. CASE workers' = workers /\ driver'[b] = driver[b]
  BY <1>2, <1>4 DEF PermitsTaken, WorkersOf, Under
<1>5. CASE Start
  <2>1. started + 1 \in Attacks /\ workers' = workers
    BY <1>5, AttackAssumption DEF Start, Attacks, TypeOK
  <2>2. CASE b = started + 1
    <3>1. driver[b].at = "unborn"
      BY <2>1, <2>2 DEF FreshInv, TypeOK, Attacks
    <3>2. driver'[b].at = "clear"
      BY <1>5, <2>2 DEF Start, TypeOK
    <3>3. PermitsTaken(b)' = 0
      BY <3>1, <3>2, <2>1, <1>3 DEF PermitsTaken, WorkersOf, Live
    <3>4. QED
      BY <3>3, <1>1
  <2>3. CASE b # started + 1
    BY <1>4, <1>5, <2>1, <2>3 DEF Start, TypeOK
  <2>4. QED
    BY <2>2, <2>3
<1>6. ASSUME NEW a \in Attacks, Drive(a), b # a PROVE PermitsTaken(b)' <= driver'[b].permits
  <2>1. driver'[b] = driver[b]
    BY <1>6 DEF Drive, Forget, Generate, Panic, Check, Acquire, Spawn, Finish, TypeOK
  <2>2. WorkersOf(b)' = WorkersOf(b)
    BY <1>6 DEF Drive, Forget, Generate, Panic, Check, Acquire, Spawn, Finish, WorkersOf
  <2>3. QED
    BY <2>1, <2>2, <1>2 DEF PermitsTaken, Under
<1>7. ASSUME Drive(b) PROVE PermitsTaken(b)' <= driver'[b].permits
  <2>1. CASE Forget(b) \/ Generate(b)
    <3>1. workers' = workers /\ driver[b].at \notin Live /\ driver'[b].at # "spawn"
      BY <2>1 DEF Forget, Generate, TypeOK, Live
    <3>2. PermitsTaken(b)' = 0
      BY <3>1, <1>3 DEF PermitsTaken, WorkersOf
    <3>3. QED
      BY <3>2, <1>1
  <2>2. CASE Check(b)
    <3>1. /\ workers' = workers
          /\ driver[b].at = "check"
          /\ driver'[b].at # "spawn"
          /\ driver'[b].permits = driver[b].permits
      BY <2>2 DEF Check, TypeOK
    <3>2. QED
      BY <3>1, <1>2 DEF PermitsTaken, WorkersOf, Under
  <2>3. CASE Acquire(b)
    <3>1. /\ workers' = workers
          /\ driver[b].at = "acquire"
          /\ driver'[b].at = "spawn"
          /\ driver'[b].permits = driver[b].permits
          /\ PermitsTaken(b) < driver[b].permits
      BY <2>3 DEF Acquire, TypeOK
    <3>2. QED
      BY <3>1, <1>1 DEF PermitsTaken, WorkersOf
  <2>4. CASE Spawn(b)
    <3> DEFINE new == [attack |-> b, id |-> driver[b].next]
    <3>1. /\ workers' = workers \cup {new}
          /\ driver[b].at = "spawn"
          /\ driver'[b].at = "check"
          /\ driver'[b].permits = driver[b].permits
      BY <2>4 DEF Spawn, TypeOK
    <3>2. WorkersOf(b)' = WorkersOf(b) \cup {new}
      BY <3>1 DEF WorkersOf
    <3>3. Cardinality(WorkersOf(b) \cup {new}) <= Cardinality(WorkersOf(b)) + 1
      <4>1. IsFiniteSet(WorkersOf(b))
        BY FiniteWorkers
      <4>2. Cardinality(WorkersOf(b) \cup {new}) =
                IF new \in WorkersOf(b) THEN Cardinality(WorkersOf(b))
                                        ELSE Cardinality(WorkersOf(b)) + 1
        BY <4>1, FS_AddElement
      <4>3. QED
        BY <4>2, <1>1
    <3>4. PermitsTaken(b)' = Cardinality(WorkersOf(b) \cup {new}) + 0
      BY <3>1, <3>2 DEF PermitsTaken
    <3>5. PermitsTaken(b) = Cardinality(WorkersOf(b)) + 1 /\ Under(b)
      BY <3>1 DEF PermitsTaken, Under
    <3>6. Cardinality(WorkersOf(b) \cup {new}) \in Nat
      BY FiniteWorkers, FS_AddElement, FS_CardinalityType
    <3>7. QED
      BY <3>1, <3>3, <3>4, <3>5, <3>6, <1>1, <1>2
  <2>5. CASE Finish(b) \/ Panic(b)
    BY <2>5 DEF Finish, Panic, Unborn, Under, TypeOK
  <2>6. QED
    BY <1>7, <2>1, <2>2, <2>3, <2>4, <2>5 DEF Drive
<1>8. ASSUME NEW w \in workers, Answered(w) \/ Failed(w)
      PROVE  PermitsTaken(b)' <= driver'[b].permits
  <2>1. workers' = workers \ {w} /\ driver' = driver
    BY <1>8 DEF Answered, Failed
  <2>2. WorkersOf(b)' = WorkersOf(b) \ {w}
    BY <2>1 DEF WorkersOf
  <2>3. /\ Cardinality(WorkersOf(b) \ {w}) <= Cardinality(WorkersOf(b))
        /\ Cardinality(WorkersOf(b) \ {w}) \in Nat
    BY <1>1, FiniteWorkers, FS_RemoveElement, FS_CardinalityType
  <2>4. QED
    BY <2>1, <2>2, <2>3, <1>1, <1>2 DEF PermitsTaken, Under
<1>9. QED
  BY <1>4, <1>5, <1>6, <1>7, <1>8 DEF Next, Work, WorkersOf, Stop, ClearResults, vars

\* No attack ever has more requests in flight than its caller allowed, or one
\* if the caller allowed none (intruder.rs:86).
THEOREM Bounded == Spec => []ConcurrencyBound
<1>1. Init => FreshInv /\ WorkInv /\ FiniteInv /\ ConcurrencyBound
  BY FS_EmptySet DEF Init, FreshInv, WorkInv, FiniteInv, ConcurrencyBound, Unborn, Under
<1>2. QED
  BY <1>1, StepFresh, StepWork, StepFinite, StepBound, IntruderTypes, PTL DEF Spec

----------------------------------------------------------------------------
\* Until somebody stops an attack: the flag is up while the latest attack is under
\* way, and every other attack is over or has not begun.

SoloInv ==
    ~stopped =>
        /\ \A a \in Attacks : Under(a) => a = started
        /\ \A a \in Attacks : Under(a) => running

LEMMA StepSolo == TypeOK /\ FreshInv /\ SoloInv /\ [Next]_vars => SoloInv'
<1> SUFFICES ASSUME TypeOK, FreshInv, SoloInv, [Next]_vars, ~stopped' PROVE SoloInv'
  BY DEF SoloInv
<1> USE DEF Under
<1>0. ~Stop /\ ~stopped
  <2>1. ~Stop
    BY DEF Stop
  <2>2. ASSUME NEW a \in Attacks, Drive(a) \/ Work(a) PROVE stopped' = stopped
    BY <2>2 DEF Drive, Forget, Generate, Panic, Check, Acquire, Spawn, Finish,
                Work, WorkersOf, Answered, Failed
  <2>3. ASSUME Start \/ ClearResults \/ UNCHANGED vars PROVE stopped' = stopped
    BY <2>3 DEF Start, ClearResults, vars
  <2>4. stopped' = stopped
    BY <2>1, <2>2, <2>3 DEF Next
  <2>5. QED
    BY <2>1, <2>4
<1>1. CASE UNCHANGED <<running, started, driver>>
  BY <1>0, <1>1 DEF SoloInv
<1>2. CASE Start
  <2>1. started + 1 \in Attacks /\ started' = started + 1 /\ running' /\ ~running
    BY <1>2, AttackAssumption DEF Start, Attacks, TypeOK
  <2>2. driver'[started + 1].at = "clear"
    BY <1>2, <2>1 DEF Start, TypeOK
  <2>3. \A a \in Attacks \ {started + 1} : driver'[a] = driver[a]
    BY <1>2 DEF Start, TypeOK
  <2>4. \A a \in Attacks \ {started + 1} : ~Under(a)'
    BY <1>0, <2>1, <2>3 DEF SoloInv
  <2>5. QED
    BY <2>1, <2>2, <2>4 DEF SoloInv
<1>3. ASSUME NEW a \in Attacks, Drive(a), ~Finish(a), ~Panic(a) PROVE SoloInv'
  <2>1. Under(a) /\ Under(a)' /\ started' = started /\ running' = running
    BY <1>3 DEF Drive, Forget, Generate, Check, Acquire, Spawn, TypeOK
  <2>2. \A b \in Attacks \ {a} : driver'[b] = driver[b]
    BY <1>3 DEF Drive, Forget, Generate, Check, Acquire, Spawn, TypeOK
  <2>3. QED
    BY <1>0, <2>1, <2>2 DEF SoloInv
<1>4. ASSUME NEW a \in Attacks, Finish(a) \/ Panic(a) PROVE SoloInv'
  <2>1. Under(a) /\ ~Under(a)' /\ started' = started
    BY <1>4 DEF Finish, Panic, Unborn, TypeOK
  <2>2. \A b \in Attacks \ {a} : driver'[b] = driver[b]
    BY <1>4 DEF Finish, Panic, TypeOK
  <2>3. QED
    BY <1>0, <2>1, <2>2 DEF SoloInv
<1>5. QED
  BY <1>0, <1>1, <1>2, <1>3, <1>4
     DEF Next, Work, WorkersOf, Drive, Answered, Failed, ClearResults, vars

LEMMA InitSolo == Init => FreshInv /\ WorkInv /\ SoloInv
BY DEF Init, FreshInv, WorkInv, SoloInv, Under, Unborn

\* Until the first stop_attack no two attacks are ever under way: the swap of
\* the flag is guard enough (intruder.rs:78).  The run intruder_restart shows
\* that the premise is needed.
THEOREM OneAtATime == Spec => [](~stopped => OneAttackAtATime)
<1>1. SoloInv => (~stopped => OneAttackAtATime)
  BY DEF SoloInv, OneAttackAtATime
<1>2. QED
  BY <1>1, InitSolo, StepSolo, StepFresh, IntruderTypes, PTL DEF Spec

\* Until an attack is stopped, the flag is down only when all work is done
\* (intruder.rs:150).
THEOREM Idle == Spec => []IdleMeansFinished
<1>1. TypeOK /\ WorkInv /\ SoloInv => IdleMeansFinished
  <2>1. ASSUME TypeOK, WorkInv, NEW w \in workers PROVE w.attack \in Attacks /\ Under(w.attack)
    BY <2>1 DEF TypeOK, WorkInv, Under, Live
  <2>2. QED
    BY <2>1 DEF SoloInv, IdleMeansFinished
<1>2. QED
  BY <1>1, InitSolo, StepSolo, StepFresh, StepWork, IntruderTypes, PTL DEF Spec

----------------------------------------------------------------------------
\* The intruder implements AttackSession

LEMMA RangeAppend ==
    ASSUME TypeOK, NEW w
    PROVE  Range(Append(results, w)) = Range(results) \cup {w}
<1>1. \A i \in DOMAIN Append(results, w) :
          i \in DOMAIN results \/ Append(results, w)[i] = w
  BY AppendFacts
<1>2. w \in Range(Append(results, w))
  BY AppendFacts DEF Range
<1>3. Range(results) \subseteq Range(Append(results, w))
  BY AppendFacts DEF Range
<1>4. Range(Append(results, w)) \subseteq Range(results) \cup {w}
  BY <1>1, AppendFacts DEF Range
<1>5. QED
  BY <1>2, <1>3, <1>4

\* Past Forget a driver changes nothing of what is on display: if it is the
\* latest one it has emptied the list, and another one is not looked at.
LEMMA LatestOnward ==
    ASSUME TypeOK, NEW a \in Attacks,
           Generate(a) \/ Panic(a) \/ Check(a) \/ Acquire(a) \/ Spawn(a) \/ Finish(a)
    PROVE  Latest'.at = "clear" <=> Latest.at = "clear"
<1>1. started' = started /\ (started # 0 => started \in Attacks)
  BY AttackAssumption DEF TypeOK, Attacks, Generate, Panic, Check, Acquire, Spawn, Finish
<1>2. CASE started = 0
  BY <1>1, <1>2 DEF Latest
<1>3. CASE started = a /\ started # 0
  <2>1. driver[a].at # "clear" /\ driver'[a].at # "clear"
    BY DEF Generate, Panic, Check, Acquire, Spawn, Finish, Unborn, TypeOK
  <2>2. QED
    BY <1>1, <1>3, <2>1 DEF Latest
<1>4. CASE started # a /\ started # 0
  <2>1. driver'[started] = driver[started]
    BY <1>1, <1>4 DEF Generate, Panic, Check, Acquire, Spawn, Finish, TypeOK
  <2>2. QED
    BY <1>1, <1>4, <2>1 DEF Latest
<1>5. QED
  BY <1>2, <1>3, <1>4

LEMMA StepSession ==
    TypeOK /\ FreshInv /\ WorkInv /\ SoloInv /\ [Next]_vars
        => [Session!Next]_Session!sessionVars
<1> SUFFICES ASSUME TypeOK, FreshInv, WorkInv, SoloInv, [Next]_vars
             PROVE  [Session!Next]_Session!sessionVars
  OBVIOUS
<1> USE DEF Session!sessionVars
<1>1. CASE UNCHANGED vars
  BY <1>1 DEF vars, Latest
<1>2. CASE Start
  <2>1. started + 1 \in Attacks /\ started' = started + 1 /\ started + 1 # 0
    BY <1>2, AttackAssumption DEF Start, Attacks, TypeOK
  <2>2. Latest'.at = "clear"
    BY <1>2, <2>1 DEF Start, Latest, TypeOK
  <2>3. Session!Begin
    BY <1>2, <2>1, <2>2 DEF Start, Session!Begin
  <2>4. QED
    BY <2>3 DEF Session!Next
<1>3. ASSUME NEW a \in Attacks, Drive(a) PROVE [Session!Next]_Session!sessionVars
  <2>1. CASE Forget(a)
    <3>1. Range(results') = {} /\ UNCHANGED <<running, started, stopped>>
      BY <2>1 DEF Forget, Range
    <3>2. Session!Forget
      BY <3>1 DEF Session!Forget
    <3>3. QED
      BY <3>2 DEF Session!Next
  <2>2. CASE Generate(a) \/ Panic(a) \/ Check(a) \/ Acquire(a) \/ Spawn(a)
    <3>1. Latest'.at = "clear" <=> Latest.at = "clear"
      BY <2>2, LatestOnward
    <3>2. UNCHANGED <<running, results, started, stopped>>
      BY <2>2 DEF Generate, Panic, Check, Acquire, Spawn
    <3>3. QED
      BY <3>1, <3>2
  <2>3. CASE Finish(a)
    <3>1. Latest'.at = "clear" <=> Latest.at = "clear"
      BY <2>3, LatestOnward
    <3>2. running' = FALSE /\ UNCHANGED <<results, started, stopped>>
      BY <2>3 DEF Finish
    <3>3. CASE running
      <4>1. Session!Finish
        BY <3>1, <3>2, <3>3 DEF Session!Finish
      <4>2. QED
        BY <4>1 DEF Session!Next
    <3>4. CASE ~running
      <4>1. running' = running
        BY <3>2, <3>4 DEF TypeOK
      <4>2. QED
        BY <3>1, <3>2, <4>1
    <3>5. QED
      BY <3>3, <3>4
  <2>4. QED
    BY <1>3, <2>1, <2>2, <2>3 DEF Drive
<1>4. ASSUME NEW w \in workers, Answered(w) PROVE [Session!Next]_Session!sessionVars
  <2>1. w.attack \in Attacks /\ driver[w.attack].at \in Live
    BY DEF WorkInv, TypeOK
  <2>2. w.attack \in 1..started
    BY <2>1, AttackAssumption DEF FreshInv, Live, Attacks, TypeOK
  <2>3. ~stopped => w.attack = started /\ running
    BY <2>1 DEF SoloInv, Under, Live
  <2>4. Latest' = Latest /\ UNCHANGED <<running, started, stopped>>
    BY <1>4 DEF Latest, Answered
  <2>5. Range(results') = Range(results) \cup {w}
    BY <1>4, RangeAppend DEF Answered
  <2>6. CASE Latest.at = "clear" \/ w \in Range(results)
    BY <2>4, <2>5, <2>6
  <2>7. CASE Latest.at # "clear" /\ w \notin Range(results)
    <3>1. Session!Answer
      BY <2>2, <2>3, <2>4, <2>5, <2>7 DEF Session!Answer
    <3>2. QED
      BY <3>1 DEF Session!Next
  <2>8. QED
    BY <2>6, <2>7
<1>5. ASSUME NEW w \in workers, Failed(w) PROVE [Session!Next]_Session!sessionVars
  BY <1>5 DEF Failed, Latest
<1>6. CASE ClearResults
  <2>1. Range(results') = {} /\ UNCHANGED <<running, started, stopped>>
    BY <1>6 DEF ClearResults, Range
  <2>2. Session!Forget
    BY <2>1 DEF Session!Forget
  <2>3. QED
    BY <2>2 DEF Session!Next
<1>7. CASE Stop
  <2>1. Latest' = Latest
    BY <1>7 DEF Stop, Latest
  <2>2. Session!Stop
    BY <1>7, <2>1 DEF Stop, Session!Stop
  <2>3. QED
    BY <2>2 DEF Session!Next
<1>8. QED
  BY <1>1, <1>2, <1>3, <1>4, <1>5, <1>6, <1>7 DEF Next, Work, WorkersOf

\* The intruder is an AttackSession: the list is emptied when an attack begins,
\* only attacks that have begun answer, and until an attack is stopped what is
\* on display are answers of the latest attack and none comes after its end.
THEOREM IsASession == Spec => SessionSpec
<1>1. Init => Session!Init
  BY DEF Init, Session!Init, Latest, Unborn, Range
<1>2. QED
  BY <1>1, InitSolo, StepSession, StepSolo, StepFresh, StepWork, IntruderTypes, PTL
     DEF Spec, SessionSpec, Session!Spec

----------------------------------------------------------------------------
\* Payloads: the requests are those that the kind of attack asks for

\* Induction up to N, with the set of the numbers for which it holds.
LEMMA Upto ==
    ASSUME NEW N \in Nat, NEW G, 0 \in G, \A n \in 1..N : n - 1 \in G => n \in G
    PROVE  \A n \in 0..N : n \in G
<1> DEFINE bad == {n \in 0..N : n \notin G}
           less == {ss \in Nat \X Nat : ss[1] < ss[2]}
<1> SUFFICES ASSUME bad # {} PROVE FALSE
  OBVIOUS
<1>1. IsWellFoundedOn(less, Nat)
  BY NatLessThanWellFounded DEF OpToRel
<1>2. bad \subseteq Nat
  OBVIOUS
<1>3. PICK i \in bad : \A j \in bad : ~(<<j, i>> \in less)
  <2> HIDE DEF less, bad
  <2> QED
    BY <1>1, <1>2, WFMin
<1>4. \A j \in bad : ~(j < i)
  BY <1>2, <1>3
<1>5. i \in 1..N /\ i - 1 \notin bad
  BY <1>4
<1> QED
  BY <1>5

\* A recursion that stays in S has a solution.
Solves(f, m, S, a, step) ==
    f \in [0..m -> S] /\ f[0] = a /\ \A n \in 1..m : f[n] = step[<<n, f[n - 1]>>]

\* Such a solution exists up to every number.
LEMMA Recursion ==
    ASSUME NEW S, NEW a \in S, NEW N \in Nat, NEW step \in [(1..N) \X S -> S]
    PROVE  \E f : Solves(f, N, S, a, step)
<1> DEFINE G == {m \in 0..N : \E f : Solves(f, m, S, a, step)}
<1>1. 0 \in G
  <2> DEFINE f == [n \in 0..0 |-> a]
  <2>1. f \in [0..0 -> S] /\ f[0] = a
    OBVIOUS
  <2> HIDE DEF f
  <2>2. Solves(f, 0, S, a, step)
    BY <2>1 DEF Solves
  <2> QED
    BY <2>2
<1>2. ASSUME NEW n \in 1..N, n - 1 \in G PROVE n \in G
  <2>1. PICK g : Solves(g, n - 1, S, a, step)
    BY <1>2
  <2> DEFINE x == step[<<n, g[n - 1]>>]
             f == [m \in 0..n |-> IF m = n THEN x ELSE g[m]]
  <2>2. x \in S /\ g \in [0..(n - 1) -> S] /\ g[0] = a
    BY <2>1 DEF Solves
  <2> HIDE DEF x
  <2>3. f \in [0..n -> S] /\ f[0] = a
    BY <2>2
  <2>4. ASSUME NEW m \in 1..n PROVE f[m] = step[<<m, f[m - 1]>>]
    <3>1. m - 1 \in 0..n /\ m - 1 # n /\ f[m - 1] = g[m - 1]
      OBVIOUS
    <3>2. CASE m = n
      BY <3>1, <3>2 DEF x
    <3>3. CASE m # n
      BY <2>1, <3>1, <3>3 DEF Solves
    <3> QED
      BY <3>2, <3>3
  <2> HIDE DEF f
  <2>5. Solves(f, n, S, a, step)
    BY <2>3, <2>4 DEF Solves
  <2> QED
    BY <2>5
<1> HIDE DEF G
<1>3. N \in G
  BY <1>1, <1>2, Upto
<1> QED
  BY <1>3 DEF G

----------------------------------------------------------------------------
\* Sequences put together

Flat(f, ss, S) ==
    /\ f \in [0..Len(ss) -> Seq(S)] /\ f[0] = <<>>
    /\ \A n \in 1..Len(ss) : f[n] = f[n - 1] \o ss[n]

Flattens(f, ss) == f = [i \in 1..Len(ss) |-> IF i = 1 THEN ss[i] ELSE f[i - 1] \o ss[i]]

\* FlattenSeq as the choice of a solution.
LEMMA FlattenIs ==
    ASSUME NEW ss, Len(ss) # 0
    PROVE  FlattenSeq(ss) = (CHOOSE f : Flattens(f, ss))[Len(ss)]
BY DEF FlattenSeq, Flattens

\* What FlattenSeq computes.
LEMMA FlattenSolved ==
    ASSUME NEW S, NEW ss \in Seq(Seq(S))
    PROVE  \E f : Flat(f, ss, S) /\ FlattenSeq(ss) = f[Len(ss)]
<1> DEFINE L == Len(ss)
           step == [x \in (1..L) \X Seq(S) |-> x[2] \o ss[x[1]]]
<1>1. L \in Nat /\ \A n \in 1..L : ss[n] \in Seq(S)
  OBVIOUS
<1>2. <<>> \in Seq(S)
  OBVIOUS
<1>3. step \in [(1..L) \X Seq(S) -> Seq(S)]
  <2>1. ASSUME NEW x \in (1..L) \X Seq(S) PROVE x[2] \o ss[x[1]] \in Seq(S)
    <3>1. x[1] \in 1..L /\ x[2] \in Seq(S)
      OBVIOUS
    <3> QED
      BY <1>1, <3>1, ConcatProperties
  <2> QED
    BY <2>1
<1>4. PICK f : Solves(f, L, Seq(S), <<>>, step)
  <2> HIDE DEF step
  <2> QED
    BY <1>1, <1>2, <1>3, Recursion
<1> HIDE DEF L
<1>a. f \in [0..L -> Seq(S)] /\ f[0] = <<>>
  BY <1>4 DEF Solves
<1>b. ASSUME NEW n \in 1..L PROVE f[n] = f[n - 1] \o ss[n]
  <2>1. <<n, f[n - 1]>> \in (1..L) \X Seq(S)
    BY <1>1, <1>a
  <2>2. f[n] = step[<<n, f[n - 1]>>]
    BY <1>4 DEF Solves
  <2> QED
    BY <2>1, <2>2
<1>5. Flat(f, ss, S)
  BY <1>a, <1>b DEF Flat, L
<1>6. CASE L = 0
  BY <1>a, <1>5, <1>6 DEF FlattenSeq, L
<1>7. CASE L # 0
  <2> DEFINE g == [n \in 1..L |-> f[n]]
             h == CHOOSE h : Flattens(h, ss)
  <2>1. \A n \in 1..L : f[n] = IF n = 1 THEN ss[n] ELSE f[n - 1] \o ss[n]
    <3>1. 1 \in 1..L
      BY <1>1, <1>7
    <3>2. f[1] = <<>> \o ss[1] /\ ss[1] \in Seq(S)
      <4>1. f[1] = f[1 - 1] \o ss[1]
        BY <1>b, <3>1
      <4>2. f[1] = f[0] \o ss[1]
        BY <4>1
      <4>3. ss[1] \in Seq(S)
        BY <1>1, <3>1
      <4> QED
        BY <1>a, <4>2, <4>3
    <3>3. f[1] = ss[1]
      BY <3>2, ConcatEmptySeq
    <3> QED
      BY <1>b, <3>3
  <2>2. Flattens(g, ss)
    BY <1>1, <2>1 DEF Flattens, L
  <2>3. Flattens(h, ss)
    BY <2>2
  <2> HIDE DEF h
  <2>4. \A n \in 1..L : h[n] = IF n = 1 THEN ss[n] ELSE h[n - 1] \o ss[n]
    BY <2>3 DEF Flattens, L
  <2> DEFINE G == {n \in 0..L : n > 0 => h[n] = f[n]}
  <2>5. 0 \in G
    BY <1>1
  <2>6. ASSUME NEW n \in 1..L, n - 1 \in G PROVE n \in G
    BY <2>1, <2>4, <2>6
  <2> HIDE DEF G
  <2>7. L \in G
    <3>1. L \in Nat
      BY <1>1
    <3>2. \A n \in 1..L : n - 1 \in G => n \in G
      BY <2>6
    <3>3. \A n \in 0..L : n \in G
      BY <3>1, <3>2, <2>5, Upto
    <3> QED
      BY <3>1, <3>3
  <2>8. h[L] = f[L]
    BY <1>1, <1>7, <2>7 DEF G
  <2> QED
    BY <1>5, <1>7, <2>8, FlattenIs DEF h, L
<1> QED
  BY <1>6, <1>7

\* Appending a sequence to those that are put together appends it to the result.
LEMMA FlattenAppend ==
    ASSUME NEW S, NEW ss \in Seq(Seq(S)), NEW x \in Seq(S)
    PROVE  /\ FlattenSeq(ss) \in Seq(S)
           /\ FlattenSeq(Append(ss, x)) = FlattenSeq(ss) \o x
<1> DEFINE L == Len(ss)
           tt == Append(ss, x)
<1>1. /\ L \in Nat /\ tt \in Seq(Seq(S)) /\ Len(tt) = L + 1 /\ tt[L + 1] = x
      /\ \A n \in 1..L : tt[n] = ss[n]
  BY LenProperties, AppendProperties
<1>2. PICK f : Flat(f, ss, S) /\ FlattenSeq(ss) = f[L]
  BY FlattenSolved
<1> HIDE DEF tt
<1>3. PICK g : Flat(g, tt, S) /\ FlattenSeq(tt) = g[Len(tt)]
  BY <1>1, FlattenSolved
<1> HIDE DEF L
<1>4. /\ f \in [0..L -> Seq(S)] /\ f[0] = <<>> /\ \A n \in 1..L : f[n] = f[n - 1] \o ss[n]
      /\ g[0] = <<>> /\ \A n \in 1..(L + 1) : g[n] = g[n - 1] \o tt[n]
  <2>1. f \in [0..L -> Seq(S)] /\ f[0] = <<>> /\ \A n \in 1..L : f[n] = f[n - 1] \o ss[n]
    BY <1>2 DEF Flat, L
  <2>2. g[0] = <<>> /\ \A n \in 1..Len(tt) : g[n] = g[n - 1] \o tt[n]
    BY <1>3 DEF Flat
  <2>3. Len(tt) = L + 1
    BY <1>1
  <2>4. \A n \in 1..(L + 1) : g[n] = g[n - 1] \o tt[n]
    <3> HIDE DEF L
    <3> QED
      BY <2>2, <2>3, Zenon
  <2> QED
    BY <2>1, <2>2, <2>4, Zenon
<1> DEFINE G == {n \in 0..L : g[n] = f[n]}
<1>5. 0 \in G
  <2>1. 0 \in 0..L
    BY <1>1
  <2>2. g[0] = f[0]
    BY <1>4, Zenon
  <2> QED
    BY <2>1, <2>2, Zenon
<1>6. ASSUME NEW n \in 1..L, n - 1 \in G PROVE n \in G
  <2>1. n \in 1..(L + 1) /\ tt[n] = ss[n] /\ g[n - 1] = f[n - 1]
    BY <1>1, <1>6
  <2>2. g[n] = g[n - 1] \o tt[n] /\ f[n] = f[n - 1] \o ss[n]
    BY <1>4, <2>1
  <2>3. g[n] = f[n]
    BY <2>1, <2>2
  <2>4. n \in 0..L
    BY <1>1
  <2> QED
    BY <2>3, <2>4
<1> HIDE DEF G
<1>7. L \in G
  <2>1. L \in Nat
    BY <1>1
  <2>2. \A n \in 1..L : n - 1 \in G => n \in G
    BY <1>6
  <2>3. \A n \in 0..L : n \in G
    BY <2>1, <2>2, <1>5, Upto
  <2> QED
    BY <2>1, <2>3
<1>8. g[L] = f[L] /\ f[L] \in Seq(S)
  BY <1>1, <1>4, <1>7 DEF G
<1>9. g[L + 1] = g[L] \o x
  <2>1. L + 1 \in 1..(L + 1) /\ (L + 1) - 1 = L
    BY <1>1
  <2> QED
    BY <1>1, <1>4, <2>1
<1> QED
  BY <1>1, <1>2, <1>3, <1>8, <1>9 DEF tt

\* Nothing put together is nothing.
LEMMA FlattenNone == FlattenSeq(<<>>) = <<>>
BY DEF FlattenSeq

\* Induction on sequences, with the set of those for which it holds.
LEMMA Sequencewise ==
    ASSUME NEW X, NEW G, <<>> \in G,
           \A t \in Seq(X), x \in X : t \in G => Append(t, x) \in G
    PROVE  \A t \in Seq(X) : t \in G
<1> SUFFICES ASSUME NEW s \in Seq(X) PROVE s \in G
  OBVIOUS
<1> DEFINE L == Len(s)
           H == {n \in 0..L : SubSeq(s, 1, n) \in G}
<1>1. L \in Nat /\ \A n \in 1..L : s[n] \in X
  BY LenProperties
<1>2. SubSeq(s, 1, 0) = <<>>
  BY SubSeqEmpty
<1>3. 0 \in H
  <2>1. SubSeq(s, 1, 0) \in G
    BY <1>2, Zenon
  <2>2. 0 \in 0..L
    BY <1>1
  <2> QED
    BY <2>1, <2>2, Zenon
<1>4. ASSUME NEW n \in 1..L, n - 1 \in H PROVE n \in H
  <2> DEFINE t == SubSeq(s, 1, n - 1)
             u == SubSeq(s, 1, n)
  <2>1. n \in Nat /\ n <= L
    BY <1>1
  <2>2. t \in Seq(X) /\ Len(t) = n - 1 /\ \A i \in 1..(n - 1) : t[i] = s[i]
    BY <1>1, <2>1
  <2>3. u \in Seq(X) /\ Len(u) = n /\ \A i \in 1..n : u[i] = s[i]
    BY <1>1, <2>1
  <2>4. t \in G
    BY <1>4
  <2> HIDE DEF t, u
  <2>5. Append(t, s[n]) \in Seq(X) /\ Len(Append(t, s[n])) = n
        /\ \A i \in 1..n : Append(t, s[n])[i] = s[i]
    BY <1>1, <2>1, <2>2
  <2>6. u = Append(t, s[n])
    BY <2>3, <2>5
  <2>7. u \in G
    BY <1>1, <2>2, <2>4, <2>6
  <2> QED
    BY <2>7 DEF u
<1> HIDE DEF H
<1>5. L \in H
  <2>1. L \in Nat
    BY <1>1
  <2>2. \A n \in 1..L : n - 1 \in H => n \in H
    BY <1>4
  <2>3. \A n \in 0..L : n \in H
    BY <2>1, <2>2, <1>3, Upto
  <2> QED
    BY <2>1, <2>3
<1>6. SubSeq(s, 1, L) = s
  BY SubSeqFull
<1> QED
  BY <1>5, <1>6 DEF H

----------------------------------------------------------------------------
\* Tokens replaced by texts

Tokens == Literals \cup Names
Text == Seq(Tokens)
IsMap(F) == F \in [Tokens -> Text]

PiecesOf(t, F) == [n \in DOMAIN t |-> F[t[n]]]
Mapped(t, F) == FlattenSeq(PiecesOf(t, F))

\* The empty text has nothing to be replaced.
LEMMA MappedNone == ASSUME NEW F PROVE Mapped(<<>>, F) = <<>>
<1>1. PiecesOf(<<>>, F) = <<>>
  BY DEF PiecesOf
<1> QED
  BY <1>1, FlattenNone DEF Mapped

\* The pieces that Mapped puts together.
LEMMA Pieces ==
    ASSUME NEW F, IsMap(F), NEW t \in Text
    PROVE  /\ PiecesOf(t, F) \in Seq(Text) /\ Len(PiecesOf(t, F)) = Len(t)
           /\ \A n \in 1..Len(t) : PiecesOf(t, F)[n] = F[t[n]]
<1>1. Len(t) \in Nat /\ DOMAIN t = 1..Len(t) /\ \A n \in 1..Len(t) : t[n] \in Tokens
  BY LenProperties DEF Text
<1>2. \A n \in 1..Len(t) : F[t[n]] \in Text
  BY <1>1 DEF IsMap
<1> QED
  BY <1>1, <1>2 DEF PiecesOf

\* A text with its tokens replaced is a text.
LEMMA MappedType == ASSUME NEW F, IsMap(F), NEW t \in Text PROVE Mapped(t, F) \in Text
<1> DEFINE ss == PiecesOf(t, F)
<1>1. ss \in Seq(Text)
  BY Pieces
<1>2. PICK f : Flat(f, ss, Tokens) /\ FlattenSeq(ss) = f[Len(ss)]
  <2> HIDE DEF ss
  <2> QED
    BY <1>1, FlattenSolved DEF Text
<1> HIDE DEF ss
<1>3. Len(ss) \in Nat
  BY <1>1, LenProperties
<1>4. f \in [0..Len(ss) -> Text]
  BY <1>2 DEF Flat, Text
<1>5. f[Len(ss)] \in Text
  BY <1>3, <1>4
<1> QED
  BY <1>2, <1>5 DEF Mapped, ss

\* One more token is one more piece.
LEMMA MappedAppend ==
    ASSUME NEW F, IsMap(F), NEW t \in Text, NEW x \in Tokens
    PROVE  /\ Append(t, x) \in Text
           /\ Mapped(t, F) \in Text
           /\ Mapped(Append(t, x), F) = Mapped(t, F) \o F[x]
<1> DEFINE ss == PiecesOf(t, F)
           u == Append(t, x)
           tt == PiecesOf(u, F)
<1>1. ss \in Seq(Text) /\ Len(ss) = Len(t) /\ \A n \in 1..Len(t) : ss[n] = F[t[n]]
  BY Pieces
<1>2. /\ u \in Text /\ Len(u) = Len(t) + 1 /\ Len(t) \in Nat /\ u[Len(t) + 1] = x
      /\ \A n \in 1..Len(t) : u[n] = t[n]
  BY AppendProperties, LenProperties DEF Text
<1>4. F[x] \in Text
  BY DEF IsMap
<1> HIDE DEF ss, u
<1>3. tt \in Seq(Text) /\ Len(tt) = Len(t) + 1 /\ \A n \in 1..(Len(t) + 1) : tt[n] = F[u[n]]
  BY <1>2, Pieces
<1> HIDE DEF tt
<1>5. \A n \in 1..Len(t) : tt[n] = ss[n]
  BY <1>1, <1>2, <1>3
<1>6. tt[Len(t) + 1] = F[x]
  BY <1>2, <1>3
<1>7. tt = Append(ss, F[x])
  <2>1. /\ Append(ss, F[x]) \in Seq(Text) /\ Len(Append(ss, F[x])) = Len(t) + 1
        /\ Append(ss, F[x])[Len(t) + 1] = F[x]
        /\ \A n \in 1..Len(t) : Append(ss, F[x])[n] = ss[n]
    BY <1>1, <1>4, AppendProperties
  <2> QED
    BY <1>2, <1>3, <1>5, <1>6, <2>1
<1>8. FlattenSeq(ss) \in Text /\ FlattenSeq(Append(ss, F[x])) = FlattenSeq(ss) \o F[x]
  BY <1>1, <1>4, FlattenAppend DEF Text
<1> QED
  BY <1>2, <1>7, <1>8 DEF Mapped, ss, tt, u

\* A text of one token becomes the piece of that token.
LEMMA MappedOne ==
    ASSUME NEW F, IsMap(F), NEW x \in Tokens
    PROVE  Mapped(<<x>>, F) = F[x]
<1>1. <<>> \in Text /\ Append(<<>>, x) = <<x>> /\ F[x] \in Text
  BY DEF Text, IsMap
<1>2. Mapped(Append(<<>>, x), F) = <<>> \o F[x]
  BY <1>1, MappedAppend, MappedNone
<1> QED
  BY <1>1, <1>2, ConcatEmptySeq DEF Text

\* A map that leaves the tokens of a text alone leaves the text alone.
LEMMA MappedSame ==
    ASSUME NEW F, IsMap(F)
    PROVE  \A t \in Text : (\A n \in 1..Len(t) : F[t[n]] = <<t[n]>>) => Mapped(t, F) = t
<1> DEFINE Same(t) == (\A n \in 1..Len(t) : F[t[n]] = <<t[n]>>) => Mapped(t, F) = t
           G == {t \in Text : Same(t)}
<1>1. <<>> \in G
  BY MappedNone DEF Text
<1>2. ASSUME NEW t \in Text, NEW x \in Tokens, t \in G PROVE Append(t, x) \in G
  <2> SUFFICES ASSUME \A n \in 1..Len(Append(t, x)) : F[Append(t, x)[n]] = <<Append(t, x)[n]>>
               PROVE  Mapped(Append(t, x), F) = Append(t, x)
    BY MappedAppend
  <2>1. /\ Len(t) \in Nat /\ Len(Append(t, x)) = Len(t) + 1 /\ Append(t, x)[Len(t) + 1] = x
        /\ \A n \in 1..Len(t) : Append(t, x)[n] = t[n]
    BY AppendProperties, LenProperties DEF Text
  <2> DEFINE u == Append(t, x)
  <2>a. \A n \in 1..Len(u) : F[u[n]] = <<u[n]>>
    OBVIOUS
  <2>b. Len(u) = Len(t) + 1 /\ u[Len(t) + 1] = x /\ \A n \in 1..Len(t) : u[n] = t[n]
    BY <2>1
  <2> HIDE DEF u
  <2>2. F[x] = <<x>> /\ \A n \in 1..Len(t) : F[t[n]] = <<t[n]>>
    <3>1. Len(t) + 1 \in 1..Len(u) /\ \A n \in 1..Len(t) : n \in 1..Len(u)
      BY <2>1, <2>b
    <3> QED
      BY <2>a, <2>b, <3>1
  <2>3. Mapped(t, F) = t
    BY <1>2, <2>2
  <2>4. Append(t, x) = t \o <<x>>
    BY AppendIsConcat DEF Text
  <2>5. Mapped(Append(t, x), F) = Mapped(t, F) \o F[x]
    BY MappedAppend
  <2> QED
    BY <2>2, <2>3, <2>4, <2>5, Zenon
<1> HIDE DEF G
<1>3. \A t \in Text : t \in G
  BY <1>1, <1>2, Sequencewise DEF Text
<1> QED
  BY <1>3 DEF G

\* Three texts in a row, however they are joined.
LEMMA TextsJoin == \A a, b, c \in Text : (a \o b) \o c = a \o (b \o c)
BY ConcatAssociative DEF Text

\* Putting two texts together before or after.
LEMMA MappedConcat ==
    ASSUME NEW F, IsMap(F), NEW s \in Text
    PROVE  \A t \in Text : Mapped(s \o t, F) = Mapped(s, F) \o Mapped(t, F)
<1> DEFINE G == {t \in Text : Mapped(s \o t, F) = Mapped(s, F) \o Mapped(t, F)}
<1>0. Mapped(s, F) \in Text
  BY MappedType
<1>1. <<>> \in G
  <2>1. s \o <<>> = s /\ Mapped(s, F) \o <<>> = Mapped(s, F) /\ <<>> \in Text
    BY <1>0, ConcatEmptySeq DEF Text
  <2> QED
    BY <2>1, MappedNone
<1>2. ASSUME NEW t \in Text, NEW x \in Tokens, t \in G PROVE Append(t, x) \in G
  <2>1. /\ s \o t \in Text /\ Append(t, x) \in Text
        /\ s \o Append(t, x) = Append(s \o t, x)
    <3>1. Append(t, x) = t \o <<x>> /\ <<x>> \in Text /\ s \o t \in Text
      BY AppendIsConcat, ConcatProperties DEF Text
    <3>2. Append(s \o t, x) = (s \o t) \o <<x>>
      BY <3>1, AppendIsConcat DEF Text
    <3>3. (s \o t) \o <<x>> = s \o (t \o <<x>>)
      BY <3>1, ConcatAssociative DEF Text
    <3> QED
      BY <3>1, <3>2, <3>3, MappedAppend
  <2>2. /\ Mapped(Append(s \o t, x), F) = Mapped(s \o t, F) \o F[x]
        /\ Mapped(Append(t, x), F) = Mapped(t, F) \o F[x]
    BY <2>1, MappedAppend
  <2>3. Mapped(s \o t, F) = Mapped(s, F) \o Mapped(t, F)
    BY <1>2
  <2>4. (Mapped(s, F) \o Mapped(t, F)) \o F[x] = Mapped(s, F) \o (Mapped(t, F) \o F[x])
    <3>1. Mapped(t, F) \in Text /\ F[x] \in Text
      BY MappedType DEF IsMap
    <3> QED
      BY <1>0, <3>1, TextsJoin
  <2> QED
    BY <2>1, <2>2, <2>3, <2>4
<1> HIDE DEF G
<1>3. \A t \in Text : t \in G
  BY <1>1, <1>2, Sequencewise DEF Text
<1> QED
  BY <1>3 DEF G

\* One map after another.
After(F, G) == [x \in Tokens |-> Mapped(F[x], G)]

\* Replacing the tokens twice is replacing them once, by the pieces replaced.
LEMMA MappedTwice ==
    ASSUME NEW F, IsMap(F), NEW K, IsMap(K)
    PROVE  IsMap(After(F, K)) /\ \A t \in Text : Mapped(Mapped(t, F), K) = Mapped(t, After(F, K))
<1>1. \A x \in Tokens : F[x] \in Text
  BY DEF IsMap
<1>2. IsMap(After(F, K))
  BY <1>1, MappedType DEF IsMap, After
<1> DEFINE G == {t \in Text : Mapped(Mapped(t, F), K) = Mapped(t, After(F, K))}
<1>3. <<>> \in G
  BY MappedNone DEF Text
<1>4. ASSUME NEW t \in Text, NEW x \in Tokens, t \in G PROVE Append(t, x) \in G
  <2>1. /\ Append(t, x) \in Text /\ Mapped(t, F) \in Text
        /\ Mapped(Append(t, x), F) = Mapped(t, F) \o F[x]
        /\ Mapped(Append(t, x), After(F, K)) = Mapped(t, After(F, K)) \o After(F, K)[x]
    BY <1>2, MappedAppend
  <2>2. Mapped(Mapped(t, F) \o F[x], K) = Mapped(Mapped(t, F), K) \o Mapped(F[x], K)
    BY <1>1, <2>1, MappedConcat
  <2>3. Mapped(Mapped(t, F), K) = Mapped(t, After(F, K)) /\ After(F, K)[x] = Mapped(F[x], K)
    BY <1>4 DEF After
  <2> QED
    BY <2>1, <2>2, <2>3
<1> HIDE DEF G
<1>5. \A t \in Text : t \in G
  BY <1>3, <1>4, Sequencewise DEF Text
<1> QED
  BY <1>2, <1>5 DEF G

----------------------------------------------------------------------------
\* The markers of positions replaced

Plain == Seq(Literals)

\* A text without markers has none of the names.
LEMMA PlainTexts ==
    \A s \in Plain : s \in Text /\ \A n \in 1..Len(s) : s[n] \in Literals /\ s[n] \notin Names
<1> SUFFICES ASSUME NEW s \in Plain
             PROVE  s \in Text /\ \A n \in 1..Len(s) : s[n] \in Literals /\ s[n] \notin Names
  OBVIOUS
<1>1. Literals \cap Names = {} /\ Literals \subseteq Tokens
  BY PayloadAssumption DEF Tokens
<1>2. \A n \in 1..Len(s) : s[n] \in Literals
  BY LenProperties DEF Plain
<1>3. s \in Text
  BY <1>1, SeqMonotonic DEF Plain, Text
<1> QED
  BY <1>1, <1>2, <1>3

\* A token alone is a text.
LEMMA SingleToken == \A x \in Tokens : <<x>> \in Text
BY DEF Text

Swap(p, by) == [x \in Tokens |-> IF x = p THEN by ELSE <<x>>]

\* Replacing a marker maps the text.
LEMMA ReplaceMaps ==
    ASSUME NEW t \in Text, NEW p, NEW by \in Text
    PROVE  IsMap(Swap(p, by)) /\ Replace(t, p, by) = Mapped(t, Swap(p, by))
<1>1. IsMap(Swap(p, by))
  BY SingleToken DEF IsMap, Swap
<1>2. \A n \in DOMAIN t : t[n] \in Tokens
  BY DEF Text
<1>3. \A n \in DOMAIN t : Swap(p, by)[t[n]] = IF t[n] = p THEN by ELSE <<t[n]>>
  BY <1>2 DEF Swap
<1>4. PiecesOf(t, Swap(p, by)) = [n \in DOMAIN t |-> IF t[n] = p THEN by ELSE <<t[n]>>]
  BY <1>3 DEF PiecesOf
<1> QED
  BY <1>1, <1>4 DEF Mapped, Replace

\* What some of the first m positions make of a token.
Put(positions, some, by, m) ==
    [x \in Tokens |-> IF \E n \in some : n <= m /\ positions[n] = x
                      THEN by[CHOOSE n \in some : positions[n] = x] ELSE <<x>>]

\* Filling in the positions one by one is to map the text once.
Fills(f, text, positions, some, by) ==
    f = [n \in 0..Len(positions) |->
            IF n = 0 THEN text
            ELSE IF n \in some THEN Replace(f[n - 1], positions[n], by[n]) ELSE f[n - 1]]

\* Filled as the choice of a solution.
LEMMA FilledIs ==
    ASSUME NEW text, NEW positions, NEW some, NEW by
    PROVE  Filled(text, positions, some, by) =
               (CHOOSE f : Fills(f, text, positions, some, by))[Len(positions)]
BY DEF Filled, Fills

Distinct(positions) ==
    /\ positions \in Seq(Names)
    /\ \A m, n \in 1..Len(positions) : positions[m] = positions[n] => m = n

\* The next position adds its marker and leaves what earlier ones put, which
\* holds no markers.
LEMMA PutStep ==
    ASSUME NEW positions, Distinct(positions), NEW some \in SUBSET (1..Len(positions)),
           NEW by, \A n \in 1..Len(positions) : by[n] \in Plain,
           NEW n \in 1..Len(positions)
    PROVE  /\ IsMap(Put(positions, some, by, n - 1))
           /\ n \in some => After(Put(positions, some, by, n - 1), Swap(positions[n], by[n]))
                              = Put(positions, some, by, n)
           /\ n \notin some => Put(positions, some, by, n - 1) = Put(positions, some, by, n)
<1> DEFINE A == Put(positions, some, by, n - 1)
           B == Put(positions, some, by, n)
           K == Swap(positions[n], by[n])
           at(x) == CHOOSE m \in some : positions[m] = x
<1>1. /\ Len(positions) \in Nat
      /\ \A m \in 1..Len(positions) : positions[m] \in Names /\ by[m] \in Text
      /\ \A m, k \in 1..Len(positions) : positions[m] = positions[k] => m = k
  BY PlainTexts, LenProperties DEF Distinct
<1>2. \A m \in some : m \in 1..Len(positions) /\ at(positions[m]) = m
  BY <1>1
<1>3. \A x \in Tokens, m \in some : positions[m] = x => at(x) = m /\ by[m] \in Text
  BY <1>1, <1>2
<1>4. /\ \A x \in Tokens, m \in some : m <= n - 1 /\ positions[m] = x => A[x] = by[m]
      /\ \A x \in Tokens : ~(\E m \in some : m <= n - 1 /\ positions[m] = x) => A[x] = <<x>>
  BY <1>3 DEF Put
<1>5. /\ \A x \in Tokens, m \in some : m <= n /\ positions[m] = x => B[x] = by[m]
      /\ \A x \in Tokens : ~(\E m \in some : m <= n /\ positions[m] = x) => B[x] = <<x>>
  BY <1>3 DEF Put
<1>6. /\ A = [x \in Tokens |-> A[x]]
      /\ B = [x \in Tokens |-> B[x]]
  BY DEF Put
<1>7. IsMap(K) /\ \A x \in Tokens : K[x] = IF x = positions[n] THEN by[n] ELSE <<x>>
  <2>1. <<>> \in Text
    BY EmptySeq DEF Text
  <2>2. IsMap(K)
    BY <1>1, <2>1, ReplaceMaps
  <2> QED
    BY <2>2 DEF Swap
<1> HIDE DEF A, B, K, at
<1>8. IsMap(A)
  <2>1. \A x \in Tokens : A[x] \in Text
    BY <1>3, <1>4, SingleToken
  <2> QED
    BY <1>6, <2>1 DEF IsMap
<1>9. ASSUME n \in some PROVE After(A, K) = B
  <2>1. ASSUME NEW x \in Tokens PROVE Mapped(A[x], K) = B[x]
    <3>1. CASE \E m \in some : m <= n - 1 /\ positions[m] = x
      <4>1. PICK m \in some : m <= n - 1 /\ positions[m] = x
        BY <3>1
      <4>2. A[x] = by[m] /\ B[x] = by[m]
        BY <1>1, <1>2, <1>4, <1>5, <4>1
      <4>3. by[m] \in Plain
        BY <1>2
      <4>4. \A k \in 1..Len(by[m]) : by[m][k] \in Tokens /\ by[m][k] # positions[n]
        BY <1>1, <4>3, PlainTexts DEF Tokens
      <4>5. \A k \in 1..Len(by[m]) : K[by[m][k]] = <<by[m][k]>>
        BY <1>7, <4>4
      <4>6. by[m] \in Text
        BY <4>3, PlainTexts
      <4>7. Mapped(by[m], K) = by[m]
        BY <1>7, <4>5, <4>6, MappedSame
      <4> QED
        BY <4>2, <4>7
    <3>2. CASE ~\E m \in some : m <= n - 1 /\ positions[m] = x
      <4>1. A[x] = <<x>> /\ Mapped(A[x], K) = K[x]
        BY <1>4, <1>7, <3>2, MappedOne
      <4>2. CASE x = positions[n]
        BY <1>5, <1>7, <1>9, <4>1, <4>2
      <4>3. CASE x # positions[n]
        <5>1. ~\E m \in some : m <= n /\ positions[m] = x
          BY <1>2, <3>2, <4>3
        <5> QED
          BY <1>5, <1>7, <4>1, <4>3, <5>1
      <4> QED
        BY <4>2, <4>3
    <3> QED
      BY <3>1, <3>2
  <2> QED
    BY <1>6, <2>1 DEF After
<1>10. ASSUME n \notin some PROVE A = B
  <2>1. ASSUME NEW x \in Tokens PROVE A[x] = B[x]
    <3>1. \A m \in some : m <= n <=> m <= n - 1
      BY <1>2, <1>10
    <3> QED
      BY <1>4, <1>5, <3>1
  <2> QED
    BY <1>6, <2>1
<1> QED
  BY <1>8, <1>9, <1>10 DEF A, B, K

\* All markers filled in one after the other are mapped at once.
LEMMA Filling ==
    ASSUME NEW text \in Text, NEW positions, Distinct(positions),
           NEW some \in SUBSET (1..Len(positions)),
           NEW by, \A n \in 1..Len(positions) : by[n] \in Plain
    PROVE  Filled(text, positions, some, by)
               = Mapped(text, Put(positions, some, by, Len(positions)))
<1> DEFINE L == Len(positions)
           P(m) == Put(positions, some, by, m)
           g == [n \in 0..L |-> Mapped(text, P(n))]
           f == CHOOSE f : Fills(f, text, positions, some, by)
<1>1. L \in Nat /\ \A n \in 1..L : positions[n] \in Names /\ by[n] \in Text
  BY PlainTexts, LenProperties DEF Distinct
<1>2. g[0] = text
  <2>1. \A x \in Tokens : P(0)[x] = <<x>>
    BY DEF Put
  <2>2. P(0) \in [Tokens -> Text]
    <3>1. P(0) = [x \in Tokens |-> P(0)[x]]
      BY DEF Put
    <3> HIDE DEF P
    <3> QED
      BY <2>1, <3>1, SingleToken
  <2>3. \A n \in 1..Len(text) : text[n] \in Tokens
    BY LenProperties DEF Text
  <2>4. Mapped(text, P(0)) = text
    <3> HIDE DEF P
    <3> QED
      BY <2>1, <2>2, <2>3, MappedSame DEF IsMap
  <2> QED
    BY <1>1, <2>4
<1>3. ASSUME NEW n \in 1..L
      PROVE  g[n] = IF n \in some THEN Replace(g[n - 1], positions[n], by[n]) ELSE g[n - 1]
  <2>1. n \in 0..L /\ n - 1 \in 0..L
    BY <1>1
  <2>2. g[n] = Mapped(text, P(n)) /\ g[n - 1] = Mapped(text, P(n - 1))
    BY <2>1
  <2>3. /\ IsMap(P(n - 1))
        /\ n \in some => After(P(n - 1), Swap(positions[n], by[n])) = P(n)
        /\ n \notin some => P(n - 1) = P(n)
    BY PutStep
  <2> HIDE DEF g, P
  <2>4. CASE n \in some
    <3>1. g[n - 1] \in Text
      BY <2>2, <2>3, MappedType
    <3>2. /\ IsMap(Swap(positions[n], by[n]))
          /\ Replace(g[n - 1], positions[n], by[n]) = Mapped(g[n - 1], Swap(positions[n], by[n]))
      BY <1>1, <3>1, ReplaceMaps
    <3>3. Mapped(g[n - 1], Swap(positions[n], by[n])) = Mapped(text, P(n))
      BY <2>2, <2>3, <2>4, <3>2, MappedTwice
    <3> QED
      BY <2>2, <2>4, <3>2, <3>3
  <2>5. CASE n \notin some
    BY <2>2, <2>3, <2>5
  <2> QED
    BY <2>4, <2>5
<1>4. Fills(g, text, positions, some, by)
  <2>1. g = [n \in 0..L |-> g[n]]
    OBVIOUS
  <2>2. \A n \in 0..L : n = 0 \/ n \in 1..L
    BY <1>1
  <2>3. \A n \in 0..L : g[n] = IF n = 0 THEN text
            ELSE IF n \in some THEN Replace(g[n - 1], positions[n], by[n]) ELSE g[n - 1]
    <3> HIDE DEF g
    <3> QED
      BY <1>2, <1>3, <2>2
  <2> HIDE DEF g
  <2> QED
    BY <2>1, <2>3 DEF Fills
<1>5. Fills(f, text, positions, some, by)
  <2> HIDE DEF g
  <2> QED
    BY <1>4
<1> HIDE DEF f
<1>6. /\ f[0] = text
      /\ \A n \in 1..L :
            f[n] = IF n \in some THEN Replace(f[n - 1], positions[n], by[n]) ELSE f[n - 1]
  BY <1>1, <1>5 DEF Fills
<1> HIDE DEF g
<1> DEFINE G == {n \in 0..L : f[n] = g[n]}
<1>7. 0 \in G
  BY <1>1, <1>2, <1>6
<1>8. \A n \in 1..L : n - 1 \in G => n \in G
  BY <1>1, <1>3, <1>6
<1> HIDE DEF G
<1>9. \A n \in 0..L : n \in G
  BY <1>1, <1>7, <1>8, Upto
<1>10. f[L] = g[L]
  BY <1>1, <1>9 DEF G
<1>11. g[L] = Mapped(text, P(L))
  BY <1>1 DEF g
<1> QED
  BY <1>10, <1>11, FilledIs DEF f

\* What Substituted computes.
Sub(f) == [x \in Tokens |-> IF x \in DOMAIN f THEN f[x] ELSE <<x>>]

\* The template is a text.
LEMMA TemplateText == Template \in Text /\ Names \subseteq Tokens /\ Literals \subseteq Tokens
BY PayloadAssumption DEF Text, Tokens

\* Substituted maps the template.
LEMMA SubstitutedMaps == \A f : Substituted(f) = Mapped(Template, Sub(f))
<1> SUFFICES ASSUME NEW f PROVE Substituted(f) = Mapped(Template, Sub(f))
  OBVIOUS
<1>1. \A n \in DOMAIN Template : Template[n] \in Tokens
  BY TemplateText DEF Text
<1>2. PiecesOf(Template, Sub(f)) =
        [n \in DOMAIN Template |->
            IF Template[n] \in DOMAIN f THEN f[Template[n]] ELSE <<Template[n]>>]
  BY <1>1 DEF PiecesOf, Sub
<1> QED
  BY <1>2 DEF Mapped, Substituted

\* The markers of all positions replaced are the texts put for the names.
LEMMA FillAll ==
    ASSUME NEW positions, Distinct(positions),
           NEW by, \A n \in 1..Len(positions) : by[n] \in Plain,
           NEW f, DOMAIN f = ToSet(positions), \A n \in 1..Len(positions) : f[positions[n]] = by[n]
    PROVE  Filled(Template, positions, DOMAIN positions, by) = Substituted(f)
<1> DEFINE L == Len(positions)
           P == Put(positions, 1..L, by, L)
<1>1. L \in Nat /\ DOMAIN positions = 1..L
  BY LenProperties DEF Distinct
<1>2. P = Sub(f)
  <2>1. ASSUME NEW x \in Tokens PROVE P[x] = Sub(f)[x]
    <3>1. CASE x \in ToSet(positions)
      <4>1. PICK n \in 1..L : positions[n] = x
        BY <1>1, <3>1 DEF ToSet
      <4>2. (CHOOSE m \in 1..L : positions[m] = x) = n
        BY <4>1 DEF Distinct
      <4>3. P[x] = by[n]
        BY <1>1, <4>1, <4>2 DEF Put
      <4> QED
        BY <3>1, <4>1, <4>3 DEF Sub
    <3>2. CASE x \notin ToSet(positions)
      BY <1>1, <3>2 DEF ToSet, Put, Sub
    <3> QED
      BY <3>1, <3>2
  <2> QED
    BY <2>1 DEF Put, Sub
<1> HIDE DEF P
<1>3. Filled(Template, positions, 1..L, by) = Mapped(Template, P)
  BY TemplateText, Filling DEF P
<1> QED
  BY <1>1, <1>2, <1>3, SubstitutedMaps

\* A payload at one position, the other markers emptied.
LEMMA FillOne ==
    ASSUME NEW positions, Distinct(positions), NEW k \in 1..Len(positions), NEW payload \in Plain
    PROVE  LET others == {n \in DOMAIN positions : positions[n] # positions[k]}
               none == [n \in DOMAIN positions |-> <<>>]
           IN  Filled(Replace(Template, positions[k], payload), positions, others, none)
                 = Substituted([q \in ToSet(positions) |->
                                  IF q = positions[k] THEN payload ELSE <<>>])
<1> DEFINE L == Len(positions)
           p == positions[k]
           others == {n \in DOMAIN positions : positions[n] # p}
           none == [n \in DOMAIN positions |-> <<>>]
           P == Put(positions, others, none, L)
           K == Swap(p, payload)
           f == [q \in ToSet(positions) |-> IF q = p THEN payload ELSE <<>>]
<1>1. L \in Nat /\ DOMAIN positions = 1..L /\ \A n \in 1..L : positions[n] \in Names
  BY LenProperties DEF Distinct
<1>2. payload \in Text /\ p \in Names /\ others \in SUBSET (1..L)
  BY <1>1, PlainTexts
<1>3. \A n \in 1..L : none[n] \in Plain /\ none[n] = <<>>
  BY <1>1, EmptySeq DEF Plain
<1>4. /\ \A x \in Tokens : x \in ToSet(positions) /\ x # p => P[x] = <<>>
      /\ \A x \in Tokens : x \notin ToSet(positions) \/ x = p => P[x] = <<x>>
  <2>1. ASSUME NEW x \in Tokens, x \in ToSet(positions), x # p PROVE P[x] = <<>>
    <3>1. \E n \in others : n <= L /\ positions[n] = x
      BY <1>1, <2>1 DEF ToSet
    <3>2. none[CHOOSE n \in others : positions[n] = x] = <<>>
      BY <1>3, <3>1, <1>2
    <3> QED
      BY <3>1, <3>2 DEF Put
  <2>2. ASSUME NEW x \in Tokens, x \notin ToSet(positions) \/ x = p PROVE P[x] = <<x>>
    BY <2>2 DEF ToSet, Put
  <2> QED
    BY <2>1, <2>2
<1>5. IsMap(P)
  <2>1. P = [x \in Tokens |-> P[x]]
    BY DEF Put
  <2>2. <<>> \in Text
    BY EmptySeq DEF Text
  <2> HIDE DEF P
  <2>3. \A x \in Tokens : P[x] \in Text
    BY <1>4, <2>2, SingleToken
  <2> QED
    BY <2>1, <2>3 DEF IsMap
<1> HIDE DEF others, none, P, p
<1>6. IsMap(K) /\ Replace(Template, p, payload) = Mapped(Template, K)
  BY <1>2, TemplateText, ReplaceMaps
<1>7. Mapped(Template, K) \in Text
  BY <1>6, TemplateText, MappedType
<1>8. Filled(Mapped(Template, K), positions, others, none) = Mapped(Mapped(Template, K), P)
  BY <1>2, <1>3, <1>7, Filling DEF P
<1>9. Mapped(Mapped(Template, K), P) = Mapped(Template, After(K, P))
  BY <1>5, <1>6, TemplateText, MappedTwice
<1>10. After(K, P) = Sub(f)
  <2>1. ASSUME NEW x \in Tokens PROVE Mapped(K[x], P) = Sub(f)[x]
    <3>1. CASE x = p
      <4>1. K[x] = payload /\ p \in ToSet(positions)
        BY <1>1, <3>1 DEF Swap, ToSet, p
      <4>2. \A n \in 1..Len(payload) : payload[n] \in Tokens /\ payload[n] \notin ToSet(positions)
        BY <1>1, PlainTexts, TemplateText DEF ToSet
      <4>3. \A n \in 1..Len(payload) : P[payload[n]] = <<payload[n]>>
        BY <1>4, <4>2
      <4>4. Mapped(payload, P) = payload
        BY <1>2, <1>5, <4>3, MappedSame
      <4>5. Sub(f)[x] = payload
        BY <3>1, <4>1 DEF Sub
      <4> QED
        BY <4>1, <4>4, <4>5
    <3>2. CASE x # p
      <4>1. K[x] = <<x>> /\ Mapped(<<x>>, P) = P[x]
        <5>1. K[x] = <<x>>
          BY <3>2 DEF Swap
        <5> QED
          BY <1>5, <5>1, MappedOne
      <4>2. Sub(f)[x] = IF x \in ToSet(positions) THEN <<>> ELSE <<x>>
        BY <3>2 DEF Sub
      <4> QED
        BY <1>4, <3>2, <4>1, <4>2
    <3> QED
      BY <3>1, <3>2
  <2> HIDE DEF K, f
  <2> QED
    BY <2>1 DEF After, Sub
<1>11. Substituted(f) = Mapped(Template, Sub(f))
  BY SubstitutedMaps
<1> HIDE DEF f, K
<1>12. Filled(Replace(Template, p, payload), positions, others, none) = Substituted(f)
  BY <1>6, <1>8, <1>9, <1>10, <1>11
<1> QED
  BY <1>12 DEF others, none, f, p

----------------------------------------------------------------------------
\* Combinations counted

\* Multiples are a factor apart.
LEMMA Times == ASSUME NEW L \in Nat, NEW x \in Nat, NEW y \in Nat, x < y PROVE x * L + L <= y * L
<1>1. PICK z \in Nat : y = x + 1 + z
  <2>1. y - x - 1 \in Nat /\ y = x + 1 + (y - x - 1)
    OBVIOUS
  <2> QED
    BY <2>1
<1>2. y * L = x * L + L + z * L /\ z * L >= 0
  BY <1>1
<1>3. x * L \in Nat
  OBVIOUS
<1> QED
  BY <1>2, <1>3

\* Division takes a digit off.
LEMMA Divided ==
    ASSUME NEW L \in Nat \ {0}, NEW x \in Nat, NEW d \in 0..(L - 1)
    PROVE (x * L + d) \div L = x /\ (x * L + d) % L = d
<1> DEFINE a == x * L + d
           q == a \div L
           r == a % L
<1>1. a \in Nat
  OBVIOUS
<1> HIDE DEF a
<1>2. q \in Nat /\ r \in 0..(L - 1) /\ a = L * q + r
  BY <1>1
<1> HIDE DEF q, r
<1>3. a = q * L + r /\ q * L \in Nat /\ x * L \in Nat
  BY <1>2
<1>4. ~(q < x)
  <2> SUFFICES ASSUME q < x PROVE FALSE
    OBVIOUS
  <2>1. q * L + L <= x * L
    BY <1>2, Times
  <2> QED
    BY <2>1, <1>2, <1>3 DEF a
<1>5. ~(x < q)
  <2> SUFFICES ASSUME x < q PROVE FALSE
    OBVIOUS
  <2>1. x * L + L <= q * L
    BY <1>2, Times
  <2> QED
    BY <2>1, <1>2, <1>3 DEF a
<1>6. q = x
  BY <1>2, <1>4, <1>5
<1>7. r = d
  BY <1>3, <1>6, <1>2 DEF a
<1> QED
  BY <1>6, <1>7 DEF a, q, r

\* The number of combinations of the first m positions.
Powers(p, m, base) ==
    /\ p \in [0..m -> Nat] /\ p[0] = 1
    /\ \A n \in 1..m : p[n] = p[n - 1] * base

\* The number of combinations is the last of the powers.
LEMMA TotalPower ==
    ASSUME NEW j, Len(j.positions) \in Nat, Len(j.payloads) \in Nat
    PROVE  \E p : Powers(p, Len(j.positions), Len(j.payloads)) /\ Total(j) = p[Len(j.positions)]
<1> DEFINE P == Len(j.positions)
           L == Len(j.payloads)
           step == [x \in (1..P) \X Nat |-> x[2] * L]
           Eq(f) == f = [n \in 0..P |-> IF n = 0 THEN 1 ELSE f[n - 1] * L]
           c == CHOOSE f : Eq(f)
<1>1. step \in [(1..P) \X Nat -> Nat]
  BY Zenon, SMT
<1>2. PICK p : Solves(p, P, Nat, 1, step)
  <2>1. P \in Nat /\ 1 \in Nat
    OBVIOUS
  <2> HIDE DEF step, P
  <2> QED
    BY <1>1, <2>1, Recursion
<1>3. p \in [0..P -> Nat] /\ p[0] = 1
  BY <1>2 DEF Solves
<1>4. ASSUME NEW n \in 1..P PROVE p[n] = p[n - 1] * L
  <2>1. <<n, p[n - 1]>> \in (1..P) \X Nat
    BY <1>3
  <2>2. p[n] = step[<<n, p[n - 1]>>]
    BY <1>2 DEF Solves
  <2> QED
    BY <2>1, <2>2
<1>5. Powers(p, P, L)
  BY <1>3, <1>4 DEF Powers
<1>6. Eq(p)
  <2>1. \A n \in 0..P : p[n] = IF n = 0 THEN 1 ELSE p[n - 1] * L
    BY <1>3, <1>4
  <2> QED
    BY <1>3, <2>1
<1>7. Eq(c)
  <2> HIDE DEF Eq
  <2> QED
    BY <1>6
<1>8. Total(j) = c[P]
  BY DEF Total
<1> HIDE DEF c
<1>9. c[0] = 1 /\ \A n \in 1..P : c[n] = c[n - 1] * L
  BY <1>7
<1> DEFINE G == {n \in 0..P : c[n] = p[n]}
<1>10. 0 \in G
  BY <1>3, <1>9
<1>11. \A n \in 1..P : n - 1 \in G => n \in G
  BY <1>4, <1>9
<1>12. P \in Nat
  OBVIOUS
<1> HIDE DEF G, P, L
<1>13. \A n \in 0..P : n \in G
  BY <1>10, <1>11, <1>12, Upto
<1>14. c[P] = p[P]
  BY <1>12, <1>13 DEF G
<1> QED
  BY <1>5, <1>8, <1>14 DEF P, L

\* The index of a combination as it is divided for position n.
Indexes(c, i, base, n) ==
    /\ c \in [0..(n - 1) -> Nat] /\ c[0] = i
    /\ \A m \in 1..(n - 1) : c[m] = c[m - 1] \div base

\* Digit takes the remainder of the index divided as often as the position says.
LEMMA DigitIs ==
    ASSUME NEW i \in Nat, NEW base \in Nat \ {0}, NEW n \in Nat \ {0}
    PROVE  \E c : Indexes(c, i, base, n) /\ Digit(i, base, n) = c[n - 1] % base
<1> DEFINE N == n - 1
           step == [x \in (1..N) \X Nat |-> x[2] \div base]
           Eq(f) == f = [m \in 0..N |-> IF m = 0 THEN i ELSE f[m - 1] \div base]
           c == CHOOSE f : Eq(f)
<1>0. N \in Nat
  OBVIOUS
<1>1. step \in [(1..N) \X Nat -> Nat]
  <2>1. \A x \in (1..N) \X Nat : x[2] \div base \in Nat
    OBVIOUS
  <2> QED
    BY <2>1
<1>2. PICK p : Solves(p, N, Nat, i, step)
  <2> HIDE DEF step, N
  <2> QED
    BY <1>0, <1>1, Recursion
<1>3. p \in [0..N -> Nat] /\ p[0] = i
  BY <1>2 DEF Solves
<1>4. ASSUME NEW m \in 1..N PROVE p[m] = p[m - 1] \div base
  <2>1. <<m, p[m - 1]>> \in (1..N) \X Nat
    BY <1>3
  <2>2. p[m] = step[<<m, p[m - 1]>>]
    BY <1>2 DEF Solves
  <2> QED
    BY <2>1, <2>2
<1>6. Eq(p)
  <2>1. \A m \in 0..N : p[m] = IF m = 0 THEN i ELSE p[m - 1] \div base
    BY <1>3, <1>4
  <2> QED
    BY <1>3, <2>1
<1>7. Eq(c)
  <2> HIDE DEF Eq
  <2> QED
    BY <1>6
<1>8. Digit(i, base, n) = c[N] % base
  BY DEF Digit
<1> HIDE DEF c
<1>9. c[0] = i /\ (\A m \in 1..N : c[m] = c[m - 1] \div base) /\ c = [m \in 0..N |-> c[m]]
  BY <1>0, <1>7
<1> DEFINE G == {m \in 0..N : c[m] = p[m]}
<1>10. 0 \in G
  BY <1>0, <1>3, <1>9
<1>11. ASSUME NEW m \in 1..N, m - 1 \in G PROVE m \in G
  <2>1. m \in 0..N /\ c[m - 1] = p[m - 1]
    BY <1>0, <1>11
  <2>2. c[m] = c[m - 1] \div base /\ p[m] = p[m - 1] \div base
    BY <1>4, <1>9
  <2>3. c[m] = p[m]
    BY <2>1, <2>2, Zenon
  <2> QED
    BY <2>1, <2>3
<1> HIDE DEF G
<1>13. \A m \in 0..N : m \in G
  <2> HIDE DEF N
  <2> QED
    BY <1>0, <1>10, <1>11, Upto
<1>14. \A m \in 0..N : c[m] = p[m]
  BY <1>13 DEF G
<1>15. Indexes(p, i, base, n) /\ c[N] = p[N]
  BY <1>0, <1>3, <1>4, <1>14 DEF Indexes
<1> QED
  BY <1>8, <1>15

\* A digit is one less than an index of the payloads.
LEMMA DigitRange ==
    ASSUME NEW i \in Nat, NEW base \in Nat \ {0}, NEW n \in Nat \ {0}
    PROVE  Digit(i, base, n) \in 0..(base - 1)
<1>1. PICK c : Indexes(c, i, base, n) /\ Digit(i, base, n) = c[n - 1] % base
  BY DigitIs
<1>2. c[n - 1] \in Nat
  BY <1>1 DEF Indexes
<1> QED
  BY <1>1, <1>2

\* Every choice of payloads for the positions is some combination.
LEMMA DigitsReach ==
    ASSUME NEW P \in Nat, NEW L \in Nat \ {0}, NEW d \in [1..P -> 0..(L - 1)],
           NEW p, Powers(p, P, L)
    PROVE  \E i \in Nat : i < p[P] /\ \A n \in 1..P : Digit(i, L, n) = d[n]
<1> DEFINE step == [x \in (1..P) \X Nat |-> x[2] * L + d[P + 1 - x[1]]]
<1>1. step \in [(1..P) \X Nat -> Nat]
  <2>1. ASSUME NEW x \in (1..P) \X Nat PROVE x[2] * L + d[P + 1 - x[1]] \in Nat
    <3>1. P + 1 - x[1] \in 1..P /\ x[2] \in Nat
      OBVIOUS
    <3>2. d[P + 1 - x[1]] \in Nat /\ x[2] * L \in Nat
      BY <3>1
    <3>3. \A a, b \in Nat : a + b \in Nat
      OBVIOUS
    <3> QED
      BY <3>2, <3>3, Zenon
  <2> QED
    BY <2>1
<1>2. PICK h : Solves(h, P, Nat, 0, step)
  <2>1. 0 \in Nat
    OBVIOUS
  <2> HIDE DEF step
  <2> QED
    BY <1>1, <2>1, Recursion
<1>3. h \in [0..P -> Nat] /\ h[0] = 0
  BY <1>2 DEF Solves
<1>4. ASSUME NEW m \in 1..P PROVE h[m] = h[m - 1] * L + d[P + 1 - m]
  <2>1. <<m, h[m - 1]>> \in (1..P) \X Nat
    BY <1>3
  <2>2. h[m] = step[<<m, h[m - 1]>>]
    BY <1>2 DEF Solves
  <2> QED
    BY <2>1, <2>2
<1> HIDE DEF step
<1>5. p \in [0..P -> Nat] /\ p[0] = 1 /\ \A m \in 1..P : p[m] = p[m - 1] * L
  BY DEF Powers
<1>6. h[P] < p[P]
  <2> DEFINE G == {m \in 0..P : h[m] < p[m]}
  <2>1. 0 \in G
    BY <1>3, <1>5
  <2>2. ASSUME NEW m \in 1..P, m - 1 \in G PROVE m \in G
    <3>1. h[m - 1] \in Nat /\ p[m - 1] \in Nat /\ h[m - 1] < p[m - 1] /\ m \in 0..P
      BY <1>3, <1>5, <2>2
    <3>2. h[m - 1] * L + L <= p[m - 1] * L
      BY <3>1, Times
    <3>3. d[P + 1 - m] \in 0..(L - 1) /\ h[m - 1] * L \in Nat /\ p[m - 1] * L \in Nat
      BY <3>1
    <3>4. h[m - 1] * L + d[P + 1 - m] < p[m - 1] * L
      BY <3>2, <3>3
    <3>5. h[m] < p[m]
      BY <1>4, <1>5, <3>4
    <3> QED
      BY <3>1, <3>5
  <2> HIDE DEF G
  <2>3. \A m \in 1..P : m - 1 \in G => m \in G
    BY <2>2
  <2>4. \A m \in 0..P : m \in G
    BY <2>1, <2>3, Upto
  <2> QED
    BY <2>4 DEF G
<1>7. ASSUME NEW n \in 1..P PROVE Digit(h[P], L, n) = d[n]
  <2>a. h[P] \in Nat /\ n \in Nat \ {0}
    BY <1>3
  <2>1. PICK c : Indexes(c, h[P], L, n) /\ Digit(h[P], L, n) = c[n - 1] % L
    BY <2>a, DigitIs
  <2>2. c[0] = h[P] /\ \A m \in 1..(n - 1) : c[m] = c[m - 1] \div L
    BY <2>1 DEF Indexes
  <2> DEFINE G == {m \in 0..(n - 1) : c[m] = h[P - m]}
  <2>3. 0 \in G
    BY <2>2
  <2>4. ASSUME NEW m \in 1..(n - 1), m - 1 \in G PROVE m \in G
    <3>1. /\ m \in 0..(n - 1) /\ P - (m - 1) \in 1..P /\ (P - (m - 1)) - 1 = P - m
          /\ P - m \in 0..P /\ P + 1 - (P - (m - 1)) = m /\ m \in 1..P
      OBVIOUS
    <3>2. h[P - (m - 1)] = h[P - m] * L + d[m]
      BY <1>4, <3>1
    <3>3. h[P - m] \in Nat /\ d[m] \in 0..(L - 1)
      BY <1>3, <3>1
    <3>4. (h[P - m] * L + d[m]) \div L = h[P - m]
      BY <3>3, Divided
    <3>5. c[m - 1] = h[P - (m - 1)]
      BY <2>4
    <3>6. c[m] = c[m - 1] \div L
      BY <2>2
    <3>7. c[m] = h[P - m]
      BY <3>2, <3>4, <3>5, <3>6, Zenon
    <3> QED
      BY <3>1, <3>7
  <2> HIDE DEF G
  <2>5. n - 1 \in Nat /\ \A m \in 1..(n - 1) : m - 1 \in G => m \in G
    BY <2>4
  <2> DEFINE N == n - 1
  <2> HIDE DEF N
  <2>6. \A m \in 0..N : m \in G
    BY <2>3, <2>5, Upto DEF N
  <2>7. c[n - 1] = h[P - (n - 1)]
    BY <2>5, <2>6 DEF G, N
  <2>8. /\ P - (n - 1) \in 1..P /\ (P - (n - 1)) - 1 = P - n /\ P - n \in 0..P
        /\ P + 1 - (P - (n - 1)) = n
    OBVIOUS
  <2>9. h[P - (n - 1)] = h[P - n] * L + d[n]
    BY <1>4, <2>8
  <2>10. (h[P - n] * L + d[n]) % L = d[n]
    BY <1>3, <2>8, Divided
  <2> QED
    BY <2>1, <2>7, <2>9, <2>10, Zenon
<1>8. h[P] \in Nat
  BY <1>3
<1> QED
  BY <1>6, <1>7, <1>8

----------------------------------------------------------------------------
\* The four kinds

PlainJob(j) ==
    /\ j \in Jobs
    /\ \A i \in DOMAIN j.payloads : ToSet(j.payloads[i]) \cap Names = {}
    /\ IsInjective(j.positions)

TextsOf(requests) == {requests[n].text : n \in DOMAIN requests}

\* A list is a sequence.
LEMMA ListsAreSequences ==
    ASSUME NEW S, NEW max \in Nat, NEW l \in Lists(S, max)
    PROVE  l \in Seq(S) /\ Len(l) \in Nat /\ DOMAIN l = 1..Len(l) /\ \A i \in 1..Len(l) : l[i] \in S
<1>1. PICK n \in 0..max : l \in [1..n -> S]
  BY DEF Lists
<1>2. n \in Nat
  BY <1>1
<1>3. l \in Seq(S)
  BY <1>1, <1>2
<1> QED
  BY <1>3, LenProperties

\* The lists of a job without markers in its payloads and without a name twice.
LEMMA PlainJobs ==
    ASSUME NEW j, PlainJob(j)
    PROVE  /\ Distinct(j.positions)
           /\ Len(j.positions) \in Nat /\ DOMAIN j.positions = 1..Len(j.positions)
           /\ Len(j.payloads) \in Nat /\ DOMAIN j.payloads = 1..Len(j.payloads)
           /\ \A i \in 1..Len(j.payloads) : j.payloads[i] \in Plain
<1>0. /\ j.positions \in Lists(Names, MaxPositions)
      /\ j.payloads \in Lists({<<t>> : t \in Literals \cup Names}, MaxPayloads)
  BY DEF PlainJob, Jobs
<1>a. MaxPayloads \in Nat /\ MaxPositions \in Nat
  BY PayloadAssumption
<1>1. /\ j.positions \in Seq(Names) /\ Len(j.positions) \in Nat
      /\ DOMAIN j.positions = 1..Len(j.positions)
  BY <1>0, <1>a, ListsAreSequences
<1>2. /\ Len(j.payloads) \in Nat /\ DOMAIN j.payloads = 1..Len(j.payloads)
      /\ \A i \in 1..Len(j.payloads) : j.payloads[i] \in {<<t>> : t \in Literals \cup Names}
  BY <1>0, <1>a, ListsAreSequences
<1>3. Distinct(j.positions)
  BY <1>1 DEF PlainJob, IsInjective, Distinct
<1>4. ASSUME NEW i \in 1..Len(j.payloads) PROVE j.payloads[i] \in Plain
  <2>1. PICK t \in Literals \cup Names : j.payloads[i] = <<t>>
    BY <1>2
  <2>2. t \in ToSet(j.payloads[i])
    BY <2>1 DEF ToSet
  <2>3. t \in Literals
    BY <1>2, <2>1, <2>2 DEF PlainJob
  <2> QED
    BY <2>1, <2>3 DEF Plain
<1> QED
  BY <1>1, <1>2, <1>3, <1>4

\* A battering ram and a pitchfork send every payload at all positions.
LEMMA BatteringSends ==
    ASSUME NEW j, PlainJob(j)
    PROVE  /\ TextsOf(generate_battering(j)) =
                  {Substituted([q \in ToSet(j.positions) |-> t]) : t \in ToSet(j.payloads)}
           /\ TextsOf(generate_pitchfork(j)) = TextsOf(generate_battering(j))
           /\ Len(generate_battering(j)) = Len(j.payloads)
           /\ Len(generate_pitchfork(j)) = Len(j.payloads)
<1> DEFINE L == Len(j.payloads)
           all(i) == Filled(Template, j.positions, DOMAIN j.positions, Repeated(j, i))
           each(t) == Substituted([q \in ToSet(j.positions) |-> t])
<1>1. /\ Distinct(j.positions) /\ DOMAIN j.positions = 1..Len(j.positions)
      /\ L \in Nat /\ DOMAIN j.payloads = 1..L /\ \A i \in 1..L : j.payloads[i] \in Plain
  BY PlainJobs
<1>2. ASSUME NEW i \in 1..L PROVE all(i) = each(j.payloads[i])
  <2> DEFINE by == Repeated(j, i)
             f == [q \in ToSet(j.positions) |-> j.payloads[i]]
  <2>1. \A n \in 1..Len(j.positions) : by[n] \in Plain /\ by[n] = j.payloads[i]
    BY <1>1 DEF Repeated
  <2>2. DOMAIN f = ToSet(j.positions) /\ \A n \in 1..Len(j.positions) : f[j.positions[n]] = by[n]
    BY <1>1, <2>1 DEF ToSet
  <2> HIDE DEF by, f
  <2>3. Filled(Template, j.positions, DOMAIN j.positions, by) = Substituted(f)
    BY <1>1, <2>1, <2>2, FillAll
  <2> QED
    BY <2>3 DEF by, f
<1>3. /\ Len(generate_battering(j)) = L /\ Len(generate_pitchfork(j)) = L
  BY <1>1 DEF generate_battering, generate_pitchfork
<1>4. /\ TextsOf(generate_battering(j)) = {all(i) : i \in 1..L}
      /\ TextsOf(generate_pitchfork(j)) = {all(i) : i \in 1..L}
  BY <1>1 DEF TextsOf, generate_battering, generate_pitchfork
<1>5. ToSet(j.payloads) = {j.payloads[i] : i \in 1..L}
  BY <1>1 DEF ToSet
<1> HIDE DEF all, each
<1>6. {all(i) : i \in 1..L} = {each(t) : t \in ToSet(j.payloads)}
  BY <1>2, <1>5
<1> QED
  BY <1>3, <1>4, <1>6 DEF each

\* A cluster bomb sends combinations, and every one if they can be counted.
LEMMA ClusterSends ==
    ASSUME NEW j, PlainJob(j), j.positions # <<>>
    PROVE  /\ TextsOf(generate_cluster_bomb(j)) \subseteq
                  {Substituted(f) : f \in [ToSet(j.positions) -> ToSet(j.payloads)]}
           /\ Total(j) < WordSize =>
                  TextsOf(generate_cluster_bomb(j)) =
                      {Substituted(f) : f \in [ToSet(j.positions) -> ToSet(j.payloads)]}
           /\ Len(generate_cluster_bomb(j)) = Total(j) % WordSize
<1> DEFINE L == Len(j.payloads)
           P == Len(j.positions)
           N == Total(j) % WordSize
           at == ToSet(j.positions)
           with == ToSet(j.payloads)
           combination(i) == [n \in DOMAIN j.positions |-> j.payloads[Digit(i - 1, L, n) + 1]]
           all(i) == Filled(Template, j.positions, DOMAIN j.positions, combination(i))
<1>1. /\ Distinct(j.positions) /\ P \in Nat /\ DOMAIN j.positions = 1..P
      /\ L \in Nat /\ DOMAIN j.payloads = 1..L /\ \A i \in 1..L : j.payloads[i] \in Plain
  BY PlainJobs
<1>2. PICK p : Powers(p, P, L) /\ Total(j) = p[P]
  BY <1>1, TotalPower
<1>3. Total(j) \in Nat /\ N \in Nat /\ (Total(j) < WordSize => N = Total(j))
  <2>1. Total(j) \in Nat
    BY <1>1, <1>2 DEF Powers
  <2> QED
    BY <2>1, PayloadAssumption
<1>4. generate_cluster_bomb(j) = [i \in 1..N |-> [text |-> all(i), used |-> combination(i)]]
  BY DEF generate_cluster_bomb
<1> HIDE DEF all, N
<1>5. /\ Len(generate_cluster_bomb(j)) = N
      /\ TextsOf(generate_cluster_bomb(j)) = {all(i) : i \in 1..N}
  <2>1. DOMAIN generate_cluster_bomb(j) = 1..N
    BY <1>4
  <2>2. Len(generate_cluster_bomb(j)) = N
    BY <1>3, <1>4
  <2>3. \A n \in 1..N : generate_cluster_bomb(j)[n].text = all(n)
    BY <1>4
  <2>4. TextsOf(generate_cluster_bomb(j)) = {all(i) : i \in 1..N}
    BY <2>1, <2>3 DEF TextsOf
  <2> QED
    BY <2>2, <2>4
<1>6. P >= 1 /\ at # {} /\ at = {j.positions[n] : n \in 1..P}
  <2>1. P # 0
    BY <1>1, EmptySeq DEF Distinct
  <2>2. P >= 1 /\ 1 \in 1..P
    BY <1>1, <2>1
  <2>3. at = {j.positions[n] : n \in 1..P}
    BY <1>1 DEF ToSet
  <2>4. at # {}
    <3> HIDE DEF at
    <3> QED
      BY <2>2, <2>3
  <2> QED
    BY <2>2, <2>3, <2>4
<1>7. with = {j.payloads[i] : i \in 1..L}
  BY <1>1 DEF ToSet
<1>8. CASE L = 0
  <2>1. p[P] = p[P - 1] * L /\ p[P - 1] \in Nat
    <3>1. p \in [0..P -> Nat] /\ \A n \in 1..P : p[n] = p[n - 1] * L
      BY <1>2 DEF Powers
    <3>2. P \in 1..P /\ P - 1 \in 0..P
      BY <1>1, <1>6
    <3> HIDE DEF P, L
    <3> QED
      BY <3>1, <3>2
  <2>2. Total(j) = 0 /\ N = 0
    BY <1>2, <1>8, <2>1, PayloadAssumption DEF N
  <2>3. with = {}
    BY <1>7, <1>8
  <2>4. [at -> with] = {}
    <3> HIDE DEF at, with
    <3> QED
      BY <1>6, <2>3
  <2> HIDE DEF at, with
  <2>5. {all(i) : i \in 1..N} = {} /\ {Substituted(f) : f \in [at -> with]} = {}
    BY <2>2, <2>4
  <2> QED
    BY <1>5, <2>5 DEF at, with, N
<1>9. CASE L # 0
  <2>0. L \in Nat \ {0}
    BY <1>1, <1>9
  <2>1. ASSUME NEW i \in 1..N, NEW f, DOMAIN f = at,
               \A n \in 1..P : f[j.positions[n]] = combination(i)[n]
        PROVE  all(i) = Substituted(f)
    <3>1. \A n \in 1..P : Digit(i - 1, L, n) + 1 \in 1..L
      <4>1. ASSUME NEW n \in 1..P PROVE Digit(i - 1, L, n) + 1 \in 1..L
        <5>1. i - 1 \in Nat /\ n \in Nat \ {0}
          BY <1>3
        <5>2. Digit(i - 1, L, n) \in 0..(L - 1)
          BY <2>0, <5>1, DigitRange
        <5> QED
          BY <2>0, <5>2
      <4> QED
        BY <4>1
    <3>2. \A n \in 1..P : combination(i)[n] \in Plain
      BY <1>1, <3>1
    <3> DEFINE by == combination(i)
    <3> HIDE DEF combination, at
    <3>3. Filled(Template, j.positions, DOMAIN j.positions, by) = Substituted(f)
      BY <1>1, <2>1, <3>2, FillAll DEF at
    <3> QED
      BY <3>3 DEF all
  <2>2. ASSUME NEW i \in 1..N PROVE \E f \in [at -> with] : all(i) = Substituted(f)
    <3> DEFINE n(q) == CHOOSE n \in 1..P : j.positions[n] = q
               f == [q \in at |-> combination(i)[n(q)]]
    <3>1. ASSUME NEW m \in 1..P PROVE n(j.positions[m]) = m
      BY <1>1 DEF Distinct
    <3>2. ASSUME NEW m \in 1..P PROVE combination(i)[m] \in with
      <4>1. i - 1 \in Nat /\ m \in Nat \ {0}
        BY <1>3
      <4>2. Digit(i - 1, L, m) \in 0..(L - 1)
        BY <2>0, <4>1, DigitRange
      <4>3. combination(i)[m] = j.payloads[Digit(i - 1, L, m) + 1]
        BY <1>1
      <4> QED
        BY <1>7, <2>0, <4>2, <4>3
    <3> HIDE DEF combination, n
    <3>3. \A m \in 1..P : j.positions[m] \in at /\ f[j.positions[m]] = combination(i)[m]
      BY <1>6, <3>1
    <3>4. f \in [at -> with]
      BY <1>6, <3>1, <3>2
    <3>5. DOMAIN f = at
      OBVIOUS
    <3> HIDE DEF f, at, with
    <3>6. all(i) = Substituted(f)
      BY <2>1, <3>3, <3>5
    <3> QED
      BY <3>4, <3>6
  <2>3. ASSUME Total(j) < WordSize, NEW f \in [at -> with]
        PROVE  \E i \in 1..N : all(i) = Substituted(f)
    <3> DEFINE d == [n \in 1..P |-> CHOOSE k \in 0..(L - 1) : j.payloads[k + 1] = f[j.positions[n]]]
    <3>1. ASSUME NEW n \in 1..P
          PROVE  d[n] \in 0..(L - 1) /\ j.payloads[d[n] + 1] = f[j.positions[n]]
      <4>1. f[j.positions[n]] \in with
        <5> HIDE DEF with
        <5> QED
          BY <1>6
      <4>2. PICK k \in 1..L : j.payloads[k] = f[j.positions[n]]
        BY <1>7, <4>1
      <4>3. k - 1 \in 0..(L - 1) /\ (k - 1) + 1 = k
        BY <2>0
      <4>4. \E m \in 0..(L - 1) : j.payloads[m + 1] = f[j.positions[n]]
        BY <4>2, <4>3
      <4> QED
        BY <4>4
    <3>2. d \in [1..P -> 0..(L - 1)]
      BY <3>1
    <3> HIDE DEF d
    <3>3. PICK i \in Nat : i < p[P] /\ \A n \in 1..P : Digit(i, L, n) = d[n]
      <4> HIDE DEF L, P
      <4> QED
        BY <1>1, <1>2, <2>0, <3>2, DigitsReach
    <3>4. i + 1 \in 1..N /\ (i + 1) - 1 = i
      BY <1>2, <1>3, <2>3, <3>3
    <3>5. \A n \in 1..P : f[j.positions[n]] = combination(i + 1)[n]
      BY <1>1, <3>1, <3>3, <3>4
    <3>6. DOMAIN f = at
      OBVIOUS
    <3> HIDE DEF combination, at, with
    <3>7. all(i + 1) = Substituted(f)
      BY <2>1, <3>4, <3>5, <3>6
    <3> QED
      BY <3>4, <3>7
  <2> HIDE DEF at, with
  <2>4. {all(i) : i \in 1..N} \subseteq {Substituted(f) : f \in [at -> with]}
    BY <2>2
  <2>5. Total(j) < WordSize => {all(i) : i \in 1..N} = {Substituted(f) : f \in [at -> with]}
    BY <2>2, <2>3
  <2> QED
    BY <1>5, <2>4, <2>5 DEF at, with, N
<1> QED
  BY <1>8, <1>9

\* Rows of one length, put together.
Rows(ss, P) == \A n \in 1..Len(ss) : Len(ss[n]) = P

Together(flat, ss, P) ==
    /\ Len(flat) = Len(ss) * P
    /\ \A y : (\E n \in DOMAIN flat : flat[n] = y)
              <=> \E n \in 1..Len(ss), m \in 1..P : ss[n][m] = y

\* Their elements are those of the rows, and as many.
LEMMA RowsTogether ==
    ASSUME NEW S, NEW P \in Nat
    PROVE  \A ss \in Seq(Seq(S)) : Rows(ss, P) => Together(FlattenSeq(ss), ss, P)
<1> DEFINE Whole(ss) == \A y : (\E n \in DOMAIN FlattenSeq(ss) : FlattenSeq(ss)[n] = y)
                               <=> \E n \in 1..Len(ss), m \in 1..P : ss[n][m] = y
           Even(ss) == \A n \in 1..Len(ss) : Len(ss[n]) = P
           G == {ss \in Seq(Seq(S)) : Even(ss) => Len(FlattenSeq(ss)) = Len(ss) * P /\ Whole(ss)}
<1>1. <<>> \in G
  BY FlattenNone
<1>2. ASSUME NEW ss \in Seq(Seq(S)), NEW x \in Seq(S), ss \in G PROVE Append(ss, x) \in G
  <2> DEFINE tt == Append(ss, x)
             L == Len(ss)
  <2>1. /\ L \in Nat /\ tt \in Seq(Seq(S)) /\ Len(tt) = L + 1 /\ tt[L + 1] = x
        /\ \A n \in 1..L : tt[n] = ss[n]
    BY LenProperties, AppendProperties
  <2>2. FlattenSeq(ss) \in Seq(S) /\ FlattenSeq(tt) = FlattenSeq(ss) \o x
    BY FlattenAppend
  <2> HIDE DEF tt, L
  <2> SUFFICES ASSUME Even(tt) PROVE Len(FlattenSeq(tt)) = Len(tt) * P /\ Whole(tt)
    BY <2>1 DEF tt
  <2>3. /\ L + 1 \in 1..Len(tt) /\ \A n \in 1..L : n \in 1..Len(tt)
        /\ \A n \in 1..Len(tt) : n \in 1..L \/ n = L + 1
    BY <2>1
  <2>4. Even(ss) /\ Len(x) = P
    <3>1. Len(x) = P
      BY <2>1, <2>3
    <3>2. \A n \in 1..L : Len(ss[n]) = P
      BY <2>1, <2>3
    <3> QED
      BY <3>1, <3>2 DEF L
  <2> DEFINE a == FlattenSeq(ss)
             b == FlattenSeq(tt)
  <2>5. Len(a) = L * P /\ Whole(ss)
    BY <1>2, <2>4 DEF L
  <2>6. /\ b = a \o x /\ a \in Seq(S) /\ x \in Seq(S)
        /\ DOMAIN a = 1..Len(a) /\ DOMAIN b = 1..Len(b)
        /\ Len(a) \in Nat /\ Len(b) = Len(a) + P
        /\ \A n \in 1..Len(b) : b[n] = IF n <= Len(a) THEN a[n] ELSE x[n - Len(a)]
    BY <2>2, <2>4, ConcatProperties, LenProperties
  <2> HIDE DEF a, b
  <2>7. Len(b) = Len(tt) * P
    <3>1. L * P + P = (L + 1) * P
      BY <2>1
    <3> QED
      BY <2>1, <2>5, <2>6, <3>1
  <2>8. ASSUME NEW y PROVE (\E n \in 1..Len(b) : b[n] = y)
                           <=> (\E n \in 1..Len(a) : a[n] = y) \/ (\E m \in 1..P : x[m] = y)
    <3>1. ASSUME NEW n \in 1..Len(b), b[n] = y
          PROVE  (\E k \in 1..Len(a) : a[k] = y) \/ (\E m \in 1..P : x[m] = y)
      <4>1. CASE n <= Len(a)
        BY <2>6, <3>1, <4>1
      <4>2. CASE n > Len(a)
        <5>1. n - Len(a) \in 1..P /\ b[n] = x[n - Len(a)]
          BY <2>6, <4>2
        <5> QED
          BY <3>1, <5>1
      <4> QED
        BY <2>6, <4>1, <4>2
    <3>2. ASSUME NEW n \in 1..Len(a), a[n] = y PROVE \E k \in 1..Len(b) : b[k] = y
      <4>1. n \in 1..Len(b) /\ b[n] = a[n]
        BY <2>6
      <4> QED
        BY <3>2, <4>1
    <3>3. ASSUME NEW m \in 1..P, x[m] = y PROVE \E k \in 1..Len(b) : b[k] = y
      <4>1. Len(a) + m \in 1..Len(b) /\ ~(Len(a) + m <= Len(a)) /\ (Len(a) + m) - Len(a) = m
        BY <2>6
      <4>2. b[Len(a) + m] = x[m]
        BY <2>6, <4>1
      <4> QED
        BY <3>3, <4>1, <4>2
    <3> QED
      BY <3>1, <3>2, <3>3
  <2>9. ASSUME NEW y PROVE (\E n \in 1..Len(tt), m \in 1..P : tt[n][m] = y)
                           <=> \/ \E n \in 1..L, m \in 1..P : ss[n][m] = y
                               \/ \E m \in 1..P : x[m] = y
    <3>1. ASSUME NEW n \in 1..Len(tt), NEW m \in 1..P, tt[n][m] = y
          PROVE  (\E k \in 1..L, i \in 1..P : ss[k][i] = y) \/ (\E i \in 1..P : x[i] = y)
      BY <2>1, <2>3, <3>1
    <3>2. ASSUME NEW n \in 1..L, NEW m \in 1..P, ss[n][m] = y
          PROVE  \E k \in 1..Len(tt), i \in 1..P : tt[k][i] = y
      BY <2>1, <2>3, <3>2
    <3>3. ASSUME NEW m \in 1..P, x[m] = y
          PROVE  \E k \in 1..Len(tt), i \in 1..P : tt[k][i] = y
      BY <2>1, <2>3, <3>3
    <3> QED
      BY <3>1, <3>2, <3>3
  <2>10. \A y : (\E n \in 1..Len(a) : a[n] = y) <=> \E n \in 1..L, m \in 1..P : ss[n][m] = y
    BY <2>5, <2>6 DEF a, L
  <2>11. \A y : (\E n \in 1..Len(b) : b[n] = y) <=> \E n \in 1..Len(tt), m \in 1..P : tt[n][m] = y
    BY <2>8, <2>9, <2>10, Zenon
  <2>12. Whole(tt)
    BY <2>6, <2>11 DEF b
  <2> QED
    BY <2>7, <2>12 DEF b
<1> HIDE DEF G
<1>3. \A ss \in Seq(Seq(S)) : ss \in G
  BY <1>1, <1>2, Sequencewise
<1> QED
  BY <1>3 DEF G, Rows, Together

\* What a sniper is to send.
SniperTexts(j) ==
    {Substituted([q \in ToSet(j.positions) |-> IF q = p THEN t ELSE <<>>]) :
        p \in ToSet(j.positions), t \in ToSet(j.payloads)}

\* A sniper sends every payload at every position alone.
LEMMA SniperSends ==
    ASSUME NEW j, PlainJob(j)
    PROVE  /\ TextsOf(generate_sniper(j)) = SniperTexts(j)
           /\ Len(generate_sniper(j)) = Len(j.payloads) * Len(j.positions)
<1> DEFINE L == Len(j.payloads)
           P == Len(j.positions)
           at == ToSet(j.positions)
           with == ToSet(j.payloads)
           others(k) == {n \in DOMAIN j.positions : j.positions[n] # j.positions[k]}
           none == [n \in DOMAIN j.positions |-> <<>>]
           text(i, k) == Filled(Replace(Template, j.positions[k], j.payloads[i]),
                                j.positions, others(k), none)
           request(i, k) == [text |-> text(i, k), used |-> <<j.payloads[i]>>]
           each(p, t) == Substituted([q \in at |-> IF q = p THEN t ELSE <<>>])
           ss == [i \in DOMAIN j.payloads |-> [k \in DOMAIN j.positions |-> request(i, k)]]
           S == {request(i, k) : i \in 1..L, k \in 1..P}
           all == generate_sniper(j)
<1>1. /\ Distinct(j.positions) /\ P \in Nat /\ DOMAIN j.positions = 1..P
      /\ L \in Nat /\ DOMAIN j.payloads = 1..L /\ \A i \in 1..L : j.payloads[i] \in Plain
  BY PlainJobs
<1>2. all = FlattenSeq(ss)
  BY DEF generate_sniper
<1>3. \A i \in 1..L, k \in 1..P : text(i, k) = each(j.positions[k], j.payloads[i])
  BY <1>1, FillOne
<1>4. with = {j.payloads[i] : i \in 1..L} /\ at = {j.positions[k] : k \in 1..P}
  BY <1>1 DEF ToSet
<1>5. \A i \in 1..L, k \in 1..P : request(i, k).text = text(i, k)
  OBVIOUS
<1> HIDE DEF text, each, request, all, at, with
<1>6. /\ ss \in Seq(Seq(S)) /\ Len(ss) = L
      /\ \A i \in 1..L : Len(ss[i]) = P /\ \A k \in 1..P : ss[i][k] = request(i, k)
  <2> HIDE DEF L, P
  <2>1. \A i \in 1..L : [k \in 1..P |-> request(i, k)] \in Seq(S)
    <3>1. \A i \in 1..L, k \in 1..P : request(i, k) \in S
      OBVIOUS
    <3> HIDE DEF S
    <3> QED
      BY <1>1, <3>1
  <2>2. ss = [i \in 1..L |-> [k \in 1..P |-> request(i, k)]]
    BY <1>1
  <2>3. ss \in Seq(Seq(S)) /\ Len(ss) = L
    <3> HIDE DEF ss, S
    <3> QED
      BY <1>1, <2>1, <2>2
  <2> QED
    BY <1>1, <2>2, <2>3
<1> HIDE DEF ss, S
<1>7. /\ Len(all) = L * P
      /\ \A y : (\E n \in DOMAIN all : all[n] = y) <=> \E i \in 1..L, k \in 1..P : ss[i][k] = y
  <2>1. P \in Nat /\ Rows(ss, P)
    BY <1>1, <1>6 DEF Rows
  <2> HIDE DEF L, P
  <2>2. Together(FlattenSeq(ss), ss, P)
    BY <1>6, <2>1, RowsTogether
  <2>3. Together(all, ss, P) /\ Len(ss) = L
    BY <1>2, <1>6, <2>2
  <2> QED
    BY <2>3 DEF Together
<1>8. \A y : y \in TextsOf(all) <=> \E i \in 1..L, k \in 1..P : y = text(i, k)
  <2> HIDE DEF L, P
  <2>1. ASSUME NEW n \in DOMAIN all PROVE \E i \in 1..L, k \in 1..P : all[n].text = text(i, k)
    <3>1. PICK i \in 1..L, k \in 1..P : ss[i][k] = all[n]
      BY <1>7
    <3> QED
      BY <1>5, <1>6, <3>1
  <2>2. ASSUME NEW i \in 1..L, NEW k \in 1..P PROVE text(i, k) \in TextsOf(all)
    <3>1. PICK n \in DOMAIN all : all[n] = request(i, k)
      BY <1>6, <1>7
    <3> QED
      BY <1>5, <3>1 DEF TextsOf
  <2> QED
    BY <2>1, <2>2 DEF TextsOf
<1>9. \A y : y \in SniperTexts(j) <=> \E p \in at, t \in with : y = each(p, t)
  BY DEF each, at, with, SniperTexts
<1>10. TextsOf(all) = SniperTexts(j)
  <2> HIDE DEF L, P
  <2>1. \A y : y \in TextsOf(all) <=> y \in SniperTexts(j)
    BY <1>3, <1>4, <1>8, <1>9
  <2> QED
    BY <2>1
<1> QED
  BY <1>7, <1>10 DEF all

----------------------------------------------------------------------------

\* The requests are those of the job.
Made ==
    \/ generated = [is |-> "nothing"]
    \/ /\ job \in Jobs
       /\ generated = IF Panics(job) THEN [is |-> "panic"]
                      ELSE [is |-> "made", requests |-> generate_requests(job)]

\* The requests that are made are complete.
LEMMA MadeIsComplete == Made => AttackIsComplete
<1> DEFINE plain == \A i \in DOMAIN job.payloads : ToSet(job.payloads[i]) \cap Names = {}
           times == CASE job.type = "Sniper" -> Len(job.payloads) * Len(job.positions)
                      [] job.type = "ClusterBomb" -> IF job.positions = <<>> THEN 0 ELSE Total(job)
                      [] OTHER -> Len(job.payloads)
           over == job.type = "ClusterBomb" /\ times >= WordSize
           sent == TextsOf(generated.requests)
<1> SUFFICES ASSUME Made, generated.is # "nothing"
             PROVE  /\ generated.is = "panic" <=> over /\ job.build = "debug"
                    /\ plain /\ IsInjective(job.positions) /\ generated.is = "made" =>
                           /\ IF over THEN sent \subseteq Wanted(job) ELSE sent = Wanted(job)
                           /\ Len(generated.requests) = IF over THEN times % WordSize ELSE times
  BY DEF AttackIsComplete, TextsOf
<1>1. job \in Jobs /\ job.type \in AttackTypes
  BY DEF Made, Jobs
<1>2. over /\ job.build = "debug" <=> Panics(job)
  BY <1>1, PayloadAssumption DEF Panics, Jobs
<1>3. generated.is = "panic" <=> Panics(job)
  BY DEF Made
<1> SUFFICES ASSUME plain, IsInjective(job.positions), generated.is = "made"
             PROVE  /\ IF over THEN sent \subseteq Wanted(job) ELSE sent = Wanted(job)
                    /\ Len(generated.requests) = IF over THEN times % WordSize ELSE times
  BY <1>2, <1>3
<1>4. PlainJob(job)
  BY <1>1 DEF PlainJob
<1>5. generated.requests = generate_requests(job)
  BY DEF Made
<1>6. /\ IF over THEN TextsOf(generate_requests(job)) \subseteq Wanted(job)
         ELSE TextsOf(generate_requests(job)) = Wanted(job)
      /\ Len(generate_requests(job)) = IF over THEN times % WordSize ELSE times
  <2>1. CASE job.type = "Sniper"
    <3>0. ~over
      BY <2>1
    <3>1. generate_requests(job) = generate_sniper(job)
      BY <2>1 DEF generate_requests
    <3>2. Wanted(job) = SniperTexts(job)
      BY <2>1 DEF Wanted, SniperTexts
    <3>3. times = Len(job.payloads) * Len(job.positions)
      BY <2>1
    <3> HIDE DEF times, over
    <3> QED
      BY <1>4, <3>0, <3>1, <3>2, <3>3, SniperSends
  <2>2. CASE job.type = "Battering"
    <3>0. ~over
      BY <2>2
    <3>1. generate_requests(job) = generate_battering(job)
      BY <2>2 DEF generate_requests
    <3>2. Wanted(job) =
              {Substituted([q \in ToSet(job.positions) |-> t]) : t \in ToSet(job.payloads)}
      BY <2>2 DEF Wanted
    <3>3. times = Len(job.payloads)
      BY <2>2
    <3> HIDE DEF times, over
    <3> QED
      BY <1>4, <3>0, <3>1, <3>2, <3>3, BatteringSends
  <2>3. CASE job.type = "Pitchfork"
    <3>0. ~over
      BY <2>3
    <3>1. generate_requests(job) = generate_pitchfork(job)
      BY <2>3 DEF generate_requests
    <3>2. Wanted(job) =
              {Substituted([q \in ToSet(job.positions) |-> t]) : t \in ToSet(job.payloads)}
      BY <2>3 DEF Wanted
    <3>3. times = Len(job.payloads)
      BY <2>3
    <3> HIDE DEF times, over
    <3> QED
      BY <1>4, <3>0, <3>1, <3>2, <3>3, BatteringSends
  <2>4. CASE job.type = "ClusterBomb" /\ job.positions # <<>>
    <3>1. ToSet(job.positions) # {}
      <4>1. Len(job.positions) # 0
        BY <1>4, <2>4, PlainJobs, EmptySeq DEF Distinct
      <4>2. 1 \in DOMAIN job.positions
        BY <1>4, <4>1, PlainJobs
      <4> QED
        BY <4>2 DEF ToSet
    <3>2. Wanted(job) =
              {Substituted(f) : f \in [ToSet(job.positions) -> ToSet(job.payloads)]}
      BY <2>4, <3>1 DEF Wanted
    <3>3. generate_requests(job) = generate_cluster_bomb(job)
      BY <2>4 DEF generate_requests
    <3>4. /\ TextsOf(generate_requests(job)) \subseteq Wanted(job)
          /\ Total(job) < WordSize => TextsOf(generate_requests(job)) = Wanted(job)
          /\ Len(generate_requests(job)) = Total(job) % WordSize
      BY <1>4, <2>4, <3>2, <3>3, ClusterSends
    <3>5. times = Total(job) /\ (over <=> Total(job) >= WordSize)
      BY <2>4
    <3>6. Total(job) \in Nat
      <4>1. Len(job.positions) \in Nat /\ Len(job.payloads) \in Nat
        BY <1>4, PlainJobs
      <4>2. PICK p : /\ Powers(p, Len(job.positions), Len(job.payloads))
                     /\ Total(job) = p[Len(job.positions)]
        BY <4>1, TotalPower
      <4> QED
        BY <4>1, <4>2 DEF Powers
    <3>7. ~over => Total(job) < WordSize /\ Total(job) % WordSize = Total(job)
      <4> HIDE DEF times, over
      <4>1. \A t \in Nat, w \in Nat \ {0} : t < w => t % w = t
        OBVIOUS
      <4>2. WordSize \in Nat \ {0}
        BY PayloadAssumption
      <4>3. ~over => Total(job) < WordSize
        BY <3>5, <3>6, <4>2
      <4> QED
        BY <3>6, <4>1, <4>2, <4>3
    <3> HIDE DEF times, over
    <3> QED
      BY <3>4, <3>5, <3>7
  <2>5. CASE job.type = "ClusterBomb" /\ job.positions = <<>>
    <3>1. ToSet(job.positions) = {}
      BY <2>5 DEF ToSet
    <3>2. generate_requests(job) = <<>>
      BY <2>5 DEF generate_requests, generate_cluster_bomb
    <3>3. TextsOf(<<>>) = {} /\ Len(<<>>) = 0
      BY DEF TextsOf
    <3>4. Wanted(job) = {}
      BY <2>5, <3>1 DEF Wanted
    <3>5. times = 0 /\ ~over
      BY <2>5, PayloadAssumption
    <3> HIDE DEF times, over
    <3> QED
      BY <3>2, <3>3, <3>4, <3>5
  <2> QED
    BY <1>1, <2>1, <2>2, <2>3, <2>4, <2>5 DEF AttackTypes
<1> QED
  BY <1>5, <1>6

\* For every template, all names and any lists, as long as no payload holds a marker
\* and no name stands twice, an attack sends what its kind says and as often; a cluster
\* bomb of more requests than a word can count is a panic in a debug build, and there
\* only, and in a release build some of what was asked for, as many as is left of their
\* number (intruder.rs:181, 212, 233, 267).
THEOREM AttackComplete == PayloadsSpec => []AttackIsComplete
<1>1. PayloadsInit => Made
  BY DEF PayloadsInit, Made
<1>2. Made /\ [PayloadsNext]_payloadVars => Made'
  <2> SUFFICES ASSUME Made, [PayloadsNext]_payloadVars PROVE Made'
    OBVIOUS
  <2>1. CASE GenerateRequests
    BY <2>1 DEF GenerateRequests, Made
  <2>2. CASE UNCHANGED payloadVars
    BY <2>2 DEF payloadVars, Made, Panics, Total
  <2> QED
    BY <2>1, <2>2 DEF PayloadsNext
<1>3. PayloadsSpec => []Made
  BY <1>1, <1>2, PTL DEF PayloadsSpec
<1> QED
  BY <1>3, MadeIsComplete, PTL
=============================================================================
