--------------------------- MODULE ScannerProofs ---------------------------
(***************************************************************************)
(* The types of the scanner, the bound on the targets under test and the   *)
(* ledger of its counters, for any number of scans, targets, payloads and  *)
(* proxy tasks and any concurrency.                                        *)
(***************************************************************************)
EXTENDS Scanner, FiniteSetTheorems, TLAPS

Tests == [scan : Scans, target : Nat, done : 0..Payloads, at : {"check", "sent", "found", "count"}]
Drivers == [at : Stages, size : Nat, permits : Nat, next : Nat]
Passives == [at : {"idle", "rules", "store"}, hits : 0..MaxHits]

\* A payload that is under way is one of the payloads.
PayloadsLeft == \A t \in tests : t.at # "check" => t.done < Payloads

\* A scan that was not started has no driver and no tests.
Fresh == \A s \in Scans : s > scans => driver[s].at = "unborn" /\ TestsOf(s) = {}

TypeInv == TypeOK /\ PayloadsLeft

\* A step of a test leaves it in its scan, a test still, with payloads left.
LEMMA MoveTypes ==
    ASSUME TypeInv, NEW t \in tests, NEW u \in Tests, Move(t, u),
           u.at # "check" => u.done < Payloads
    PROVE  tests' \subseteq Tests /\ PayloadsLeft'
BY DEF TypeInv, TypeOK, Tests, PayloadsLeft, Move

LEMMA WorkTypes ==
    ASSUME TypeInv, NEW t \in tests, Work(t)
    PROVE  TypeInv'
<1>1. /\ t \in Tests /\ Payloads \in Nat
      /\ t.done \in 0..Payloads /\ t.scan \in Scans /\ t.target \in Nat
      /\ t.at # "check" => t.done + 1 \in 0..Payloads
  BY ScanAssumption DEF TypeInv, TypeOK, Tests, PayloadsLeft
<1>2. /\ {findings, found, scanned} \subseteq Nat
      /\ UNCHANGED <<running, scans, driver, callVars>>
  BY DEF Work, Test, Judge, CountFinding, CountRequest, TypeInv, TypeOK
<1>3. {findings', found', scanned'} \subseteq Nat
  BY <1>2 DEF Work, Test, Judge, CountFinding, CountRequest
<1>4. tests' \subseteq Tests /\ PayloadsLeft'
  <2>1. CASE Test(t)
    <3>1. CASE t.done < Payloads /\ Move(t, [t EXCEPT !.at = "sent"])
      BY <1>1, <3>1, MoveTypes DEF Tests
    <3>2. CASE tests' = tests \ {t}
      BY <3>2 DEF TypeInv, TypeOK, Tests, PayloadsLeft
    <3> QED
      BY <2>1, <3>1, <3>2 DEF Test
  <2>2. CASE Judge(t)
    <3>1. t.at # "check" /\ t.done < Payloads
      BY <2>2 DEF Judge, TypeInv, PayloadsLeft
    <3>2. [t EXCEPT !.at = "found"] \in Tests /\ [t EXCEPT !.at = "count"] \in Tests
      BY <1>1 DEF Tests
    <3>3. [t EXCEPT !.at = "found"].done < Payloads /\ [t EXCEPT !.at = "count"].done < Payloads
      BY <1>1, <3>1 DEF Tests
    <3>4. CASE tests' = tests \ {t}
      BY <3>4 DEF TypeInv, TypeOK, Tests, PayloadsLeft
    <3>5. \/ Move(t, [t EXCEPT !.at = "found"])
          \/ Move(t, [t EXCEPT !.at = "count"])
          \/ tests' = tests \ {t}
      BY <2>2 DEF Judge
    <3> QED
      BY <3>2, <3>3, <3>4, <3>5, MoveTypes
  <2>3. CASE CountFinding(t)
    <3>1. t.done < Payloads
      BY <2>3 DEF CountFinding, TypeInv, PayloadsLeft
    <3> QED
      BY <1>1, <2>3, <3>1, MoveTypes DEF CountFinding, Tests
  <2>4. CASE CountRequest(t)
    <3>1. t.at # "check"
      BY <2>4 DEF CountRequest
    <3> QED
      BY <1>1, <2>4, <3>1, MoveTypes DEF CountRequest, Tests
  <2> QED
    BY <2>1, <2>2, <2>3, <2>4 DEF Work
<1> QED
  BY <1>2, <1>3, <1>4 DEF TypeInv, TypeOK, Tests, callVars

LEMMA DriveTypes ==
    ASSUME TypeInv, NEW s \in Scans, Drive(s)
    PROVE  TypeInv'
<1>1. /\ driver \in [Scans -> Drivers] /\ tests \subseteq Tests
      /\ driver[s] \in Drivers
  BY DEF TypeInv, TypeOK, Drivers, Tests
<1>2. driver' \in [Scans -> Drivers]
  <2>1. \A at \in Stages, n \in Nat : [driver[s] EXCEPT !.at = at, !.next = n] \in Drivers
    BY <1>1 DEF Drivers
  <2>2. \A at \in Stages : [driver[s] EXCEPT !.at = at] \in Drivers
    BY <1>1 DEF Drivers
  <2>3. driver[s].next + 1 \in Nat
    BY <1>1 DEF Drivers
  <2>4. {"check", "acquire", "spawn", "ended", "leave", "panicked"} \subseteq Stages
    BY DEF Stages
  <2>5. CASE Spawn(s)
    BY <1>1, <2>1, <2>3, <2>4, <2>5 DEF Spawn
  <2>6. CASE Begin(s)
    BY <1>1, <2>2, <2>4, <2>6 DEF Begin
  <2>7. CASE Check(s)
    BY <1>1, <2>2, <2>4, <2>7 DEF Check
  <2>8. CASE Acquire(s) \/ Leave(s)
    BY <1>1, <2>2, <2>4, <2>8 DEF Acquire, Leave
  <2> QED
    BY <2>5, <2>6, <2>7, <2>8 DEF Drive
<1>3. tests' \subseteq Tests /\ PayloadsLeft'
  <2>1. CASE Spawn(s)
    <3> DEFINE new == [scan |-> s, target |-> driver[s].next, done |-> 0, at |-> "check"]
    <3>1. new \in Tests /\ new.at = "check"
      BY <1>1, ScanAssumption DEF Tests, Drivers
    <3>2. tests' = tests \cup {new}
      BY <2>1 DEF Spawn
    <3> QED
      BY <1>1, <3>1, <3>2 DEF TypeInv, PayloadsLeft
  <2>2. CASE tests' = tests
    BY <1>1, <2>2 DEF TypeInv, PayloadsLeft
  <2> QED
    BY <2>1, <2>2 DEF Drive, Begin, Check, Acquire, Leave
<1>4. /\ running' \in BOOLEAN
      /\ UNCHANGED <<scans, callVars, findings, found, scanned>>
  BY DEF Drive, Begin, Check, Acquire, Spawn, Leave, TypeInv, TypeOK
<1> QED
  BY <1>2, <1>3, <1>4 DEF TypeInv, TypeOK, Tests, Drivers, callVars

LEMMA PassiveTypes ==
    ASSUME TypeInv, NEW p \in Proxies, Passive(p)
    PROVE  TypeInv'
<1>1. /\ passive \in [Proxies -> Passives]
      /\ passive[p] \in Passives /\ passive[p].hits \in 0..MaxHits
      /\ passive[p].at \in {"idle", "rules", "store"} /\ MaxHits \in Nat
  BY ScanAssumption DEF TypeInv, TypeOK, Passives
<1>2. passive' \in [Proxies -> Passives]
  <2>1. NotScanning \in Passives
    BY <1>1 DEF NotScanning, Passives
  <2>2. \A at \in {"idle", "rules", "store"} : [passive[p] EXCEPT !.at = at] \in Passives
    BY <1>1 DEF Passives
  <2>3. passive[p].hits < MaxHits => [passive[p] EXCEPT !.hits = passive[p].hits + 1] \in Passives
    BY <1>1 DEF Passives
  <2> QED
    BY <1>1, <2>1, <2>2, <2>3 DEF Passive, PassiveBegin, PassiveHit, PassiveCount, PassiveStore
<1>3. /\ {findings', found', scanned', seen'} \subseteq Nat
      /\ UNCHANGED <<running, activeVars, clearer, cleared>>
  BY <1>1 DEF Passive, PassiveBegin, PassiveHit, PassiveCount, PassiveStore, TypeInv, TypeOK
<1> QED
  BY <1>2, <1>3 DEF TypeInv, TypeOK, Passives, activeVars, PayloadsLeft

LEMMA StepTypes == TypeInv /\ [Next]_vars => TypeInv'
<1> SUFFICES ASSUME TypeInv, [Next]_vars PROVE TypeInv'
  OBVIOUS
<1>1. CASE Start
  <2>1. scans + 1 \in 0..MaxScans /\ scans + 1 \in Scans
    BY <1>1, ScanAssumption DEF Start, TypeInv, TypeOK, Scans
  <2>2. \A n \in Sizes[scans + 1], c \in Concurrencies :
            [at |-> "begin", size |-> n, permits |-> c, next |-> 1] \in Drivers
    BY <2>1, ConfigAssumption DEF Drivers, Stages, Scans
  <2>3. driver' \in [Scans -> Drivers]
    BY <1>1, <2>1, <2>2 DEF Start, TypeInv, TypeOK, Drivers
  <2> QED
    BY <1>1, <2>1, <2>3 DEF Start, TypeInv, TypeOK, PayloadsLeft, Drivers, callVars
<1>2. CASE Stop
  BY <1>2 DEF Stop, activeVars, callVars, TypeInv, TypeOK, PayloadsLeft
<1>3. CASE ClearFindings
  BY <1>3 DEF ClearFindings, activeVars, TypeInv, TypeOK, PayloadsLeft
<1>4. CASE ClearCount
  BY <1>4 DEF ClearCount, activeVars, TypeInv, TypeOK, PayloadsLeft
<1>5. CASE UNCHANGED vars
  BY <1>5 DEF vars, activeVars, callVars, TypeInv, TypeOK, PayloadsLeft
<1> QED
  BY <1>1, <1>2, <1>3, <1>4, <1>5, DriveTypes, WorkTypes, PassiveTypes DEF Next

LEMMA InitTypes == Init => TypeInv
<1> SUFFICES ASSUME Init PROVE TypeInv
  OBVIOUS
<1>1. Unborn \in Drivers /\ NotScanning \in Passives /\ 0 \in 0..MaxScans
  BY ScanAssumption DEF Unborn, NotScanning, Drivers, Stages, Passives
<1>2. driver \in [Scans -> Drivers] /\ passive \in [Proxies -> Passives]
  BY <1>1 DEF Init
<1>3. tests = {}
  BY DEF Init
<1>4. {running, cleared} \subseteq BOOLEAN
  BY Zenon DEF Init
<1>7. {findings, found, scanned, seen} \subseteq Nat
  BY DEF Init
<1>5. scans \in 0..MaxScans /\ clearer \in {"idle", "reset"}
  BY <1>1 DEF Init
<1>6. tests \subseteq Tests /\ PayloadsLeft
  BY <1>3 DEF PayloadsLeft
<1> QED
  BY <1>2, <1>4, <1>5, <1>6, <1>7 DEF TypeInv, TypeOK, Drivers, Passives, Tests

\* Every reachable state has the expected types (mod.rs:59).
THEOREM ScannerTypes == Spec => []TypeOK
<1>1. TypeInv => TypeOK
  BY DEF TypeInv
<1> QED
  BY <1>1, InitTypes, StepTypes, PTL DEF Spec

----------------------------------------------------------------------------
\* The bound

BoundInv == TypeInv /\ Fresh /\ IsFiniteSet(tests) /\ ScanBound

LEMMA FiniteTests ==
    ASSUME IsFiniteSet(tests), NEW s
    PROVE  IsFiniteSet(TestsOf(s)) /\ Cardinality(TestsOf(s)) \in Nat
<1>1. TestsOf(s) \subseteq tests
  BY DEF TestsOf
<1> QED
  BY <1>1, FS_Subset, FS_CardinalityType

\* A step of a driver.
LEMMA DriveBound ==
    ASSUME BoundInv, NEW s \in Scans, Drive(s)
    PROVE  Fresh' /\ IsFiniteSet(tests)' /\ ScanBound'
<1>0. /\ TypeOK /\ Fresh /\ ScanBound /\ IsFiniteSet(tests)
      /\ scans' = scans
  BY DEF BoundInv, TypeInv, Drive, Begin, Check, Acquire, Spawn, Leave
<1>1. driver[s].at # "unborn" /\ ~(s > scans)
  BY <1>0 DEF Fresh, Drive, Begin, Check, Acquire, Spawn, Leave
<1>2. \A r \in Scans \ {s} : driver'[r] = driver[r] /\ TestsOf(r)' = TestsOf(r)
  BY <1>0 DEF Drive, Begin, Check, Acquire, Spawn, Leave, TestsOf, TypeOK
<1>3. Fresh'
  BY <1>0, <1>1, <1>2 DEF Fresh
<1>4. \A r \in Scans \ {s} : (PermitsTaken(r) <= driver[r].permits)'
  BY <1>0, <1>2 DEF ScanBound, PermitsTaken
<1>5. Cardinality(TestsOf(s)) \in Nat /\ driver[s].permits \in Nat
  BY <1>0, FiniteTests DEF TypeOK
<1>6. IsFiniteSet(tests)' /\ (PermitsTaken(s) <= driver[s].permits)'
  <2>1. CASE Begin(s) \/ Check(s) \/ Leave(s)
    <3>1. /\ tests' = tests
          /\ driver[s].at # "spawn" /\ driver'[s].at # "spawn"
          /\ driver'[s].permits = driver[s].permits
      BY <1>0, <2>1 DEF Begin, Check, Leave, TypeOK
    <3> QED
      BY <1>0, <1>5, <3>1 DEF PermitsTaken, TestsOf, ScanBound
  <2>2. CASE Acquire(s)
    <3>1. /\ tests' = tests
          /\ driver[s].at = "acquire" /\ driver'[s].at = "spawn"
          /\ driver'[s].permits = driver[s].permits
          /\ PermitsTaken(s) < driver[s].permits
      BY <1>0, <2>2 DEF Acquire, TypeOK
    <3> QED
      BY <1>0, <1>5, <3>1 DEF PermitsTaken, TestsOf
  <2>3. CASE Spawn(s)
    <3> DEFINE new == [scan |-> s, target |-> driver[s].next, done |-> 0, at |-> "check"]
    <3>1. /\ tests' = tests \cup {new}
          /\ driver[s].at = "spawn" /\ driver'[s].at = "check"
          /\ driver'[s].permits = driver[s].permits
      BY <1>0, <2>3 DEF Spawn, TypeOK
    <3>2. TestsOf(s)' = TestsOf(s) \cup {new}
      BY <3>1 DEF TestsOf
    <3>3. /\ Cardinality(TestsOf(s) \cup {new}) <= Cardinality(TestsOf(s)) + 1
          /\ Cardinality(TestsOf(s) \cup {new}) \in Nat
          /\ IsFiniteSet(tests \cup {new})
      <4>1. IsFiniteSet(TestsOf(s))
        BY <1>0, FiniteTests
      <4>2. Cardinality(TestsOf(s) \cup {new}) =
                IF new \in TestsOf(s) THEN Cardinality(TestsOf(s)) ELSE Cardinality(TestsOf(s)) + 1
        BY <4>1, FS_AddElement
      <4>3. IsFiniteSet(tests \cup {new})
        BY <1>0, FS_AddElement
      <4> QED
        BY <1>5, <4>2, <4>3
    <3>4. PermitsTaken(s)' = Cardinality(TestsOf(s) \cup {new}) + 0
      BY <3>1, <3>2 DEF PermitsTaken
    <3>5. Cardinality(TestsOf(s)) + 1 <= driver[s].permits
      BY <1>0, <3>1 DEF PermitsTaken, ScanBound
    <3> QED
      BY <1>5, <3>1, <3>3, <3>4, <3>5
  <2> QED
    BY <2>1, <2>2, <2>3 DEF Drive
<1> QED
  BY <1>3, <1>4, <1>6 DEF ScanBound

\* A step of a test: it ends, or becomes another test of the same scan.
LEMMA WorkBound ==
    ASSUME BoundInv, NEW t \in tests, Work(t)
    PROVE  Fresh' /\ IsFiniteSet(tests)' /\ ScanBound'
<1>0. /\ TypeOK /\ Fresh /\ ScanBound /\ IsFiniteSet(tests) /\ t \in Tests
      /\ driver' = driver /\ scans' = scans
  BY DEF BoundInv, TypeInv, Work, Test, Judge, CountFinding, CountRequest, TypeOK, Tests
<1>1. \/ tests' = tests \ {t}
      \/ \E u : u.scan = t.scan /\ tests' = (tests \ {t}) \cup {u}
  BY <1>0 DEF Work, Test, Judge, CountFinding, CountRequest, Move, Tests
<1>2. IsFiniteSet(tests')
  <2>1. IsFiniteSet(tests \ {t})
    BY <1>0, FS_RemoveElement
  <2>2. \A u : IsFiniteSet((tests \ {t}) \cup {u})
    BY <2>1, FS_AddElement
  <2> QED
    BY <1>1, <2>1, <2>2
<1>3. ASSUME NEW s \in Scans
      PROVE  Cardinality(TestsOf(s)') <= Cardinality(TestsOf(s)) /\ (TestsOf(s) = {} => TestsOf(s)' = {})
  <2>0. IsFiniteSet(TestsOf(s)) /\ Cardinality(TestsOf(s)) \in Nat
    BY <1>0, FiniteTests
  <2>1. CASE t.scan # s
    <3>1. TestsOf(s)' = TestsOf(s)
      BY <1>1, <2>1 DEF TestsOf
    <3> QED
      BY <2>0, <3>1
  <2>2. CASE t.scan = s
    <3>1. t \in TestsOf(s)
      BY <2>2 DEF TestsOf
    <3>2. /\ IsFiniteSet(TestsOf(s) \ {t})
          /\ Cardinality(TestsOf(s) \ {t}) = Cardinality(TestsOf(s)) - 1
      BY <2>0, <3>1, FS_RemoveElement
    <3>3. CASE tests' = tests \ {t}
      <4>1. TestsOf(s)' = TestsOf(s) \ {t}
        BY <3>3 DEF TestsOf
      <4> QED
        BY <2>0, <3>1, <3>2, <4>1
    <3>4. ASSUME NEW u, u.scan = t.scan, tests' = (tests \ {t}) \cup {u}
          PROVE Cardinality(TestsOf(s)') <= Cardinality(TestsOf(s))
      <4>1. TestsOf(s)' = (TestsOf(s) \ {t}) \cup {u}
        BY <2>2, <3>4 DEF TestsOf
      <4>2. Cardinality((TestsOf(s) \ {t}) \cup {u}) =
                IF u \in TestsOf(s) \ {t} THEN Cardinality(TestsOf(s) \ {t})
                                          ELSE Cardinality(TestsOf(s) \ {t}) + 1
        BY <3>2, FS_AddElement
      <4> QED
        BY <2>0, <3>2, <4>1, <4>2
    <3> QED
      BY <1>1, <3>1, <3>3, <3>4
  <2> QED
    BY <2>1, <2>2
<1>4. Fresh'
  BY <1>0, <1>3 DEF Fresh
<1>5. \A s \in Scans : (PermitsTaken(s) <= driver[s].permits)'
  <2> SUFFICES ASSUME NEW s \in Scans PROVE (PermitsTaken(s) <= driver[s].permits)'
    OBVIOUS
  <2>1. /\ Cardinality(TestsOf(s)) \in Nat /\ Cardinality(TestsOf(s)') \in Nat
        /\ driver[s].permits \in Nat
    <3>1. TestsOf(s)' \subseteq tests'
      BY DEF TestsOf
    <3> QED
      BY <1>0, <1>2, <3>1, FiniteTests, FS_Subset, FS_CardinalityType DEF TypeOK
  <2> QED
    BY <1>0, <1>3, <2>1 DEF ScanBound, PermitsTaken
<1> QED
  BY <1>2, <1>4, <1>5 DEF ScanBound

LEMMA StepBound == BoundInv /\ [Next]_vars => BoundInv'
<1> SUFFICES ASSUME BoundInv, [Next]_vars PROVE Fresh' /\ IsFiniteSet(tests)' /\ ScanBound'
  BY StepTypes DEF BoundInv
<1>0. TypeOK /\ Fresh /\ ScanBound /\ IsFiniteSet(tests)
  BY DEF BoundInv, TypeInv
<1>1. CASE Start
  <2>0. PICK new : new = scans + 1
    OBVIOUS
  <2>1. /\ new \in Scans /\ new > scans /\ tests' = tests /\ scans' = new
        /\ \A s \in Scans \ {new} : driver'[s] = driver[s]
        /\ driver'[new].at = "begin" /\ driver'[new].permits \in Nat
    BY <1>0, <1>1, <2>0, ScanAssumption, ConfigAssumption DEF Start, TypeOK, Scans
  <2>a. TestsOf(new) = {}
    BY <1>0, <2>1 DEF Fresh
  <2>2. TestsOf(new)' = {} /\ \A s \in Scans : TestsOf(s)' = TestsOf(s)
    BY <2>1, <2>a DEF TestsOf
  <2>3. Fresh'
    BY <1>0, <2>1, <2>2 DEF Fresh, Scans, TypeOK
  <2>4. PermitsTaken(new)' = 0
    BY <2>1, <2>2, FS_EmptySet DEF PermitsTaken
  <2>5. \A s \in Scans \ {new} : (PermitsTaken(s) <= driver[s].permits)'
    BY <1>0, <2>1, <2>2 DEF ScanBound, PermitsTaken
  <2>6. ScanBound'
    BY <2>1, <2>4, <2>5 DEF ScanBound
  <2> QED
    BY <1>0, <2>1, <2>3, <2>6
<1>2. ASSUME NEW p \in Proxies, Passive(p) PROVE UNCHANGED <<scans, driver, tests>>
  BY <1>2 DEF Passive, PassiveBegin, PassiveHit, PassiveCount, PassiveStore, activeVars
<1>3. CASE UNCHANGED <<scans, driver, tests>>
  BY <1>0, <1>3 DEF Fresh, ScanBound, PermitsTaken, TestsOf
<1>4. CASE Stop \/ ClearFindings \/ ClearCount \/ UNCHANGED vars
  BY <1>3, <1>4 DEF Stop, ClearFindings, ClearCount, vars, activeVars
<1> QED
  BY <1>1, <1>2, <1>3, <1>4, DriveBound, WorkBound DEF Next

\* No scan ever has more targets under test than its concurrency allows, however
\* scans are stopped and started (mod.rs:154).
THEOREM ScansBounded == Spec => []ScanBound
<1>1. Init => BoundInv
  <2> SUFFICES ASSUME Init PROVE BoundInv
    OBVIOUS
  <2>1. \A s : TestsOf(s) = {}
    BY DEF Init, TestsOf
  <2>2. \A s \in Scans : driver[s].at = "unborn" /\ driver[s].permits = 0
    BY DEF Init, Unborn
  <2>3. \A s \in Scans : PermitsTaken(s) = 0
    BY <2>1, <2>2, FS_EmptySet DEF PermitsTaken
  <2> QED
    BY <2>1, <2>2, <2>3, InitTypes, FS_EmptySet DEF Init, BoundInv, Fresh, ScanBound
<1>2. BoundInv => ScanBound
  BY DEF BoundInv
<1> QED
  BY <1>1, <1>2, StepBound, PTL DEF Spec

----------------------------------------------------------------------------
\* The counters

\* What the counter has of passive scans and the list has not, one by one, and
\* what the list has of active scans and the counter has not.
Owed == {x \in Proxies \X (1..MaxHits) : x[2] <= passive[x[1]].hits}
Uncounted == {t \in tests : t.at = "found"}

\* A target is tested by one task, and after those before it.
OneTask == \A t, u \in tests : t.scan = u.scan /\ t.target = u.target => t = u
InTurn == \A t \in tests : t.target < driver[t.scan].next
Unused == \A p \in Proxies : passive[p].at = "idle" => passive[p].hits = 0

Ledger ==
    /\ IsFiniteSet(Owed) /\ IsFiniteSet(Uncounted)
    /\ ~cleared => clearer = "idle" /\ findings + Cardinality(Owed) = found + Cardinality(Uncounted)

LedgerInv == TypeInv /\ Fresh /\ IsFiniteSet(tests) /\ OneTask /\ InTurn /\ Unused /\ Ledger

LEMMA LedgerInit == Init => LedgerInv
<1> SUFFICES ASSUME Init PROVE LedgerInv
  OBVIOUS
<1>1. \A p \in Proxies : passive[p].hits = 0
  BY DEF Init, NotScanning
<1>2. Owed = {} /\ Uncounted = {}
  BY <1>1, ScanAssumption DEF Init, Owed, Uncounted
<1>3. Ledger
  BY <1>2, FS_EmptySet DEF Init, Ledger
<1>4. Fresh /\ OneTask /\ InTurn /\ IsFiniteSet(tests)
  BY FS_EmptySet DEF Init, Fresh, OneTask, InTurn, TestsOf, Unborn
<1> QED
  BY <1>1, <1>3, <1>4, InitTypes DEF LedgerInv, Unused

\* A quiet scanner owes nothing.
LEMMA QuietLedger == LedgerInv => CountersAgree
<1> SUFFICES ASSUME LedgerInv, Quiet, ~cleared PROVE found = findings
  BY DEF CountersAgree
<1>1. Owed = {} /\ Uncounted = {}
  BY DEF LedgerInv, Unused, Quiet, Owed, Uncounted
<1> QED
  BY <1>1, FS_EmptySet DEF LedgerInv, Ledger, TypeInv, TypeOK

\* Between two states with the same tasks nothing of the ledger moves.
LEMMA LedgerStays ==
    ASSUME LedgerInv, UNCHANGED <<tests, driver, scans, passive, clearer, cleared, findings, found>>
    PROVE  Fresh' /\ IsFiniteSet(tests)' /\ OneTask' /\ InTurn' /\ Unused' /\ Ledger'
<1>1. Owed' = Owed /\ Uncounted' = Uncounted
  BY DEF Owed, Uncounted
<1> QED
  BY <1>1 DEF LedgerInv, Fresh, TestsOf, OneTask, InTurn, Unused, Ledger

LEMMA DriveLedger ==
    ASSUME LedgerInv, NEW s \in Scans, Drive(s)
    PROVE  Fresh' /\ IsFiniteSet(tests)' /\ OneTask' /\ InTurn' /\ Unused' /\ Ledger'
<1>0. /\ TypeOK /\ Fresh /\ OneTask /\ InTurn /\ Unused /\ Ledger /\ IsFiniteSet(tests)
      /\ UNCHANGED <<scans, passive, clearer, cleared, findings, found>>
  BY DEF LedgerInv, TypeInv, Drive, Begin, Check, Acquire, Spawn, Leave, callVars
<1>1. driver[s].at # "unborn" /\ ~(s > scans)
  BY <1>0 DEF Fresh, Drive, Begin, Check, Acquire, Spawn, Leave
<1>2. \A r \in Scans \ {s} : driver'[r] = driver[r] /\ TestsOf(r)' = TestsOf(r)
  BY <1>0 DEF Drive, Begin, Check, Acquire, Spawn, Leave, TestsOf, TypeOK
<1>3. Fresh'
  BY <1>0, <1>1, <1>2 DEF Fresh
<1>4. Owed' = Owed /\ Unused'
  BY <1>0 DEF Owed, Unused
<1>5. driver[s].next \in Nat /\ \A t \in tests : t.scan \in Scans /\ t.target \in Nat
  BY <1>0 DEF TypeOK
<1>6. CASE tests' = tests
  <2>1. \A r \in Scans : driver'[r].next = driver[r].next \/ driver'[r].next = driver[r].next + 1
    BY <1>0, <1>2, <1>5 DEF Drive, Begin, Check, Acquire, Spawn, Leave, TypeOK
  <2>2. \A r \in Scans : driver[r].next \in Nat
    BY <1>0 DEF TypeOK
  <2>3. InTurn' /\ OneTask'
    BY <1>0, <1>5, <1>6, <2>1, <2>2 DEF InTurn, OneTask
  <2>4. Uncounted' = Uncounted
    BY <1>6 DEF Uncounted
  <2> QED
    BY <1>0, <1>3, <1>4, <1>6, <2>3, <2>4 DEF Ledger
<1>7. CASE Spawn(s)
  <2> DEFINE new == [scan |-> s, target |-> driver[s].next, done |-> 0, at |-> "check"]
  <2>1. tests' = tests \cup {new} /\ driver'[s].next = driver[s].next + 1
    BY <1>0, <1>7 DEF Spawn, TypeOK
  <2>2. OneTask'
    BY <1>0, <1>5, <2>1 DEF OneTask, InTurn
  <2>3. InTurn'
    <3>1. \A t \in tests : t.target < driver'[t.scan].next
      <4> SUFFICES ASSUME NEW t \in tests PROVE t.target < driver'[t.scan].next
        OBVIOUS
      <4>1. CASE t.scan = s
        BY <4>1, <1>0, <1>5, <2>1 DEF InTurn
      <4>2. CASE t.scan # s
        BY <4>2, <1>0, <1>2, <1>5 DEF InTurn
      <4> QED
        BY <4>1, <4>2
    <3> QED
      BY <3>1, <2>1, <1>5 DEF InTurn
  <2>4. Uncounted' = Uncounted
    BY <2>1 DEF Uncounted
  <2>5. IsFiniteSet(tests')
    BY <1>0, <2>1, FS_AddElement
  <2> QED
    BY <1>0, <1>3, <1>4, <2>2, <2>3, <2>4, <2>5 DEF Ledger
<1> QED
  BY <1>6, <1>7 DEF Drive, Begin, Check, Acquire, Leave

\* A step of a test.
LEMMA WorkLedger ==
    ASSUME LedgerInv, NEW t \in tests, Work(t)
    PROVE  Fresh' /\ IsFiniteSet(tests)' /\ OneTask' /\ InTurn' /\ Unused' /\ Ledger'
<1>0. /\ TypeOK /\ Fresh /\ OneTask /\ InTurn /\ Unused /\ Ledger /\ IsFiniteSet(tests) /\ t \in Tests
      /\ UNCHANGED <<driver, scans, passive, clearer, cleared>>
  BY DEF LedgerInv, TypeInv, Work, Test, Judge, CountFinding, CountRequest, TypeOK, Tests, callVars
<1>1. Owed' = Owed /\ Unused'
  BY <1>0 DEF Owed, Unused
<1>2. \/ tests' = tests \ {t}
      \/ \E u : u.scan = t.scan /\ u.target = t.target /\ tests' = (tests \ {t}) \cup {u}
  BY <1>0 DEF Work, Test, Judge, CountFinding, CountRequest, Move, Tests
<1>3. IsFiniteSet(tests')
  <2>1. IsFiniteSet(tests \ {t}) /\ \A u : IsFiniteSet((tests \ {t}) \cup {u})
    BY <1>0, FS_RemoveElement, FS_AddElement
  <2> QED
    BY <1>2, <2>1
<1>4. OneTask' /\ InTurn'
  BY <1>0, <1>2 DEF OneTask, InTurn
<1>5. Fresh'
  <2>1. \A s \in Scans : TestsOf(s) = {} => TestsOf(s)' = {}
    BY <1>2 DEF TestsOf
  <2> QED
    BY <1>0, <2>1 DEF Fresh
<1>6. /\ Cardinality(Uncounted) \in Nat /\ Cardinality(Owed) \in Nat /\ findings \in Nat /\ found \in Nat
      /\ IsFiniteSet(Uncounted)
  BY <1>0, FS_CardinalityType DEF Ledger, TypeOK
<1>7. Ledger'
  <2>1. CASE Judge(t) /\ findings' = findings + 1
    <3> DEFINE u == [t EXCEPT !.at = "found"]
    <3>1. /\ tests' = (tests \ {t}) \cup {u} /\ found' = found /\ t.at = "sent"
          /\ u.at = "found" /\ u.scan = t.scan /\ u.target = t.target
      BY <1>0, <1>6, <2>1 DEF Judge, Move, Tests
    <3>2. u \notin tests
      BY <1>0, <3>1 DEF OneTask
    <3>3. Uncounted' = Uncounted \cup {u} /\ u \notin Uncounted
      BY <3>1, <3>2 DEF Uncounted
    <3>4. IsFiniteSet(Uncounted \cup {u}) /\ Cardinality(Uncounted \cup {u}) = Cardinality(Uncounted) + 1
      BY <1>6, <3>3, FS_AddElement
    <3> QED
      BY <1>0, <1>1, <1>6, <2>1, <3>1, <3>3, <3>4 DEF Ledger
  <2>2. CASE CountFinding(t)
    <3> DEFINE u == [t EXCEPT !.at = "count"]
    <3>1. /\ tests' = (tests \ {t}) \cup {u} /\ found' = found + 1 /\ findings' = findings
          /\ t.at = "found" /\ u.at = "count"
      BY <1>0, <2>2 DEF CountFinding, Move, Tests
    <3>2. Uncounted' = Uncounted \ {t} /\ t \in Uncounted
      BY <3>1 DEF Uncounted
    <3>3. IsFiniteSet(Uncounted \ {t}) /\ Cardinality(Uncounted \ {t}) = Cardinality(Uncounted) - 1
      BY <1>6, <3>2, FS_RemoveElement
    <3> QED
      BY <1>0, <1>1, <1>6, <3>1, <3>2, <3>3 DEF Ledger
  <2>3. CASE ~(Judge(t) /\ findings' = findings + 1) /\ ~CountFinding(t)
    <3>1. UNCHANGED <<findings, found>> /\ t.at # "found"
      BY <2>3 DEF Work, Test, Judge, CountFinding, CountRequest
    <3>2. \/ tests' = tests \ {t}
          \/ \E u : u.at # "found" /\ tests' = (tests \ {t}) \cup {u}
      BY <1>0, <1>6, <2>3, <3>1 DEF Work, Test, Judge, CountRequest, Move, Tests
    <3>3. Uncounted' = Uncounted
      BY <3>1, <3>2 DEF Uncounted
    <3> QED
      BY <1>0, <1>1, <3>1, <3>3 DEF Ledger
  <2> QED
    BY <2>1, <2>2, <2>3
<1> QED
  BY <1>1, <1>3, <1>4, <1>5, <1>7

\* A step of a passive scan.
LEMMA PassiveLedger ==
    ASSUME LedgerInv, NEW p \in Proxies, Passive(p)
    PROVE  Fresh' /\ IsFiniteSet(tests)' /\ OneTask' /\ InTurn' /\ Unused' /\ Ledger'
<1>0. /\ TypeOK /\ Fresh /\ OneTask /\ InTurn /\ Unused /\ Ledger /\ IsFiniteSet(tests)
      /\ UNCHANGED <<tests, driver, scans, clearer, cleared>>
  BY DEF LedgerInv, TypeInv, Passive, PassiveBegin, PassiveHit, PassiveCount, PassiveStore, activeVars
<1>1. Fresh' /\ OneTask' /\ InTurn' /\ Uncounted' = Uncounted
  BY <1>0 DEF Fresh, TestsOf, OneTask, InTurn, Uncounted
<1>2. /\ passive \in [Proxies -> Passives] /\ passive[p].hits \in 0..MaxHits /\ MaxHits \in Nat
      /\ found \in Nat /\ findings \in Nat
      /\ Cardinality(Uncounted) \in Nat /\ Cardinality(Owed) \in Nat /\ IsFiniteSet(Owed)
  BY <1>0, ScanAssumption, FS_CardinalityType DEF Ledger, TypeOK, Passives
<1>3. Unused'
  BY <1>0, <1>2 DEF Passive, PassiveBegin, PassiveHit, PassiveCount, PassiveStore, NotScanning, Unused, Passives
<1>4. Ledger'
  <2>1. CASE PassiveBegin(p) \/ PassiveCount(p)
    <3>1. \A q \in Proxies : passive'[q].hits = passive[q].hits
      BY <1>2, <2>1 DEF PassiveBegin, PassiveCount, Passives
    <3>2. UNCHANGED <<findings, found>>
      BY <2>1 DEF PassiveBegin, PassiveCount
    <3>3. Owed' = Owed
      BY <3>1 DEF Owed
    <3> QED
      BY <1>0, <1>1, <3>2, <3>3 DEF Ledger
  <2>2. CASE PassiveHit(p)
    <3>1. PICK n : n = passive[p].hits + 1
      OBVIOUS
    <3>2. /\ n \in 1..MaxHits /\ found' = found + 1 /\ findings' = findings
          /\ \A q \in Proxies : passive'[q].hits = IF q = p THEN n ELSE passive[q].hits
      BY <1>2, <2>2, <3>1 DEF PassiveHit, Passives
    <3>3. Owed' = Owed \cup {<<p, n>>}
      <4>1. \A x \in Proxies \X (1..MaxHits) :
                x[2] <= passive'[x[1]].hits <=> (x[2] <= passive[x[1]].hits \/ x = <<p, n>>)
        BY <1>2, <3>1, <3>2
      <4> QED
        BY <3>2, <4>1 DEF Owed
    <3>4. <<p, n>> \notin Owed
      BY <1>2, <3>1 DEF Owed
    <3>5. IsFiniteSet(Owed \cup {<<p, n>>}) /\ Cardinality(Owed \cup {<<p, n>>}) = Cardinality(Owed) + 1
      BY <1>2, <3>4, FS_AddElement
    <3> QED
      BY <1>0, <1>1, <1>2, <3>2, <3>3, <3>5 DEF Ledger
  <2>3. CASE PassiveStore(p)
    <3>1. PICK n : n = passive[p].hits
      OBVIOUS
    <3> DEFINE Paid == {<<p, i>> : i \in 1..n}
    <3>2. /\ n \in 0..MaxHits /\ found' = found /\ findings' = findings + n
          /\ \A q \in Proxies : passive'[q].hits = IF q = p THEN 0 ELSE passive[q].hits
      BY <1>2, <2>3, <3>1 DEF PassiveStore, NotScanning, Passives
    <3>3. Owed' = Owed \ Paid /\ Owed \cap Paid = Paid
      <4>1. \A x \in Proxies \X (1..MaxHits) :
                x[2] <= passive'[x[1]].hits <=> (x[2] <= passive[x[1]].hits /\ x \notin Paid)
        BY <1>2, <3>1, <3>2
      <4>2. Paid \subseteq Owed
        BY <1>2, <3>1, <3>2 DEF Owed
      <4> QED
        BY <4>1, <4>2 DEF Owed
    <3>4. Cardinality(Paid) = n
      <4> DEFINE pay == [i \in 1..n |-> <<p, i>>]
      <4>3. pay \in [1..n -> Paid] /\ \A i, j \in 1..n : pay[i] = pay[j] => i = j
        OBVIOUS
      <4>4. \A x \in Paid : \E i \in 1..n : pay[i] = x
        OBVIOUS
      <4> HIDE DEF pay, Paid
      <4>1. pay \in Bijection(1..n, Paid)
        BY <4>3, <4>4 DEF Bijection, Injection, Surjection, IsInjective
      <4>2. ExistsBijection(1..n, Paid)
        BY <4>1 DEF ExistsBijection
      <4> QED
        BY <3>2, <4>2, FS_CountingElements
    <3> HIDE DEF Paid
    <3>5. IsFiniteSet(Owed \ Paid) /\ Cardinality(Owed \ Paid) = Cardinality(Owed) - n
      BY <1>2, <3>3, <3>4, FS_Difference
    <3> QED
      BY <1>0, <1>1, <1>2, <3>2, <3>3, <3>5 DEF Ledger
  <2> QED
    BY <2>1, <2>2, <2>3 DEF Passive
<1> QED
  BY <1>0, <1>1, <1>3, <1>4

LEMMA LedgerStep == LedgerInv /\ [Next]_vars => LedgerInv'
<1> SUFFICES ASSUME LedgerInv, [Next]_vars
             PROVE  Fresh' /\ IsFiniteSet(tests)' /\ OneTask' /\ InTurn' /\ Unused' /\ Ledger'
  BY StepTypes DEF LedgerInv
<1>0. TypeOK /\ Fresh /\ OneTask /\ InTurn /\ Unused /\ Ledger /\ IsFiniteSet(tests)
  BY DEF LedgerInv, TypeInv
<1>1. CASE Start
  <2>0. PICK new : new = scans + 1
    OBVIOUS
  <2>1. /\ new \in Scans /\ new > scans /\ scans' = new
        /\ \A s \in Scans \ {new} : driver'[s] = driver[s]
        /\ UNCHANGED <<tests, passive, clearer, cleared, findings, found>>
    BY <1>0, <1>1, <2>0, ScanAssumption, ConfigAssumption DEF Start, TypeOK, Scans, callVars
  <2>2. TestsOf(new) = {}
    BY <1>0, <2>1 DEF Fresh
  <2>3. \A t \in tests : t.scan \in Scans \ {new}
    BY <1>0, <2>2 DEF TestsOf, TypeOK
  <2>4. InTurn' /\ OneTask' /\ Unused'
    BY <1>0, <2>1, <2>3 DEF InTurn, OneTask, Unused
  <2>5. Fresh'
    BY <1>0, <2>1 DEF Fresh, TestsOf, Scans, TypeOK
  <2>6. Owed' = Owed /\ Uncounted' = Uncounted
    BY <2>1 DEF Owed, Uncounted
  <2> QED
    BY <1>0, <2>1, <2>4, <2>5, <2>6 DEF Ledger
<1>2. CASE Stop \/ UNCHANGED vars
  <2>1. UNCHANGED <<tests, driver, scans, passive, clearer, cleared, findings, found>>
    BY <1>2 DEF Stop, vars, activeVars, callVars
  <2> QED
    BY <2>1, LedgerStays
<1>3. CASE ClearFindings \/ ClearCount
  <2>1. UNCHANGED <<tests, driver, scans, passive>> /\ cleared'
    BY <1>0, <1>3 DEF ClearFindings, ClearCount, activeVars, Ledger, TypeOK
  <2>2. Owed' = Owed /\ Uncounted' = Uncounted
    BY <2>1 DEF Owed, Uncounted
  <2>3. Ledger'
    BY <1>0, <2>1, <2>2 DEF Ledger
  <2> QED
    BY <1>0, <2>1, <2>3 DEF Fresh, TestsOf, OneTask, InTurn, Unused
<1> QED
  BY <1>1, <1>2, <1>3, DriveLedger, WorkLedger, PassiveLedger DEF Next

\* With nothing under way and nothing cleared, the counter of the statistics is the
\* number of findings, however active and passive scans interleave (mod.rs:201).
THEOREM ScannerCounts == Spec => []CountersAgree
BY LedgerInit, LedgerStep, QuietLedger, PTL DEF Spec
=============================================================================
