------------------------------ MODULE Scanner ------------------------------
(***************************************************************************)
(* Scanner (core/src/scanner/mod.rs): active scans, each a driver task     *)
(* that spawns one task per target under a semaphore, and passive scans in *)
(* the proxy's tasks, which share the list of findings and two counters    *)
(* with them.  One flag, is_running, is read and written by all scans.     *)
(*                                                                         *)
(* A target is tested with Payloads payloads, those of the rules in the    *)
(* configured categories; what a finding says is left out.                 *)
(***************************************************************************)
EXTENDS Integers, FiniteSets

CONSTANTS
    MaxScans,       \* bound: active scans started in a behaviour
    Sizes,          \* per scan: numbers of targets it may have
    Payloads,       \* payloads a target is tested with
    Concurrencies,  \* config.concurrency when a scan starts
    MaxPermits,     \* Semaphore::MAX_PERMITS
    Proxies,        \* proxy tasks that call passive_scan
    MaxHits,        \* bound: passive rules that match one exchange
    MaxPassive,     \* bound: exchanges scanned passively
    MayStop,        \* TRUE: stop_scan is called
    MayClear        \* bound: TRUE for one clear_findings, FALSE for none

ASSUME ScanAssumption == {MaxScans, Payloads, MaxHits, MaxPassive} \subseteq Nat
ASSUME ConfigAssumption == Sizes \in [1..MaxScans -> SUBSET Nat] /\ Concurrencies \subseteq Nat
ASSUME PermitAssumption == MaxPermits \in Nat \ {0}
ASSUME CallAssumption == {MayStop, MayClear} \subseteq BOOLEAN

VARIABLES
    running,    \* is_running
    scans,      \* scan_id: scans started
    driver,     \* per scan: where its driver is
    tests,      \* the tasks that test a target
    passive,    \* per proxy task: where its passive_scan is
    clearer,    \* where clear_findings is
    findings,   \* length of the list of findings
    found,      \* vulnerabilities_found
    scanned,    \* requests_scanned
    seen,       \* bound: exchanges scanned passively so far
    cleared     \* history: clear_findings was called

activeVars == <<scans, driver, tests>>
callVars == <<passive, clearer, cleared, seen>>
vars == <<running, activeVars, callVars, findings, found, scanned>>

Scans == 1..MaxScans
Stages == {"unborn", "begin", "check", "acquire", "spawn", "leave", "ended", "panicked"}
Unborn == [at |-> "unborn", size |-> 0, permits |-> 0, next |-> 0]
NotScanning == [at |-> "idle", hits |-> 0]

TestsOf(s) == {t \in tests : t.scan = s}
PermitsTaken(s) == Cardinality(TestsOf(s)) + IF driver[s].at = "spawn" THEN 1 ELSE 0
Move(t, u) == tests' = (tests \ {t}) \cup {u}

TypeOK ==
    /\ {running, cleared} \subseteq BOOLEAN
    /\ {findings, found, scanned, seen} \subseteq Nat
    /\ scans \in 0..MaxScans
    /\ driver \in [Scans -> [at : Stages, size : Nat, permits : Nat, next : Nat]]
    /\ tests \subseteq [scan : Scans, target : Nat, done : 0..Payloads,
                        at : {"check", "sent", "found", "count"}]
    /\ passive \in [Proxies -> [at : {"idle", "rules", "store"}, hits : 0..MaxHits]]
    /\ clearer \in {"idle", "reset"}

----------------------------------------------------------------------------
\* start_active_scan

\* is_running.swap(true), the next scan id, the configuration, tokio::spawn;
\* "Scan already running" changes nothing and is no step.
Start ==
    /\ scans < MaxScans
    /\ ~running
    /\ running' = TRUE
    /\ scans' = scans + 1
    /\ \E n \in Sizes[scans + 1], c \in Concurrencies :
           driver' = [driver EXCEPT ![scans + 1] =
                         [at |-> "begin", size |-> n, permits |-> c, next |-> 1]]
    /\ UNCHANGED <<tests, callVars, findings, found, scanned>>

\* Semaphore::new panics where it is asked for too many permits: then nobody lowers
\* the flag.  A release build aborts at any panic (Cargo.toml:43): the behaviour ends.
Begin(s) ==
    /\ driver[s].at = "begin"
    /\ driver' = [driver EXCEPT ![s].at =
                     IF driver[s].permits <= MaxPermits THEN "check" ELSE "panicked"]
    /\ UNCHANGED <<running, scans, tests, callVars, findings, found, scanned>>

\* The head of the loop over the targets.
Check(s) ==
    /\ driver[s].at = "check"
    /\ driver' = [driver EXCEPT ![s].at =
                     IF driver[s].next <= driver[s].size /\ running THEN "acquire" ELSE "leave"]
    /\ UNCHANGED <<running, scans, tests, callVars, findings, found, scanned>>

\* After the loop the flag goes down, whoever raised it, while the tasks that were
\* spawned are still testing.
Leave(s) ==
    /\ driver[s].at = "leave"
    /\ driver' = [driver EXCEPT ![s].at = "ended"]
    /\ running' = FALSE
    /\ UNCHANGED <<scans, tests, callVars, findings, found, scanned>>

\* Mutant: a target is tested without a permit.
AcquireFree(s) ==
    /\ driver[s].at = "acquire"
    /\ driver' = [driver EXCEPT ![s].at = "spawn"]
    /\ UNCHANGED <<running, scans, tests, callVars, findings, found, scanned>>

\* semaphore.acquire_owned().await: with a concurrency of zero it never returns.
Acquire(s) ==
    /\ driver[s].at = "acquire"
    /\ PermitsTaken(s) < driver[s].permits
    /\ driver' = [driver EXCEPT ![s].at = "spawn"]
    /\ UNCHANGED <<running, scans, tests, callVars, findings, found, scanned>>

Spawn(s) ==
    /\ driver[s].at = "spawn"
    /\ tests' = tests \cup
           {[scan |-> s, target |-> driver[s].next, done |-> 0, at |-> "check"]}
    /\ driver' = [driver EXCEPT ![s].at = "check", ![s].next = @ + 1]
    /\ UNCHANGED <<running, scans, callVars, findings, found, scanned>>

----------------------------------------------------------------------------
\* run_active_tests in the task of a target

\* Mutant: a task whose scan is stopped waits for it to go on.
TestWaits(t) ==
    /\ t \in tests
    /\ t.at = "check"
    /\ \/ /\ t.done < Payloads /\ running
          /\ Move(t, [t EXCEPT !.at = "sent"])
       \/ /\ t.done = Payloads
          /\ tests' = tests \ {t}
    /\ UNCHANGED <<running, scans, driver, callVars, findings, found, scanned>>

\* The next payload, if there is one and the flag is up; else the task ends
\* and gives its permit back.
Test(t) ==
    /\ t \in tests
    /\ t.at = "check"
    /\ IF t.done < Payloads /\ running
       THEN Move(t, [t EXCEPT !.at = "sent"])
       ELSE tests' = tests \ {t}
    /\ UNCHANGED <<running, scans, driver, callVars, findings, found, scanned>>

\* test_payload: a finding, or none (no match, or any error); or a panic that ends the
\* task, where the 500 bytes of evidence end within a character.
Judge(t) ==
    /\ t \in tests
    /\ t.at = "sent"
    /\ \/ /\ findings' = findings + 1
          /\ Move(t, [t EXCEPT !.at = "found"])
       \/ /\ \/ Move(t, [t EXCEPT !.at = "count"])
             \/ tests' = tests \ {t}
          /\ UNCHANGED findings
    /\ UNCHANGED <<running, scans, driver, callVars, found, scanned>>

CountFinding(t) ==
    /\ t \in tests
    /\ t.at = "found"
    /\ found' = found + 1
    /\ Move(t, [t EXCEPT !.at = "count"])
    /\ UNCHANGED <<running, scans, driver, callVars, findings, scanned>>

CountRequest(t) ==
    /\ t \in tests
    /\ t.at = "count"
    /\ scanned' = scanned + 1
    /\ Move(t, [t EXCEPT !.at = "check", !.done = @ + 1])
    /\ UNCHANGED <<running, scans, driver, callVars, findings, found>>

----------------------------------------------------------------------------
\* passive_scan, in a proxy task: the counters first, then the list

PassiveBegin(p) ==
    /\ passive[p].at = "idle"
    /\ seen < MaxPassive
    /\ seen' = seen + 1
    /\ passive' = [passive EXCEPT ![p].at = "rules"]
    /\ UNCHANGED <<running, activeVars, clearer, cleared, findings, found, scanned>>

\* Mutant: the counter is set to the number of findings there will be.
PassiveHitSet(p) ==
    /\ passive[p].at = "rules"
    /\ passive[p].hits < MaxHits
    /\ found' = findings + passive[p].hits + 1
    /\ passive' = [passive EXCEPT ![p].hits = @ + 1]
    /\ UNCHANGED <<running, activeVars, clearer, cleared, seen, findings, scanned>>

PassiveHit(p) ==
    /\ passive[p].at = "rules"
    /\ passive[p].hits < MaxHits
    /\ found' = found + 1
    /\ passive' = [passive EXCEPT ![p].hits = @ + 1]
    /\ UNCHANGED <<running, activeVars, clearer, cleared, seen, findings, scanned>>

PassiveCount(p) ==
    /\ passive[p].at = "rules"
    /\ scanned' = scanned + 1
    /\ passive' = [passive EXCEPT ![p].at = "store"]
    /\ UNCHANGED <<running, activeVars, clearer, cleared, seen, findings, found>>

PassiveStore(p) ==
    /\ passive[p].at = "store"
    /\ findings' = findings + passive[p].hits
    /\ passive' = [passive EXCEPT ![p] = NotScanning]
    /\ UNCHANGED <<running, activeVars, clearer, cleared, seen, found, scanned>>

----------------------------------------------------------------------------
\* stop_scan and clear_findings

Stop ==
    /\ MayStop
    /\ running' = FALSE
    /\ UNCHANGED <<activeVars, callVars, findings, found, scanned>>

ClearFindings ==
    /\ MayClear
    /\ ~cleared
    /\ clearer = "idle"
    /\ findings' = 0
    /\ clearer' = "reset"
    /\ cleared' = TRUE
    /\ UNCHANGED <<running, activeVars, passive, seen, found, scanned>>

ClearCount ==
    /\ clearer = "reset"
    /\ found' = 0
    /\ clearer' = "idle"
    /\ UNCHANGED <<running, activeVars, passive, cleared, seen, findings, scanned>>

----------------------------------------------------------------------------
Init ==
    /\ running = FALSE
    /\ scans = 0
    /\ driver = [s \in Scans |-> Unborn]
    /\ tests = {}
    /\ passive = [p \in Proxies |-> NotScanning]
    /\ clearer = "idle"
    /\ findings = 0
    /\ found = 0
    /\ scanned = 0
    /\ seen = 0
    /\ cleared = FALSE

Drive(s) == Begin(s) \/ Check(s) \/ Acquire(s) \/ Spawn(s) \/ Leave(s)
Work(t) == Test(t) \/ Judge(t) \/ CountFinding(t) \/ CountRequest(t)
Passive(p) == PassiveBegin(p) \/ PassiveHit(p) \/ PassiveCount(p) \/ PassiveStore(p)

Next ==
    \/ Start
    \/ \E s \in Scans : Drive(s)
    \/ \E t \in tests : Work(t)
    \/ \E p \in Proxies : Passive(p)
    \/ Stop
    \/ ClearFindings \/ ClearCount

Spec == Init /\ [][Next]_vars

\* Every task that can go on is polled, every probe is answered or fails.
Fairness ==
    \A s \in Scans : WF_vars(Drive(s)) /\ WF_vars(\E t \in TestsOf(s) : Work(t))

FairSpec == Spec /\ Fairness

----------------------------------------------------------------------------
\* Properties

\* No scan has more targets under test than the configured concurrency, the
\* permit of a target is not given away before its task ends (mod.rs:154).
ScanBound == \A s \in Scans : PermitsTaken(s) <= driver[s].permits

\* With nothing under way and nothing cleared, the counter in the statistics
\* is the number of findings: active scans add to the list first and passive
\* scans to the counter, yet none is lost or counted twice (mod.rs:201).
Quiet ==
    /\ tests = {}
    /\ \A p \in Proxies : passive[p].at = "idle"
    /\ clearer = "idle"
CountersAgree == Quiet /\ ~cleared => found = findings

\* A scan ends that has a permit, and no more than a semaphore can have, and so does
\* every test of it, stopped or not, also when a later scan raises the flag again, and
\* with a test that panics (mod.rs:156, 264).
Over(s) == driver[s].at = "ended" /\ TestsOf(s) = {}
ScansEnd ==
    \A s \in Scans : driver[s].at = "begin" /\ driver[s].permits \in 1..MaxPermits ~> Over(s)

\* The flag tells whether a scan is running, where nobody stops one.  The
\* code says "Check if scan is running" (mod.rs:318).
RunningIsTold == tests # {} /\ ~MayStop => running
=============================================================================
