------------------------------ MODULE ScanPage ------------------------------
(***************************************************************************)
(* The page of a scan (desktop/src/components/views/ScannerView.vue): its  *)
(* buttons go by what the server last said of the scan, which it is asked  *)
(* twice a second once a scan was started, and polling goes on when a scan *)
(* ends by itself.  The findings and the configuration are left out.       *)
(***************************************************************************)
EXTENDS Integers

CONSTANTS
    MaxScans,   \* bound: scans started in the life of the page
    MaxScanCalls    \* bound: calls of stop, and polls, under way

ASSUME ScanPageAssumption == MaxScans \in Nat /\ MaxScanCalls \in Nat

VARIABLES
    scanMounted,
    scanLoading,
    isRunning,          \* stats.is_running, as the server last told it
    startCall,          \* where startScan is
    stopCalls,          \* calls of stopScan that await the server's stop
    stopStats,          \* calls of stopScan that await its statistics
    statPolls,          \* requests for statistics of others under way
    scanInterval,       \* 0 for null
    tickingStats,       \* the intervals the browser runs
    scans,              \* starts so far, a bound
    leftStarting        \* history: the page was left with a start under way

scanIntervals == <<scanInterval, tickingStats>>
scanVars == <<scanMounted, scanLoading, isRunning, startCall, stopCalls, stopStats, statPolls,
              scanIntervals, scans, leftStarting>>

ScanPageOK ==
    /\ {scanMounted, scanLoading, isRunning, leftStarting} \subseteq BOOLEAN
    /\ startCall \in {"none", "start", "stats"}
    /\ stopCalls \in Nat /\ stopStats \in Nat /\ statPolls \in Nat
    /\ scans \in 0..MaxScans
    /\ scanInterval \in 0..scans /\ tickingStats \subseteq 1..scans

----------------------------------------------------------------------------
\* startScan; its button is off while a start or a scan is under way.
StartScan ==
    /\ scanMounted /\ ~scanLoading /\ ~isRunning
    /\ scans < MaxScans
    /\ scans' = scans + 1
    /\ scanLoading' = TRUE
    /\ startCall' = "start"
    /\ UNCHANGED <<scanMounted, isRunning, stopCalls, stopStats, statPolls, scanIntervals, leftStarting>>

ScanStarted ==
    /\ startCall = "start" /\ startCall' = "stats"
    /\ UNCHANGED <<scanMounted, scanLoading, isRunning, stopCalls, stopStats, statPolls, scanIntervals,
                   scans, leftStarting>>

ScanRefused ==
    /\ startCall = "start" /\ startCall' = "none"
    /\ scanLoading' = FALSE
    /\ UNCHANGED <<scanMounted, isRunning, stopCalls, stopStats, statPolls, scanIntervals, scans,
                   leftStarting>>

\* fetchStats: what the server says; an error leaves it.
Told == isRunning' \in BOOLEAN

\* startPolling, whatever became of the statistics.
StartScanPolling ==
    /\ startCall = "stats" /\ startCall' = "none"
    /\ Told
    /\ scanLoading' = FALSE
    /\ scanInterval' = scans
    /\ tickingStats' = (tickingStats \ {scanInterval}) \cup {scans}
    /\ UNCHANGED <<scanMounted, stopCalls, stopStats, statPolls, scans, leftStarting>>

\* The interval's function, the mount, and clearFindings in the end.
FetchStats ==
    /\ (tickingStats # {} \/ scanMounted) /\ statPolls < MaxScanCalls
    /\ statPolls' = statPolls + 1
    /\ UNCHANGED <<scanMounted, scanLoading, isRunning, startCall, stopCalls, stopStats, scanIntervals,
                   scans, leftStarting>>

StatsFetched ==
    /\ statPolls > 0
    /\ statPolls' = statPolls - 1
    /\ Told
    /\ UNCHANGED <<scanMounted, scanLoading, startCall, stopCalls, stopStats, scanIntervals, scans,
                   leftStarting>>

\* stopScan; its button is there while the scan is said to run.
StopScan ==
    /\ scanMounted /\ isRunning
    /\ stopCalls + stopStats < MaxScanCalls
    /\ stopCalls' = stopCalls + 1
    /\ UNCHANGED <<scanMounted, scanLoading, isRunning, startCall, stopStats, statPolls, scanIntervals,
                   scans, leftStarting>>

StopScanPolling ==
    /\ tickingStats' = tickingStats \ {scanInterval}
    /\ scanInterval' = 0

ScanStopped ==
    /\ stopCalls > 0
    /\ stopCalls' = stopCalls - 1 /\ stopStats' = stopStats + 1
    /\ UNCHANGED <<scanMounted, scanLoading, isRunning, startCall, statPolls, scanIntervals, scans,
                   leftStarting>>

\* The stop failed, or it went well and the statistics came.
StopScanEnds ==
    /\ \/ stopCalls > 0 /\ stopCalls' = stopCalls - 1 /\ UNCHANGED <<stopStats, isRunning>>
       \/ stopStats > 0 /\ stopStats' = stopStats - 1 /\ Told /\ UNCHANGED stopCalls
    /\ StopScanPolling
    /\ UNCHANGED <<scanMounted, scanLoading, startCall, statPolls, scans, leftStarting>>

LeaveScan ==
    /\ scanMounted
    /\ scanMounted' = FALSE
    /\ StopScanPolling
    /\ leftStarting' = (startCall # "none")
    /\ UNCHANGED <<scanLoading, isRunning, startCall, stopCalls, stopStats, statPolls, scans>>

----------------------------------------------------------------------------
ScanPageInit ==
    /\ scanMounted = TRUE /\ scanLoading = FALSE /\ isRunning = FALSE
    /\ startCall = "none" /\ stopCalls = 0 /\ stopStats = 0 /\ statPolls = 0
    /\ scanInterval = 0 /\ tickingStats = {}
    /\ scans = 0 /\ leftStarting = FALSE

ScanPageNext ==
    \/ StartScan \/ ScanStarted \/ ScanRefused \/ StartScanPolling
    \/ FetchStats \/ StatsFetched
    \/ StopScan \/ ScanStopped \/ StopScanEnds
    \/ LeaveScan

----------------------------------------------------------------------------
\* Property

\* No interval escapes the variable; one outlives the page only if a start was
\* under way when it was left (ScannerView.vue:180, 238).
StatsArePolledOnce ==
    /\ tickingStats \subseteq {scanInterval}
    /\ tickingStats # {} => scanMounted \/ leftStarting
=============================================================================
