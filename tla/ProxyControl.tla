---------------------------- MODULE ProxyControl ----------------------------
(***************************************************************************)
(* ProxyControl (ui/src/composables/useProxyControl.ts): one operation at  *)
(* a time starts or stops the proxy, clears or exports; the state of the   *)
(* proxy may be asked for at any time, beside an operation.  The server    *)
(* handles a request at some moment between its sending and its answer,    *)
(* and the answer may be lost or come late.                                *)
(***************************************************************************)
EXTENDS Integers

CONSTANTS
    StatusCalls,    \* calls of getProxyStatus
    MaxOperations   \* bound

ASSUME ControlAssumption == MaxOperations \in Nat

VARIABLES
    isProxyRunning, \* what the page believes
    isOperating,
    operation,      \* the operation under way: what, and what became of it
    status,         \* per status call: not made, sent, or what the server saw
    proxyRunning,        \* the server's proxy
    doubt,          \* history: an answer was lost, or one came too late
    operations      \* bound

controlCalls == <<isOperating, operation, status>>
controlVars == <<isProxyRunning, controlCalls, proxyRunning, doubt, operations>>

NoOperation == [what |-> "nothing"]
Switches == {"start", "stop"}
Seen == IF proxyRunning THEN "running" ELSE "stopped"
Quiet == operation = NoOperation /\ \A s \in StatusCalls : status[s] = "idle"

ControlOK ==
    /\ isProxyRunning \in BOOLEAN /\ proxyRunning \in BOOLEAN /\ doubt \in BOOLEAN
    /\ isOperating = (operation # NoOperation)
    /\ operations \in 0..MaxOperations

----------------------------------------------------------------------------
\* Refused while another one is under way.
Begin(what) ==
    /\ ~isOperating /\ operations < MaxOperations
    /\ isOperating' = TRUE
    /\ operation' = [what |-> what, is |-> "sent"]
    /\ operations' = operations + 1
    /\ UNCHANGED <<isProxyRunning, status, proxyRunning, doubt>>

StartProxy == ~isProxyRunning /\ Begin("start")
StopProxy == isProxyRunning /\ Begin("stop")
ToggleProxy == IF isProxyRunning THEN StopProxy ELSE StartProxy
ClearTraffic == Begin("clear")
ExportMetrics == Begin("export")

\* The server does it, or refuses.
Serve ==
    /\ operation # NoOperation /\ operation.is = "sent"
    /\ \/ /\ operation' = [operation EXCEPT !.is = "done"]
          /\ proxyRunning' = CASE operation.what = "start" -> TRUE
                          [] operation.what = "stop" -> FALSE
                          [] OTHER -> proxyRunning
       \/ /\ operation' = [operation EXCEPT !.is = "refused"]
          /\ UNCHANGED proxyRunning
    /\ UNCHANGED <<isProxyRunning, isOperating, status, doubt, operations>>

\* The answer says what was done.
OperationSucceeds ==
    /\ operation # NoOperation /\ operation.is = "done"
    /\ isProxyRunning' = CASE operation.what = "start" -> TRUE
                           [] operation.what = "stop" -> FALSE
                           [] OTHER -> isProxyRunning
    /\ isOperating' = FALSE
    /\ operation' = NoOperation
    /\ UNCHANGED <<status, proxyRunning, doubt, operations>>

\* Mutant: a proxy that could not be stopped is taken for stopped.
OperationFailsStopped ==
    /\ operation # NoOperation /\ operation.is # "sent"
    /\ doubt' = (doubt \/ (operation.is = "done" /\ operation.what \in Switches))
    /\ isProxyRunning' = (isProxyRunning /\ operation.what \notin Switches)
    /\ isOperating' = FALSE
    /\ operation' = NoOperation
    /\ UNCHANGED <<status, proxyRunning, operations>>

\* An error, although it may have been done: the page goes back to what it was.
OperationFails ==
    /\ operation # NoOperation /\ operation.is # "sent"
    /\ doubt' = (doubt \/ (operation.is = "done" /\ operation.what \in Switches))
    /\ isProxyRunning' = CASE operation.what = "start" -> FALSE
                           [] operation.what = "stop" -> TRUE
                           [] OTHER -> isProxyRunning
    /\ isOperating' = FALSE
    /\ operation' = NoOperation
    /\ UNCHANGED <<status, proxyRunning, operations>>

\* An answer without data changes the flag of the operation only.
AnswerEmpty ==
    /\ operation # NoOperation /\ operation.is = "done"
    /\ doubt' = (doubt \/ operation.what \in Switches)
    /\ isOperating' = FALSE
    /\ operation' = NoOperation
    /\ UNCHANGED <<isProxyRunning, status, proxyRunning, operations>>

\* getProxyStatus
AskStatus(s) ==
    /\ status[s] = "idle"
    /\ operations < MaxOperations
    /\ status' = [status EXCEPT ![s] = "sent"]
    /\ UNCHANGED <<isProxyRunning, isOperating, operation, proxyRunning, doubt, operations>>

ServeStatus(s) ==
    /\ status[s] = "sent"
    /\ status' = [status EXCEPT ![s] = Seen]
    /\ UNCHANGED <<isProxyRunning, isOperating, operation, proxyRunning, doubt, operations>>

\* The page believes what the server saw then.
StatusAnswer(s) ==
    /\ status[s] \in {"running", "stopped"}
    /\ isProxyRunning' = (status[s] = "running")
    /\ doubt' = (status[s] # Seen \/ (isOperating /\ doubt))
    /\ status' = [status EXCEPT ![s] = "idle"]
    /\ UNCHANGED <<isOperating, operation, proxyRunning, operations>>

StatusFails(s) ==
    /\ status[s] # "idle"
    /\ status' = [status EXCEPT ![s] = "idle"]
    /\ UNCHANGED <<isProxyRunning, isOperating, operation, proxyRunning, doubt, operations>>

----------------------------------------------------------------------------
\* Whether the proxy runs is not asked when the composable is made.
ControlInit ==
    /\ isProxyRunning = FALSE
    /\ proxyRunning \in BOOLEAN
    /\ doubt = proxyRunning
    /\ isOperating = FALSE /\ operation = NoOperation
    /\ status = [s \in StatusCalls |-> "idle"]
    /\ operations = 0

ControlNext ==
    \/ ToggleProxy \/ StartProxy \/ StopProxy \/ ClearTraffic \/ ExportMetrics
    \/ Serve \/ OperationSucceeds \/ OperationFails \/ AnswerEmpty
    \/ \E s \in StatusCalls : AskStatus(s) \/ ServeStatus(s) \/ StatusAnswer(s) \/ StatusFails(s)

ControlSpec == ControlInit /\ [][ControlNext]_controlVars

----------------------------------------------------------------------------
\* Property

\* With nothing under way the page is right about the proxy, unless the answer
\* to a start or a stop was lost, or one to a status call came too late; any later
\* one that does not, and meets no operation, makes it right again.  An
\* operation that fails goes back to what was so before (useProxyControl.ts:222, 271).
FlagIsRight == Quiet /\ ~doubt => isProxyRunning = proxyRunning
=============================================================================
