------------------------------ MODULE Project ------------------------------
(***************************************************************************)
(* ProjectManager (core/src/project.rs) and its handlers project_save,     *)
(* project_load and project_new (api/src/routes.rs) over the table that    *)
(* RequestCapture writes.                                                  *)
(*                                                                         *)
(* A project file is the traffic it lists: the exchange under each id.     *)
(* Every lock, storage call and file call is a step of its own, so pushes, *)
(* clears, the other project handlers and a crash interleave with them.    *)
(* One client saves, one loads and one creates projects, on one path.      *)
(* The name and description that project_update edits are left out.        *)
(***************************************************************************)
EXTENDS Capture

CONSTANT ExportLimit    \* the default limit of storage.query (500)
ASSUME ExportAssumption == ExportLimit \in Nat

VARIABLES
    file,       \* the project file on disk
    saver,      \* project_save: the step it is about to take
    loader,     \* project_load
    maker,      \* project_new
    info,       \* ProjectManager.current_project: the project it names
    scope,      \* the project the scope and settings come from
    meanwhile,  \* history: ids other tasks stored since the loader cleared
    wiped,      \* history: rows were deleted since the loader cleared
    foreign     \* history: this process loaded a file of an earlier one

projectVars == <<file, saver, loader, maker, info, scope, meanwhile, wiped, foreign>>
allVars == <<vars, projectVars>>

Projects == {"untitled", "saved", "new"}
Empty == [id \in {} |-> 0]
NoFile == [kind |-> "missing", traffic |-> Empty, epoch |-> 0]
NotSaving == [at |-> "idle", data |-> NoFile]
NotLoading == [at |-> "idle", data |-> NoFile, todo |-> {}]
NotMaking == [at |-> "idle", old |-> {}]

IsFile(f) ==
    /\ f.kind \in {"missing", "torn", "whole"}
    /\ f.traffic \in [DOMAIN f.traffic -> 1..born] /\ DOMAIN f.traffic \subseteq Nat
    /\ f.epoch \in 0..restarts

ProjectTypeOK ==
    /\ TypeOK
    /\ IsFile(file)
    /\ saver.at \in {"idle", "write"} /\ IsFile(saver.data)
    /\ loader.at \in {"idle", "info", "clear", "insert"} /\ IsFile(loader.data)
    /\ loader.todo \subseteq DOMAIN loader.data.traffic
    /\ maker.at \in {"idle", "clear", "scope"} /\ maker.old \subseteq 1..born
    /\ {info, scope} \subseteq Projects
    /\ meanwhile \subseteq Nat
    /\ {wiped, foreign} \subseteq BOOLEAN

\* What a step of somebody else does to the table while it is being reloaded.
Disturb ==
    /\ meanwhile' = meanwhile \cup
           {id \in DOMAIN rows' : id \notin DOMAIN rows \/ rows'[id] # rows[id]}
    /\ wiped' = (wiped \/ ~(DOMAIN rows \subseteq DOMAIN rows'))

memoryVars == <<key, entries, counter, task, sweep, born, restarts, announced, gone, unread>>

----------------------------------------------------------------------------
\* project_save

\* export: one query of the default limit, which fails on a row that another
\* key sealed; then fs::write truncates the file.
SaveBegin ==
    /\ saver.at = "idle"
    /\ \E n \in 0..ExportLimit : \E s \in [1..n -> DOMAIN rows] :
           /\ IsWindow(s, n, ExportLimit)
           /\ \A i \in 1..n : Readable(s[i], key)
           /\ saver' = [at |-> "write",
                        data |-> [kind |-> "whole", epoch |-> restarts,
                                  traffic |-> [id \in {s[i] : i \in 1..n} |-> rows[id].x]]]
    /\ file' = [NoFile EXCEPT !.kind = "torn"]
    /\ UNCHANGED <<vars, loader, maker, info, scope, meanwhile, wiped, foreign>>

SaveEnd ==
    /\ saver.at = "write"
    /\ file' = saver.data
    /\ saver' = NotSaving
    /\ UNCHANGED <<vars, loader, maker, info, scope, meanwhile, wiped, foreign>>

----------------------------------------------------------------------------
\* project_load and ProjectManager::import

\* A missing or torn file is an error before anything changes.
LoadScope ==
    /\ loader.at = "idle"
    /\ file.kind = "whole"
    /\ loader' = [at |-> "info", data |-> file, todo |-> DOMAIN file.traffic]
    /\ scope' = "saved"
    /\ UNCHANGED <<vars, file, saver, maker, info, meanwhile, wiped, foreign>>

\* The lock of current_project is free once new_project is through with it.
LoadInfo ==
    /\ loader.at = "info"
    /\ maker.at # "clear"
    /\ loader' = [loader EXCEPT !.at = "clear"]
    /\ info' = "saved"
    /\ UNCHANGED <<vars, file, saver, maker, scope, meanwhile, wiped, foreign>>

\* Mutant: the rows of the running project stay.
LoadClearKept ==
    /\ loader.at = "clear"
    /\ loader' = [loader EXCEPT !.at = "insert"]
    /\ meanwhile' = {}
    /\ wiped' = FALSE
    /\ foreign' = (foreign \/ loader.data.epoch < restarts)
    /\ UNCHANGED <<vars, file, saver, maker, info, scope>>

\* Mutant: the emptied table takes ids from one again.
LoadClearRenumber ==
    /\ loader.at = "clear"
    /\ rows' = NoRows
    /\ counter' = 1
    /\ loader' = [loader EXCEPT !.at = "insert"]
    /\ meanwhile' = {}
    /\ wiped' = FALSE
    /\ foreign' = (foreign \/ loader.data.epoch < restarts)
    /\ UNCHANGED <<key, entries, task, sweep, born, restarts, announced, gone, unread,
                   file, saver, maker, info, scope>>

\* storage.clear()? : an error ends the handler.
LoadClear ==
    /\ loader.at = "clear"
    /\ \/ /\ rows' = NoRows
          /\ loader' = [loader EXCEPT !.at = "insert"]
       \/ /\ StorageMayFail
          /\ loader' = NotLoading
          /\ UNCHANGED rows
    /\ meanwhile' = {}
    /\ wiped' = FALSE
    /\ foreign' = (foreign \/ loader.data.epoch < restarts)
    /\ UNCHANGED <<memoryVars, file, saver, maker, info, scope>>

\* storage.insert(entry)? in the order of the file, largest id first; the
\* capture's memory and its counter are not told.
LoadInsert ==
    /\ loader.at = "insert"
    /\ \E id \in loader.todo :
           /\ \A other \in loader.todo : other <= id
           /\ \/ /\ Insert(id, loader.data.traffic[id])
                 /\ loader' = [loader EXCEPT !.todo = @ \ {id}]
              \/ /\ StorageMayFail
                 /\ loader' = NotLoading
                 /\ UNCHANGED rows
    /\ UNCHANGED <<memoryVars, file, saver, maker, info, scope, meanwhile, wiped, foreign>>

\* Every entry of the file was inserted: the answer is 200.
Loaded == loader.at = "insert" /\ loader.todo = {}
LoadEnd ==
    /\ Loaded
    /\ loader' = NotLoading
    /\ UNCHANGED <<vars, file, saver, maker, info, scope, meanwhile, wiped, foreign>>

----------------------------------------------------------------------------
\* project_new and ProjectManager::new_project

\* new_project holds the lock of current_project until storage is cleared.
NewInfo ==
    /\ maker.at = "idle"
    /\ maker' = [at |-> "clear", old |-> Finished]
    /\ info' = "new"
    /\ UNCHANGED <<vars, file, saver, loader, scope, meanwhile, wiped, foreign>>

\* let _ = storage.clear() : an error is dropped.
NewClear ==
    /\ maker.at = "clear"
    /\ \/ rows' = NoRows
       \/ StorageMayFail /\ UNCHANGED rows
    /\ maker' = [maker EXCEPT !.at = "scope"]
    /\ Disturb
    /\ UNCHANGED <<memoryVars, file, saver, loader, info, scope, foreign>>

\* The handler goes on with the scope; the results of the other tools that it
\* clears are not part of this module.
Made == maker.at = "scope"
NewScope ==
    /\ Made
    /\ maker' = NotMaking
    /\ scope' = "new"
    /\ UNCHANGED <<vars, file, saver, loader, info, meanwhile, wiped, foreign>>

----------------------------------------------------------------------------
ProjectInit ==
    /\ Init
    /\ file = NoFile
    /\ saver = NotSaving
    /\ loader = NotLoading
    /\ maker = NotMaking
    /\ info = "untitled"
    /\ scope = "untitled"
    /\ meanwhile = {}
    /\ wiped = FALSE
    /\ foreign = FALSE

CaptureServe ==
    /\ Serve
    /\ Disturb
    /\ UNCHANGED <<file, saver, loader, maker, info, scope, foreign>>

\* Only the file and the table outlive the process.
ProjectRestart ==
    /\ \E k \in Keys : Restart(k)
    /\ saver' = NotSaving
    /\ loader' = NotLoading
    /\ maker' = NotMaking
    /\ info' = "untitled"
    /\ scope' = "untitled"
    /\ meanwhile' = {}
    /\ wiped' = FALSE
    /\ foreign' = FALSE
    /\ UNCHANGED file

ProjectNext ==
    \/ CaptureServe
    \/ ProjectRestart
    \/ SaveBegin \/ SaveEnd
    \/ LoadScope \/ LoadInfo \/ LoadClear \/ LoadInsert \/ LoadEnd
    \/ NewInfo \/ NewClear \/ NewScope

ProjectSpec == ProjectInit /\ [][ProjectNext]_allVars

----------------------------------------------------------------------------
\* Properties

\* A load that answers 200 has put every exchange of the file back under its
\* id, and beside them the table holds only what pushes stored since the load
\* emptied it, whatever was pushed, saved or loaded in between; unless a clear
\* or a new project emptied the table again (project.rs:163).
LoadRestores ==
    [][Loaded /\ loader'.at = "idle" /\ ~wiped /\ restarts' = restarts =>
           /\ DOMAIN loader.data.traffic \subseteq DOMAIN rows
           /\ DOMAIN rows \subseteq DOMAIN loader.data.traffic \cup meanwhile
           /\ \A id \in DOMAIN loader.data.traffic \ meanwhile :
                  rows[id].x = loader.data.traffic[id]]_allVars

\* The id a push stores is not in the table, although loads put ids there that
\* the counter knows nothing of, and INSERT OR REPLACE replaces nothing; unless a
\* project file of an earlier process was loaded, or the row was already there when
\* this process started and could not read it (capture.rs:96, storage.rs:113).
PushReplacesNothing ==
    [][\A p \in Pushers :
           task[p].at = "persist" /\ task'[p].at = "idle" /\ rows' # rows /\ ~foreign
           /\ restarts' = restarts =>
               (task[p].id \in DOMAIN rows => Unread(task[p].id))]_allVars

\* project_new leaves nothing behind that was captured before it was called.
\* The code says "Create a new empty project" (project.rs:182).
NewProjectStartsEmpty ==
    [][Made /\ maker'.at = "idle" /\ restarts' = restarts =>
           maker.old \cap (InMemory \cup InStorage) = {}]_allVars
=============================================================================
