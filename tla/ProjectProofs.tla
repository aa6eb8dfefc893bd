--------------------------- MODULE ProjectProofs ---------------------------
(***************************************************************************)
(* Theorems about Project, for every set of tasks and keys, every capacity *)
(* and export limit, and any bounds.  What the capture itself guarantees   *)
(* is taken from the lemmas of CaptureProofs.                              *)
(***************************************************************************)
EXTENDS Project, CaptureProofs

Holds(f) ==
    /\ DOMAIN f.traffic \subseteq Nat
    /\ f.traffic \in [DOMAIN f.traffic -> Nat]
    /\ f.epoch \in 0..restarts

\* The files that a later step may read were written by this process or an
\* earlier one.
FilesInv ==
    /\ TypeInv
    /\ Holds(file) /\ Holds(saver.data) /\ Holds(loader.data)
    /\ loader = [at |-> loader.at, data |-> loader.data, todo |-> loader.todo]
    /\ loader.todo \subseteq DOMAIN loader.data.traffic

\* Every exchange of a whole file is a row of the table or still to be inserted.
ReloadInv ==
    LET listed == loader.data.traffic
    IN  /\ loader.at \in {"info", "clear"} => loader.todo = DOMAIN listed
        /\ loader.at = "insert" /\ ~wiped =>
               /\ DOMAIN listed \ loader.todo \subseteq DOMAIN rows
               /\ DOMAIN rows \subseteq DOMAIN listed \cup meanwhile
               /\ \A id \in (DOMAIN listed \ loader.todo) \ meanwhile :
                      rows[id].x = listed[id]

\* An id that no push will store any more.
Spent(id) == id < counter /\ \A p \in Pushers : Busy(p) => task[p].id # id

\* No push will store the id, or the process cannot read what is stored under it.
Harmless(id, x) == Spent(id) \/ x \in unread

\* Until a file of an earlier process is loaded, the rows and the files of this
\* process hold such ids only.
SpentInv ==
    ~foreign =>
        /\ \A id \in DOMAIN rows : Harmless(id, rows[id].x)
        /\ file.epoch = restarts =>
               \A id \in DOMAIN file.traffic : Harmless(id, file.traffic[id])
        /\ saver.data.epoch = restarts =>
               \A id \in DOMAIN saver.data.traffic : Harmless(id, saver.data.traffic[id])
        /\ loader.data.epoch = restarts =>
               \A id \in DOMAIN loader.data.traffic : Harmless(id, loader.data.traffic[id])
        /\ loader.at = "insert" => loader.data.epoch = restarts

RestoreStep ==
    Loaded /\ loader'.at = "idle" /\ ~wiped /\ restarts' = restarts =>
        /\ DOMAIN loader.data.traffic \subseteq DOMAIN rows
        /\ DOMAIN rows \subseteq DOMAIN loader.data.traffic \cup meanwhile
        /\ \A id \in DOMAIN loader.data.traffic \ meanwhile :
               rows[id].x = loader.data.traffic[id]

ReplaceStep ==
    \A p \in Pushers :
        task[p].at = "persist" /\ task'[p].at = "idle" /\ rows' # rows /\ ~foreign
        /\ restarts' = restarts => (task[p].id \in DOMAIN rows => Unread(task[p].id))

----------------------------------------------------------------------------
\* What the steps do to the capture's variables.

\* A step of a project handler that leaves the table alone leaves all of them.
HandlerStep ==
    SaveBegin \/ SaveEnd \/ LoadScope \/ LoadInfo \/ LoadEnd \/ NewInfo \/ NewScope

LEMMA HandlersLeave == HandlerStep => UNCHANGED vars
BY DEF HandlerStep, SaveBegin, SaveEnd, LoadScope, LoadInfo, LoadEnd, NewInfo, NewScope

LEMMA EmptyHolds == ASSUME NEW n \in Nat PROVE
    DOMAIN NoFile.traffic = {} /\ NoFile.traffic \in [{} -> Nat] /\ NoFile.epoch \in 0..n
BY DEF NoFile, Empty

\* The table keeps its type when a file's exchange is inserted.
LEMMA InsertType ==
    ASSUME TypeInv, NEW id \in Nat, NEW x \in Nat, Insert(id, x), UNCHANGED memoryVars
    PROVE  TypeInv'
<1>1. /\ DOMAIN rows' = DOMAIN rows \cup {id}
      /\ \A i \in DOMAIN rows' :
             rows'[i] = IF i = id THEN [x |-> x, key |-> key] ELSE rows[i]
      /\ rows' = [i \in DOMAIN rows' |-> rows'[i]]
  BY DEF Insert
<1>2. \A i \in DOMAIN rows' : rows'[i] \in [x : Nat, key : Keys]
  BY <1>1 DEF TypeInv, TypeOK
<1>3. rows' \in [DOMAIN rows' -> [x : Nat, key : Keys]] /\ DOMAIN rows' \subseteq Nat
  BY <1>1, <1>2 DEF TypeInv, TypeOK
<1>4. QED
  BY <1>3 DEF TypeInv, TypeOK, Bound, memoryVars

LEMMA EmptyType ==
    ASSUME TypeInv, rows' = NoRows, UNCHANGED memoryVars PROVE TypeInv'
<1>1. rows' \in [DOMAIN rows' -> [x : Nat, key : Keys]] /\ DOMAIN rows' \subseteq Nat
  BY DEF NoRows
<1>2. QED
  BY <1>1 DEF TypeInv, TypeOK, Bound, memoryVars

----------------------------------------------------------------------------
LEMMA FilesInit == ProjectInit => FilesInv
<1> SUFFICES ASSUME ProjectInit PROVE FilesInv
  OBVIOUS
<1>1. TypeInv /\ restarts = 0
  BY TypeInit DEF ProjectInit, Init
<1>2. file = NoFile /\ saver.data = NoFile /\ loader.data = NoFile
  BY DEF ProjectInit, NotSaving, NotLoading
<1>3. Holds(NoFile)
  BY <1>1, EmptyHolds DEF Holds
<1>4. /\ loader = [at |-> loader.at, data |-> loader.data, todo |-> loader.todo]
      /\ loader.todo \subseteq DOMAIN loader.data.traffic
  BY DEF ProjectInit, NotLoading
<1>5. QED
  BY <1>1, <1>2, <1>3, <1>4 DEF FilesInv

LEMMA FilesStep == FilesInv /\ [ProjectNext]_allVars => FilesInv'
<1> SUFFICES ASSUME FilesInv, [ProjectNext]_allVars PROVE FilesInv'
  OBVIOUS
<1>0. /\ TypeInv /\ Holds(file) /\ Holds(saver.data) /\ Holds(loader.data)
      /\ loader = [at |-> loader.at, data |-> loader.data, todo |-> loader.todo]
      /\ loader.todo \subseteq DOMAIN loader.data.traffic
      /\ restarts \in Nat
      /\ DOMAIN rows \subseteq Nat /\ \A id \in DOMAIN rows : rows[id].x \in Nat
  BY DEF FilesInv, TypeInv, TypeOK
<1>1. CASE CaptureServe
  <2>1. [Next]_vars
    BY <1>1 DEF CaptureServe, Next
  <2>2. TypeInv' /\ restarts' = restarts
    BY <1>0, <1>1, <2>1, TypeStep
    DEF CaptureServe, Serve, PushAllocate, PushMemory, PushAnnounce, PushPersist, ClearMemory,
        ClearStorage
  <2>3. file' = file /\ saver' = saver /\ loader' = loader
    BY <1>1 DEF CaptureServe
  <2>4. QED
    BY <1>0, <2>2, <2>3 DEF FilesInv, Holds
<1>2. CASE ProjectRestart
  <2>1. TypeInv' /\ restarts' = restarts + 1
    <3>1. Next
      BY <1>2 DEF ProjectRestart, Next
    <3>2. QED
      BY <1>0, <1>2, <3>1, TypeStep DEF ProjectRestart, Restart
  <2>2. saver'.data = NoFile /\ loader' = NotLoading /\ file' = file
    BY <1>2 DEF ProjectRestart, NotSaving
  <2>3. /\ restarts' \in Nat /\ loader'.data = NoFile
        /\ loader' = [at |-> loader'.at, data |-> loader'.data, todo |-> loader'.todo]
        /\ loader'.todo \subseteq DOMAIN loader'.data.traffic
    BY <1>0, <2>1, <2>2 DEF NotLoading
  <2>4. QED
    BY <1>0, <2>1, <2>2, <2>3, EmptyHolds DEF FilesInv, Holds
<1>3. CASE SaveBegin
  <2>1. PICK n \in 0..ExportLimit : \E s \in [1..n -> DOMAIN rows] :
            saver' = [at |-> "write",
                      data |-> [kind |-> "whole", epoch |-> restarts,
                                traffic |-> [id \in {s[i] : i \in 1..n} |-> rows[id].x]]]
    BY <1>3 DEF SaveBegin
  <2>2. PICK s \in [1..n -> DOMAIN rows] :
            saver' = [at |-> "write",
                      data |-> [kind |-> "whole", epoch |-> restarts,
                                traffic |-> [id \in {s[i] : i \in 1..n} |-> rows[id].x]]]
    BY <2>1
  <2>3. {s[i] : i \in 1..n} \subseteq DOMAIN rows
    OBVIOUS
  <2>4. /\ saver'.data.epoch = restarts
        /\ DOMAIN saver'.data.traffic \subseteq DOMAIN rows
        /\ saver'.data.traffic \in [DOMAIN saver'.data.traffic -> Nat]
    BY <1>0, <2>2, <2>3
  <2>5. file' = [NoFile EXCEPT !.kind = "torn"] /\ loader' = loader /\ UNCHANGED vars
    BY <1>3 DEF SaveBegin
  <2>6. file'.traffic = NoFile.traffic /\ file'.epoch = NoFile.epoch
    BY <2>5 DEF NoFile
  <2>7. TypeInv' /\ restarts' = restarts
    BY <1>0, <2>5, TypeStep DEF vars
  <2>8. QED
    BY <1>0, <2>4, <2>5, <2>6, <2>7, EmptyHolds DEF FilesInv, Holds
<1>4. CASE HandlerStep /\ ~SaveBegin
  <2>1. UNCHANGED vars
    BY <1>4, HandlersLeave
  <2>2. TypeInv' /\ restarts' = restarts
    BY <1>0, <2>1, TypeStep DEF vars
  <2>3. /\ file' = file \/ file' = saver.data
        /\ saver' = saver \/ saver' = NotSaving
        /\ \/ loader' = loader
           \/ loader' = [loader EXCEPT !.at = "clear"]
           \/ loader' = [at |-> "info", data |-> file, todo |-> DOMAIN file.traffic]
           \/ loader' = NotLoading
    BY <1>4 DEF HandlerStep, SaveEnd, LoadScope, LoadInfo, LoadEnd, NewInfo, NewScope
  <2>4. Holds(file)' /\ Holds(saver.data)'
    BY <1>0, <2>2, <2>3, EmptyHolds DEF Holds, NotSaving
  <2>5. loader'.data = loader.data \/ loader'.data = file \/ loader'.data = NoFile
    BY <1>0, <2>3 DEF NotLoading
  <2>6. /\ loader' = [at |-> loader'.at, data |-> loader'.data, todo |-> loader'.todo]
        /\ loader'.todo \subseteq DOMAIN loader'.data.traffic
    BY <1>0, <2>3 DEF NotLoading
  <2>7. Holds(loader.data)'
    BY <1>0, <2>2, <2>5, EmptyHolds DEF Holds
  <2>8. QED
    BY <2>2, <2>4, <2>6, <2>7 DEF FilesInv
<1>5. CASE LoadClear
  <2>1. TypeInv'
    <3>1. CASE rows' = NoRows
      BY <1>0, <1>5, <3>1, EmptyType DEF LoadClear
    <3>2. CASE rows' = rows
      BY <1>0, <1>5, <3>2, TypeStep DEF LoadClear, memoryVars, vars
    <3>3. QED
      BY <1>5, <3>1, <3>2 DEF LoadClear
  <2>2. /\ file' = file /\ saver' = saver /\ restarts' = restarts
        /\ loader' = [loader EXCEPT !.at = "insert"] \/ loader' = NotLoading
    BY <1>5 DEF LoadClear, memoryVars
  <2>3. /\ loader' = [at |-> loader'.at, data |-> loader'.data, todo |-> loader'.todo]
        /\ loader'.todo \subseteq DOMAIN loader'.data.traffic
        /\ loader'.data = loader.data \/ loader'.data = NoFile
    BY <1>0, <2>2 DEF NotLoading
  <2>4. QED
    BY <1>0, <2>1, <2>2, <2>3, EmptyHolds DEF FilesInv, Holds
<1>6. CASE LoadInsert
  <2>1. PICK id \in loader.todo :
            \/ /\ Insert(id, loader.data.traffic[id])
               /\ loader' = [loader EXCEPT !.todo = @ \ {id}]
            \/ loader' = NotLoading /\ UNCHANGED rows
    BY <1>6 DEF LoadInsert
  <2>2. /\ file' = file /\ saver' = saver /\ restarts' = restarts
        /\ UNCHANGED memoryVars
    BY <1>6 DEF LoadInsert, memoryVars
  <2>3. TypeInv'
    <3>1. id \in Nat /\ loader.data.traffic[id] \in Nat
      BY <1>0 DEF Holds
    <3>2. CASE Insert(id, loader.data.traffic[id])
      BY <1>0, <2>2, <3>1, <3>2, InsertType
    <3>3. CASE UNCHANGED rows
      BY <1>0, <2>2, <3>3, TypeStep DEF memoryVars, vars
    <3>4. QED
      BY <2>1, <3>2, <3>3
  <2>4. /\ loader' = [at |-> loader'.at, data |-> loader'.data, todo |-> loader'.todo]
        /\ loader'.todo \subseteq DOMAIN loader'.data.traffic
        /\ loader'.data = loader.data \/ loader'.data = NoFile
    BY <1>0, <2>1 DEF NotLoading
  <2>5. QED
    BY <1>0, <2>2, <2>3, <2>4, EmptyHolds DEF FilesInv, Holds
<1>7. CASE NewClear
  <2>1. TypeInv'
    <3>1. CASE rows' = NoRows
      BY <1>0, <1>7, <3>1, EmptyType DEF NewClear
    <3>2. CASE rows' = rows
      BY <1>0, <1>7, <3>2, TypeStep DEF NewClear, memoryVars, vars
    <3>3. QED
      BY <1>7, <3>1, <3>2 DEF NewClear
  <2>2. file' = file /\ saver' = saver /\ loader' = loader /\ restarts' = restarts
    BY <1>7 DEF NewClear, memoryVars
  <2>3. QED
    BY <1>0, <2>1, <2>2 DEF FilesInv, Holds
<1>8. CASE UNCHANGED allVars
  <2>1. UNCHANGED vars /\ UNCHANGED projectVars
    BY <1>8 DEF allVars
  <2>2. TypeInv' /\ restarts' = restarts
    BY <1>0, <2>1, TypeStep DEF vars
  <2>3. QED
    BY <1>0, <2>1, <2>2 DEF FilesInv, Holds, projectVars
<1>9. QED
  BY <1>1, <1>2, <1>3, <1>4, <1>5, <1>6, <1>7, <1>8 DEF ProjectNext, HandlerStep

----------------------------------------------------------------------------
\* A load puts back what the file lists.

LEMMA ReloadInit == ProjectInit => ReloadInv
BY DEF ProjectInit, ReloadInv, NotLoading

LEMMA ReloadStep == FilesInv /\ ReloadInv /\ [ProjectNext]_allVars => ReloadInv'
<1> SUFFICES ASSUME FilesInv, ReloadInv, [ProjectNext]_allVars PROVE ReloadInv'
  OBVIOUS
<1>0. /\ loader = [at |-> loader.at, data |-> loader.data, todo |-> loader.todo]
      /\ loader.todo \subseteq DOMAIN loader.data.traffic
  BY DEF FilesInv
<1>1. CASE CaptureServe \/ NewClear
  <2>1. loader' = loader /\ Disturb
    BY <1>1 DEF CaptureServe, NewClear
  <2>2. /\ ~wiped' => ~wiped /\ DOMAIN rows \subseteq DOMAIN rows'
        /\ meanwhile' = meanwhile \cup
               {id \in DOMAIN rows' : id \notin DOMAIN rows \/ rows'[id] # rows[id]}
    BY <2>1 DEF Disturb
  <2>3. /\ meanwhile \subseteq meanwhile'
        /\ \A id \in DOMAIN rows' \ meanwhile' : id \in DOMAIN rows /\ rows'[id] = rows[id]
    BY <2>2
  <2>4. ASSUME loader.at = "insert", ~wiped'
        PROVE  /\ DOMAIN loader.data.traffic \ loader.todo \subseteq DOMAIN rows'
               /\ DOMAIN rows' \subseteq DOMAIN loader.data.traffic \cup meanwhile'
               /\ \A id \in (DOMAIN loader.data.traffic \ loader.todo) \ meanwhile' :
                      rows'[id].x = loader.data.traffic[id]
    <3>1. /\ DOMAIN loader.data.traffic \ loader.todo \subseteq DOMAIN rows
          /\ DOMAIN rows \subseteq DOMAIN loader.data.traffic \cup meanwhile
          /\ \A id \in (DOMAIN loader.data.traffic \ loader.todo) \ meanwhile :
                 rows[id].x = loader.data.traffic[id]
      BY <2>2, <2>4 DEF ReloadInv
    <3>2. QED
      BY <2>2, <2>3, <2>4, <3>1
  <2>5. QED
    BY <2>1, <2>4 DEF ReloadInv
<1>2. CASE ProjectRestart
  <2>1. loader'.at = "idle"
    BY <1>2 DEF ProjectRestart, NotLoading
  <2>2. QED
    BY <2>1 DEF ReloadInv
<1>3. CASE HandlerStep
  <2>1. rows' = rows
    BY <1>3, HandlersLeave DEF vars
  <2>2. wiped' = wiped /\ meanwhile' = meanwhile
    BY <1>3 DEF HandlerStep, SaveBegin, SaveEnd, LoadScope, LoadInfo, LoadEnd, NewInfo, NewScope
  <2>3. \/ loader' = loader
        \/ loader.at = "info" /\ loader' = [loader EXCEPT !.at = "clear"]
        \/ loader' = [at |-> "info", data |-> file, todo |-> DOMAIN file.traffic]
        \/ loader' = NotLoading
    BY <1>3 DEF HandlerStep, SaveBegin, SaveEnd, LoadScope, LoadInfo, LoadEnd, NewInfo, NewScope
  <2>4. CASE loader' = loader
    BY <2>1, <2>2, <2>4 DEF ReloadInv
  <2>5. CASE loader.at = "info" /\ loader' = [loader EXCEPT !.at = "clear"]
    <3>1. loader'.at = "clear" /\ loader'.data = loader.data /\ loader'.todo = loader.todo
      BY <1>0, <2>5
    <3>2. QED
      BY <2>5, <3>1 DEF ReloadInv
  <2>6. CASE loader' = [at |-> "info", data |-> file, todo |-> DOMAIN file.traffic]
    BY <2>6 DEF ReloadInv
  <2>7. CASE loader' = NotLoading
    BY <2>7 DEF ReloadInv, NotLoading
  <2>8. QED
    BY <2>3, <2>4, <2>5, <2>6, <2>7
<1>4. CASE LoadClear
  <2>1. CASE rows' = NoRows /\ loader' = [loader EXCEPT !.at = "insert"]
    <3>1. /\ loader'.at = "insert" /\ loader'.data = loader.data /\ loader'.todo = loader.todo
          /\ DOMAIN rows' = {}
      BY <1>0, <2>1 DEF NoRows
    <3>2. loader.todo = DOMAIN loader.data.traffic
      BY <1>4 DEF LoadClear, ReloadInv
    <3>3. QED
      BY <3>1, <3>2 DEF ReloadInv
  <2>2. CASE loader' = NotLoading
    BY <2>2 DEF ReloadInv, NotLoading
  <2>3. QED
    BY <1>4, <2>1, <2>2 DEF LoadClear
<1>5. CASE LoadInsert
  <2>1. PICK id \in loader.todo :
            \/ /\ Insert(id, loader.data.traffic[id])
               /\ loader' = [loader EXCEPT !.todo = @ \ {id}]
            \/ loader' = NotLoading
    BY <1>5 DEF LoadInsert
  <2>2. loader.at = "insert" /\ wiped' = wiped /\ meanwhile' = meanwhile
    BY <1>5 DEF LoadInsert
  <2>3. CASE Insert(id, loader.data.traffic[id]) /\ loader' = [loader EXCEPT !.todo = @ \ {id}]
    <3>1. /\ loader'.at = "insert" /\ loader'.data = loader.data
          /\ loader'.todo = loader.todo \ {id} /\ id \in DOMAIN loader.data.traffic
      BY <1>0, <2>2, <2>3
    <3>2. /\ DOMAIN rows' = DOMAIN rows \cup {id}
          /\ rows'[id].x = loader.data.traffic[id]
          /\ \A i \in DOMAIN rows \ {id} : rows'[i] = rows[i]
      BY <2>3 DEF Insert
    <3>3. ASSUME ~wiped
          PROVE  /\ DOMAIN loader.data.traffic \ loader'.todo \subseteq DOMAIN rows'
                 /\ DOMAIN rows' \subseteq DOMAIN loader.data.traffic \cup meanwhile
                 /\ \A i \in (DOMAIN loader.data.traffic \ loader'.todo) \ meanwhile :
                        rows'[i].x = loader.data.traffic[i]
      <4>1. /\ DOMAIN loader.data.traffic \ loader.todo \subseteq DOMAIN rows
            /\ DOMAIN rows \subseteq DOMAIN loader.data.traffic \cup meanwhile
            /\ \A i \in (DOMAIN loader.data.traffic \ loader.todo) \ meanwhile :
                   rows[i].x = loader.data.traffic[i]
        BY <2>2, <3>3 DEF ReloadInv
      <4>2. QED
        BY <3>1, <3>2, <4>1
    <3>4. QED
      BY <2>2, <3>1, <3>3 DEF ReloadInv
  <2>4. CASE loader' = NotLoading
    BY <2>4 DEF ReloadInv, NotLoading
  <2>5. QED
    BY <2>1, <2>3, <2>4
<1>6. CASE UNCHANGED allVars
  <2>1. rows' = rows /\ loader' = loader /\ wiped' = wiped /\ meanwhile' = meanwhile
    BY <1>6 DEF allVars, vars, projectVars
  <2>2. QED
    BY <2>1 DEF ReloadInv
<1>7. QED
  BY <1>1, <1>2, <1>3, <1>4, <1>5, <1>6 DEF ProjectNext, HandlerStep

\* Only the answer of a finished load ends it in the process that began it.
LEMMA Restores == FilesInv /\ ReloadInv /\ [ProjectNext]_allVars => RestoreStep
<1> SUFFICES ASSUME FilesInv, ReloadInv, Loaded, ~wiped
             PROVE  /\ DOMAIN loader.data.traffic \subseteq DOMAIN rows
                    /\ DOMAIN rows \subseteq DOMAIN loader.data.traffic \cup meanwhile
                    /\ \A id \in DOMAIN loader.data.traffic \ meanwhile :
                           rows[id].x = loader.data.traffic[id]
  BY DEF RestoreStep
<1>1. loader.at = "insert" /\ loader.todo = {}
  BY DEF Loaded
<1>2. QED
  BY <1>1 DEF ReloadInv

\* A load that answers 200 has put every exchange of the file back, whatever
\* was pushed, cleared, saved or created meanwhile (project.rs:163).
THEOREM LoadsRestore == ProjectSpec => LoadRestores
<1>1. FilesInv /\ ReloadInv /\ [ProjectNext]_allVars =>
          [Loaded /\ loader'.at = "idle" /\ ~wiped /\ restarts' = restarts =>
               /\ DOMAIN loader.data.traffic \subseteq DOMAIN rows
               /\ DOMAIN rows \subseteq DOMAIN loader.data.traffic \cup meanwhile
               /\ \A id \in DOMAIN loader.data.traffic \ meanwhile :
                      rows[id].x = loader.data.traffic[id]]_allVars
  BY Restores DEF RestoreStep
<1>2. QED
  BY <1>1, FilesInit, FilesStep, ReloadInit, ReloadStep, PTL DEF ProjectSpec, LoadRestores

----------------------------------------------------------------------------
\* A push replaces no row.

KeepsApart == FilesInv /\ IdInv /\ SpentInv

LEMMA KeepsInit == ProjectInit => KeepsApart
<1> SUFFICES ASSUME ProjectInit PROVE KeepsApart
  OBVIOUS
<1>1. FilesInv /\ IdInv
  BY FilesInit, IdInit DEF ProjectInit
<1>2. DOMAIN rows = {} /\ DOMAIN NoFile.traffic = {}
  BY DEF ProjectInit, Init, NoRows, NoFile, Empty
<1>3. file = NoFile /\ saver.data = NoFile /\ loader.data = NoFile /\ loader.at = "idle"
  BY DEF ProjectInit, NotSaving, NotLoading
<1>4. QED
  BY <1>1, <1>2, <1>3 DEF KeepsApart, SpentInv

\* The ids of the tasks stay apart whatever happens to the table.
LEMMA IdsStayApart == FilesInv /\ IdInv /\ [ProjectNext]_allVars => IdInv'
<1> SUFFICES ASSUME FilesInv, IdInv, [ProjectNext]_allVars PROVE IdInv'
  OBVIOUS
<1>1. TypeInv'
  BY FilesStep DEF FilesInv
<1>2. CASE CaptureServe \/ ProjectRestart
  BY <1>2, IdStep DEF CaptureServe, ProjectRestart, Next
<1>3. CASE HandlerStep
  <2>1. [Next]_vars
    BY <1>3, HandlersLeave
  <2>2. QED
    BY <2>1, IdStep
<1>4. CASE LoadClear \/ LoadInsert \/ NewClear
  <2>1. UNCHANGED <<entries, counter, task>>
    BY <1>4 DEF LoadClear, LoadInsert, NewClear, memoryVars
  <2>2. QED
    BY <1>1, <2>1 DEF IdInv, InFlightInv, DistinctIds, Busy
<1>5. CASE UNCHANGED allVars
  <2>1. [Next]_vars
    BY <1>5 DEF allVars
  <2>2. QED
    BY <2>1, IdStep
<1>6. QED
  BY <1>2, <1>3, <1>4, <1>5 DEF ProjectNext, HandlerStep

\* A step of the capture uses up ids and gives none back, and the ids it writes
\* to the table are used up.
LEMMA SpentStays ==
    ASSUME IdInv, Serve
    PROVE  /\ \A id \in Nat : Spent(id) => Spent(id)'
           /\ \A id \in DOMAIN rows' :
                  (id \in DOMAIN rows /\ rows'[id] = rows[id]) \/ Spent(id)'
<1>0. /\ TypeInv /\ InFlightInv /\ counter \in Nat
      /\ task \in [Pushers -> [at : Stages, id : Nat, x : Nat]]
  BY DEF IdInv, TypeInv, TypeOK
<1>1. ASSUME NEW p \in Pushers, PushAllocate(p)
      PROVE  /\ \A id \in Nat : Spent(id) => Spent(id)'
             /\ \A id \in DOMAIN rows' :
                    (id \in DOMAIN rows /\ rows'[id] = rows[id]) \/ Spent(id)'
  <2>1. /\ rows' = rows /\ counter' = counter + 1 /\ task'[p].id = counter
        /\ \A q \in Pushers : q # p => task'[q] = task[q]
    BY <1>0, <1>1 DEF PushAllocate
  <2>2. QED
    BY <1>0, <2>1 DEF Spent, Busy
<1>2. ASSUME NEW p \in Pushers, PushMemory(p) \/ PushAnnounce(p)
      PROVE  /\ \A id \in Nat : Spent(id) => Spent(id)'
             /\ \A id \in DOMAIN rows' :
                    (id \in DOMAIN rows /\ rows'[id] = rows[id]) \/ Spent(id)'
  <2>1. /\ rows' = rows /\ counter' = counter /\ task[p].at # "idle"
        /\ \A q \in Pushers : task'[q].id = task[q].id /\ (q # p => task'[q] = task[q])
    BY <1>0, <1>2 DEF PushMemory, PushAnnounce
  <2>2. QED
    BY <1>0, <2>1 DEF Spent, Busy
<1>3. ASSUME NEW p \in Pushers, PushPersist(p)
      PROVE  /\ \A id \in Nat : Spent(id) => Spent(id)'
             /\ \A id \in DOMAIN rows' :
                    (id \in DOMAIN rows /\ rows'[id] = rows[id]) \/ Spent(id)'
  <2>1. /\ counter' = counter /\ task[p].at # "idle" /\ task' = [task EXCEPT ![p] = Idle]
    BY <1>3 DEF PushPersist
  <2>2. \A q \in Pushers : task'[q].at # "idle" => q # p /\ task'[q] = task[q]
    BY <1>0, <2>1 DEF Idle
  <2>3. task[p].id < counter /\ \A q \in Pushers \ {p} : Busy(q) => task[q].id # task[p].id
    BY <1>0, <2>1 DEF InFlightInv, Busy
  <2>4. \A id \in DOMAIN rows' :
            (id \in DOMAIN rows /\ rows'[id] = rows[id]) \/ id = task[p].id
    BY <1>3, PersistFacts
  <2>5. QED
    BY <1>0, <2>1, <2>2, <2>3, <2>4 DEF Spent, Busy
<1>4. ASSUME NEW c \in Clearers, ClearMemory(c) \/ ClearStorage(c)
      PROVE  /\ \A id \in Nat : Spent(id) => Spent(id)'
             /\ \A id \in DOMAIN rows' :
                    (id \in DOMAIN rows /\ rows'[id] = rows[id]) \/ Spent(id)'
  <2>1. /\ counter' = counter /\ task' = task
        /\ rows' = rows \/ DOMAIN rows' = {}
    BY <1>4 DEF ClearMemory, ClearStorage, NoRows
  <2>2. QED
    BY <2>1 DEF Spent, Busy
<1>5. QED
  BY <1>1, <1>2, <1>3, <1>4 DEF Serve

LEMMA KeepsStep == KeepsApart /\ [ProjectNext]_allVars => KeepsApart'
<1> SUFFICES ASSUME KeepsApart, [ProjectNext]_allVars PROVE KeepsApart'
  OBVIOUS
<1>0. /\ FilesInv /\ IdInv /\ SpentInv /\ FilesInv' /\ IdInv' /\ TypeInv
      /\ restarts \in Nat
      /\ loader = [at |-> loader.at, data |-> loader.data, todo |-> loader.todo]
      /\ loader.todo \subseteq DOMAIN loader.data.traffic
      /\ DOMAIN rows \subseteq Nat /\ DOMAIN file.traffic \subseteq Nat
      /\ DOMAIN saver.data.traffic \subseteq Nat /\ DOMAIN loader.data.traffic \subseteq Nat
      /\ \A id \in DOMAIN rows : rows[id].x \in Nat
      /\ \A id \in DOMAIN file.traffic : file.traffic[id] \in Nat
      /\ \A id \in DOMAIN saver.data.traffic : saver.data.traffic[id] \in Nat
      /\ \A id \in DOMAIN loader.data.traffic : loader.data.traffic[id] \in Nat
      /\ file.epoch \in 0..restarts /\ loader.data.epoch \in 0..restarts
  BY FilesStep, IdsStayApart DEF KeepsApart, FilesInv, Holds, TypeInv, TypeOK
<1>e. DOMAIN NoFile.traffic = {}
  BY DEF NoFile, Empty
<1> SUFFICES SpentInv'
  BY <1>0 DEF KeepsApart
<1>1. CASE CaptureServe
  <2>1. /\ Serve /\ foreign' = foreign /\ restarts' = restarts
        /\ file' = file /\ saver' = saver /\ loader' = loader
    BY <1>1 DEF CaptureServe, Serve, PushAllocate, PushMemory, PushAnnounce, PushPersist,
                ClearMemory, ClearStorage
  <2>2. /\ \A id \in Nat : Spent(id) => Spent(id)'
        /\ \A id \in DOMAIN rows' :
               (id \in DOMAIN rows /\ rows'[id] = rows[id]) \/ Spent(id)'
    BY <1>0, <2>1, SpentStays
  <2>3. unread' = unread
    BY <2>1 DEF Serve, PushAllocate, PushMemory, PushAnnounce, PushPersist, ClearMemory,
                ClearStorage
  <2>4. QED
    BY <1>0, <2>1, <2>2, <2>3 DEF SpentInv, Harmless
<1>2. CASE ProjectRestart
  <2>1. PICK k \in Keys : Restart(k)
    BY <1>2 DEF ProjectRestart
  <2>2. /\ rows' = rows /\ restarts' = restarts + 1
        /\ \A p \in Pushers : task'[p].at = "idle"
    BY <2>1 DEF Restart, Idle
  <2>3. \A id \in DOMAIN rows : id < counter' \/ rows[id].x \in unread'
    BY <1>0, <2>1, RestartAboveRows
  <2>4. file' = file /\ saver'.data = NoFile /\ loader'.data = NoFile /\ loader'.at = "idle"
    BY <1>2 DEF ProjectRestart, NotSaving, NotLoading
  <2>5. file'.epoch # restarts'
    BY <1>0, <2>2, <2>4
  <2>6. QED
    BY <1>0, <1>e, <2>2, <2>3, <2>4, <2>5 DEF SpentInv, Harmless, Spent, Busy
<1>3. CASE SaveBegin
  <2>1. /\ UNCHANGED vars /\ foreign' = foreign /\ loader' = loader
        /\ file' = [NoFile EXCEPT !.kind = "torn"]
    BY <1>3 DEF SaveBegin
  <2>2. PICK n \in 0..ExportLimit : \E s \in [1..n -> DOMAIN rows] :
            saver' = [at |-> "write",
                      data |-> [kind |-> "whole", epoch |-> restarts,
                                traffic |-> [id \in {s[i] : i \in 1..n} |-> rows[id].x]]]
    BY <1>3 DEF SaveBegin
  <2>3. PICK s \in [1..n -> DOMAIN rows] :
            saver' = [at |-> "write",
                      data |-> [kind |-> "whole", epoch |-> restarts,
                                traffic |-> [id \in {s[i] : i \in 1..n} |-> rows[id].x]]]
    BY <2>2
  <2>4. /\ DOMAIN saver'.data.traffic \subseteq DOMAIN rows
        /\ \A id \in DOMAIN saver'.data.traffic : saver'.data.traffic[id] = rows[id].x
    BY <2>3
  <2>5. DOMAIN file'.traffic = {}
    BY <2>1 DEF NoFile, Empty
  <2>6. UNCHANGED <<rows, counter, task, restarts, unread>>
    BY <2>1 DEF vars
  <2>7. \A id \in Nat, x \in Nat : Harmless(id, x)' <=> Harmless(id, x)
    BY <2>6 DEF Harmless, Spent, Busy
  <2>8. QED
    BY <1>0, <2>1, <2>4, <2>5, <2>6, <2>7 DEF SpentInv
<1>4. CASE HandlerStep /\ ~SaveBegin
  <2>1. UNCHANGED vars
    BY <1>4, HandlersLeave
  <2>2. UNCHANGED <<rows, counter, task, restarts, unread>>
    BY <2>1 DEF vars
  <2>3. \A id \in Nat, x \in Nat : Harmless(id, x)' <=> Harmless(id, x)
    BY <2>2 DEF Harmless, Spent, Busy
  <2>4. /\ file' = file \/ file' = saver.data
        /\ saver' = saver \/ saver' = NotSaving
        /\ foreign' = foreign
        /\ \/ loader' = loader
           \/ loader' = [loader EXCEPT !.at = "clear"]
           \/ loader' = [at |-> "info", data |-> file, todo |-> DOMAIN file.traffic]
           \/ loader' = NotLoading
    BY <1>4 DEF HandlerStep, SaveEnd, LoadScope, LoadInfo, LoadEnd, NewInfo, NewScope
  <2>5. \/ loader'.data = loader.data /\ (loader'.at = loader.at \/ loader'.at = "clear")
        \/ loader'.data = file /\ loader'.at = "info"
        \/ loader'.data = NoFile /\ loader'.at = "idle"
    BY <1>0, <2>4 DEF NotLoading
  <2>6. saver'.data = saver.data \/ saver'.data = NoFile
    BY <2>4 DEF NotSaving
  <2>7. QED
    BY <1>0, <1>e, <2>2, <2>3, <2>4, <2>5, <2>6 DEF SpentInv
<1>5. CASE LoadClear
  <2>1. /\ UNCHANGED <<counter, task, restarts, unread, file, saver>>
        /\ foreign' = (foreign \/ loader.data.epoch < restarts)
    BY <1>5 DEF LoadClear, memoryVars
  <2>2. rows' = rows \/ DOMAIN rows' = {}
    BY <1>5 DEF LoadClear, NoRows
  <2>3. loader'.data = loader.data \/ (loader'.data = NoFile /\ loader'.at = "idle")
    <3>1. loader' = [loader EXCEPT !.at = "insert"] \/ loader' = NotLoading
      BY <1>5 DEF LoadClear
    <3>2. CASE loader' = [loader EXCEPT !.at = "insert"]
      <4>1. loader = [at |-> loader.at, data |-> loader.data, todo |-> loader.todo]
        BY <1>0
      <4>2. QED
        BY <3>2, <4>1
    <3>3. CASE loader' = NotLoading
      BY <3>3 DEF NotLoading
    <3>4. QED
      BY <3>1, <3>2, <3>3
  <2>4. \A id \in Nat, x \in Nat : Harmless(id, x)' <=> Harmless(id, x)
    BY <2>1 DEF Harmless, Spent, Busy
  <2>5. ~foreign' => ~foreign /\ loader.data.epoch = restarts
    <3>1. loader.data.epoch < restarts \/ loader.data.epoch = restarts
      BY <1>0
    <3>2. QED
      BY <2>1, <3>1
  <2>6. QED
    BY <1>0, <1>e, <2>1, <2>2, <2>3, <2>4, <2>5 DEF SpentInv
<1>6. CASE LoadInsert
  <2>1. PICK id \in loader.todo :
            \/ /\ Insert(id, loader.data.traffic[id])
               /\ loader' = [loader EXCEPT !.todo = @ \ {id}]
            \/ loader' = NotLoading /\ UNCHANGED rows
    BY <1>6 DEF LoadInsert
  <2>2. /\ UNCHANGED <<counter, task, restarts, unread, file, saver, foreign>>
        /\ loader.at = "insert"
    BY <1>6 DEF LoadInsert, memoryVars
  <2>3. /\ \A i \in DOMAIN rows' :
               \/ i \in DOMAIN rows /\ rows'[i] = rows[i]
               \/ i = id /\ rows'[i].x = loader.data.traffic[id]
        /\ id \in DOMAIN loader.data.traffic
    BY <1>0, <2>1 DEF Insert
  <2>4. \/ loader'.data = loader.data /\ loader'.at = loader.at
        \/ loader'.data = NoFile /\ loader'.at = "idle"
    BY <1>0, <2>1 DEF NotLoading
  <2>5. \A i \in Nat, x \in Nat : Harmless(i, x)' <=> Harmless(i, x)
    BY <2>2 DEF Harmless, Spent, Busy
  <2>6. ~foreign => Harmless(id, loader.data.traffic[id])
    BY <1>0, <2>2, <2>3 DEF SpentInv
  <2>7. QED
    BY <1>0, <1>e, <2>2, <2>3, <2>4, <2>5, <2>6 DEF SpentInv
<1>7. CASE NewClear
  <2>1. UNCHANGED <<counter, task, restarts, unread, file, saver, loader, foreign>>
    BY <1>7 DEF NewClear, memoryVars
  <2>2. rows' = rows \/ DOMAIN rows' = {}
    BY <1>7 DEF NewClear, NoRows
  <2>3. \A i \in Nat, x \in Nat : Harmless(i, x)' <=> Harmless(i, x)
    BY <2>1 DEF Harmless, Spent, Busy
  <2>4. QED
    BY <1>0, <2>1, <2>2, <2>3 DEF SpentInv
<1>8. CASE UNCHANGED allVars
  <2>1. UNCHANGED <<rows, counter, task, restarts, unread, file, saver, loader, foreign>>
    BY <1>8 DEF allVars, vars, projectVars
  <2>2. \A i \in Nat, x \in Nat : Harmless(i, x)' <=> Harmless(i, x)
    BY <2>1 DEF Harmless, Spent, Busy
  <2>3. QED
    BY <1>0, <2>1, <2>2 DEF SpentInv
<1>9. QED
  BY <1>1, <1>2, <1>3, <1>4, <1>5, <1>6, <1>7, <1>8 DEF ProjectNext, HandlerStep

\* A task leaves "persist" in its own insert or in a crash.
LEMMA Replaces == KeepsApart /\ [ProjectNext]_allVars => ReplaceStep
<1> SUFFICES ASSUME KeepsApart, [ProjectNext]_allVars, NEW p \in Pushers,
                    task[p].at = "persist", task'[p].at = "idle", ~foreign,
                    restarts' = restarts
             PROVE  task[p].id \in DOMAIN rows => Unread(task[p].id)
  BY DEF ReplaceStep
<1>0. /\ restarts \in Nat /\ task \in [Pushers -> [at : Stages, id : Nat, x : Nat]]
  BY DEF KeepsApart, FilesInv, TypeInv, TypeOK
<1>1. \A id \in DOMAIN rows : Harmless(id, rows[id].x)
  BY DEF KeepsApart, SpentInv
<1>2. Busy(p)
  BY DEF Busy
<1>3. QED
  BY <1>1, <1>2 DEF Harmless, Spent, Unread

\* No push ever replaces a row, although loads put ids in the table that the counter
\* knows nothing of; unless the file is an earlier process's, or the start of the
\* process could not read the row (capture.rs:96, storage.rs:113).
THEOREM PushesReplaceNothing == ProjectSpec => PushReplacesNothing
<1>1. KeepsApart /\ [ProjectNext]_allVars =>
          [\A p \in Pushers :
               task[p].at = "persist" /\ task'[p].at = "idle" /\ rows' # rows /\ ~foreign
               /\ restarts' = restarts =>
                   (task[p].id \in DOMAIN rows => Unread(task[p].id))]_allVars
  BY Replaces DEF ReplaceStep
<1>2. QED
  BY <1>1, KeepsInit, KeepsStep, PTL DEF ProjectSpec, PushReplacesNothing
=============================================================================
