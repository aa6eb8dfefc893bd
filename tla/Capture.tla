------------------------------ MODULE Capture ------------------------------
(***************************************************************************)
(* RequestCapture (core/src/capture.rs) over CaptureStorage                *)
(* (core/src/storage.rs): a bounded in-memory deque of captured exchanges  *)
(* in front of one SQLite table, fed by concurrent proxy tasks, emptied by *)
(* DELETE /api/requests and rebuilt from the table when the process starts.*)
(*                                                                         *)
(* An exchange (a request and its response) is the number of the push that *)
(* captured it.  The deque's lock, the broadcast channel and SQLite each   *)
(* make one step of a push or a clear atomic; nothing spans two of them,   *)
(* so tasks interleave between the steps and a crash can fall there.       *)
(***************************************************************************)
EXTENDS Integers, Sequences, Functions

CONSTANTS
    Pushers,          \* proxy and repeater tasks that may be inside push()
    Clearers,         \* API requests that may be inside clear()
    Capacity,         \* the capacity given to with_storage (10_000 in main.rs)
    DefaultCapacity,  \* DEFAULT_CAPACITY, which replaces a capacity of zero
    Keys,             \* encryption keys the process may be started with
    NoKey,            \* the pseudo key of INTERCEPTOR_UNENCRYPTED mode
    StorageMayFail,   \* TRUE: an insert, a delete or a query may return an error
    MaxPushes,        \* bound: exchanges captured in a behaviour
    MaxRestarts       \* bound: crashes or shutdowns followed by a start

ASSUME CapacityAssumption == Capacity \in Nat /\ DefaultCapacity \in Nat \ {0}
ASSUME BoundAssumption == MaxPushes \in Nat /\ MaxRestarts \in Nat
ASSUME FailureAssumption == StorageMayFail \in BOOLEAN

VARIABLES
    key,        \* the key of the running process
    rows,       \* table captures: id -> the exchange and the key it is sealed with
    entries,    \* the VecDeque, front first
    counter,    \* the AtomicU64 the next id is taken from
    task,       \* per pusher: the step its push() is about to take
    sweep,      \* per clearer: the step its clear() is about to take
    born,       \* exchanges captured so far (names the next one)
    restarts,   \* starts after the first one
    announced,  \* history: exchanges sent to the broadcast channel
    gone,       \* history: exchanges that a successful clear() had to remove
    unread      \* history: exchanges in storage when a start read none of it

vars == <<key, rows, entries, counter, task, sweep, born, restarts, announced, gone, unread>>

Bound == IF Capacity = 0 THEN DefaultCapacity ELSE Capacity

Stages == {"idle", "memory", "announce", "persist"}
Idle == [at |-> "idle", id |-> 0, x |-> 0]
Quiet == [at |-> "idle", doomed |-> {}]
NoRows == [id \in {} |-> [x |-> 0, key |-> NoKey]]

Busy(p) == task[p].at # "idle"
\* Exchanges whose push has returned or died with the process.
Finished == {x \in 1..born : \A p \in Pushers : Busy(p) => task[p].x # x}
InMemory == {entries[i].x : i \in DOMAIN entries}
InStorage == {rows[id].x : id \in DOMAIN rows}

TypeOK ==
    /\ key \in Keys
    /\ DOMAIN rows \subseteq Nat
    /\ rows \in [DOMAIN rows -> [x : Nat, key : Keys]]
    /\ entries \in Seq([id : Nat, x : Nat])
    /\ counter \in Nat
    /\ task \in [Pushers -> [at : Stages, id : Nat, x : Nat]]
    /\ sweep \in [Clearers -> [at : {"idle", "storage"}, doomed : SUBSET Nat]]
    /\ born \in Nat
    /\ restarts \in Nat
    /\ announced \in SUBSET Nat
    /\ gone \in SUBSET Nat
    /\ unread \in SUBSET Nat

----------------------------------------------------------------------------
\* RequestCapture::push

\* push_front, then pop_back while the deque is longer than the capacity.
PushFront(e) ==
    LET longer == <<e>> \o entries
    IN  IF Len(longer) > Bound THEN SubSeq(longer, 1, Bound) ELSE longer

\* counter.fetch_add: the id is taken before any lock.
PushAllocate(p) ==
    /\ task[p].at = "idle"
    /\ born < MaxPushes
    /\ born' = born + 1
    /\ counter' = counter + 1
    /\ task' = [task EXCEPT ![p] = [at |-> "memory", id |-> counter, x |-> born + 1]]
    /\ UNCHANGED <<key, rows, entries, sweep, restarts, announced, gone, unread>>

\* Mutant: the notification is forgotten.
PushMemorySilent(p) ==
    /\ task[p].at = "memory"
    /\ entries' = PushFront([id |-> task[p].id, x |-> task[p].x])
    /\ task' = [task EXCEPT ![p].at = "persist"]
    /\ UNCHANGED <<key, rows, counter, sweep, born, restarts, announced, gone, unread>>

\* The critical section of entries.write().
PushMemory(p) ==
    /\ task[p].at = "memory"
    /\ entries' = PushFront([id |-> task[p].id, x |-> task[p].x])
    /\ task' = [task EXCEPT ![p].at = "announce"]
    /\ UNCHANGED <<key, rows, counter, sweep, born, restarts, announced, gone, unread>>

\* notifier.send, after the lock is dropped.
PushAnnounce(p) ==
    /\ task[p].at = "announce"
    /\ announced' = announced \cup {task[p].x}
    /\ task' = [task EXCEPT ![p].at = "persist"]
    /\ UNCHANGED <<key, rows, entries, counter, sweep, born, restarts, gone, unread>>

\* INSERT OR REPLACE: the primary key is the id.
Insert(id, x) ==
    rows' = [i \in DOMAIN rows \cup {id} |->
                IF i = id THEN [x |-> x, key |-> key] ELSE rows[i]]

\* storage.insert, whose error is only logged; then push returns the id.
PushPersist(p) ==
    /\ task[p].at = "persist"
    /\ \/ Insert(task[p].id, task[p].x)
       \/ StorageMayFail /\ UNCHANGED rows
    /\ task' = [task EXCEPT ![p] = Idle]
    /\ UNCHANGED <<key, entries, counter, sweep, born, restarts, announced, gone, unread>>

----------------------------------------------------------------------------
\* RequestCapture::clear

\* Mutant: only storage is cleared.
ClearMemoryKept(c) ==
    /\ sweep[c].at = "idle"
    /\ sweep' = [sweep EXCEPT ![c] = [at |-> "storage", doomed |-> Finished]]
    /\ UNCHANGED <<key, rows, entries, counter, task, born, restarts, announced, gone, unread>>

\* Mutant: the ids start again from one with the empty deque.
ClearMemoryRenumber(c) ==
    /\ sweep[c].at = "idle"
    /\ entries' = <<>>
    /\ counter' = 1
    /\ sweep' = [sweep EXCEPT ![c] = [at |-> "storage", doomed |-> Finished]]
    /\ UNCHANGED <<key, rows, task, born, restarts, announced, gone, unread>>

ClearMemory(c) ==
    /\ sweep[c].at = "idle"
    /\ entries' = <<>>
    /\ sweep' = [sweep EXCEPT ![c] = [at |-> "storage", doomed |-> Finished]]
    /\ UNCHANGED <<key, rows, counter, task, born, restarts, announced, gone, unread>>

\* storage.clear, whose error is only logged.
ClearStorage(c) ==
    /\ sweep[c].at = "storage"
    /\ \/ /\ rows' = NoRows
          /\ gone' = gone \cup sweep[c].doomed
       \/ /\ StorageMayFail
          /\ UNCHANGED <<rows, gone>>
    /\ sweep' = [sweep EXCEPT ![c] = Quiet]
    /\ UNCHANGED <<key, entries, counter, task, born, restarts, announced, unread>>

----------------------------------------------------------------------------
\* A crash or shutdown, then RequestCapture::with_storage

\* s lists, smallest first, the n ids that ORDER BY id DESC LIMIT limit selects.
IsWindow(s, n, limit) ==
    /\ \A i, j \in 1..n : i < j => s[i] < s[j]
    /\ \A id \in DOMAIN rows :
           \/ \E i \in 1..n : s[i] = id
           \/ n = limit /\ \A i \in 1..n : id < s[i]

\* Headers sealed with another key fail the whole query; a process without a
\* key takes the stored bytes as they are.
Readable(id, k) == k = NoKey \/ rows[id].key = k

\* Mutant: the counter restarts at the largest id instead of after it.
LoadReusing(s, n, k) ==
    /\ entries' = [i \in 1..n |-> [id |-> s[i], x |-> rows[s[i]].x]]
    /\ counter' = IF n = 0 THEN 1 ELSE s[n]

\* Mutant: the counter continues after the last row of the query, the oldest.
LoadAfterOldest(s, n, k) ==
    /\ entries' = [i \in 1..n |-> [id |-> s[i], x |-> rows[s[i]].x]]
    /\ counter' = 1 + IF n = 0 THEN 0 ELSE s[1]

\* The loaded rows are pushed to the back, oldest first.  A query that fails, on
\* a row sealed with another key or because the database cannot be opened or
\* read, loads nothing, and the ids start again from one.
Load(s, n, k) ==
    \/ /\ \A i \in 1..n : Readable(s[i], k)
       /\ entries' = [i \in 1..n |-> [id |-> s[i], x |-> rows[s[i]].x]]
       /\ counter' = 1 + IF n = 0 THEN 0 ELSE s[n]
    \/ /\ StorageMayFail \/ \E i \in 1..n : ~Readable(s[i], k)
       /\ entries' = <<>>
       /\ counter' = 1

Restart(k) ==
    /\ restarts < MaxRestarts
    /\ restarts' = restarts + 1
    /\ key' = k
    /\ \E n \in 0..Capacity : \E s \in [1..n -> DOMAIN rows] :
           IsWindow(s, n, Capacity) /\ Load(s, n, k)
    /\ unread' = IF entries' = <<>> THEN InStorage ELSE {}
    /\ task' = [p \in Pushers |-> Idle]
    /\ sweep' = [c \in Clearers |-> Quiet]
    /\ UNCHANGED <<rows, born, announced, gone>>

----------------------------------------------------------------------------
Init ==
    /\ key \in Keys
    /\ rows = NoRows
    /\ entries = <<>>
    /\ counter = 1
    /\ task = [p \in Pushers |-> Idle]
    /\ sweep = [c \in Clearers |-> Quiet]
    /\ born = 0
    /\ restarts = 0
    /\ announced = {}
    /\ gone = {}
    /\ unread = {}

\* The steps of the running process.
Serve ==
    \/ \E p \in Pushers : \/ PushAllocate(p)
                          \/ PushMemory(p)
                          \/ PushAnnounce(p)
                          \/ PushPersist(p)
    \/ \E c \in Clearers : ClearMemory(c) \/ ClearStorage(c)

Next == Serve \/ \E k \in Keys : Restart(k)

Spec == Init /\ [][Next]_vars

----------------------------------------------------------------------------
\* What keeps ids apart: the strengthening behind MemoryIsKeyed.

\* Ids in flight are below the counter, one per push, and not in memory yet
\* when the push has still to put its entry there.
InFlightInv ==
    /\ counter >= 1
    /\ \A p \in Pushers : Busy(p) =>
           /\ task[p].id < counter
           /\ \A q \in Pushers \ {p} : Busy(q) => task[q].id # task[p].id
    /\ \A i \in DOMAIN entries : entries[i].id < counter
    /\ \A p \in Pushers : task[p].at = "memory" =>
           \A i \in DOMAIN entries : entries[i].id # task[p].id

\* A row that this start knows nothing of may have an id that is handed out again.
Unread(id) == rows[id].x \in unread

\* The same separates a push from the rows that the start has read or the process
\* has stored: none has an id that is still to be stored or handed out.
StorageInv ==
    /\ \A id \in DOMAIN rows : rows[id].x <= born /\ (id < counter \/ Unread(id))
    /\ \A p \in Pushers : Busy(p) =>
           /\ task[p].x <= born
           /\ task[p].id \in DOMAIN rows => Unread(task[p].id)
           /\ \A id \in DOMAIN rows : rows[id].x # task[p].x
           /\ \A q \in Pushers \ {p} : Busy(q) => task[q].x # task[p].x

----------------------------------------------------------------------------
\* Properties

\* The deque never outgrows its capacity and never holds two entries with one
\* id, so get(id) (capture.rs:149) finds the only one: concurrent pushes,
\* clears, restarts and a key change may reset the counter, but never below
\* an id that is in memory or on its way there.
MemoryIsKeyed ==
    /\ Len(entries) <= Bound
    /\ \A i, j \in DOMAIN entries : i # j => entries[i].id # entries[j].id

\* An exchange is announced on the live feed before it is stored: a dashboard
\* that listened from the start has seen every row that list_requests returns,
\* whatever crashed in between (capture.rs:140).
StoredWasAnnounced == InStorage \subseteq announced

\* What a clear() had to remove, every exchange whose push was over before the
\* clear began, is never seen again once its DELETE succeeded: not in memory,
\* not in storage, not after a restart (capture.rs:158).
ClearedStaysCleared == gone \cap (InMemory \cup InStorage) = {}

\* An exchange that get(id) finds in memory and that list_requests finds in
\* storage under the same id is the same exchange, although the two are written
\* in separate steps, cleared in separate steps and rebuilt at every start; unless
\* the listed one was in storage when this process started and read nothing of it
\* (capture.rs:96, 149, 179).
GetAndListAgree ==
    \A i \in DOMAIN entries :
        entries[i].id \in DOMAIN rows =>
            rows[entries[i].id].x = entries[i].x \/ Unread(entries[i].id)

\* A push drops the entries with the smallest ids, its own included: "Oldest
\* entries should be evicted" (capture.rs:340).
EvictsOldest ==
    [][\A p \in Pushers : task[p].at = "memory" /\ task'[p].at = "announce" =>
           LET pushed == [id |-> task[p].id, x |-> task[p].x]
               dropped == (Range(entries) \cup {pushed}) \ Range(entries')
           IN  \A old \in dropped, kept \in Range(entries') : old.id < kept.id]_vars

\* The rows as the log of exchanges that storage promises to be: a row is
\* overwritten only when the last start could not read it.
Log == INSTANCE TrafficLog WITH log <- [id \in DOMAIN rows |-> rows[id].x],
                                forgotten <- unread
LogSpec == Log!Spec
=============================================================================
