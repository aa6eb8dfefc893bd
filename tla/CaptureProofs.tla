--------------------------- MODULE CaptureProofs ---------------------------
(***************************************************************************)
(* Theorems about Capture, for every set of pushers and clearers, every    *)
(* capacity, every set of keys and any bounds.                             *)
(***************************************************************************)
EXTENDS Capture, TLAPS

Entry == [id : Nat, x : Nat]

\* The capacity in force is positive.
LEMMA BoundPositive == Bound \in Nat \ {0}
BY CapacityAssumption DEF Bound

\* push_front followed by the truncation yields a sequence of entries, no
\* longer than the capacity, whose members are the new entry at the front
\* and old entries moved one place back.
LEMMA PushFrontFacts ==
    ASSUME NEW e \in Entry, entries \in Seq(Entry), Len(entries) <= Bound
    PROVE  /\ PushFront(e) \in Seq(Entry)
           /\ Len(PushFront(e)) <= Bound
           /\ PushFront(e)[1] = e
           /\ \A i \in DOMAIN PushFront(e) :
                  i # 1 => i - 1 \in DOMAIN entries /\ PushFront(e)[i] = entries[i - 1]
<1> DEFINE longer == <<e>> \o entries
<1>1. /\ longer \in Seq(Entry)
      /\ Len(longer) = Len(entries) + 1
      /\ \A i \in 1..Len(longer) :
             longer[i] = IF i = 1 THEN e ELSE entries[i - 1]
  OBVIOUS
<1>2. CASE Len(longer) > Bound
  <2>1. PushFront(e) = SubSeq(longer, 1, Bound)
    BY <1>2 DEF PushFront
  <2>2. /\ SubSeq(longer, 1, Bound) \in Seq(Entry)
        /\ Len(SubSeq(longer, 1, Bound)) = Bound
        /\ \A i \in 1..Bound : SubSeq(longer, 1, Bound)[i] = longer[i]
    BY <1>1, <1>2, BoundPositive
  <2>3. DOMAIN PushFront(e) = 1..Bound /\ Bound \in Nat /\ Bound >= 1
    BY <2>1, <2>2, BoundPositive
  <2>4. PushFront(e)[1] = e
    BY <2>1, <2>2, <2>3, <1>1, <1>2
  <2>5. ASSUME NEW i \in 1..Bound, i # 1
        PROVE  i - 1 \in DOMAIN entries /\ PushFront(e)[i] = entries[i - 1]
    <3>1. i \in 1..Len(longer) /\ i - 1 \in 1..Len(entries)
      BY <1>1, <1>2, <2>3, <2>5
    <3>2. QED
      BY <3>1, <1>1, <2>1, <2>2, <2>5
  <2>6. QED
    BY <2>1, <2>2, <2>3, <2>4, <2>5
<1>3. CASE ~(Len(longer) > Bound)
  <2>1. PushFront(e) = longer
    BY <1>3 DEF PushFront
  <2>2. QED
    BY <2>1, <1>1, <1>3, BoundPositive
<1>4. QED
  BY <1>2, <1>3

\* The entries a start loads are a sequence of entries within the capacity.
LEMMA LoadFacts ==
    ASSUME TypeOK, NEW k, NEW n \in 0..Capacity, NEW s \in [1..n -> DOMAIN rows],
           IsWindow(s, n, Capacity), Load(s, n, k)
    PROVE  /\ entries' \in Seq(Entry)
           /\ Len(entries') <= Bound
           /\ counter' \in Nat
           /\ counter' >= 1
           /\ \A i \in DOMAIN entries' :
                  /\ i \in 1..n
                  /\ entries'[i] = [id |-> s[i], x |-> rows[s[i]].x]
                  /\ entries'[i].id < counter'
<1>0. n \in Nat /\ n <= Bound /\ (n > 0 => n <= Capacity)
  BY CapacityAssumption DEF Bound
<1>1. CASE /\ entries' = [i \in 1..n |-> [id |-> s[i], x |-> rows[s[i]].x]]
           /\ counter' = 1 + IF n = 0 THEN 0 ELSE s[n]
  <2>1. entries' = [i \in 1..n |-> [id |-> s[i], x |-> rows[s[i]].x]]
    BY <1>1
  <2>2. \A i \in 1..n : [id |-> s[i], x |-> rows[s[i]].x] \in Entry
    BY DEF TypeOK, Entry
  <2>3. entries' \in Seq(Entry) /\ Len(entries') = n /\ DOMAIN entries' = 1..n
    BY <2>1, <2>2, <1>0
  <2>4. counter' = 1 + IF n = 0 THEN 0 ELSE s[n]
    BY <1>1
  <2>5. n # 0 => s[n] \in Nat /\ \A i \in 1..n : s[i] \in Nat /\ s[i] <= s[n]
    <3>1. \A i \in 1..n : s[i] \in Nat
      BY DEF TypeOK
    <3>2. \A i, j \in 1..n : i < j => s[i] < s[j]
      BY DEF IsWindow
    <3>3. ASSUME n # 0 PROVE n \in 1..n /\ \A i \in 1..n : i = n \/ i < n
      BY <1>0, <3>3
    <3>4. QED
      BY <3>1, <3>2, <3>3
  <2>6. QED
    BY <2>1, <2>3, <2>4, <2>5, <1>0
<1>2. CASE entries' = <<>> /\ counter' = 1
  <2>2. <<>> \in Seq(Entry) /\ Len(<<>>) = 0 /\ DOMAIN <<>> = {}
    OBVIOUS
  <2>3. QED
    BY <1>2, <2>2, BoundPositive
<1>3. QED
  BY <1>1, <1>2 DEF Load

----------------------------------------------------------------------------
\* TypeOK together with the capacity is inductive.
TypeInv == TypeOK /\ Len(entries) <= Bound

LEMMA TypeInit == Init => TypeInv
BY BoundPositive DEF Init, TypeInv, TypeOK, NoRows, Idle, Quiet, Stages, Bound

LEMMA TypeStep == TypeInv /\ [Next]_vars => TypeInv'
<1> SUFFICES ASSUME TypeInv, [Next]_vars PROVE TypeInv'
  OBVIOUS
<1> USE DEF TypeInv
<1>1. ASSUME NEW p \in Pushers, PushAllocate(p) PROVE TypeInv'
  BY <1>1 DEF PushAllocate, TypeOK, Stages, Bound
<1>2. ASSUME NEW p \in Pushers, PushMemory(p) PROVE TypeInv'
  <2>1. [id |-> task[p].id, x |-> task[p].x] \in Entry
    BY DEF TypeOK, Entry
  <2>2. entries' \in Seq(Entry) /\ Len(entries') <= Bound
    BY <1>2, <2>1, PushFrontFacts DEF PushMemory, TypeOK, Entry
  <2>3. QED
    BY <1>2, <2>2 DEF PushMemory, TypeOK, Stages, Entry, Bound
<1>3. ASSUME NEW p \in Pushers, PushAnnounce(p) PROVE TypeInv'
  BY <1>3 DEF PushAnnounce, TypeOK, Stages, Bound
<1>4. ASSUME NEW p \in Pushers, PushPersist(p) PROVE TypeInv'
  <2>1. rows' \in [DOMAIN rows' -> [x : Nat, key : Keys]] /\ DOMAIN rows' \subseteq Nat
    BY <1>4 DEF PushPersist, Insert, TypeOK
  <2>2. QED
    BY <1>4, <2>1 DEF PushPersist, TypeOK, Stages, Idle, Bound
<1>5. ASSUME NEW c \in Clearers, ClearMemory(c) PROVE TypeInv'
  <2>1. Finished \in SUBSET Nat
    BY DEF Finished, TypeOK
  <2>2. QED
    BY <1>5, <2>1, BoundPositive DEF ClearMemory, TypeOK, Bound
<1>6. ASSUME NEW c \in Clearers, ClearStorage(c) PROVE TypeInv'
  <2>1. rows' \in [DOMAIN rows' -> [x : Nat, key : Keys]] /\ DOMAIN rows' \subseteq Nat
    BY <1>6 DEF ClearStorage, NoRows, TypeOK
  <2>2. QED
    BY <1>6, <2>1 DEF ClearStorage, TypeOK, Quiet, Bound
<1>7. ASSUME NEW k \in Keys, Restart(k) PROVE TypeInv'
  <2>1. entries' \in Seq(Entry) /\ Len(entries') <= Bound /\ counter' \in Nat
    BY <1>7, LoadFacts DEF Restart
  <2>2. unread' \subseteq Nat
    <3>1. \A id \in DOMAIN rows : rows[id].x \in Nat
      BY DEF TypeOK
    <3>2. InStorage \subseteq Nat
      BY <3>1 DEF InStorage
    <3>3. QED
      BY <1>7, <3>2 DEF Restart
  <2>3. /\ key' = k /\ restarts' = restarts + 1
        /\ task' = [p \in Pushers |-> Idle] /\ sweep' = [c \in Clearers |-> Quiet]
        /\ UNCHANGED <<rows, born, announced, gone>>
    BY <1>7 DEF Restart
  <2>4. QED
    BY <1>7, <2>1, <2>2, <2>3 DEF TypeOK, Stages, Idle, Quiet, Entry, Bound
<1>8. CASE UNCHANGED vars
  BY <1>8 DEF vars, TypeOK, Bound
<1>9. QED
  BY <1>1, <1>2, <1>3, <1>4, <1>5, <1>6, <1>7, <1>8 DEF Next, Serve

\* Every variable keeps its type in every behaviour.
THEOREM TypeCorrect == Spec => []TypeOK
<1>1. TypeInv => TypeOK
  BY DEF TypeInv
<1>2. QED
  BY <1>1, TypeInit, TypeStep, PTL DEF Spec

LEMMA TypeFacts ==
    ASSUME TypeOK
    PROVE  /\ counter \in Nat /\ born \in Nat
           /\ \A q \in Pushers : task[q].id \in Nat /\ task[q].x \in Nat
           /\ \A i \in DOMAIN entries : entries[i].id \in Nat /\ entries[i].x \in Nat
<1>1. \A q \in Pushers : task[q] \in [at : Stages, id : Nat, x : Nat]
  BY DEF TypeOK
<1>2. \A i \in DOMAIN entries : entries[i] \in Entry
  <2>1. entries \in Seq(Entry)
    BY DEF TypeOK, Entry
  <2>2. QED
    BY <2>1
<1>3. QED
  BY <1>1, <1>2 DEF TypeOK, Entry

----------------------------------------------------------------------------
\* No two ids meet.

DistinctIds == \A i, j \in DOMAIN entries : i # j => entries[i].id # entries[j].id

IdInv == TypeInv /\ InFlightInv /\ DistinctIds

\* A restart loads the rows of a window, which lists each id once.
LEMMA LoadDistinct ==
    ASSUME TypeInv, NEW k \in Keys, Restart(k)
    PROVE  /\ DistinctIds'
           /\ counter' >= 1
           /\ \A i \in DOMAIN entries' : entries'[i].id < counter'
<1>1. PICK n \in 0..Capacity : \E s \in [1..n -> DOMAIN rows] :
          IsWindow(s, n, Capacity) /\ Load(s, n, k)
  BY DEF Restart
<1>2. PICK s \in [1..n -> DOMAIN rows] : IsWindow(s, n, Capacity) /\ Load(s, n, k)
  BY <1>1
<1>3. /\ counter' >= 1
      /\ \A i \in DOMAIN entries' :
             /\ i \in 1..n
             /\ entries'[i] = [id |-> s[i], x |-> rows[s[i]].x]
             /\ entries'[i].id < counter'
  BY <1>2, LoadFacts DEF TypeInv
<1>4. \A i, j \in 1..n : i # j => s[i] # s[j]
  <2>1. \A i \in 1..n : s[i] \in Nat
    BY DEF TypeInv, TypeOK
  <2>2. \A i, j \in 1..n : i < j => s[i] < s[j]
    BY <1>2 DEF IsWindow
  <2>3. \A i, j \in 1..n : i # j => i < j \/ j < i
    OBVIOUS
  <2>4. QED
    BY <2>1, <2>2, <2>3
<1>5. QED
  BY <1>3, <1>4 DEF DistinctIds

LEMMA IdInit == Init => IdInv
<1> SUFFICES ASSUME Init PROVE IdInv
  OBVIOUS
<1>1. TypeInv
  BY TypeInit
<1>2. DOMAIN entries = {} /\ \A p \in Pushers : ~Busy(p) /\ task[p].at # "memory"
  BY DEF Init, Idle, Busy
<1>3. QED
  BY <1>1, <1>2 DEF IdInv, InFlightInv, DistinctIds, Init

LEMMA IdStep == IdInv /\ [Next]_vars => IdInv'
<1> SUFFICES ASSUME IdInv, [Next]_vars PROVE IdInv'
  OBVIOUS
<1>0. TypeInv /\ InFlightInv /\ DistinctIds /\ TypeOK
  BY DEF IdInv, TypeInv
<1>t. TypeInv'
  BY <1>0, TypeStep
<1>1. ASSUME NEW p \in Pushers, PushAllocate(p) PROVE IdInv'
  <2>1. /\ task' = [task EXCEPT ![p] = [at |-> "memory", id |-> counter, x |-> born + 1]]
        /\ counter' = counter + 1 /\ entries' = entries /\ ~Busy(p)
    BY <1>1 DEF PushAllocate, Busy
  <2>2. \A q \in Pushers : q # p => task'[q] = task[q]
    BY <2>1, <1>0 DEF TypeOK
  <2>3. task'[p].id = counter
    BY <2>1, <1>0 DEF TypeOK
  <2>4. /\ counter \in Nat
        /\ \A q \in Pushers : task[q].id \in Nat
        /\ \A i \in DOMAIN entries : entries[i].id \in Nat
    BY <1>0, TypeFacts
  <2>5. InFlightInv'
    BY <1>0, <2>1, <2>2, <2>3, <2>4 DEF InFlightInv, Busy
  <2>6. DistinctIds'
    BY <1>0, <2>1 DEF DistinctIds
  <2>7. QED
    BY <1>t, <2>5, <2>6 DEF IdInv
<1>2. ASSUME NEW p \in Pushers, PushMemory(p) PROVE IdInv'
  <2> DEFINE e == [id |-> task[p].id, x |-> task[p].x]
  <2>1. e \in Entry /\ e.id = task[p].id
    BY <1>0 DEF TypeOK, Entry
  <2>2. /\ entries' = PushFront(e)
        /\ task[p].at = "memory" /\ Busy(p)
        /\ task' = [task EXCEPT ![p].at = "announce"]
        /\ counter' = counter
    BY <1>2 DEF PushMemory, Busy
  <2>3. /\ entries'[1] = e
        /\ entries' \in Seq(Entry)
        /\ \A i \in DOMAIN entries' :
               i # 1 => i - 1 \in DOMAIN entries /\ entries'[i] = entries[i - 1]
    BY <1>0, <2>1, <2>2, PushFrontFacts DEF TypeInv, TypeOK, Entry
  <2>4. \A q \in Pushers :
            /\ task'[q].id = task[q].id
            /\ q # p => task'[q] = task[q]
            /\ task'[q].at # "idle" <=> task[q].at # "idle"
    BY <1>0, <2>2 DEF TypeOK, Busy
  <2>5. \A i \in DOMAIN entries : entries[i].id # e.id
    BY <1>0, <2>1, <2>2 DEF InFlightInv
  <2>6. DistinctIds'
    <3> SUFFICES ASSUME NEW i \in DOMAIN entries', NEW j \in DOMAIN entries', i # j
                 PROVE  entries'[i].id # entries'[j].id
      BY DEF DistinctIds
    <3>1. i \in Nat /\ j \in Nat
      BY <2>3
    <3>2. CASE i = 1 \/ j = 1
      BY <3>2, <2>3, <2>5
    <3>3. CASE i # 1 /\ j # 1
      BY <3>1, <3>3, <2>3, <1>0 DEF DistinctIds
    <3>4. QED
      BY <3>2, <3>3
  <2>7. InFlightInv'
    <3>1. \A i \in DOMAIN entries' : entries'[i].id < counter'
      BY <1>0, <2>1, <2>2, <2>3 DEF InFlightInv
    <3>2. ASSUME NEW q \in Pushers, task'[q].at = "memory", NEW i \in DOMAIN entries'
          PROVE  entries'[i].id # task'[q].id
      <4>1. q # p
        BY <3>2, <2>2, <1>0 DEF TypeOK
      <4>2. task[q].at = "memory" /\ task[q].at # "idle"
        BY <4>1, <3>2, <2>4
      <4>3. QED
        BY <4>1, <4>2, <2>1, <2>2, <2>3, <2>4, <1>0 DEF InFlightInv, Busy
    <3>3. \A q \in Pushers : task'[q].at # "idle" =>
             /\ task'[q].id < counter'
             /\ \A r \in Pushers \ {q} : task'[r].at # "idle" => task'[r].id # task'[q].id
      BY <2>2, <2>4, <1>0 DEF InFlightInv, Busy
    <3>4. counter' >= 1
      BY <2>2, <1>0 DEF InFlightInv
    <3>5. QED
      BY <3>1, <3>2, <3>3, <3>4 DEF InFlightInv, Busy
  <2>8. QED
    BY <1>t, <2>6, <2>7 DEF IdInv
<1>3. ASSUME NEW p \in Pushers, PushAnnounce(p) \/ PushPersist(p) PROVE IdInv'
  <2>1. /\ entries' = entries /\ counter' = counter /\ Busy(p)
        /\ task' = [task EXCEPT ![p].at = "persist"] \/ task' = [task EXCEPT ![p] = Idle]
    BY <1>3 DEF PushAnnounce, PushPersist, Busy
  <2>2. \A q \in Pushers :
            /\ task'[q].at # "idle" => task'[q].id = task[q].id /\ Busy(q)
            /\ task'[q].at = "memory" => task[q].at = "memory"
    <3>1. task \in [Pushers -> [at : Stages, id : Nat, x : Nat]]
      BY <1>0 DEF TypeOK
    <3>2. CASE task' = [task EXCEPT ![p].at = "persist"]
      BY <2>1, <3>1, <3>2 DEF Busy
    <3>3. CASE task' = [task EXCEPT ![p] = Idle]
      BY <2>1, <3>1, <3>3 DEF Busy, Idle
    <3>4. QED
      BY <2>1, <3>2, <3>3
  <2>3. InFlightInv'
    BY <1>0, <2>1, <2>2 DEF InFlightInv, Busy
  <2>4. QED
    BY <1>0, <1>t, <2>1, <2>3 DEF IdInv, DistinctIds
<1>4. ASSUME NEW c \in Clearers, ClearMemory(c) \/ ClearStorage(c) PROVE IdInv'
  <2>1. /\ entries' = entries \/ entries' = <<>>
        /\ counter' = counter /\ task' = task
    BY <1>4 DEF ClearMemory, ClearStorage
  <2>2. DOMAIN <<>> = {}
    OBVIOUS
  <2>3. InFlightInv'
    BY <1>0, <2>1, <2>2 DEF InFlightInv, Busy
  <2>4. DistinctIds'
    BY <1>0, <2>1, <2>2 DEF DistinctIds
  <2>5. QED
    BY <1>t, <2>3, <2>4 DEF IdInv
<1>5. ASSUME NEW k \in Keys, Restart(k) PROVE IdInv'
  <2>1. \A p \in Pushers : task'[p].at = "idle"
    BY <1>5 DEF Restart, Idle
  <2>2. InFlightInv'
    BY <1>0, <1>5, <2>1, LoadDistinct DEF InFlightInv, Busy
  <2>3. QED
    BY <1>0, <1>5, <1>t, <2>2, LoadDistinct DEF IdInv
<1>6. CASE UNCHANGED vars
  BY <1>0, <1>t, <1>6 DEF vars, IdInv, InFlightInv, DistinctIds, Busy
<1>7. QED
  BY <1>1, <1>2, <1>3, <1>4, <1>5, <1>6 DEF Next, Serve

\* The deque is within its capacity and holds every id once, however pushes,
\* clears, failing storage, restarts and changes of key interleave.
THEOREM MemoryKeyed == Spec => []MemoryIsKeyed
<1>1. IdInv => MemoryIsKeyed
  BY DEF IdInv, TypeInv, DistinctIds, MemoryIsKeyed
<1>2. QED
  BY <1>1, IdInit, IdStep, PTL DEF Spec

\* No id is in flight twice, in memory before its push put it there, or not
\* yet handed out by the counter.
THEOREM IdsApart == Spec => []InFlightInv
<1>1. IdInv => InFlightInv
  BY DEF IdInv
<1>2. QED
  BY <1>1, IdInit, IdStep, PTL DEF Spec

\* After a push's insert every row is the pushed exchange or an old row.
LEMMA PersistFacts ==
    ASSUME NEW p, PushPersist(p)
    PROVE  \A id \in DOMAIN rows' :
               \/ id = task[p].id /\ rows'[id].x = task[p].x
               \/ id \in DOMAIN rows /\ rows'[id] = rows[id]
<1>1. Insert(task[p].id, task[p].x) \/ rows' = rows
  BY DEF PushPersist
<1>2. CASE Insert(task[p].id, task[p].x)
  BY <1>2 DEF Insert
<1>3. CASE rows' = rows
  BY <1>3
<1>4. QED
  BY <1>1, <1>2, <1>3

----------------------------------------------------------------------------
\* Announced before stored.

AnnounceInv ==
    /\ TypeInv
    /\ \A p \in Pushers : task[p].at = "persist" => task[p].x \in announced
    /\ \A id \in DOMAIN rows : rows[id].x \in announced

LEMMA AnnounceInit == Init => AnnounceInv
<1> SUFFICES ASSUME Init PROVE AnnounceInv
  OBVIOUS
<1>1. DOMAIN rows = {} /\ \A p \in Pushers : task[p].at = "idle"
  BY DEF Init, Idle, NoRows
<1>2. QED
  BY <1>1, TypeInit DEF AnnounceInv

LEMMA AnnounceStep == AnnounceInv /\ [Next]_vars => AnnounceInv'
<1> SUFFICES ASSUME AnnounceInv, [Next]_vars PROVE AnnounceInv'
  OBVIOUS
<1>0. /\ TypeInv /\ TypeInv'
      /\ task \in [Pushers -> [at : Stages, id : Nat, x : Nat]]
      /\ \A p \in Pushers : task[p].at = "persist" => task[p].x \in announced
      /\ \A id \in DOMAIN rows : rows[id].x \in announced
  BY TypeStep DEF AnnounceInv, TypeInv, TypeOK
<1>1. ASSUME NEW p \in Pushers, PushAllocate(p) \/ PushMemory(p) \/ PushAnnounce(p)
      PROVE  AnnounceInv'
  <2>1. /\ rows' = rows
        /\ announced \subseteq announced'
        /\ \A q \in Pushers : q # p => task'[q] = task[q]
    BY <1>0, <1>1 DEF PushAllocate, PushMemory, PushAnnounce
  <2>2. task'[p].at = "persist" => task'[p].x \in announced'
    BY <1>0, <1>1 DEF PushAllocate, PushMemory, PushAnnounce
  <2>3. QED
    BY <1>0, <2>1, <2>2 DEF AnnounceInv
<1>2. ASSUME NEW p \in Pushers, PushPersist(p) PROVE AnnounceInv'
  <2>1. /\ announced' = announced
        /\ task[p].at = "persist"
        /\ \A q \in Pushers : task'[q].at = "persist" => task'[q] = task[q]
    BY <1>0, <1>2 DEF PushPersist, Idle
  <2>2. \A id \in DOMAIN rows' :
            rows'[id].x = task[p].x \/ (id \in DOMAIN rows /\ rows'[id] = rows[id])
    BY <1>2, PersistFacts
  <2>3. QED
    BY <1>0, <2>1, <2>2 DEF AnnounceInv
<1>3. ASSUME NEW c \in Clearers, ClearMemory(c) \/ ClearStorage(c) PROVE AnnounceInv'
  <2>1. /\ announced' = announced /\ task' = task
        /\ rows' = rows \/ DOMAIN rows' = {}
    BY <1>3 DEF ClearMemory, ClearStorage, NoRows
  <2>2. QED
    BY <1>0, <2>1 DEF AnnounceInv
<1>4. ASSUME NEW k \in Keys, Restart(k) PROVE AnnounceInv'
  <2>1. /\ announced' = announced /\ rows' = rows
        /\ \A p \in Pushers : task'[p].at = "idle"
    BY <1>4 DEF Restart, Idle
  <2>2. QED
    BY <1>0, <2>1 DEF AnnounceInv
<1>5. CASE UNCHANGED vars
  BY <1>0, <1>5 DEF vars, AnnounceInv
<1>6. QED
  BY <1>1, <1>2, <1>3, <1>4, <1>5 DEF Next, Serve

\* Whatever storage holds was on the live feed first.
THEOREM Announced == Spec => []StoredWasAnnounced
<1>1. AnnounceInv => StoredWasAnnounced
  BY DEF AnnounceInv, StoredWasAnnounced, InStorage
<1>2. QED
  BY <1>1, AnnounceInit, AnnounceStep, PTL DEF Spec

----------------------------------------------------------------------------
\* What a clear removed is gone for good.

\* No push in flight and no entry in memory carries an exchange of S.
Avoided(S) ==
    /\ \A p \in Pushers : task[p].at # "idle" => task[p].x \notin S
    /\ \A i \in DOMAIN entries : entries[i].x \notin S

\* Exchanges of S exist already, so that no later push can bring them back.
Past(S) == S \subseteq 1..born

GoneInv ==
    /\ TypeInv
    /\ Past(gone) /\ Avoided(gone)
    /\ \A id \in DOMAIN rows : rows[id].x \notin gone
    /\ \A c \in Clearers : sweep[c].at = "storage" =>
           Past(sweep[c].doomed) /\ Avoided(sweep[c].doomed)

\* A push keeps clear of a set of past exchanges that it avoids.
LEMMA PushAvoids ==
    ASSUME TypeInv, NEW p \in Pushers, NEW S, Past(S), Avoided(S),
           PushAllocate(p) \/ PushMemory(p) \/ PushAnnounce(p) \/ PushPersist(p)
    PROVE  Past(S)' /\ Avoided(S)'
<1>0. /\ task \in [Pushers -> [at : Stages, id : Nat, x : Nat]]
      /\ born \in Nat /\ entries \in Seq(Entry) /\ Len(entries) <= Bound
  BY DEF TypeInv, TypeOK, Entry
<1>1. CASE PushAllocate(p)
  <2>1. /\ born' = born + 1 /\ entries' = entries
        /\ task'[p].x = born + 1
        /\ \A q \in Pushers : q # p => task'[q] = task[q]
    BY <1>0, <1>1 DEF PushAllocate
  <2>2. born + 1 \notin S
    BY <1>0 DEF Past
  <2>3. QED
    BY <1>0, <2>1, <2>2 DEF Past, Avoided
<1>2. CASE PushMemory(p)
  <2> DEFINE e == [id |-> task[p].id, x |-> task[p].x]
  <2>1. /\ entries' = PushFront(e) /\ born' = born
        /\ e \in Entry /\ e.x = task[p].x
        /\ task[p].at # "idle"
    BY <1>0, <1>2 DEF PushMemory, Entry
  <2>2. \A q \in Pushers :
            /\ task'[q].x = task[q].x
            /\ task'[q].at # "idle" => task[q].at # "idle"
    BY <1>0, <1>2 DEF PushMemory
  <2>3. \A i \in DOMAIN entries' :
            entries'[i] = e \/ (i - 1 \in DOMAIN entries /\ entries'[i] = entries[i - 1])
    <3>1. /\ entries'[1] = e
          /\ \A i \in DOMAIN entries' :
                 i # 1 => i - 1 \in DOMAIN entries /\ entries'[i] = entries[i - 1]
      BY <1>0, <2>1, PushFrontFacts
    <3>2. QED
      BY <3>1
  <2>4. QED
    BY <2>1, <2>2, <2>3 DEF Past, Avoided
<1>3. CASE PushAnnounce(p) \/ PushPersist(p)
  <2>1. /\ entries' = entries /\ born' = born
        /\ \A q \in Pushers : task'[q].at # "idle" =>
               task'[q].x = task[q].x /\ task[q].at # "idle"
    <3>1. CASE PushAnnounce(p)
      BY <1>0, <3>1 DEF PushAnnounce
    <3>2. CASE PushPersist(p)
      <4>1. /\ entries' = entries /\ born' = born
            /\ task' = [task EXCEPT ![p] = Idle]
        BY <3>2 DEF PushPersist
      <4>2. QED
        BY <1>0, <4>1 DEF Idle
    <3>3. QED
      BY <1>3, <3>1, <3>2
  <2>2. QED
    BY <2>1 DEF Past, Avoided
<1>4. QED
  BY <1>1, <1>2, <1>3

LEMMA GoneInit == Init => GoneInv
<1> SUFFICES ASSUME Init PROVE GoneInv
  OBVIOUS
<1>1. /\ gone = {} /\ DOMAIN rows = {}
      /\ \A c \in Clearers : sweep[c].at = "idle"
  BY DEF Init, NoRows, Quiet
<1>2. QED
  BY <1>1, TypeInit DEF GoneInv, Past, Avoided

LEMMA GoneStep == GoneInv /\ [Next]_vars => GoneInv'
<1> SUFFICES ASSUME GoneInv, [Next]_vars PROVE GoneInv'
  OBVIOUS
<1>0. /\ TypeInv /\ TypeInv'
      /\ task \in [Pushers -> [at : Stages, id : Nat, x : Nat]]
      /\ sweep \in [Clearers -> [at : {"idle", "storage"}, doomed : SUBSET Nat]]
      /\ Past(gone) /\ Avoided(gone)
      /\ \A id \in DOMAIN rows : rows[id].x \notin gone
      /\ \A c \in Clearers : sweep[c].at = "storage" =>
             Past(sweep[c].doomed) /\ Avoided(sweep[c].doomed)
  BY TypeStep DEF GoneInv, TypeInv, TypeOK
<1>1. ASSUME NEW p \in Pushers,
             PushAllocate(p) \/ PushMemory(p) \/ PushAnnounce(p) \/ PushPersist(p)
      PROVE  GoneInv'
  <2>1. gone' = gone /\ sweep' = sweep
    BY <1>1 DEF PushAllocate, PushMemory, PushAnnounce, PushPersist
  <2>2. Past(gone)' /\ Avoided(gone)'
    <3>1. \A S : Past(S) /\ Avoided(S) => (born' >= born /\ Past(S))
      BY <1>0, <1>1 DEF PushAllocate, PushMemory, PushAnnounce, PushPersist, TypeInv, TypeOK
    <3>2. QED
      BY <1>0, <1>1, <2>1, PushAvoids DEF Past, Avoided
  <2>3. ASSUME NEW c \in Clearers, sweep'[c].at = "storage"
        PROVE  Past(sweep[c].doomed)' /\ Avoided(sweep[c].doomed)'
    BY <1>0, <1>1, <2>1, <2>3, PushAvoids DEF Past, Avoided
  <2>4. \A id \in DOMAIN rows' : rows'[id].x \notin gone'
    <3>1. CASE PushPersist(p)
      <4>1. task[p].x \notin gone
        BY <1>0, <3>1 DEF PushPersist, Avoided
      <4>2. \A id \in DOMAIN rows' :
                rows'[id].x = task[p].x \/ (id \in DOMAIN rows /\ rows'[id] = rows[id])
        BY <3>1, PersistFacts
      <4>3. QED
        BY <1>0, <2>1, <4>1, <4>2
    <3>2. CASE ~PushPersist(p)
      BY <1>0, <1>1, <2>1, <3>2 DEF PushAllocate, PushMemory, PushAnnounce
    <3>3. QED
      BY <3>1, <3>2
  <2>5. QED
    BY <1>0, <2>2, <2>3, <2>4 DEF GoneInv
<1>2. ASSUME NEW c \in Clearers, ClearMemory(c) PROVE GoneInv'
  <2>1. /\ gone' = gone /\ rows' = rows /\ born' = born /\ task' = task
        /\ DOMAIN entries' = {}
        /\ sweep'[c].doomed = Finished
        /\ \A d \in Clearers : d # c => sweep'[d] = sweep[d]
    BY <1>0, <1>2 DEF ClearMemory
  <2>2. Past(Finished) /\ \A p \in Pushers : task[p].at # "idle" => task[p].x \notin Finished
    BY DEF Past, Finished, Busy
  <2>3. ASSUME NEW d \in Clearers, sweep'[d].at = "storage"
        PROVE  Past(sweep[d].doomed)' /\ Avoided(sweep[d].doomed)'
    BY <1>0, <2>1, <2>2, <2>3 DEF Past, Avoided
  <2>4. QED
    BY <1>0, <2>1, <2>3 DEF GoneInv, Past, Avoided
<1>3. ASSUME NEW c \in Clearers, ClearStorage(c) PROVE GoneInv'
  <2>1. /\ born' = born /\ task' = task /\ entries' = entries
        /\ sweep[c].at = "storage"
        /\ \A d \in Clearers : sweep'[d].at = "storage" => sweep'[d] = sweep[d]
        /\ \/ DOMAIN rows' = {} /\ gone' = gone \cup sweep[c].doomed
           \/ rows' = rows /\ gone' = gone
    BY <1>0, <1>3 DEF ClearStorage, Quiet, NoRows
  <2>2. Past(gone)' /\ Avoided(gone)'
    BY <1>0, <2>1 DEF Past, Avoided
  <2>3. \A id \in DOMAIN rows' : rows'[id].x \notin gone'
    BY <1>0, <2>1
  <2>4. ASSUME NEW d \in Clearers, sweep'[d].at = "storage"
        PROVE  Past(sweep[d].doomed)' /\ Avoided(sweep[d].doomed)'
    BY <1>0, <2>1, <2>4 DEF Past, Avoided
  <2>5. QED
    BY <1>0, <2>2, <2>3, <2>4 DEF GoneInv
<1>4. ASSUME NEW k \in Keys, Restart(k) PROVE GoneInv'
  <2>1. /\ gone' = gone /\ rows' = rows /\ born' = born
        /\ \A p \in Pushers : task'[p].at = "idle"
        /\ \A c \in Clearers : sweep'[c].at = "idle"
    BY <1>4 DEF Restart, Idle, Quiet
  <2>2. \A i \in DOMAIN entries' : \E id \in DOMAIN rows : entries'[i].x = rows[id].x
    <3>1. PICK n \in 0..Capacity : \E s \in [1..n -> DOMAIN rows] :
              IsWindow(s, n, Capacity) /\ Load(s, n, k)
      BY <1>4 DEF Restart
    <3>2. PICK s \in [1..n -> DOMAIN rows] : IsWindow(s, n, Capacity) /\ Load(s, n, k)
      BY <3>1
    <3>3. \A i \in DOMAIN entries' :
              i \in 1..n /\ entries'[i] = [id |-> s[i], x |-> rows[s[i]].x]
      BY <1>0, <3>2, LoadFacts DEF TypeInv
    <3>4. QED
      BY <3>3
  <2>3. Past(gone)' /\ Avoided(gone)'
    BY <1>0, <2>1, <2>2 DEF Past, Avoided
  <2>4. QED
    BY <1>0, <2>1, <2>3 DEF GoneInv
<1>5. CASE UNCHANGED vars
  BY <1>0, <1>5 DEF vars, GoneInv, Past, Avoided
<1>6. QED
  BY <1>1, <1>2, <1>3, <1>4, <1>5 DEF Next, Serve

\* A clear is final for every exchange it had to remove.
THEOREM Cleared == Spec => []ClearedStaysCleared
<1>1. GoneInv => ClearedStaysCleared
  BY DEF GoneInv, Avoided, ClearedStaysCleared, InMemory, InStorage
<1>2. QED
  BY <1>1, GoneInit, GoneStep, PTL DEF Spec

----------------------------------------------------------------------------
\* Storage implements TrafficLog.

StoreInv == IdInv /\ StorageInv

LEMMA StoreInit == Init => StoreInv
<1> SUFFICES ASSUME Init PROVE StoreInv
  OBVIOUS
<1>1. DOMAIN rows = {} /\ \A p \in Pushers : ~Busy(p)
  BY DEF Init, NoRows, Idle, Busy
<1>2. QED
  BY <1>1, IdInit DEF StoreInv, StorageInv

\* A start hands out ids above those of all rows, or it has read none of them.
LEMMA RestartAboveRows ==
    ASSUME TypeInv, NEW k \in Keys, Restart(k)
    PROVE  \A id \in DOMAIN rows : id < counter' \/ rows[id].x \in unread'
<1>1. PICK n \in 0..Capacity : \E s \in [1..n -> DOMAIN rows] :
          IsWindow(s, n, Capacity) /\ Load(s, n, k)
  BY DEF Restart
<1>2. PICK s \in [1..n -> DOMAIN rows] : IsWindow(s, n, Capacity) /\ Load(s, n, k)
  BY <1>1
<1>3. /\ n \in Nat /\ Capacity \in Nat
      /\ \A id \in DOMAIN rows : id \in Nat
      /\ \A i \in 1..n : s[i] \in DOMAIN rows
  BY CapacityAssumption DEF TypeInv, TypeOK
<1>4. CASE entries' = <<>>
  <2>1. unread' = InStorage
    BY <1>4 DEF Restart
  <2>2. QED
    BY <2>1 DEF InStorage
<1>5. CASE entries' # <<>>
  <2>1. /\ entries' = [i \in 1..n |-> [id |-> s[i], x |-> rows[s[i]].x]]
        /\ counter' = 1 + IF n = 0 THEN 0 ELSE s[n]
    BY <1>2, <1>5 DEF Load
  <2>2. n # 0
    <3>1. entries' \in Seq(Entry) /\ \A i \in DOMAIN entries' : i \in 1..n
      BY <1>2, LoadFacts DEF TypeInv
    <3>2. Len(entries') # 0
      BY <1>5, <3>1
    <3>3. 1 \in DOMAIN entries'
      BY <3>1, <3>2
    <3>4. QED
      BY <1>3, <3>1, <3>3
  <2>3. n \in 1..n /\ counter' = 1 + s[n]
    BY <1>3, <2>1, <2>2
  <2>4. ASSUME NEW id \in DOMAIN rows PROVE id < counter'
    <3>1. ASSUME NEW i \in 1..n, s[i] = id PROVE id <= s[n]
      <4>1. i = n \/ i < n
        BY <1>3, <3>1
      <4>2. QED
        BY <1>2, <1>3, <2>3, <3>1, <4>1 DEF IsWindow
    <3>2. id <= s[n]
      BY <1>2, <1>3, <2>3, <3>1 DEF IsWindow
    <3>3. QED
      BY <1>3, <2>3, <3>2
  <2>5. QED
    BY <2>4
<1>6. QED
  BY <1>4, <1>5

LEMMA StoreStep == StoreInv /\ [Next]_vars => StoreInv'
<1> SUFFICES ASSUME StoreInv, [Next]_vars PROVE StoreInv'
  OBVIOUS
<1>0. /\ IdInv' /\ TypeInv /\ InFlightInv /\ StorageInv
      /\ counter \in Nat /\ born \in Nat
      /\ \A id \in DOMAIN rows : id \in Nat /\ rows[id].x \in Nat
      /\ task \in [Pushers -> [at : Stages, id : Nat, x : Nat]]
  BY IdStep DEF StoreInv, IdInv, TypeInv, TypeOK
<1>1. ASSUME NEW p \in Pushers, PushAllocate(p) PROVE StoreInv'
  <2>1. /\ rows' = rows /\ counter' = counter + 1 /\ born' = born + 1 /\ unread' = unread
        /\ task'[p].id = counter /\ task'[p].x = born + 1
        /\ \A q \in Pushers : q # p => task'[q] = task[q]
    BY <1>0, <1>1 DEF PushAllocate
  <2>2. /\ counter \in DOMAIN rows => Unread(counter)
        /\ \A id \in DOMAIN rows : rows[id].x # born + 1
    <3>1. \A id \in DOMAIN rows : rows[id].x <= born /\ (id < counter \/ Unread(id))
      BY <1>0 DEF StorageInv
    <3>2. QED
      BY <1>0, <3>1
  <2>3. \A q \in Pushers : task[q].at # "idle" => task[q].x # born + 1
    BY <1>0 DEF StorageInv, Unread, Busy
  <2>4. \A id \in DOMAIN rows' : rows'[id].x <= born' /\ (id < counter' \/ Unread(id)')
    BY <1>0, <2>1 DEF StorageInv, Unread
  <2>5. ASSUME NEW q \in Pushers, task'[q].at # "idle"
        PROVE  /\ task'[q].x <= born'
               /\ task'[q].id \in DOMAIN rows' => rows'[task'[q].id].x \in unread'
               /\ \A id \in DOMAIN rows' : rows'[id].x # task'[q].x
               /\ \A r \in Pushers \ {q} : task'[r].at # "idle" => task'[r].x # task'[q].x
    <3>1. CASE q = p
      BY <1>0, <2>1, <2>2, <2>3, <3>1 DEF Unread
    <3>2. CASE q # p
      BY <1>0, <2>1, <2>3, <2>5, <3>2 DEF StorageInv, Unread, Busy
    <3>3. QED
      BY <3>1, <3>2
  <2>6. QED
    BY <1>0, <2>4, <2>5 DEF StoreInv, StorageInv, Unread, Busy
<1>2. ASSUME NEW p \in Pushers, PushMemory(p) \/ PushAnnounce(p) PROVE StoreInv'
  <2>1. /\ rows' = rows /\ counter' = counter /\ born' = born /\ unread' = unread
        /\ \A q \in Pushers :
               /\ task'[q].id = task[q].id /\ task'[q].x = task[q].x
               /\ task'[q].at # "idle" => task[q].at # "idle"
    <3>1. CASE PushMemory(p)
      BY <1>0, <3>1 DEF PushMemory
    <3>2. CASE PushAnnounce(p)
      BY <1>0, <3>2 DEF PushAnnounce
    <3>3. QED
      BY <1>2, <3>1, <3>2
  <2>2. QED
    BY <1>0, <2>1 DEF StoreInv, StorageInv, Unread, Busy
<1>3. ASSUME NEW p \in Pushers, PushPersist(p) PROVE StoreInv'
  <2>1. /\ counter' = counter /\ born' = born /\ unread' = unread /\ task[p].at # "idle"
        /\ task' = [task EXCEPT ![p] = Idle]
    BY <1>3 DEF PushPersist
  <2>2. \A q \in Pushers : task'[q].at # "idle" => q # p /\ task'[q] = task[q]
    BY <1>0, <2>1 DEF Idle
  <2>3. \A id \in DOMAIN rows' :
            \/ id = task[p].id /\ rows'[id].x = task[p].x
            \/ id \in DOMAIN rows /\ rows'[id] = rows[id]
    BY <1>3, PersistFacts
  <2>4. \A id \in DOMAIN rows' : rows'[id].x <= born' /\ (id < counter' \/ Unread(id)')
    BY <1>0, <2>1, <2>3 DEF StorageInv, InFlightInv, Unread, Busy
  <2>5. ASSUME NEW q \in Pushers, task'[q].at # "idle"
        PROVE  /\ task'[q].x <= born'
               /\ task'[q].id \in DOMAIN rows' => rows'[task'[q].id].x \in unread'
               /\ \A id \in DOMAIN rows' : rows'[id].x # task'[q].x
               /\ \A r \in Pushers \ {q} : task'[r].at # "idle" => task'[r].x # task'[q].x
    <3>1. q # p /\ task'[q] = task[q] /\ task[q].at # "idle"
      BY <2>2, <2>5
    <3>2. task[q].id # task[p].id /\ task[q].x # task[p].x
      BY <1>0, <2>1, <3>1 DEF InFlightInv, StorageInv, Unread, Busy
    <3>3. QED
      BY <1>0, <2>1, <2>2, <2>3, <3>1, <3>2 DEF StorageInv, Unread, Busy
  <2>6. QED
    BY <1>0, <2>4, <2>5 DEF StoreInv, StorageInv, Unread, Busy
<1>4. ASSUME NEW c \in Clearers, ClearMemory(c) \/ ClearStorage(c) PROVE StoreInv'
  <2>1. /\ counter' = counter /\ born' = born /\ unread' = unread /\ task' = task
        /\ rows' = rows \/ DOMAIN rows' = {}
    BY <1>4 DEF ClearMemory, ClearStorage, NoRows
  <2>2. QED
    BY <1>0, <2>1 DEF StoreInv, StorageInv, Unread, Busy
<1>5. ASSUME NEW k \in Keys, Restart(k) PROVE StoreInv'
  <2>1. /\ rows' = rows /\ born' = born
        /\ \A p \in Pushers : task'[p].at = "idle"
    BY <1>5 DEF Restart, Idle
  <2>2. \A id \in DOMAIN rows : id < counter' \/ rows[id].x \in unread'
    BY <1>0, <1>5, RestartAboveRows
  <2>3. QED
    BY <1>0, <2>1, <2>2 DEF StoreInv, StorageInv, Unread, Busy
<1>6. CASE UNCHANGED vars
  BY <1>0, <1>6 DEF vars, StoreInv, StorageInv, Unread, Busy
<1>7. QED
  BY <1>1, <1>2, <1>3, <1>4, <1>5, <1>6 DEF Next, Serve

logged == [id \in DOMAIN rows |-> rows[id].x]

\* Each step of Capture appends one exchange to the log, empties, forgets or
\* recalls it, or leaves it as it is.
LEMMA LogStep == StoreInv /\ [Next]_vars => [Log!Next]_<<logged, unread>>
<1> SUFFICES ASSUME StoreInv, [Next]_vars PROVE [Log!Next]_<<logged, unread>>
  OBVIOUS
<1>0. StorageInv /\ InFlightInv
  BY DEF StoreInv, IdInv
<1>1. ASSUME rows' = rows PROVE logged' = logged
  BY <1>1 DEF logged
<1>2. ASSUME NEW p \in Pushers, PushPersist(p), rows' # rows PROVE Log!Next
  <2> DEFINE id == task[p].id
             x == task[p].x
  <2>1. Insert(id, x) /\ Busy(p) /\ unread' = unread
    BY <1>2 DEF PushPersist, Busy
  <2>2. (id \in DOMAIN rows => Unread(id)) /\ \A i \in DOMAIN rows : rows[i].x # x
    BY <1>0, <2>1 DEF StorageInv
  <2>3. DOMAIN logged = DOMAIN rows /\ \A i \in DOMAIN rows : logged[i] = rows[i].x
    BY DEF logged
  <2>4. DOMAIN rows' = DOMAIN rows \cup {id}
    BY <2>1 DEF Insert
  <2>5. logged' = [i \in DOMAIN rows \cup {id} |-> IF i = id THEN x ELSE logged[i]]
    <3>1. \A i \in DOMAIN rows' : rows'[i].x = IF i = id THEN x ELSE rows[i].x
      BY <2>1, <2>4 DEF Insert
    <3>2. QED
      BY <2>3, <2>4, <3>1 DEF logged
  <2>6. Log!Append(id, logged'[id])
    BY <2>1, <2>2, <2>3, <2>5 DEF Log!Append, Log!Free, Unread, logged
  <2>7. id \in DOMAIN logged'
    BY <2>5
  <2>8. \E i \in DOMAIN logged' : Log!Append(i, logged'[i])
    BY <2>6, <2>7 DEF Log!Append, Log!Free
  <2>9. QED
    BY <2>8 DEF Log!Next, Log!Append, Log!Free, logged
<1>3. ASSUME NEW c \in Clearers, ClearStorage(c), rows' # rows PROVE Log!Next
  <2>1. DOMAIN rows' = {} /\ unread' = unread
    BY <1>3 DEF ClearStorage, NoRows
  <2>2. Log!Wipe
    BY <2>1 DEF Log!Wipe
  <2>3. QED
    BY <2>2 DEF Log!Next, Log!Wipe
<1>4. ASSUME NEW k \in Keys, Restart(k) PROVE Log!Next
  <2>1. rows' = rows /\ unread' \in {InStorage, {}}
    BY <1>4 DEF Restart
  <2>2. InStorage = {logged[id] : id \in DOMAIN logged}
    BY DEF logged, InStorage
  <2>3. Log!Forget \/ Log!Recall
    BY <1>1, <2>1, <2>2 DEF Log!Forget, Log!Recall, logged
  <2>4. QED
    BY <2>3 DEF Log!Next, Log!Forget, Log!Recall
<1>5. ASSUME rows' # rows PROVE Log!Next
  <2>1. (\E p \in Pushers : PushPersist(p)) \/ (\E c \in Clearers : ClearStorage(c))
    BY <1>5 DEF Next, Serve, PushAllocate, PushMemory, PushAnnounce, ClearMemory, Restart, vars
  <2>2. QED
    BY <1>2, <1>3, <1>5, <2>1
<1>6. ASSUME rows' = rows, ~\E k \in Keys : Restart(k) PROVE UNCHANGED <<logged, unread>>
  <2>1. unread' = unread
    BY <1>6 DEF Next, Serve, vars, PushAllocate, PushMemory, PushAnnounce, PushPersist,
                ClearMemory, ClearStorage
  <2>2. QED
    BY <1>1, <1>6, <2>1
<1>7. QED
  BY <1>4, <1>5, <1>6


\* Storage is a TrafficLog, whatever the keys and the capacity: crashes, clears and
\* failing inserts lose exchanges, but no exchange is stored twice, and none replaces
\* another unless the start of the process could not read that one (capture.rs:96).
THEOREM StorageIsALog == Spec => LogSpec
<1>1. Init => Log!Init
  BY DEF Init, Log!Init, NoRows
<1>2. QED
  BY <1>1, StoreInit, StoreStep, LogStep, PTL DEF Spec, LogSpec, Log!Spec, logged

\* No row that the process has read or stored has an id that a push under way is
\* still to store, or that the counter is still to hand out (storage.rs:113).
THEOREM IdsUnused == Spec => []StorageInv
<1>1. StoreInv => StorageInv
  BY DEF StoreInv
<1>2. QED
  BY <1>1, StoreInit, StoreStep, PTL DEF Spec

----------------------------------------------------------------------------
\* Memory and storage under one id.  What ties them together is the push: the
\* entry it put in memory is the row it is about to store.

AgreeInv ==
    /\ StoreInv
    /\ GetAndListAgree
    /\ \A p \in Pushers, i \in DOMAIN entries :
           task[p].at \in {"announce", "persist"} /\ entries[i].id = task[p].id =>
               entries[i].x = task[p].x

LEMMA AgreeInit == Init => AgreeInv
<1>1. Init => entries = <<>>
  BY DEF Init
<1>2. QED
  BY <1>1, StoreInit DEF AgreeInv, GetAndListAgree, Unread

LEMMA AgreeStep == AgreeInv /\ [Next]_vars => AgreeInv'
<1> SUFFICES ASSUME AgreeInv, [Next]_vars PROVE AgreeInv'
  OBVIOUS
<1>0. /\ StoreInv' /\ IdInv' /\ StoreInv /\ IdInv
      /\ TypeInv /\ TypeInv' /\ InFlightInv /\ StorageInv
      /\ counter \in Nat
      /\ \A i \in DOMAIN entries : entries[i].id \in Nat
      /\ task \in [Pushers -> [at : Stages, id : Nat, x : Nat]]
  <2>1. StoreInv' /\ IdInv' /\ StoreInv /\ IdInv
    BY StoreStep DEF AgreeInv, StoreInv
  <2>2. TypeInv /\ TypeInv' /\ InFlightInv /\ StorageInv
    BY <2>1 DEF StoreInv, IdInv
  <2>3. counter \in Nat /\ task \in [Pushers -> [at : Stages, id : Nat, x : Nat]]
    BY <2>2 DEF TypeInv, TypeOK
  <2>4. \A i \in DOMAIN entries : entries[i].id \in Nat
    BY <2>2, TypeFacts DEF TypeInv
  <2>5. QED
    BY <2>1, <2>2, <2>3, <2>4
<1>1. ASSUME NEW p \in Pushers, PushAllocate(p) PROVE AgreeInv'
  <2>1. /\ unread' = unread /\ rows' = rows /\ entries' = entries
        /\ \A q \in Pushers : q # p => task'[q] = task[q]
        /\ task'[p].at = "memory"
    BY <1>0, <1>1 DEF PushAllocate
  <2>2. QED
    BY <1>0, <2>1 DEF AgreeInv, GetAndListAgree, Unread
<1>2. ASSUME NEW p \in Pushers, PushMemory(p) PROVE AgreeInv'
  <2> DEFINE e == [id |-> task[p].id, x |-> task[p].x]
  <2>1. /\ unread' = unread /\ rows' = rows /\ entries' = PushFront(e)
        /\ Busy(p) /\ task[p].at = "memory"
        /\ \A q \in Pushers :
               /\ task'[q].id = task[q].id /\ task'[q].x = task[q].x
               /\ q # p => task'[q] = task[q]
    BY <1>0, <1>2 DEF PushMemory, Busy
  <2>2. e \in Entry /\ entries \in Seq(Entry) /\ Len(entries) <= Bound
    BY <1>0 DEF Entry, TypeInv, TypeOK
  <2>3. \A i \in DOMAIN entries' :
            \/ entries'[i] = e
            \/ \E j \in DOMAIN entries : entries'[i] = entries[j]
    <3> HIDE DEF e
    <3>1. /\ PushFront(e)[1] = e
          /\ \A i \in DOMAIN PushFront(e) :
                 i # 1 => i - 1 \in DOMAIN entries /\ PushFront(e)[i] = entries[i - 1]
      BY <2>2, PushFrontFacts
    <3>2. QED
      BY <2>1, <3>1
  <2>4. (e.id \in DOMAIN rows => Unread(e.id)) /\ e.id = task[p].id /\ e.x = task[p].x
    BY <1>0, <2>1 DEF StorageInv
  <2>5. \A j \in DOMAIN entries : entries[j].id # e.id
    BY <1>0, <2>1 DEF InFlightInv
  <2>6. \A q \in Pushers \ {p} : Busy(q) => task[q].id # e.id
    BY <1>0, <2>1 DEF InFlightInv
  <2>7. ASSUME NEW i \in DOMAIN entries', entries'[i].id \in DOMAIN rows'
        PROVE  rows'[entries'[i].id].x = entries'[i].x \/ rows'[entries'[i].id].x \in unread'
    BY <2>1, <2>3, <2>4, <2>7 DEF AgreeInv, GetAndListAgree, Unread
  <2>8. ASSUME NEW q \in Pushers, NEW i \in DOMAIN entries',
               task'[q].at \in {"announce", "persist"}, entries'[i].id = task'[q].id
        PROVE  entries'[i].x = task'[q].x
    <3>1. CASE q = p
      BY <2>1, <2>3, <2>4, <2>5, <2>8, <3>1
    <3>2. CASE q # p
      <4>1. task'[q] = task[q] /\ Busy(q) /\ task[q].id # e.id
        BY <2>1, <2>6, <2>8, <3>2 DEF Busy
      <4>2. PICK j \in DOMAIN entries : entries'[i] = entries[j]
        BY <2>3, <2>4, <2>8, <4>1
      <4>3. QED
        BY <4>1, <4>2, <2>8 DEF AgreeInv
    <3>3. QED
      BY <3>1, <3>2
  <2>9. QED
    BY <1>0, <2>7, <2>8 DEF AgreeInv, GetAndListAgree, Unread
<1>3. ASSUME NEW p \in Pushers, PushAnnounce(p) PROVE AgreeInv'
  <2>1. /\ unread' = unread /\ rows' = rows /\ entries' = entries /\ task[p].at = "announce"
        /\ \A q \in Pushers :
               /\ task'[q].id = task[q].id /\ task'[q].x = task[q].x
               /\ q # p => task'[q] = task[q]
    BY <1>0, <1>3 DEF PushAnnounce
  <2>2. QED
    BY <1>0, <2>1 DEF AgreeInv, GetAndListAgree, Unread
<1>4. ASSUME NEW p \in Pushers, PushPersist(p) PROVE AgreeInv'
  <2>1. unread' = unread /\ entries' = entries /\ task[p].at = "persist"
        /\ task' = [task EXCEPT ![p] = Idle]
    BY <1>4 DEF PushPersist
  <2>2. \A q \in Pushers : task'[q].at # "idle" => task'[q] = task[q]
    BY <1>0, <2>1 DEF Idle
  <2>3. \A id \in DOMAIN rows' :
            \/ id = task[p].id /\ rows'[id].x = task[p].x
            \/ id \in DOMAIN rows /\ rows'[id] = rows[id]
    BY <1>4, PersistFacts
  <2>4. QED
    BY <1>0, <2>1, <2>2, <2>3 DEF AgreeInv, GetAndListAgree, Unread
<1>5. ASSUME NEW c \in Clearers, ClearMemory(c) PROVE AgreeInv'
  <2>1. entries' = <<>>
    BY <1>5 DEF ClearMemory
  <2>2. QED
    BY <1>0, <2>1 DEF AgreeInv, GetAndListAgree, Unread
<1>6. ASSUME NEW c \in Clearers, ClearStorage(c) PROVE AgreeInv'
  <2>1. /\ unread' = unread /\ entries' = entries /\ task' = task
        /\ rows' = rows \/ DOMAIN rows' = {}
    BY <1>6 DEF ClearStorage, NoRows
  <2>2. QED
    BY <1>0, <2>1 DEF AgreeInv, GetAndListAgree, Unread
<1>7. ASSUME NEW k \in Keys, Restart(k) PROVE AgreeInv'
  <2>1. rows' = rows /\ \A p \in Pushers : task'[p].at = "idle"
    BY <1>7 DEF Restart, Idle
  <2>2. PICK n \in 0..Capacity : \E s \in [1..n -> DOMAIN rows] :
            IsWindow(s, n, Capacity) /\ Load(s, n, k)
    BY <1>7 DEF Restart
  <2>3. PICK s \in [1..n -> DOMAIN rows] : IsWindow(s, n, Capacity) /\ Load(s, n, k)
    BY <2>2
  <2>4. TypeOK
    BY <1>0 DEF TypeInv
  <2>5. \A i \in DOMAIN entries' :
            /\ i \in 1..n
            /\ entries'[i] = [id |-> s[i], x |-> rows[s[i]].x]
    BY <2>3, <2>4, LoadFacts
  <2>6. QED
    BY <1>0, <2>1, <2>5 DEF AgreeInv, GetAndListAgree, Unread
<1>8. CASE UNCHANGED vars
  BY <1>0, <1>8 DEF vars, AgreeInv, GetAndListAgree, Unread
<1>9. QED
  BY <1>1, <1>2, <1>3, <1>4, <1>5, <1>6, <1>7, <1>8 DEF Next, Serve

\* get(id) and list_requests never show different exchanges under one id, whatever
\* crashes, clears or failing inserts part the two, unless the listed one was there
\* when the process started and could not be read (capture.rs:96).
THEOREM OneExchangePerId == Spec => []GetAndListAgree
<1>1. AgreeInv => GetAndListAgree
  BY DEF AgreeInv
<1>2. QED
  BY <1>1, AgreeInit, AgreeStep, PTL DEF Spec
=============================================================================
