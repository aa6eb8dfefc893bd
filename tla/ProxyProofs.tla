---------------------------- MODULE ProxyProofs ----------------------------
(***************************************************************************)
(* Theorems about Proxy, for any connections, ids, hosts and rules: what   *)
(* is recorded of every exchange, and what the metrics count of it.  That  *)
(* the log keeps what it is given is CaptureProofs' matter.                *)
(***************************************************************************)
EXTENDS Proxy, FiniteSetTheorems, TLAPS

Marks == {NotYet, Error, Untouched, Upgraded}
Flights == [pc : {"scope", "body", "rules", "answer", "answerOut", "push"}, id : Ids, host : Hosts,
            tls : BOOLEAN, inScope : BOOLEAN, count : Nat,
            sent : SUBSET RuleIds, reply : SUBSET RuleIds]
Entries == [id : Ids, tls : BOOLEAN, sent : SUBSET RuleIds, reply : (SUBSET RuleIds) \cup {NotYet}]

ProxyTypes ==
    /\ conn \in [Conns -> {"new", "open", "upgrade", "closed"}]
    /\ inFlight \in [Conns -> {Idle} \cup Flights]
    /\ rules \subseteq RuleIds /\ IsFiniteSet(rules)
    /\ captured \in Seq(Entries)
    /\ received \in [Ids -> (SUBSET RuleIds) \cup {NotYet}]
    /\ delivered \in [Ids -> (SUBSET RuleIds) \cup Marks]
    /\ zeroing \in {"off", "success", "error", "rest"}
    /\ abandoned \in Nat /\ classless \in Nat
    /\ requests \in 0..MaxRequests

LEMMA NotFlight == Idle \notin Flights
BY DEF Idle, Flights


LEMMA TypesInit == ProxyInit => ProxyTypes
BY ProxyAssumption, FS_EmptySet DEF ProxyInit, ProxyTypes, Marks, Ids

\* What a flight becomes.
LEMMA FlightMoves ==
    ASSUME NEW c \in Conns, NEW t \in {Idle} \cup Flights,
           inFlight \in [Conns -> {Idle} \cup Flights], inFlight' = [inFlight EXCEPT ![c] = t]
    PROVE  inFlight' \in [Conns -> {Idle} \cup Flights]
OBVIOUS

LEMMA TypesStep == ProxyTypes /\ [ProxyNext]_proxyVars => ProxyTypes'
<1> SUFFICES ASSUME ProxyTypes, [ProxyNext]_proxyVars PROVE ProxyTypes'
  OBVIOUS
<1> USE DEF logs, history, setting, counting
<1>1. MaxRequests \in Nat /\ \A i \in Nat : i < MaxRequests => i + 1 \in Ids
  BY ProxyAssumption DEF Ids
<1>2. \A c \in Conns : inFlight[c] \in Flights \/ inFlight[c] = Idle
  BY DEF ProxyTypes
<1>3. \A c \in Conns : inFlight[c].pc # "idle" => inFlight[c] \in Flights
  BY <1>2 DEF Idle
<1>a. ASSUME NEW c \in Conns, Accept(c) PROVE ProxyTypes'
  BY <1>a DEF ProxyTypes, Accept
<1>b. ASSUME NEW c \in Conns, HangUp(c) PROVE ProxyTypes'
  BY <1>b DEF ProxyTypes, HangUp, Close
<1>c. ASSUME NEW c \in Conns, Connect(c) PROVE ProxyTypes'
  <2>1. [id |-> requests + 1, tls |-> TRUE, sent |-> {}, reply |-> NotYet] \in Entries
    BY <1>c, <1>1 DEF Connect, Arrive, ProxyTypes, Entries
  <2>2. captured' \in Seq(Entries)
    BY <2>1, <1>c DEF Connect, Arrive, ProxyTypes
  <2> QED
    BY <1>c, <1>1, <2>2 DEF ProxyTypes, Connect, Arrive, Marks
<1>d. ASSUME NEW c \in Conns, Upgrade(c) PROVE ProxyTypes'
  BY <1>d DEF ProxyTypes, Upgrade, Close
<1>e. ASSUME NEW c \in Conns, RequestNowhere(c) PROVE ProxyTypes'
  BY <1>e, <1>1 DEF ProxyTypes, RequestNowhere, Arrive, Marks
<1>f. ASSUME NEW c \in Conns, NEW h \in Hosts, NEW f \in Forms, Request(c, h, f) PROVE ProxyTypes'
  <2> DEFINE t == [pc |-> "scope", id |-> requests + 1, host |-> h,
                    tls |-> SchemeOf(f) = "https",
                    inScope |-> FALSE, count |-> 0, sent |-> {}, reply |-> {}]
  <2>1. t \in Flights
    BY <1>f, <1>1 DEF Request, Arrive, ProxyTypes, Flights
  <2>2. inFlight' = [inFlight EXCEPT ![c] = t]
    BY <1>f DEF Request, Arrive
  <2> HIDE DEF t
  <2> QED
    <3>1. requests' \in 0..MaxRequests
      BY <1>f, <1>1 DEF ProxyTypes, Request, Arrive
    <3>2. inFlight' \in [Conns -> {Idle} \cup Flights]
      BY <2>1, <2>2, FlightMoves DEF ProxyTypes
    <3> QED
      BY <1>f, <3>1, <3>2 DEF ProxyTypes, Request, Arrive
<1>g. ASSUME NEW c \in Conns, CheckScope(c) PROVE ProxyTypes'
  <2> DEFINE t == [inFlight[c] EXCEPT !.pc = "body", !.inScope = inFlight[c].host \in scope]
  <2>0. (inFlight[c].host \in scope) \in BOOLEAN
    OBVIOUS
  <2>1. t \in Flights
    BY <1>g, <1>3, <2>0 DEF CheckScope, Flights
  <2>2. inFlight' = [inFlight EXCEPT ![c] = t]
    BY <1>g DEF CheckScope
  <2> HIDE DEF t
  <2> QED
    BY <1>g, <2>1, <2>2, FlightMoves DEF ProxyTypes, CheckScope
<1>h. ASSUME NEW c \in Conns, CollectBody(c) PROVE ProxyTypes'
  <2>1. Cardinality(rules) \in Nat
    BY FS_CardinalityType DEF ProxyTypes
  <2>2. [inFlight[c] EXCEPT !.pc = "rules", !.count = Cardinality(rules)] \in Flights
    BY <1>h, <1>3, <2>1 DEF CollectBody, Flights
  <2>3. [inFlight[c] EXCEPT !.pc = "answerOut"] \in Flights
    BY <1>h, <1>3 DEF CollectBody, Flights
  <2>4. \/ inFlight' = [inFlight EXCEPT ![c] = [inFlight[c] EXCEPT !.pc = "rules", !.count = Cardinality(rules)]]
        \/ inFlight' = [inFlight EXCEPT ![c] = [inFlight[c] EXCEPT !.pc = "answerOut"]]
    BY <1>h DEF CollectBody
  <2>5. inFlight' \in [Conns -> {Idle} \cup Flights]
    BY <2>2, <2>3, <2>4, FlightMoves DEF ProxyTypes
  <2>6. received' \in [Ids -> (SUBSET RuleIds) \cup {NotYet}]
    BY <1>h DEF CollectBody, ProxyTypes
  <2> QED
    BY <1>h, <2>5, <2>6 DEF ProxyTypes, CollectBody
<1>i. ASSUME NEW c \in Conns, ApplyRulesAndSend(c) PROVE ProxyTypes'
  <2> DEFINE t == [inFlight[c] EXCEPT !.pc = "answer", !.sent = rules]
  <2>1. t \in Flights
    BY <1>i, <1>3 DEF ApplyRulesAndSend, Flights, ProxyTypes
  <2>2. inFlight' = [inFlight EXCEPT ![c] = t]
    BY <1>i DEF ApplyRulesAndSend
  <2> HIDE DEF t
  <2> QED
    BY <1>i, <2>1, <2>2, FlightMoves DEF ProxyTypes, ApplyRulesAndSend
<1>j. ASSUME NEW c \in Conns, Broken(c) PROVE ProxyTypes'
  <2>1. inFlight[c] \in Flights
    BY <1>j, <1>3 DEF Broken
  <2>2. inFlight[c].id \in Ids
    BY <2>1 DEF Flights
  <2>3. /\ inFlight' = [inFlight EXCEPT ![c] = Idle] /\ UNCHANGED conn
        /\ delivered' = [delivered EXCEPT ![inFlight[c].id] = Error]
    BY <1>j DEF Broken, Fail
  <2>4. delivered' \in [Ids -> (SUBSET RuleIds) \cup Marks]
    BY <2>2, <2>3 DEF ProxyTypes, Marks
  <2> QED
    BY <1>j, <2>3, <2>4 DEF ProxyTypes, Broken
<1>k. ASSUME NEW c \in Conns, Respond(c) PROVE ProxyTypes'
  <2> DEFINE t == [inFlight[c] EXCEPT !.pc = "push", !.reply = rules]
  <2>1. t \in Flights
    BY <1>k, <1>3 DEF Respond, Flights, ProxyTypes
  <2>2. inFlight' = [inFlight EXCEPT ![c] = t]
    BY <1>k DEF Respond
  <2> HIDE DEF t
  <2> QED
    BY <1>k, <2>1, <2>2, FlightMoves DEF ProxyTypes, Respond
<1>l. ASSUME NEW c \in Conns, NEW s \in Statuses, RespondOut(c, s) PROVE ProxyTypes'
  <2>1. classless' \in Nat
    BY <1>l DEF ProxyTypes, RespondOut, Deliver
  <2> QED
    BY <1>l, <2>1 DEF ProxyTypes, RespondOut, Deliver, Marks
<1>m. ASSUME NEW c \in Conns, NEW s \in Statuses, PushAndDeliver(c, s) PROVE ProxyTypes'
  <2>1. Entry(inFlight[c]) \in Entries /\ inFlight[c].reply \in SUBSET RuleIds
    BY <1>m, <1>3 DEF PushAndDeliver, Entry, Entries, Flights
  <2>2. captured' \in Seq(Entries)
    BY <1>m, <2>1 DEF PushAndDeliver, ProxyTypes
  <2>3. classless' \in Nat
    BY <1>m DEF ProxyTypes, PushAndDeliver, Deliver
  <2> QED
    BY <1>m, <2>1, <2>2, <2>3 DEF ProxyTypes, PushAndDeliver, Deliver
<1>n. ASSUME NEW r \in RuleIds, SetRules(r) PROVE ProxyTypes'
  <2>1. IsFiniteSet(rules \cup {r}) /\ IsFiniteSet({})
    BY FS_AddElement, FS_EmptySet DEF ProxyTypes
  <2> QED
    BY <1>n, <2>1 DEF ProxyTypes, SetRules
<1>p. CASE ResetTotal \/ ResetSuccess \/ ResetError \/ ResetRest
  BY <1>p DEF ProxyTypes, ResetTotal, ResetSuccess, ResetError, ResetRest
<1>o. CASE AcceptError \/ (\E hosts \in SUBSET Hosts : SetScope(hosts)) \/ UNCHANGED proxyVars
  BY <1>o DEF ProxyTypes, AcceptError, SetScope, proxyVars
<1> QED
  BY <1>a, <1>b, <1>c, <1>d, <1>e, <1>f, <1>g, <1>h, <1>i, <1>j, <1>k, <1>l, <1>m, <1>n, <1>o, <1>p
     DEF ProxyNext

----------------------------------------------------------------------------
\* The record of an exchange

\* No request beyond the counter has left a trace.
Begun ==
    \A i \in Ids : i > requests => delivered[i] = NotYet /\ received[i] = NotYet /\ EntriesOf(i) = {}

\* A request that is under way.
UnderwayOf(c) ==
    LET t == inFlight[c] IN
    /\ conn[c] = "open"
    /\ t.id <= requests
    /\ delivered[t.id] = NotYet /\ EntriesOf(t.id) = {}
    /\ t.pc \in {"answer", "push"} => received[t.id] = t.sent
    /\ t.pc = "push" => Entry(t) \in scanned

Underway == \A c \in Conns : inFlight[c] # Idle => UnderwayOf(c)

\* Every request is on one connection.
Apart ==
    \A c, d \in Conns : c # d /\ inFlight[c] # Idle /\ inFlight[d] # Idle => inFlight[c].id # inFlight[d].id

RecordInv == ProxyTypes /\ Begun /\ Underway /\ Apart /\ ExchangeIsRecorded

LEMMA NoMark == \A x \in SUBSET RuleIds : x \notin Marks
BY RuleNames DEF Marks, NotYet, Error, Untouched, Upgraded

\* An entry is one more entry of its own request.
LEMMA Pushed ==
    ASSUME NEW e \in Entries, ProxyTypes, captured' = Append(captured, e), NEW i
    PROVE  /\ EntriesOf(i)' = EntriesOf(i) \cup (IF e.id = i THEN {Len(captured) + 1} ELSE {})
           /\ captured'[Len(captured) + 1] = e
           /\ \A n \in EntriesOf(i) : captured'[n] = captured[n]
BY DEF ProxyTypes, EntriesOf

LEMMA RecordInit == ProxyInit => RecordInv
<1> SUFFICES ASSUME ProxyInit PROVE RecordInv
  OBVIOUS
<1>1. ProxyTypes
  BY TypesInit
<1>2. \A i : EntriesOf(i) = {}
  BY DEF ProxyInit, EntriesOf
<1>3. Begun /\ Underway /\ Apart
  BY <1>2 DEF ProxyInit, Begun, Underway, Apart
<1>4. ExchangeIsRecorded
  BY <1>2 DEF ProxyInit, ExchangeIsRecorded, Answered
<1> QED
  BY <1>1, <1>3, <1>4 DEF RecordInv

\* The steps that end no exchange: at most one flight goes on, or begins with
\* the next request.
LEMMA GoingOn ==
    ASSUME NEW c \in Conns, NEW t \in Flights, RecordInv, ProxyTypes',
           inFlight' = [inFlight EXCEPT ![c] = t], UNCHANGED <<conn, captured, delivered>>,
           scanned \subseteq scanned',
           \/ /\ inFlight[c] = Idle /\ conn[c] = "open" /\ t.id = requests + 1 /\ t.pc = "scope"
              /\ requests' = requests + 1 /\ UNCHANGED received
           \/ /\ inFlight[c] # Idle /\ t.id = inFlight[c].id /\ UNCHANGED requests
              /\ \/ received' = [received EXCEPT ![t.id] = t.sent]
                 \/ received' = [received EXCEPT ![t.id] = {}] /\ t.pc \notin {"answer", "push"}
                 \/ UNCHANGED received /\ (t.pc \in {"answer", "push"} => received[t.id] = t.sent)
              /\ t.pc = "push" => Entry(t) \in scanned'
    PROVE  RecordInv'
<1> USE DEF RecordInv
<1>0. \A i : EntriesOf(i)' = EntriesOf(i)
  BY DEF EntriesOf
<1>1. t # Idle /\ t.id \in Ids /\ t.sent \in SUBSET RuleIds
  BY NotFlight DEF Flights
<1>2. \A d \in Conns : inFlight'[d] = IF d = c THEN t ELSE inFlight[d]
  BY DEF ProxyTypes
<1>3. requests \in Nat /\ requests' \in Nat /\ requests' >= requests /\ Ids \subseteq Nat
  BY DEF ProxyTypes, Ids
<1>4. delivered[t.id] = NotYet /\ EntriesOf(t.id) = {} /\ conn[c] = "open" /\ t.id <= requests'
  BY <1>1, <1>3 DEF Begun, Underway, UnderwayOf
<1>5. \A i \in Ids : i # t.id => received'[i] = received[i]
  BY DEF ProxyTypes
<1>6. t.pc \in {"answer", "push"} => received'[t.id] = t.sent
  BY <1>1 DEF ProxyTypes
<1>7. \A d \in Conns : d # c /\ inFlight[d] # Idle => inFlight[d].id # t.id
  BY <1>3 DEF Underway, UnderwayOf, Apart
<1>8. Begun'
  <2> SUFFICES ASSUME NEW i \in Ids, i > requests'
               PROVE  delivered'[i] = NotYet /\ received'[i] = NotYet /\ EntriesOf(i)' = {}
    BY DEF Begun
  <2>1. i > requests /\ i # t.id
    BY <1>1, <1>3, <1>4
  <2> QED
    BY <2>1, <1>0, <1>5 DEF Begun
<1>9. Underway'
  <2> SUFFICES ASSUME NEW d \in Conns, inFlight'[d] # Idle PROVE UnderwayOf(d)'
    BY DEF Underway
  <2>1. CASE d = c
    BY <2>1, <1>0, <1>1, <1>2, <1>3, <1>4, <1>6 DEF UnderwayOf, Entry
  <2>2. CASE d # c
    <3>1. inFlight[d] # Idle /\ inFlight[d].id # t.id /\ inFlight'[d] = inFlight[d] /\ inFlight[d].id \in Ids
      BY <2>2, <1>2, <1>7 DEF ProxyTypes, Flights
    <3> QED
      <4>1. UnderwayOf(d) /\ received'[inFlight[d].id] = received[inFlight[d].id]
        BY <3>1, <1>5 DEF Underway
      <4>2. inFlight[d].id \in Nat
        BY <3>1, <1>3
      <4> QED
        BY <3>1, <4>1, <4>2, <1>0, <1>3 DEF UnderwayOf, Entry
  <2> QED
    BY <2>1, <2>2
<1>10. Apart'
  BY <1>2, <1>7 DEF Apart
<1>11. ExchangeIsRecorded'
  BY <1>0, <1>1, <1>4, <1>5 DEF ExchangeIsRecorded, Answered
<1> QED
  BY <1>8, <1>9, <1>10, <1>11

\* The steps that touch no exchange.
LEMMA Elsewhere ==
    ASSUME RecordInv, ProxyTypes', UNCHANGED <<inFlight, captured, scanned, delivered, received, requests>>,
           \A c \in Conns : inFlight[c] # Idle => conn'[c] = conn[c]
    PROVE  RecordInv'
<1> USE DEF RecordInv
<1>1. \A i : EntriesOf(i)' = EntriesOf(i)
  BY DEF EntriesOf
<1>2. Begun' /\ ExchangeIsRecorded'
  BY <1>1 DEF Begun, ExchangeIsRecorded, Answered
<1>3. Underway' /\ Apart'
  BY <1>1 DEF Underway, UnderwayOf, Apart, Entry
<1> QED
  BY <1>2, <1>3

\* The steps that end an exchange without a record: its client is gone, or has
\* another answer than the server's.
LEMMA Dropped ==
    ASSUME NEW c \in Conns, RecordInv, ProxyTypes', inFlight' = [inFlight EXCEPT ![c] = Idle],
           \A d \in Conns : d # c => conn'[d] = conn[d],
           UNCHANGED <<captured, scanned, received, requests>>,
           \/ UNCHANGED delivered
           \/ inFlight[c] # Idle /\ \E mark \in {Error, Untouched} :
                                        delivered' = [delivered EXCEPT ![inFlight[c].id] = mark]
    PROVE  RecordInv'
<1> USE DEF RecordInv
<1>0. \A i : EntriesOf(i)' = EntriesOf(i)
  BY DEF EntriesOf
<1>1. \A d \in Conns : inFlight'[d] = IF d = c THEN Idle ELSE inFlight[d]
  BY DEF ProxyTypes
<1>2. \A i \in Ids : \/ delivered'[i] = delivered[i]
                     \/ /\ inFlight[c] # Idle /\ i = inFlight[c].id
                        /\ delivered'[i] \in {Error, Untouched}
  BY DEF ProxyTypes
<1>3. \A d \in Conns : inFlight[d] # Idle => inFlight[d].id \in Ids
  BY DEF ProxyTypes, Flights
<1>4. inFlight[c] # Idle => inFlight[c].id <= requests /\ EntriesOf(inFlight[c].id) = {}
  BY DEF Underway, UnderwayOf
<1>5. requests \in Nat /\ Ids \subseteq Nat
  BY DEF ProxyTypes, Ids
<1>6. Begun'
  <2> SUFFICES ASSUME NEW i \in Ids, i > requests
               PROVE  delivered'[i] = NotYet /\ received'[i] = NotYet /\ EntriesOf(i)' = {}
    BY DEF Begun
  <2>1. inFlight[c] # Idle => i # inFlight[c].id
    BY <1>4, <1>5
  <2> QED
    BY <2>1, <1>0, <1>2 DEF Begun
<1>7. Underway'
  <2> SUFFICES ASSUME NEW d \in Conns, inFlight'[d] # Idle PROVE UnderwayOf(d)'
    BY DEF Underway
  <2>1. d # c /\ inFlight[d] # Idle /\ inFlight'[d] = inFlight[d]
    BY <1>1
  <2>2. inFlight[c] # Idle => inFlight[d].id # inFlight[c].id
    BY <2>1 DEF Apart
  <2>3. delivered'[inFlight[d].id] = delivered[inFlight[d].id]
    BY <2>1, <2>2, <1>2, <1>3
  <2> QED
    BY <2>1, <2>3, <1>0 DEF Underway, UnderwayOf, Entry
<1>8. Apart'
  BY <1>1 DEF Apart
<1>9. ExchangeIsRecorded'
  BY <1>0, <1>2, <1>4 DEF ExchangeIsRecorded, Answered
<1> QED
  BY <1>6, <1>7, <1>8, <1>9

\* The step that records an exchange and delivers its answer.
LEMMA Recorded ==
    ASSUME NEW c \in Conns, RecordInv, ProxyTypes', inFlight[c].pc = "push",
           inFlight' = [inFlight EXCEPT ![c] = Idle],
           captured' = Append(captured, Entry(inFlight[c])),
           delivered' = [delivered EXCEPT ![inFlight[c].id] = inFlight[c].reply],
           UNCHANGED <<conn, scanned, received, requests>>
    PROVE  RecordInv'
<1> USE DEF RecordInv
<1> DEFINE t == inFlight[c]
<1>1. t \in Flights /\ t # Idle
  BY DEF ProxyTypes, Idle
<1>2. t.id \in Ids /\ t.reply \in SUBSET RuleIds /\ Entry(t) \in Entries
  BY <1>1 DEF Flights, Entry, Entries
<1>3. /\ \A i : EntriesOf(i)' = EntriesOf(i) \cup (IF t.id = i THEN {Len(captured) + 1} ELSE {})
      /\ captured'[Len(captured) + 1] = Entry(t)
      /\ \A i : \A n \in EntriesOf(i) : captured'[n] = captured[n]
  <2>1. \A i : /\ EntriesOf(i)' = EntriesOf(i) \cup (IF Entry(t).id = i THEN {Len(captured) + 1} ELSE {})
               /\ captured'[Len(captured) + 1] = Entry(t)
               /\ \A n \in EntriesOf(i) : captured'[n] = captured[n]
    BY <1>2, Pushed
  <2> QED
    BY <2>1 DEF Entry
<1>4. UnderwayOf(c)
  BY <1>1 DEF Underway
<1>5. t.id <= requests /\ EntriesOf(t.id) = {} /\ received[t.id] = t.sent /\ Entry(t) \in scanned
  BY <1>4 DEF UnderwayOf
<1>6. \A d \in Conns : inFlight'[d] = IF d = c THEN Idle ELSE inFlight[d]
  BY DEF ProxyTypes
<1>7. /\ \A i \in Ids : i # t.id => delivered'[i] = delivered[i] /\ EntriesOf(i)' = EntriesOf(i)
      /\ \A i \in Ids : i = t.id => delivered'[i] = t.reply /\ EntriesOf(i)' = {Len(captured) + 1}
  <2>1. \A i : t.id = i => EntriesOf(i) = {}
    BY <1>5
  <2>2. \A i \in Ids : delivered'[i] = IF i = t.id THEN t.reply ELSE delivered[i]
    BY <1>2 DEF ProxyTypes
  <2> QED
    BY ONLY <2>1, <2>2, <1>3
<1>8. requests \in Nat /\ Ids \subseteq Nat
  BY DEF ProxyTypes, Ids
<1>9. Begun'
  <2> SUFFICES ASSUME NEW i \in Ids, i > requests
               PROVE  delivered'[i] = NotYet /\ received'[i] = NotYet /\ EntriesOf(i)' = {}
    BY DEF Begun
  <2>1. i # t.id
    BY <1>2, <1>5, <1>8
  <2> QED
    BY <2>1, <1>7 DEF Begun
<1>10. Underway'
  <2> SUFFICES ASSUME NEW d \in Conns, inFlight'[d] # Idle PROVE UnderwayOf(d)'
    BY DEF Underway
  <2>1. d # c /\ inFlight[d] # Idle /\ inFlight'[d] = inFlight[d]
    BY <1>6
  <2>2. PICK i \in Ids : i = inFlight[d].id
    BY <2>1, <1>1 DEF ProxyTypes, Flights
  <2>3. i # t.id
    BY <2>1, <2>2, <1>1 DEF Apart
  <2>4. delivered'[i] = delivered[i] /\ EntriesOf(i)' = EntriesOf(i)
    BY <2>3, <1>7
  <2>5. UnderwayOf(d)
    BY <2>1 DEF Underway
  <2> HIDE DEF t
  <2> QED
    BY <2>1, <2>2, <2>4, <2>5 DEF UnderwayOf, Entry
<1>11. Apart'
  BY <1>6 DEF Apart
<1>12. ExchangeIsRecorded'
  <2> SUFFICES ASSUME NEW i \in Ids
               PROVE  IF Answered(i)'
                      THEN \E n \in EntriesOf(i)' :
                              /\ EntriesOf(i)' = {n}
                              /\ captured'[n].sent = received'[i]
                              /\ captured'[n].reply = delivered'[i]
                              /\ captured'[n] \in scanned'
                      ELSE delivered'[i] # Upgraded => EntriesOf(i)' = {}
    BY DEF ExchangeIsRecorded
  <2>1. CASE i = t.id
    <3>1. Answered(i)'
      BY <2>1, <1>2, <1>7, NoMark DEF Answered, Marks
    <3>2. Entry(t).sent = received'[i] /\ Entry(t).reply = delivered'[i]
      BY <2>1, <1>5, <1>7 DEF Entry
    <3> QED
      BY <2>1, <3>1, <3>2, <1>3, <1>5, <1>7
  <2>2. CASE i # t.id
    <3>1. delivered'[i] = delivered[i] /\ EntriesOf(i)' = EntriesOf(i)
      BY <2>2, <1>7
    <3>2. Answered(i)' <=> Answered(i)
      BY <3>1 DEF Answered
    <3> QED
      BY <3>1, <3>2, <1>3 DEF ExchangeIsRecorded
  <2> QED
    BY <2>1, <2>2
<1> QED
  BY <1>9, <1>10, <1>11, <1>12

\* A request that is answered before it is under way.
LEMMA AnsweredAtOnce ==
    ASSUME NEW c \in Conns, RecordInv, ProxyTypes', inFlight[c] = Idle,
           NEW new \in Ids, new = requests + 1, requests' = new,
           UNCHANGED <<inFlight, scanned, received>>,
           \A d \in Conns : d # c => conn'[d] = conn[d],
           \/ delivered' = [delivered EXCEPT ![new] = Error] /\ UNCHANGED captured
           \/ /\ delivered' = [delivered EXCEPT ![new] = Upgraded]
              /\ \E e \in Entries : e.id = new /\ captured' = Append(captured, e)
    PROVE  RecordInv'
<1> USE DEF RecordInv
<1>1. \A i \in Ids : i # new => delivered'[i] = delivered[i]
  BY DEF ProxyTypes
<1>2. \A i \in Ids : i # new => EntriesOf(i)' = EntriesOf(i)
  <2>1. CASE UNCHANGED captured
    BY <2>1 DEF EntriesOf
  <2>2. CASE \E e \in Entries : e.id = new /\ captured' = Append(captured, e)
    <3>1. PICK e \in Entries : e.id = new /\ captured' = Append(captured, e)
      BY <2>2
    <3>2. \A i : EntriesOf(i)' = EntriesOf(i) \cup (IF e.id = i THEN {Len(captured) + 1} ELSE {})
      BY <3>1, Pushed
    <3> QED
      BY <3>1, <3>2
  <2> QED
    BY <2>1, <2>2
<1>3. \A i \in Ids : \A n \in EntriesOf(i) : captured'[n] = captured[n]
  <2>1. CASE \E e \in Entries : e.id = new /\ captured' = Append(captured, e)
    BY <2>1, Pushed
  <2> QED
    BY <2>1
<1>4. \/ delivered'[new] = Error /\ EntriesOf(new)' = {}
      \/ delivered'[new] = Upgraded
  <2>1. CASE UNCHANGED captured
    <3>1. EntriesOf(new)' = EntriesOf(new)
      BY <2>1 DEF EntriesOf
    <3>2. EntriesOf(new) = {}
      BY DEF Begun, ProxyTypes
    <3> QED
      BY <3>1, <3>2 DEF ProxyTypes
  <2> QED
    BY <2>1 DEF ProxyTypes
<1>5. requests \in Nat /\ Ids \subseteq Nat
  BY DEF ProxyTypes, Ids
<1>6. Begun'
  <2> SUFFICES ASSUME NEW i \in Ids, i > requests'
               PROVE  delivered'[i] = NotYet /\ received'[i] = NotYet /\ EntriesOf(i)' = {}
    BY DEF Begun
  <2> QED
    BY <1>1, <1>2, <1>5 DEF Begun
<1>7. Underway'
  <2> SUFFICES ASSUME NEW d \in Conns, inFlight'[d] # Idle PROVE UnderwayOf(d)'
    BY DEF Underway
  <2>1. d # c /\ inFlight[d] # Idle /\ inFlight[d].id \in Ids /\ UnderwayOf(d)
    BY DEF ProxyTypes, Flights, Underway
  <2>2. inFlight[d].id # new /\ inFlight[d].id <= requests'
    <3>1. inFlight[d].id \in Nat /\ inFlight[d].id <= requests
      BY <2>1, <1>5 DEF UnderwayOf
    <3> QED
      BY <3>1, <1>5
  <2> QED
    BY <2>1, <2>2, <1>1, <1>2 DEF UnderwayOf, Entry
<1>8. Apart'
  BY DEF Apart
<1>9. ExchangeIsRecorded'
  BY <1>1, <1>2, <1>3, <1>4 DEF ExchangeIsRecorded, Answered
<1> QED
  BY <1>6, <1>7, <1>8, <1>9

LEMMA RecordStep == RecordInv /\ [ProxyNext]_proxyVars => RecordInv'
<1> SUFFICES ASSUME RecordInv, [ProxyNext]_proxyVars PROVE RecordInv'
  OBVIOUS
<1> USE DEF logs, history, setting, counting
<1>0. ProxyTypes /\ ProxyTypes'
  BY TypesStep DEF RecordInv
<1>1. MaxRequests \in Nat /\ (requests < MaxRequests => requests + 1 \in Ids)
  BY <1>0, ProxyAssumption DEF Ids, ProxyTypes
<1>2. \A c \in Conns : inFlight[c].pc = "idle" <=> inFlight[c] = Idle
  BY <1>0 DEF Idle, ProxyTypes, Flights
<1>3. \A c \in Conns : inFlight[c] # Idle => inFlight[c] \in Flights /\ conn[c] = "open"
  BY <1>0 DEF ProxyTypes, RecordInv, Underway, UnderwayOf
<1>a. ASSUME NEW c \in Conns, Accept(c) PROVE RecordInv'
  BY <1>a, <1>0, <1>3, Elsewhere DEF Accept, ProxyTypes
<1>b. ASSUME NEW c \in Conns, HangUp(c) PROVE RecordInv'
  BY <1>b, <1>0, Dropped DEF HangUp, Close, ProxyTypes
<1>c. ASSUME NEW c \in Conns, Connect(c) PROVE RecordInv'
  <2>1. PICK new \in Ids : new = requests + 1
    BY <1>c, <1>1 DEF Connect, Arrive
  <2>2. [id |-> new, tls |-> TRUE, sent |-> {}, reply |-> NotYet] \in Entries
    BY DEF Entries
  <2>3. captured' = Append(captured, [id |-> new, tls |-> TRUE, sent |-> {}, reply |-> NotYet])
    BY <1>c, <2>1 DEF Connect, Arrive
  <2>4. \E e \in Entries : e.id = new /\ captured' = Append(captured, e)
    BY <2>2, <2>3
  <2>5. /\ inFlight[c] = Idle /\ requests' = new /\ UNCHANGED <<inFlight, scanned, received>>
        /\ \A d \in Conns : d # c => conn'[d] = conn[d]
        /\ delivered' = [delivered EXCEPT ![new] = Upgraded]
    BY <1>c, <2>1, <1>0, <1>2 DEF Connect, Arrive, ProxyTypes
  <2> QED
    BY <2>1, <2>4, <2>5, <1>0, AnsweredAtOnce
<1>d. ASSUME NEW c \in Conns, Upgrade(c) PROVE RecordInv'
  BY <1>d, <1>0, Dropped DEF Upgrade, Close, ProxyTypes
<1>e. ASSUME NEW c \in Conns, RequestNowhere(c) PROVE RecordInv'
  <2>1. PICK new \in Ids : new = requests + 1
    BY <1>e, <1>1 DEF RequestNowhere, Arrive
  <2>2. /\ inFlight[c] = Idle /\ requests' = new /\ UNCHANGED <<inFlight, scanned, received, captured>>
        /\ \A d \in Conns : d # c => conn'[d] = conn[d]
        /\ delivered' = [delivered EXCEPT ![new] = Error]
    BY <1>e, <2>1, <1>0, <1>2 DEF RequestNowhere, Arrive, ProxyTypes
  <2> QED
    BY <2>1, <2>2, <1>0, AnsweredAtOnce
<1>f. ASSUME NEW c \in Conns, NEW h \in Hosts, NEW f \in Forms, Request(c, h, f) PROVE RecordInv'
  <2> DEFINE t == [pc |-> "scope", id |-> requests + 1, host |-> h,
                    tls |-> SchemeOf(f) = "https",
                    inScope |-> FALSE, count |-> 0, sent |-> {}, reply |-> {}]
  <2>1. t.id = requests + 1 /\ t.pc = "scope"
    OBVIOUS
  <2>2. t \in Flights
    BY <1>f, <1>1 DEF Request, Arrive, Flights
  <2>3. /\ inFlight[c] = Idle /\ conn[c] = "open"
        /\ inFlight' = [inFlight EXCEPT ![c] = t] /\ requests' = requests + 1
        /\ UNCHANGED <<conn, captured, delivered, received>> /\ scanned \subseteq scanned'
    BY <1>f, <1>2 DEF Request, Arrive
  <2> HIDE DEF t
  <2> QED
    BY <2>1, <2>2, <2>3, <1>0, GoingOn
<1>g. ASSUME NEW c \in Conns, CheckScope(c) PROVE RecordInv'
  <2> DEFINE t == [inFlight[c] EXCEPT !.pc = "body", !.inScope = inFlight[c].host \in scope]
  <2>1. inFlight[c] \in Flights /\ inFlight[c] # Idle
    BY <1>g, <1>2, <1>3 DEF CheckScope
  <2>2. t \in Flights /\ t.id = inFlight[c].id /\ t.pc = "body"
    <3>1. (inFlight[c].host \in scope) \in BOOLEAN
      OBVIOUS
    <3> QED
      BY <2>1, <3>1 DEF Flights
  <2>3. /\ inFlight' = [inFlight EXCEPT ![c] = t]
        /\ UNCHANGED <<conn, captured, delivered, received, requests>> /\ scanned \subseteq scanned'
    BY <1>g DEF CheckScope
  <2> HIDE DEF t
  <2> QED
    BY <2>1, <2>2, <2>3, <1>0, GoingOn
<1>h. ASSUME NEW c \in Conns, CollectBody(c) PROVE RecordInv'
  <2>1. inFlight[c] \in Flights /\ inFlight[c] # Idle
    BY <1>h, <1>2, <1>3 DEF CollectBody
  <2>2. UNCHANGED <<conn, captured, delivered, requests>> /\ scanned \subseteq scanned'
    BY <1>h DEF CollectBody
  <2>3. CASE inFlight[c].inScope
    <3> DEFINE t == [inFlight[c] EXCEPT !.pc = "rules", !.count = Cardinality(rules)]
    <3>1. Cardinality(rules) \in Nat
      BY <1>0, FS_CardinalityType DEF ProxyTypes
    <3>2. t \in Flights /\ t.id = inFlight[c].id /\ t.pc = "rules"
      BY <2>1, <3>1 DEF Flights
    <3>3. inFlight' = [inFlight EXCEPT ![c] = t] /\ UNCHANGED received
      BY <1>h, <2>3 DEF CollectBody
    <3> HIDE DEF t
    <3> QED
      BY <2>1, <2>2, <3>2, <3>3, <1>0, GoingOn
  <2>4. CASE ~inFlight[c].inScope
    <3> DEFINE t == [inFlight[c] EXCEPT !.pc = "answerOut"]
    <3>1. t \in Flights /\ t.id = inFlight[c].id /\ t.pc = "answerOut"
      BY <2>1 DEF Flights
    <3>2. inFlight' = [inFlight EXCEPT ![c] = t] /\ received' = [received EXCEPT ![t.id] = {}]
      BY <1>h, <2>4, <3>1 DEF CollectBody
    <3> HIDE DEF t
    <3> QED
      BY <2>1, <2>2, <3>1, <3>2, <1>0, GoingOn
  <2> QED
    BY <2>3, <2>4
<1>i. ASSUME NEW c \in Conns, ApplyRulesAndSend(c) PROVE RecordInv'
  <2> DEFINE t == [inFlight[c] EXCEPT !.pc = "answer", !.sent = rules]
  <2>1. inFlight[c] \in Flights /\ inFlight[c] # Idle
    BY <1>i, <1>2, <1>3 DEF ApplyRulesAndSend
  <2>2. t \in Flights /\ t.id = inFlight[c].id /\ t.pc = "answer" /\ t.sent = rules
    BY <2>1, <1>0 DEF Flights, ProxyTypes
  <2>3. /\ inFlight' = [inFlight EXCEPT ![c] = t] /\ received' = [received EXCEPT ![t.id] = t.sent]
        /\ UNCHANGED <<conn, captured, delivered, requests>> /\ scanned \subseteq scanned'
    BY <1>i, <2>2 DEF ApplyRulesAndSend
  <2> HIDE DEF t
  <2> QED
    BY <2>1, <2>2, <2>3, <1>0, GoingOn
<1>j. ASSUME NEW c \in Conns, Broken(c) PROVE RecordInv'
  <2>1. inFlight[c] # Idle
    BY <1>j, <1>2 DEF Broken
  <2>2. /\ inFlight' = [inFlight EXCEPT ![c] = Idle] /\ UNCHANGED <<captured, scanned, received, requests>>
        /\ \A d \in Conns : d # c => conn'[d] = conn[d]
        /\ delivered' = [delivered EXCEPT ![inFlight[c].id] = Error]
    BY <1>j, <1>0 DEF Broken, Fail, ProxyTypes
  <2> QED
    BY <2>1, <2>2, <1>0, Dropped
<1>k. ASSUME NEW c \in Conns, Respond(c) PROVE RecordInv'
  <2> DEFINE t == [inFlight[c] EXCEPT !.pc = "push", !.reply = rules]
  <2>1. inFlight[c] \in Flights /\ inFlight[c] # Idle /\ received[inFlight[c].id] = inFlight[c].sent
    BY <1>k, <1>2, <1>3 DEF Respond, RecordInv, Underway, UnderwayOf
  <2>2. t \in Flights /\ t.id = inFlight[c].id /\ t.pc = "push" /\ t.sent = inFlight[c].sent
    BY <2>1, <1>0 DEF Flights, ProxyTypes
  <2>3. /\ inFlight' = [inFlight EXCEPT ![c] = t] /\ UNCHANGED received
        /\ UNCHANGED <<conn, captured, delivered, requests>>
        /\ scanned \subseteq scanned' /\ Entry(t) \in scanned'
    BY <1>k DEF Respond
  <2> HIDE DEF t
  <2> QED
    BY <2>1, <2>2, <2>3, <1>0, GoingOn
<1>l. ASSUME NEW c \in Conns, NEW s \in Statuses, RespondOut(c, s) PROVE RecordInv'
  <2>1. inFlight[c] # Idle
    BY <1>l, <1>2 DEF RespondOut
  <2>2. /\ inFlight' = [inFlight EXCEPT ![c] = Idle]
        /\ UNCHANGED <<conn, captured, scanned, received, requests>>
        /\ delivered' = [delivered EXCEPT ![inFlight[c].id] = Untouched]
    BY <1>l DEF RespondOut, Deliver
  <2>3. /\ \E mark \in {Error, Untouched} : delivered' = [delivered EXCEPT ![inFlight[c].id] = mark]
        /\ UNCHANGED <<captured, scanned, received, requests>>
        /\ \A d \in Conns : d # c => conn'[d] = conn[d]
    BY <2>2
  <2> QED
    BY <2>1, <2>2, <2>3, <1>0, Dropped, Zenon
<1>m. ASSUME NEW c \in Conns, NEW s \in Statuses, PushAndDeliver(c, s) PROVE RecordInv'
  <2>1. /\ inFlight[c].pc = "push" /\ inFlight' = [inFlight EXCEPT ![c] = Idle]
        /\ captured' = Append(captured, Entry(inFlight[c]))
        /\ delivered' = [delivered EXCEPT ![inFlight[c].id] = inFlight[c].reply]
        /\ UNCHANGED <<conn, scanned, received, requests>>
    BY <1>m DEF PushAndDeliver, Deliver
  <2> QED
    BY <2>1, <1>0, Recorded
<1>n. CASE \/ AcceptError \/ (\E hosts \in SUBSET Hosts : SetScope(hosts)) \/ UNCHANGED proxyVars
           \/ \E r \in RuleIds : SetRules(r)
           \/ ResetTotal \/ ResetSuccess \/ ResetError \/ ResetRest
  <2>1. UNCHANGED <<conn, inFlight, captured, scanned, delivered, received, requests>>
    BY <1>n DEF AcceptError, SetScope, SetRules, ResetTotal, ResetSuccess, ResetError, ResetRest,
                proxyVars
  <2> QED
    BY <2>1, <1>0, Elsewhere
<1> QED
  BY <1>a, <1>b, <1>c, <1>d, <1>e, <1>f, <1>g, <1>h, <1>i, <1>j, <1>k, <1>l, <1>m, <1>n
     DEF ProxyNext

\* An exchange in scope is captured once, as the server and the client saw it
\* and as it was scanned, whatever the rules, the scope and the other
\* connections do while it is under way (proxy.rs:235, 255, 331).
THEOREM ProxyRecord == ProxySpec => []ExchangeIsRecorded
<1>1. RecordInv => ExchangeIsRecorded
  BY DEF RecordInv
<1> QED
  BY <1>1, RecordInit, RecordStep, PTL DEF ProxySpec

----------------------------------------------------------------------------
\* The counters

Active == {c \in Conns : conn[c] \in {"open", "upgrade"}}

\* The counters that have to add up, and what an operation adds to them.
Sums == {"requests_total", "requests_success", "requests_error", "connections_active"} \cup StatusClasses
Adds(m, to, keys, n) ==
    /\ m \in [Counters -> Int]
    /\ \A k \in Sums : m[k] = to[k] + IF k \in keys THEN n ELSE 0

\* The statuses of the model's servers, by what they are counted in.
ClassOf(status) == IF status = 200 THEN {"responses_2xx"} ELSE IF status = 404 THEN {"responses_4xx"} ELSE {}

LEMMA Classes ==
    /\ \A m : record_response(m, 200) = [m EXCEPT !["responses_2xx"] = @ + 1]
    /\ \A m : record_response(m, 404) = [m EXCEPT !["responses_4xx"] = @ + 1]
    /\ \A m : record_response(m, 999) = m
BY DEF record_response

LEMMA Effects ==
    ASSUME NEW m \in [Counters -> Int]
    PROVE  /\ Adds(record_request(m), m, {"requests_total"}, 1)
           /\ Adds(record_request_success(m), m, {"requests_success"}, 1)
           /\ Adds(record_request_error(m), m, {"requests_error"}, 1)
           /\ \A status \in Statuses : Adds(record_response(m, status), m, ClassOf(status), 1)
           /\ Adds(connection_opened(m), m, {"connections_active"}, 1)
           /\ Adds(connection_closed(m), m, {"connections_active"}, -1)
           /\ Adds(request_timed(m), m, {}, 0)
           /\ Adds(record_host_request(m), m, {}, 0)
           /\ \A n \in Int : /\ Adds(record_bytes_received(m, n), m, {}, 0)
                             /\ Adds(record_bytes_sent(m, n), m, {}, 0)
                             /\ Adds(record_rules_applied(m, n), m, {}, 0)
<1> USE DEF Adds, Sums, Counters, StatusClasses
<1>2. Adds(record_request(m), m, {"requests_total"}, 1)
  BY DEF record_request
<1>3. Adds(record_request_success(m), m, {"requests_success"}, 1)
  BY DEF record_request_success
<1>4. Adds(record_request_error(m), m, {"requests_error"}, 1)
  BY DEF record_request_error
<1>5. \A status \in Statuses : Adds(record_response(m, status), m, ClassOf(status), 1)
  <2> SUFFICES ASSUME NEW status \in Statuses PROVE Adds(record_response(m, status), m, ClassOf(status), 1)
    OBVIOUS
  <2>1. Adds(record_response(m, 200), m, {"responses_2xx"}, 1)
    <3>1. record_response(m, 200) = [m EXCEPT !["responses_2xx"] = @ + 1]
      BY ONLY Classes
    <3> QED
      BY <3>1
  <2>5. Adds(record_response(m, 404), m, {"responses_4xx"}, 1)
    <3>1. record_response(m, 404) = [m EXCEPT !["responses_4xx"] = @ + 1]
      BY ONLY Classes
    <3> QED
      BY <3>1
  <2>2. Adds(record_response(m, 999), m, {}, 1)
    <3>1. record_response(m, 999) = m
      BY ONLY Classes
    <3> QED
      BY <3>1
  <2>3. /\ ClassOf(200) = {"responses_2xx"} /\ ClassOf(404) = {"responses_4xx"}
        /\ ClassOf(999) = {}
    BY DEF ClassOf
  <2>4. status = 200 \/ status = 404 \/ status = 999
    BY DEF Statuses
  <2>6. /\ Adds(record_response(m, 200), m, ClassOf(200), 1)
        /\ Adds(record_response(m, 404), m, ClassOf(404), 1)
        /\ Adds(record_response(m, 999), m, ClassOf(999), 1)
    BY ONLY <2>1, <2>2, <2>3, <2>5
  <2>7. CASE status = 200
    BY ONLY <2>6, <2>7
  <2>8. CASE status = 404
    BY ONLY <2>6, <2>8
  <2>9. CASE status = 999
    BY ONLY <2>6, <2>9
  <2> QED
    BY ONLY <2>4, <2>7, <2>8, <2>9
<1>7. Adds(connection_opened(m), m, {"connections_active"}, 1)
  BY DEF connection_opened
<1>8. Adds(connection_closed(m), m, {"connections_active"}, -1)
  BY DEF connection_closed
<1>9. Adds(request_timed(m), m, {}, 0) /\ Adds(record_host_request(m), m, {}, 0)
  BY DEF request_timed, record_host_request
<1>11. \A n \in Int : /\ Adds(record_bytes_received(m, n), m, {}, 0)
                      /\ Adds(record_bytes_sent(m, n), m, {}, 0)
                      /\ Adds(record_rules_applied(m, n), m, {}, 0)
  BY DEF record_bytes_received, record_bytes_sent, record_rules_applied
<1> QED
  BY ONLY <1>2, <1>3, <1>4, <1>5, <1>7, <1>8, <1>9, <1>11

\* The sums, of the numbers that are in them.  While a reset is under way they need not
\* add up: what has been set to zero then counts no more than the requests that the
\* reset met, and that is what the sums miss when it is through.
Balanced(z, total, success, error, classed, pending, left, unclassed, met) ==
    /\ total >= 0 /\ success >= 0 /\ error >= 0
    /\ z = "off" =>
           LET lost == total - (success + error + left) - pending
           IN  /\ -met <= lost /\ lost <= met
               /\ 0 <= success - classed - unclassed /\ success - classed - unclassed <= met
    /\ z # "off" => total <= met /\ pending + left <= met
    /\ z \in {"error", "rest"} => unclassed <= success /\ pending + left + success <= met
    /\ z = "rest" => pending + left + success + error <= met

Classed(m) == m["responses_2xx"] + m["responses_3xx"] + m["responses_4xx"] + m["responses_5xx"]

\* The books: what the counters are, given how many connections are active and how many
\* requests are pending.
Books(m, z, active, pending, left, unclassed, met) ==
    /\ m \in [Counters -> Int]
    /\ Balanced(z, m["requests_total"], m["requests_success"], m["requests_error"], Classed(m),
                pending, left, unclassed, met)
    /\ m["connections_active"] = active

BooksInv ==
    /\ RecordInv
    /\ IsFiniteSet(Pending) /\ IsFiniteSet(Active) /\ straddled \in Nat
    /\ Books(metrics, zeroing, Cardinality(Active), Cardinality(Pending), abandoned, classless, straddled)

LEMMA BooksInit == ProxyInit => BooksInv
<1> SUFFICES ASSUME ProxyInit PROVE BooksInv
  OBVIOUS
<1>1. Pending = {} /\ Active = {}
  BY DEF ProxyInit, Pending, Active
<1>2. IsFiniteSet({}) /\ Cardinality({}) = 0
  BY FS_EmptySet
<1>3. metrics \in [Counters -> Int] /\ \A k \in Sums : metrics[k] = 0
  BY DEF ProxyInit, NewMetrics, Counters, Sums, StatusClasses
<1>4. abandoned = 0 /\ classless = 0 /\ straddled = 0 /\ zeroing = "off"
  BY DEF ProxyInit
<1>5. Balanced("off", 0, 0, 0, 0, 0, 0, 0, 0)
  BY DEF Balanced
<1>6. /\ metrics["requests_total"] = 0 /\ metrics["requests_success"] = 0
      /\ metrics["requests_error"] = 0 /\ metrics["connections_active"] = 0 /\ Classed(metrics) = 0
  BY <1>3 DEF Classed, Sums, StatusClasses
<1>7. Books(metrics, zeroing, 0, 0, 0, 0, 0)
  BY <1>3, <1>4, <1>5, <1>6 DEF Books
<1> QED
  BY <1>1, <1>2, <1>4, <1>7, RecordInit DEF BooksInv

LEMMA BooksAddUp == BooksInv => MetricsAddUp
<1> SUFFICES ASSUME BooksInv PROVE MetricsAddUp
  OBVIOUS
<1>1. metrics \in [Counters -> Int] /\ Sums \subseteq Counters
  BY DEF BooksInv, Books, Counters, Sums, StatusClasses
<1>2. \A k \in Sums : metrics[k] \in Int
  BY <1>1
<1>3. Cardinality(Pending) \in Nat /\ abandoned \in Nat /\ classless \in Nat /\ straddled \in Nat
  BY FS_CardinalityType DEF BooksInv, RecordInv, ProxyTypes
<1>4. Classed(metrics) = InClasses
  BY DEF Classed, InClasses
<1> QED
  BY <1>2, <1>3, <1>4 DEF BooksInv, Books, Balanced, MetricsAddUp, Active, Sums, StatusClasses

----------------------------------------------------------------------------
\* What an entry does to the sums

LEMMA Balances ==
    ASSUME NEW z, NEW T \in Int, NEW S \in Int, NEW E \in Int, NEW C \in Int, NEW P \in Nat,
           NEW left \in Nat, NEW U \in Nat, NEW met \in Nat, Balanced(z, T, S, E, C, P, left, U, met)
    PROVE  /\ \A now \in Nat : now = met + (IF z = "off" THEN 0 ELSE 1) =>
                  /\ Balanced(z, T + 1, S, E, C, P + 1, left, U, now)
                  /\ Balanced(z, T + 1, S, E + 1, C, P, left, U, now)
                  /\ Balanced(z, T + 1, S + 1, E, C + 1, P, left, U, now)
           /\ \A less \in Nat : P = less + 1 =>
                  /\ Balanced(z, T, S, E + 1, C, less, left, U, met)
                  /\ Balanced(z, T, S, E, C, less, left + 1, U, met)
                  /\ Balanced(z, T, S + 1, E, C + 1, less, left, U, met)
                  /\ Balanced(z, T, S + 1, E, C, less, left, U + 1, met)
           /\ Balanced("success", 0, S, E, C, P, 0, U, P)
           /\ z = "success" => Balanced("error", T, 0, E, C, P, left, 0, met)
           /\ z = "error" => Balanced("rest", T, S, 0, C, P, left, U, met)
           /\ z = "rest" => Balanced("off", T, S, E, 0, P, left, U, met)
<1> USE DEF Balanced
<1>1. \A now \in Nat : now = met + (IF z = "off" THEN 0 ELSE 1) =>
          /\ Balanced(z, T + 1, S, E, C, P + 1, left, U, now)
          /\ Balanced(z, T + 1, S, E + 1, C, P, left, U, now)
          /\ Balanced(z, T + 1, S + 1, E, C + 1, P, left, U, now)
  OBVIOUS
<1>2. \A less \in Nat : P = less + 1 =>
          /\ Balanced(z, T, S, E + 1, C, less, left, U, met)
          /\ Balanced(z, T, S, E, C, less, left + 1, U, met)
          /\ Balanced(z, T, S + 1, E, C + 1, less, left, U, met)
          /\ Balanced(z, T, S + 1, E, C, less, left, U + 1, met)
  OBVIOUS
<1>3. /\ Balanced("success", 0, S, E, C, P, 0, U, P)
      /\ z = "success" => Balanced("error", T, 0, E, C, P, left, 0, met)
      /\ z = "error" => Balanced("rest", T, S, 0, C, P, left, U, met)
      /\ z = "rest" => Balanced("off", T, S, E, 0, P, left, U, met)
  OBVIOUS
<1> QED
  BY ONLY <1>1, <1>2, <1>3

\* What the numbers are after additions.
LEMMA Added ==
    ASSUME NEW m \in [Counters -> Int], NEW k, NEW keys, NEW n \in Int, Adds(k, m, keys, n)
    PROVE  /\ k \in [Counters -> Int] /\ Classed(k) \in Int /\ Classed(m) \in Int
           /\ k["requests_total"] = m["requests_total"] + IF "requests_total" \in keys THEN n ELSE 0
           /\ k["requests_success"] = m["requests_success"] + IF "requests_success" \in keys THEN n ELSE 0
           /\ k["requests_error"] = m["requests_error"] + IF "requests_error" \in keys THEN n ELSE 0
           /\ k["connections_active"] = m["connections_active"] + IF "connections_active" \in keys THEN n ELSE 0
           /\ keys \in {{}, {"requests_total"}, {"requests_success"}, {"requests_error"}, {"connections_active"}}
                => Classed(k) = Classed(m)
           /\ keys \in {{"responses_2xx"}, {"responses_4xx"}} => Classed(k) = Classed(m) + n
<1>1. k \in [Counters -> Int] /\ Sums \subseteq Counters
  BY DEF Adds, Counters, Sums, StatusClasses
<1>2. \A key \in Sums : m[key] \in Int /\ k[key] \in Int
  BY <1>1
<1>3. \A key \in Sums : k[key] = m[key] + IF key \in keys THEN n ELSE 0
  BY DEF Adds
<1>4. /\ k["requests_total"] = m["requests_total"] + IF "requests_total" \in keys THEN n ELSE 0
      /\ k["requests_success"] = m["requests_success"] + IF "requests_success" \in keys THEN n ELSE 0
      /\ k["requests_error"] = m["requests_error"] + IF "requests_error" \in keys THEN n ELSE 0
      /\ k["connections_active"] = m["connections_active"] + IF "connections_active" \in keys THEN n ELSE 0
      /\ k["responses_2xx"] = m["responses_2xx"] + IF "responses_2xx" \in keys THEN n ELSE 0
      /\ k["responses_3xx"] = m["responses_3xx"] + IF "responses_3xx" \in keys THEN n ELSE 0
      /\ k["responses_4xx"] = m["responses_4xx"] + IF "responses_4xx" \in keys THEN n ELSE 0
      /\ k["responses_5xx"] = m["responses_5xx"] + IF "responses_5xx" \in keys THEN n ELSE 0
  BY <1>3 DEF Sums, StatusClasses
<1>5. Classed(k) \in Int /\ Classed(m) \in Int
  BY <1>2 DEF Classed, Sums, StatusClasses
<1>6. keys \in {{}, {"requests_total"}, {"requests_success"}, {"requests_error"}, {"connections_active"}}
        => Classed(k) = Classed(m)
  BY <1>2, <1>4 DEF Classed, Sums, StatusClasses
<1>7. keys \in {{"responses_2xx"}, {"responses_4xx"}} => Classed(k) = Classed(m) + n
  BY <1>2, <1>4 DEF Classed, Sums, StatusClasses
<1> QED
  BY ONLY <1>1, <1>4, <1>5, <1>6, <1>7

\* What is in no sum leaves the books as they are.
LEMMA UnsummedBooked ==
    \A m, h, z, A, P, left, U, met :
        Books(m, z, A, P, left, U, met) /\ Adds(h, m, {}, 0) => Books(h, z, A, P, left, U, met)
<1> SUFFICES ASSUME NEW m, NEW h, NEW z, NEW A, NEW P, NEW left, NEW U, NEW met,
                    Books(m, z, A, P, left, U, met), Adds(h, m, {}, 0)
             PROVE  Books(h, z, A, P, left, U, met)
  OBVIOUS
<1>1. m \in [Counters -> Int] /\ Sums \subseteq Counters
  BY DEF Books, Counters, Sums, StatusClasses
<1>2. h \in [Counters -> Int] /\ \A k \in Sums : h[k] = m[k]
  BY <1>1 DEF Adds
<1>3. /\ h["requests_total"] = m["requests_total"] /\ h["requests_success"] = m["requests_success"]
      /\ h["requests_error"] = m["requests_error"] /\ Classed(h) = Classed(m)
      /\ h["connections_active"] = m["connections_active"]
  BY <1>2 DEF Sums, StatusClasses, Classed
<1> QED
  BY <1>2, <1>3 DEF Books

\* The books after each operation of Metrics.
LEMMA Booked ==
    ASSUME NEW m, NEW z, NEW A \in Int, NEW P \in Nat, NEW left \in Nat, NEW U \in Nat, NEW met \in Nat,
           Books(m, z, A, P, left, U, met)
    PROVE  /\ \A n \in Int : /\ Books(record_bytes_received(m, n), z, A, P, left, U, met)
                             /\ Books(record_bytes_sent(m, n), z, A, P, left, U, met)
                             /\ Books(record_rules_applied(m, n), z, A, P, left, U, met)
           /\ Books(request_timed(m), z, A, P, left, U, met)
           /\ Books(record_host_request(m), z, A, P, left, U, met)
           /\ Books(connection_opened(m), z, A + 1, P, left, U, met)
           /\ Books(connection_closed(m), z, A - 1, P, left, U, met)
           /\ \A now \in Nat : now = met + (IF z = "off" THEN 0 ELSE 1) =>
                  /\ Books(record_request(m), z, A, P + 1, left, U, now)
                  /\ Books(record_request_error(record_request(m)), z, A, P, left, U, now)
                  /\ Books(record_response(record_request_success(record_request(m)), 200), z, A, P, left, U, now)
           /\ \A less \in Nat : P = less + 1 =>
                  /\ Books(record_request_error(m), z, A, less, left, U, met)
                  /\ Books(m, z, A, less, left + 1, U, met)
                  /\ \A status \in Statuses :
                         Books(record_response(record_request_success(m), status), z, A, less, left,
                               U + (IF status \in 200..599 THEN 0 ELSE 1), met)
<1>1. m \in [Counters -> Int] /\ Sums \subseteq Counters
  BY DEF Books, Counters, Sums, StatusClasses
<1> DEFINE T == m["requests_total"]  S == m["requests_success"]  E == m["requests_error"]  C == Classed(m)
<1>2. \A k \in Sums : m[k] \in Int
  BY <1>1
<1>3. T \in Int /\ S \in Int /\ E \in Int /\ C \in Int /\ m["connections_active"] = A
  BY <1>2 DEF Sums, StatusClasses, Classed, Books
<1>4. Balanced(z, T, S, E, C, P, left, U, met)
  BY DEF Books
<1> DEFINE Is(k, t, s, e, c, a) ==
             /\ k \in [Counters -> Int]
             /\ k["requests_total"] = t /\ k["requests_success"] = s /\ k["requests_error"] = e
             /\ Classed(k) = c /\ k["connections_active"] = a
<1>5. Is(m, T, S, E, C, A)
  BY <1>1, <1>3
<1> HIDE DEF T, S, E, C
<1>6. \A k, t, s, e, c, a : Is(k, t, s, e, c, a) =>
          \A p, l, u, w : Balanced(z, t, s, e, c, p, l, u, w) => Books(k, z, a, p, l, u, w)
  BY DEF Books
<1>7. \A t, s, e, c, a \in Int : \A k, h : Is(k, t, s, e, c, a) =>
          /\ Adds(h, k, {}, 0) => Is(h, t, s, e, c, a)
          /\ Adds(h, k, {}, 1) => Is(h, t, s, e, c, a)
          /\ Adds(h, k, {"requests_total"}, 1) => Is(h, t + 1, s, e, c, a)
          /\ Adds(h, k, {"requests_success"}, 1) => Is(h, t, s + 1, e, c, a)
          /\ Adds(h, k, {"requests_error"}, 1) => Is(h, t, s, e + 1, c, a)
          /\ Adds(h, k, {"responses_2xx"}, 1) => Is(h, t, s, e, c + 1, a)
          /\ Adds(h, k, {"responses_4xx"}, 1) => Is(h, t, s, e, c + 1, a)
          /\ Adds(h, k, {"connections_active"}, 1) => Is(h, t, s, e, c, a + 1)
          /\ Adds(h, k, {"connections_active"}, -1) => Is(h, t, s, e, c, a - 1)
  <2> SUFFICES ASSUME NEW t \in Int, NEW s \in Int, NEW e \in Int, NEW c \in Int, NEW a \in Int,
                      NEW k, NEW h, Is(k, t, s, e, c, a)
               PROVE  /\ Adds(h, k, {}, 0) => Is(h, t, s, e, c, a)
                      /\ Adds(h, k, {}, 1) => Is(h, t, s, e, c, a)
                      /\ Adds(h, k, {"requests_total"}, 1) => Is(h, t + 1, s, e, c, a)
                      /\ Adds(h, k, {"requests_success"}, 1) => Is(h, t, s + 1, e, c, a)
                      /\ Adds(h, k, {"requests_error"}, 1) => Is(h, t, s, e + 1, c, a)
                      /\ Adds(h, k, {"responses_2xx"}, 1) => Is(h, t, s, e, c + 1, a)
                      /\ Adds(h, k, {"responses_4xx"}, 1) => Is(h, t, s, e, c + 1, a)
                      /\ Adds(h, k, {"connections_active"}, 1) => Is(h, t, s, e, c, a + 1)
                      /\ Adds(h, k, {"connections_active"}, -1) => Is(h, t, s, e, c, a - 1)
    OBVIOUS
  <2>1. k \in [Counters -> Int]
    OBVIOUS
  <2>2. ASSUME Adds(h, k, {}, 0) \/ Adds(h, k, {}, 1) PROVE Is(h, t, s, e, c, a)
    BY <2>1, <2>2, Added
  <2>3. ASSUME Adds(h, k, {"requests_total"}, 1) PROVE Is(h, t + 1, s, e, c, a)
    BY <2>1, <2>3, Added
  <2>4. ASSUME Adds(h, k, {"requests_success"}, 1) PROVE Is(h, t, s + 1, e, c, a)
    BY <2>1, <2>4, Added
  <2>5. ASSUME Adds(h, k, {"requests_error"}, 1) PROVE Is(h, t, s, e + 1, c, a)
    BY <2>1, <2>5, Added
  <2>6. ASSUME Adds(h, k, {"responses_2xx"}, 1) PROVE Is(h, t, s, e, c + 1, a)
    BY <2>1, <2>6, Added
  <2>7. ASSUME Adds(h, k, {"responses_4xx"}, 1) PROVE Is(h, t, s, e, c + 1, a)
    BY <2>1, <2>7, Added
  <2>8. ASSUME Adds(h, k, {"connections_active"}, 1) PROVE Is(h, t, s, e, c, a + 1)
    BY <2>1, <2>8, Added
  <2>9. ASSUME Adds(h, k, {"connections_active"}, -1) PROVE Is(h, t, s, e, c, a - 1)
    BY <2>1, <2>9, Added
  <2> QED
    BY <2>2, <2>3, <2>4, <2>5, <2>6, <2>7, <2>8, <2>9
<1>8. \A k, t, s, e, c, a : Is(k, t, s, e, c, a) => k \in [Counters -> Int]
  OBVIOUS
<1> HIDE DEF Is
<1>9. \A n \in Int : /\ Is(record_bytes_received(m, n), T, S, E, C, A)
                     /\ Is(record_bytes_sent(m, n), T, S, E, C, A)
                     /\ Is(record_rules_applied(m, n), T, S, E, C, A)
  <2>1. \A n \in Int : /\ Adds(record_bytes_received(m, n), m, {}, 0)
                       /\ Adds(record_bytes_sent(m, n), m, {}, 0)
                       /\ Adds(record_rules_applied(m, n), m, {}, 0)
    BY <1>1, Effects
  <2> QED
    BY <2>1, <1>3, <1>5, <1>7
<1>10. /\ Is(request_timed(m), T, S, E, C, A) /\ Is(record_host_request(m), T, S, E, C, A)
       /\ Is(connection_opened(m), T, S, E, C, A + 1) /\ Is(connection_closed(m), T, S, E, C, A - 1)
       /\ Is(record_request(m), T + 1, S, E, C, A) /\ Is(record_request_error(m), T, S, E + 1, C, A)
       /\ Is(record_request_success(m), T, S + 1, E, C, A)
  <2>1. /\ Adds(request_timed(m), m, {}, 0) /\ Adds(record_host_request(m), m, {}, 0)
        /\ Adds(connection_opened(m), m, {"connections_active"}, 1)
        /\ Adds(connection_closed(m), m, {"connections_active"}, -1)
        /\ Adds(record_request(m), m, {"requests_total"}, 1)
        /\ Adds(record_request_error(m), m, {"requests_error"}, 1)
        /\ Adds(record_request_success(m), m, {"requests_success"}, 1)
    BY <1>1, Effects
  <2> QED
    BY <2>1, <1>3, <1>5, <1>7
<1>11. /\ Is(record_request_error(record_request(m)), T + 1, S, E + 1, C, A)
       /\ Is(record_request_success(record_request(m)), T + 1, S + 1, E, C, A)
  <2> DEFINE more == record_request(m)
  <2>1. Is(more, T + 1, S, E, C, A) /\ more \in [Counters -> Int]
    BY <1>8, <1>10
  <2> HIDE DEF more
  <2>2. /\ Adds(record_request_error(more), more, {"requests_error"}, 1)
        /\ Adds(record_request_success(more), more, {"requests_success"}, 1)
    BY <2>1, Effects
  <2>3. T + 1 \in Int
    BY <1>3
  <2>4. Is(record_request_error(more), T + 1, S, E + 1, C, A) /\ Is(record_request_success(more), T + 1, S + 1, E, C, A)
    BY <2>1, <2>2, <2>3, <1>3, <1>7
  <2> QED
    BY <2>4 DEF more
<1>12. Is(record_response(record_request_success(record_request(m)), 200), T + 1, S + 1, E, C + 1, A)
  <2> DEFINE both == record_request_success(record_request(m))
  <2>1. Is(both, T + 1, S + 1, E, C, A) /\ both \in [Counters -> Int]
    BY <1>8, <1>11
  <2> HIDE DEF both
  <2>2. Adds(record_response(both, 200), both, ClassOf(200), 1)
    BY <2>1, Effects DEF Statuses
  <2>3. T + 1 \in Int /\ S + 1 \in Int /\ ClassOf(200) = {"responses_2xx"}
    BY <1>3 DEF ClassOf
  <2>4. Is(record_response(both, 200), T + 1, S + 1, E, C + 1, A)
    <3>1. Adds(record_response(both, 200), both, {"responses_2xx"}, 1)
      BY <2>2, <2>3
    <3>2. \A k, h : Is(k, T + 1, S + 1, E, C, A) /\ Adds(h, k, {"responses_2xx"}, 1)
                       => Is(h, T + 1, S + 1, E, C + 1, A)
      BY <2>3, <1>3, <1>7
    <3> QED
      BY <2>1, <3>1, <3>2
  <2> QED
    BY <2>4 DEF both
<1>13. \A status \in Statuses :
          /\ status \in 200..599 => Is(record_response(record_request_success(m), status), T, S + 1, E, C + 1, A)
          /\ status \notin 200..599 => Is(record_response(record_request_success(m), status), T, S + 1, E, C, A)
  <2> DEFINE good == record_request_success(m)
  <2>1. Is(good, T, S + 1, E, C, A) /\ good \in [Counters -> Int]
    BY <1>8, <1>10
  <2> HIDE DEF good
  <2>2. \A status \in Statuses : Adds(record_response(good, status), good, ClassOf(status), 1)
    BY <2>1, Effects
  <2>3. S + 1 \in Int
    BY <1>3
  <2>4. \A status \in Statuses :
            /\ status \in 200..599 => ClassOf(status) \in {{"responses_2xx"}, {"responses_4xx"}}
            /\ status \notin 200..599 => ClassOf(status) = {}
    BY DEF Statuses, ClassOf
  <2>5. \A status \in Statuses :
            /\ status \in 200..599 => Is(record_response(good, status), T, S + 1, E, C + 1, A)
            /\ status \notin 200..599 => Is(record_response(good, status), T, S + 1, E, C, A)
    <3>1. \A k, h : Is(k, T, S + 1, E, C, A) =>
              /\ Adds(h, k, {"responses_2xx"}, 1) => Is(h, T, S + 1, E, C + 1, A)
              /\ Adds(h, k, {"responses_4xx"}, 1) => Is(h, T, S + 1, E, C + 1, A)
              /\ Adds(h, k, {}, 1) => Is(h, T, S + 1, E, C, A)
      BY <2>3, <1>3, <1>7
    <3>2. \A h : /\ Adds(h, good, {"responses_2xx"}, 1) => Is(h, T, S + 1, E, C + 1, A)
                 /\ Adds(h, good, {"responses_4xx"}, 1) => Is(h, T, S + 1, E, C + 1, A)
                 /\ Adds(h, good, {}, 1) => Is(h, T, S + 1, E, C, A)
      BY <2>1, <3>1
    <3> SUFFICES ASSUME NEW status \in Statuses
                 PROVE  /\ status \in 200..599 => Is(record_response(good, status), T, S + 1, E, C + 1, A)
                        /\ status \notin 200..599 => Is(record_response(good, status), T, S + 1, E, C, A)
      OBVIOUS
    <3>3. Adds(record_response(good, status), good, ClassOf(status), 1)
      BY <2>2
    <3>4. CASE status \in 200..599
      <4>1. ClassOf(status) = {"responses_2xx"} \/ ClassOf(status) = {"responses_4xx"}
        BY <2>4, <3>4
      <4>2. \/ Adds(record_response(good, status), good, {"responses_2xx"}, 1)
            \/ Adds(record_response(good, status), good, {"responses_4xx"}, 1)
        BY <3>3, <4>1, Zenon
      <4> QED
        BY <3>2, <3>4, <4>2, Zenon
    <3>5. CASE status \notin 200..599
      <4>1. Adds(record_response(good, status), good, {}, 1)
        BY <2>4, <3>3, <3>5, Zenon
      <4> QED
        BY <3>2, <3>5, <4>1, Zenon
    <3> QED
      BY <3>4, <3>5
  <2> QED
    BY <2>5 DEF good
<1>14. \A n \in Int : /\ Books(record_bytes_received(m, n), z, A, P, left, U, met)
                      /\ Books(record_bytes_sent(m, n), z, A, P, left, U, met)
                      /\ Books(record_rules_applied(m, n), z, A, P, left, U, met)
  BY <1>4, <1>6, <1>9
<1>15. /\ Books(request_timed(m), z, A, P, left, U, met)
       /\ Books(record_host_request(m), z, A, P, left, U, met)
       /\ Books(connection_opened(m), z, A + 1, P, left, U, met)
       /\ Books(connection_closed(m), z, A - 1, P, left, U, met)
  BY <1>4, <1>6, <1>10
<1>16. ASSUME NEW now \in Nat, now = met + (IF z = "off" THEN 0 ELSE 1)
       PROVE  /\ Books(record_request(m), z, A, P + 1, left, U, now)
              /\ Books(record_request_error(record_request(m)), z, A, P, left, U, now)
              /\ Books(record_response(record_request_success(record_request(m)), 200), z, A, P, left, U, now)
  <2>1. /\ Balanced(z, T + 1, S, E, C, P + 1, left, U, now)
        /\ Balanced(z, T + 1, S, E + 1, C, P, left, U, now)
        /\ Balanced(z, T + 1, S + 1, E, C + 1, P, left, U, now)
    BY <1>3, <1>4, <1>16, Balances
  <2> QED
    BY <2>1, <1>6, <1>10, <1>11, <1>12
<1>17. ASSUME NEW less \in Nat, P = less + 1
       PROVE  /\ Books(record_request_error(m), z, A, less, left, U, met)
              /\ Books(m, z, A, less, left + 1, U, met)
              /\ \A status \in Statuses :
                     Books(record_response(record_request_success(m), status), z, A, less, left,
                           U + (IF status \in 200..599 THEN 0 ELSE 1), met)
  <2>1. /\ Balanced(z, T, S, E + 1, C, less, left, U, met)
        /\ Balanced(z, T, S, E, C, less, left + 1, U, met)
        /\ Balanced(z, T, S + 1, E, C + 1, less, left, U, met)
        /\ Balanced(z, T, S + 1, E, C, less, left, U + 1, met)
    BY <1>3, <1>4, <1>17, Balances
  <2>2. \A status \in Statuses :
            /\ status \in 200..599 =>
                   Books(record_response(record_request_success(m), status), z, A, less, left, U, met)
            /\ status \notin 200..599 =>
                   Books(record_response(record_request_success(m), status), z, A, less, left, U + 1, met)
    BY <2>1, <1>6, <1>13
  <2> QED
    BY <2>1, <2>2, <1>5, <1>6, <1>10
<1> QED
  BY ONLY <1>14, <1>15, <1>16, <1>17

----------------------------------------------------------------------------
\* Every step keeps the books

\* The pending requests and the active connections after a step of one connection.
LEMMA Tallies ==
    ASSUME BooksInv, ProxyTypes', NEW c \in Conns,
           \A d \in Conns : d # c => conn'[d] = conn[d] /\ inFlight'[d] = inFlight[d]
    PROVE  /\ IsFiniteSet(Pending') /\ IsFiniteSet(Active')
           /\ inFlight'[c] = Idle /\ inFlight[c] = Idle => Cardinality(Pending') = Cardinality(Pending)
           /\ inFlight'[c] # Idle /\ inFlight[c] = Idle => Cardinality(Pending') = Cardinality(Pending) + 1
           /\ inFlight'[c] = Idle /\ inFlight[c] # Idle => Cardinality(Pending') = Cardinality(Pending) - 1
           /\ conn'[c] \in {"open", "upgrade"} /\ conn[c] \in {"open", "upgrade"}
                => Cardinality(Active') = Cardinality(Active)
           /\ conn'[c] \in {"open", "upgrade"} /\ conn[c] \notin {"open", "upgrade"}
                => Cardinality(Active') = Cardinality(Active) + 1
           /\ conn'[c] \notin {"open", "upgrade"} /\ conn[c] \in {"open", "upgrade"}
                => Cardinality(Active') = Cardinality(Active) - 1
<1>0. ProxyTypes /\ IsFiniteSet(Pending) /\ IsFiniteSet(Active)
  BY DEF BooksInv, RecordInv
<1>1. /\ inFlight'[c] = Idle => Pending' = Pending \ {c}
      /\ inFlight'[c] # Idle => Pending' = Pending \cup {c}
  BY <1>0 DEF ProxyTypes, Pending
<1>2. /\ conn'[c] \in {"open", "upgrade"} => Active' = Active \cup {c}
      /\ conn'[c] \notin {"open", "upgrade"} => Active' = Active \ {c}
  BY <1>0 DEF ProxyTypes, Active
<1>3. (c \in Pending <=> inFlight[c] # Idle) /\ (c \in Active <=> conn[c] \in {"open", "upgrade"})
  BY DEF Pending, Active
<1>4. \A X : IsFiniteSet(X) =>
          /\ IsFiniteSet(X \ {c}) /\ IsFiniteSet(X \cup {c})
          /\ c \in X => X \cup {c} = X /\ Cardinality(X \ {c}) = Cardinality(X) - 1
          /\ c \notin X => X \ {c} = X /\ Cardinality(X \cup {c}) = Cardinality(X) + 1
  <2> SUFFICES ASSUME NEW X, IsFiniteSet(X)
               PROVE  /\ IsFiniteSet(X \ {c}) /\ IsFiniteSet(X \cup {c})
                      /\ c \in X => X \cup {c} = X /\ Cardinality(X \ {c}) = Cardinality(X) - 1
                      /\ c \notin X => X \ {c} = X /\ Cardinality(X \cup {c}) = Cardinality(X) + 1
    OBVIOUS
  <2>1. IsFiniteSet(X \ {c}) /\ IsFiniteSet(X \cup {c})
    BY FS_AddElement, FS_RemoveElement
  <2>2. c \in X => Cardinality(X \ {c}) = Cardinality(X) - 1
    BY FS_RemoveElement
  <2>3. c \notin X => Cardinality(X \cup {c}) = Cardinality(X) + 1
    BY FS_AddElement
  <2> QED
    BY <2>1, <2>2, <2>3
<1>5. /\ IsFiniteSet(Pending')
      /\ inFlight'[c] = Idle /\ inFlight[c] = Idle => Cardinality(Pending') = Cardinality(Pending)
      /\ inFlight'[c] # Idle /\ inFlight[c] = Idle => Cardinality(Pending') = Cardinality(Pending) + 1
      /\ inFlight'[c] = Idle /\ inFlight[c] # Idle => Cardinality(Pending') = Cardinality(Pending) - 1
  <2>1. /\ IsFiniteSet(Pending \ {c}) /\ IsFiniteSet(Pending \cup {c})
        /\ c \in Pending => Cardinality(Pending \ {c}) = Cardinality(Pending) - 1
        /\ c \notin Pending => /\ Pending \ {c} = Pending
                              /\ Cardinality(Pending \cup {c}) = Cardinality(Pending) + 1
    BY <1>0, <1>4
  <2> QED
    BY <2>1, <1>1, <1>3
<1>6. /\ IsFiniteSet(Active')
      /\ conn'[c] \in {"open", "upgrade"} /\ conn[c] \in {"open", "upgrade"}
           => Cardinality(Active') = Cardinality(Active)
      /\ conn'[c] \in {"open", "upgrade"} /\ conn[c] \notin {"open", "upgrade"}
           => Cardinality(Active') = Cardinality(Active) + 1
      /\ conn'[c] \notin {"open", "upgrade"} /\ conn[c] \in {"open", "upgrade"}
           => Cardinality(Active') = Cardinality(Active) - 1
  <2>1. /\ IsFiniteSet(Active \ {c}) /\ IsFiniteSet(Active \cup {c})
        /\ c \in Active => /\ Active \cup {c} = Active
                          /\ Cardinality(Active \ {c}) = Cardinality(Active) - 1
        /\ c \notin Active => Cardinality(Active \cup {c}) = Cardinality(Active) + 1
    BY <1>0, <1>4
  <2> QED
    BY <2>1, <1>2, <1>3
<1> QED
  BY <1>5, <1>6
LEMMA BooksStep == BooksInv /\ [ProxyNext]_proxyVars => BooksInv'
<1> SUFFICES ASSUME BooksInv, [ProxyNext]_proxyVars
             PROVE  /\ IsFiniteSet(Pending') /\ IsFiniteSet(Active') /\ straddled' \in Nat
                    /\ Books(metrics', zeroing', Cardinality(Active'), Cardinality(Pending'),
                             abandoned', classless', straddled')
  BY RecordStep DEF BooksInv
<1> USE DEF logs, history, setting, counting
<1> DEFINE A == Cardinality(Active)  P == Cardinality(Pending)
           Now(a, p) == /\ IsFiniteSet(Pending') /\ IsFiniteSet(Active')
                        /\ Cardinality(Active') = a /\ Cardinality(Pending') = p
           Goal == /\ IsFiniteSet(Pending') /\ IsFiniteSet(Active') /\ straddled' \in Nat
                   /\ Books(metrics', zeroing', Cardinality(Active'), Cardinality(Pending'),
                            abandoned', classless', straddled')
<1>0. ProxyTypes /\ Underway /\ ProxyTypes'
  BY TypesStep DEF BooksInv, RecordInv
<1>1. /\ IsFiniteSet(Pending) /\ IsFiniteSet(Active) /\ A \in Nat /\ P \in Nat
      /\ abandoned \in Nat /\ classless \in Nat /\ straddled \in Nat
      /\ Books(metrics, zeroing, A, P, abandoned, classless, straddled)
  BY <1>0, FS_CardinalityType DEF BooksInv, ProxyTypes
<1>2. \A c \in Conns : inFlight[c].pc = "idle" <=> inFlight[c] = Idle
  BY <1>0 DEF Idle, ProxyTypes, Flights
<1>3. \A c \in Conns : inFlight[c] # Idle => inFlight[c] \in Flights /\ conn[c] = "open"
  BY <1>0 DEF ProxyTypes, Underway, UnderwayOf
<1>4. \A c \in Conns : inFlight[c] # Idle => \E less \in Nat : P = less + 1
  <2> SUFFICES ASSUME NEW c \in Conns, inFlight[c] # Idle PROVE \E less \in Nat : P = less + 1
    OBVIOUS
  <2>1. c \in Pending
    BY DEF Pending
  <2>2. Cardinality(Pending \ {c}) = P - 1 /\ Cardinality(Pending \ {c}) \in Nat
    BY <2>1, <1>1, FS_RemoveElement, FS_CardinalityType
  <2>3. P = Cardinality(Pending \ {c}) + 1
    BY <2>2, <1>1
  <2> QED
    BY <2>2, <2>3
<1>5. UNCHANGED <<conn, inFlight>> => Now(A, P)
  <2> SUFFICES ASSUME UNCHANGED <<conn, inFlight>> PROVE Now(A, P)
    OBVIOUS
  <2>1. Pending' = Pending /\ Active' = Active
    BY DEF Pending, Active
  <2> QED
    BY <2>1, <1>1
\* What a step of one connection makes of the two numbers.
<1>6. \A c \in Conns : UNCHANGED conn /\ inFlight[c] # Idle /\ inFlight' = [inFlight EXCEPT ![c] = Idle]
          => Now(A, P - 1)
  <2> SUFFICES ASSUME NEW c \in Conns, UNCHANGED conn, inFlight[c] # Idle, inFlight' = [inFlight EXCEPT ![c] = Idle]
               PROVE  Now(A, P - 1)
    OBVIOUS
  <2>1. /\ conn'[c] = conn[c] /\ inFlight'[c] = Idle /\ conn[c] = "open"
        /\ \A d \in Conns : d # c => conn'[d] = conn[d] /\ inFlight'[d] = inFlight[d]
    BY <1>0, <1>3 DEF ProxyTypes
  <2> QED
    BY <2>1, <1>0, Tallies
<1>7. straddled' = straddled + (IF zeroing = "off" THEN 0 ELSE 1) => straddled' \in Nat
  BY <1>1
<1>8. Arrive => straddled' = straddled + (IF zeroing = "off" THEN 0 ELSE 1)
  BY <1>1 DEF Arrive
<1> HIDE DEF A, P
\* The entries of a step, from the books before it.
<1>9. /\ \A n \in Int : /\ Books(record_bytes_received(metrics, n), zeroing, A, P, abandoned, classless, straddled)
                        /\ Books(record_bytes_sent(metrics, n), zeroing, A, P, abandoned, classless, straddled)
                        /\ Books(record_rules_applied(metrics, n), zeroing, A, P, abandoned, classless, straddled)
      /\ Books(request_timed(metrics), zeroing, A, P, abandoned, classless, straddled)
      /\ Books(connection_opened(metrics), zeroing, A + 1, P, abandoned, classless, straddled)
      /\ Books(connection_closed(metrics), zeroing, A - 1, P, abandoned, classless, straddled)
  <2>1. A \in Int
    BY <1>1
  <2>2. \A n \in Int : /\ Books(record_bytes_received(metrics, n), zeroing, A, P, abandoned, classless, straddled)
                       /\ Books(record_bytes_sent(metrics, n), zeroing, A, P, abandoned, classless, straddled)
                       /\ Books(record_rules_applied(metrics, n), zeroing, A, P, abandoned, classless, straddled)
    <3>1. metrics \in [Counters -> Int]
      BY <1>1 DEF Books
    <3>2. \A n \in Int : /\ Adds(record_bytes_received(metrics, n), metrics, {}, 0)
                         /\ Adds(record_bytes_sent(metrics, n), metrics, {}, 0)
                         /\ Adds(record_rules_applied(metrics, n), metrics, {}, 0)
      BY ONLY <3>1, Effects
    <3>3. Books(metrics, zeroing, A, P, abandoned, classless, straddled)
      BY ONLY <1>1
    <3> QED
      BY ONLY <3>2, <3>3, UnsummedBooked
  <2>3. /\ Books(request_timed(metrics), zeroing, A, P, abandoned, classless, straddled)
        /\ Books(connection_opened(metrics), zeroing, A + 1, P, abandoned, classless, straddled)
        /\ Books(connection_closed(metrics), zeroing, A - 1, P, abandoned, classless, straddled)
    BY <2>1, <1>1, Booked
  <2> QED
    BY <2>2, <2>3
<1>10. Arrive =>
          /\ Books(record_request(metrics), zeroing, A, P + 1, abandoned, classless, straddled')
          /\ Books(record_request_error(record_request(metrics)), zeroing, A, P, abandoned, classless, straddled')
          /\ Books(record_response(record_request_success(record_request(metrics)), 200), zeroing, A, P,
                   abandoned, classless, straddled')
  BY <1>1, <1>7, <1>8, Booked
<1>a. ASSUME NEW c \in Conns, Accept(c) PROVE Goal
  <2>1. /\ conn' = [conn EXCEPT ![c] = "open"] /\ conn[c] = "new" /\ inFlight[c] = Idle
        /\ metrics' = connection_opened(metrics) /\ UNCHANGED <<inFlight, counting>>
    BY <1>a, <1>3 DEF Accept
  <2>2. /\ conn'[c] = "open" /\ inFlight'[c] = Idle
        /\ \A d \in Conns : d # c => conn'[d] = conn[d] /\ inFlight'[d] = inFlight[d]
    BY <2>1, <1>0 DEF ProxyTypes
  <2>3. Now(A + 1, P)
    BY <2>1, <2>2, <1>0, Tallies DEF A, P
  <2> QED
    BY <2>1, <2>3, <1>1, <1>9
<1>b. ASSUME NEW c \in Conns, HangUp(c) PROVE Goal
  <2> DEFINE m == IF inFlight[c].pc = "answer" THEN request_timed(metrics) ELSE metrics
  <2>1. Books(m, zeroing, A, P, abandoned, classless, straddled)
    BY <1>1, <1>9
  <2>2. /\ conn' = [conn EXCEPT ![c] = "closed"] /\ inFlight' = [inFlight EXCEPT ![c] = Idle]
        /\ conn[c] = "open" /\ metrics' = connection_closed(m)
        /\ abandoned' = abandoned + IF inFlight[c].pc = "idle" THEN 0 ELSE 1
        /\ UNCHANGED <<zeroing, classless, straddled>>
    BY <1>b DEF HangUp, Close
  <2> HIDE DEF m
  <2>5. /\ conn'[c] = "closed" /\ inFlight'[c] = Idle
        /\ \A d \in Conns : d # c => conn'[d] = conn[d] /\ inFlight'[d] = inFlight[d]
    BY <2>2, <1>0 DEF ProxyTypes
  <2>3. CASE inFlight[c] = Idle
    <3>1. Now(A - 1, P) /\ abandoned' = abandoned
      <4>1. Now(A - 1, P)
        BY <2>2, <2>3, <2>5, <1>0, Tallies DEF A, P
      <4> QED
        BY <4>1, <2>2, <2>3, <1>1, <1>2
    <3>2. Books(metrics', zeroing, A - 1, P, abandoned, classless, straddled)
      BY <2>1, <2>2, <1>1, Booked
    <3> QED
      BY <3>1, <3>2, <2>2, <1>1
  <2>4. CASE inFlight[c] # Idle
    <3>1. Now(A - 1, P - 1) /\ abandoned' = abandoned + 1
      <4>1. Now(A - 1, P - 1)
        BY <2>2, <2>4, <2>5, <1>0, Tallies DEF A, P
      <4> QED
        BY <4>1, <2>2, <2>4, <1>2
    <3>2. PICK less \in Nat : P = less + 1
      BY <2>4, <1>4
    <3>3. Books(m, zeroing, A, less, abandoned + 1, classless, straddled)
      <4>1. \A n \in Nat : P = n + 1 => Books(m, zeroing, A, n, abandoned + 1, classless, straddled)
        BY <2>1, <1>1, Booked
      <4> QED
        BY <3>2, <4>1
    <3>4. PICK left \in Nat : left = abandoned + 1
      BY <1>1
    <3>5. Books(connection_closed(m), zeroing, A - 1, less, left, classless, straddled)
      BY <3>3, <3>4, <1>1, Booked
    <3>6. P - 1 = less
      BY <3>2, <1>1
    <3> QED
      BY <3>1, <3>4, <3>5, <3>6, <2>2, <1>1
  <2> QED
    BY <2>3, <2>4
<1>c. ASSUME NEW c \in Conns, Connect(c) PROVE Goal
  <2>1. /\ conn' = [conn EXCEPT ![c] = "upgrade"] /\ conn[c] = "open" /\ inFlight[c] = Idle
        /\ metrics' = record_response(record_request_success(record_request(metrics)), 200)
        /\ Arrive /\ UNCHANGED <<inFlight, zeroing, abandoned, classless>>
    BY <1>c, <1>2 DEF Connect
  <2>2. /\ conn'[c] = "upgrade" /\ inFlight'[c] = Idle
        /\ \A d \in Conns : d # c => conn'[d] = conn[d] /\ inFlight'[d] = inFlight[d]
    BY <2>1, <1>0 DEF ProxyTypes
  <2>3. Now(A, P)
    BY <2>1, <2>2, <1>0, Tallies DEF A, P
  <2> QED
    BY <2>1, <2>3, <1>7, <1>8, <1>10
<1>d. ASSUME NEW c \in Conns, Upgrade(c) PROVE Goal
  <2>1. /\ conn' = [conn EXCEPT ![c] = "closed"] /\ conn[c] = "upgrade" /\ inFlight[c] = Idle
        /\ inFlight' = [inFlight EXCEPT ![c] = Idle]
        /\ metrics' = connection_closed(metrics) /\ UNCHANGED counting
    BY <1>d, <1>3 DEF Upgrade, Close
  <2>3. /\ conn'[c] = "closed" /\ inFlight'[c] = Idle
        /\ \A d \in Conns : d # c => conn'[d] = conn[d] /\ inFlight'[d] = inFlight[d]
    BY <2>1, <1>0 DEF ProxyTypes
  <2>2. Now(A - 1, P)
    BY <2>1, <2>3, <1>0, Tallies DEF A, P
  <2> QED
    BY <2>1, <2>2, <1>1, <1>9
<1>e. ASSUME NEW c \in Conns, RequestNowhere(c) PROVE Goal
  <2>1. /\ metrics' = record_request_error(record_request(metrics))
        /\ Arrive /\ UNCHANGED <<conn, inFlight, zeroing, abandoned, classless>>
    BY <1>e DEF RequestNowhere
  <2> QED
    BY <2>1, <1>5, <1>7, <1>8, <1>10
<1>f. ASSUME NEW c \in Conns, NEW h \in Hosts, NEW f \in Forms, Request(c, h, f) PROVE Goal
  <2> DEFINE t == [pc |-> "scope", id |-> requests + 1, host |-> h,
                    tls |-> SchemeOf(f) = "https",
                    inScope |-> FALSE, count |-> 0, sent |-> {}, reply |-> {}]
  <2>1. t # Idle
    <3>1. t.pc # Idle.pc
      BY DEF Idle
    <3> QED
      BY <3>1
  <2>2. /\ inFlight[c] = Idle /\ inFlight' = [inFlight EXCEPT ![c] = t] /\ UNCHANGED conn
        /\ metrics' = record_host_request(record_request(metrics))
        /\ Arrive /\ UNCHANGED <<zeroing, abandoned, classless>>
    BY <1>f, <1>2 DEF Request
  <2> HIDE DEF t
  <2>3. /\ conn'[c] = conn[c] /\ conn[c] = "open" /\ inFlight'[c] # Idle
        /\ \A d \in Conns : d # c => conn'[d] = conn[d] /\ inFlight'[d] = inFlight[d]
    BY <2>1, <2>2, <1>f, <1>0 DEF ProxyTypes, Request
  <2>4. Now(A, P + 1)
    BY <2>2, <2>3, <1>0, Tallies DEF A, P
  <2>5. PICK more \in Nat : more = P + 1
    BY <1>1
  <2>6. Books(record_request(metrics), zeroing, A, more, abandoned, classless, straddled') /\ straddled' \in Nat
    BY <2>2, <2>5, <1>7, <1>8, <1>10
  <2>7. Books(record_host_request(record_request(metrics)), zeroing, A, more, abandoned, classless, straddled')
    BY <2>6, <1>1, Booked
  <2> QED
    BY <2>2, <2>4, <2>5, <2>6, <2>7
<1>j. ASSUME NEW c \in Conns, Broken(c) PROVE Goal
  <2> DEFINE m == IF inFlight[c].pc = "answer" THEN request_timed(metrics) ELSE metrics
  <2>1. Books(m, zeroing, A, P, abandoned, classless, straddled)
    BY <1>1, <1>9
  <2>2. /\ inFlight[c] # Idle /\ inFlight' = [inFlight EXCEPT ![c] = Idle]
        /\ metrics' = record_request_error(m) /\ UNCHANGED <<conn, counting>>
    BY <1>j, <1>2 DEF Broken, Fail
  <2> HIDE DEF m
  <2>3. Now(A, P - 1)
    BY <2>2, <1>6
  <2>4. PICK less \in Nat : P = less + 1
    BY <2>2, <1>4
  <2>5. Books(record_request_error(m), zeroing, A, less, abandoned, classless, straddled) /\ P - 1 = less
    BY <2>1, <2>4, <1>1, Booked
  <2> QED
    BY <2>2, <2>3, <2>5, <1>1
<1>k. ASSUME NEW c \in Conns, NEW s \in Statuses, NEW reply, NEW m, Deliver(c, reply, s, m),
             inFlight[c] # Idle, Books(m, zeroing, A, P, abandoned, classless, straddled),
             UNCHANGED <<conn, zeroing, abandoned, straddled>>
      PROVE  Goal
  <2>1. /\ inFlight' = [inFlight EXCEPT ![c] = Idle]
        /\ metrics' = record_response(record_request_success(m), s)
        /\ classless' = classless + (IF s \in 200..599 THEN 0 ELSE 1)
    BY <1>k DEF Deliver
  <2>2. Now(A, P - 1)
    BY <2>1, <1>k, <1>6
  <2>3. PICK less \in Nat : P = less + 1
    BY <1>k, <1>4
  <2>4. \A u \in Statuses : Books(record_response(record_request_success(m), u), zeroing, A, less, abandoned,
                                  classless + (IF u \in 200..599 THEN 0 ELSE 1), straddled)
    BY <2>3, <1>k, <1>1, Booked
  <2>5. Books(metrics', zeroing, A, less, abandoned, classless', straddled) /\ P - 1 = less
    BY <2>1, <2>3, <2>4, <1>1
  <2> QED
    BY <2>2, <2>5, <1>k, <1>1
<1>l. ASSUME NEW c \in Conns, NEW s \in Statuses, RespondOut(c, s) PROVE Goal
  <2>1. /\ Deliver(c, Untouched, s, record_bytes_sent(metrics, 1)) /\ inFlight[c] # Idle
        /\ UNCHANGED <<conn, zeroing, abandoned, straddled>>
    BY <1>l, <1>2 DEF RespondOut
  <2>2. Books(record_bytes_sent(metrics, 1), zeroing, A, P, abandoned, classless, straddled)
    <3>1. \A n \in Int : Books(record_bytes_sent(metrics, n), zeroing, A, P, abandoned, classless, straddled)
      BY <1>9
    <3> QED
      BY <3>1
  <2> QED
    BY <2>1, <2>2, <1>k
<1>m. ASSUME NEW c \in Conns, NEW s \in Statuses, PushAndDeliver(c, s) PROVE Goal
  <2>1. /\ Deliver(c, inFlight[c].reply, s, request_timed(metrics)) /\ inFlight[c] # Idle
        /\ UNCHANGED <<conn, zeroing, abandoned, straddled>>
    BY <1>m, <1>2 DEF PushAndDeliver
  <2> QED
    BY <2>1, <1>9, <1>k
<1>n. ASSUME NEW c \in Conns, CheckScope(c) \/ CollectBody(c) \/ ApplyRulesAndSend(c) \/ Respond(c)
      PROVE  Goal
  <2>1. inFlight[c] \in Flights /\ inFlight[c] # Idle
    BY <1>n, <1>2, <1>3 DEF CheckScope, CollectBody, ApplyRulesAndSend, Respond
  <2>2. /\ \A d \in Conns : d # c => inFlight'[d] = inFlight[d]
        /\ inFlight'[c].pc \in {"body", "rules", "answerOut", "answer", "push"}
        /\ UNCHANGED <<conn, counting>>
    <3>1. inFlight \in [Conns -> {Idle} \cup Flights]
      BY <1>0 DEF ProxyTypes
    <3>2. /\ \A d \in Conns : d # c => inFlight'[d] = inFlight[d]
          /\ inFlight'[c].pc \in {"body", "rules", "answerOut", "answer", "push"}
      <4>1. CASE CheckScope(c)
        BY <4>1, <2>1, <3>1 DEF CheckScope, Flights
      <4>2. CASE CollectBody(c)
        BY <4>2, <2>1, <3>1 DEF CollectBody, Flights
      <4>3. CASE ApplyRulesAndSend(c)
        BY <4>3, <2>1, <3>1 DEF ApplyRulesAndSend, Flights
      <4>4. CASE Respond(c)
        BY <4>4, <2>1, <3>1 DEF Respond, Flights
      <4> QED
        BY <1>n, <4>1, <4>2, <4>3, <4>4
    <3>3. UNCHANGED <<conn, counting>>
      BY <1>n DEF CheckScope, CollectBody, ApplyRulesAndSend, Respond
    <3> QED
      BY <3>1, <3>2, <3>3
  <2>3. inFlight'[c] # Idle
    BY <2>2 DEF Idle
  <2>4. Pending' = Pending /\ Active' = Active
    BY <2>1, <2>2, <2>3 DEF Pending, Active
  <2>5. \/ metrics' = metrics
        \/ \E n \in Int : metrics' \in {record_bytes_received(metrics, n), record_bytes_sent(metrics, n),
                                        record_rules_applied(metrics, n)}
    <3>1. inFlight[c].count \in Int
      BY <2>1 DEF Flights
    <3> QED
      BY <1>n, <3>1 DEF CheckScope, CollectBody, ApplyRulesAndSend, Respond
  <2>6. Books(metrics', zeroing, A, P, abandoned, classless, straddled)
    BY <2>5, <1>1, <1>9
  <2> QED
    BY <2>2, <2>4, <2>6, <1>1 DEF A, P
<1>o. CASE \/ AcceptError \/ (\E hosts \in SUBSET Hosts : SetScope(hosts)) \/ UNCHANGED proxyVars
           \/ \E r \in RuleIds : SetRules(r)
  <2>1. UNCHANGED <<conn, inFlight, metrics, counting>>
    BY <1>o DEF AcceptError, SetScope, SetRules, proxyVars
  <2> QED
    BY <2>1, <1>1, <1>5
<1>p. CASE ResetTotal \/ ResetSuccess \/ ResetError \/ ResetRest
  <2> DEFINE T == metrics["requests_total"]  S == metrics["requests_success"]
             E == metrics["requests_error"]  C == Classed(metrics)
  <2>1. metrics \in [Counters -> Int] /\ Sums \subseteq Counters
    BY <1>1 DEF Books, Counters, Sums, StatusClasses
  <2>2. /\ \A k \in Sums : metrics[k] \in Int
        /\ metrics["connections_active"] = A /\ Balanced(zeroing, T, S, E, C, P, abandoned, classless, straddled)
    BY <2>1, <1>1 DEF Books
  <2>3. T \in Int /\ S \in Int /\ E \in Int /\ C \in Int
    BY <2>2 DEF Sums, StatusClasses, Classed
  <2>4. /\ Balanced("success", 0, S, E, C, P, 0, classless, P)
        /\ zeroing = "success" => Balanced("error", T, 0, E, C, P, abandoned, 0, straddled)
        /\ zeroing = "error" => Balanced("rest", T, S, 0, C, P, abandoned, classless, straddled)
        /\ zeroing = "rest" => Balanced("off", T, S, E, 0, P, abandoned, classless, straddled)
    BY <2>2, <2>3, <1>1, Balances
  <2>5. \A ks : Zero(metrics, ks) \in [Counters -> Int]
    BY <2>1 DEF Zero
  <2>6. \A ks : \A k \in Sums : Zero(metrics, ks)[k] = IF k \in ks THEN 0 ELSE metrics[k]
    BY <2>1 DEF Zero
  <2>7. UNCHANGED <<conn, inFlight>>
    BY <1>p DEF ResetTotal, ResetSuccess, ResetError, ResetRest
  <2>8. Now(A, P)
    BY <2>7, <1>5
  <2> HIDE DEF T, S, E, C, Now
  <2>9. CASE ResetTotal
    <3>1. /\ metrics' = Zero(metrics, {"requests_total"}) /\ zeroing' = "success" /\ abandoned' = 0
          /\ classless' = classless /\ straddled' = P
      BY <2>9 DEF ResetTotal, P, Pending
    <3>2. /\ metrics'["requests_total"] = 0 /\ metrics'["requests_success"] = S /\ metrics'["requests_error"] = E
          /\ Classed(metrics') = C /\ metrics'["connections_active"] = A
      BY <3>1, <2>2, <2>6 DEF Sums, StatusClasses, Classed, T, S, E, C
    <3> QED
      BY <3>1, <3>2, <2>4, <2>5, <2>8, <1>1 DEF Books, Now
  <2>10. CASE ResetSuccess
    <3>1. /\ metrics' = Zero(metrics, {"requests_success"}) /\ zeroing = "success" /\ zeroing' = "error"
          /\ abandoned' = abandoned /\ classless' = 0 /\ straddled' = straddled
      BY <2>10 DEF ResetSuccess
    <3>2. /\ metrics'["requests_total"] = T /\ metrics'["requests_success"] = 0 /\ metrics'["requests_error"] = E
          /\ Classed(metrics') = C /\ metrics'["connections_active"] = A
      BY <3>1, <2>2, <2>6 DEF Sums, StatusClasses, Classed, T, S, E, C
    <3> QED
      BY <3>1, <3>2, <2>4, <2>5, <2>8, <1>1 DEF Books, Now
  <2>11. CASE ResetError
    <3>1. /\ metrics' = Zero(metrics, {"requests_error"}) /\ zeroing = "error" /\ zeroing' = "rest"
          /\ UNCHANGED <<abandoned, classless, straddled>>
      BY <2>11 DEF ResetError
    <3>2. /\ metrics'["requests_total"] = T /\ metrics'["requests_success"] = S /\ metrics'["requests_error"] = 0
          /\ Classed(metrics') = C /\ metrics'["connections_active"] = A
      BY <3>1, <2>2, <2>6 DEF Sums, StatusClasses, Classed, T, S, E, C
    <3> QED
      BY <3>1, <3>2, <2>4, <2>5, <2>8, <1>1 DEF Books, Now
  <2>12. CASE ResetRest
    <3>1. /\ metrics' = Zero(metrics, StatusClasses \cup Unsummed) /\ zeroing = "rest" /\ zeroing' = "off"
          /\ UNCHANGED <<abandoned, classless, straddled>>
      BY <2>12 DEF ResetRest
    <3>2. /\ metrics'["requests_total"] = T /\ metrics'["requests_success"] = S /\ metrics'["requests_error"] = E
          /\ Classed(metrics') = 0 /\ metrics'["connections_active"] = A
      BY <3>1, <2>2, <2>6 DEF Sums, StatusClasses, Unsummed, Classed, T, S, E, C
    <3> QED
      BY <3>1, <3>2, <2>4, <2>5, <2>8, <1>1 DEF Books, Now
  <2> QED
    BY <1>p, <2>9, <2>10, <2>11, <2>12
<1> QED
  BY <1>a, <1>b, <1>c, <1>d, <1>e, <1>f, <1>j, <1>l, <1>m, <1>n, <1>o, <1>p DEF ProxyNext

\* The counters add up but for the requests that the last reset met, at every moment
\* between two resets, however connections are closed or abandoned; the active
\* connections are the open ones also during a reset (proxy.rs:82, 114, 153;
\* metrics.rs:135, 296).
THEOREM ProxyBooks == ProxySpec => []MetricsAddUp
BY BooksInit, BooksStep, BooksAddUp, PTL DEF ProxySpec
=============================================================================
