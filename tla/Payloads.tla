------------------------------ MODULE Payloads ------------------------------
(***************************************************************************)
(* The requests of an attack (core/src/intruder.rs, generate_requests and  *)
(* its four kinds): a template, the names of its positions and a list of   *)
(* payloads make a list of requests, each with the payloads it was made    *)
(* of.                                                                     *)
(*                                                                         *)
(* A text is a sequence of tokens; the name of a position, as a token, is  *)
(* its marker.  That a replacement makes a marker out of parts of others   *)
(* is left out.                                                            *)
(***************************************************************************)
EXTENDS Integers, Sequences, FiniteSets, SequencesExt

CONSTANTS
    Literals,       \* tokens that are no markers
    Names,          \* names of positions
    Template,       \* the request with its markers
    WordSize,       \* usize::MAX + 1
    MaxPayloads, MaxPositions   \* bounds of the lists

ASSUME PayloadAssumption ==
    /\ Literals \cap Names = {} /\ Template \in Seq(Literals \cup Names)
    /\ WordSize \in Nat \ {0} /\ MaxPayloads \in Nat /\ MaxPositions \in Nat

VARIABLES
    job,            \* what the attack is given and the build that runs it, once it is
    generated       \* its requests, or a panic

payloadVars == <<job, generated>>

AttackTypes == {"Sniper", "Battering", "Pitchfork", "ClusterBomb"}
Lists(S, max) == UNION {[1..n -> S] : n \in 0..max}
Jobs == [type : AttackTypes, positions : Lists(Names, MaxPositions),
         payloads : Lists({<<t>> : t \in Literals \cup Names}, MaxPayloads),
         build : {"debug", "release"}]

----------------------------------------------------------------------------
\* str::replace of the marker of p.
Replace(text, p, by) ==
    FlattenSeq([n \in DOMAIN text |-> IF text[n] = p THEN by ELSE <<text[n]>>])

\* The markers of some positions are replaced one after the other.
Filled(text, positions, some, by) ==
    LET filled[n \in 0..Len(positions)] ==
            IF n = 0 THEN text
            ELSE IF n \in some THEN Replace(filled[n - 1], positions[n], by[n]) ELSE filled[n - 1]
    IN  filled[Len(positions)]

\* Each payload in each position, the other markers emptied.
generate_sniper(j) ==
    FlattenSeq([i \in DOMAIN j.payloads |-> [k \in DOMAIN j.positions |->
        LET here == Replace(Template, j.positions[k], j.payloads[i])
            others == {n \in DOMAIN j.positions : j.positions[n] # j.positions[k]}
        IN  [text |-> Filled(here, j.positions, others, [n \in DOMAIN j.positions |-> <<>>]),
             used |-> <<j.payloads[i]>>]]])

Repeated(j, i) == [n \in DOMAIN j.positions |-> j.payloads[i]]

generate_battering(j) ==
    [i \in DOMAIN j.payloads |->
        [text |-> Filled(Template, j.positions, DOMAIN j.positions, Repeated(j, i)),
         used |-> <<j.payloads[i]>>]]

\* There is one list of payloads for all positions.
generate_pitchfork(j) ==
    [i \in DOMAIN j.payloads |->
        [text |-> Filled(Template, j.positions, DOMAIN j.positions, Repeated(j, i)),
         used |-> Repeated(j, i)]]

\* Mutant: the index is not divided, so that all positions get the same payload.
DigitUndivided(i, base, n) == i % base

\* The payload of position n in combination i.
Digit(i, base, n) ==
    LET combination_index[m \in 0..(n - 1)] ==
            IF m = 0 THEN i ELSE combination_index[m - 1] \div base
    IN  combination_index[n - 1] % base

\* usize::pow: a debug build panics where it overflows, a release build wraps.
Total(j) ==
    LET power[n \in 0..Len(j.positions)] == IF n = 0 THEN 1 ELSE power[n - 1] * Len(j.payloads)
    IN  power[Len(j.positions)]
Panics(j) ==
    j.type = "ClusterBomb" /\ j.positions # <<>> /\ j.build = "debug" /\ Total(j) >= WordSize

generate_cluster_bomb(j) ==
    IF j.positions = <<>> THEN <<>>
    ELSE [i \in 1..(Total(j) % WordSize) |->
             LET combination == [n \in DOMAIN j.positions |->
                                    j.payloads[Digit(i - 1, Len(j.payloads), n) + 1]]
             IN  [text |-> Filled(Template, j.positions, DOMAIN j.positions, combination),
                  used |-> combination]]

generate_requests(j) ==
    CASE j.type = "Sniper" -> generate_sniper(j)
      [] j.type = "Battering" -> generate_battering(j)
      [] j.type = "Pitchfork" -> generate_pitchfork(j)
      [] j.type = "ClusterBomb" -> generate_cluster_bomb(j)

NoJob == [type |-> "none"]

GenerateRequests ==
    /\ job = NoJob
    /\ job' \in Jobs
    /\ generated' = IF Panics(job') THEN [is |-> "panic"]
                    ELSE [is |-> "made", requests |-> generate_requests(job')]

PayloadsInit == job = NoJob /\ generated = [is |-> "nothing"]
PayloadsNext == GenerateRequests
PayloadsSpec == PayloadsInit /\ [][PayloadsNext]_payloadVars

----------------------------------------------------------------------------
\* Property

\* All markers at once, each by its text.
Substituted(f) ==
    FlattenSeq([n \in DOMAIN Template |->
        IF Template[n] \in DOMAIN f THEN f[Template[n]] ELSE <<Template[n]>>])

\* What each kind is to generate: a sniper every payload at every position alone,
\* a battering ram and a pitchfork every payload at all of them, a cluster bomb
\* every way to give the positions payloads.
Wanted(j) ==
    LET at == ToSet(j.positions)
        with == ToSet(j.payloads)
    IN  CASE j.type = "Sniper" ->
                {Substituted([q \in at |-> IF q = p THEN t ELSE <<>>]) : p \in at, t \in with}
          [] j.type \in {"Battering", "Pitchfork"} -> {Substituted([q \in at |-> t]) : t \in with}
          [] j.type = "ClusterBomb" ->
                IF at = {} THEN {} ELSE {Substituted(f) : f \in [at -> with]}

\* As long as no payload holds a marker, for the marker would be replaced in its
\* turn, and no name stands twice, the attack sends what its kind says, and as often as
\* its payloads are given: a pitchfork too makes a request of each payload, where a test
\* says "min(payloads, positions) iterations" (intruder.rs:418).  Combinations that a word
\* cannot count are a panic, in a debug build and there only, or leave a part of what was
\* asked for: each request that is sent is one of it, and what was left away is not told
\* (intruder.rs:181, 212, 233, 267).
AttackIsComplete ==
    generated.is # "nothing" =>
        LET plain == \A i \in DOMAIN job.payloads : ToSet(job.payloads[i]) \cap Names = {}
            times == CASE job.type = "Sniper" -> Len(job.payloads) * Len(job.positions)
                       [] job.type = "ClusterBomb" -> IF job.positions = <<>> THEN 0 ELSE Total(job)
                       [] OTHER -> Len(job.payloads)
            over == job.type = "ClusterBomb" /\ times >= WordSize
            sent == {generated.requests[n].text : n \in DOMAIN generated.requests}
        IN  /\ generated.is = "panic" <=> over /\ job.build = "debug"
            /\ plain /\ IsInjective(job.positions) /\ generated.is = "made" =>
                   /\ IF over THEN sent \subseteq Wanted(job) ELSE sent = Wanted(job)
                   /\ Len(generated.requests) = IF over THEN times % WordSize ELSE times
=============================================================================
