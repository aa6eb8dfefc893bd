------------------------------ MODULE MCParts ------------------------------
(***************************************************************************)
(* The server's smaller parts for TLC.  None shares state with another, so *)
(* a behaviour is one of the part chosen at its beginning, and one run     *)
(* explores the sum of the parts and not their product.                    *)
(***************************************************************************)
EXTENDS RateLimiter, Durations, ApiGuards, WsCapture, Proxy, MCPayloads, LiveFeed, Rules, TLC

VARIABLES
    part,
    key, rows, deque, counter, pushing, sweep, born, restarts, announced, gone, unread  \* of Capture

CONSTANTS Pushers, Clearers, Capacity, DefaultCapacity, Keys, NoKey, StorageMayFail, MaxPushes,
          MaxRestarts

ASSUME CaptureAssumption ==
    /\ Capacity \in Nat /\ DefaultCapacity \in Nat \ {0}
    /\ MaxPushes \in Nat /\ MaxRestarts \in Nat
    /\ StorageMayFail \in BOOLEAN

Captures == INSTANCE Capture WITH task <- pushing, entries <- deque
captureVars == <<key, rows, deque, counter, pushing, sweep, born, restarts, announced, gone,
                 unread>>

\* Configurations with every mode, entries that are no addresses, a blocked address
\* of every kind and an allowed one.
FewConfigs ==
    LET c(a, b, p, l, m) == [allowed |-> a, blocked |-> b, allow_private |-> p,
                             allow_loopback |-> l, mode |-> m]
    IN  {c(Garbage, Addresses, FALSE, TRUE, "blocklist"),
         c(Addresses \ Loopback, Loopback \cup Garbage, TRUE, FALSE, "allowlist"),
         c({}, Private, TRUE, TRUE, "unknown"),
         c(Private, {}, FALSE, TRUE, "off")}

Still(p, v) == p # part => UNCHANGED v
Rest ==
    /\ Still("limiter", vars) /\ Still("durations", durationVars) /\ Still("guards", guardVars)
    /\ Still("frames", wsVars) /\ Still("proxy", proxyVars)
    /\ Still("capture", captureVars) /\ Still("payloads", payloadVars) /\ Still("feed", feedVars)
    /\ Still("rules", rulesVars)
    /\ UNCHANGED part

PartsInit ==
    /\ part \in {"limiter", "durations", "guards", "frames", "proxy", "capture", "payloads", "feed",
                "rules"}
    /\ Init /\ DurationsInit /\ GuardsInit /\ WsInit /\ ProxyInit /\ FeedInit /\ PayloadsInit
    /\ RulesInit /\ Captures!Init
    /\ part # "limiter" => watch = CHOOSE m \in Moments : TRUE
    /\ part # "guards" => config = DefaultConfig
    /\ part # "capture" => key = NoKey

PartsNext ==
    \/ part = "limiter" /\ Next /\ Rest
    \/ part = "durations" /\ DurationsNext /\ Rest
    \/ part = "guards" /\ GuardsNext /\ Rest
    \/ part = "frames" /\ WsNext /\ Rest
    \/ part = "proxy" /\ ProxyNext /\ Rest
    \/ part = "capture" /\ Captures!Next /\ Rest
    \/ part = "payloads" /\ PayloadsNext /\ Rest
    \/ part = "feed" /\ FeedNext /\ Rest
    \/ part = "rules" /\ RulesNext /\ Rest

partsVars == <<part, vars, durationVars, guardVars, wsVars, proxyVars, captureVars, payloadVars,
              feedVars, rulesVars>>

PartsSpec == PartsInit /\ [][PartsNext]_partsVars

\* The tasks of every part are the same two values, so that they can be exchanged
\* in all of them at once.
Symmetry == Permutations(Handlers) \cup Permutations(Ips)

----------------------------------------------------------------------------
\* The types of all parts.
PartsOK == TypeOK /\ DurationsOK /\ GuardsOK /\ WsOK /\ Captures!TypeOK /\ FeedOK

\* Captures with a key and without one: the deque keeps its capacity and ids, what
\* is stored was on the live feed, what a clear had to remove stays away, and the
\* list and the details page differ only on rows that the start could not read
\* (capture.rs:96, 140, 149, 158).
CaptureHolds ==
    /\ Captures!MemoryIsKeyed /\ Captures!StoredWasAnnounced /\ Captures!ClearedStaysCleared
    /\ Captures!GetAndListAgree /\ Captures!StorageInv
=============================================================================
