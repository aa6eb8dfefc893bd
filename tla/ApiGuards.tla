----------------------------- MODULE ApiGuards -----------------------------
(***************************************************************************)
(* The address filter (api/src/ip_filter.rs), the audit log                *)
(* (api/src/audit.rs) and the handlers that use both                       *)
(* (api/src/security_routes.rs).                                           *)
(*                                                                         *)
(* The filter keeps its lists twice: as the sets it asks and as the lists  *)
(* of the configuration it returns, each under its own lock; a handler     *)
(* writes them one after the other and then logs what it did.  Nothing     *)
(* checks a configuration: what is no address stays in its lists and is    *)
(* left out of the sets, and any mode is taken.  The log file is closed,   *)
(* renamed and opened anew by rotate, where the rename and the opening may *)
(* fail, as may the writing of an entry.                                   *)
(***************************************************************************)
EXTENDS Integers, Sequences, FiniteSets, SequencesExt

CONSTANTS
    Addresses,      \* addresses that are in lists
    Loopback,       \* those that is_loopback is true of
    Private,        \* those that is_private_ip is true of
    Garbage,        \* entries of lists that are no addresses
    Posted,         \* configurations that are posted, or read at the start
    Requests,       \* requests of the API at once
    MaxEntries      \* bound: entries logged in a behaviour

Modes == {"off", "allowlist", "blocklist", "unknown"}
IpLists == SUBSET (Addresses \cup Garbage)
Configs == [allowed : IpLists, blocked : IpLists, allow_private : BOOLEAN, allow_loopback : BOOLEAN,
            mode : Modes]

ASSUME GuardAssumption ==
    /\ MaxEntries \in Nat
    /\ Loopback \subseteq Addresses /\ Private \subseteq Addresses
    /\ Addresses \cap Garbage = {}
    /\ Posted \subseteq Configs

VARIABLES
    config,         \* IpFilter.config: the two lists, as they were sent, and the mode
    allowed_ips, blocked_ips,
    layered,        \* build_router: the filter is among the layers
    handler,        \* per request: what it does and how far it is
    file,           \* AuditLogger.log_file is open
    onDisk,         \* there is a file at log_path
    log,            \* its entries
    archives,       \* the files renamed by rotate
    entries,        \* bound and history: entries logged
    dropped,        \* history: entries logged with no file open
    unwritten,      \* history: entries whose writing failed
    failed,         \* history: a rotation failed
    overlapped      \* history: the last edit to begin met another

filter == <<config, allowed_ips, blocked_ips>>
disk == <<file, onDisk, log, archives, failed>>
logged == <<entries, dropped, unwritten>>
guardVars == <<filter, layered, handler, disk, logged, overlapped>>

Free == [pc |-> "free"]

GuardsOK ==
    /\ config \in Configs
    /\ allowed_ips \subseteq Addresses /\ blocked_ips \subseteq Addresses
    /\ file \in BOOLEAN /\ onDisk \in BOOLEAN /\ failed \in BOOLEAN /\ overlapped \in BOOLEAN
    /\ file => onDisk
    /\ entries \in 0..MaxEntries
    /\ dropped \subseteq 1..entries /\ unwritten \subseteq 1..entries

----------------------------------------------------------------------------
\* IpFilter

\* IpFilterConfig::default.
DefaultConfig ==
    [allowed |-> {}, blocked |-> {}, allow_private |-> TRUE, allow_loopback |-> TRUE, mode |-> "off"]

\* filter_map: the entries that parse.
Parsed(list) == list \cap Addresses

\* is_allowed: loopback before the lists, and a mode that is none blocks like a
\* blocklist.
is_allowed(ip) ==
    \/ config.mode = "off"
    \/ ip \in Loopback /\ config.allow_loopback
    \/ /\ ip \notin Loopback /\ ip \notin blocked_ips
       /\ ip \in Private => config.allow_private
       /\ config.mode = "allowlist" => ip \in allowed_ips \cup Private

\* The layer is there if the filter was on when the router was built.
Passes(ip) == ~layered \/ is_allowed(ip)

\* The edit of a request that begins now meets those under way.
Begin(r, op) ==
    /\ handler[r] = Free
    /\ entries < MaxEntries
    /\ handler' = [handler EXCEPT ![r] = op]
    /\ LET others == {q \in Requests \ {r} : handler[q].pc \in {"blocked", "config", "lists"}}
       IN  overlapped' = (others # {})

\* set_config: the set of allowed addresses.
SetConfig(r, c) ==
    /\ Begin(r, [pc |-> "blocked", config |-> c])
    /\ allowed_ips' = Parsed(c.allowed)
    /\ UNCHANGED <<config, blocked_ips, layered, disk, logged>>

\* Mutant: the addresses that were blocked stay so.
SetBlockedMore(r) ==
    /\ handler[r].pc = "blocked"
    /\ blocked_ips' = blocked_ips \cup Parsed(handler[r].config.blocked)
    /\ handler' = [handler EXCEPT ![r].pc = "config"]
    /\ UNCHANGED <<config, allowed_ips, layered, disk, logged, overlapped>>

\* Then the set of blocked ones.
SetBlocked(r) ==
    /\ handler[r].pc = "blocked"
    /\ blocked_ips' = Parsed(handler[r].config.blocked)
    /\ handler' = [handler EXCEPT ![r].pc = "config"]
    /\ UNCHANGED <<config, allowed_ips, layered, disk, logged, overlapped>>

\* Then the configuration.
SetLists(r) ==
    /\ handler[r].pc = "config"
    /\ config' = handler[r].config
    /\ handler' = [handler EXCEPT ![r] = [pc |-> "log"]]
    /\ UNCHANGED <<allowed_ips, blocked_ips, layered, disk, logged, overlapped>>

\* add_allowed_ip and add_blocked_ip: one set.
AddIp(r, ip) ==
    /\ Begin(r, [pc |-> "lists"])
    /\ \/ allowed_ips' = allowed_ips \cup {ip} /\ UNCHANGED blocked_ips
       \/ blocked_ips' = blocked_ips \cup {ip} /\ UNCHANGED allowed_ips
    /\ UNCHANGED <<config, layered, disk, logged>>

\* update_config: both lists from the sets, so what was no address is gone; the
\* rest stays.
UpdateConfig(r) ==
    /\ handler[r].pc = "lists"
    /\ config' = [config EXCEPT !.allowed = allowed_ips, !.blocked = blocked_ips]
    /\ handler' = [handler EXCEPT ![r] = [pc |-> "log"]]
    /\ UNCHANGED <<allowed_ips, blocked_ips, layered, disk, logged, overlapped>>

----------------------------------------------------------------------------
\* AuditLogger

\* log: under the lock, and without a word if no file is open; an error of
\* writeln, of a full disk say, is only traced.
Write ==
    /\ entries < MaxEntries
    /\ entries' = entries + 1
    /\ \/ /\ file
          /\ log' = Append(log, entries + 1)
          /\ UNCHANGED <<dropped, unwritten>>
       \/ /\ file
          /\ unwritten' = unwritten \cup {entries + 1}
          /\ UNCHANGED <<log, dropped>>
       \/ /\ ~file
          /\ dropped' = dropped \cup {entries + 1}
          /\ UNCHANGED <<log, unwritten>>
    /\ UNCHANGED <<file, onDisk, archives, failed>>

\* The handler logs its edit and is done.
LogEdit(r) ==
    /\ handler[r].pc = "log"
    /\ Write
    /\ handler' = [handler EXCEPT ![r] = Free]
    /\ UNCHANGED <<filter, layered, overlapped>>

\* rotate_audit_log: the request is logged first.
LogRotation(r) ==
    /\ handler[r] = Free
    /\ Write
    /\ handler' = [handler EXCEPT ![r] = [pc |-> "rotate"]]
    /\ UNCHANGED <<filter, layered, overlapped>>

\* Mutant: every rotation renames to the same path.
RotateOver(r) ==
    /\ handler[r].pc = "rotate"
    /\ handler' = [handler EXCEPT ![r] = Free]
    /\ onDisk
    /\ archives' = <<log>>
    /\ log' = <<>>
    /\ UNCHANGED <<filter, layered, file, onDisk, failed, logged, overlapped>>

\* rotate: closed, renamed and opened, under the lock.  An error of the rename
\* leaves no file open, one of the opening leaves no file at all, and then
\* every later rename fails too.
Rotate(r) ==
    /\ handler[r].pc = "rotate"
    /\ handler' = [handler EXCEPT ![r] = Free]
    /\ \/ /\ file' = FALSE
          /\ failed' = TRUE
          /\ UNCHANGED <<onDisk, log, archives>>
       \/ /\ onDisk
          /\ archives' = Append(archives, log)
          /\ log' = <<>>
          /\ \/ file' = TRUE /\ onDisk' = TRUE /\ UNCHANGED failed
             \/ file' = FALSE /\ onDisk' = FALSE /\ failed' = TRUE
    /\ UNCHANGED <<filter, layered, logged, overlapped>>

----------------------------------------------------------------------------
\* The configuration is that of IP_FILTER_CONFIG, or the default.
GuardsInit ==
    /\ config \in Posted \cup {DefaultConfig}
    /\ allowed_ips = Parsed(config.allowed) /\ blocked_ips = Parsed(config.blocked)
    /\ layered = (config.mode # "off")
    /\ handler = [r \in Requests |-> Free]
    /\ file = TRUE /\ onDisk = TRUE
    /\ log = <<>> /\ archives = <<>>
    /\ entries = 0
    /\ dropped = {} /\ unwritten = {}
    /\ failed = FALSE /\ overlapped = FALSE

GuardsNext ==
    \E r \in Requests :
        \/ \E c \in Posted : SetConfig(r, c)
        \/ SetBlocked(r) \/ SetLists(r)
        \/ \E ip \in Addresses : AddIp(r, ip)
        \/ UpdateConfig(r) \/ LogEdit(r) \/ LogRotation(r) \/ Rotate(r)

GuardsSpec == GuardsInit /\ [][GuardsNext]_guardVars

----------------------------------------------------------------------------
\* Properties

\* The addresses among what GET returns are those that are enforced, and of those it
\* shows as blocked none passes but loopback that is allowed, unless two edits met:
\* then either may have written one of the sets last and the other one the
\* configuration (ip_filter.rs:178, 216), until an edit meets none.
ConfigIsEnforced ==
    ~overlapped /\ (\A r \in Requests : handler[r].pc \notin {"blocked", "config", "lists"}) =>
        /\ Parsed(config.allowed) = allowed_ips /\ Parsed(config.blocked) = blocked_ips
        /\ layered /\ config.mode # "off" =>
               \A ip \in Parsed(config.blocked) :
                   Passes(ip) => ip \in Loopback /\ config.allow_loopback

\* The files of the audit log, oldest first.
Files == Append(archives, log)

\* Every entry whose writing succeeded is in exactly one of the files, in the order
\* of logging, however requests and rotations interleave; an entry meets no open
\* file only after a rotation failed (audit.rs:152, 189).
AuditKeepsEntries ==
    /\ \A m, n \in DOMAIN Files : \A i \in DOMAIN Files[m], j \in DOMAIN Files[n] :
           m < n \/ (m = n /\ i < j) => Files[m][i] < Files[n][j]
    /\ UNION {ToSet(Files[n]) : n \in DOMAIN Files} = (1..entries) \ (dropped \cup unwritten)
    /\ dropped # {} => failed
=============================================================================
