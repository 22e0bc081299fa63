---------------------------- MODULE SeedRegistry ----------------------------
(***************************************************************************)
(* The registrations of seed nodes: the file genesis/seed-nodes.json, the  *)
(* RPC handlers that read it, change it and write it back without a lock,  *)
(* and what the chain keeps of it in memory (seedNodeInfo).                *)
(*                                                                         *)
(* Every read of the file, every truncation and every write is a step of   *)
(* its own; a call works on the list that it has read.                     *)
(***************************************************************************)
EXTENDS Integers, FiniteSets

CONSTANTS SeedIP,      \* addresses with a port
          HostOf,      \* [SeedIP -> the address without its port]
          Wallet,      \* wallet addresses that pass the handlers' tests
          SeedCaller,  \* requests that may be under way at the same time
          MaxSeedCalls \* bound on the requests of a behaviour

ASSUME SeedAssumption == MaxSeedCalls \in Nat

Status == {"pending", "active", "rejected"}

\* A list of registrations has one entry for each address.
Entry == [status : Status, wallet : Wallet]
Lists == UNION {[S -> Entry] : S \in SUBSET SeedIP}

EmptyList == [ip \in {} |-> 0]

VARIABLES
    fileState,    \* "list" or "missing", or, when the file does not parse, "torn" if
                  \* nothing was written since it was truncated and else "spoiled"
    registry,     \* the list in the file, empty when there is none
    seedNodeInfo, \* by host: address and wallet of an active seed
    seedCalls,    \* by caller: the request it is in the middle of
    callsLeft,    \* bound
    expected,     \* history: by address, the wallet last confirmed to a client
    approved,     \* history: the pairs of address and wallet that an update made active
    seedTrouble   \* history: whether requests overlapped and whether a write was torn

file == <<fileState, registry>>
seedVars == <<file, seedNodeInfo, seedCalls, callsLeft, expected, approved, seedTrouble>>

SeedInit ==
    /\ fileState \in {"list", "missing"}
    /\ registry = EmptyList
    /\ seedNodeInfo = EmptyList
    /\ seedCalls = EmptyList
    /\ callsLeft = MaxSeedCalls
    /\ expected = EmptyList /\ approved = {} /\ seedTrouble = {}

Readable == fileState = "list"

Busy(c) == c \in DOMAIN seedCalls

SeedAt(c, step) == Busy(c) /\ seedCalls[c].step = step

\* (mutant) The list is made anew.
OnlyEntry(list, ip, entry) == [i \in {ip} |-> entry]

SetEntry(list, ip, entry) ==
    [i \in DOMAIN list \cup {ip} |-> IF i = ip THEN entry ELSE list[i]]

-----------------------------------------------------------------------------
(* The beginning of a request, up to its read of the file.  call says what it *)
(* will write and, if it succeeds, which wallet is confirmed for which address. *)

BeginCall(c, call) ==
    /\ seedCalls' = [d \in DOMAIN seedCalls \cup {c} |-> IF d = c THEN call ELSE seedCalls[d]]
    /\ callsLeft' = callsLeft - 1
    /\ seedTrouble' = IF seedCalls = EmptyList THEN seedTrouble
                      ELSE seedTrouble \cup {"overlap"}
    /\ UNCHANGED <<file, seedNodeInfo, expected>>

CanBegin(c) == ~Busy(c) /\ callsLeft > 0

\* A file that is missing or does not parse is taken for an empty list.
Parsed == registry

Call(kind, list, ip, wallet) ==
    [kind |-> kind, step |-> "truncate", list |-> list, ip |-> ip, wallet |-> wallet]

\* (mutant) A new registration of a known address keeps its status.
KeepStatus(ip) == IF ip \in DOMAIN Parsed THEN Parsed[ip].status ELSE "pending"

RegisteredStatus(ip) == "pending"

\* Also a known address becomes pending again, whatever its status was.
BeginRegister(c, ip, wallet) ==
    /\ CanBegin(c)
    /\ BeginCall(c, Call("register",
                         SetEntry(Parsed, ip, [status |-> RegisteredStatus(ip), wallet |-> wallet]),
                         ip, wallet))
    /\ UNCHANGED approved

\* An update needs a file that parses and an entry; the wallet may be left out.
BeginUpdate(c, ip, status, wallets) ==
    /\ CanBegin(c)
    /\ Readable
    /\ ip \in DOMAIN registry
    /\ \E wallet \in IF wallets = {} THEN {registry[ip].wallet} ELSE wallets :
          /\ BeginCall(c, Call("update",
                               SetEntry(registry, ip, [status |-> status, wallet |-> wallet]),
                               ip, wallet))
          /\ approved' = IF status = "active" THEN approved \cup {<<ip, wallet>>} ELSE approved

\* handleWriteSeedNodes writes what it has read.
BeginWriteBack(c) ==
    /\ CanBegin(c)
    /\ BeginCall(c, [kind |-> "write", step |-> "truncate", list |-> Parsed])
    /\ UNCHANGED approved

BeginReload(c) ==
    /\ CanBegin(c)
    /\ BeginCall(c, [kind |-> "reload", step |-> "read"])
    /\ UNCHANGED approved

-----------------------------------------------------------------------------
(* os.WriteFile truncates the file and then writes it: in both branches of  *)
(* handleRegisterSeedNode, in handleUpdateSeedNodeStatus and in             *)
(* handleWriteSeedNodes.                                                    *)

Return(c) == seedCalls' = [d \in DOMAIN seedCalls \ {c} |-> seedCalls[d]]

GoOn(c, call) == seedCalls' = [seedCalls EXCEPT ![c] = call]

Truncate(c) ==
    /\ SeedAt(c, "truncate")
    /\ fileState' = "torn" /\ registry' = EmptyList
    /\ GoOn(c, [seedCalls[c] EXCEPT !.step = "write"])
    /\ UNCHANGED <<seedNodeInfo, callsLeft, expected, approved, seedTrouble>>

Confirm(call) ==
    expected' = IF call.kind = "write" THEN expected
                ELSE [i \in DOMAIN expected \cup {call.ip} |->
                         IF i = call.ip THEN call.wallet ELSE expected[i]]

\* (mutant) The wallets are not reloaded after an update.
NeverReload(call) == FALSE

Reloads(call) == call.kind = "update"

\* Where another request has written since the file was truncated, a shorter list leaves
\* the end of the other one behind it.
Written == IF fileState = "torn" THEN {"list"} ELSE {"list", "spoiled"}

\* An update goes on to reload; the other requests are answered.
WriteList(c) ==
    /\ SeedAt(c, "write")
    /\ LET call == seedCalls[c]
       IN  /\ fileState' \in Written
           /\ registry' = IF fileState' = "list" THEN call.list ELSE EmptyList
           /\ Confirm(call)
           /\ IF Reloads(call) THEN GoOn(c, [kind |-> "update", step |-> "read"]) ELSE Return(c)
    /\ UNCHANGED <<seedNodeInfo, callsLeft, approved, seedTrouble>>

\* Nothing of the list is written, or a part of it.
WriteListFails(c) ==
    /\ SeedAt(c, "write")
    /\ \/ UNCHANGED file
       \/ fileState' = "spoiled" /\ registry' = EmptyList
    /\ Return(c)
    /\ seedTrouble' = seedTrouble \cup {"torn"}
    /\ UNCHANGED <<seedNodeInfo, callsLeft, expected, approved>>

-----------------------------------------------------------------------------
(* loadSeedNodeWallets reads without a lock and then replaces seedNodeInfo    *)
(* under bc.mu; a file that is missing or does not parse leaves it alone.     *)

Active(list) == {ip \in DOMAIN list : list[ip].status = "active"}

\* One entry for each host: which of several addresses, the order in the file decides.
Infos(list) ==
    LET hosts == {HostOf[ip] : ip \in Active(list)}
    IN  {[h \in hosts |-> [ip |-> pick[h], wallet |-> list[pick[h]].wallet]] :
            pick \in {f \in [hosts -> Active(list)] : \A h \in hosts : HostOf[f[h]] = h}}

ReadForLoad(c) ==
    /\ SeedAt(c, "read")
    /\ IF Readable THEN GoOn(c, [kind |-> seedCalls[c].kind, step |-> "set", list |-> registry])
                   ELSE Return(c)
    /\ UNCHANGED <<file, seedNodeInfo, callsLeft, expected, approved, seedTrouble>>

SetInfo(c) ==
    /\ SeedAt(c, "set")
    /\ seedNodeInfo' \in Infos(seedCalls[c].list)
    /\ Return(c)
    /\ UNCHANGED <<file, callsLeft, expected, approved, seedTrouble>>

\* The process ends, and the next one loads the file before it takes requests.
RestartSeeds ==
    /\ seedCalls' = EmptyList
    /\ seedNodeInfo' \in IF Readable THEN Infos(registry) ELSE {EmptyList}
    /\ seedTrouble' = IF fileState \in {"torn", "spoiled"} THEN seedTrouble \cup {"torn"}
                      ELSE seedTrouble
    /\ UNCHANGED <<file, callsLeft, expected, approved>>

-----------------------------------------------------------------------------
SeedNext ==
    \/ \E c \in SeedCaller, ip \in SeedIP, wallet \in Wallet : BeginRegister(c, ip, wallet)
    \/ \E c \in SeedCaller, ip \in SeedIP, status \in Status,
         wallets \in {{}} \cup {{w} : w \in Wallet} : BeginUpdate(c, ip, status, wallets)
    \/ \E c \in SeedCaller :
          \/ BeginWriteBack(c) \/ BeginReload(c)
          \/ Truncate(c) \/ WriteList(c) \/ WriteListFails(c)
          \/ ReadForLoad(c) \/ SetInfo(c)
    \/ RestartSeeds

SeedSpec == SeedInit /\ [][SeedNext]_seedVars

-----------------------------------------------------------------------------
\* handleGetSeedNodeRegistrations.
GetSeedNodeRegistrations == Parsed

\* What was confirmed to a client is on the list that getSeedNodeRegistrations
\* gives out, under the wallet that was last confirmed, unless requests overlapped
\* or a write was torn: new registrations, updates, write-backs, reloads and
\* restarts in any order keep each other's entries.
RegistrationsAreKept ==
    seedTrouble = {} /\ seedCalls = EmptyList =>
        \A ip \in DOMAIN expected :
            /\ ip \in DOMAIN GetSeedNodeRegistrations
            /\ GetSeedNodeRegistrations[ip].wallet = expected[ip]

\* Once no request is under way the node has forgotten a seed whose status is
\* rejected, unless requests overlapped or a write was torn: a reload that read the
\* file earlier would bring it back ("Reload seed node wallets in blockchain if
\* status changed to/from active", rpc/server_v2.go:2806).
RejectedIsForgotten ==
    seedTrouble = {} /\ seedCalls = EmptyList =>
        \A h \in DOMAIN seedNodeInfo : LET ip == seedNodeInfo[h].ip
                                       IN  ip \in DOMAIN registry => registry[ip].status # "rejected"

\* Whatever the overlaps, torn writes and restarts: a seed that the node holds has
\* been made active with that wallet by an update; no registration does that
\* ("Waiting for admin approval", rpc/server_v2.go:2480).
HeldSeedsWereApproved ==
    \A h \in DOMAIN seedNodeInfo :
        <<seedNodeInfo[h].ip, seedNodeInfo[h].wallet>> \in approved

\* The invariant behind it: so it is with every active entry of the file and of the
\* lists that requests are working on.
ActiveWereApproved(list) == \A ip \in Active(list) : <<ip, list[ip].wallet>> \in approved

SeedInv ==
    /\ HeldSeedsWereApproved
    /\ ActiveWereApproved(registry)
    /\ \A c \in DOMAIN seedCalls :
          seedCalls[c].step # "read" => ActiveWereApproved(seedCalls[c].list)

Writing == {"truncate", "write"}

SeedCallType ==
    [kind : {"write"}, step : Writing, list : Lists]
    \cup [kind : {"register", "update"}, step : Writing, list : Lists, ip : SeedIP, wallet : Wallet]
    \cup [kind : {"update", "reload"}, step : {"read"}]
    \cup [kind : {"update", "reload"}, step : {"set"}, list : Lists]

\* Every variable keeps its type.
SeedTypeOK ==
    /\ fileState \in {"list", "missing", "torn", "spoiled"}
    /\ registry \in Lists
    /\ \A h \in DOMAIN seedNodeInfo :
          /\ seedNodeInfo[h].ip \in SeedIP /\ seedNodeInfo[h].wallet \in Wallet
          /\ h = HostOf[seedNodeInfo[h].ip]
    /\ DOMAIN seedCalls \subseteq SeedCaller
    /\ \A c \in DOMAIN seedCalls : seedCalls[c] \in SeedCallType
    /\ callsLeft \in Nat
    /\ DOMAIN expected \subseteq SeedIP
    /\ approved \subseteq SeedIP \X Wallet
    /\ seedTrouble \subseteq {"overlap", "torn"}
=============================================================================
