---------------------------- MODULE Connections ----------------------------
(***************************************************************************)
(* lancedb_ray/connection.py in one process: connect with its cache of      *)
(* connections, open_table with its cache of pinned handles,                *)
(* list_table_names and clear_connection_cache, called from several threads *)
(* while the environment's API key is rotated.                              *)
(*                                                                         *)
(* A credential is a number, 0 for None.  Both caches are functools.lru_    *)
(* cache, which runs the function of a miss outside its lock.               *)
(***************************************************************************)
EXTENDS TableListing

CONSTANTS
  Calls,                \* what each thread may call, with its arguments
  None,                 \* the Python value: no version; no call
  InitialKeys,          \* LANCEDB_API_KEY when the process starts
  Rotations,            \* how it may change: pairs of credentials
  ConnectionCacheSize,  \* _CONNECTION_CACHE_SIZE
  HandleCacheSize,      \* maxsize of _open_pinned_table
  MaxCalls              \* bound: calls of all threads together

ConnectionSpec == [remote : BOOLEAN, apiKey : Nat]

Call == [op : {"connect", "open", "list", "clear"}, spec : ConnectionSpec,
         name : Name, version : Nat \cup {None}]

ASSUME CallsAssumption == Calls \in [Thread -> SUBSET Call]
ASSUME NoneAssumption == None \notin Nat /\ None \notin Call
ASSUME KeysAssumption == InitialKeys \subseteq Nat /\ Rotations \subseteq Nat \X Nat
ASSUME CacheSizesAssumption ==
  ConnectionCacheSize \in Nat \ {0} /\ HandleCacheSize \in Nat \ {0}
ASSUME BoundAssumption == MaxCalls \in Nat

VARIABLES
  env,          \* the value of LANCEDB_API_KEY
  connections,  \* _connect_cached's entries, least recently used first
  handles,      \* _open_pinned_table's entries
  pc, call,     \* each thread: control, and the call it makes
  resolved,     \* resolve_api_key() as connect passed it on
  held,         \* the credential of the connection or handle in its hands
  calls,        \* calls made so far
  began,        \* history: env when its call began
  stored,       \* history: the keys connections were stored under
  cleared       \* history: the caches have been cleared

cacheVars == <<connections, handles, stored, cleared>>
threadVars == <<pc, call, resolved, held, calls, began>>
vars == <<env, cacheVars, threadVars, listingVars>>

Connection == [spec : ConnectionSpec, key : Nat, held : Nat]
PinnedHandle == [spec : ConnectionSpec, name : Name, version : Nat, held : Nat]

CachesTypeOK ==
  /\ env \in Nat
  /\ connections \in Seq(Connection)
  /\ handles \in Seq(PinnedHandle)
  /\ pc \in [Thread -> {"idle", "handle", "resolve", "lookup", "opening", "storing",
                        "connected", "storingHandle", "listing", "clear", "clearing",
                        "returned", "failed"}]
  /\ call \in [Thread -> Call \cup {None}]
  /\ resolved \in [Thread -> Nat]
  /\ held \in [Thread -> Nat]
  /\ calls \in Nat
  /\ began \in [Thread -> Nat]
  /\ stored \subseteq [spec : ConnectionSpec, key : Nat]
  /\ cleared \in BOOLEAN

TypeOK == ListingTypeOK /\ CachesTypeOK

Init ==
  /\ ListingInit
  /\ env \in InitialKeys
  /\ connections = <<>> /\ handles = <<>>
  /\ pc = [t \in Thread |-> "idle"]
  /\ call = [t \in Thread |-> None]
  /\ resolved = [t \in Thread |-> 0]
  /\ held = [t \in Thread |-> 0]
  /\ calls = 0
  /\ began = [t \in Thread |-> 0]
  /\ stored = {}
  /\ cleared = FALSE

Goto(t, from, to) ==
  /\ pc[t] = from
  /\ pc' = [pc EXCEPT ![t] = to]

-----------------------------------------------------------------------------
(* functools.lru_cache                                                      *)

(* A hit makes its entry the most recently used.                            *)
Touch(cache, i) == Append(RemoveAt(cache, i), cache[i])

(* Mutant: the cache evicts before it is full. *)
InsertEarly(cache, entry, size) ==
  IF Len(cache) + 1 >= size /\ cache # <<>> THEN Append(Tail(cache), entry) ELSE Append(cache, entry)

(* A full cache loses its least recently used entry.                        *)
Insert(cache, entry, size) ==
  IF Len(cache) >= size THEN Append(Tail(cache), entry) ELSE Append(cache, entry)

-----------------------------------------------------------------------------
(* connect                                                                  *)

(* resolve_api_key: the explicit key, else the environment's.               *)
ResolveApiKey(spec) == IF spec.apiKey # 0 THEN spec.apiKey ELSE env

(* Mutant: the cache is keyed on the spec alone. *)
IsForSpec(entry, spec, key) == entry.spec = spec

IsFor(entry, spec, key) == entry.spec = spec /\ entry.key = key

Hits(t) == {i \in DOMAIN connections : IsFor(connections[i], call[t].spec, resolved[t])}

ResolveKey(t) ==
  /\ Goto(t, "resolve", "lookup")
  /\ resolved' = [resolved EXCEPT ![t] = ResolveApiKey(call[t].spec)]
  /\ UNCHANGED <<env, cacheVars, call, held, calls, began, listingVars>>

FindConnection(t) ==
  /\ \/ /\ Goto(t, "lookup", "opening")
        /\ Hits(t) = {}
        /\ UNCHANGED <<connections, held>>
     \/ /\ Goto(t, "lookup", "connected")
        /\ \E i \in Hits(t) :
             /\ held' = [held EXCEPT ![t] = connections[i].held]
             /\ connections' = Touch(connections, i)
  /\ UNCHANGED <<env, handles, stored, cleared, call, resolved, calls, began, listingVars>>

(* connect_kwargs resolves the key anew, and raises if there is none;       *)
(* lancedb.connect may raise too.  A local connection carries no key.       *)
OpenConnection(t) ==
  LET spec == call[t].spec
      key  == IF spec.remote THEN ResolveApiKey(spec) ELSE 0
  IN /\ \/ /\ Goto(t, "opening", "storing")
           /\ spec.remote => key # 0
           /\ held' = [held EXCEPT ![t] = key]
        \/ Goto(t, "opening", "failed") /\ UNCHANGED held
     /\ UNCHANGED <<env, cacheVars, call, resolved, calls, began, listingVars>>

(* Mutant: what another thread stored meanwhile is not looked for. *)
StoreConnectionTwice(t) ==
  LET entry == [spec |-> call[t].spec, key |-> resolved[t], held |-> held[t]]
  IN /\ Goto(t, "storing", "connected")
     /\ connections' = Insert(connections, entry, ConnectionCacheSize)
     /\ stored' = stored \cup {[spec |-> entry.spec, key |-> entry.key]}
     /\ UNCHANGED <<env, handles, cleared, call, resolved, held, calls, began, listingVars>>

(* Another thread's entry for the same key stays; this one is then not      *)
(* cached, only returned.                                                   *)
StoreConnection(t) ==
  LET entry == [spec |-> call[t].spec, key |-> resolved[t], held |-> held[t]]
  IN /\ Goto(t, "storing", "connected")
     /\ connections' = IF Hits(t) # {} THEN connections
                       ELSE Insert(connections, entry, ConnectionCacheSize)
     /\ stored' = stored \cup {[spec |-> entry.spec, key |-> entry.key]}
     /\ UNCHANGED <<env, handles, cleared, call, resolved, held, calls, began, listingVars>>

-----------------------------------------------------------------------------
(* open_table and _open_pinned_table                                        *)

(* Mutant: every handle is cached. *)
PinnedOrNot(t) == call[t].op = "open"

Pinned(t) == call[t].op = "open" /\ call[t].version # None

HandleHits(t) ==
  {i \in DOMAIN handles :
     /\ handles[i].spec = call[t].spec
     /\ handles[i].name = call[t].name
     /\ handles[i].version = call[t].version}

FindHandle(t) ==
  /\ \/ /\ Goto(t, "handle", "resolve")
        /\ HandleHits(t) = {}
        /\ UNCHANGED <<handles, held>>
     \/ /\ Goto(t, "handle", "returned")
        /\ \E i \in HandleHits(t) :
             /\ held' = [held EXCEPT ![t] = handles[i].held]
             /\ handles' = Touch(handles, i)
  /\ UNCHANGED <<env, connections, stored, cleared, call, resolved, calls, began, listingVars>>

(* db.open_table(name) on the connection in hand, then checkout(version);   *)
(* the table, or its version, may be missing.                               *)
OpenTable(t) ==
  /\ pc[t] = "connected" /\ call[t].op = "open"
  /\ \/ Goto(t, "connected", IF Pinned(t) THEN "storingHandle" ELSE "returned")
     \/ Goto(t, "connected", "failed")
  /\ UNCHANGED <<env, cacheVars, call, resolved, held, calls, began, listingVars>>

StoreHandle(t) ==
  /\ Goto(t, "storingHandle", "returned")
  /\ handles' = IF HandleHits(t) # {} THEN handles
                ELSE Insert(handles, [spec |-> call[t].spec, name |-> call[t].name,
                                      version |-> call[t].version, held |-> held[t]],
                            HandleCacheSize)
  /\ UNCHANGED <<env, connections, stored, cleared, call, resolved, held, calls, began, listingVars>>

-----------------------------------------------------------------------------
(* list_table_names on a spec, and table_exists                             *)

StartListing(t) ==
  /\ pc[t] = "connected" /\ call[t].op = "list"
  /\ Goto(t, "connected", "listing")
  /\ BeginListing(t)
  /\ UNCHANGED <<env, cacheVars, call, resolved, held, calls, began>>

List(t) ==
  /\ \/ FallBack(t) /\ Goto(t, "listing", "returned")
     \/ NextPage(t, TRUE) /\ Goto(t, "listing", "returned")
     \/ NextPage(t, FALSE) /\ Goto(t, "listing", "listing")
  /\ UNCHANGED <<env, cacheVars, call, resolved, held, calls, began>>

(* Any other error of the service propagates.                               *)
ListingRaises(t) ==
  /\ Goto(t, "listing", "failed")
  /\ UNCHANGED <<env, cacheVars, call, resolved, held, calls, began, listingVars>>

-----------------------------------------------------------------------------
(* clear_connection_cache: two caches, one after the other.                 *)

ClearConnections(t) ==
  /\ Goto(t, "clear", "clearing")
  /\ connections' = <<>>
  /\ cleared' = TRUE
  /\ UNCHANGED <<env, handles, stored, call, resolved, held, calls, began, listingVars>>

ClearHandles(t) ==
  /\ Goto(t, "clearing", "returned")
  /\ handles' = <<>>
  /\ UNCHANGED <<env, connections, stored, cleared, call, resolved, held, calls, began, listingVars>>

-----------------------------------------------------------------------------
(* A thread's calls.                                                        *)

FirstStep(c) ==
  CASE c.op = "clear"                       -> "clear"
    [] c.op = "open" /\ c.version # None    -> "handle"
    [] OTHER                                -> "resolve"

(* Bound: a listing, which shares nothing with the caches, takes the place  *)
(* of all calls.                                                            *)
Weight(c) == IF c.op = "list" THEN MaxCalls ELSE 1

StartCall(t, c) ==
  /\ calls + Weight(c) <= MaxCalls
  /\ Goto(t, "idle", FirstStep(c))
  /\ call' = [call EXCEPT ![t] = c]
  /\ calls' = calls + Weight(c)
  /\ began' = [began EXCEPT ![t] = env]
  /\ UNCHANGED <<env, cacheVars, resolved, held, listingVars>>

(* connect hands the connection to its caller.                              *)
ReturnConnection(t) ==
  /\ pc[t] = "connected" /\ call[t].op = "connect"
  /\ Goto(t, "connected", "returned")
  /\ UNCHANGED <<env, cacheVars, call, resolved, held, calls, began, listingVars>>

Return(t) ==
  /\ \/ Goto(t, "returned", "idle")
     \/ Goto(t, "failed", "idle")
  /\ call' = [call EXCEPT ![t] = None]
  /\ resolved' = [resolved EXCEPT ![t] = 0]
  /\ held' = [held EXCEPT ![t] = 0]
  /\ began' = [began EXCEPT ![t] = 0]
  /\ ForgetListing(t)
  /\ UNCHANGED <<env, cacheVars, calls>>

Connects(t) == ResolveKey(t) \/ FindConnection(t) \/ OpenConnection(t) \/ StoreConnection(t)

Opens(t) == FindHandle(t) \/ OpenTable(t) \/ StoreHandle(t)

Lists(t) == StartListing(t) \/ List(t)

Clears(t) == ClearConnections(t) \/ ClearHandles(t)

Steps(t) ==
  Connects(t) \/ Opens(t) \/ Lists(t) \/ Clears(t) \/ ReturnConnection(t) \/ Return(t)

-----------------------------------------------------------------------------
(* The process's environment, and other clients.                            *)

Rotate(key) ==
  /\ <<env, key>> \in Rotations
  /\ env' = key
  /\ UNCHANGED <<cacheVars, threadVars, listingVars>>

(* A change makes a difference while a thread is listing.                   *)
OthersChangeTables ==
  LET callers == {t \in Thread : pc[t] = "listing"}
  IN /\ callers # {}
     /\ \E n \in Name : CreateTable(n, callers) \/ DropTable(n)
     /\ UNCHANGED <<env, cacheVars, threadVars>>

(* All calls are made and over: not a deadlock.                         *)
Idle ==
  /\ calls = MaxCalls
  /\ \A t \in Thread : pc[t] = "idle"
  /\ UNCHANGED vars

Next ==
  \/ \E t \in Thread : Steps(t) \/ ListingRaises(t) \/ \E c \in Calls[t] : StartCall(t, c)
  \/ \E pair \in Rotations : Rotate(pair[2])
  \/ OthersChangeTables
  \/ Idle

Spec == Init /\ [][Next]_vars

(* A thread that is in a call runs on, and the service answers it.          *)
FairSpec == Spec /\ \A t \in Thread : WF_vars(Steps(t))

-----------------------------------------------------------------------------
(* Properties *)

Returned(t) == pc[t] = "returned" /\ call[t].op # "clear"

(* The credential in the caller's hands is no older than the environment's  *)
(* was when the call began.                                                 *)
Fresh(t) == began[t] <= held[t] /\ held[t] <= env

(* What a call returns was opened with the credential its spec stands for:  *)
(* none on a local database, the explicit key where there is one, and       *)
(* otherwise one the environment had during the call - never one rotated    *)
(* away before it, whatever the cache holds and whichever thread put it     *)
(* there ("caching on the spec alone would hand back a connection still     *)
(* holding a revoked or rotated credential", connect).  For environments    *)
(* whose key only moves forward; a pinned handle may be an older one's.     *)
CredentialIsRight ==
  \A t \in Thread : Returned(t) =>
    LET spec == call[t].spec
    IN CASE ~spec.remote                       -> held[t] = 0
         [] spec.remote /\ spec.apiKey # 0     -> held[t] = spec.apiKey
         [] OTHER                              -> held[t] # 0 /\ (Fresh(t) \/ Pinned(t))

(* "The cache must not outlive the credential it was opened with"           *)
(* (tests/test_connection.py, TestCredentialRotation), of what a pinned     *)
(* open returns.                                                            *)
PinnedHandleIsFresh ==
  \A t \in Thread :
    Returned(t) /\ Pinned(t) /\ call[t].spec.remote /\ call[t].spec.apiKey = 0 => Fresh(t)

(* Neither cache outgrows its size or holds two entries for one key, though *)
(* threads that missed together each store what they opened.                *)
CachesAreSound ==
  /\ Len(connections) <= ConnectionCacheSize
  /\ Len(handles) <= HandleCacheSize
  /\ \A i, j \in DOMAIN connections :
       connections[i].spec = connections[j].spec /\ connections[i].key = connections[j].key
         => i = j
  /\ \A i, j \in DOMAIN handles :
       handles[i].spec = handles[j].spec /\ handles[i].name = handles[j].name
         /\ handles[i].version = handles[j].version => i = j

(* "Eviction is not something a normal job reaches": while the process has  *)
(* used no more specs and keys than the cache has places, each keeps its    *)
(* connection, so that no later call opens another.                         *)
NormalJobsKeepConnections ==
  ~cleared /\ Cardinality(stored) <= ConnectionCacheSize =>
    \A p \in stored : \E i \in DOMAIN connections : IsFor(connections[i], p.spec, p.key)

(* A listing names every table that was there throughout, none that was not *)
(* there at all, and none twice; what table_exists answers from it was so   *)
(* at some time during the call.                                            *)
ListingIsExact ==
  \A t \in Thread : pc[t] = "returned" /\ call[t].op = "list" =>
    /\ throughout[t] \subseteq ToSet(names[t])
    /\ ToSet(names[t]) \subseteq during[t]
    /\ IsInjective(names[t])

(* Every call ends, however many tables other clients create meanwhile.     *)
CallsReturn == \A t \in Thread : pc[t] # "idle" ~> pc[t] = "idle"

=============================================================================
