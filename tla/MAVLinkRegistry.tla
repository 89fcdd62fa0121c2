--------------------------- MODULE MAVLinkRegistry ---------------------------
(***************************************************************************)
(* MAVLinkRegistry (middleware/marshalling/mavlink.h): the process-wide    *)
(* msgid -> mavlink_msg_entry_t map the framer takes CRC_EXTRA from.       *)
(* register_dialect_entries inserts a dialect's entries under the mutex;   *)
(* get_msg_entry first reads entries_.empty() WITHOUT the mutex, calls     *)
(* register_default_dialects if it saw an empty map, then looks the msgid  *)
(* up under the mutex.                                                     *)
(*                                                                         *)
(* register_default_dialects is only declared under src/; the header's    *)
(* documentation names its dialects, common and minimal, and it is         *)
(* modelled as one register_dialect_entries call for each, in the order    *)
(* DefaultOrder.  The unlocked empty() read races with an insert under the *)
(* mutex: while another thread holds the mutex, it may return either.      *)
(***************************************************************************)
EXTENDS Naturals, Sequences, FiniteSets

CONSTANTS
  Threads,        \* threads that parse or register
  Dialects,       \* [name -> set of msgids]: each dialect's MESSAGE_ENTRIES
  DefaultOrder,   \* Seq of dialect names register_default_dialects registers
  UserDialects,   \* dialects the application registers itself
  LookupIds,      \* msgids the framer looks up
  MaxCalls,       \* calls each thread makes
  None

DefaultIds == UNION {Dialects[DefaultOrder[i]] : i \in DOMAIN DefaultOrder}

VARIABLES
  entries,     \* entries_: the registered msgids
  owner,       \* holder of mavlink_registry_mutex_, or None
  pc,          \* [Threads -> where the thread is in its current call]
  pending,     \* [Threads -> Seq of dialects still to register in this call]
  todo,        \* [Threads -> entries of the current dialect not yet inserted]
  lookupId,    \* [Threads -> msgid of the current get_msg_entry, or None]
  calls,       \* [Threads -> calls made]
  lookups      \* history: [thr, id, found] of every completed get_msg_entry

vars == <<entries, owner, pc, pending, todo, lookupId, calls, lookups>>

Init ==
  /\ entries = {}
  /\ owner = None
  /\ pc = [t \in Threads |-> "idle"]
  /\ pending = [t \in Threads |-> <<>>]
  /\ todo = [t \in Threads |-> {}]
  /\ lookupId = [t \in Threads |-> None]
  /\ calls = [t \in Threads |-> 0]
  /\ lookups = {}

\* The application calls register_dialect_entries(d).
CallRegister(t, d) ==
  /\ pc[t] = "idle" /\ calls[t] < MaxCalls
  /\ calls' = [calls EXCEPT ![t] = @ + 1]
  /\ pending' = [pending EXCEPT ![t] = <<d>>]
  /\ lookupId' = [lookupId EXCEPT ![t] = None]
  /\ pc' = [pc EXCEPT ![t] = "reg_lock"]
  /\ UNCHANGED <<entries, owner, todo, lookups>>

\* (mutant) get_msg_entry never registers the default dialects.
CallGetMsgEntryNoDefaults(t, id) ==
  /\ pc[t] = "idle" /\ calls[t] < MaxCalls
  /\ calls' = [calls EXCEPT ![t] = @ + 1]
  /\ lookupId' = [lookupId EXCEPT ![t] = id]
  /\ pc' = [pc EXCEPT ![t] = "lookup"]
  /\ UNCHANGED <<entries, owner, pending, todo, lookups>>

\* The framer calls get_msg_entry(id): the unlocked entries_.empty() check.
\* An empty map makes the call register the default dialects first.
CallGetMsgEntry(t, id) ==
  /\ pc[t] = "idle" /\ calls[t] < MaxCalls
  /\ calls' = [calls EXCEPT ![t] = @ + 1]
  /\ lookupId' = [lookupId EXCEPT ![t] = id]
  /\ \E seenEmpty \in IF owner = None THEN {entries = {}} ELSE BOOLEAN :
       IF seenEmpty
         THEN /\ pending' = [pending EXCEPT ![t] = DefaultOrder]
              /\ pc' = [pc EXCEPT ![t] = "reg_lock"]
         ELSE /\ pc' = [pc EXCEPT ![t] = "lookup"]
              /\ UNCHANGED pending
  /\ UNCHANGED <<entries, owner, todo, lookups>>

\* (mutant) the insert loop runs without waiting for the mutex.
RegisterLockNoWait(t) ==
  /\ pc[t] = "reg_lock"
  /\ owner' = t
  /\ todo' = [todo EXCEPT ![t] = Dialects[Head(pending[t])]]
  /\ pending' = [pending EXCEPT ![t] = Tail(@)]
  /\ pc' = [pc EXCEPT ![t] = "reg_insert"]
  /\ UNCHANGED <<entries, lookupId, calls, lookups>>

\* register_dialect_entries: take the mutex (lock_guard).
RegisterLock(t) ==
  /\ pc[t] = "reg_lock" /\ owner = None
  /\ owner' = t
  /\ todo' = [todo EXCEPT ![t] = Dialects[Head(pending[t])]]
  /\ pending' = [pending EXCEPT ![t] = Tail(@)]
  /\ pc' = [pc EXCEPT ![t] = "reg_insert"]
  /\ UNCHANGED <<entries, lookupId, calls, lookups>>

\* One iteration of the insert loop.
RegisterInsert(t) ==
  /\ pc[t] = "reg_insert" /\ todo[t] # {}
  /\ \E e \in todo[t] :
       /\ entries' = entries \cup {e}
       /\ todo' = [todo EXCEPT ![t] = @ \ {e}]
  /\ UNCHANGED <<owner, pc, pending, lookupId, calls, lookups>>

\* (mutant) the mutex is not released.
RegisterUnlockKeepsMutex(t) ==
  /\ pc[t] = "reg_insert" /\ todo[t] = {}
  /\ pc' = [pc EXCEPT ![t] = CASE pending[t] # <<>> -> "reg_lock"
                               [] lookupId[t] # None -> "lookup"
                               [] OTHER -> "idle"]
  /\ UNCHANGED <<entries, owner, pending, todo, lookupId, calls, lookups>>

\* The loop is done: release the mutex and go on with the next default
\* dialect, the lookup of the get_msg_entry that registered, or return.
RegisterUnlock(t) ==
  /\ pc[t] = "reg_insert" /\ todo[t] = {}
  /\ owner' = None
  /\ pc' = [pc EXCEPT ![t] = CASE pending[t] # <<>> -> "reg_lock"
                               [] lookupId[t] # None -> "lookup"
                               [] OTHER -> "idle"]
  /\ UNCHANGED <<entries, pending, todo, lookupId, calls, lookups>>

\* get_msg_entry: lock, find, unlock; nullptr when the msgid is missing.
Lookup(t) ==
  /\ pc[t] = "lookup" /\ owner = None
  /\ lookups' = lookups \cup {[thr |-> t, id |-> lookupId[t],
                               found |-> lookupId[t] \in entries]}
  /\ pc' = [pc EXCEPT ![t] = "idle"]
  /\ lookupId' = [lookupId EXCEPT ![t] = None]
  /\ UNCHANGED <<entries, owner, pending, todo, calls>>

Next ==
  \E t \in Threads :
    \/ \E d \in UserDialects : CallRegister(t, d)
    \/ \E id \in LookupIds : CallGetMsgEntry(t, id)
    \/ RegisterLock(t) \/ RegisterInsert(t) \/ RegisterUnlock(t) \/ Lookup(t)

\* Once in a call, a thread keeps running it (calls themselves are the
\* application's choice and get no fairness).
InCall(t) == RegisterLock(t) \/ RegisterInsert(t) \/ RegisterUnlock(t) \/ Lookup(t)

Spec == Init /\ [][Next]_vars /\ \A t \in Threads : WF_vars(InCall(t))

-----------------------------------------------------------------------------
TypeOK ==
  /\ owner \in Threads \cup {None}
  /\ pc \in [Threads -> {"idle", "reg_lock", "reg_insert", "lookup"}]
  /\ calls \in [Threads -> 0..MaxCalls]
  /\ lookups \subseteq [thr : Threads, id : LookupIds, found : BOOLEAN]
  \* and only the holder of the mutex is inside the insert loop
  /\ \A t \in Threads : pc[t] = "reg_insert" => owner = t

\* The header's promise (its documentation): messages of the common and
\* minimal dialects are known without registering anything, so every
\* get_msg_entry of one of their msgids finds an entry, whatever other
\* threads register or look up meanwhile.
DefaultDialectsKnown ==
  \A l \in lookups : l.id \in DefaultIds => l.found

\* Every call returns: no thread waits forever on the registry mutex.
CallsReturn == \A t \in Threads : []<>(pc[t] = "idle")
=============================================================================
