---------------------------- MODULE InterThread ----------------------------
(***************************************************************************)
(* The interthread subscription store (goby::middleware::InterThread-      *)
(* Transporter and its SubscriptionStore).  Only the declaration of the    *)
(* process-wide stores_ map and its shared_timed_mutex is under src/       *)
(* (middleware/transport/interthread.cpp); the store's behaviour is taken  *)
(* from spec.md sections 3, 4.2 and 5.                                     *)
(*                                                                         *)
(* A subscription is an entry [id, thr, key] where key = <<scheme, group>> *)
(* (the type is identified with its scheme).  A publish under the store's  *)
(* shared lock appends the value to the queue of every entry registered    *)
(* for its key; the subscribing thread runs the handler when it polls.     *)
(* Every store operation happens under the store mutex, so each is one     *)
(* atomic step: no publish sees a partially inserted subscriber list.      *)
(***************************************************************************)
EXTENDS Naturals, Sequences, FiniteSets, SequencesExt

CONSTANTS
  Threads,   \* threads sharing the store (one thread-boundary group)
  Keys,      \* <<scheme, group>> pairs a subscription or publication uses
  SubIds     \* identities of subscription entries

VARIABLES
  store,     \* set of registered entries [id, thr, key]
  inbox,     \* [SubIds -> Seq(value)]: published, not yet handled
  received   \* [SubIds -> Seq(value)]: history of handler invocations

itVars == <<store, inbox, received>>

Entry == [id : SubIds, thr : Threads, key : Keys]

ITInit ==
  /\ store = {}
  /\ inbox = [i \in SubIds |-> <<>>]
  /\ received = [i \in SubIds |-> <<>>]

\* The entries registered for key.
Audience(key) == {e.id : e \in {x \in store : x.key = key}}

\* The entries a publication to key by thread t reaches: the store does not
\* hand a thread its own publications back (the multi_thread_app1 test's
\* thread subscribes to widget2 and republishes every widget2 it handles).
PeerAudience(t, key) == {e.id : e \in {x \in store : x.key = key /\ x.thr # t}}

\* Queues after appending copies(i) copies of v for every entry i (used for
\* one publish, copies = 1 on the audience, and for a batch of publishes).
EnqueueCopies(v, copies) ==
  [i \in SubIds |-> inbox[i] \o [k \in 1..copies[i] |-> v]]

\* subscribe(): register a new entry under the exclusive lock.
Subscribe(t, key, id) ==
  /\ id \notin {e.id : e \in store}
  /\ store' = store \cup {[id |-> id, thr |-> t, key |-> key]}

\* publish() on thread t: under the shared lock, deliver v once to every
\* entry of key that other threads registered.
Publish(t, key, v) ==
  inbox' = EnqueueCopies(v, [i \in SubIds |-> IF i \in PeerAudience(t, key) THEN 1 ELSE 0])

\* (mutant) the handler runs but the value stays queued.
HandleNoPop(t) ==
  \E e \in store :
    /\ e.thr = t
    /\ inbox[e.id] # <<>>
    /\ received' = [received EXCEPT ![e.id] = Append(@, Head(inbox[e.id]))]
    /\ UNCHANGED <<store, inbox>>

\* poll() on thread t: run the handler of one of t's entries on the oldest
\* value queued for it.
Handle(t) ==
  \E e \in store :
    /\ e.thr = t
    /\ inbox[e.id] # <<>>
    /\ received' = [received EXCEPT ![e.id] = Append(@, Head(inbox[e.id]))]
    /\ inbox' = [inbox EXCEPT ![e.id] = Tail(@)]
    /\ UNCHANGED store
=============================================================================
