--------------------------- MODULE PubSubDelivery ---------------------------
(***************************************************************************)
(* What the publish/subscribe transport promises a handler, stated without *)
(* stores, portals or queues (spec.md 3, 4.2, 4.4 and 5).                  *)
(*                                                                         *)
(* A subscription accepts a set of keys: one <<scheme, group>> for a typed *)
(* subscription, every key its patterns match for a regex subscription.    *)
(* Publishers number their publications 1, 2, ...  A delivery hands one   *)
(* publication to one or more handlers at once.  A handler is only called  *)
(* with a publication that was already issued, under a key it accepts,    *)
(* and never with an older publication of a publisher after a newer one.   *)
(*                                                                         *)
(* At-most-once is deliberately not part of this specification: the       *)
(* forwarder breaks it (run fwd_dup), and it is checked on its own.        *)
(***************************************************************************)
EXTENDS Naturals, Sequences, SequencesExt

CONSTANTS
  SubIds,       \* subscription identities
  Keys,         \* <<scheme, group>> pairs
  Publishers,   \* publishing threads and processes
  MaxPub        \* publications each publisher may issue

Pub == [src : Publishers, n : 1..MaxPub, key : Keys]

VARIABLES
  subs,     \* set of [id, keys]: registered subscriptions and the keys they accept
  issued,   \* [Publishers -> 0..MaxPub]: publications each publisher has issued
  got       \* [SubIds -> Seq(Pub)]: what each handler has been called with

vars == <<subs, issued, got>>

Accepts(i) == UNION {s.keys : s \in {x \in subs : x.id = i}}

Init ==
  /\ subs = {}
  /\ issued = [s \in Publishers |-> 0]
  /\ got = [i \in SubIds |-> <<>>]

Subscribe(i, ks) ==
  /\ i \notin {s.id : s \in subs}
  /\ subs' = subs \cup {[id |-> i, keys |-> ks]}
  /\ UNCHANGED <<issued, got>>

Issue(s) ==
  /\ issued[s] < MaxPub
  /\ issued' = [issued EXCEPT ![s] = @ + 1]
  /\ UNCHANGED <<subs, got>>

\* Can handler i be called with p now?
Deliverable(i, p) ==
  /\ p.n <= issued[p.src]
  /\ p.key \in Accepts(i)
  /\ \A k \in DOMAIN got[i] : got[i][k].src = p.src => got[i][k].n <= p.n

Deliver(p, D) ==
  /\ D # {}
  /\ \A i \in D : Deliverable(i, p)
  /\ got' = [i \in SubIds |-> IF i \in D THEN Append(got[i], p) ELSE got[i]]
  /\ UNCHANGED <<subs, issued>>

Next ==
  \/ \E i \in SubIds, ks \in SUBSET Keys : Subscribe(i, ks)
  \/ \E s \in Publishers : Issue(s)
  \/ \E p \in Pub, D \in SUBSET SubIds : Deliver(p, D)

Spec == Init /\ [][Next]_vars
=============================================================================
