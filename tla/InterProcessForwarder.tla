------------------------ MODULE InterProcessForwarder ------------------------
(***************************************************************************)
(* One process of the pub/sub middleware: a set of threads, each owning an *)
(* InterProcessForwarder (middleware/transport-interprocess.h) over the    *)
(* shared InterThread store, the portal that owns the process boundary,    *)
(* and one remote peer process.                                            *)
(*                                                                         *)
(* The forwarder's operations are translated from the header.  The portal  *)
(* and the remote peer are not under src/; they are modelled from spec.md *)
(* 4.3, 4.4 and 6: the portal takes everything published on the reserved   *)
(* forward group, sends publications across the boundary, keeps the        *)
(* forwarded subscription descriptors and, when data arrives from the far  *)
(* side, runs the handler of every descriptor (and every regex descriptor) *)
(* that matches.                                                           *)
(***************************************************************************)
EXTENDS Naturals, Sequences, FiniteSets, SequencesExt

CONSTANTS
  Threads,          \* threads, each with one forwarder
  Groups,           \* application groups
  Schemes,          \* marshalling schemes (a type is identified with its scheme)
  Patterns,         \* regex subscriptions, as [schemes, groups] they accept
  Remote,           \* the peer process across the boundary (a model value)
  PubBudget,        \* [Publishers -> Nat]: publications each publisher makes
  MaxSubs,          \* subscribe / subscribe_regex calls in the process
  TransientGroups   \* may subscribe_dynamic be given a Group that dies with the call?

ASSUME MaxSubs \in Nat \ {0} /\ TransientGroups \in BOOLEAN

Keys == Schemes \X Groups
SubIds == 1..MaxSubs
Publishers == Threads \cup {Remote}
MaxPub == 2
Pub == [src : Publishers, n : 1..MaxPub, key : Keys]
ASSUME PubBudget \in [Publishers -> 0..MaxPub]

VARIABLES
  store, inbox, received,  \* the InterThread store (module InterThread)
  regexSubs,      \* [Threads -> set of [id, pat]]: each forwarder's regex_subscriptions_
  regexInbox,     \* [Threads -> Seq(Pub)]: data on regex_group_, not yet polled
  regexReceived,  \* [SubIds -> Seq(Pub)]: history of regex handler invocations
  portalQ,        \* Seq: items published on forward_group_, in order, to the portal
  portalSubs,     \* typed subscription descriptors the portal holds
  portalRegex,    \* regex subscription descriptors the portal holds
  fromRemote,     \* Seq(Pub): data from the peer the portal has not handled yet
  toRemote,       \* Seq(Pub): publications the portal has sent across
  pubCount,       \* [Publishers -> 0..MaxPub]
  nextSub,        \* next subscription id
  inPublish,      \* [Threads -> Pub or NoPub]: forwarded, not yet published locally
  published,      \* history: [pub, audience] of every local publication
  remoteSent      \* history: [pub, audience] of every publication of the peer

vars == <<store, inbox, received, regexSubs, regexInbox, regexReceived, portalQ,
          portalSubs, portalRegex, fromRemote, toRemote, pubCount, nextSub, inPublish,
          published, remoteSent>>

IT == INSTANCE InterThread

\* SerializationSubscriptionRegex::post filter: scheme in the set, type and
\* group matched by the patterns.
Matches(pat, key) == key[1] \in pat.schemes /\ key[2] \in pat.groups

NoPub == [none |-> TRUE]

\* Thread t is between calls: not inside publish_dynamic.
Idle(t) == inPublish[t] = NoPub

Init ==
  /\ IT!ITInit
  /\ regexSubs = [t \in Threads |-> {}]
  \* constructor (line 112): every forwarder subscribes to regex_group_
  /\ regexInbox = [t \in Threads |-> <<>>]
  /\ regexReceived = [i \in SubIds |-> <<>>]
  /\ portalQ = <<>>
  /\ portalSubs = {}
  /\ portalRegex = {}
  /\ fromRemote = <<>>
  /\ toRemote = <<>>
  /\ pubCount = [p \in Publishers |-> 0]
  /\ nextSub = 1
  /\ inPublish = [t \in Threads |-> NoPub]
  /\ published = {}
  /\ remoteSent = {}

-----------------------------------------------------------------------------
(* Forwarder operations, on the calling thread t.                          *)

\* _publish: serialize d once into a SerializerTransporterData envelope
\* and publish it on forward_group_, for the portal.
ForwardPublication(p) == portalQ' = Append(portalQ, [kind |-> "data", pub |-> p])

\* (mutant) the publication numbered from zero.
PublishDynamicZeroBased(t, s, g) ==
  LET p == [src |-> t, n |-> pubCount[t], key |-> <<s, g>>]
  IN /\ Idle(t) /\ pubCount[t] < PubBudget[t]
     /\ pubCount' = [pubCount EXCEPT ![t] = @ + 1]
     /\ ForwardPublication(p)
     /\ inPublish' = [inPublish EXCEPT ![t] = p]
     /\ UNCHANGED <<store, inbox, received, regexSubs, regexInbox, regexReceived,
                    portalSubs, portalRegex, fromRemote, toRemote, nextSub, published,
                    remoteSent>>

\* publish_dynamic (non-null data), first statement: _publish forwards d
\* to the portal under the store's lock, which is then released.
PublishDynamic(t, s, g) ==
  LET p == [src |-> t, n |-> pubCount[t] + 1, key |-> <<s, g>>]
  IN /\ Idle(t) /\ pubCount[t] < PubBudget[t]
     /\ pubCount' = [pubCount EXCEPT ![t] = @ + 1]
     /\ ForwardPublication(p)
     /\ inPublish' = [inPublish EXCEPT ![t] = p]
     /\ UNCHANGED <<store, inbox, received, regexSubs, regexInbox, regexReceived,
                    portalSubs, portalRegex, fromRemote, toRemote, nextSub, published,
                    remoteSent>>

\* publish_dynamic, second statement: inner_.publish_dynamic delivers d to
\* the subscribers other threads of this process registered by now, then
\* the call returns.
PublishLocal(t) ==
  LET p == inPublish[t]
  IN /\ ~Idle(t)
     /\ IT!Publish(t, p.key, p)
     /\ published' = published \cup {[pub |-> p, audience |-> IT!PeerAudience(t, p.key)]}
     /\ inPublish' = [inPublish EXCEPT ![t] = NoPub]
     /\ UNCHANGED <<store, received, regexSubs, regexInbox, regexReceived, portalQ,
                    portalSubs, portalRegex, fromRemote, toRemote, pubCount, nextSub,
                    remoteSent>>

\* _subscribe, after inner_.subscribe_dynamic: publish on forward_group_ a
\* SerializationSubscription descriptor whose handler republishes into
\* inner_ under `group`.  The relay lambda captures `group` by reference
\* ([&]): transient says the caller's Group does not outlive the call.
ForwardSubscription(id, key, transient) ==
  portalQ' = Append(portalQ, [kind |-> "sub", id |-> id, key |-> key,
                              transient |-> transient])

\* (mutant) the handler is registered locally but no descriptor is forwarded.
SubscribeDynamicLocalOnly(t, s, g, transient) ==
  /\ Idle(t) /\ nextSub <= MaxSubs
  /\ IT!Subscribe(t, <<s, g>>, nextSub)
  /\ nextSub' = nextSub + 1
  /\ UNCHANGED <<portalQ, inbox, received, regexSubs, regexInbox, regexReceived, portalSubs,
                 portalRegex, fromRemote, toRemote, pubCount, inPublish, published, remoteSent>>

\* subscribe_dynamic -> _subscribe: register the handler in the store,
\* then forward the descriptor.
SubscribeDynamic(t, s, g, transient) ==
  /\ Idle(t) /\ nextSub <= MaxSubs
  /\ IT!Subscribe(t, <<s, g>>, nextSub)
  /\ ForwardSubscription(nextSub, <<s, g>>, transient)
  /\ nextSub' = nextSub + 1
  /\ UNCHANGED <<inbox, received, regexSubs, regexInbox, regexReceived, portalSubs,
                 portalRegex, fromRemote, toRemote, pubCount, inPublish, published, remoteSent>>

\* _subscribe_regex, first half: the portal descriptor, whose handler
\* republishes matches on regex_group_, goes out on forward_group_.
ForwardRegexSubscription(id, pat) ==
  portalQ' = Append(portalQ, [kind |-> "regex", id |-> id, pat |-> pat])

\* subscribe_regex -> _subscribe_regex: forward the descriptor, then insert
\* the local subscription into regex_subscriptions_.
SubscribeRegex(t, pat) ==
  /\ Idle(t) /\ nextSub <= MaxSubs
  /\ ForwardRegexSubscription(nextSub, pat)
  /\ regexSubs' = [regexSubs EXCEPT ![t] = @ \cup {[id |-> nextSub, pat |-> pat]}]
  /\ nextSub' = nextSub + 1
  /\ UNCHANGED <<store, inbox, received, regexInbox, regexReceived, portalSubs,
                 portalRegex, fromRemote, toRemote, pubCount, inPublish, published, remoteSent>>

\* (mutant) regex_group_ data only taken while the forwarder has regex
\* subscriptions of its own.
ReceiveRegexWhenSubscribed(t) ==
  /\ Idle(t) /\ regexSubs[t] # {}
  /\ regexInbox[t] # <<>>
  /\ LET p == Head(regexInbox[t])
         hit == {r.id : r \in {x \in regexSubs[t] : Matches(x.pat, p.key)}}
     IN regexReceived' = [i \in SubIds |->
                            IF i \in hit THEN Append(regexReceived[i], p)
                                         ELSE regexReceived[i]]
  /\ regexInbox' = [regexInbox EXCEPT ![t] = Tail(@)]
  /\ UNCHANGED <<store, inbox, received, regexSubs, portalQ, portalSubs, portalRegex,
                 fromRemote, toRemote, pubCount, nextSub, inPublish, published, remoteSent>>

\* _receive_regex_data_forwarded (the regex_group_ handler, run by poll):
\* post the bytes to every regex subscription of this forwarder; post
\* calls the handler of those whose patterns match.
ReceiveRegexDataForwarded(t) ==
  /\ Idle(t) /\ regexInbox[t] # <<>>
  /\ LET p == Head(regexInbox[t])
         hit == {r.id : r \in {x \in regexSubs[t] : Matches(x.pat, p.key)}}
     IN regexReceived' = [i \in SubIds |->
                            IF i \in hit THEN Append(regexReceived[i], p)
                                         ELSE regexReceived[i]]
  /\ regexInbox' = [regexInbox EXCEPT ![t] = Tail(@)]
  /\ UNCHANGED <<store, inbox, received, regexSubs, portalQ, portalSubs, portalRegex,
                 fromRemote, toRemote, pubCount, nextSub, inPublish, published, remoteSent>>

\* poll: run a typed handler on data the store queued for thread t.
HandleData(t) ==
  /\ Idle(t) /\ IT!Handle(t)
  /\ UNCHANGED <<regexSubs, regexInbox, regexReceived, portalQ, portalSubs,
                 portalRegex, fromRemote, toRemote, pubCount, nextSub, inPublish, published, remoteSent>>

-----------------------------------------------------------------------------
(* Portal and remote peer (spec.md 4.3, 4.4, 6).                           *)

\* Every regex descriptor that matches p republishes it on regex_group_,
\* which every forwarder of the process is subscribed to.
RegexRelay(p) ==
  LET c == Cardinality({r \in portalRegex : Matches(r.pat, p.key)})
  IN [t \in Threads |-> regexInbox[t] \o [k \in 1..c |-> p]]

\* A publication on forward_group_: sent across, and offered to the regex
\* descriptors ("on receipt of any envelope, local or forwarded").
PortalForwardData ==
  /\ portalQ # <<>>
  /\ Head(portalQ).kind = "data"
  /\ toRemote' = Append(toRemote, Head(portalQ).pub)
  /\ regexInbox' = RegexRelay(Head(portalQ).pub)
  /\ portalQ' = Tail(portalQ)
  /\ UNCHANGED <<store, inbox, received, regexSubs, regexReceived, portalSubs,
                 portalRegex, fromRemote, pubCount, nextSub, inPublish, published, remoteSent>>

\* A typed or regex subscription descriptor: the portal keeps it and
\* subscribes across the boundary.
PortalForwardSubscription ==
  /\ portalQ # <<>>
  /\ Head(portalQ).kind \in {"sub", "regex"}
  /\ IF Head(portalQ).kind = "sub"
       THEN /\ portalSubs' = portalSubs \cup {Head(portalQ)}
            /\ UNCHANGED portalRegex
       ELSE /\ portalRegex' = portalRegex \cup {Head(portalQ)}
            /\ UNCHANGED portalSubs
  /\ portalQ' = Tail(portalQ)
  /\ UNCHANGED <<store, inbox, received, regexSubs, regexInbox, regexReceived,
                 fromRemote, toRemote, pubCount, nextSub, inPublish, published, remoteSent>>

\* The portal subscribes across the boundary only for what its descriptors
\* ask for: a publication of the peer for anything else never reaches it.
Wanted(key) ==
  \/ \E d \in portalSubs : d.key = key
  \/ \E r \in portalRegex : Matches(r.pat, key)

\* Typed subscriptions of key whose descriptor the portal has taken off
\* forward_group_: from then on, the peer's data for key is relayed to them.
Established(key) ==
  {e.id : e \in {x \in store : x.key = key /\
                  \A k \in DOMAIN portalQ : portalQ[k].kind = "sub" => portalQ[k].id # x.id}}

RemotePublish(s, g) ==
  LET p == [src |-> Remote, n |-> pubCount[Remote] + 1, key |-> <<s, g>>]
  IN /\ pubCount[Remote] < PubBudget[Remote]
     /\ pubCount' = [pubCount EXCEPT ![Remote] = @ + 1]
     /\ fromRemote' = IF Wanted(p.key) THEN Append(fromRemote, p) ELSE fromRemote
     /\ remoteSent' = remoteSent \cup {[pub |-> p, audience |-> Established(p.key)]}
     /\ UNCHANGED <<store, inbox, received, regexSubs, regexInbox, regexReceived,
                    portalQ, portalSubs, portalRegex, toRemote, nextSub, inPublish, published>>

\* (mutant) the relay republishes under any group of the scheme.
RelayKeysAnyGroup(d) == {<<d.key[1], g>> : g \in Groups}

\* The group a descriptor's relay republishes under: its own, unless the
\* captured Group reference dangles, when it is whatever the storage holds.
RelayKeys(d) ==
  IF d.transient THEN {<<d.key[1], g>> : g \in Groups} ELSE {d.key}

\* Data from the peer: the handler of every matching descriptor republishes
\* it into the store (inner_.publish_dynamic under the captured group), and
\* every matching regex descriptor republishes it on regex_group_.
PortalReceive ==
  /\ fromRemote # <<>>
  /\ LET p == Head(fromRemote)
         targets == {d \in portalSubs : d.key = p.key}
     IN \E rk \in [targets -> Keys] :
          /\ \A d \in targets : rk[d] \in RelayKeys(d)
          /\ inbox' = IT!EnqueueCopies(p, [i \in SubIds |->
                         Cardinality({d \in targets : i \in IT!Audience(rk[d])})])
          /\ regexInbox' = RegexRelay(p)
  /\ fromRemote' = Tail(fromRemote)
  /\ UNCHANGED <<store, received, regexSubs, regexReceived, portalQ, portalSubs,
                 portalRegex, toRemote, pubCount, nextSub, inPublish, published, remoteSent>>

-----------------------------------------------------------------------------
Next ==
  \/ \E t \in Threads, s \in Schemes, g \in Groups :
        \/ PublishDynamic(t, s, g)
        \/ \E tr \in IF TransientGroups THEN BOOLEAN ELSE {FALSE} :
              SubscribeDynamic(t, s, g, tr)
  \/ \E t \in Threads, pat \in Patterns : SubscribeRegex(t, pat)
  \/ \E t \in Threads : PublishLocal(t) \/ HandleData(t) \/ ReceiveRegexDataForwarded(t)
  \/ PortalForwardData
  \/ PortalForwardSubscription
  \/ PortalReceive
  \/ \E s \in Schemes, g \in Groups : RemotePublish(s, g)

\* A thread inside publish_dynamic finishes the call; every thread's main
\* loop keeps polling, and so does the portal's.
Fairness ==
  /\ \A t \in Threads : /\ WF_vars(PublishLocal(t))
                       /\ WF_vars(HandleData(t)) /\ WF_vars(ReceiveRegexDataForwarded(t))
  /\ WF_vars(PortalForwardData)
  /\ WF_vars(PortalForwardSubscription)
  /\ WF_vars(PortalReceive)

Spec == Init /\ [][Next]_vars /\ Fairness

-----------------------------------------------------------------------------
(* Properties                                                              *)

TypeOK ==
  /\ store \subseteq IT!Entry
  /\ inbox \in [SubIds -> Seq(Pub)] /\ received \in [SubIds -> Seq(Pub)]
  /\ regexInbox \in [Threads -> Seq(Pub)] /\ regexReceived \in [SubIds -> Seq(Pub)]
  /\ toRemote \in Seq(Pub)
  /\ pubCount \in [Publishers -> 0..MaxPub]
  /\ nextSub \in 1..MaxSubs + 1
  /\ inPublish \in [Threads -> Pub \cup {NoPub}]

\* No cross-talk (spec 8): a typed handler subscribed to a group is only
\* ever called with data published to that group; at risk where the
\* portal's relay republishes under the group its lambda captured.
NoCrossTalk ==
  \A e \in store : \A k \in DOMAIN received[e.id] : received[e.id][k].key = e.key

\* Exactly-once local delivery, safety half: every publication of a thread
\* of this process reaches every subscription another thread had
\* registered when it was published (queued or handled), none of the
\* publishing thread's own, and no handler sees it twice.
LocalNoLossNoDuplicate ==
  \A r \in published : \A i \in SubIds :
    LET n == Cardinality({k \in DOMAIN received[i] : received[i][k] = r.pub})
           + Cardinality({k \in DOMAIN inbox[i] : inbox[i][k] = r.pub})
    IN n = IF i \in r.audience THEN 1 ELSE 0

\* Refinement: the forwarder, with its portal, implements PubSubDelivery.
\* Typed and regex handlers are only ever called with data of a key they
\* accept, published before, and never with an older publication of a
\* publisher after a newer one, through the local store, the relay of the
\* peer's data and regex_group_ alike.
AbstractSubs ==
  {[id |-> e.id, keys |-> {e.key}] : e \in store}
    \cup {[id |-> r.id, keys |-> {k \in Keys : Matches(r.pat, k)}] :
           r \in UNION {regexSubs[t] : t \in Threads}}

Abs == INSTANCE PubSubDelivery WITH
         subs <- AbstractSubs,
         issued <- pubCount,
         got <- [i \in SubIds |-> received[i] \o regexReceived[i]]

ImplementsPubSub == Abs!Spec

\* Exactly once (spec 3, 4.4, 8): no handler, typed or regex, is called
\* twice with the same publication, however many threads subscribed.
HandlersAtMostOnce ==
  \A i \in SubIds : \A h \in {received[i], regexReceived[i]} :
    \A j, k \in DOMAIN h : j < k => h[j] # h[k]

\* Liveness: whatever was queued for a handler, on the boundary or on
\* regex_group_ is eventually handled, since every loop keeps polling.
Drained ==
  /\ \A i \in SubIds : inbox[i] = <<>>
  /\ \A t \in Threads : regexInbox[t] = <<>>
  /\ portalQ = <<>> /\ fromRemote = <<>>

EventuallyDrained == <>[]Drained

\* Liveness across the boundary: a publication of the peer made once the
\* portal holds a subscription's descriptor reaches that subscription's
\* handler in the end (a publication made earlier may be lost, spec 4.3).
RemoteReached ==
  \A r \in remoteSent : \A i \in r.audience :
    \E k \in DOMAIN received[i] : received[i][k] = r.pub

RemoteDelivered == <>[]RemoteReached
=============================================================================
