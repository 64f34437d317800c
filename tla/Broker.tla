------------------------------- MODULE Broker ------------------------------
(***************************************************************************)
(* What a relay promises its peers, without threads, ids that outlive      *)
(* their subscription, or tables that disagree: a set of subscriptions     *)
(* that are served, and what is sent under each of them.                   *)
(*                                                                         *)
(* ReallyServer implements this specification.  Three liberties are there  *)
(* because the code takes them: a connection that subscribes to a          *)
(* namespace again may get a second subscription, a lost connection may    *)
(* leave some of its subscriptions behind, and the copy of an object that  *)
(* is being sent while its subscription ends may go astray.  Where the     *)
(* names of connections are used again, a subscription may end twice, and  *)
(* a copy go astray when it does.                                          *)
(***************************************************************************)
CONSTANTS
    Context,    \* connections
    Name,       \* names of objects
    Namespace,  \* what is announced and subscribed to
    NameOf,     \* NameOf[n]: the key of n
    Covers,     \* Covers[n]: the names in n
    Id,         \* subscriber ids
    ContextReuse  \* may a connection get the name of an earlier one?

VARIABLES
    members,    \* the subscriptions served: [id, ctx, ns]
    used,       \* the ids ever given out
    announced,  \* the namespaces that publishers announced
    source,     \* where the object being forwarded came from, {} if there is none
    pending,    \* the copies of the last object that are still to be sent
    out         \* what the last step sent to subscribers

vars == <<members, used, announced, source, pending, out>>

Send(m, type, n) == [to |-> m.ctx, id |-> m.id, msg |-> [type |-> type, ns |-> n]]

CopyFor(m, nm) ==
    [to |-> m.ctx, id |-> m.id, msg |-> [type |-> "Publish", name |-> nm, prefix |-> m.ns]]

Init ==
    /\ members = {}
    /\ source = {}
    /\ pending = {}
    /\ used = {}
    /\ announced = {}
    /\ out = {}

(* A subscription starts under an id that was never used, or goes on under  *)
(* the id it has.                                                           *)
Join(m) ==
    /\ \/ m.id \notin used
       \/ \E other \in members : other.id = m.id /\ other.ctx = m.ctx
    /\ members' = members \cup {m}
    /\ used' = used \cup {m.id}
    /\ out' = {Send(m, "SubscribeResponse", m.ns)}
    /\ UNCHANGED <<announced, source, pending>>

(* Subscriptions of ONE connection end, each with one SubscribeEnd.  What   *)
(* was pending for them may be dropped.                                     *)
Leave(c, ids) ==
    /\ ids \subseteq {m.id : m \in {x \in members : x.ctx = c}}
    /\ members' = {m \in members : m.id \notin ids}
    /\ \E n \in [ids -> Namespace] :
          out' = {Send([ctx |-> c, id |-> i], "SubscribeEnd", n[i]) : i \in ids}
    /\ {p \in pending : p.id \notin ids} \subseteq pending' /\ pending' \subseteq pending
    /\ UNCHANGED <<used, announced, source>>

Announce(n) ==
    /\ announced' = announced \cup {n}
    /\ out' = {}
    /\ UNCHANGED <<members, used, source, pending>>

(* A namespace is withdrawn by its key, by anybody.                        *)
Withdraw(n) ==
    /\ announced' = {x \in announced : NameOf[x] # NameOf[n]}
    /\ out' = {}
    /\ UNCHANGED <<members, used, source, pending>>

(* An object in an announced namespace is accepted when the last one is     *)
(* done with.  Every subscription that covers its name will get a copy,     *)
(* and nobody else; those of its source need not.  The source is the        *)
(* connection c it came from and d, the one its name is counted under.      *)
Accept(nm, c, d) ==
    LET covering == {m \in members : nm \in Covers[m.ns]}
    IN  /\ source = {}
        /\ source' = {c, d}
        /\ \E n \in announced : nm \in Covers[n]
        /\ {CopyFor(m, nm) : m \in {x \in covering : x.ctx \notin source'}} \subseteq pending'
        /\ pending' \subseteq {CopyFor(m, nm) : m \in covering}
        /\ out' = {}
        /\ UNCHANGED <<members, used, announced>>

(* A copy is sent to the subscription.  If that has ended, the copy goes to *)
(* nobody, or astray.                                                       *)
Forward(p) ==
    /\ p \in pending
    /\ pending' = pending \ {p}
    /\ IF \E m \in members : m.id = p.id
       THEN out' = {p}
       ELSE out' = {} \/ \E c \in Context : out' = {[p EXCEPT !.to = c]}
    /\ UNCHANGED <<members, used, announced, source>>

(* All copies are out.                                                     *)
Done ==
    /\ pending = {}
    /\ source' = {}
    /\ out' = {}
    /\ UNCHANGED <<members, used, announced, pending>>

(* A copy that goes astray at the second end of a subscription.            *)
Stray(i, nm, n, c) ==
    /\ ContextReuse
    /\ i \in used \ {m.id : m \in members}
    /\ out' = {CopyFor([ctx |-> c, id |-> i, ns |-> n], nm)}
    /\ UNCHANGED <<members, used, announced, source, pending>>

(* Nothing is sent to a subscriber.                                        *)
Silent ==
    /\ out' = {}
    /\ UNCHANGED <<members, used, announced, source, pending>>

Next ==
    \/ \E i \in Id, c \in Context, n \in Namespace : Join([id |-> i, ctx |-> c, ns |-> n])
    \/ \E c \in Context : \E ids \in SUBSET Id : Leave(c, ids)
    \/ \E n \in Namespace : Announce(n) \/ Withdraw(n)
    \/ \E nm \in Name, c, d \in Context : Accept(nm, c, d)
    \/ \E p \in pending : Forward(p)
    \/ Done
    \/ \E i \in Id, nm \in Name, n \in Namespace, c \in Context : Stray(i, nm, n, c)
    \/ Silent

Spec == Init /\ [][Next]_vars
=============================================================================
