----------------------------- MODULE Reassembly ----------------------------
(***************************************************************************)
(* Objects larger than a transport message: how publishNamedObject cuts    *)
(* them up and how handle_pub_fragment puts them together again            *)
(* (src/quicr_client.cpp).                                                 *)
(*                                                                         *)
(* The fragments wait in `fragments`, a static map that ALL clients of a   *)
(* process share: a ring of buffers, each a map from names to the          *)
(* fragments received.  New names go to the buffer `cindex`; when it holds *)
(* MaxNames names the index moves on and purges the buffer it comes to.    *)
(*                                                                         *)
(* A name that is completed in ANOTHER buffer than the current one is      *)
(* erased through the current buffer's map (line 557): undefined           *)
(* behaviour.  What libstdc++'s tree does: the node leaves its own tree,   *)
(* whose root or ends may keep pointing at it (`broken`), and the node     *)
(* count of the CURRENT map goes down, below zero if it is empty.  The     *)
(* rebalancing works with the current map's header: when it rotates the    *)
(* root, the tree's own header keeps the former one, and the names above   *)
(* it are stored and no longer found (`hidden`); or it climbs out of the   *)
(* tree and follows a null pointer.  A later use of a broken tree may      *)
(* follow a dangling pointer (`crashed`, the model stops), or it may take  *)
(* another branch and find what is not hidden.                             *)
(*                                                                         *)
(* The network delivers fragments in any order, or never, and a bounded    *)
(* number of them twice.                                                   *)
(***************************************************************************)
EXTENDS Naturals, FiniteSets, Functions, FiniteSetsExt, Maps

CONSTANTS
    Client,      \* clients in the process, all subscribed to every name
    Name,        \* quicr names; a name is published once
    Size,        \* Size[nm]: the bytes of the object nm
    MaxData,     \* MAX_TRANSPORT_DATA_SIZE
    MaxNames,    \* MAX_FRAGMENT_NAMES_PENDING_PER_BUFFER
    MaxBuffers,  \* MAX_FRAGMENT_BUFFERS
    MinRebalance, \* the fewest names of a tree that rebalancing with another
                 \* map's header can damage (3 in libstdc++)
    SizeMax,     \* the largest size_t
    MaxDup       \* bound on duplicated fragments

ASSUME SizeAssumption == Size \in [Name -> Nat \ {0}]
ASSUME LimitAssumption ==
    /\ MaxData \in Nat \ {0}
    /\ MaxNames \in Nat \ {0}
    /\ MaxBuffers \in Nat \ {0}
    /\ MinRebalance \in Nat \ {0}
    /\ SizeMax \in Nat /\ SizeMax > MaxNames
    /\ MaxDup \in Nat

VARIABLES
    unpublished,  \* names still to be published
    net,          \* fragments on their way, with the client they go to
    dups,         \* fragments the network has duplicated
    cindex,       \* index of the current buffer
    fragments,    \* fragments[i]: name -> the fragments received
    count,        \* count[i]: what fragments[i].size() returns
    broken,       \* buffers whose tree holds a dangling pointer
    hidden,       \* hidden[i]: names in fragments[i] that find() does not reach
    crashed,      \* the process followed a pointer to freed memory
    got,          \* history: what each client received of each name
    crossed,      \* history: a name was completed outside the current buffer
    lost,         \* history: names that were hidden
    purged,       \* history: names purged with their buffer
    delivered     \* history: how often each client was given which fragments

vars == <<unpublished, net, dups, cindex, fragments, count, broken, hidden,
          crashed, got, crossed, lost, purged, delivered>>

Buffer == 1..MaxBuffers

----------------------------------------------------------------------------
(* Cutting.  A fragment is its key, offset_and_fin, and its length.        *)

(* Whole blocks first, then the remaining bytes; the last one carries the  *)
(* fin bit.  An object that fits is one message with offset 0 and fin.     *)
Fragments_FinOnlyOnRest(size) ==
    LET whole == size \div MaxData
        rest == size % MaxData
    IN  IF size <= MaxData THEN {[key |-> 1, len |-> size]}
        ELSE {[key |-> 2 * i * MaxData, len |-> MaxData] : i \in 0..(whole - 1)}
               \cup {[key |-> 2 * whole * MaxData + 1, len |-> rest] :
                        x \in {rest} \ {0}}
Fragments(size) ==
    LET whole == size \div MaxData
        rest == size % MaxData
        fin(i) == IF i = whole - 1 /\ rest = 0 THEN 1 ELSE 0
    IN  IF size <= MaxData THEN {[key |-> 1, len |-> size]}
        ELSE {[key |-> 2 * i * MaxData + fin(i), len |-> MaxData] : i \in 0..(whole - 1)}
               \cup {[key |-> 2 * whole * MaxData + 1, len |-> rest] :
                        x \in {rest} \ {0}}

(* publishNamedObject sends the fragments in order and gives up at the first *)
(* one the transport refuses; the relay passes each on to every client.      *)
publishNamedObject(nm) ==
    /\ ~crashed
    /\ nm \in unpublished
    /\ \E refused \in {f.key : f \in Fragments(Size[nm])} \cup {2 * Size[nm] + 1} :
          net' = net \cup {[to |-> c, name |-> nm, frag |-> f] :
                             c \in Client, f \in {g \in Fragments(Size[nm]) : g.key < refused}}
    /\ unpublished' = unpublished \ {nm}
    /\ UNCHANGED <<dups, cindex, fragments, count, broken, hidden, crashed, got,
                   crossed, lost, purged, delivered>>

----------------------------------------------------------------------------
(* Putting together.                                                       *)

(* notify_pub_fragment: the highest key has the fin bit, and no offset       *)
(* differs from seq_bytes.  The loop stops at the first one that does, so up *)
(* to there seq_bytes is where the fragment before ends.                     *)
LastOf(fs) == CHOOSE f \in fs : \A g \in fs : g.key <= f.key

seq_bytes(fs, f) ==
    LET before == {g \in fs : g.key < f.key}
    IN  IF before = {} THEN 0 ELSE LastOf(before).key \div 2 + LastOf(before).len

Complete_NoGapCheck(fs) == LastOf(fs).key % 2 = 1
Complete(fs) ==
    /\ LastOf(fs).key % 2 = 1
    /\ \A f \in fs : f.key \div 2 = seq_bytes(fs, f)

deliver(c, nm, fs) ==
    delivered' = Put(delivered, [to |-> c, name |-> nm, frags |-> fs],
                     IF [to |-> c, name |-> nm, frags |-> fs] \in DOMAIN delivered
                     THEN delivered[[to |-> c, name |-> nm, frags |-> fs]] + 1 ELSE 1)

(* The buffer a name is found in: the current one is tried first, then all  *)
(* of them from the first on.                                               *)
Found(i) == DOMAIN fragments[i] \ hidden[i]

BufferOf_CurrentOnly(nm) ==
    {i \in {cindex} : nm \in Found(i)}
BufferOf(nm) ==
    IF nm \in Found(cindex) THEN {cindex}
    ELSE LET found == {i \in Buffer : nm \in Found(i)}
         IN  IF found = {} THEN {} ELSE {Min(found)}

(* The buffers the search looks into.                                      *)
Searched(nm) ==
    IF nm \in Found(cindex) THEN {cindex}
    ELSE {i \in Buffer : \A j \in BufferOf(nm) : i <= j} \cup {cindex}

(* size() after an erase through the current map: a size_t, which wraps.   *)
Less_Signed(n) == n - 1
Less(n) == IF n = 0 THEN SizeMax ELSE n - 1

(* The end of handle_pub_fragment, from what the first part leaves (the      *)
(* contents fs, the node counts cs, the broken trees br and the hidden names *)
(* hd): move on when the current buffer is full.                             *)
NextIndex == IF cindex < MaxBuffers THEN cindex + 1 ELSE 1

Full_OneMore(n) == n > MaxNames
Full(n) == n >= MaxNames

moveOn(fs, cs, br, hd) ==
    IF Full(cs[cindex])
    THEN /\ cindex' = NextIndex
         /\ fragments' = [fs EXCEPT ![NextIndex] = EmptyMap]
         /\ count' = [cs EXCEPT ![NextIndex] = 0]
         /\ purged' = purged \cup DOMAIN fs[NextIndex]
         /\ broken' = br \ {NextIndex}
         /\ hidden' = [hd EXCEPT ![NextIndex] = {}]
         /\ crashed' \in {FALSE} \cup (IF NextIndex \in br THEN {TRUE} ELSE {})
    ELSE /\ fragments' = fs
         /\ count' = cs
         /\ broken' = br
         /\ hidden' = hd
         /\ UNCHANGED <<cindex, purged, crashed>>

With(i, nm, f) ==
    IF nm \in DOMAIN fragments[i] THEN fragments[i][nm] \cup {f} ELSE {f}

(* A fragment of a name that is in no buffer opens one; it is not checked. *)
handle_new(nm, f) ==
    /\ BufferOf(nm) = {}
    /\ moveOn([fragments EXCEPT ![cindex] = Put(@, nm, {f})],
              [count EXCEPT ![cindex] = @ + 1], broken, hidden)
    /\ UNCHANGED <<crossed, lost, delivered>>

handle_more(nm, f) ==
    \E i \in BufferOf(nm) :
        LET fs == With(i, nm, f)
        IN  /\ ~Complete(fs)
            /\ moveOn([fragments EXCEPT ![i] = Put(@, nm, fs)], count, broken, hidden)
            /\ UNCHANGED <<crossed, lost, delivered>>

handle_last_NotErased(c, nm, f) ==
    /\ cindex \in BufferOf(nm)
    /\ Complete(With(cindex, nm, f))
    /\ deliver(c, nm, With(cindex, nm, f))
    /\ moveOn([fragments EXCEPT ![cindex] = Put(@, nm, With(cindex, nm, f))], count, broken, hidden)
    /\ UNCHANGED <<crossed, lost>>
handle_last(c, nm, f) ==
    /\ cindex \in BufferOf(nm)
    /\ Complete(With(cindex, nm, f))
    /\ deliver(c, nm, With(cindex, nm, f))
    /\ moveOn([fragments EXCEPT ![cindex] = EraseKeys(@, {nm})],
              [count EXCEPT ![cindex] = Less(@)], broken, hidden)
    /\ UNCHANGED <<crossed, lost>>

(* The last fragment of a name in another buffer.  Its tree is broken when  *)
(* the erased node was the last one, and may be in any case; rebalancing    *)
(* may choose anew which names are found, or bring the process down.        *)
handle_last_elsewhere(c, nm, f) ==
    \E i \in BufferOf(nm) \ {cindex} :
        LET left == DOMAIN fragments[i] \ {nm}
            rebalanced == MinRebalance <= Cardinality(left) + 1
        IN  /\ Complete(With(i, nm, f))
            /\ deliver(c, nm, With(i, nm, f))
            /\ crossed' = TRUE
            /\ \/ \E br \in {broken \cup {i}} \cup (IF left = {} THEN {} ELSE {broken}),
                     hd \in {hidden[i]} \cup (IF rebalanced THEN SUBSET left ELSE {}) :
                     /\ moveOn([fragments EXCEPT ![i] = EraseKeys(@, {nm})],
                               [count EXCEPT ![cindex] = Less(@)],
                               br, [hidden EXCEPT ![i] = hd])
                     /\ lost' = lost \cup hd
               \/ /\ rebalanced
                  /\ fragments' = [fragments EXCEPT ![i] = EraseKeys(@, {nm})]
                  /\ crashed' = TRUE
                  /\ UNCHANGED <<cindex, count, broken, hidden, lost, purged>>

handle_pub_fragment(c, nm, f) ==
    \/ handle_new(nm, f)
    \/ handle_more(nm, f)
    \/ handle_last(c, nm, f)
    \/ handle_last_elsewhere(c, nm, f)

(* A search through a tree with a dangling pointer.                        *)
handle_crash(nm) ==
    /\ Searched(nm) \cap broken # {}
    /\ crashed' = TRUE
    /\ UNCHANGED <<cindex, fragments, count, broken, hidden, crossed, lost, purged,
                   delivered>>

(* handle(): a message with key 1 is a whole object.                       *)
handle_single(c, nm, f) ==
    /\ deliver(c, nm, {f})
    /\ UNCHANGED <<cindex, fragments, count, broken, hidden, crashed, crossed, lost,
                   purged>>

handle(m) ==
    IF m.frag.key = 1 THEN handle_single(m.to, m.name, m.frag)
    ELSE handle_pub_fragment(m.to, m.name, m.frag) \/ handle_crash(m.name)

Receive(m) ==
    /\ ~crashed
    /\ handle(m)
    /\ got' = [got EXCEPT ![m.to][m.name] = @ \cup {m.frag}]
    /\ \/ net' = net \ {m} /\ UNCHANGED dups
       \/ dups < MaxDup /\ dups' = dups + 1 /\ UNCHANGED net
    /\ UNCHANGED unpublished

----------------------------------------------------------------------------
Init ==
    /\ unpublished = Name
    /\ net = {}
    /\ dups = 0
    /\ cindex = 1
    /\ fragments = [i \in Buffer |-> EmptyMap]
    /\ count = [i \in Buffer |-> 0]
    /\ broken = {}
    /\ hidden = [i \in Buffer |-> {}]
    /\ crashed = FALSE
    /\ got = [c \in Client |-> [nm \in Name |-> {}]]
    /\ crossed = FALSE
    /\ lost = {}
    /\ purged = {}
    /\ delivered = EmptyMap

Next ==
    \/ \E nm \in Name : publishNamedObject(nm)
    \/ \E m \in net : Receive(m)

Spec == Init /\ [][Next]_vars

----------------------------------------------------------------------------
(* Properties.                                                             *)

(* Every variable has its type; size() is a size_t.                        *)
TypeOK ==
    /\ unpublished \subseteq Name
    /\ dups \in 0..MaxDup
    /\ cindex \in Buffer
    /\ \A i \in Buffer : DOMAIN fragments[i] \subseteq Name
    /\ count \in [Buffer -> 0..SizeMax]
    /\ broken \subseteq Buffer
    /\ hidden \in [Buffer -> SUBSET Name]
    /\ lost \subseteq Name
    /\ purged \subseteq Name

(* What is delivered is the object that was published, every byte of it     *)
(* once and in its place: no loss, reordering, duplication or purge ever    *)
(* makes a shorter or a mixed one (notify_pub_fragment's gap check).        *)
Bytes(f) == (f.key \div 2)..(f.key \div 2 + f.len - 1)

DeliveredIntact ==
    \A r \in DOMAIN delivered :
        /\ UNION {Bytes(f) : f \in r.frags} = 0..(Size[r.name] - 1)
        /\ \A f, g \in r.frags : f # g => Bytes(f) \cap Bytes(g) = {}

(* One client: handle_pub_fragment delivers an object again only when the   *)
(* network has repeated as many fragments as the object has.                *)
DeliveredOnce ==
    \A r \in DOMAIN delivered : (delivered[r] - 1) * Cardinality(r.frags) <= dups

(* A name waits in one buffer of the ring only, so handle_pub_fragment       *)
(* brings its fragments together wherever the current index has moved and   *)
(* whatever an erase through the wrong map did to the trees, unless such an *)
(* erase took the name itself out of the search's reach.                    *)
NameInOneBuffer ==
    \A i, j \in Buffer :
        i # j => DOMAIN fragments[i] \cap DOMAIN fragments[j] \subseteq lost

(* src/quicr_client.cpp:25-28, "Every message quicr_name is checked to see  *)
(* if it's complete. If so, the published object callback will be           *)
(* executed": a client that received every fragment of an object was given  *)
(* the object, unless the ring was purged of it on the way, line 557 took   *)
(* it out of the search's reach, or the process went down.  True of a       *)
(* process with one client; false with two, which put their fragments into  *)
(* the same buffers.                                                        *)
CompleteIsDelivered ==
    \A c \in Client : \A nm \in Name \ (purged \cup lost) :
        /\ ~crashed
        /\ got[c][nm] = Fragments(Size[nm])
        => [to |-> c, name |-> nm, frags |-> got[c][nm]] \in DOMAIN delivered

(* As long as every name was completed in the current buffer, size() counts *)
(* the names of each buffer and the current one has room for another, so no *)
(* buffer holds more than MAX_FRAGMENT_NAMES_PENDING_PER_BUFFER names.      *)
CurrentHasRoom ==
    ~crossed => /\ \A i \in Buffer : count[i] = Cardinality(DOMAIN fragments[i])
                /\ count[cindex] < MaxNames

(* src/quicr_client.cpp:32, about messages that stay incomplete: "the only  *)
(* harm is a little extra memory being used".  They stay in an older buffer *)
(* and, when they are completed after all, line 557 erases them through the *)
(* wrong map.                                                               *)
OnlyMemoryHarm == broken = {} /\ lost = {} /\ ~crashed
=============================================================================
