------------------------------- MODULE Epochs -------------------------------
(***************************************************************************)
(* What the writers of persistent bitmaps and row vectors promise          *)
(* (internal/bitmap, internal/pvec): a node is changed in place only by    *)
(* the transaction that made it, and only while nobody else has it.        *)
(* Nothing is said of what a node holds or how tries are built.            *)
(*   - a node carries the epoch it was made in; a Writer owns the nodes of *)
(*     its epoch, and draws a new one from a counter after each Freeze;    *)
(*   - a transaction freezes its Writer before others get what it has      *)
(*     built: readers that keep row sets, the published version, and the   *)
(*     next user of the pooled write state;                                *)
(*   - the nodes of combinations have epoch 0 and are nobody's.            *)
(* A set of nodes stands for all the tries that a version or a row set     *)
(* refers to.  Nodes nobody refers to may go at any step.                  *)
(***************************************************************************)
EXTENDS Naturals

CONSTANT DB

VARIABLES
    node,    \* the nodes there are: node -> a record with its epoch
    drawn,   \* epochCounter
    writer,  \* the epoch of each database's writer, 0 when frozen
    root,    \* the nodes of the published version of each database
    cur,     \* those of its write transaction
    open,    \* the databases with a write transaction
    kept     \* what readers keep: their nodes as they were

evars == <<node, drawn, writer, root, cur, open, kept>>

EpochOf(d) == IF writer[d] = 0 THEN drawn + 1 ELSE writer[d]

Old == DOMAIN node
New == DOMAIN node' \ DOMAIN node

\* Only nodes of epoch e are changed, and they keep it.
Changed(e) ==
    \A n \in Old \cap DOMAIN node' :
        node'[n] # node[n] => node[n].epoch = e /\ node'[n].epoch = e

\* New nodes are made in epoch e.
Made(e) == \A n \in New : node'[n].epoch = e

Unchanged == \A n \in Old \cap DOMAIN node' : node'[n] = node[n]

\* The garbage collector leaves what is referred to.
Collected ==
    /\ \A d \in DB : root'[d] \cup cur'[d] \subseteq DOMAIN node'
    /\ \A s \in kept' : DOMAIN s \subseteq DOMAIN node'

----------------------------------------------------------------------------
Begin(d) ==
    /\ d \notin open
    /\ open' = open \cup {d}
    /\ cur' = [cur EXCEPT ![d] = root[d]]
    /\ Unchanged /\ New = {}
    /\ UNCHANGED <<drawn, writer, root, kept>>

\* The transaction goes on with some of nodes.
Becomes(d, nodes) ==
    /\ cur'[d] \subseteq nodes
    /\ cur' = [cur EXCEPT ![d] = cur'[d]]

\* Set and Clear of a Writer, any number of them.
Write(d) ==
    /\ d \in open
    /\ writer' = [writer EXCEPT ![d] = EpochOf(d)]
    /\ drawn' = IF writer[d] = 0 THEN drawn + 1 ELSE drawn
    /\ Changed(EpochOf(d)) /\ Made(EpochOf(d))
    /\ Becomes(d, cur[d] \cup New)
    /\ UNCHANGED <<root, open, kept>>

\* Clear, where it empties tries and needs no node.
Empties(d) ==
    /\ d \in open
    /\ UNCHANGED <<drawn, writer, open>>
    /\ Unchanged /\ New = {}
    /\ Becomes(d, cur[d])
    /\ UNCHANGED <<root, kept>>

\* writeState.release at the end of Commit and Abort.
Release(d) ==
    /\ open' = open \ {d}
    /\ writer' = [writer EXCEPT ![d] = 0]
    /\ Unchanged /\ New = {}
    /\ cur' = [cur EXCEPT ![d] = {}]
    /\ UNCHANGED <<drawn, kept>>

Commit(d) == d \in open /\ Release(d) /\ root' = [root EXCEPT ![d] = cur[d]]
Abort(d)  == d \in open /\ Release(d) /\ UNCHANGED root

\* MemDB.Snapshot.
Clone(d, new) ==
    /\ new \notin open
    /\ UNCHANGED <<drawn, writer, open>>
    /\ Unchanged /\ New = {}
    /\ root' = [root EXCEPT ![new] = root[d]]
    /\ UNCHANGED <<cur, kept>>

\* A reader keeps nodes of from, and new ones that And, Or or AndNot made.
Keeps(from) ==
    /\ UNCHANGED <<drawn, open>>
    /\ Unchanged /\ Made(0)
    /\ \E s \in kept' : /\ kept' = kept \cup {s}
                       /\ DOMAIN s \subseteq from \cup New
                       /\ s = [n \in DOMAIN s |-> node'[n]]
    /\ UNCHANGED <<root, cur>>

\* Where and AllRows of a read transaction, which is of a published version.
Read(d) == UNCHANGED writer /\ Keeps(root[d])

\* Where and AllRows of a write transaction, and Txn.Snapshot: freezeRows.
Take(d) == d \in open /\ writer' = [writer EXCEPT ![d] = 0] /\ Keeps(cur[d])

\* RowSet.And, Or and AndNot.
Combine(s, t) == UNCHANGED writer /\ Keeps(DOMAIN s \cup DOMAIN t)

----------------------------------------------------------------------------
\* All databases start from the same version, whose writer has been released.
Init ==
    /\ drawn \in Nat
    /\ \A n \in DOMAIN node : node[n].epoch \in 0..drawn
    /\ writer = [d \in DB |-> 0]
    /\ root \in [DB -> SUBSET DOMAIN node]
    /\ cur = [d \in DB |-> {}]
    /\ open = {}
    /\ kept = {}

Next ==
    /\ \/ \E d \in DB : \/ Begin(d) \/ Write(d) \/ Empties(d) \/ Commit(d) \/ Abort(d)
                        \/ Read(d) \/ Take(d)
       \/ \E d, new \in DB : Clone(d, new)
       \/ \E s, t \in kept : Combine(s, t)
    /\ Collected

Spec == Init /\ [][Next]_evars

----------------------------------------------------------------------------
(* Properties.                                                             *)

\* The nodes that somebody else than d's transaction can see.
Shared(d) ==
    UNION ({root[e] : e \in DB} \cup {cur[e] : e \in DB \ {d}} \cup {DOMAIN s : s \in kept})

\* What a reader keeps, it sees unchanged.
Stable ==
    \A s \in kept : \A n \in DOMAIN s : n \in DOMAIN node /\ node[n] = s[n]

\* A node that a step changes belongs to a write transaction, and nobody else
\* can see it.
ChangesPrivate ==
    [][\A n \in Old \cap DOMAIN node' :
          node'[n] # node[n] => \E d \in open : n \notin Shared(d)]_evars
=============================================================================
