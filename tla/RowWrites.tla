----------------------------- MODULE RowWrites -----------------------------
(***************************************************************************)
(* The writes of a transaction on one table (txn.go, bitmap_index.go): the *)
(* primary index, the secondary indexes, the bitmap indexes with their row *)
(* ids, and the list of changes.  Tables do not interact within a          *)
(* transaction, and the writer lock keeps everyone else away, so one table *)
(* and one writer show it all.                                             *)
(*                                                                         *)
(* Objects, primary keys and index values are model values; what an indexer*)
(* does with an object is the constant vals, an indexer error the constant *)
(* fails.  Keys have no order here, so a scan visits its entries in any    *)
(* order.  A key of a non-unique index ends with the primary key.          *)
(* Bounds: MaxOps calls, and IdSpace row ids where the code has 2^32.      *)
(***************************************************************************)
EXTENDS Naturals, Sequences, FiniteSets

CONSTANTS Pk, Obj, Val, NoObj,
          Sec,          \* the secondary indexes
          Bm,           \* the bitmap indexes
          Unique,       \* the secondary indexes that are unique
          AllowMissing, \* the indexes an object may have no value in
          pkOf,         \* [Obj -> Pk]
          vals,         \* [Sec \cup Bm -> [Obj -> Seq(Val)]]
          fails,        \* the pairs <<index, object>> whose indexer errs
          AllQuery,     \* what DeleteAll is called with
          PrefixQuery,  \* what DeletePrefix is called with
          IdSpace, NoId, MaxOps

Id      == 0..(IdSpace - 1)
MaybeObj == Obj \cup {NoObj}
Key     == {<<v>> : v \in Val} \cup (Val \X Pk)
Index   == Sec \cup {"id"}

ASSUME ObjAssumption == NoObj \notin Obj /\ pkOf \in [Obj -> Pk]
ASSUME IndexAssumption ==
    /\ Sec \cap Bm = {}
    /\ {"id", "none"} \cap (Sec \cup Bm) = {}
    /\ Unique \subseteq Sec
    /\ AllowMissing \subseteq Sec \cup Bm
    /\ vals \in [Sec \cup Bm -> [Obj -> Seq(Val)]]
    /\ fails \subseteq (Sec \cup Bm) \X Obj
ASSUME IdAssumption == IdSpace \in Nat \ {0} /\ NoId \notin Nat /\ MaxOps \in Nat
\* scan is what the iterator over the index yields, cut what the subtree
\* operation removes: DeletePrefix cuts at the raw prefix string, not at the
\* key the indexer makes of it.
ASSUME QueryAssumption ==
    \A q \in AllQuery \cup PrefixQuery :
                     /\ q.index \in Index
                     /\ q.scan \subseteq Val \cup Pk
                     /\ q.cut \subseteq Val \cup Pk

VARIABLES
    root,      \* the committed table
    tab,       \* the table as the transaction sees it
    tracking,  \* whether Txn.changes is not nil
    log,       \* Txn.changes
    pc,        \* "idle", "open", or the loop that is running, or "panic"
    query,     \* the query of that loop
    todo,      \* the entries <<key, object>> it has still to visit
    result,    \* what the last call returned
    trackRows, \* ghost: the rows when tracking began
    ops

vars == <<root, tab, tracking, log, pc, query, todo, result, trackRows, ops>>

----------------------------------------------------------------------------
(* Keys. *)

Elems(s) == {s[j] : j \in DOMAIN s}

\* The keys of object o in secondary index i.
Keys(i, o) ==
    [j \in DOMAIN vals[i][o] |->
        IF i \in Unique THEN <<vals[i][o][j]>> ELSE <<vals[i][o][j], pkOf[o]>>]

KeysOf(i, o) == IF o = NoObj THEN <<>> ELSE Keys(i, o)
ValsOf(b, o) == IF o = NoObj THEN {} ELSE Elems(vals[b][o])

\* Whether every indexer makes keys of o, or may go without.
Indexable(o) ==
    \A i \in Sec \cup Bm : /\ <<i, o>> \notin fails
                           /\ vals[i][o] # <<>> \/ i \in AllowMissing

----------------------------------------------------------------------------
(* One secondary index, one row. *)

\* Mutant of Gone: the old keys beyond the last new one are forgotten.
GoneInRange(new, old) ==
    {old[j] : j \in {k \in DOMAIN old : k <= Len(new) /\ new[k] # old[k]}}

\* Old and new keys are compared position by position: an old key that is not
\* the new one of its position is deleted first, then the new ones are written.
Gone(new, old) ==
    {old[j] : j \in {k \in DOMAIN old : k > Len(new) \/ new[k] # old[k]}}

\* Mutant of Moved: the deletions come after the writes.
MovedWriteFirst(f, new, old, o) ==
    [k \in Key |-> IF k \in Gone(new, old) THEN NoObj
                   ELSE IF k \in Elems(new) THEN o
                   ELSE f[k]]

Moved(f, new, old, o) ==
    [k \in Key |-> IF k \in Elems(new) THEN o
                   ELSE IF k \in Gone(new, old) THEN NoObj
                   ELSE f[k]]

\* o takes the place of e in the secondary indexes other than skip.
Reindexed(entry, o, e, skip) ==
    [i \in Sec |-> IF i = skip THEN entry[i]
                   ELSE Moved(entry[i], KeysOf(i, o), KeysOf(i, e), o)]

----------------------------------------------------------------------------
(* Bitmap indexes. *)

SetMin(S) == CHOOSE m \in S : \A n \in S : m <= n

\* Mutant of RowId: without a free id the map is asked, for a new row too.
RowIdFromMap(t, e, p) ==
    IF e = NoObj /\ t.free # {} THEN SetMin(t.free) ELSE t.ids[p]

\* The row id of a write: that of the row, or a free one, or the next.
RowId(t, e, p) ==
    IF e # NoObj THEN t.ids[p]
    ELSE IF t.free # {} THEN SetMin(t.free)
    ELSE t.next

\* There is no id for one more row.
Exhausted(t) == t.free = {} /\ (t.next + 1) % IdSpace = 0

\* An existing row must have an id, and the ids must not run out.
BitmapPanic(t, e, p) ==
    /\ Bm # {}
    /\ \/ e # NoObj /\ t.ids[p] = NoId
       \/ e = NoObj /\ Exhausted(t)

\* Mutants of Renumbered: a free id that is used again stays free; an update
\* loses the id of its row.
RenumberedStaysFree(t, o, e, p, id) ==
    [t EXCEPT
        !.ids  = [@ EXCEPT ![p] = IF o = NoObj THEN NoId ELSE id],
        !.all  = IF o = NoObj THEN @ \ {id} ELSE @ \cup {id},
        !.free = IF o = NoObj THEN @ \cup {id} ELSE @,
        !.next = IF e = NoObj /\ t.free = {} THEN (@ + 1) % IdSpace ELSE @,
        !.at   = [@ EXCEPT ![id] = o]]

RenumberedForgets(t, o, e, p, id) ==
    [t EXCEPT
        !.ids  = [@ EXCEPT ![p] = IF e # NoObj THEN NoId ELSE id],
        !.all  = IF o = NoObj THEN @ \ {id} ELSE @ \cup {id},
        !.free = IF o = NoObj THEN @ \cup {id} ELSE @ \ {id},
        !.next = IF e = NoObj /\ t.free = {} THEN (@ + 1) % IdSpace ELSE @,
        !.at   = [@ EXCEPT ![id] = o]]

\* The ids: a delete gives one back, an insert takes one.
Renumbered(t, o, e, p, id) ==
    [t EXCEPT
        !.ids  = [@ EXCEPT ![p] = IF o = NoObj THEN NoId ELSE id],
        !.all  = IF o = NoObj THEN @ \ {id} ELSE @ \cup {id},
        !.free = IF o = NoObj THEN @ \cup {id} ELSE @ \ {id},
        !.next = IF e = NoObj /\ t.free = {} THEN (@ + 1) % IdSpace ELSE @,
        !.at   = [@ EXCEPT ![id] = o]]

\* applyBitmaps: o takes the place of e under primary key p.  A panic leaves
\* the bitmaps behind and unwinds the caller, which ends the model, so that the
\* counter, which has wrapped by then in the code, stays.
Rebitted(t, o, e, p) ==
    LET id == RowId(t, e, p)
    IN  IF Bm = {} \/ BitmapPanic(t, e, p) THEN t
        ELSE [Renumbered(t, o, e, p, id) EXCEPT
                !.bits = [b \in Bm |-> [v \in Val |->
                    IF v \in ValsOf(b, e) \ ValsOf(b, o) THEN @[b][v] \ {id}
                    ELSE IF v \in ValsOf(b, o) \ ValsOf(b, e) THEN @[b][v] \cup {id}
                    ELSE @[b][v]]]]

----------------------------------------------------------------------------
(* Changes. *)

Change(p, before, after) == [pk |-> p, before |-> before, after |-> after]
Logged(c) == IF tracking THEN Append(log, c) ELSE log

\* The positions that stay: the last of each object, unless it came and went.
LastOf(cs) ==
    {j \in DOMAIN cs : \A m \in DOMAIN cs : cs[m].pk = cs[j].pk => m <= j}
FirstBefore(cs, p) == cs[SetMin({j \in DOMAIN cs : cs[j].pk = p})].before

\* Mutant of Kept: an object that came and went is reported.
KeptAll(cs) == LastOf(cs)

Kept(cs) ==
    {j \in LastOf(cs) : FirstBefore(cs, cs[j].pk) # NoObj \/ cs[j].after # NoObj}

\* The list a call of Changes returns.  A list without repetition is returned
\* as it is.
Collapsed(cs) ==
    IF LastOf(cs) = DOMAIN cs THEN cs
    ELSE LET place(n) == CHOOSE j \in Kept(cs) :
                            Cardinality({m \in Kept(cs) : m <= j}) = n
         IN  [n \in 1..Cardinality(Kept(cs)) |->
                 LET c == cs[place(n)] IN [c EXCEPT !.before = FirstBefore(cs, c.pk)]]

----------------------------------------------------------------------------
Empty ==
    [rows  |-> [p \in Pk |-> NoObj],
     entry |-> [i \in Sec |-> [k \in Key |-> NoObj]],
     ids   |-> [p \in Pk |-> NoId],
     all   |-> {},
     free  |-> {},
     next  |-> 0,
     at    |-> [n \in Id |-> NoObj],
     bits  |-> [b \in Bm |-> [v \in Val |-> {}]]]

NoQuery == [index |-> "id", scan |-> {}, cut |-> {}]

Init ==
    /\ root = Empty
    /\ tab = Empty
    /\ tracking = FALSE
    /\ log = <<>>
    /\ pc = "idle"
    /\ query = NoQuery
    /\ todo = {}
    /\ result = "none"
    /\ trackRows = Empty.rows
    /\ ops = 0

\* A call the transaction is ready for.
Call ==
    /\ pc = "open"
    /\ ops < MaxOps
    /\ ops' = ops + 1

----------------------------------------------------------------------------
(* Insert and Delete. *)

Begin ==
    /\ pc = "idle"
    /\ ops < MaxOps
    /\ pc' = "open"
    /\ tab' = root
    /\ tracking' = FALSE
    /\ log' = <<>>
    /\ result' = "none"
    /\ trackRows' = root.rows
    /\ UNCHANGED <<root, query, todo, ops>>

\* The row is stored under its primary key first, then moved in the secondary
\* indexes, then in the bitmap indexes.
Insert(o) ==
    LET p == pkOf[o]
        e == tab.rows[p]
        stored == [tab EXCEPT !.rows  = [@ EXCEPT ![p] = o],
                              !.entry = Reindexed(@, o, e, "none")]
    IN  /\ Call
        /\ Indexable(o)
        /\ tab' = Rebitted(stored, o, e, p)
        /\ pc' = IF BitmapPanic(tab, e, p) THEN "panic" ELSE "open"
        /\ log' = IF pc' = "panic" THEN log ELSE Logged(Change(p, e, o))
        /\ result' = "ok"
        /\ UNCHANGED <<root, tracking, query, todo, trackRows>>

\* Some indexer makes no keys: the write to the primary index is undone, by
\* storing the old row back or by deleting the new one.
InsertFails(o) ==
    LET p == pkOf[o]
        stored == [tab.rows EXCEPT ![p] = o]
    IN  /\ Call
        /\ ~Indexable(o)
        /\ tab' = [tab EXCEPT !.rows = [stored EXCEPT ![p] = tab.rows[p]]]
        /\ result' = "error"
        /\ UNCHANGED <<root, tracking, log, pc, query, todo, trackRows>>

\* Mutants of Dropped: the test for the index to skip is inverted; an index to
\* skip keeps the row in all of them.
DroppedInverted(t, e, target) ==
    LET p == pkOf[e]
    IN  Rebitted([t EXCEPT
                    !.rows  = IF target = "id" THEN @ ELSE [@ EXCEPT ![p] = NoObj],
                    !.entry = [i \in Sec |-> Reindexed(@, NoObj, e,
                                     IF i = target THEN "none" ELSE i)[i]]],
                 NoObj, e, p)

DroppedPrimaryOnly(t, e, target) ==
    LET p == pkOf[e]
    IN  Rebitted([t EXCEPT
                    !.rows  = IF target = "id" THEN @ ELSE [@ EXCEPT ![p] = NoObj],
                    !.entry = IF target = "none" THEN Reindexed(@, NoObj, e, target)
                              ELSE @],
                 NoObj, e, p)

\* deleteFromIndexes: row e leaves the bitmap indexes and the secondary indexes
\* other than target.  It leaves the primary index unless that is the target.
\* Its error path is out of reach: the row was stored, so its indexers made keys
\* of it, and they make the same of it again.
Dropped(t, e, target) ==
    LET p == pkOf[e]
    IN  Rebitted([t EXCEPT
                    !.rows  = IF target = "id" THEN @ ELSE [@ EXCEPT ![p] = NoObj],
                    !.entry = Reindexed(@, NoObj, e, target)],
                 NoObj, e, p)

\* A call of Delete for primary key p, and what the transaction does after it.
DeleteRow(p, next, rest) ==
    LET e == tab.rows[p]
    IN  IF e = NoObj
        THEN /\ result' = "notfound"
             /\ pc' = "open"
             /\ todo' = {}
             /\ UNCHANGED <<tab, log>>
        ELSE /\ tab' = Dropped(tab, e, "none")
             /\ pc' = IF BitmapPanic(tab, e, p) THEN "panic" ELSE next
             /\ log' = IF pc' = "panic" THEN log ELSE Logged(Change(p, e, NoObj))
             /\ result' = "ok"
             /\ todo' = rest

Delete(p) ==
    /\ Call
    /\ DeleteRow(p, "open", {})
    /\ UNCHANGED <<root, tracking, query, trackRows>>

----------------------------------------------------------------------------
(* DeleteAll and DeletePrefix: loops over an iterator, which shows the index *)
(* as it was when the loop began.                                            *)

Entries(t, i, S) ==
    IF i = "id" THEN {<<<<p>>, t.rows[p]>> : p \in {x \in S \cap Pk : t.rows[x] # NoObj}}
    ELSE {<<k, t.entry[i][k]>> : k \in {x \in Key : x[1] \in S /\ t.entry[i][x] # NoObj}}

Start(q, loop) ==
    /\ Call
    /\ query' = q
    /\ todo' = Entries(tab, q.index, q.scan)
    /\ pc' = loop
    /\ result' = "none"
    /\ UNCHANGED <<root, tab, tracking, log, trackRows>>

DeleteAll(q) == Start(q, "deleteAll")

\* The first Delete that fails ends the loop.
DeleteAllRow ==
    /\ pc = "deleteAll"
    /\ \E e \in todo : DeleteRow(pkOf[e[2]], "deleteAll", todo \ {e})
    /\ UNCHANGED <<root, tracking, query, trackRows, ops>>

DeleteAllReturns ==
    /\ pc = "deleteAll"
    /\ todo = {}
    /\ pc' = "open"
    /\ result' = "ok"
    /\ query' = NoQuery
    /\ UNCHANGED <<root, tab, tracking, log, todo, trackRows, ops>>

DeletePrefix(q) == Start(q, "deletePrefix")

\* Every row the iterator yields leaves all indexes but the target.  It is
\* recorded if the primary index still has it.
DeletePrefixRow ==
    /\ pc = "deletePrefix"
    /\ \E e \in todo :
          LET o == e[2]
              p == pkOf[o]
          IN  /\ todo' = todo \ {e}
              /\ log' = IF tab.rows[p] # NoObj
                        THEN Logged(Change(p, tab.rows[p], NoObj)) ELSE log
              /\ tab' = Dropped(tab, o, query.index)
              /\ pc' = IF BitmapPanic(tab, o, p) THEN "panic" ELSE "deletePrefix"
    /\ result' = "found"
    /\ UNCHANGED <<root, tracking, query, trackRows, ops>>

\* The target loses what the raw prefix matches.
Cut(t, i, S) ==
    IF i = "id"
    THEN [t EXCEPT !.rows = [p \in Pk |-> IF p \in S THEN NoObj ELSE @[p]]]
    ELSE [t EXCEPT !.entry[i] = [k \in Key |-> IF k[1] \in S THEN NoObj ELSE @[k]]]

\* The loop found rows: the subtree is cut, and there has to be one.
DeletePrefixCut ==
    LET matched == Entries(tab, query.index, query.cut) # {}
    IN  /\ pc = "deletePrefix"
        /\ todo = {}
        /\ result = "found"
        /\ tab' = Cut(tab, query.index, query.cut)
        /\ pc' = IF matched THEN "open" ELSE "panic"
        /\ result' = IF matched THEN "ok" ELSE "mismatch"
        /\ query' = NoQuery
        /\ UNCHANGED <<root, tracking, log, todo, trackRows, ops>>

DeletePrefixFindsNone ==
    /\ pc = "deletePrefix"
    /\ todo = {}
    /\ result = "none"
    /\ pc' = "open"
    /\ query' = NoQuery
    /\ UNCHANGED <<root, tab, tracking, log, todo, result, trackRows, ops>>

----------------------------------------------------------------------------
(* Changes, and the end of the transaction. *)

TrackChanges ==
    /\ Call
    /\ tracking' = TRUE
    /\ trackRows' = IF tracking THEN trackRows ELSE tab.rows
    /\ UNCHANGED <<root, tab, log, pc, query, todo, result>>

\* Changes keeps the collapsed list, to which later writes append.
Changes ==
    /\ pc \in {"open", "idle"}
    /\ tracking
    /\ log' = Collapsed(log)
    /\ UNCHANGED <<root, tab, tracking, pc, query, todo, result, trackRows, ops>>

\* The list of changes survives the commit.
Commit ==
    /\ pc = "open"
    /\ root' = tab
    /\ pc' = "idle"
    /\ UNCHANGED <<tab, tracking, log, query, todo, result, trackRows, ops>>

Abort ==
    /\ pc = "open"
    /\ tab' = root
    /\ tracking' = FALSE
    /\ log' = <<>>
    /\ pc' = "idle"
    /\ UNCHANGED <<root, query, todo, result, trackRows, ops>>

\* The calls are used up, or a panic has unwound the transaction.
Done ==
    /\ pc = "panic" \/ (pc = "idle" /\ ops = MaxOps)
    /\ UNCHANGED vars

Next ==
    \/ Begin
    \/ \E o \in Obj : Insert(o) \/ InsertFails(o)
    \/ \E p \in Pk : Delete(p)
    \/ \E q \in AllQuery : DeleteAll(q)
    \/ \E q \in PrefixQuery : DeletePrefix(q)
    \/ DeleteAllRow \/ DeleteAllReturns
    \/ DeletePrefixRow \/ DeletePrefixCut \/ DeletePrefixFindsNone
    \/ TrackChanges \/ Changes
    \/ Commit \/ Abort
    \/ Done

Spec == Init /\ [][Next]_vars

----------------------------------------------------------------------------
Table ==
    [rows  : [Pk -> MaybeObj],
     entry : [Sec -> [Key -> MaybeObj]],
     ids   : [Pk -> Id \cup {NoId}],
     all   : SUBSET Id,
     free  : SUBSET Id,
     next  : Id,
     at    : [Id -> MaybeObj],
     bits  : [Bm -> [Val -> SUBSET Id]]]

TypeOK ==
    /\ root \in Table
    /\ tab \in Table
    /\ tracking \in BOOLEAN
    /\ log \in Seq([pk : Pk, before : MaybeObj, after : MaybeObj])
    /\ pc \in {"idle", "open", "deleteAll", "deletePrefix", "panic"}
    /\ query \in AllQuery \cup PrefixQuery \cup {NoQuery}
    /\ \A e \in todo : e[2] \in Obj
    /\ result \in {"none", "found", "ok", "error", "notfound", "mismatch"}
    /\ trackRows \in [Pk -> MaybeObj]
    /\ ops \in 0..MaxOps

\* Between two calls.
AtRest == pc \in {"idle", "open"}

\* No index entry is left behind: each refers to the row stored under its
\* primary key, at a key that row has.  Insert compares the keys of the row it
\* replaces position by position (txn.go:393-414), an unsuccessful one undoes its
\* first write (366-380), and deletes build the keys of the stored row.
IndexSound ==
    AtRest => \A i \in Sec, k \in Key :
        LET o == tab.entry[i][k]
        IN  o # NoObj => tab.rows[pkOf[o]] = o /\ k \in Elems(Keys(i, o))

\* Every row is found through each of its keys in every index that is not
\* unique.  (A unique secondary index does not reject duplicates: the last write
\* wins, and deleting its row deletes the key of the other one too.)
IndexComplete ==
    AtRest => \A i \in Sec \ Unique, p \in Pk :
        \A k \in Elems(KeysOf(i, tab.rows[p])) : tab.entry[i][k] = tab.rows[p]

\* The bitmap bookkeeping agrees with the table (bitmap_index.go:267-347): every
\* row has an id of its own, a bitmap holds the ids of the rows with its value,
\* and the ids handed out so far are in use or free.
RowIdsExact ==
    AtRest /\ Bm # {} =>
        LET present == {p \in Pk : tab.rows[p] # NoObj}
        IN  /\ \A p \in Pk : p \in present <=> tab.ids[p] # NoId
            /\ \A p, q \in present : p # q => tab.ids[p] # tab.ids[q]
            /\ tab.all = {tab.ids[p] : p \in present}
            /\ tab.all \cap tab.free = {}
            /\ tab.all \cup tab.free = {n \in Id : n < tab.next}
            /\ \A p \in present : tab.at[tab.ids[p]] = tab.rows[p]
            /\ \A n \in Id \ tab.all : tab.at[n] = NoObj
            /\ \A b \in Bm, v \in Val : tab.bits[b][v] =
                  {tab.ids[p] : p \in {x \in present : v \in ValsOf(b, tab.rows[x])}}

\* Changes returns the net effect since tracking began (txn.go:953-1032), whether
\* the list was collapsed before and appended to since: one change per object,
\* from its row then to its row now, none for an object that came and went.
ChangesAreNet ==
    AtRest /\ tracking =>
        LET cs == Collapsed(log)
        IN  /\ \A j \in DOMAIN cs : /\ cs[j].before = trackRows[cs[j].pk]
                                    /\ cs[j].after = tab.rows[cs[j].pk]
                                    /\ cs[j].before # NoObj \/ cs[j].after # NoObj
            /\ \A j, m \in DOMAIN cs : cs[j].pk = cs[m].pk => j = m
            /\ \A p \in Pk : tab.rows[p] # trackRows[p] =>
                  \E j \in DOMAIN cs : cs[j].pk = p

\* A call panics for two reasons only: the row ids have run out, or the raw
\* prefix cuts nothing though the indexer's key found rows.  In particular a row
\* that is there always has a row id (bitmap_index.go:274-277, txn.go:570-575).
NoPanic == pc = "panic" => Exhausted(tab) \/ result = "mismatch"

\* When DeleteAll returns, nothing matches its query any more (txn.go:581-615).
DeleteAllDeletesAll ==
    [][pc = "deleteAll" /\ pc' = "open"
         => Entries(tab', query.index, query.scan) = {}]_vars

\* When DeletePrefix returns, the rows it found are gone, and no entry of any
\* index refers to a row that is gone (txn.go:512-515).
DeletePrefixDeletesRows ==
    [][pc = "deletePrefix" /\ pc' = "open" =>
          /\ \A e \in Entries(tab, query.index, query.scan) :
                 tab'.rows[pkOf[e[2]]] = NoObj
          /\ \A i \in Sec, k \in Key : tab'.entry[i][k] # NoObj =>
                 tab'.rows[pkOf[tab'.entry[i][k]]] # NoObj]_vars
============================================================================
