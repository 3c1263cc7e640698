---------------------- MODULE DocumentExtractionProofs ----------------------
(* Theorems about DocumentExtraction.                                      *)
EXTENDS DocumentExtraction, TLAPS

-----------------------------------------------------------------------------
(* Inductive invariants.                                                   *)

(* A transaction is made from a payment its file lists.                    *)
Real(t) == t.item \in 1 .. Len(Items[t.file]) /\ Payment(t) \in Payments

(* A worker handles a document that exists or did, and has a transaction   *)
(* open while it stores the items, only then.                              *)
WorkerTied(u) ==
    /\ worker[u].pc # "idle" =>
         worker[u].doc \in Docs /\ doc[worker[u].doc].status # "absent"
    /\ worker[u].pc \in {"reference", "asked", "persisting", "recompute"}
         => worker[u].file \in Files
    /\ worker[u].pc # "persisting" => tx[u] = NoTx

(* It makes its transactions from the document it handles.                 *)
TxTied(u) ==
    /\ tx[u].item >= 1
    /\ tx[u].marked \subseteq tx[u].made
    /\ tx[u].changed \subseteq tx[u].made
    /\ \A t \in tx[u].made : /\ Real(t)
                             /\ t.doc = worker[u].doc
                             /\ t.file = worker[u].file

RowsKnown ==
    /\ \A d \in Docs : doc[d].status # "absent" => doc[d].file \in Files
    /\ \A t \in txns : Real(t) /\ doc[t.doc].status # "absent"

TypeInv ==
    /\ TypeOK
    /\ RowsKnown
    /\ \A u \in Users : WorkerTied(u) /\ TxTied(u)

(* No two workers make one transaction, nor replaces one what another has  *)
(* not committed.                                                          *)
Apart == \A u \in Users :
    /\ tx[u].made \intersect txns = {}
    /\ \A v \in Users \ {u} : tx[u].made \intersect (tx[v].made \union tx[v].replaced) = {}

(* What is recorded twice, counting what a worker has not committed, was   *)
(* marked for a review, not compared by that worker, or made by it beside  *)
(* a row that had been changed.                                            *)
Excused(u) == doubtful \union {Payment(t) : t \in tx[u].marked}
                       \union {Payment(t) : t \in MadeUnnamed(u)}

Beside(u, t, s) == t \in tx[u].made /\ s \in Changed(u)

OnceForEach == \A u \in Users : \A t1, t2 \in Visible(u) :
    t1 # t2 /\ Payment(t1) = Payment(t2)
    => Payment(t1) \in Excused(u) \/ Beside(u, t1, t2) \/ Beside(u, t2, t1)

OnceInv == Apart /\ RecordedOnce /\ OnceForEach

(* What is being read is not paid from escrow.                             *)
ReadIsBilled == \A u \in Users :
    worker[u].pc \in {"asked", "persisting"} => ~ doc[worker[u].doc].escrow

EscrowInv == EscrowIsNotBilled /\ ReadIsBilled

(* What is replaced comes from another file, and is made anew.             *)
Replacing == \A u \in Users : \A s \in tx[u].replaced :
    /\ s.file # worker[u].file
    /\ \E t \in tx[u].made : Payment(t) = Payment(s)

IsMade(u, p) == \E t \in tx[u].made : Payment(t) = p

(* Dropped, and recorded by a transaction that nobody may delete now.      *)
IsDropped(u, p) ==
    /\ \E l \in tx[u].linked : l[1] \notin tx[u].made /\ Payment(l[1]) = p
    /\ \E t \in Visible(u) : Payment(t) = p

Covering == \A u \in Users : \A i \in 1 .. (tx[u].item - 1) :
    LET p == Items[worker[u].file][i] IN
      p # Unpriced => IsMade(u, p) \/ IsDropped(u, p)

DropInv == Apart /\ Replacing /\ Covering

-----------------------------------------------------------------------------
(* What storing an item may do.                                            *)

(* The transaction of u is rolled back.                                    *)
Raised(u) ==
    /\ tx' = [tx EXCEPT ![u] = NoTx]
    /\ \E transient \in BOOLEAN :
         worker' = [worker EXCEPT ![u] = [@ EXCEPT !.pc = "failing", !.transient = transient]]

ThisPayment(u) == Items[worker[u].file][tx[u].item]

(* It goes on to the next item.                                            *)
GoesOn(u) ==
    /\ worker' = worker
    /\ tx' \in [Users -> TxType]
    /\ \A v \in Users \ {u} : tx'[v] = tx[v]
    /\ tx'[u].item = tx[u].item + 1

Kept(u) ==
    /\ tx'[u].made = tx[u].made
    /\ tx'[u].marked = tx[u].marked
    /\ tx'[u].changed = tx[u].changed
    /\ tx'[u].replaced = tx[u].replaced

Unlisted(u) == ThisPayment(u) = Unpriced /\ Kept(u) /\ tx'[u].linked = tx[u].linked

Skipped(u) ==
    /\ Kept(u)
    /\ \E t \in Visible(u) :
         /\ Payment(t) = ThisPayment(u)
         /\ tx'[u].linked = tx[u].linked \union {<<t, worker[u].doc>>}

(* The transaction t is made.                                              *)
Makes(u, t) ==
    /\ t \in TxnIds /\ t \notin KnownIds
    /\ t.doc = worker[u].doc /\ t.file = worker[u].file /\ t.item = tx[u].item
    /\ tx'[u].made = tx[u].made \union {t}
    /\ tx[u].changed \subseteq tx'[u].changed
    /\ tx'[u].changed \subseteq tx[u].changed \union {t}
    /\ \A l \in tx'[u].linked : l \in tx[u].linked \/ l[1] = t
    /\ tx[u].linked \subseteq tx'[u].linked

(* Whatever is like the item has been changed.                             *)
NoneLike(u) == \/ worker[u].file \in Unnamed
               \/ Candidates(u, ThisPayment(u)) \subseteq Changed(u)

Creates(u, t) ==
    /\ Makes(u, t)
    /\ NoneLike(u)
    /\ tx'[u].marked = tx[u].marked
    /\ tx'[u].replaced = tx[u].replaced

Marks(u, t) ==
    /\ Makes(u, t)
    /\ tx'[u].marked = tx[u].marked \union {t}
    /\ tx'[u].replaced = tx[u].replaced

Replaces(u, t, s) ==
    /\ Makes(u, t)
    /\ s \in Visible(u)
    /\ Payment(s) = ThisPayment(u)
    /\ s.file # worker[u].file
    /\ \A t0 \in Candidates(u, ThisPayment(u)) :
         t0.file = worker[u].file => t0 \in Changed(u)
    /\ tx'[u].marked = tx[u].marked
    /\ tx'[u].replaced = tx[u].replaced \union {s}

Made(u) ==
    /\ ThisPayment(u) # Unpriced
    /\ \E t \in TxnIds : Creates(u, t) \/ Marks(u, t) \/ \E s \in TxnIds : Replaces(u, t, s)

(* Rolling back and the fields of what is stored are of the right types.   *)
LEMMA RaiseRaises ==
    ASSUME NEW u, NEW transient \in BOOLEAN, Raise(u, transient)
    PROVE  Raised(u)
  BY DEF Raise, Raised

LEMMA NewIdIsNew ==
    ASSUME TypeInv, NEW u \in Users, worker[u].pc = "persisting", NEW t \in NewIds(u)
    PROVE  /\ t \in TxnIds /\ t \notin KnownIds
           /\ t.doc = worker[u].doc /\ t.file = worker[u].file /\ t.item = tx[u].item
  <1>1. t \notin KnownIds
    BY DEF NewIds
  <1>2. PICK n \in 0 .. Cardinality(KnownIds) :
           t = [doc |-> worker[u].doc, file |-> worker[u].file, item |-> tx[u].item, copy |-> n]
    BY DEF NewIds
  <1>3. n \in Nat
    BY <1>2
  <1>4. worker[u].doc \in Docs /\ worker[u].file \in Files /\ tx[u].item \in Nat
    BY DEF TypeInv, TypeOK, WorkerTied, TxType
  <1> QED BY <1>1, <1>2, <1>3, <1>4 DEF TxnIds

(* The record of an open transaction with the fields next and new links.   *)
LEMMA LinkLinks ==
    ASSUME TypeInv, NEW u \in Users, NEW next \in TxType, NEW new \in SUBSET (TxnIds \X Docs),
           next.item = tx[u].item + 1,
           Link(u, new, next)
    PROVE  \/ Raised(u)
           \/ /\ GoesOn(u)
              /\ tx'[u].made = next.made
              /\ tx'[u].marked = next.marked
              /\ tx'[u].changed = next.changed
              /\ tx'[u].replaced = next.replaced
              /\ tx'[u].linked = next.linked \union new
  <1>1. CASE new \intersect (links \union tx[u].linked) = {}
    <2>1. PICK put : put = [next EXCEPT !.linked = @ \union new]
      OBVIOUS
    <2>2. /\ put \in TxType
          /\ put.made = next.made /\ put.marked = next.marked
          /\ put.changed = next.changed
          /\ put.replaced = next.replaced /\ put.item = next.item
          /\ put.linked = next.linked \union new
      BY <2>1 DEF TxType
    <2>3. tx' = [tx EXCEPT ![u] = put] /\ worker' = worker
      BY <1>1, <2>1 DEF Link
    <2>4. tx \in [Users -> TxType]
      BY DEF TypeInv, TypeOK
    <2> QED BY <2>2, <2>3, <2>4 DEF GoesOn
  <1>2. CASE new \intersect (links \union tx[u].linked) # {}
    BY <1>2, RaiseRaises DEF Link
  <1> QED BY <1>1, <1>2

LEMMA TxFields ==
    ASSUME TypeInv, NEW u \in Users
    PROVE  /\ tx[u] \in TxType
           /\ tx[u].item \in Nat
           /\ tx[u].item + 1 \in Nat
           /\ tx[u].made \in SUBSET TxnIds
           /\ tx[u].marked \in SUBSET TxnIds
           /\ tx[u].changed \in SUBSET TxnIds
           /\ tx[u].replaced \in SUBSET TxnIds
           /\ tx[u].linked \in SUBSET (TxnIds \X Docs)
           /\ tx[u].shells \in SUBSET Docs
           /\ tx[u].status \in {"", "completed", "failed", "duplicate"}
           /\ worker[u] \in WorkerType
           /\ Visible(u) \subseteq TxnIds
  <1>1. tx[u] \in TxType /\ worker[u] \in WorkerType /\ txns \subseteq TxnIds
    BY DEF TypeInv, TypeOK
  <1>2. PICK n : n = tx[u].item
    OBVIOUS
  <1>3. n \in Nat
    BY <1>1, <1>2 DEF TxType
  <1>4. n + 1 \in Nat
    BY <1>3
  <1> QED BY <1>1, <1>2, <1>3, <1>4 DEF TxType, Visible

LEMMA MakeItemMakes ==
    ASSUME TypeInv, NEW u \in Users, worker[u].pc = "persisting",
           NEW d \in Docs, NEW replaced \in SUBSET TxnIds,
           NEW t \in NewIds(u), NEW flags \in SUBSET {t}, NEW other \in SUBSET {t},
           NEW new \in SUBSET ({t} \X Docs),
           Link(u, new,
                [tx[u] EXCEPT !.item = @ + 1, !.status = FirstSays(u, "completed"),
                              !.made = @ \union {t}, !.marked = @ \union flags,
                              !.changed = @ \union other,
                              !.replaced = @ \union replaced,
                              !.shells = NewShells(u, d)])
    PROVE  \/ Raised(u)
           \/ /\ GoesOn(u) /\ Makes(u, t)
              /\ tx'[u].marked = tx[u].marked \union flags
              /\ tx'[u].replaced = tx[u].replaced \union replaced
  <1>2. /\ t \in TxnIds /\ t \notin KnownIds
        /\ t.doc = worker[u].doc /\ t.file = worker[u].file /\ t.item = tx[u].item
    BY NewIdIsNew
  <1>4. new \in SUBSET (TxnIds \X Docs) /\ \A l \in new : l[1] = t
    BY <1>2
  <1>6. flags \in SUBSET TxnIds /\ other \in SUBSET TxnIds
    BY <1>2
  <1>7. NewShells(u, d) \in SUBSET Docs
    BY TxFields DEF NewShells
  <1>8. FirstSays(u, "completed") \in {"", "completed", "failed", "duplicate"}
    BY TxFields DEF FirstSays
  <1>9. PICK next : next = [tx[u] EXCEPT !.item = @ + 1, !.status = FirstSays(u, "completed"),
                             !.made = @ \union {t},
                             !.marked = @ \union flags,
                             !.changed = @ \union other,
                             !.replaced = @ \union replaced,
                             !.shells = NewShells(u, d)]
    OBVIOUS
  <1>10. next \in TxType
    <2>1. /\ tx[u].item + 1 \in Nat
          /\ tx[u].made \union {t} \in SUBSET TxnIds
          /\ tx[u].marked \union flags \in SUBSET TxnIds
          /\ tx[u].changed \union other \in SUBSET TxnIds
          /\ tx[u].replaced \union replaced \in SUBSET TxnIds
      <3>1. tx[u].item + 1 \in Nat
        BY TxFields
      <3>2. /\ tx[u].made \subseteq TxnIds /\ tx[u].marked \subseteq TxnIds
            /\ tx[u].replaced \subseteq TxnIds /\ tx[u].changed \subseteq TxnIds
        BY TxFields
      <3> QED BY <1>2, <1>6, <3>1, <3>2
    <2> QED BY <1>7, <1>8, <1>9, <2>1, TxFields DEF TxType
  <1>11. /\ next.item = tx[u].item + 1 /\ next.made = tx[u].made \union {t}
         /\ next.marked = tx[u].marked \union flags
         /\ next.changed = tx[u].changed \union other
         /\ next.replaced = tx[u].replaced \union replaced
         /\ next.linked = tx[u].linked
    BY <1>9, TxFields DEF TxType
  <1>12. Link(u, new, next)
    BY <1>9
  <1>13. \/ Raised(u)
         \/ /\ GoesOn(u)
            /\ tx'[u].made = next.made
            /\ tx'[u].marked = next.marked
            /\ tx'[u].changed = next.changed
            /\ tx'[u].replaced = next.replaced
            /\ tx'[u].linked = next.linked \union new
    BY <1>4, <1>10, <1>11, <1>12, LinkLinks
  <1> QED BY <1>2, <1>4, <1>11, <1>13 DEF Makes

(* What is compared is what it looks like.                                 *)
LEMMA MatchesMatch ==
    ASSUME TypeInv, NEW u \in Users, NEW t \in Matches(u, ThisPayment(u))
    PROVE  t \in Visible(u) /\ t \in TxnIds /\ Payment(t) = ThisPayment(u)
  BY TxFields DEF Matches, Candidates

LEMMA NoMatches ==
    ASSUME NEW u \in Users, Matches(u, ThisPayment(u)) \subseteq Changed(u)
    PROVE  NoneLike(u)
  BY DEF Matches, NoneLike

(* One of another file is compared with only if none of this one is found. *)
LEMMA MatchElsewhere ==
    ASSUME NEW u \in Users, NEW t \in Matches(u, ThisPayment(u)), t.file # worker[u].file,
           NEW t0 \in Candidates(u, ThisPayment(u)), t0.file = worker[u].file
    PROVE  t0 \in Changed(u)
  BY DEF Matches

(* A row is made as it was searched by, or not.                            *)
LEMMA MadeChangedIsMade ==
    ASSUME NEW u, NEW t, NEW replaced, NEW other \in MadeChanged(u, t, replaced)
    PROVE  other \in SUBSET {t}
  BY DEF MadeChanged

(* An item stored, dropped or refused: what becomes of the transaction.    *)
LEMMA PersistItemPersists ==
    ASSUME TypeInv, NEW u \in Users, PersistItem(u)
    PROVE  \/ Raised(u)
           \/ GoesOn(u) /\ (Unlisted(u) \/ Skipped(u) \/ Made(u))
  <1> DEFINE f == worker[u].file
             p == ThisPayment(u)
  <1>1. worker[u].pc = "persisting"
    BY DEF PersistItem
  <1>2. worker[u].doc \in Docs
    BY <1>1 DEF TypeInv, WorkerTied
  <1>3. /\ FirstSays(u, "completed") \in {"", "completed", "failed", "duplicate"}
        /\ FirstSays(u, "duplicate") \in {"", "completed", "failed", "duplicate"}
    BY TxFields DEF FirstSays
  <1>4. CASE p = Unpriced
    <2>1. PICK d \in Docs :
            Link(u, {}, [tx[u] EXCEPT !.item = @ + 1, !.status = FirstSays(u, "completed"),
                                      !.shells = NewShells(u, d)])
      BY <1>4 DEF PersistItem, UnpricedItem, ThisPayment
    <2>2. PICK next : next = [tx[u] EXCEPT !.item = @ + 1, !.status = FirstSays(u, "completed"),
                                           !.shells = NewShells(u, d)]
      OBVIOUS
    <2>3. NewShells(u, d) \in SUBSET Docs
      BY TxFields DEF NewShells
    <2>4. next \in TxType
      BY <1>3, <2>2, <2>3, TxFields DEF TxType
    <2>5. /\ next.item = tx[u].item + 1 /\ next.made = tx[u].made
          /\ next.marked = tx[u].marked /\ next.changed = tx[u].changed
          /\ next.replaced = tx[u].replaced
          /\ next.linked = tx[u].linked
      BY <2>2, TxFields DEF TxType
    <2>6. Link(u, {}, next)
      BY <2>1, <2>2
    <2>6a. {} \in SUBSET (TxnIds \X Docs)
      OBVIOUS
    <2>6b. \/ Raised(u)
           \/ /\ GoesOn(u)
              /\ tx'[u].made = next.made /\ tx'[u].marked = next.marked
              /\ tx'[u].changed = next.changed /\ tx'[u].replaced = next.replaced
              /\ tx'[u].linked = next.linked \union {}
      BY <2>4, <2>5, <2>6, <2>6a, LinkLinks
    <2>7. Raised(u) \/ (GoesOn(u) /\ Kept(u) /\ tx'[u].linked = tx[u].linked \union {})
      BY <2>5, <2>6b DEF Kept
    <2> QED BY <1>4, <2>7 DEF Unlisted
  <1>5. CASE p # Unpriced /\ CreateItem(u)
    <2>1. PICK d \in Docs : MakeItem(u, d, {}, {}, FALSE)
      BY <1>5 DEF CreateItem
    <2>2. PICK t, other : /\ t \in NewIds(u) /\ other \in SUBSET {t}
            /\ Link(u, {<<t, d>>} \union {<<t, e>> : e \in {}},
                 [tx[u] EXCEPT !.item = @ + 1, !.status = FirstSays(u, "completed"),
                               !.made = @ \union {t}, !.marked = @ \union {},
                               !.changed = @ \union other,
                               !.replaced = @ \union {},
                               !.shells = NewShells(u, d)])
      BY <2>1, MadeChangedIsMade DEF MakeItem
    <2>2a. PICK all : all = {<<t, d>>} \union {<<t, e>> : e \in {}}
      OBVIOUS
    <2>2b. all \in SUBSET ({t} \X Docs)
      BY <2>2a
    <2>2c. Link(u, all,
                 [tx[u] EXCEPT !.item = @ + 1, !.status = FirstSays(u, "completed"),
                               !.made = @ \union {t}, !.marked = @ \union {},
                               !.changed = @ \union other,
                               !.replaced = @ \union {},
                               !.shells = NewShells(u, d)])
      BY <2>2, <2>2a
    <2>3. \/ Raised(u)
          \/ /\ GoesOn(u) /\ Makes(u, t)
             /\ tx'[u].marked = tx[u].marked \union {}
             /\ tx'[u].replaced = tx[u].replaced \union {}
      BY <1>1, <2>2b, <2>2c, <2>2, MakeItemMakes
    <2>4. NoneLike(u)
      BY <1>5, NoMatches DEF CreateItem, ThisPayment
    <2> QED BY <1>5, <2>3, <2>4 DEF Made, Creates, Makes
  <1>6. CASE p # Unpriced /\ ~ CreateItem(u)
    <2>1. PICK t \in Matches(u, p) :
            \/ Decision(f, t) = "skip" /\ SkipItem(u, t)
            \/ Decision(f, t) = "replace" /\ ReplaceItem(u, t)
            \/ \E d \in Docs : MakeItem(u, d, {}, {}, TRUE)
      BY <1>6 DEF PersistItem, ThisPayment
    <2>2. t \in Visible(u) /\ t \in TxnIds /\ Payment(t) = p
      BY MatchesMatch
    <2>3. CASE Decision(f, t) = "skip" /\ SkipItem(u, t)
      <3>1. Link(u, {<<t, worker[u].doc>>},
                 [tx[u] EXCEPT !.item = @ + 1, !.status = FirstSays(u, "duplicate")])
        BY <2>3 DEF SkipItem
      <3>2. PICK next : next = [tx[u] EXCEPT !.item = @ + 1, !.status = FirstSays(u, "duplicate")]
        OBVIOUS
      <3>3. next \in TxType
        BY <1>3, <3>2, TxFields DEF TxType
      <3>4. /\ next.item = tx[u].item + 1 /\ next.made = tx[u].made
            /\ next.marked = tx[u].marked /\ next.changed = tx[u].changed
          /\ next.replaced = tx[u].replaced
            /\ next.linked = tx[u].linked
        BY <3>2, TxFields DEF TxType
      <3>5. {<<t, worker[u].doc>>} \in SUBSET (TxnIds \X Docs)
        BY <1>2, <2>2
      <3>6. Link(u, {<<t, worker[u].doc>>}, next)
        BY <3>1, <3>2
      <3>7. \/ Raised(u)
            \/ /\ GoesOn(u) /\ Kept(u)
               /\ tx'[u].linked = tx[u].linked \union {<<t, worker[u].doc>>}
        BY <3>3, <3>4, <3>5, <3>6, LinkLinks DEF Kept
      <3> QED BY <2>2, <3>7 DEF Skipped
    <2>4. CASE Decision(f, t) = "replace" /\ ReplaceItem(u, t)
      <3>1. ReplaceItem(u, t)
        BY <2>4
      <3>2. t.file # f
        BY <2>4 DEF Decision
      <3>3. PICK more : more = IF t \in severed THEN {} ELSE {t.doc}
        OBVIOUS
      <3>4. more \in SUBSET Docs
        BY <2>2, <3>3 DEF TxnIds
      <3>5. PICK d \in Docs : Raise(u, FALSE) \/ MakeItem(u, d, more, {t}, FALSE)
        BY <3>1, <3>3 DEF ReplaceItem
      <3>6. CASE Raise(u, FALSE)
        BY <3>6, RaiseRaises
      <3>7. CASE MakeItem(u, d, more, {t}, FALSE)
        <4>1. PICK new, other : /\ new \in NewIds(u) /\ other \in SUBSET {new}
                /\ Link(u, {<<new, d>>} \union {<<new, e>> : e \in more},
                     [tx[u] EXCEPT !.item = @ + 1, !.status = FirstSays(u, "completed"),
                                   !.made = @ \union {new}, !.marked = @ \union {},
                                   !.changed = @ \union other,
                                   !.replaced = @ \union {t},
                                   !.shells = NewShells(u, d)])
          BY <3>7, MadeChangedIsMade DEF MakeItem
        <4>1a. PICK all : all = {<<new, d>>} \union {<<new, e>> : e \in more}
          OBVIOUS
        <4>1b. all \in SUBSET ({new} \X Docs)
          BY <4>1a, <3>4
        <4>1c. Link(u, all,
                     [tx[u] EXCEPT !.item = @ + 1, !.status = FirstSays(u, "completed"),
                                   !.made = @ \union {new}, !.marked = @ \union {},
                                   !.changed = @ \union other,
                                   !.replaced = @ \union {t},
                                   !.shells = NewShells(u, d)])
          BY <4>1, <4>1a
        <4>1d. {t} \in SUBSET TxnIds
          BY <2>2
        <4>2. \/ Raised(u)
              \/ /\ GoesOn(u) /\ Makes(u, new)
                 /\ tx'[u].marked = tx[u].marked \union {}
                 /\ tx'[u].replaced = tx[u].replaced \union {t}
          BY <1>1, <4>1b, <4>1c, <4>1d, <4>1, MakeItemMakes
        <4>3. \A t0 \in Candidates(u, ThisPayment(u)) :
                 t0.file = worker[u].file => t0 \in Changed(u)
          BY <3>2, MatchElsewhere
        <4> QED BY <1>6, <2>2, <3>2, <4>2, <4>3 DEF Made, Replaces, Makes
      <3> QED BY <3>5, <3>6, <3>7
    <2>5. CASE \E d \in Docs : MakeItem(u, d, {}, {}, TRUE)
      <3>1. PICK d \in Docs : MakeItem(u, d, {}, {}, TRUE)
        BY <2>5
      <3>2. PICK new, other : /\ new \in NewIds(u) /\ other \in SUBSET {new}
              /\ Link(u, {<<new, d>>} \union {<<new, e>> : e \in {}},
                   [tx[u] EXCEPT !.item = @ + 1, !.status = FirstSays(u, "completed"),
                                 !.made = @ \union {new}, !.marked = @ \union {new},
                                 !.changed = @ \union other,
                                 !.replaced = @ \union {},
                                 !.shells = NewShells(u, d)])
        BY <3>1, MadeChangedIsMade DEF MakeItem
      <3>2a. PICK all : all = {<<new, d>>} \union {<<new, e>> : e \in {}}
        OBVIOUS
      <3>2b. all \in SUBSET ({new} \X Docs)
        BY <3>2a
      <3>2c. Link(u, all,
                   [tx[u] EXCEPT !.item = @ + 1, !.status = FirstSays(u, "completed"),
                                 !.made = @ \union {new}, !.marked = @ \union {new},
                                 !.changed = @ \union other,
                                 !.replaced = @ \union {},
                                 !.shells = NewShells(u, d)])
        BY <3>2, <3>2a
      <3>3. \/ Raised(u)
            \/ /\ GoesOn(u) /\ Makes(u, new)
               /\ tx'[u].marked = tx[u].marked \union {new}
               /\ tx'[u].replaced = tx[u].replaced \union {}
        BY <1>1, <3>2b, <3>2c, <3>2, MakeItemMakes
      <3> QED BY <1>6, <3>3 DEF Made, Marks, Makes
    <2> QED BY <2>1, <2>3, <2>4, <2>5
  <1> QED BY <1>4, <1>5, <1>6

-----------------------------------------------------------------------------
(* Types.                                                                  *)

(* A row stays one, and of a known file.                                   *)
GrowsAt(d) ==
    /\ doc'[d] \in RowType
    /\ doc'[d].status # "absent" => doc'[d].file \in Files
    /\ doc[d].status # "absent" => doc'[d].status # "absent"

DocGrows == doc' = [d \in Docs |-> doc'[d]] /\ \A d \in Docs : GrowsAt(d)

RowsShrink ==
    /\ txns' \subseteq txns
    /\ flagged' \subseteq txns' /\ reviewed' \subseteq txns' /\ severed' \subseteq txns'
    /\ changed' \subseteq txns' /\ changed \intersect txns' \subseteq changed'
    /\ links' \subseteq txns' \X Docs

(* No transaction of the worker goes on: it has committed or not begun.    *)
TxStays(u) ==
    \/ tx'[u] = NoTx
    \/ /\ tx'[u] = tx[u]
       /\ worker'[u].pc = worker[u].pc
       /\ worker'[u].doc = worker[u].doc
       /\ worker'[u].file = worker[u].file

WorkersStay ==
    /\ worker' \in [Users -> WorkerType]
    /\ tx' \in [Users -> TxType]
    /\ \A u \in Users : WorkerTied(u)' /\ TxStays(u)

LEMMA NoTxType ==
    /\ NoTx \in TxType
    /\ NoTx.item = 1
    /\ NoTx.made = {} /\ NoTx.marked = {} /\ NoTx.changed = {} /\ NoTx.replaced = {} /\ NoTx.linked = {}
  BY DEF NoTx, TxType

LEMMA IdleType == Idle \in WorkerType /\ Idle.pc = "idle"
  BY DEF Idle, WorkerType, PCs

LEMMA RowFields ==
    ASSUME TypeInv, NEW d \in Docs
    PROVE  /\ doc[d] \in RowType
           /\ doc[d].status \in Statuses
           /\ doc[d].owner \in Users
           /\ doc[d].rank \in Nat
           /\ doc[d].retries \in 0 .. MAX_RETRIES
           /\ doc[d].status # "absent" => doc[d].file \in Files
  BY DEF TypeInv, TypeOK, RowsKnown, RowType

LEMMA RowUntouched ==
    ASSUME TypeInv, NEW d \in Docs, doc'[d] = doc[d]
    PROVE  GrowsAt(d)
  BY RowFields DEF GrowsAt

LEMMA DocUntouched ==
    ASSUME TypeInv, doc' = doc
    PROVE  DocGrows
  BY RowUntouched DEF DocGrows, TypeInv, TypeOK

LEMMA RowSet ==
    ASSUME TypeInv, NEW d \in Docs, NEW r \in RowType, doc' = [doc EXCEPT ![d] = r],
           r.status # "absent" => r.file \in Files,
           doc[d].status # "absent" => r.status # "absent"
    PROVE  DocGrows
  <1>1. doc \in [Docs -> RowType]
    BY DEF TypeInv, TypeOK
  <1>2. GrowsAt(d)
    BY <1>1 DEF GrowsAt
  <1>3. ASSUME NEW e \in Docs, e # d  PROVE GrowsAt(e)
    BY <1>1, <1>3, RowUntouched
  <1> QED BY <1>1, <1>2, <1>3 DEF DocGrows

LEMMA RowsUntouched ==
    ASSUME TypeInv, UNCHANGED rows
    PROVE  RowsShrink
  BY DEF TypeInv, TypeOK, RowsShrink, rows

LEMMA TypesStay ==
    ASSUME TypeInv, DocGrows, RowsShrink, WorkersStay,
           draining' \subseteq Users, acts' \in 0 .. MaxActs, doubtful' \subseteq Payments
    PROVE  TypeInv'
  <1>1. doc' \in [Docs -> RowType]
    BY DEF DocGrows, GrowsAt
  <1>2. TypeOK'
    BY <1>1 DEF TypeInv, TypeOK, RowsShrink, WorkersStay
  <1>3. RowsKnown'
    <2>1. ASSUME NEW t \in txns'
          PROVE  Real(t) /\ doc'[t.doc].status # "absent"
      <3>1. t \in txns /\ t \in TxnIds
        BY DEF RowsShrink, TypeInv, TypeOK
      <3>2. t.doc \in Docs
        BY <3>1 DEF TxnIds
      <3> QED BY <3>1, <3>2 DEF TypeInv, RowsKnown, DocGrows, GrowsAt
    <2> QED BY <2>1 DEF RowsKnown, DocGrows, GrowsAt, Real, Payment
  <1>4. ASSUME NEW u \in Users  PROVE TxTied(u)'
    <2>1. CASE tx'[u] = NoTx
      <3>1. tx'[u].item = 1 /\ tx'[u].made = {} /\ tx'[u].marked = {} /\ tx'[u].changed = {}
        BY <2>1, NoTxType
      <3> QED BY <3>1 DEF TxTied
    <2>2. CASE tx'[u] # NoTx
      BY <2>2 DEF TypeInv, TxTied, WorkersStay, TxStays, Real, Payment
    <2> QED BY <2>1, <2>2
  <1> QED BY <1>2, <1>3, <1>4 DEF TypeInv, WorkersStay

(* The worker's documents and transactions while it does nothing.          *)
LEMMA WorkersUntouched ==
    ASSUME TypeInv, DocGrows, worker' = worker, tx' = tx
    PROVE  WorkersStay
  <1>1. ASSUME NEW u \in Users  PROVE WorkerTied(u)' /\ TxStays(u)
    BY DEF TypeInv, WorkerTied, TxStays, DocGrows, GrowsAt
  <1> QED BY <1>1 DEF WorkersStay, TypeInv, TypeOK

(* One worker goes from one of its steps to the next.                      *)
LEMMA WorkerMoves ==
    ASSUME TypeInv, DocGrows, NEW u \in Users, NEW w \in WorkerType,
           worker' = [worker EXCEPT ![u] = w],
           tx' = tx \/ tx' = [tx EXCEPT ![u] = NoTx],
           w.pc # "idle" => w.doc \in Docs /\ doc[w.doc].status # "absent",
           w.pc \in {"reference", "asked", "persisting", "recompute"} => w.file \in Files,
           tx'[u] = NoTx
    PROVE  WorkersStay
  <1>1. worker \in [Users -> WorkerType] /\ tx \in [Users -> TxType]
    BY DEF TypeInv, TypeOK
  <1>2. worker' \in [Users -> WorkerType] /\ tx' \in [Users -> TxType]
    BY <1>1, NoTxType
  <1>3. WorkerTied(u)' /\ TxStays(u)
    BY <1>1 DEF WorkerTied, TxStays, DocGrows, GrowsAt
  <1>4. ASSUME NEW v \in Users, v # u  PROVE WorkerTied(v)' /\ TxStays(v)
    <2>1. worker'[v] = worker[v] /\ tx'[v] = tx[v]
      BY <1>1, <1>4
    <2> QED BY <2>1 DEF TypeInv, WorkerTied, TxStays, DocGrows, GrowsAt
  <1> QED BY <1>2, <1>3, <1>4 DEF WorkersStay

(* A worker in hand of a document: what it holds.                          *)
LEMMA InHand ==
    ASSUME TypeInv, NEW u \in Users
    PROVE  /\ worker[u] \in WorkerType
           /\ worker[u].pc # "idle" =>
                /\ worker[u].doc \in Docs
                /\ doc[worker[u].doc] \in RowType
                /\ doc[worker[u].doc].status # "absent"
                /\ doc[worker[u].doc].file \in Files
           /\ worker[u].pc \in {"reference", "asked", "persisting", "recompute"}
                => worker[u].file \in Files
           /\ worker[u].pc # "persisting" => tx[u] = NoTx
           /\ worker \in [Users -> WorkerType]
           /\ tx \in [Users -> TxType]
           /\ doc \in [Docs -> RowType]
  BY RowFields DEF TypeInv, TypeOK, WorkerTied

LEMMA GotoMoves ==
    ASSUME TypeInv, DocGrows, NEW u \in Users, worker[u].pc # "idle", worker[u].pc # "persisting",
           NEW pc \in PCs, NEW f \in Files, Goto(u, pc, f), tx' = tx
    PROVE  WorkersStay
  <1>1. PICK w : w = [worker[u] EXCEPT !.pc = pc, !.file = f]
    OBVIOUS
  <1>2. w \in WorkerType /\ w.doc = worker[u].doc /\ w.file = f
    BY <1>1, InHand DEF WorkerType
  <1>3. worker' = [worker EXCEPT ![u] = w]
    BY <1>1, InHand DEF Goto
  <1>4. tx'[u] = NoTx
    BY InHand
  <1> QED BY <1>2, <1>3, <1>4, InHand, WorkerMoves

LEMMA RaisedMoves ==
    ASSUME TypeInv, DocGrows, NEW u \in Users, worker[u].pc # "idle", Raised(u)
    PROVE  WorkersStay
  <1>1. PICK transient \in BOOLEAN :
          worker' = [worker EXCEPT ![u] = [@ EXCEPT !.pc = "failing", !.transient = transient]]
    BY DEF Raised
  <1>2. PICK w : w = [worker[u] EXCEPT !.pc = "failing", !.transient = transient]
    OBVIOUS
  <1>3. w \in WorkerType /\ w.doc = worker[u].doc /\ w.pc = "failing"
    BY <1>2, InHand DEF WorkerType, PCs
  <1>4. worker' = [worker EXCEPT ![u] = w]
    BY <1>1, <1>2, InHand
  <1>5. tx' = [tx EXCEPT ![u] = NoTx] /\ tx'[u] = NoTx
    BY InHand DEF Raised
  <1> QED BY <1>3, <1>4, <1>5, InHand, WorkerMoves

LEMMA IdleMoves ==
    ASSUME TypeInv, DocGrows, NEW u \in Users, worker[u].pc # "persisting",
           worker' = [worker EXCEPT ![u] = Idle], tx' = tx
    PROVE  WorkersStay
  <1>1. tx'[u] = NoTx
    BY InHand
  <1> QED BY <1>1, IdleType, WorkerMoves

(* Steps of one worker outside of its transaction.                         *)
Outside(u) ==
    \/ Claim(u) \/ NothingToClaim(u) \/ Load(u) \/ CompleteReference(u)
    \/ ModelAnswers(u) \/ ModelUnavailable(u) \/ ModelRefuses(u) \/ TimeOut(u)
    \/ FinishRecompute(u) \/ HandleFailure(u)

(* The row of a document whose status alone changes.                       *)
LEMMA StatusSet ==
    ASSUME TypeInv, NEW d \in Docs, doc[d].status # "absent", NEW s \in Statuses \ {"absent"},
           doc' = [doc EXCEPT ![d].status = s]
    PROVE  DocGrows
  <1>1. PICK r : r = [doc[d] EXCEPT !.status = s]
    OBVIOUS
  <1>2. r \in RowType /\ r.status = s /\ r.file = doc[d].file
    BY <1>1, RowFields DEF RowType
  <1>3. doc' = [doc EXCEPT ![d] = r]
    BY <1>1
  <1> QED BY <1>2, <1>3, RowSet, RowFields

LEMMA AfterFailureIsRow ==
    ASSUME NEW r \in RowType, NEW transient
    PROVE  /\ AfterFailure(r, transient) \in RowType
           /\ AfterFailure(r, transient).status # "absent"
           /\ AfterFailure(r, transient).file = r.file
  <1>1. PICK n : n = r.retries + 1
    OBVIOUS
  <1>2. r.retries \in 0 .. MAX_RETRIES /\ (n < MAX_RETRIES => n \in 0 .. MAX_RETRIES)
    BY <1>1, ConstantsAssumption DEF RowType
  <1>3. CASE transient /\ n < MAX_RETRIES
    <2>1. AfterFailure(r, transient)
            = [r EXCEPT !.status = "processing", !.retries = n, !.due = FALSE]
      BY <1>1, <1>3 DEF AfterFailure
    <2> QED BY <1>2, <1>3, <2>1 DEF RowType, Statuses
  <1>4. CASE ~ (transient /\ n < MAX_RETRIES)
    <2>1. AfterFailure(r, transient) = [r EXCEPT !.status = "failed"]
      BY <1>1, <1>4 DEF AfterFailure
    <2> QED BY <2>1 DEF RowType, Statuses
  <1> QED BY <1>3, <1>4

LEMMA OutsideTypes ==
    ASSUME TypeInv, NEW u \in Users, Outside(u)
    PROVE  /\ DocGrows /\ WorkersStay
           /\ draining' \subseteq Users
           /\ UNCHANGED <<rows, host>>
  <1>1. draining \subseteq Users
    BY DEF TypeInv, TypeOK
  <1>2. CASE Claim(u)
    <2>1. PICK d \in DueOf(u) :
            /\ doc' = [doc EXCEPT ![d].status = "extracting"]
            /\ worker' = [worker EXCEPT ![u] = [Idle EXCEPT !.pc = "claimed", !.doc = d]]
      BY <1>2 DEF Claim
    <2>2. d \in Docs /\ doc[d].status = "processing"
      BY <2>1 DEF DueOf, IsDue
    <2>3. DocGrows
      BY <2>1, <2>2, StatusSet DEF Statuses
    <2>4. PICK w : w = [Idle EXCEPT !.pc = "claimed", !.doc = d]
      OBVIOUS
    <2>5. w \in WorkerType /\ w.pc = "claimed" /\ w.doc = d
      BY <2>2, <2>4 DEF Idle, WorkerType, PCs
    <2>6. tx'[u] = NoTx /\ tx' = tx
      BY <1>2, InHand DEF Claim
    <2>7. WorkersStay
      BY <2>1, <2>2, <2>3, <2>4, <2>5, <2>6, WorkerMoves
    <2> QED BY <1>1, <1>2, <2>3, <2>7 DEF Claim
  <1>3. CASE NothingToClaim(u)
    BY <1>1, <1>3, DocUntouched, WorkersUntouched DEF NothingToClaim
  <1>4. CASE Load(u)
    <2>1. DocGrows /\ worker[u].pc = "claimed"
      BY <1>4, DocUntouched DEF Load
    <2>2. WorkersStay
      <3>1. CASE Raise(u, FALSE)
        BY <2>1, <3>1, RaiseRaises, RaisedMoves
      <3>2. CASE ~ Raise(u, FALSE)
        <4>1. PICK pc \in {"reference", "asked"} : Goto(u, pc, doc[worker[u].doc].file) /\ tx' = tx
          BY <1>4, <3>2 DEF Load
        <4> QED BY <2>1, <4>1, InHand, GotoMoves DEF PCs
      <3> QED BY <3>1, <3>2
    <2> QED BY <1>1, <1>4, <2>1, <2>2 DEF Load
  <1>5. CASE CompleteReference(u)
    <2>1. worker[u].pc = "reference"
      BY <1>5 DEF CompleteReference
    <2>2. CASE doc' = doc
      BY <1>1, <1>5, <2>1, <2>2, DocUntouched, IdleMoves DEF CompleteReference
    <2>3. CASE doc' = [doc EXCEPT ![worker[u].doc].status = "completed"]
      <3>1. DocGrows
        <4>1. PICK d : d = worker[u].doc
          OBVIOUS
        <4>2. d \in Docs /\ doc[d].status # "absent"
          BY <2>1, <4>1, InHand
        <4> QED BY <2>3, <4>1, <4>2, StatusSet DEF Statuses
      <3> QED BY <1>1, <1>5, <2>1, <3>1, IdleMoves DEF CompleteReference
    <2> QED BY <1>5, <2>2, <2>3 DEF CompleteReference
  <1>6. CASE ModelAnswers(u)
    <2>1. DocGrows /\ worker[u].pc = "asked"
      BY <1>6, DocUntouched DEF ModelAnswers
    <2>2. WorkersStay
      <3>1. CASE Raise(u, FALSE)
        BY <2>1, <3>1, RaiseRaises, RaisedMoves
      <3>2. CASE ~ Raise(u, FALSE)
        <4>1. Goto(u, "persisting", worker[u].file) /\ tx' = tx
          BY <1>6, <3>2 DEF ModelAnswers
        <4> QED BY <2>1, <4>1, InHand, GotoMoves DEF PCs
      <3> QED BY <3>1, <3>2
    <2> QED BY <1>1, <1>6, <2>1, <2>2 DEF ModelAnswers
  <1>7. CASE ModelUnavailable(u)
    <2>1. DocGrows /\ worker[u].pc = "asked" /\ Raise(u, TRUE)
      BY <1>7, DocUntouched DEF ModelUnavailable
    <2>2. WorkersStay
      BY <2>1, RaiseRaises, RaisedMoves
    <2> QED BY <1>1, <1>7, <2>1, <2>2 DEF ModelUnavailable
  <1>8. CASE ModelRefuses(u)
    <2>1. worker[u].pc = "asked" /\ Raise(u, FALSE)
      BY <1>8 DEF ModelRefuses
    <2>2. DocGrows
      <3>1. CASE doc' = doc
        BY <3>1, DocUntouched
      <3>2. CASE doc' = [doc EXCEPT ![worker[u].doc].status = "failed"]
        <4>1. PICK d : d = worker[u].doc
          OBVIOUS
        <4>2. d \in Docs /\ doc[d].status # "absent"
          BY <2>1, <4>1, InHand
        <4> QED BY <3>2, <4>1, <4>2, StatusSet DEF Statuses
      <3> QED BY <1>8, <3>1, <3>2 DEF ModelRefuses
    <2>3. WorkersStay
      BY <2>1, <2>2, RaiseRaises, RaisedMoves
    <2> QED BY <1>1, <1>8, <2>2, <2>3 DEF ModelRefuses
  <1>9. CASE TimeOut(u)
    <2>1. DocGrows /\ worker[u].pc # "idle" /\ Raise(u, TRUE)
      BY <1>9, DocUntouched DEF TimeOut
    <2>2. WorkersStay
      BY <2>1, RaiseRaises, RaisedMoves
    <2> QED BY <1>1, <1>9, <2>1, <2>2 DEF TimeOut
  <1>10. CASE FinishRecompute(u)
    BY <1>1, <1>10, DocUntouched, IdleMoves DEF FinishRecompute
  <1>11. CASE HandleFailure(u)
    <2>1. worker[u].pc = "failing"
      BY <1>11 DEF HandleFailure
    <2>2. DocGrows
      <3>1. CASE doc' = doc
        BY <3>1, DocUntouched
      <3>2. CASE doc' # doc
        <4>1. PICK d : d = worker[u].doc
          OBVIOUS
        <4>2. d \in Docs /\ doc[d] \in RowType /\ doc[d].file \in Files
          BY <2>1, <4>1, InHand
        <4>3. doc' = [doc EXCEPT ![d] = AfterFailure(doc[d], worker[u].transient)]
          BY <1>11, <3>2, <4>1, <4>2, InHand DEF HandleFailure
        <4> QED BY <4>2, <4>3, AfterFailureIsRow, RowSet
      <3> QED BY <3>1, <3>2
    <2> QED BY <1>1, <1>11, <2>1, <2>2, IdleMoves DEF HandleFailure
  <1> QED BY <1>2, <1>3, <1>4, <1>5, <1>6, <1>7, <1>8, <1>9, <1>10, <1>11 DEF Outside

LEMMA DeletedRowIsRow ==
    ASSUME NEW r \in RowType
    PROVE  /\ DeletedRow(r) \in RowType
           /\ DeletedRow(r).status = "deleted"
           /\ DeletedRow(r).file = r.file
           /\ DeletedRow(r).escrow = r.escrow
  BY DEF DeletedRow, RowType, Statuses

(* The documents the host changes remain rows of known files.              *)
LEMMA UploadGrows ==
    ASSUME TypeInv, NEW u \in Users, NEW f \in Files, NEW reference \in BOOLEAN,
           Upload(u, f, reference)
    PROVE  DocGrows
  <1>1. PICK new \in Docs, old \in SUBSET Docs :
          /\ \A d \in old : doc[d].status = "failed"
          /\ doc' = [d \in Docs |-> IF d = new THEN NewRow(u, f, f, reference, FALSE)
                                   ELSE IF d \in old THEN DeletedRow(doc[d])
                                   ELSE doc[d]]
    <2>1. PICK new \in NextIds : \E old \in Replaceable(f) :
              doc' = [d \in Docs |-> IF d = new THEN NewRow(u, f, f, reference, FALSE)
                                    ELSE IF d \in old THEN DeletedRow(doc[d])
                                    ELSE doc[d]]
      BY DEF Upload
    <2>2. PICK old \in Replaceable(f) :
              doc' = [d \in Docs |-> IF d = new THEN NewRow(u, f, f, reference, FALSE)
                                    ELSE IF d \in old THEN DeletedRow(doc[d])
                                    ELSE doc[d]]
      BY <2>1
    <2>3. new \in Docs
      BY DEF NextIds, Unused
    <2>4. old \in SUBSET Docs /\ \A d \in old : doc[d].status = "failed"
      BY DEF Replaceable, Twins
    <2> QED BY <2>2, <2>3, <2>4
  <1>2. PICK row : row = NewRow(u, f, f, reference, FALSE)
    OBVIOUS
  <1>3. row \in RowType /\ row.status = "processing" /\ row.file = f
    BY <1>2, ConstantsAssumption DEF NewRow, RowType, Statuses
  <1>4. ASSUME NEW d \in Docs  PROVE GrowsAt(d)
    <2>1. CASE d = new
      BY <1>1, <1>2, <1>3, <2>1 DEF GrowsAt
    <2>2. CASE d # new /\ d \in old
      <3>1. doc'[d] = DeletedRow(doc[d])
        BY <1>1, <2>2
      <3>2. doc[d] \in RowType /\ doc[d].file \in Files
        BY <1>1, <2>2, RowFields
      <3> QED BY <3>1, <3>2, DeletedRowIsRow DEF GrowsAt
    <2>3. CASE d # new /\ d \notin old
      BY <1>1, <2>3, RowUntouched
    <2> QED BY <2>1, <2>2, <2>3
  <1> QED BY <1>1, <1>4 DEF DocGrows

LEMMA UploadZipGrows ==
    ASSUME TypeInv, NEW u \in Users, UploadZip(u)
    PROVE  DocGrows
  <1>1. PICK first \in NextIds :
         LET batch == first .. first + Len(Zip) - 1 IN
           /\ batch \subseteq Unused
           /\ doc' = [d \in Docs |-> IF d \in batch
                                     THEN NewRow(u, Zip[d - first + 1], NoFile, FALSE, TRUE)
                                     ELSE doc[d]]
    BY DEF UploadZip
  <1>2. first \in Nat /\ first \in Docs
    BY ConstantsAssumption DEF NextIds, Unused
  <1>3. PICK n : n = Len(Zip)
    OBVIOUS
  <1>4. n \in Nat /\ \A i \in 1 .. n : Zip[i] \in Files
    BY <1>3, ConstantsAssumption
  <1>5. ASSUME NEW d \in Docs  PROVE GrowsAt(d)
    <2>1. d \in Nat
      BY ConstantsAssumption
    <2>2. CASE d \in first .. first + n - 1
      <3>1. d - first + 1 \in 1 .. n
        BY <1>2, <1>4, <2>1, <2>2
      <3>2. PICK f : f = Zip[d - first + 1]
        OBVIOUS
      <3>3. f \in Files
        BY <1>4, <3>1, <3>2
      <3>4. doc'[d] = NewRow(u, f, NoFile, FALSE, TRUE)
        BY <1>1, <1>3, <2>2, <3>2
      <3>5. PICK row : row = NewRow(u, f, NoFile, FALSE, TRUE)
        OBVIOUS
      <3>6. row \in RowType /\ row.status = "processing" /\ row.file = f
        BY <3>3, <3>5, ConstantsAssumption DEF NewRow, RowType, Statuses
      <3> QED BY <3>3, <3>4, <3>5, <3>6 DEF GrowsAt
    <2>3. CASE d \notin first .. first + n - 1
      BY <1>1, <1>3, <2>3, RowUntouched
    <2> QED BY <2>2, <2>3
  <1> QED BY <1>1, <1>5 DEF DocGrows

LEMMA DeleteDocumentGrows ==
    ASSUME TypeInv, NEW d \in Docs, DeleteDocument(d)
    PROVE  DocGrows
  <1>1. PICK r : r = [DeletedRow(doc[d]) EXCEPT !.stored = FALSE]
    OBVIOUS
  <1>2. doc[d] \in RowType /\ doc[d].file \in Files
    BY RowFields DEF DeleteDocument, Exists
  <1>3. DeletedRow(doc[d]) \in RowType /\ DeletedRow(doc[d]).status = "deleted"
        /\ DeletedRow(doc[d]).file = doc[d].file
    BY <1>2, DeletedRowIsRow
  <1>4. r \in RowType /\ r.status = "deleted" /\ r.file = doc[d].file
    BY <1>1, <1>3 DEF RowType
  <1>5. doc' = [doc EXCEPT ![d] = r]
    BY <1>1 DEF DeleteDocument, TypeInv, TypeOK
  <1> QED BY <1>2, <1>4, <1>5, RowSet

LEMMA BulkDeleteGrows ==
    ASSUME TypeInv, NEW ds \in SUBSET Docs, BulkDelete(ds)
    PROVE  DocGrows
  <1>1. ASSUME NEW d \in Docs  PROVE GrowsAt(d)
    <2>1. CASE d \in ds
      <3>1. doc[d] \in RowType /\ doc[d].file \in Files
        BY <2>1, RowFields DEF BulkDelete, Exists
      <3>2. doc'[d] = DeletedRow(doc[d])
        BY <2>1 DEF BulkDelete
      <3> QED BY <3>1, <3>2, DeletedRowIsRow DEF GrowsAt
    <2>2. CASE d \notin ds
      BY <2>2, RowUntouched DEF BulkDelete
    <2> QED BY <2>1, <2>2
  <1> QED BY <1>1 DEF DocGrows, BulkDelete

LEMMA ReplaceFileGrows ==
    ASSUME TypeInv, NEW d \in Docs, NEW f \in Files, ReplaceFile(d, f)
    PROVE  DocGrows
  <1>1. PICK r : r = [doc[d] EXCEPT !.file = f, !.stored = TRUE]
    OBVIOUS
  <1>2. r \in RowType /\ r.status = doc[d].status /\ r.file = f
    BY <1>1, RowFields DEF RowType
  <1>3. doc' = [doc EXCEPT ![d] = r]
    BY <1>1 DEF ReplaceFile, TypeInv, TypeOK
  <1> QED BY <1>2, <1>3, RowSet

LEMMA ReExtractGrows ==
    ASSUME TypeInv, NEW d \in Docs, ReExtract(d)
    PROVE  DocGrows
  BY StatusSet DEF ReExtract, Exists, Statuses

LEMMA FlagSet ==
    ASSUME TypeInv, NEW d \in Docs, NEW flag \in BOOLEAN,
           \/ doc' = [doc EXCEPT ![d].escrow = flag]
           \/ doc' = [doc EXCEPT ![d].due = flag]
    PROVE  DocGrows
  <1>1. PICK r : /\ r = [doc[d] EXCEPT !.escrow = flag] \/ r = [doc[d] EXCEPT !.due = flag]
                 /\ doc' = [doc EXCEPT ![d] = r]
    OBVIOUS
  <1>2. r \in RowType /\ r.status = doc[d].status /\ r.file = doc[d].file
    BY <1>1, RowFields DEF RowType
  <1> QED BY <1>1, <1>2, RowFields, RowSet

LEMMA CancelBatchGrows ==
    ASSUME TypeInv, CancelBatch
    PROVE  DocGrows
  <1>1. ASSUME NEW d \in Docs  PROVE GrowsAt(d)
    <2>1. CASE doc'[d] = doc[d]
      BY <2>1, RowUntouched
    <2>2. CASE doc'[d] # doc[d]
      <3>1. /\ doc'[d] = [doc[d] EXCEPT !.status = "gone"]
            /\ doc[d].status \in {"processing", "extracting"}
        BY <2>2 DEF CancelBatch
      <3> QED BY <3>1, RowFields DEF GrowsAt, RowType, Statuses
    <2> QED BY <2>1, <2>2
  <1> QED BY <1>1 DEF DocGrows, CancelBatch

LEMMA RetryFailedDocumentsGrows ==
    ASSUME TypeInv, RetryFailedDocuments
    PROVE  DocGrows
  <1>1. ASSUME NEW d \in Docs  PROVE GrowsAt(d)
    <2>1. CASE doc'[d] = doc[d]
      BY <2>1, RowUntouched
    <2>2. CASE doc'[d] # doc[d]
      <3>1. /\ doc'[d] = [doc[d] EXCEPT !.status = "processing", !.due = TRUE]
            /\ doc[d].status = "failed"
        BY <2>2 DEF RetryFailedDocuments
      <3> QED BY <3>1, RowFields DEF GrowsAt, RowType, Statuses
    <2> QED BY <2>1, <2>2
  <1> QED BY <1>1 DEF DocGrows, RetryFailedDocuments

LEMMA CleanReExtractGrows ==
    ASSUME TypeInv, NEW rank, CleanReExtract(rank)
    PROVE  DocGrows
  <1>1. ASSUME NEW d \in Docs  PROVE GrowsAt(d)
    <2>1. CASE doc'[d] = doc[d]
      BY <2>1, RowUntouched
    <2>2. CASE doc'[d] # doc[d]
      <3>1. /\ doc'[d] = [doc[d] EXCEPT !.status = "processing", !.retries = 0, !.due = TRUE]
            /\ Exists(d)
        BY <2>2 DEF CleanReExtract
      <3>2. doc[d].status # "absent" /\ 0 \in 0 .. MAX_RETRIES
        BY <3>1, ConstantsAssumption DEF Exists
      <3> QED BY <3>1, <3>2, RowFields DEF GrowsAt, RowType, Statuses
    <2> QED BY <2>1, <2>2
  <1> QED BY <1>1 DEF DocGrows, CleanReExtract

(* Rows are removed with all that is known of them.                        *)
LEMMA ForgetShrinks ==
    ASSUME TypeInv, NEW gone, Forget(gone)
    PROVE  RowsShrink
  BY DEF Forget, TypeInv, TypeOK, RowsShrink

LEMMA ActCounts ==
    ASSUME TypeInv, NEW op, Act(op)
    PROVE  acts' \in 0 .. MaxActs
  <1>1. acts \in 0 .. MaxActs /\ MaxActs \in Nat
    BY ConstantsAssumption DEF TypeInv, TypeOK
  <1>2. acts < MaxActs /\ acts' = acts + 1
    BY DEF Act
  <1> QED BY <1>1, <1>2

LEMMA HostTypes ==
    ASSUME TypeInv, HostNext
    PROVE  /\ DocGrows /\ RowsShrink
           /\ acts' \in 0 .. MaxActs
           /\ UNCHANGED <<worker, tx, draining, doubtful>>
  <1> DEFINE Goal == /\ DocGrows /\ RowsShrink
                     /\ acts' \in 0 .. MaxActs
                     /\ UNCHANGED <<worker, tx, draining, doubtful>>
  <1>1. acts \in 0 .. MaxActs
    BY DEF TypeInv, TypeOK
  <1>2. ASSUME NEW u \in Users, NEW f \in Files, NEW reference \in BOOLEAN,
               Upload(u, f, reference)
        PROVE  Goal
    <2>1. DocGrows
      BY <1>2, UploadGrows
    <2>2. UNCHANGED <<rows, worker, tx, draining, host>>
      BY <1>2 DEF Upload
    <2> QED BY <1>1, <2>1, <2>2, RowsUntouched DEF host
  <1>3. ASSUME NEW u \in Users, UploadZip(u)  PROVE Goal
    BY <1>3, UploadZipGrows, RowsUntouched, ActCounts DEF UploadZip
  <1>4. ASSUME NEW d \in Docs, DeleteDocument(d)  PROVE Goal
    BY <1>4, DeleteDocumentGrows, RowsUntouched, ActCounts DEF DeleteDocument
  <1>5. ASSUME NEW d \in Docs, ReExtract(d)  PROVE Goal
    BY <1>5, ReExtractGrows, RowsUntouched, ActCounts DEF ReExtract
  <1>6. ASSUME NEW ds \in SUBSET Docs, BulkDelete(ds)  PROVE Goal
    BY <1>6, BulkDeleteGrows, RowsUntouched, ActCounts DEF BulkDelete
  <1>7. ASSUME NEW d \in Docs, NEW f \in Files, ReplaceFile(d, f)  PROVE Goal
    BY <1>7, ReplaceFileGrows, RowsUntouched, ActCounts DEF ReplaceFile
  <1>8. ASSUME NEW d \in Docs, NEW paid \in BOOLEAN, SetEscrowPaid(d, paid)  PROVE Goal
    <2>1. PICK gone : Forget(gone)
      BY <1>8 DEF SetEscrowPaid
    <2>2. DocGrows
      BY <1>8, FlagSet DEF SetEscrowPaid
    <2> QED BY <1>8, <2>1, <2>2, ForgetShrinks, ActCounts DEF SetEscrowPaid
  <1>9. ASSUME CancelBatch  PROVE Goal
    <2>1. DocGrows
      BY <1>9, CancelBatchGrows
    <2>2. RowsShrink
      BY <1>9 DEF CancelBatch, RowsShrink, TypeInv, TypeOK
    <2> QED BY <1>9, <2>1, <2>2, ActCounts DEF CancelBatch
  <1>10. ASSUME RetryFailedDocuments  PROVE Goal
    BY <1>10, RetryFailedDocumentsGrows, RowsUntouched, ActCounts DEF RetryFailedDocuments
  <1>11. ASSUME NEW f \in Files, CleanReExtract(Rank[f])  PROVE Goal
    <2>1. DocGrows
      BY <1>11, CleanReExtractGrows
    <2>2. RowsShrink
      BY <1>11 DEF CleanReExtract, RowsShrink, TypeInv, TypeOK
    <2> QED BY <1>11, <2>1, <2>2, ActCounts DEF CleanReExtract
  <1>12. ASSUME NEW t \in txns, DeleteTransaction(t)  PROVE Goal
    BY <1>12, DocUntouched, ForgetShrinks, ActCounts DEF DeleteTransaction
  <1>13. ASSUME NEW t \in txns, UpdateTransaction(t)  PROVE Goal
    <2>1. RowsShrink
      BY <1>13 DEF UpdateTransaction, RowsShrink, TypeInv, TypeOK
    <2> QED BY <1>13, <2>1, DocUntouched, ActCounts DEF UpdateTransaction
  <1>14. ASSUME NEW t \in txns, NEW other \in txns, DismissDuplicates(t, other)  PROVE Goal
    <2>1. RowsShrink
      BY <1>14 DEF DismissDuplicates, RowsShrink, TypeInv, TypeOK
    <2> QED BY <1>14, <2>1, DocUntouched, ActCounts DEF DismissDuplicates
  <1>15. ASSUME NEW t \in txns, NEW other \in txns, NEW merged \in BOOLEAN,
                KeepTransaction(t, other, merged)
         PROVE  Goal
    <2>1. /\ txns' = txns \ {other} /\ t \in txns'
          /\ flagged' \subseteq flagged \ {other}
          /\ reviewed' = (reviewed \ {other}) \union {t}
          /\ severed' = severed \ {other}
          /\ changed' \subseteq (changed \ {other}) \union {t}
          /\ changed \ {other} \subseteq changed'
      BY <1>15 DEF KeepTransaction
    <2>2. links' \subseteq txns' \X Docs
      BY <1>15, <2>1 DEF KeepTransaction, TypeInv, TypeOK
    <2>3. RowsShrink
      BY <2>1, <2>2 DEF RowsShrink, TypeInv, TypeOK
    <2> QED BY <1>15, <2>3, DocUntouched, ActCounts DEF KeepTransaction
  <1> QED BY <1>2, <1>3, <1>4, <1>5, <1>6, <1>7, <1>8, <1>9, <1>10, <1>11,
             <1>12, <1>13, <1>14, <1>15 DEF HostNext

(* What the file lists at the item: a payment, unless it has no amount.    *)
LEMMA ListedPayment ==
    ASSUME NEW f \in Files, NEW i \in 1 .. Len(Items[f])
    PROVE  Items[f][i] \in Payments \union {Unpriced}
  <1>1. PICK s : s = Items[f]
    OBVIOUS
  <1>2. s \in Seq(Payments \union {Unpriced})
    BY <1>1, ConstantsAssumption
  <1> QED BY <1>1, <1>2

LEMMA MadeIsReal ==
    ASSUME TypeInv, NEW u \in Users, PersistItem(u), ThisPayment(u) # Unpriced,
           NEW t, Makes(u, t)
    PROVE  Real(t) /\ Payment(t) = ThisPayment(u)
  <1>1. PICK f, i : f = worker[u].file /\ i = tx[u].item
    OBVIOUS
  <1>2. f \in Files
    BY <1>1, InHand DEF PersistItem
  <1>3. i \in Nat /\ i >= 1 /\ i <= Len(Items[f])
    BY <1>1, TxFields DEF PersistItem, ItemsLeft, TypeInv, TxTied
  <1>4. i \in 1 .. Len(Items[f])
    BY <1>3
  <1>5. t.file = f /\ t.item = i
    BY <1>1 DEF Makes
  <1> QED BY <1>1, <1>2, <1>4, <1>5, ListedPayment DEF Real, Payment, ThisPayment

(* Whatever it is that becomes of an item, the transaction stays sound.    *)
LEMMA PersistItemTypes ==
    ASSUME TypeInv, NEW u \in Users, PersistItem(u)
    PROVE  TypeInv'
  <1>1. worker[u].pc = "persisting" /\ UNCHANGED <<doc, rows, draining, host>>
    BY DEF PersistItem
  <1>2. CASE Raised(u)
    <2>1. DocGrows
      BY <1>1, DocUntouched
    <2>2. WorkersStay
      BY <1>1, <1>2, <2>1, RaisedMoves
    <2> QED BY <1>1, <2>1, <2>2, RowsUntouched, TypesStay DEF host, TypeInv, TypeOK
  <1>3. CASE GoesOn(u) /\ (Unlisted(u) \/ Skipped(u) \/ Made(u))
    <2>1. TypeOK' /\ RowsKnown'
      BY <1>1, <1>3 DEF GoesOn, TypeInv, TypeOK, RowsKnown, Real, Payment, rows, host
    <2>2. ASSUME NEW v \in Users, v # u  PROVE WorkerTied(v)' /\ TxTied(v)'
      <3>1. tx'[v] = tx[v] /\ worker' = worker /\ doc' = doc
        BY <1>1, <1>3, <2>2 DEF GoesOn
      <3> QED BY <3>1 DEF TypeInv, WorkerTied, TxTied, Real, Payment
    <2>3. WorkerTied(u)'
      BY <1>1, <1>3 DEF GoesOn, TypeInv, WorkerTied
    <2>4. tx'[u].item >= 1
      <3>1. tx'[u].item = tx[u].item + 1
        BY <1>3 DEF GoesOn
      <3>2. tx[u].item \in Nat
        BY TxFields
      <3> QED BY <3>1, <3>2
    <2>5. tx'[u].marked \subseteq tx'[u].made /\ tx'[u].changed \subseteq tx'[u].made
      BY <1>3 DEF Unlisted, Skipped, Made, Kept, Creates, Marks, Replaces, Makes, TypeInv, TxTied
    <2>6. ASSUME NEW t \in tx'[u].made
          PROVE  Real(t) /\ t.doc = worker[u].doc /\ t.file = worker[u].file
      <3>1. CASE t \in tx[u].made
        BY <3>1 DEF TypeInv, TxTied
      <3>2. CASE t \notin tx[u].made
        <4>1. ThisPayment(u) # Unpriced /\ Makes(u, t)
          BY <1>3, <2>6, <3>2 DEF Unlisted, Skipped, Made, Kept, Creates, Marks, Replaces, Makes
        <4> QED BY <4>1, MadeIsReal DEF Makes
      <3> QED BY <3>1, <3>2
    <2>7. TxTied(u)'
      BY <1>3, <2>4, <2>5, <2>6 DEF TxTied, GoesOn, Real, Payment
    <2> QED BY <2>1, <2>2, <2>3, <2>7 DEF TypeInv
  <1> QED BY <1>2, <1>3, PersistItemPersists

(* What a commit makes of the document, and of those of the items.         *)
LEMMA HandledRowIsRow ==
    ASSUME NEW r \in RowType, NEW t \in TxType, NEW f \in Files
    PROVE  /\ HandledRow(r, t, f) \in RowType
           /\ HandledRow(r, t, f).status \notin {"absent", "gone"}
           /\ HandledRow(r, t, f).file = r.file
           /\ HandledRow(r, t, f).escrow = r.escrow
  <1>1. Rank[f] \in Nat
    BY ConstantsAssumption
  <1>2. CASE t.status = "duplicate"
    <2>1. HandledRow(r, t, f) = [r EXCEPT !.status = "deleted", !.deleted = TRUE]
      BY <1>2 DEF HandledRow
    <2> QED BY <2>1 DEF RowType, Statuses
  <1>3. CASE t.status = "completed"
    <2>1. HandledRow(r, t, f) = [r EXCEPT !.status = "completed", !.rank = Rank[f]]
      BY <1>3 DEF HandledRow
    <2> QED BY <1>1, <2>1 DEF RowType, Statuses
  <1>4. CASE t.status \notin {"duplicate", "completed"}
    <2>1. HandledRow(r, t, f) = [r EXCEPT !.status = "failed"]
      BY <1>4 DEF HandledRow
    <2> QED BY <2>1 DEF RowType, Statuses
  <1> QED BY <1>2, <1>3, <1>4

LEMMA ShellRowIsRow ==
    ASSUME NEW u \in Users, NEW f \in Files
    PROVE  /\ ShellRow(u, f) \in RowType
           /\ ShellRow(u, f).status = "completed"
           /\ ShellRow(u, f).file = f
           /\ ShellRow(u, f).escrow = FALSE
  <1>1. Rank[f] \in Nat
    BY ConstantsAssumption
  <1>2. PICK r : r = NewRow(u, f, NoFile, FALSE, FALSE)
    OBVIOUS
  <1>3. r \in RowType /\ r.file = f /\ r.escrow = FALSE
    BY <1>2, ConstantsAssumption DEF NewRow, RowType, Statuses
  <1>4. ShellRow(u, f) = [r EXCEPT !.status = "completed", !.rank = Rank[f]]
    BY <1>2 DEF ShellRow
  <1> QED BY <1>1, <1>3, <1>4 DEF RowType, Statuses

LEMMA CommitGrows ==
    ASSUME TypeInv, NEW u \in Users, CommitExtraction(u)
    PROVE  DocGrows
  <1>1. /\ worker[u].pc = "persisting"
        /\ doc' = [e \in Docs |->
                       IF e = worker[u].doc
                       THEN HandledRow(doc[worker[u].doc], tx[u], worker[u].file)
                       ELSE IF e \in tx[u].shells
                            THEN ShellRow(doc[worker[u].doc].owner, worker[u].file)
                            ELSE doc[e]]
    BY DEF CommitExtraction
  <1>2. PICK d, f, o : d = worker[u].doc /\ f = worker[u].file /\ o = doc[d].owner
    OBVIOUS
  <1>3. d \in Docs /\ f \in Files /\ doc[d] \in RowType /\ doc[d].file \in Files
    BY <1>1, <1>2, InHand
  <1>4. o \in Users
    BY <1>2, <1>3 DEF RowType
  <1>5. ASSUME NEW e \in Docs  PROVE GrowsAt(e)
    <2>1. CASE e = d
      <3>1. doc'[e] = HandledRow(doc[d], tx[u], f)
        BY <1>1, <1>2, <2>1
      <3>2. tx[u] \in TxType
        BY TxFields
      <3>3. PICK row : row = HandledRow(doc[d], tx[u], f)
        OBVIOUS
      <3>4. row \in RowType /\ row.status \notin {"absent", "gone"} /\ row.file = doc[d].file
        BY <1>3, <3>2, <3>3, HandledRowIsRow
      <3> QED BY <1>3, <3>1, <3>3, <3>4 DEF GrowsAt
    <2>2. CASE e # d /\ e \in tx[u].shells
      <3>1. doc'[e] = ShellRow(o, f)
        BY <1>1, <1>2, <2>2
      <3> QED BY <1>3, <1>4, <3>1, ShellRowIsRow DEF GrowsAt
    <2>3. CASE e # d /\ e \notin tx[u].shells
      BY <1>1, <1>2, <2>3, RowUntouched
    <2> QED BY <2>1, <2>2, <2>3
  <1> QED BY <1>1, <1>5 DEF DocGrows

(* What the commit does to rows and workers.                               *)
LEMMA CommitCommits ==
    ASSUME TypeInv, NEW u \in Users, CommitExtraction(u)
    PROVE  /\ worker[u].pc = "persisting" /\ ~ ItemsLeft(u)
           /\ txns' = Visible(u)
           /\ severed' = severed \ tx[u].replaced
           /\ changed' = Changed(u) \ tx[u].replaced
           /\ doubtful' = doubtful \union {Payment(t) : t \in tx[u].marked}
                                  \union {Payment(t) : t \in MadeUnnamed(u)}
                                  \union {p \in Payments : Overlaps(u, p)}
                                  \union {p \in Payments : BesideChanged(u, p)}
           /\ tx' = [tx EXCEPT ![u] = NoTx] /\ tx'[u] = NoTx
           /\ Goto(u, "recompute", worker[u].file)
           /\ worker'[u].pc = "recompute"
           /\ worker'[u].doc = worker[u].doc
           /\ worker'[u].file = worker[u].file
           /\ \A v \in Users \ {u} : tx'[v] = tx[v] /\ worker'[v] = worker[v]
  <1>1. /\ worker[u].pc = "persisting" /\ ~ ItemsLeft(u)
        /\ txns' = Visible(u)
        /\ severed' = severed \ tx[u].replaced
        /\ changed' = Changed(u) \ tx[u].replaced
        /\ doubtful' = doubtful \union {Payment(t) : t \in tx[u].marked}
                                  \union {Payment(t) : t \in MadeUnnamed(u)}
                                  \union {p \in Payments : Overlaps(u, p)}
                                  \union {p \in Payments : BesideChanged(u, p)}
        /\ tx' = [tx EXCEPT ![u] = NoTx]
        /\ Goto(u, "recompute", worker[u].file)
    BY DEF CommitExtraction
  <1>2. worker \in [Users -> WorkerType] /\ tx \in [Users -> TxType]
    BY InHand
  <1> QED BY <1>1, <1>2 DEF Goto, WorkerType

LEMMA CommitTypes ==
    ASSUME TypeInv, NEW u \in Users, CommitExtraction(u)
    PROVE  TypeInv'
  <1>1. DocGrows
    BY CommitGrows
  <1>2. WorkersStay
    <2>1. PICK w : w = [worker[u] EXCEPT !.pc = "recompute", !.file = worker[u].file]
      OBVIOUS
    <2>2. w \in WorkerType /\ w.doc = worker[u].doc /\ w.file = worker[u].file
      BY <2>1, InHand DEF WorkerType, PCs
    <2>3. worker' = [worker EXCEPT ![u] = w]
      BY <2>1, InHand, CommitCommits DEF Goto
    <2>4. worker[u].pc = "persisting" /\ tx' = [tx EXCEPT ![u] = NoTx] /\ tx'[u] = NoTx
      BY CommitCommits
    <2> QED BY <1>1, <2>2, <2>3, <2>4, InHand, WorkerMoves
  <1>3. txns' \subseteq TxnIds
    BY CommitCommits, TxFields
  <1>4. tx[u].marked \subseteq tx[u].made /\ tx[u].changed \subseteq tx[u].made
    BY DEF TypeInv, TxTied
  <1>5. /\ flagged' = (flagged \union tx[u].marked) \ tx[u].replaced
        /\ reviewed' = reviewed \ tx[u].replaced
        /\ links' = {l \in links \union tx[u].linked : l[1] \in txns'}
        /\ draining' = draining /\ acts' = acts
    BY DEF CommitExtraction
  <1>6. /\ flagged' \subseteq txns' /\ reviewed' \subseteq txns' /\ severed' \subseteq txns'
        /\ changed' \subseteq txns'
    BY <1>4, <1>5, CommitCommits DEF Visible, Changed, TypeInv, TypeOK
  <1>7. links' \subseteq txns' \X Docs
    <2>1. links \union tx[u].linked \subseteq TxnIds \X Docs
      BY TxFields DEF TypeInv, TypeOK
    <2> QED BY <1>5, <2>1
  <1>8. \A t \in txns \union tx[u].made : t \in TxnIds /\ Real(t)
    BY TxFields DEF TypeInv, TypeOK, RowsKnown, TxTied
  <1>9. doubtful' \subseteq Payments
    <2>1. \A t \in tx[u].marked : Payment(t) \in Payments
      BY <1>4, <1>8 DEF Real
    <2>2. \A t \in MadeUnnamed(u) : Payment(t) \in Payments
      BY <1>8 DEF Real, MadeUnnamed
    <2>3. doubtful \subseteq Payments
      BY DEF TypeInv, TypeOK
    <2> QED BY <2>1, <2>2, <2>3, CommitCommits
  <1>10. TypeOK'
    <2>1. doc' \in [Docs -> RowType]
      BY <1>1 DEF DocGrows, GrowsAt
    <2> QED BY <1>2, <1>3, <1>5, <1>6, <1>7, <1>9, <2>1 DEF TypeOK, TypeInv, WorkersStay
  <1>11. RowsKnown'
    <2>1. ASSUME NEW t \in txns'
          PROVE  Real(t) /\ doc'[t.doc].status # "absent"
      <3>1. t \in txns \/ t \in tx[u].made
        BY CommitCommits DEF Visible
      <3>2. t.doc \in Docs
        BY <1>3 DEF TxnIds
      <3>3. doc[t.doc].status # "absent"
        BY <3>1, InHand, CommitCommits DEF TypeInv, RowsKnown, TxTied
      <3> QED BY <1>1, <1>8, <3>1, <3>2, <3>3 DEF DocGrows, GrowsAt
    <2> QED BY <1>1, <2>1 DEF RowsKnown, DocGrows, GrowsAt, Real, Payment
  <1>12. ASSUME NEW v \in Users  PROVE TxTied(v)'
    <2>1. CASE v = u
      <3>1. tx'[u].item = 1 /\ tx'[u].made = {} /\ tx'[u].marked = {} /\ tx'[u].changed = {}
        BY NoTxType, CommitCommits
      <3> QED BY <2>1, <3>1 DEF TxTied
    <2>2. CASE v # u
      BY <2>2, CommitCommits DEF TypeInv, TxTied, Real, Payment
    <2> QED BY <2>1, <2>2
  <1> QED BY <1>2, <1>10, <1>11, <1>12 DEF TypeInv, WorkersStay

LEMMA CrashTypes ==
    ASSUME TypeInv, WorkerCrashes
    PROVE  /\ DocGrows /\ WorkersStay
           /\ draining' \subseteq Users
           /\ UNCHANGED <<rows, host>>
  <1>1. DocGrows
    BY DocUntouched DEF WorkerCrashes
  <1>2. \A u \in Users : worker'[u] = Idle /\ tx'[u] = NoTx
    BY DEF WorkerCrashes
  <1>3. ASSUME NEW u \in Users  PROVE WorkerTied(u)' /\ TxStays(u)
    <2>1. worker'[u].pc = "idle" /\ tx'[u] = NoTx
      BY <1>2, IdleType
    <2> QED BY <2>1 DEF WorkerTied, TxStays
  <1>4. worker' \in [Users -> WorkerType] /\ tx' \in [Users -> TxType]
    BY IdleType, NoTxType DEF WorkerCrashes
  <1> QED BY <1>1, <1>3, <1>4 DEF WorkersStay, WorkerCrashes

LEMMA InitTypes == Init => TypeInv
  <1> SUFFICES ASSUME Init PROVE TypeInv
    OBVIOUS
  <1>1. (CHOOSE u \in Users : TRUE) \in Users
    BY ConstantsAssumption
  <1>2. AbsentRow \in RowType /\ AbsentRow.status = "absent"
    BY <1>1, ConstantsAssumption DEF AbsentRow, RowType, Statuses
  <1>3. 0 \in 0 .. MaxActs
    BY ConstantsAssumption
  <1>4. TypeOK
    BY <1>2, <1>3, IdleType, NoTxType DEF Init, TypeOK
  <1>5. RowsKnown
    BY <1>2 DEF Init, RowsKnown
  <1>6. ASSUME NEW u \in Users  PROVE WorkerTied(u) /\ TxTied(u)
    <2>1. worker[u].pc = "idle" /\ tx[u] = NoTx
      BY IdleType DEF Init
    <2>2. tx[u].item = 1 /\ tx[u].made = {} /\ tx[u].marked = {} /\ tx[u].changed = {}
      BY <2>1, NoTxType
    <2> QED BY <2>1, <2>2 DEF WorkerTied, TxTied
  <1> QED BY <1>4, <1>5, <1>6 DEF TypeInv

(* Every step stores an item, commits, or leaves the open transactions be  *)
(* and takes nothing into the books.                                       *)
Idles ==
    /\ DocGrows /\ RowsShrink /\ WorkersStay
    /\ draining' \subseteq Users
    /\ acts' \in 0 .. MaxActs
    /\ doubtful' = doubtful

LEMMA StepIs ==
    ASSUME TypeInv, [Next]_vars
    PROVE  \/ \E u \in Users : PersistItem(u) \/ CommitExtraction(u)
           \/ Idles
  <1>1. draining \subseteq Users /\ acts \in 0 .. MaxActs
    BY DEF TypeInv, TypeOK
  <1>2. CASE UNCHANGED vars
    BY <1>1, <1>2, DocUntouched, RowsUntouched, WorkersUntouched DEF vars, host, Idles
  <1>3. CASE Drain
    BY <1>1, <1>3, DocUntouched, RowsUntouched, WorkersUntouched DEF Drain, host, Idles
  <1>4. ASSUME NEW u \in Users, Outside(u)  PROVE Idles
    BY <1>1, <1>4, OutsideTypes, RowsUntouched DEF host, Idles
  <1>5. ASSUME NEW d \in Docs, RetryFallsDue(d)  PROVE Idles
    <2>1. DocGrows
      BY <1>5, FlagSet DEF RetryFallsDue
    <2> QED BY <1>1, <1>5, <2>1, RowsUntouched, WorkersUntouched DEF RetryFallsDue, host, Idles
  <1>6. CASE WorkerCrashes
    BY <1>1, <1>6, CrashTypes, RowsUntouched DEF host, Idles
  <1>7. CASE HostNext
    BY <1>1, <1>7, HostTypes, WorkersUntouched DEF Idles
  <1> QED BY <1>2, <1>3, <1>4, <1>5, <1>6, <1>7 DEF Next, WorkerNext, Outside

LEMMA StepTypes == TypeInv /\ [Next]_vars => TypeInv'
  <1> SUFFICES ASSUME TypeInv, [Next]_vars PROVE TypeInv'
    OBVIOUS
  <1>1. CASE Idles
    BY <1>1, TypesStay DEF Idles, TypeInv, TypeOK
  <1>2. CASE ~ Idles
    BY <1>2, StepIs, PersistItemTypes, CommitTypes
  <1> QED BY <1>1, <1>2

(* Every variable keeps its type: the rows, the transactions and what is   *)
(* linked or known of them, whatever happens to documents while the worker *)
(* stores their items.                                                     *)
THEOREM TypeCorrect == Spec => []TypeOK
  <1>1. TypeInv => TypeOK
    BY DEF TypeInv
  <1> QED BY <1>1, InitTypes, StepTypes, PTL DEF Spec

-----------------------------------------------------------------------------
(* No transaction is made twice.                                           *)

LEMMA NoTxCovers ==
    ASSUME NEW u \in Users, tx'[u] = NoTx
    PROVE  /\ tx'[u].made = {} /\ tx'[u].replaced = {}
           /\ 1 .. (tx'[u].item - 1) = {}
  BY NoTxType

LEMMA IdlesKeepsApart ==
    ASSUME TypeInv, Apart, Idles
    PROVE  Apart'
  <1>1. txns' \subseteq txns
    BY DEF Idles, RowsShrink
  <1>2. \A u \in Users : tx'[u] = NoTx \/ tx'[u] = tx[u]
    BY DEF Idles, WorkersStay, TxStays
  <1> QED BY <1>1, <1>2, NoTxCovers DEF Apart

LEMMA PersistItemKeepsApart ==
    ASSUME TypeInv, Apart, NEW u \in Users, PersistItem(u)
    PROVE  Apart'
  <1>1. txns' = txns
    BY DEF PersistItem, rows
  <1>2. ASSUME NEW v \in Users, v # u  PROVE tx'[v] = tx[v]
    BY <1>2, InHand, PersistItemPersists DEF Raised, GoesOn
  <1>3. CASE Raised(u)
    <2>1. tx'[u] = NoTx
      BY <1>3, InHand DEF Raised
    <2> QED BY <1>1, <1>2, <2>1, NoTxCovers DEF Apart
  <1>4. CASE Unlisted(u) \/ Skipped(u)
    <2>1. Kept(u)
      BY <1>4 DEF Unlisted, Skipped
    <2> QED BY <1>1, <1>2, <2>1 DEF Apart, Kept
  <1>5. CASE Made(u)
    <2>1. PICK t \in TxnIds : Creates(u, t) \/ Marks(u, t) \/ \E s \in TxnIds : Replaces(u, t, s)
      BY <1>5 DEF Made
    <2>2. tx'[u].made = tx[u].made \union {t}
      BY <2>1 DEF Creates, Marks, Replaces, Makes
    <2>3. \A s \in tx'[u].replaced : s \in tx[u].replaced \/ s \in txns \/ s \in tx[u].made
      BY <2>1 DEF Creates, Marks, Replaces, Visible
    <2>4. /\ t \notin txns
          /\ \A v \in Users : t \notin tx[v].made /\ t \notin tx[v].replaced
      BY <2>1 DEF Creates, Marks, Replaces, Makes, KnownIds
    <2>5. tx'[u].made \intersect txns' = {}
      BY <1>1, <2>2, <2>4 DEF Apart
    <2>6. ASSUME NEW v \in Users, v # u
          PROVE  /\ tx'[u].made \intersect (tx'[v].made \union tx'[v].replaced) = {}
                 /\ tx'[v].made \intersect (tx'[u].made \union tx'[u].replaced) = {}
                 /\ tx'[v].made \intersect txns' = {}
      <3>1. tx'[v] = tx[v]
        BY <1>2, <2>6
      <3> QED BY <1>1, <2>2, <2>3, <2>4, <2>6, <3>1 DEF Apart
    <2>7. ASSUME NEW v \in Users, NEW w \in Users, v # u, w # u, v # w
          PROVE  tx'[v].made \intersect (tx'[w].made \union tx'[w].replaced) = {}
      BY <1>2, <2>7 DEF Apart
    <2> QED BY <2>5, <2>6, <2>7 DEF Apart
  <1> QED BY <1>3, <1>4, <1>5, PersistItemPersists

LEMMA CommitKeepsApart ==
    ASSUME TypeInv, Apart, NEW u \in Users, CommitExtraction(u)
    PROVE  Apart'
  <1>1. txns' = Visible(u) /\ tx'[u] = NoTx /\ \A v \in Users \ {u} : tx'[v] = tx[v]
    BY CommitCommits
  <1> QED BY <1>1, NoTxCovers DEF Apart, Visible

-----------------------------------------------------------------------------
(* Nothing is recorded twice unnoticed.                                    *)

LEMMA MadeUnnamedIsMade ==
    ASSUME NEW u \in Users
    PROVE  MadeUnnamed(u) = {t \in tx[u].made : t.file \in Unnamed}
  BY DEF MadeUnnamed

(* What is visible to a worker gets less when nothing is committed.        *)
LEMMA IdlesKeepsOnce ==
    ASSUME TypeInv, OnceInv, Idles
    PROVE  OnceInv'
  <1>1. txns' \subseteq txns /\ doubtful' = doubtful /\ changed \intersect txns' \subseteq changed'
    BY DEF Idles, RowsShrink
  <1>2. RecordedOnce'
    BY <1>1 DEF OnceInv, RecordedOnce, Payment
  <1>3. ASSUME NEW u \in Users, NEW t1 \in Visible(u)', NEW t2 \in Visible(u)',
               t1 # t2, Payment(t1) = Payment(t2)
        PROVE  Payment(t1) \in Excused(u)' \/ Beside(u, t1, t2)' \/ Beside(u, t2, t1)'
    <2>1. CASE tx'[u] = NoTx
      <3>1. t1 \in txns' /\ t2 \in txns'
        BY <1>3, <2>1, NoTxType DEF Visible
      <3> QED BY <1>2, <1>3, <3>1 DEF RecordedOnce, Excused, Payment
    <2>2. CASE tx'[u] = tx[u]
      <3>1. t1 \in Visible(u) /\ t2 \in Visible(u)
        BY <1>1, <1>3, <2>2 DEF Visible
      <3>2. Payment(t1) \in Excused(u) => Payment(t1) \in Excused(u)'
        BY <1>1, <2>2 DEF Excused, MadeUnnamed, Payment
      <3>3. ASSUME NEW t \in Visible(u)', t \in Changed(u)  PROVE t \in Changed(u)'
        <4>1. CASE t \in tx[u].changed
          BY <2>2, <4>1 DEF Changed
        <4>2. CASE t \in changed
          <5>1. t \notin tx[u].made
            BY <4>2 DEF TypeInv, TypeOK, OnceInv, Apart
          <5>2. t \in txns'
            BY <2>2, <3>3, <5>1 DEF Visible
          <5> QED BY <1>1, <4>2, <5>2 DEF Changed
        <4> QED BY <3>3, <4>1, <4>2 DEF Changed
      <3>4. Payment(t1) \in Excused(u) \/ Beside(u, t1, t2) \/ Beside(u, t2, t1)
        BY <1>3, <3>1 DEF OnceInv, OnceForEach
      <3> QED BY <1>3, <2>2, <3>2, <3>3, <3>4 DEF Beside
    <2> QED BY <2>1, <2>2 DEF Idles, WorkersStay, TxStays
  <1> QED BY <1>2, <1>3, IdlesKeepsApart DEF OnceInv, OnceForEach, Payment

LEMMA PersistItemKeepsOnce ==
    ASSUME TypeInv, OnceInv, NEW u \in Users, PersistItem(u)
    PROVE  OnceInv'
  <1>1. txns' = txns /\ doubtful' = doubtful /\ changed' = changed
    BY DEF PersistItem, rows, host
  <1>2. RecordedOnce'
    BY <1>1 DEF OnceInv, RecordedOnce, Payment
  <1>3. tx \in [Users -> TxType]
    BY InHand
  <1>4. ASSUME NEW v \in Users, tx'[v] = tx[v], NEW t1 \in Visible(v)', NEW t2 \in Visible(v)',
               t1 # t2, Payment(t1) = Payment(t2)
        PROVE  Payment(t1) \in Excused(v)' \/ Beside(v, t1, t2)' \/ Beside(v, t2, t1)'
    <2>1. t1 \in Visible(v) /\ t2 \in Visible(v)
      BY <1>1, <1>4 DEF Visible
    <2>2. Payment(t1) \in Excused(v) \/ Beside(v, t1, t2) \/ Beside(v, t2, t1)
      BY <1>4, <2>1 DEF OnceInv, OnceForEach
    <2> QED BY <1>1, <1>4, <2>2 DEF Excused, MadeUnnamed, Beside, Changed, Payment
  <1>5. ASSUME NEW v \in Users, v # u  PROVE tx'[v] = tx[v]
    BY <1>3, <1>5, PersistItemPersists DEF Raised, GoesOn
  <1>6. ASSUME NEW t1 \in Visible(u)', NEW t2 \in Visible(u)',
               t1 # t2, Payment(t1) = Payment(t2)
        PROVE  Payment(t1) \in Excused(u)' \/ Beside(u, t1, t2)' \/ Beside(u, t2, t1)'
    <2>1. CASE Raised(u)
      <3>1. tx'[u] = NoTx
        BY <1>3, <2>1 DEF Raised
      <3>2. t1 \in txns' /\ t2 \in txns'
        BY <1>6, <3>1, NoTxType DEF Visible
      <3> QED BY <1>2, <1>6, <3>2 DEF RecordedOnce, Excused, Payment
    <2>2. CASE Unlisted(u) \/ Skipped(u)
      <3>1. Kept(u)
        BY <2>2 DEF Unlisted, Skipped
      <3>2. t1 \in Visible(u) /\ t2 \in Visible(u)
        BY <1>1, <1>6, <3>1 DEF Visible, Kept
      <3>3. Payment(t1) \in Excused(u) \/ Beside(u, t1, t2) \/ Beside(u, t2, t1)
        BY <1>6, <3>2 DEF OnceInv, OnceForEach
      <3> QED BY <1>1, <3>1, <3>3 DEF Excused, MadeUnnamed, Beside, Changed, Payment, Kept
    <2>3. CASE Made(u)
      <3>1. PICK t \in TxnIds : Creates(u, t) \/ Marks(u, t) \/ \E s \in TxnIds : Replaces(u, t, s)
        BY <2>3 DEF Made
      <3>2. Makes(u, t) /\ Payment(t) = ThisPayment(u)
        BY <2>3, <3>1, MadeIsReal DEF Made, Creates, Marks, Replaces
      <3>3. /\ tx'[u].made = tx[u].made \union {t}
            /\ tx[u].marked \subseteq tx'[u].marked
            /\ tx[u].replaced \subseteq tx'[u].replaced
            /\ Changed(u) \subseteq Changed(u)'
        BY <1>1, <3>1 DEF Creates, Marks, Replaces, Makes, Changed
      <3>4. \A t0 \in Visible(u)' : t0 = t \/ t0 \in Visible(u)
        BY <1>1, <3>3 DEF Visible
      <3>5. \A p : p \in Excused(u) => p \in Excused(u)'
        BY <1>1, <3>3 DEF Excused, MadeUnnamed, Payment
      <3>6. ASSUME NEW s0 \in Visible(u)', s0 # t, Payment(s0) = ThisPayment(u)
            PROVE  Payment(t) \in Excused(u)' \/ Beside(u, t, s0)'
        <4>1. s0 \in Visible(u) /\ s0 \in Candidates(u, ThisPayment(u))
          BY <3>4, <3>6 DEF Candidates
        <4>2. s0 \in Changed(u) => Beside(u, t, s0)'
          BY <3>3 DEF Beside
        <4>3. CASE Creates(u, t)
          <5>1. CASE worker[u].file \in Unnamed
            <6>1. t \in MadeUnnamed(u)'
              BY <3>2, <3>3, <5>1 DEF MadeUnnamed, Makes
            <6> QED BY <6>1 DEF Excused, Payment
          <5>2. CASE worker[u].file \notin Unnamed
            BY <4>1, <4>2, <4>3, <5>2 DEF Creates, NoneLike
          <5> QED BY <5>1, <5>2
        <4>4. CASE Marks(u, t)
          BY <4>4 DEF Marks, Excused, Payment
        <4>5. CASE \E s \in TxnIds : Replaces(u, t, s)
          <5>1. PICK s \in TxnIds : Replaces(u, t, s)
            BY <4>5
          <5>2. s \in Visible(u) /\ Payment(s) = ThisPayment(u) /\ s \in tx'[u].replaced
            BY <5>1 DEF Replaces
          <5>3. s0 # s
            BY <3>6, <5>2 DEF Visible
          <5>4. Payment(s) \in Excused(u) \/ Beside(u, s, s0) \/ Beside(u, s0, s)
            BY <3>6, <4>1, <5>2, <5>3 DEF OnceInv, OnceForEach
          <5>5. CASE Payment(s) \in Excused(u)
            BY <3>2, <3>5, <5>2, <5>5
          <5>6. CASE Beside(u, s, s0)
            BY <4>2, <5>6 DEF Beside
          <5>7. CASE Beside(u, s0, s)
            <6>1. s0.file = worker[u].file
              BY <5>7 DEF Beside, TypeInv, TxTied
            <6> QED BY <4>1, <4>2, <5>1, <6>1 DEF Replaces
          <5> QED BY <5>4, <5>5, <5>6, <5>7
        <4> QED BY <3>1, <4>3, <4>4, <4>5
      <3>7. CASE t1 = t
        BY <1>6, <3>2, <3>6, <3>7
      <3>8. CASE t2 = t
        BY <1>6, <3>2, <3>6, <3>8
      <3>9. CASE t1 # t /\ t2 # t
        <4>1. t1 \in Visible(u) /\ t2 \in Visible(u)
          BY <1>6, <3>4, <3>9
        <4>2. Payment(t1) \in Excused(u) \/ Beside(u, t1, t2) \/ Beside(u, t2, t1)
          BY <1>6, <4>1 DEF OnceInv, OnceForEach
        <4> QED BY <3>3, <3>5, <4>2 DEF Beside
      <3> QED BY <3>7, <3>8, <3>9
    <2> QED BY <2>1, <2>2, <2>3, PersistItemPersists
  <1> QED BY <1>2, <1>4, <1>5, <1>6, PersistItemKeepsApart DEF OnceInv, OnceForEach, Payment

LEMMA CommitKeepsOnce ==
    ASSUME TypeInv, OnceInv, NEW u \in Users, CommitExtraction(u)
    PROVE  OnceInv'
  <1>1. /\ txns' = Visible(u)
        /\ \A p \in Excused(u) : p \in doubtful'
        /\ \A p \in Payments : Overlaps(u, p) \/ BesideChanged(u, p) => p \in doubtful'
        /\ changed' = Changed(u) \ tx[u].replaced
        /\ tx'[u] = NoTx
        /\ \A v \in Users \ {u} : tx'[v] = tx[v]
        /\ doubtful \subseteq doubtful'
    BY CommitCommits DEF Excused
  <1>2. RecordedOnce'
    <2>1. ASSUME NEW t1 \in Visible(u), NEW t2 \in Visible(u),
                 t1 # t2, Payment(t1) = Payment(t2), Beside(u, t1, t2)
          PROVE  Payment(t1) \in doubtful'
      <3>1. Payment(t1) \in Payments
        BY <2>1 DEF Beside, TypeInv, TxTied, Real
      <3>2. t1 \in tx[u].made /\ t2 \in Changed(u) \ tx[u].replaced
        BY <2>1 DEF Beside, Visible
      <3>3. BesideChanged(u, Payment(t1))
        BY <2>1, <3>2 DEF BesideChanged
      <3> QED BY <1>1, <3>1, <3>3
    <2>2. ASSUME NEW t1 \in Visible(u), NEW t2 \in Visible(u),
                 t1 # t2, Payment(t1) = Payment(t2)
          PROVE  Payment(t1) \in doubtful'
      <3>1. Payment(t1) \in Excused(u) \/ Beside(u, t1, t2) \/ Beside(u, t2, t1)
        BY <2>2 DEF OnceInv, OnceForEach
      <3> QED BY <1>1, <2>1, <2>2, <3>1
    <2> QED BY <1>1, <2>2 DEF RecordedOnce, Payment
  <1>3. ASSUME NEW v \in Users, NEW t1 \in Visible(v)', NEW t2 \in Visible(v)',
               t1 # t2, Payment(t1) = Payment(t2)
        PROVE  Payment(t1) \in Excused(v)' \/ Beside(v, t1, t2)' \/ Beside(v, t2, t1)'
    <2>1. CASE v = u
      <3>1. t1 \in txns' /\ t2 \in txns'
        BY <1>1, <1>3, <2>1, NoTxType DEF Visible
      <3> QED BY <1>2, <1>3, <3>1 DEF RecordedOnce, Excused, Payment
    <2>2. CASE v # u
      <3>1. tx'[v] = tx[v]
        BY <1>1, <2>2
      <3>2. ASSUME NEW t \in Visible(v)'  PROVE t \in Visible(v) \/ t \in tx[u].made
        BY <1>1, <3>1, <3>2 DEF Visible
      <3>3. CASE t1 \in Visible(v) /\ t2 \in Visible(v)
        <4>1. Payment(t1) \in Excused(v) \/ Beside(v, t1, t2) \/ Beside(v, t2, t1)
          BY <1>3, <3>3 DEF OnceInv, OnceForEach
        <4>2. Payment(t1) \in Excused(v) => Payment(t1) \in Excused(v)'
          BY <1>1, <3>1 DEF Excused, MadeUnnamed, Payment
        <4>3. ASSUME NEW t \in Visible(v)', t \in Changed(v)  PROVE t \in Changed(v)'
          <5>1. CASE t \in tx[v].changed
            BY <3>1, <5>1 DEF Changed
          <5>2. CASE t \in changed
            <6>1. t \notin tx[v].made
              BY <5>2 DEF TypeInv, TypeOK, OnceInv, Apart
            <6>2. t \in txns'
              BY <3>1, <4>3, <6>1 DEF Visible
            <6>3. t \notin tx[u].replaced
              BY <1>1, <6>2 DEF Visible
            <6> QED BY <1>1, <5>2, <6>3 DEF Changed
          <5> QED BY <4>3, <5>1, <5>2 DEF Changed
        <4> QED BY <1>3, <3>1, <4>1, <4>2, <4>3 DEF Beside
      <3>4. CASE t1 \in txns' /\ t2 \in txns'
        BY <1>2, <1>3, <3>4 DEF RecordedOnce, Excused, Payment
      <3>5. ASSUME NEW m \in tx[u].made, NEW n \in tx[v].made, Payment(m) = Payment(n)
            PROVE  Payment(m) \in doubtful'
        <4>1. Payment(m) \in Payments
          BY <3>5 DEF TypeInv, TxTied, Real
        <4>2. Overlaps(u, Payment(m))
          BY <2>2, <3>5 DEF Overlaps
        <4> QED BY <1>1, <4>1, <4>2
      <3>6. CASE t1 \in tx[u].made /\ t2 \in tx[v].made
        BY <1>3, <3>5, <3>6 DEF Excused, Payment
      <3>7. CASE t2 \in tx[u].made /\ t1 \in tx[v].made
        BY <1>3, <3>5, <3>7 DEF Excused, Payment
      <3> QED BY <1>3, <3>1, <3>2, <3>3, <3>4, <3>6, <3>7 DEF Visible
    <2> QED BY <2>1, <2>2
  <1> QED BY <1>2, <1>3, CommitKeepsApart DEF OnceInv, OnceForEach, Payment

(* A payment is recorded once, however its documents are uploaded again,   *)
(* replaced, re-extracted, retried and cleaned and by how many workers     *)
(* (evaluate_dedup, resolve_and_link), except where a review was asked     *)
(* for, two transactions of workers overlapped, no vendor is named, or it  *)
(* was made beside a row the host or a rule of his had changed.            *)
THEOREM PaymentsOnce == Spec => []RecordedOnce
  <1>1. Init => OnceInv
    BY NoTxType DEF Init, OnceInv, Apart, RecordedOnce, OnceForEach, Visible
  <1>2. TypeInv /\ OnceInv /\ [Next]_vars => OnceInv'
    BY StepIs, IdlesKeepsOnce, PersistItemKeepsOnce, CommitKeepsOnce
  <1>3. OnceInv => RecordedOnce
    BY DEF OnceInv
  <1> QED BY <1>1, <1>2, <1>3, InitTypes, StepTypes, PTL DEF Spec

-----------------------------------------------------------------------------
(* What is paid from escrow is not billed.                                 *)

(* The row says of escrow what it said before, if it existed.              *)
EscrowKept(d) ==
    \/ doc[d].status = "absent"
    \/ /\ doc'[d].escrow = doc[d].escrow
       /\ doc'[d].status \notin {"absent", "gone"} => Exists(d)

(* Reading goes on, or begins with a document that is not paid from escrow.*)
ReadKept(u) ==
    worker'[u].pc \in {"asked", "persisting"}
        => /\ worker[u].pc # "idle"
           /\ worker'[u].doc = worker[u].doc
           /\ \/ worker[u].pc \in {"asked", "persisting"}
              \/ ~ doc[worker[u].doc].escrow

LEMMA EscrowStays ==
    ASSUME TypeInv, EscrowInv,
           \A d \in Docs : EscrowKept(d),
           \A u \in Users : ReadKept(u),
           txns' \subseteq txns, \A t \in txns' : t \in severed => t \in severed'
    PROVE  EscrowInv'
  <1>1. ASSUME NEW d \in Docs, doc'[d].status \notin {"absent", "gone"}, doc'[d].escrow,
               NEW t \in txns', t.doc = d
        PROVE  t \in severed'
    <2>1. t \in txns /\ doc[d].status # "absent"
      BY <1>1 DEF TypeInv, RowsKnown
    <2>2. Exists(d) /\ doc[d].escrow
      BY <1>1, <2>1 DEF EscrowKept
    <2> QED BY <1>1, <2>1, <2>2 DEF EscrowInv, EscrowIsNotBilled, MadeFrom
  <1>2. ASSUME NEW u \in Users, worker'[u].pc \in {"asked", "persisting"}
        PROVE  ~ doc'[worker'[u].doc].escrow
    <2>1. PICK d : d = worker[u].doc
      OBVIOUS
    <2>2. d \in Docs /\ doc[d].status # "absent" /\ worker'[u].doc = d
      BY <1>2, <2>1, InHand DEF ReadKept
    <2>3. ~ doc[d].escrow
      BY <1>2, <2>1 DEF ReadKept, EscrowInv, ReadIsBilled
    <2> QED BY <2>2, <2>3 DEF EscrowKept
  <1> QED BY <1>1, <1>2 DEF EscrowInv, EscrowIsNotBilled, ReadIsBilled, MadeFrom, Exists

LEMMA DocEscrowKept ==
    ASSUME doc' = doc, NEW d
    PROVE  EscrowKept(d)
  BY DEF EscrowKept, Exists

LEMMA StatusEscrowKept ==
    ASSUME TypeInv, NEW d \in Docs, NEW s \in Statuses, Exists(d),
           doc' = [doc EXCEPT ![d].status = s], NEW e \in Docs
    PROVE  EscrowKept(e)
  <1>1. doc[d] \in RowType /\ doc \in [Docs -> RowType]
    BY DEF TypeInv, TypeOK
  <1>2. doc'[d].escrow = doc[d].escrow
    BY <1>1 DEF RowType
  <1>3. e # d => doc'[e] = doc[e]
    BY <1>1
  <1> QED BY <1>2, <1>3 DEF EscrowKept, Exists

LEMMA OutsideKeepsEscrow ==
    ASSUME TypeInv, EscrowInv, NEW u \in Users, Outside(u)
    PROVE  EscrowInv'
  <1>1. UNCHANGED rows
    BY OutsideTypes
  <1>2. txns' \subseteq txns /\ \A t \in txns' : t \in severed => t \in severed'
    BY <1>1 DEF rows
  <1>3. \A d \in Docs : EscrowKept(d)
    <2>1. CASE doc' = doc
      BY <2>1, DocEscrowKept
    <2>2. CASE Claim(u)
      BY <2>2, StatusEscrowKept DEF Claim, DueOf, IsDue, Exists, Statuses
    <2>3. CASE doc' # doc /\ (CompleteReference(u) \/ ModelRefuses(u) \/ HandleFailure(u))
      <3>1. PICK d : d = worker[u].doc
        OBVIOUS
      <3>2. Exists(d) /\ worker[u].pc # "idle"
        BY <2>3, <3>1 DEF CompleteReference, ModelRefuses, HandleFailure
      <3>3. d \in Docs /\ doc[d] \in RowType
        BY <3>1, <3>2, InHand
      <3>4. CASE HandleFailure(u)
        <4>1. doc' = [doc EXCEPT ![d] = AfterFailure(doc[d], worker[u].transient)]
          BY <2>3, <3>1, <3>3, <3>4, InHand DEF HandleFailure
        <4>2. AfterFailure(doc[d], worker[u].transient).escrow = doc[d].escrow
          BY <3>3 DEF AfterFailure, RowType
        <4> QED BY <3>2, <3>3, <4>1, <4>2, InHand DEF EscrowKept, Exists
      <3>5. CASE CompleteReference(u)
        BY <2>3, <3>1, <3>2, <3>3, <3>5, StatusEscrowKept DEF CompleteReference, Statuses
      <3>6. CASE ModelRefuses(u)
        BY <2>3, <3>1, <3>2, <3>3, <3>6, StatusEscrowKept DEF ModelRefuses, Statuses
      <3> QED BY <2>3, <3>4, <3>5, <3>6
    <2> QED BY <2>1, <2>2, <2>3 DEF Outside, NothingToClaim, Load, ModelAnswers,
               ModelUnavailable, TimeOut, FinishRecompute
  <1>4. \A v \in Users \ {u} : worker'[v] = worker[v]
    BY InHand DEF Outside, Claim, NothingToClaim, Load, CompleteReference, ModelAnswers,
       ModelUnavailable, ModelRefuses, TimeOut, FinishRecompute, HandleFailure, Raise, Goto
  <1>5. ReadKept(u)
    <2>1. CASE Raise(u, TRUE) \/ Raise(u, FALSE)
      <3>0. Raised(u)
        BY <2>1, RaiseRaises
      <3>1. worker'[u].pc = "failing"
        BY <3>0, InHand DEF Raised, WorkerType
      <3> QED BY <3>1 DEF ReadKept
    <2>2. CASE Claim(u)
      <3>1. worker'[u].pc = "claimed"
        BY <2>2, InHand DEF Claim, Idle
      <3> QED BY <3>1 DEF ReadKept
    <2>3. CASE NothingToClaim(u)
      BY <2>3 DEF NothingToClaim, ReadKept
    <2>4. CASE CompleteReference(u) \/ FinishRecompute(u) \/ HandleFailure(u)
      <3>1. worker'[u].pc = "idle"
        BY <2>4, InHand, IdleType DEF CompleteReference, FinishRecompute, HandleFailure
      <3> QED BY <3>1 DEF ReadKept
    <2>5. CASE Load(u) /\ ~ Raise(u, FALSE)
      <3>1. PICK w : w = [worker[u] EXCEPT !.pc = IF doc[worker[u].doc].escrow THEN "reference" ELSE "asked",
                                           !.file = doc[worker[u].doc].file]
        OBVIOUS
      <3>2. worker'[u] = w /\ worker[u].pc = "claimed"
        BY <2>5, <3>1, InHand DEF Load, Goto
      <3>3. /\ w.doc = worker[u].doc
            /\ w.pc = IF doc[worker[u].doc].escrow THEN "reference" ELSE "asked"
        BY <3>1, InHand DEF WorkerType
      <3> QED BY <3>2, <3>3 DEF ReadKept
    <2>6. CASE ModelAnswers(u) /\ ~ Raise(u, FALSE)
      <3>1. Goto(u, "persisting", worker[u].file) /\ worker[u].pc = "asked"
        BY <2>6 DEF ModelAnswers
      <3>2. worker'[u].doc = worker[u].doc
        BY <3>1, InHand DEF Goto, WorkerType
      <3> QED BY <3>1, <3>2 DEF ReadKept
    <2> QED BY <2>1, <2>2, <2>3, <2>4, <2>5, <2>6 DEF Outside, ModelUnavailable,
               ModelRefuses, TimeOut
  <1>6. \A v \in Users : ReadKept(v)
    BY <1>4, <1>5 DEF ReadKept
  <1> QED BY <1>2, <1>3, <1>6, EscrowStays

LEMMA PersistItemKeepsEscrow ==
    ASSUME TypeInv, EscrowInv, NEW u \in Users, PersistItem(u)
    PROVE  EscrowInv'
  <1>1. UNCHANGED <<doc, rows>>
    BY DEF PersistItem
  <1>2. ASSUME NEW v \in Users  PROVE ReadKept(v)
    <2>1. CASE Raised(u)
      <3>1. v # u => worker'[v] = worker[v]
        BY <2>1, InHand DEF Raised
      <3>2. v = u => worker'[v].pc = "failing"
        BY <2>1, InHand DEF Raised, WorkerType
      <3> QED BY <3>1, <3>2 DEF ReadKept
    <2>2. CASE GoesOn(u)
      BY <2>2 DEF GoesOn, ReadKept
    <2> QED BY <2>1, <2>2, PersistItemPersists
  <1> QED BY <1>1, <1>2, DocEscrowKept, EscrowStays DEF rows

LEMMA CommitKeepsEscrow ==
    ASSUME TypeInv, EscrowInv, NEW u \in Users, CommitExtraction(u)
    PROVE  EscrowInv'
  <1>1. PICK d, f, o : d = worker[u].doc /\ f = worker[u].file /\ o = doc[d].owner
    OBVIOUS
  <1>2. /\ worker[u].pc = "persisting"
        /\ d \in Docs /\ f \in Files /\ doc[d] \in RowType /\ ~ doc[d].escrow
    BY <1>1, InHand, CommitCommits DEF EscrowInv, ReadIsBilled
  <1>3. o \in Users
    BY <1>1, <1>2 DEF RowType
  <1>4. ASSUME NEW e \in Docs  PROVE doc'[e] = doc[e] \/ ~ doc'[e].escrow
    <2>1. CASE e = d
      <3>1. doc'[e] = HandledRow(doc[d], tx[u], f)
        BY <1>1, <2>1 DEF CommitExtraction
      <3>2. tx[u] \in TxType
        BY TxFields
      <3>3. HandledRow(doc[d], tx[u], f).escrow = doc[d].escrow
        BY <1>2, <3>2, HandledRowIsRow
      <3> QED BY <1>2, <3>1, <3>3
    <2>2. CASE e # d /\ e \in tx[u].shells
      <3>1. doc'[e] = ShellRow(o, f)
        BY <1>1, <2>2 DEF CommitExtraction
      <3> QED BY <1>2, <1>3, <3>1, ShellRowIsRow
    <2>3. CASE e # d /\ e \notin tx[u].shells
      BY <1>1, <2>3 DEF CommitExtraction
    <2> QED BY <2>1, <2>2, <2>3
  <1>5. ~ doc'[d].escrow
    BY <1>2, <1>4
  <1>6. EscrowIsNotBilled'
    <2>1. ASSUME NEW e \in Docs, doc'[e].status \notin {"absent", "gone"}, doc'[e].escrow,
                 NEW t \in txns', t.doc = e
          PROVE  t \in severed'
      <3>1. doc'[e] = doc[e] /\ e # d
        BY <1>4, <1>5, <2>1
      <3>2. t \in txns /\ t \notin tx[u].replaced
        BY <1>1, <2>1, <3>1, CommitCommits DEF Visible, TypeInv, TxTied
      <3> QED BY <2>1, <3>1, <3>2, CommitCommits
              DEF EscrowInv, EscrowIsNotBilled, MadeFrom, Exists
    <2> QED BY <2>1 DEF EscrowIsNotBilled, MadeFrom, Exists
  <1>7. ASSUME NEW v \in Users, worker'[v].pc \in {"asked", "persisting"}
        PROVE  ~ doc'[worker'[v].doc].escrow
    <2>1. v # u /\ worker'[v] = worker[v]
      BY <1>7, CommitCommits
    <2>2. worker[v].doc \in Docs /\ ~ doc[worker[v].doc].escrow
      BY <1>7, <2>1, InHand DEF EscrowInv, ReadIsBilled
    <2> QED BY <1>4, <2>1, <2>2
  <1> QED BY <1>6, <1>7 DEF EscrowInv, ReadIsBilled

(* The host marks nothing as paid from escrow while it is being read.      *)
NoEscrowRace == "escrowRace" \notin Ops

LEMMA NotRead ==
    ASSUME NEW d, ~ BeingRead(d), NEW u \in Users, worker[u].pc \in {"asked", "persisting"}
    PROVE  worker[u].doc # d
  BY DEF BeingRead

LEMMA SetEscrowPaidKeepsEscrow ==
    ASSUME TypeInv, EscrowInv, NoEscrowRace, NEW d \in Docs, NEW paid \in BOOLEAN,
           SetEscrowPaid(d, paid)
    PROVE  EscrowInv'
  <1>1. /\ ~ BeingRead(d)
        /\ doc' = [doc EXCEPT ![d].escrow = paid]
        /\ worker' = worker
    BY DEF SetEscrowPaid, NoEscrowRace
  <1>2. PICK gone : /\ gone = IF paid THEN MadeFrom(d) \ severed ELSE {}
                    /\ txns' = txns \ gone /\ severed' = severed \ gone
    BY DEF SetEscrowPaid, Forget
  <1>3. doc \in [Docs -> RowType]
    BY DEF TypeInv, TypeOK
  <1>4. \A e \in Docs \ {d} : doc'[e] = doc[e]
    BY <1>1, <1>3
  <1>5. doc'[d].escrow = paid
    BY <1>1, <1>3 DEF RowType
  <1>6. EscrowIsNotBilled'
    <2>1. ASSUME NEW e \in Docs, doc'[e].status \notin {"absent", "gone"}, doc'[e].escrow,
                 NEW t \in txns', t.doc = e
          PROVE  t \in severed'
      <3>1. CASE e = d
        BY <1>2, <1>5, <2>1, <3>1 DEF MadeFrom
      <3>2. CASE e # d
        BY <1>2, <1>4, <2>1, <3>2 DEF EscrowInv, EscrowIsNotBilled, MadeFrom, Exists
      <3> QED BY <3>1, <3>2
    <2> QED BY <2>1 DEF EscrowIsNotBilled, MadeFrom, Exists
  <1>7. ASSUME NEW v \in Users, worker'[v].pc \in {"asked", "persisting"}
        PROVE  ~ doc'[worker'[v].doc].escrow
    <2>1. worker[v].doc \in Docs /\ ~ doc[worker[v].doc].escrow /\ worker[v].doc # d
      BY <1>1, <1>7, InHand, NotRead DEF EscrowInv, ReadIsBilled
    <2> QED BY <1>1, <1>4, <2>1
  <1> QED BY <1>6, <1>7 DEF EscrowInv, ReadIsBilled

LEMMA HostKeepsEscrow ==
    ASSUME TypeInv, EscrowInv, NoEscrowRace, HostNext
    PROVE  EscrowInv'
  <1> DEFINE Goal == /\ \A d \in Docs : EscrowKept(d)
                     /\ txns' \subseteq txns
                     /\ \A t \in txns' : t \in severed => t \in severed'
  <1>1. doc \in [Docs -> RowType] /\ \A d \in Docs : doc[d] \in RowType
    BY RowFields DEF TypeInv, TypeOK
  <1>2. ASSUME Goal  PROVE EscrowInv'
    <2>1. \A u \in Users : ReadKept(u)
      BY HostTypes DEF ReadKept
    <2> QED BY <1>2, <2>1, EscrowStays
  <1>3. ASSUME NEW u \in Users, NEW f \in Files, NEW reference \in BOOLEAN,
               Upload(u, f, reference)
        PROVE  Goal
    <2>1. PICK new \in NextIds : \E old \in Replaceable(f) :
              doc' = [d \in Docs |-> IF d = new THEN NewRow(u, f, f, reference, FALSE)
                                    ELSE IF d \in old THEN DeletedRow(doc[d])
                                    ELSE doc[d]]
      BY <1>3 DEF Upload
    <2>2. PICK old \in Replaceable(f) :
              doc' = [d \in Docs |-> IF d = new THEN NewRow(u, f, f, reference, FALSE)
                                    ELSE IF d \in old THEN DeletedRow(doc[d])
                                    ELSE doc[d]]
      BY <2>1
    <2>3. doc[new].status = "absent"
      BY DEF NextIds, Unused
    <2>4. \A d \in old : Exists(d)
      BY DEF Replaceable, Twins, Exists
    <2>5. ASSUME NEW d \in Docs  PROVE EscrowKept(d)
      <3>1. CASE d = new
        BY <2>3, <3>1 DEF EscrowKept
      <3>2. CASE d # new /\ d \in old
        BY <1>1, <2>2, <2>4, <3>2, DeletedRowIsRow DEF EscrowKept
      <3>3. CASE d # new /\ d \notin old
        BY <2>2, <3>3 DEF EscrowKept, Exists
      <3> QED BY <3>1, <3>2, <3>3
    <2> QED BY <1>3, <2>5 DEF Upload, rows
  <1>4. ASSUME NEW u \in Users, UploadZip(u)  PROVE Goal
    <2>1. ASSUME NEW d \in Docs  PROVE EscrowKept(d)
      <3>1. doc'[d] = doc[d] \/ doc[d].status = "absent"
        BY <1>4 DEF UploadZip, Unused
      <3> QED BY <3>1 DEF EscrowKept, Exists
    <2> QED BY <1>4, <2>1 DEF UploadZip, rows
  <1>5. ASSUME NEW d \in Docs, DeleteDocument(d)  PROVE Goal
    <2>1. PICK r : r = [DeletedRow(doc[d]) EXCEPT !.stored = FALSE]
      OBVIOUS
    <2>2. r.escrow = doc[d].escrow
      BY <1>1, <2>1, DeletedRowIsRow DEF RowType
    <2>3. doc' = [doc EXCEPT ![d] = r] /\ Exists(d)
      BY <1>1, <1>5, <2>1 DEF DeleteDocument
    <2> QED BY <1>1, <1>5, <2>2, <2>3 DEF DeleteDocument, rows, EscrowKept, Exists
  <1>6. ASSUME NEW d \in Docs, ReExtract(d)  PROVE Goal
    <2>1. \A e \in Docs : EscrowKept(e)
      BY <1>6, StatusEscrowKept DEF ReExtract, Statuses
    <2> QED BY <1>6, <2>1 DEF ReExtract, rows
  <1>7. ASSUME NEW ds \in SUBSET Docs, BulkDelete(ds)  PROVE Goal
    <2>1. ASSUME NEW d \in Docs  PROVE EscrowKept(d)
      <3>1. CASE d \in ds
        BY <1>1, <1>7, <3>1, DeletedRowIsRow DEF BulkDelete, EscrowKept
      <3>2. CASE d \notin ds
        BY <1>7, <3>2 DEF BulkDelete, EscrowKept, Exists
      <3> QED BY <3>1, <3>2
    <2> QED BY <1>7, <2>1 DEF BulkDelete, rows
  <1>8. ASSUME NEW d \in Docs, NEW f \in Files, ReplaceFile(d, f)  PROVE Goal
    <2>1. PICK r : r = [doc[d] EXCEPT !.file = f, !.stored = TRUE]
      OBVIOUS
    <2>2. r.escrow = doc[d].escrow /\ r.status = doc[d].status
      BY <1>1, <2>1 DEF RowType
    <2>3. doc' = [doc EXCEPT ![d] = r] /\ Exists(d)
      BY <1>1, <1>8, <2>1 DEF ReplaceFile
    <2> QED BY <1>1, <1>8, <2>2, <2>3 DEF ReplaceFile, rows, EscrowKept, Exists
  <1>9. ASSUME CancelBatch  PROVE Goal
    <2>1. ASSUME NEW d \in Docs  PROVE EscrowKept(d)
      <3>1. doc'[d] = doc[d] \/ doc'[d] = [doc[d] EXCEPT !.status = "gone"]
        BY <1>9 DEF CancelBatch
      <3> QED BY <1>1, <3>1 DEF EscrowKept, Exists, RowType
    <2> QED BY <1>9, <2>1 DEF CancelBatch
  <1>10. ASSUME RetryFailedDocuments  PROVE Goal
    <2>1. ASSUME NEW d \in Docs  PROVE EscrowKept(d)
      <3>1. \/ doc'[d] = doc[d]
            \/ /\ doc'[d] = [doc[d] EXCEPT !.status = "processing", !.due = TRUE]
               /\ doc[d].status = "failed"
        BY <1>10 DEF RetryFailedDocuments
      <3> QED BY <1>1, <3>1 DEF EscrowKept, Exists, RowType
    <2> QED BY <1>10, <2>1 DEF RetryFailedDocuments, rows
  <1>11. ASSUME NEW f \in Files, CleanReExtract(Rank[f])  PROVE Goal
    <2>1. ASSUME NEW d \in Docs  PROVE EscrowKept(d)
      <3>1. \/ doc'[d] = doc[d]
            \/ /\ doc'[d] = [doc[d] EXCEPT !.status = "processing", !.retries = 0, !.due = TRUE]
               /\ Exists(d)
        BY <1>11 DEF CleanReExtract
      <3> QED BY <1>1, <3>1 DEF EscrowKept, Exists, RowType
    <2> QED BY <1>11, <2>1 DEF CleanReExtract
  <1>12. ASSUME NEW t \in txns, DeleteTransaction(t)  PROVE Goal
    BY <1>12, DocEscrowKept DEF DeleteTransaction, Forget
  <1>13. ASSUME NEW t \in txns, UpdateTransaction(t)  PROVE Goal
    BY <1>13, DocEscrowKept DEF UpdateTransaction
  <1>14. ASSUME NEW t \in txns, NEW other \in txns, DismissDuplicates(t, other)  PROVE Goal
    BY <1>14, DocEscrowKept DEF DismissDuplicates
  <1>15. ASSUME NEW t \in txns, NEW other \in txns, NEW merged \in BOOLEAN,
                KeepTransaction(t, other, merged)
         PROVE  Goal
    <2>1. doc' = doc /\ txns' = txns \ {other} /\ severed' = severed \ {other}
      BY <1>15 DEF KeepTransaction
    <2> QED BY <2>1, DocEscrowKept
  <1> HIDE DEF Goal
  <1> QED BY <1>2, <1>3, <1>4, <1>5, <1>6, <1>7, <1>8, <1>9, <1>10, <1>11,
             <1>12, <1>13, <1>14, <1>15, SetEscrowPaidKeepsEscrow DEF HostNext

LEMMA StepKeepsEscrow == NoEscrowRace /\ TypeInv /\ EscrowInv /\ [Next]_vars => EscrowInv'
  <1> SUFFICES ASSUME NoEscrowRace, TypeInv, EscrowInv, [Next]_vars  PROVE EscrowInv'
    OBVIOUS
  <1>1. CASE UNCHANGED vars
    BY <1>1, DocEscrowKept, EscrowStays DEF vars, rows, ReadKept
  <1>2. CASE Drain
    BY <1>2, DocEscrowKept, EscrowStays DEF Drain, rows, ReadKept
  <1>3. ASSUME NEW d \in Docs, RetryFallsDue(d)  PROVE EscrowInv'
    <2>1. doc \in [Docs -> RowType]
      BY DEF TypeInv, TypeOK
    <2>2. ASSUME NEW e \in Docs  PROVE EscrowKept(e)
      <3>1. doc'[e] = doc[e] \/ doc'[e] = [doc[e] EXCEPT !.due = TRUE]
        BY <1>3, <2>1 DEF RetryFallsDue
      <3> QED BY <2>1, <3>1 DEF EscrowKept, Exists, RowType
    <2> QED BY <1>3, <2>2, EscrowStays DEF RetryFallsDue, rows, ReadKept
  <1>4. CASE WorkerCrashes
    <2>1. \A u \in Users : ReadKept(u)
      BY <1>4, IdleType DEF WorkerCrashes, ReadKept
    <2> QED BY <1>4, <2>1, DocEscrowKept, EscrowStays DEF WorkerCrashes, rows
  <1> QED BY <1>1, <1>2, <1>3, <1>4, OutsideKeepsEscrow, PersistItemKeepsEscrow,
             CommitKeepsEscrow, HostKeepsEscrow DEF Next, WorkerNext, Outside

(* A document that is paid from escrow has no transaction of its own, on   *)
(* whatever path it was uploaded, read and marked, as long as the host     *)
(* doesn't mark it while it is being read (set_escrow_paid,                *)
(* process_document): the one gap, which the worker leaves open.           *)
THEOREM EscrowIsLeftOut ==
    ASSUME NoEscrowRace
    PROVE  Spec => []EscrowIsNotBilled
  <1>1. Init => EscrowInv
    BY IdleType DEF Init, EscrowInv, EscrowIsNotBilled, ReadIsBilled, MadeFrom
  <1>2. TypeInv /\ EscrowInv /\ [Next]_vars => EscrowInv'
    BY StepKeepsEscrow
  <1>3. EscrowInv => EscrowIsNotBilled
    BY DEF EscrowInv
  <1> QED BY <1>1, <1>2, <1>3, InitTypes, StepTypes, PTL DEF Spec

-----------------------------------------------------------------------------
(* Nothing a document lists is dropped.                                    *)

(* The host deletes nothing that an open transaction relies on.            *)
NoDeleteRace == "deleteRace" \notin Ops

(* What is removed is relied on by nobody.                                 *)
Spares == \A u \in Users : \A l \in tx[u].linked : \A t \in txns :
    t \notin txns' /\ Payment(l[1]) = Payment(t) => l[1] \in tx[u].made

LEMMA NotReliedOn ==
    ASSUME NEW ts, ~ ReliedOn(ts), NEW u \in Users, NEW l \in tx[u].linked, NEW t \in ts,
           Payment(l[1]) = Payment(t)
    PROVE  l[1] \in tx[u].made
  BY DEF ReliedOn

LEMMA StepSpares ==
    ASSUME TypeInv, NoDeleteRace, [Next]_vars
    PROVE  \/ \E u \in Users : PersistItem(u) \/ CommitExtraction(u)
           \/ Idles /\ Spares
  <1>1. CASE txns' = txns
    BY <1>1, StepIs DEF Spares
  <1>2. CASE HostNext
    <2>1. Idles
      BY <1>2, HostTypes, WorkersUntouched DEF Idles, TypeInv, TypeOK
    <2>2. CASE txns' = txns
      BY <2>1, <2>2 DEF Spares
    <2>3. ASSUME NEW d \in Docs, NEW paid \in BOOLEAN, SetEscrowPaid(d, paid)
          PROVE  Spares
      <3>1. CASE paid
        <4>1. ~ ReliedOn(MadeFrom(d)) /\ txns' = txns \ (MadeFrom(d) \ severed)
          BY <2>3, <3>1 DEF SetEscrowPaid, NoDeleteRace, Forget
        <4> QED BY <4>1, NotReliedOn DEF Spares
      <3>2. CASE ~ paid
        BY <2>3, <3>2 DEF SetEscrowPaid, Forget, Spares
      <3> QED BY <3>1, <3>2
    <2>4. ASSUME NEW t \in txns, DeleteTransaction(t)  PROVE Spares
      <3>1. ~ ReliedOn({t}) /\ txns' = txns \ {t}
        BY <2>4 DEF DeleteTransaction, NoDeleteRace, Forget
      <3> QED BY <3>1, NotReliedOn DEF Spares
    <2>5. ASSUME NEW t \in txns, NEW other \in txns, NEW merged \in BOOLEAN,
                 KeepTransaction(t, other, merged)
          PROVE  Spares
      <3>1. ~ ReliedOn({t}) /\ txns' = txns \ {other} /\ Payment(t) = Payment(other)
        BY <2>5 DEF KeepTransaction, NoDeleteRace
      <3> QED BY <3>1, NotReliedOn DEF Spares
    <2> QED BY <1>2, <2>1, <2>2, <2>3, <2>4, <2>5 DEF HostNext, Upload, UploadZip,
               DeleteDocument, ReExtract, BulkDelete, ReplaceFile, CancelBatch,
               RetryFailedDocuments, CleanReExtract, UpdateTransaction,
               DismissDuplicates, rows
  <1>3. ASSUME NEW u \in Users, Outside(u)  PROVE txns' = txns
    BY <1>3, OutsideTypes DEF rows
  <1> QED BY <1>1, <1>2, <1>3 DEF Next, WorkerNext, Outside, Drain, RetryFallsDue,
             WorkerCrashes, rows, vars

(* A worker's transaction that goes on unchanged.                          *)
LEMMA SameTxCovers ==
    ASSUME NEW u \in Users, Covering, tx'[u] = tx[u], worker'[u].file = worker[u].file,
           \A p : IsDropped(u, p) => IsDropped(u, p)' \/ IsMade(u, p),
           NEW i \in 1 .. (tx'[u].item - 1),
           NEW p, p = Items[worker'[u].file][i], p # Unpriced
    PROVE  IsMade(u, p)' \/ IsDropped(u, p)'
  <1>1. IsMade(u, p) \/ IsDropped(u, p)
    BY DEF Covering
  <1>2. IsMade(u, p) => IsMade(u, p)'
    BY DEF IsMade, Payment
  <1> QED BY <1>1, <1>2

LEMMA IdlesKeepsDrop ==
    ASSUME TypeInv, DropInv, Idles, Spares
    PROVE  DropInv'
  <1>1. txns' \subseteq txns
    BY DEF Idles, RowsShrink
  <1>2. ASSUME NEW u \in Users
        PROVE  tx'[u] = NoTx \/ (tx'[u] = tx[u] /\ worker'[u].file = worker[u].file)
    BY DEF Idles, WorkersStay, TxStays
  <1>3. Apart'
    BY IdlesKeepsApart DEF DropInv
  <1>4. Replacing'
    BY <1>2, NoTxCovers DEF DropInv, Replacing, Payment
  <1>5. ASSUME NEW u \in Users, NEW i \in 1 .. (tx'[u].item - 1),
               NEW p, p = Items[worker'[u].file][i], p # Unpriced
        PROVE  IsMade(u, p)' \/ IsDropped(u, p)'
    <2>1. tx'[u] = tx[u] /\ worker'[u].file = worker[u].file
      BY <1>2, <1>5, NoTxCovers
    <2>2. ASSUME NEW q, IsDropped(u, q)  PROVE IsDropped(u, q)' \/ IsMade(u, q)
      <3>1. PICK l \in tx[u].linked : l[1] \notin tx[u].made /\ Payment(l[1]) = q
        BY <2>2 DEF IsDropped
      <3>2. PICK t \in Visible(u) : Payment(t) = q
        BY <2>2 DEF IsDropped
      <3>3. t \in tx[u].made \/ t \in txns'
        BY <3>1, <3>2 DEF Spares, Visible
      <3>4. CASE t \in tx[u].made
        BY <3>2, <3>4 DEF IsMade
      <3>5. CASE t \in txns'
        <4>1. t \in Visible(u)'
          BY <2>1, <3>2, <3>5 DEF Visible
        <4> QED BY <2>1, <3>1, <3>2, <4>1 DEF IsDropped, Payment
      <3> QED BY <3>3, <3>4, <3>5
    <2> QED BY <1>5, <2>1, <2>2, SameTxCovers DEF DropInv
  <1> QED BY <1>3, <1>4, <1>5 DEF DropInv, Covering

LEMMA PersistItemKeepsDrop ==
    ASSUME TypeInv, DropInv, NEW u \in Users, PersistItem(u)
    PROVE  DropInv'
  <1>1. txns' = txns
    BY DEF PersistItem, rows
  <1>2. ASSUME NEW v \in Users, v # u
        PROVE  tx'[v] = tx[v] /\ worker'[v] = worker[v]
    BY <1>2, InHand, PersistItemPersists DEF Raised, GoesOn
  <1>3. ASSUME NEW v \in Users, v # u, NEW i \in 1 .. (tx'[v].item - 1),
               NEW p, p = Items[worker'[v].file][i], p # Unpriced
        PROVE  IsMade(v, p)' \/ IsDropped(v, p)'
    <2>1. \A q : IsDropped(v, q) => IsDropped(v, q)'
      BY <1>1, <1>2, <1>3 DEF IsDropped, Visible, Payment
    <2> QED BY <1>2, <1>3, <2>1, SameTxCovers DEF DropInv
  <1>4. CASE Raised(u)
    <2>1. tx'[u] = NoTx
      BY <1>4, InHand DEF Raised
    <2>2. Apart'
      BY PersistItemKeepsApart DEF DropInv
    <2>3. Replacing'
      BY <1>2, <2>1, NoTxCovers DEF DropInv, Replacing, Payment
    <2> QED BY <1>3, <2>1, <2>2, <2>3, NoTxCovers DEF DropInv, Covering
  <1>5. CASE GoesOn(u) /\ (Unlisted(u) \/ Skipped(u) \/ Made(u))
    <2>1. PICK n : n = tx[u].item
      OBVIOUS
    <2>2. n \in Nat /\ tx'[u].item = n + 1 /\ worker' = worker
      BY <1>5, <2>1, TxFields DEF GoesOn
    <2>3. \A i \in 1 .. (tx'[u].item - 1) : i = n \/ i \in 1 .. (tx[u].item - 1)
      BY <2>1, <2>2
    <2>4. CASE Unlisted(u) \/ Skipped(u)
      <3>1. Kept(u) /\ tx[u].linked \subseteq tx'[u].linked
        BY <2>4 DEF Unlisted, Skipped
      <3>2. Apart'
        BY PersistItemKeepsApart DEF DropInv
      <3>3. Replacing'
        BY <1>2, <2>2, <3>1 DEF DropInv, Replacing, Kept, Payment
      <3>4. ASSUME NEW p  PROVE /\ IsMade(u, p) => IsMade(u, p)'
                                /\ IsDropped(u, p) => IsDropped(u, p)'
        BY <1>1, <3>1 DEF IsMade, IsDropped, Visible, Kept, Payment
      <3>5. ASSUME NEW p, p = ThisPayment(u), p # Unpriced
            PROVE  IsMade(u, p)' \/ IsDropped(u, p)'
        <4>1. PICK t \in Visible(u) :
                /\ Payment(t) = p
                /\ tx'[u].linked = tx[u].linked \union {<<t, worker[u].doc>>}
          BY <2>4, <3>5 DEF Unlisted, Skipped
        <4>2. CASE t \in tx[u].made
          BY <3>4, <4>1, <4>2 DEF IsMade
        <4>3. CASE t \notin tx[u].made
          <5>1. PICK l : l = <<t, worker[u].doc>>
            OBVIOUS
          <5>2. l \in tx'[u].linked /\ l[1] \notin tx'[u].made /\ Payment(l[1]) = p
            BY <3>1, <4>1, <4>3, <5>1 DEF Kept
          <5>3. t \in Visible(u)' /\ Payment(t) = p
            BY <1>1, <3>1, <4>1 DEF Visible, Kept
          <5> QED BY <5>2, <5>3 DEF IsDropped, Payment
        <4> QED BY <4>2, <4>3
      <3>6. ASSUME NEW i \in 1 .. (tx'[u].item - 1),
                   NEW p, p = Items[worker'[u].file][i], p # Unpriced
            PROVE  IsMade(u, p)' \/ IsDropped(u, p)'
        <4>1. CASE i = n
          BY <2>1, <2>2, <3>5, <3>6, <4>1 DEF ThisPayment
        <4>2. CASE i \in 1 .. (tx[u].item - 1)
          BY <2>2, <3>4, <3>6, <4>2 DEF DropInv, Covering
        <4> QED BY <2>3, <4>1, <4>2
      <3> QED BY <1>3, <3>2, <3>3, <3>6 DEF DropInv, Covering
    <2>5. CASE Made(u)
      <3>1. PICK t \in TxnIds : Creates(u, t) \/ Marks(u, t) \/ \E s \in TxnIds : Replaces(u, t, s)
        BY <2>5 DEF Made
      <3>2. Makes(u, t) /\ Payment(t) = ThisPayment(u)
        BY <2>5, <3>1, MadeIsReal DEF Made, Creates, Marks, Replaces
      <3>3. /\ tx'[u].made = tx[u].made \union {t}
            /\ tx[u].linked \subseteq tx'[u].linked
        BY <3>2 DEF Makes
      <3>4. \A s \in tx'[u].replaced :
               \/ s \in tx[u].replaced
               \/ s \in Visible(u) /\ s.file # worker[u].file /\ Payment(s) = ThisPayment(u)
        BY <3>1 DEF Creates, Marks, Replaces
      <3>5. /\ t \notin txns
            /\ \A v \in Users : /\ t \notin tx[v].made /\ t \notin tx[v].replaced
                                /\ \A l \in tx[v].linked : l[1] # t
        BY <3>2 DEF Makes, KnownIds
      <3>6. Apart'
        BY PersistItemKeepsApart DEF DropInv
      <3>7. Replacing'
        <4>1. ASSUME NEW s \in tx'[u].replaced
              PROVE  /\ s.file # worker[u].file
                     /\ \E t2 \in tx'[u].made : Payment(t2) = Payment(s)
          <5>1. CASE s \in tx[u].replaced
            BY <3>3, <5>1 DEF DropInv, Replacing
          <5>2. CASE s \notin tx[u].replaced
            BY <3>2, <3>3, <3>4, <4>1, <5>2
          <5> QED BY <5>1, <5>2
        <4> QED BY <1>2, <2>2, <4>1 DEF DropInv, Replacing, Payment
      <3>8. ASSUME NEW p, IsMade(u, p) \/ IsDropped(u, p)
            PROVE  IsMade(u, p)' \/ IsDropped(u, p)'
        <4>1. CASE IsMade(u, p)
          BY <3>3, <4>1 DEF IsMade, Payment
        <4>2. CASE IsDropped(u, p)
          <5>1. PICK l \in tx[u].linked : l[1] \notin tx[u].made /\ Payment(l[1]) = p
            BY <4>2 DEF IsDropped
          <5>2. PICK t0 \in Visible(u) : Payment(t0) = p
            BY <4>2 DEF IsDropped
          <5>3. l \in tx'[u].linked /\ l[1] \notin tx'[u].made
            BY <3>3, <3>5, <5>1
          <5>4. CASE t0 \in tx'[u].replaced
            <6>1. Payment(t0) = ThisPayment(u)
              BY <3>4, <5>2, <5>4 DEF Visible
            <6> QED BY <3>2, <3>3, <5>2, <6>1 DEF IsMade, Payment
          <5>5. CASE t0 \notin tx'[u].replaced
            <6>1. t0 \in Visible(u)'
              BY <1>1, <3>3, <5>2, <5>5 DEF Visible
            <6> QED BY <5>1, <5>2, <5>3, <6>1 DEF IsDropped, Payment
          <5> QED BY <5>4, <5>5
        <4> QED BY <3>8, <4>1, <4>2
      <3>9. ASSUME NEW i \in 1 .. (tx'[u].item - 1),
                   NEW p, p = Items[worker'[u].file][i], p # Unpriced
            PROVE  IsMade(u, p)' \/ IsDropped(u, p)'
        <4>1. CASE i = n
          <5>1. Payment(t) = p
            BY <2>1, <2>2, <3>2, <3>9, <4>1 DEF ThisPayment
          <5> QED BY <3>3, <5>1 DEF IsMade, Payment
        <4>2. CASE i \in 1 .. (tx[u].item - 1)
          <5>1. IsMade(u, p) \/ IsDropped(u, p)
            BY <2>2, <3>9, <4>2 DEF DropInv, Covering
          <5> QED BY <3>8, <5>1
        <4> QED BY <2>3, <4>1, <4>2
      <3> QED BY <1>3, <3>6, <3>7, <3>9 DEF DropInv, Covering
    <2> QED BY <1>5, <2>4, <2>5
  <1> QED BY <1>4, <1>5, PersistItemPersists

(* Another worker's replacements are there once it has committed.          *)
LEMMA CommitKeepsDrop ==
    ASSUME TypeInv, DropInv, NEW v \in Users, CommitExtraction(v)
    PROVE  DropInv'
  <1>1. /\ txns' = Visible(v) /\ tx'[v] = NoTx
        /\ \A u \in Users \ {v} : tx'[u] = tx[u] /\ worker'[u] = worker[u]
    BY CommitCommits
  <1>2. Apart'
    BY CommitKeepsApart DEF DropInv
  <1>3. Replacing'
    BY <1>1, NoTxCovers DEF DropInv, Replacing, Payment
  <1>4. ASSUME NEW u \in Users, NEW i \in 1 .. (tx'[u].item - 1),
               NEW p, p = Items[worker'[u].file][i], p # Unpriced
        PROVE  IsMade(u, p)' \/ IsDropped(u, p)'
    <2>1. u # v /\ tx'[u] = tx[u] /\ worker'[u].file = worker[u].file
      BY <1>1, <1>4, NoTxCovers
    <2>2. ASSUME NEW q, IsDropped(u, q)  PROVE IsDropped(u, q)' \/ IsMade(u, q)
      <3>1. PICK l \in tx[u].linked : l[1] \notin tx[u].made /\ Payment(l[1]) = q
        BY <2>2 DEF IsDropped
      <3>2. PICK t \in Visible(u) : Payment(t) = q
        BY <2>2 DEF IsDropped
      <3>3. CASE t \in tx[u].made
        BY <3>2, <3>3 DEF IsMade
      <3>4. CASE t \in txns /\ t \notin tx[v].replaced
        <4>1. t \in Visible(u)'
          BY <1>1, <2>1, <3>2, <3>4 DEF Visible
        <4> QED BY <2>1, <3>1, <3>2, <4>1 DEF IsDropped, Payment
      <3>5. CASE t \in txns /\ t \in tx[v].replaced
        <4>1. PICK t2 \in tx[v].made : Payment(t2) = q
          BY <3>2, <3>5 DEF DropInv, Replacing
        <4>2. t2 \notin tx[v].replaced
          BY <4>1 DEF DropInv, Replacing, TypeInv, TxTied
        <4>3. t2 \notin tx[u].replaced
          BY <2>1, <4>1 DEF DropInv, Apart
        <4>4. t2 \in Visible(u)'
          BY <1>1, <2>1, <4>1, <4>2, <4>3 DEF Visible
        <4> QED BY <2>1, <3>1, <4>1, <4>4 DEF IsDropped, Payment
      <3> QED BY <3>2, <3>3, <3>4, <3>5 DEF Visible
    <2> QED BY <1>4, <2>1, <2>2, SameTxCovers DEF DropInv
  <1> QED BY <1>2, <1>3, <1>4 DEF DropInv, Covering

LEMMA CommitDropsNothing ==
    ASSUME TypeInv, DropInv, NEW u \in Users, CommitExtraction(u),
           NEW p \in Handled(worker[u].file)
    PROVE  \E t \in txns' : Payment(t) = p
  <1>1. PICK i \in 1 .. Len(Items[worker[u].file]) :
          p = Items[worker[u].file][i] /\ p # Unpriced
    BY DEF Handled
  <1>2. PICK n, m : n = tx[u].item /\ m = Len(Items[worker[u].file])
    OBVIOUS
  <1>3. worker[u].file \in Files
    BY InHand, CommitCommits
  <1>4. n \in Nat /\ m \in Nat /\ ~ (n <= m) /\ i \in 1 .. m
    <2>1. PICK s : s = Items[worker[u].file]
      OBVIOUS
    <2>2. s \in Seq(Payments \union {Unpriced})
      BY <1>3, <2>1, ConstantsAssumption
    <2>3. m \in Nat
      BY <1>2, <2>1, <2>2
    <2> QED BY <1>2, <2>3, TxFields, CommitCommits DEF ItemsLeft
  <1>5. i \in 1 .. (n - 1)
    BY <1>4
  <1>6. IsMade(u, p) \/ IsDropped(u, p)
    BY <1>1, <1>2, <1>5 DEF DropInv, Covering
  <1>7. tx[u].made \subseteq Visible(u)
    BY DEF DropInv, Replacing, TypeInv, TxTied, Visible
  <1> QED BY <1>6, <1>7, CommitCommits DEF IsMade, IsDropped

(* Only its commit has a worker go on from its transaction.                *)
LEMMA OnlyCommitEnds ==
    ASSUME TypeInv, [Next]_vars, NEW u \in Users,
           worker[u].pc = "persisting", worker'[u].pc = "recompute"
    PROVE  CommitExtraction(u)
  <1>1. worker' # worker
    OBVIOUS
  <1>2. ASSUME NEW v \in Users, Outside(v)  PROVE FALSE
    <2>1. CASE v # u
      <3>1. worker'[u] = worker[u]
        BY <1>2, <2>1, InHand DEF Outside, Claim, NothingToClaim, Load, CompleteReference,
           ModelAnswers, ModelUnavailable, ModelRefuses, TimeOut, FinishRecompute,
           HandleFailure, Raise, Goto
      <3> QED BY <3>1
    <2>2. CASE v = u
      <3>1. TimeOut(u) \/ NothingToClaim(u)
        BY <1>2, <2>2 DEF Outside, Claim, NothingToClaim, Load, CompleteReference,
           ModelAnswers, ModelUnavailable, ModelRefuses, FinishRecompute, HandleFailure
      <3>2. Raised(u)
        BY <1>1, <3>1, RaiseRaises DEF TimeOut, NothingToClaim
      <3>3. worker'[u].pc = "failing"
        BY <3>2, InHand DEF Raised, WorkerType
      <3> QED BY <3>3
    <2> QED BY <2>1, <2>2
  <1>3. ASSUME NEW v \in Users, PersistItem(v)  PROVE FALSE
    <2>1. Raised(v)
      BY <1>1, <1>3, PersistItemPersists DEF GoesOn
    <2>2. v # u => worker'[u] = worker[u]
      BY <2>1, InHand DEF Raised
    <2>3. v = u => worker'[u].pc = "failing"
      BY <2>1, InHand DEF Raised, WorkerType
    <2> QED BY <2>2, <2>3
  <1>4. ASSUME NEW v \in Users, CommitExtraction(v)  PROVE v = u
    BY <1>4, CommitCommits
  <1>5. ~ HostNext
    BY <1>1, HostTypes
  <1>6. ~ WorkerCrashes
    BY IdleType DEF WorkerCrashes
  <1> QED BY <1>1, <1>2, <1>3, <1>4, <1>5, <1>6 DEF Next, WorkerNext, Outside, Drain,
             RetryFallsDue, vars

(* Whatever a document lists is recorded once its extraction commits,      *)
(* though the rows its items were dropped for may be replaced, merged or   *)
(* committed by others while its transaction is open, as long as the host  *)
(* doesn't delete one of them then (evaluate_dedup, resolve_and_link).     *)
THEOREM AllIsRecorded ==
    ASSUME NoDeleteRace
    PROVE  Spec => NothingIsDropped
  <1>1. Init => DropInv
    BY NoTxType DEF Init, DropInv, Apart, Replacing, Covering
  <1>2. TypeInv /\ DropInv /\ [Next]_vars => DropInv'
    BY StepSpares, IdlesKeepsDrop, PersistItemKeepsDrop, CommitKeepsDrop
  <1>3. TypeInv /\ DropInv /\ [Next]_vars
          => [\A u \in Users :
                (worker[u].pc = "persisting" /\ worker'[u].pc = "recompute")
                => \A p \in Handled(worker[u].file) : \E t \in txns' : Payment(t) = p]_vars
    BY OnlyCommitEnds, CommitDropsNothing
  <1> QED BY <1>1, <1>2, <1>3, InitTypes, StepTypes, PTL DEF Spec, NothingIsDropped

=============================================================================
