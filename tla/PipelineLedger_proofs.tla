------------------------- MODULE PipelineLedger_proofs -------------------------
(***************************************************************************)
(* What holds of every history the state service writes, for any number of *)
(* items, keys, corrections and transitions.                               *)
(*                                                                         *)
(* All of it rests on one lemma, ExtendKeeps: rows that are linked to the  *)
(* item they are appended to keep the history one chain, typed, and with   *)
(* one row per key.  Every action appends linked rows.  The funnel and the *)
(* browser's actions follow, each with the invariant it needs.             *)
(***************************************************************************)
EXTENDS PipelineRequests, PipelineActions, SequenceTheorems, TLAPS

(* The UNIQUE constraint on idempotency_key, over all items. *)
KeysUnique ==
  \A i, j \in Item : \A n \in 1 .. Version(i), m \in 1 .. Version(j) :
    history[i][n].key # None /\ history[i][n].key = history[j][m].key => i = j /\ n = m

IInv == LedgerTypeOK /\ LedgerChain /\ KeysUnique

(* Rows that may follow the history of an item: they start from its state, *)
(* each starts where the one before it ended, and only the last carries    *)
(* the key, new, of a request made at the item's version.                  *)
Linked(i, rows, k) ==
  /\ rows \in Seq(Transition) /\ rows # << >>
  /\ history[i] # << >> => rows[1].before = projection[i]
  /\ \A n \in 2 .. Len(rows) : rows[n].before = rows[n - 1].after
  /\ \A n \in 1 .. Len(rows) : rows[n].key # None =>
       /\ rows[n].key = k /\ n = Len(rows) /\ rows[n].expected = Version(i)
       /\ \A m \in 1 .. n : rows[m].request = rows[n].request
  /\ k # None => rows[Len(rows)].key = k /\ ~Used(k)

(* insert_transition after insert_transition: what the rows of one         *)
(* transaction leave is again one chain with one row per key.              *)
LEMMA ExtendKeeps ==
  ASSUME IInv, NEW i \in Item, NEW k \in Key \cup {None}, NEW rows,
         Linked(i, rows, k), Extend(i, rows, k)
  PROVE  IInv'
<1> DEFINE h == history[i] \o rows
           last == h[Len(h)].after
<1>1. history[i] \in Seq(Transition) /\ rows \in Seq(Transition)
  BY DEF IInv, LedgerTypeOK, Linked
<1>2. /\ h \in Seq(Transition)
      /\ Len(h) = Len(history[i]) + Len(rows)
      /\ \A n \in 1 .. Len(history[i]) + Len(rows) :
           h[n] = IF n <= Len(history[i]) THEN history[i][n] ELSE rows[n - Len(history[i])]
  BY <1>1, ConcatProperties
<1>3. Len(rows) \in Nat \ {0} /\ Len(history[i]) \in Nat
  BY <1>1, EmptySeq DEF Linked
<1>4. history' = [history EXCEPT ![i] = h] /\ projection' = [projection EXCEPT ![i] = last]
  BY DEF Extend
<1>5. /\ history'[i] = h
      /\ projection'[i] = last
      /\ \A j \in Item \ {i} : history'[j] = history[j] /\ projection'[j] = projection[j]
  BY <1>4 DEF IInv, LedgerTypeOK
<1>6. h[Len(h)] \in Transition /\ h # << >> /\ last \in State /\ last # None
  <2>1. Len(h) \in 1 .. Len(h) /\ Len(h) \in Nat
    BY <1>2, <1>3
  <2>2. h[Len(h)] \in Transition /\ h # << >>
    BY <1>2, <2>1
  <2>3. last \in State
    BY <2>2 DEF Transition
  <2> QED
    BY <2>2, <2>3, LedgerAssumption
<1>7. LedgerTypeOK'
  <2>1. history' \in [Item -> Seq(Transition)]
    BY <1>2, <1>4 DEF IInv, LedgerTypeOK
  <2>2. projection' \in [Item -> State \cup {None}]
    BY <1>4, <1>6 DEF IInv, LedgerTypeOK
  <2>3. [item |-> i, after |-> last, version |-> Len(h)] \in Answer
    BY <1>2, <1>3, <1>6 DEF Answer
  <2>4. answer' \in [Key -> Answer \cup {None}]
    BY <2>3 DEF IInv, LedgerTypeOK, Extend
  <2>5. \A j \in Item : projection'[j] = None <=> history'[j] = << >>
    BY <1>5, <1>6 DEF IInv, LedgerTypeOK
  <2> QED
    BY <2>1, <2>2, <2>4, <2>5 DEF LedgerTypeOK
<1>8. LedgerChain'
  <2>1. SUFFICES ASSUME NEW j \in Item
                 PROVE  /\ \A n \in 2 .. Version(j)' : history'[j][n].before = history'[j][n - 1].after
                        /\ history'[j] # << >> => projection'[j] = history'[j][Version(j)'].after
                        /\ \A n \in 1 .. Version(j)' : history'[j][n].key # None =>
                             \A m \in history'[j][n].expected + 1 .. n - 1 :
                               /\ history'[j][m].key = None
                               /\ history'[j][m].request = history'[j][n].request
    BY DEF LedgerChain, Version
  <2>2. CASE j # i
    BY <1>5, <2>1, <2>2 DEF IInv, LedgerChain, Version
  <2>3. CASE j = i
    <3> DEFINE L == Len(history[i])
    <3>1. Version(j)' = L + Len(rows)
      BY <1>2, <1>5, <2>3 DEF Version
    <3>2. ASSUME NEW n \in 2 .. L + Len(rows)
          PROVE  h[n].before = h[n - 1].after
      <4>1. CASE n <= L
        <5>1. h[n] = history[i][n] /\ h[n - 1] = history[i][n - 1] /\ n \in 2 .. Version(i)
          BY <1>2, <1>3, <3>2, <4>1 DEF Version
        <5> QED
          BY <5>1 DEF IInv, LedgerChain
      <4>2. CASE n = L + 1
        <5>1. history[i] # << >> /\ L \in 1 .. L
          BY <1>1, <1>3, <4>2, EmptySeq
        <5>2. h[n] = rows[1] /\ h[n - 1] = history[i][L]
          BY <1>2, <1>3, <4>2, <5>1
        <5> QED
          BY <5>1, <5>2 DEF IInv, LedgerChain, Version, Linked
      <4>3. CASE n > L + 1
        <5>1. h[n] = rows[n - L] /\ h[n - 1] = rows[(n - L) - 1] /\ n - L \in 2 .. Len(rows)
          BY <1>1, <1>2, <1>3, <4>3, SMTT(60)
        <5> QED
          BY <5>1 DEF Linked
      <4>4. n <= L \/ n = L + 1 \/ n > L + 1
        BY <1>3, <3>2
      <4> QED
        BY <4>1, <4>2, <4>3, <4>4
    <3>3. ASSUME NEW n \in 1 .. L + Len(rows), h[n].key # None,
                 NEW m \in h[n].expected + 1 .. n - 1
          PROVE  h[m].key = None /\ h[m].request = h[n].request
      <4>0. h[n] \in Transition /\ h[n].expected \in Nat /\ m \in 1 .. L + Len(rows) /\ m < n
        <5>1. h[n] \in Transition
          BY <1>2, <1>3, <3>3
        <5>2. h[n].expected \in Nat
          BY <5>1 DEF Transition
        <5> QED
          BY <1>3, <3>3, <5>1, <5>2
      <4>1. CASE n <= L
        <5>1. h[n] = history[i][n] /\ h[m] = history[i][m]
          BY <1>2, <1>3, <4>0, <4>1
        <5>2. n \in 1 .. Version(i) /\ m \in history[i][n].expected + 1 .. n - 1
          BY <1>3, <4>1, <5>1 DEF Version
        <5> QED
          BY <3>3, <5>1, <5>2 DEF IInv, LedgerChain
      <4>2. CASE n > L
        <5>1. h[n] = rows[n - L] /\ n - L \in 1 .. Len(rows)
          BY <1>2, <1>3, <4>2
        <5>2. h[n].expected = L /\ n - L = Len(rows)
              /\ \A q \in 1 .. n - L : rows[q].request = rows[n - L].request
          BY <3>3, <5>1 DEF Linked, Version
        <5>3. h[m] = rows[m - L] /\ m - L \in 1 .. n - L /\ m - L # n - L /\ m - L \in 1 .. Len(rows)
          BY <1>2, <1>3, <4>0, <5>1, <5>2
        <5>4. rows[m - L].key = None
          BY <5>2, <5>3 DEF Linked
        <5> QED
          BY <5>1, <5>2, <5>3, <5>4
      <4>3. n <= L \/ n > L
        BY <1>3, <3>3
      <4> QED
        BY <4>1, <4>2, <4>3
    <3> HIDE DEF h
    <3>4. projection'[j] = h[Version(j)'].after
      BY <1>2, <1>5, <2>3, <3>1
    <3> QED
      BY <1>5, <2>3, <3>1, <3>2, <3>3, <3>4
  <2> QED
    BY <2>2, <2>3
<1>9. KeysUnique'
  <2>1. SUFFICES ASSUME NEW a \in Item, NEW b \in Item,
                        NEW n \in 1 .. Version(a)', NEW m \in 1 .. Version(b)',
                        history'[a][n].key # None, history'[a][n].key = history'[b][m].key
                 PROVE  a = b /\ n = m
    BY DEF KeysUnique, Version
  <2> DEFINE New(c, q) == c = i /\ q > Len(history[i])
  <2>2. ASSUME NEW c \in Item, NEW q \in 1 .. Version(c)', ~New(c, q)
        PROVE  q \in 1 .. Version(c) /\ history'[c][q] = history[c][q]
    <3>1. CASE c # i
      BY <1>5, <2>2, <3>1 DEF Version
    <3>2. CASE c = i
      <4>1. q \in 1 .. Len(h) /\ q <= Len(history[i])
        BY <1>2, <1>3, <1>5, <2>2, <3>2 DEF Version
      <4> QED
        BY <1>2, <1>3, <1>5, <3>2, <4>1 DEF Version
    <3> QED
      BY <3>1, <3>2
  <2>3. ASSUME NEW c \in Item, NEW q \in 1 .. Version(c)', New(c, q), history'[c][q].key # None
        PROVE  /\ q = Len(h) /\ history'[c][q].key = k /\ k # None
               /\ ~Used(k)
    <3>1. history'[c][q] = rows[q - Len(history[i])] /\ q - Len(history[i]) \in 1 .. Len(rows)
      <4>1. q \in 1 .. Len(h) /\ q > Len(history[i]) /\ history'[c] = h
        BY <1>5, <2>3 DEF Version
      <4>2. q \in 1 .. Len(history[i]) + Len(rows) /\ ~(q <= Len(history[i]))
        BY <1>2, <1>3, <4>1
      <4>3. h[q] = rows[q - Len(history[i])]
        BY <1>2, <4>2
      <4>4. q - Len(history[i]) \in 1 .. Len(rows)
        BY <1>3, <4>2
      <4> QED
        BY <4>1, <4>3, <4>4
    <3>2. q - Len(history[i]) = Len(rows) /\ history'[c][q].key = k
      BY <2>3, <3>1 DEF Linked
    <3> QED
      BY <1>2, <1>3, <2>3, <3>2 DEF Linked
  <2>4. CASE New(a, n) /\ New(b, m)
    BY <2>1, <2>3, <2>4
  <2>5. CASE New(a, n) /\ ~New(b, m)
    BY <2>1, <2>2, <2>3, <2>5 DEF Used
  <2>6. CASE ~New(a, n) /\ New(b, m)
    BY <2>1, <2>2, <2>3, <2>6 DEF Used
  <2>7. CASE ~New(a, n) /\ ~New(b, m)
    BY <2>1, <2>2, <2>7 DEF IInv, KeysUnique
  <2> QED
    BY <2>4, <2>5, <2>6, <2>7
<1> QED
  BY <1>7, <1>8, <1>9 DEF IInv

-----------------------------------------------------------------------------
(* A transaction of one row, asked for at the version of the item.         *)
LEMMA OneRowLinked ==
  ASSUME LedgerTypeOK, NEW i \in Item, NEW k \in Key, NEW row \in Transition, ~Used(k),
         row.before = projection[i], row.key = k, row.expected = Version(i)
  PROVE  Linked(i, <<row>>, k)
<1>1. <<row>> \in Seq(Transition) /\ Len(<<row>>) = 1 /\ <<row>>[1] = row /\ <<row>> # << >>
  OBVIOUS
<1>2. \A n \in 1 .. Len(<<row>>) : n = 1
  BY <1>1
<1>3. \A n \in 2 .. Len(<<row>>) : FALSE
  BY <1>1
<1> QED
  BY <1>1, <1>2, <1>3 DEF Linked

(* validate_state of the backfill's rows.                                  *)
LEMMA LegacyTyped ==
  ASSUME NEW row \in Legacy
  PROVE  LegacyProjection(row) \in State
<1>1. row.reminder \in Reminder \cup {None}
  BY LedgerAssumption
<1> QED
  BY <1>1 DEF LegacyProjection, State

\* The statuses that follow one are statuses.
LEMMA ForwardTyped ==
  ASSUME NEW s \in Status
  PROVE  Forward(s) \subseteq Status
BY DEF Forward, Status

(* What every action of the service does to an item, for some rows.        *)
Appends(i, k) == \E rows : Linked(i, rows, k) /\ Extend(i, rows, k)

(* apply_mutation, with a state its builder made.                          *)
LEMMA MutateAppends ==
  ASSUME IInv, NEW i \in Item, NEW k \in Key, NEW e \in 1 .. MaxVersion,
         NEW dim \in Dimension, NEW request \in Request, NEW after \in State,
         Mutate(i, k, e, dim, request, after)
  PROVE  Appends(i, k)
<1> DEFINE row == Row(dim, "none", projection[i], after, k, e, request)
<1>1. projection[i] \in State /\ ~Used(k) /\ Version(i) = e /\ e \in Nat
  BY LedgerAssumption DEF Mutate, Fresh, IInv, LedgerTypeOK
<1>2. row \in Transition /\ row.before = projection[i] /\ row.key = k /\ row.expected = e
  BY <1>1 DEF Row, Transition, Class
<1>3. Linked(i, <<row>>, k)
  BY <1>1, <1>2, OneRowLinked DEF IInv
<1>4. Extend(i, <<row>>, k)
  BY DEF Mutate
<1> QED
  BY <1>3, <1>4 DEF Appends

\* A request of the service appends to one history under its key, or nothing.
LEMMA ServiceAppends ==
  ASSUME IInv, NEW i \in Item, NEW k \in Key, NEW e \in 1 .. MaxVersion, Service(i, k, e)
  PROVE  Appends(i, k)
<1>0. projection[i] # None => projection[i] \in State
  BY DEF IInv, LedgerTypeOK
<1>1. ASSUME NEW s \in Status, ChangeWorkflow(i, k, e, s)
      PROVE  Appends(i, k)
  <2>1. [projection[i] EXCEPT !.status = s, !.provenance = "known"] \in State
    BY <1>0, <1>1 DEF ChangeWorkflow, State
  <2> QED
    BY <1>1, <2>1, MutateAppends DEF ChangeWorkflow, Dimension, Request
<1>2. ASSUME NEW s \in Status, ResolveUnknown(i, k, e, s)
      PROVE  Appends(i, k)
  <2>1. [projection[i] EXCEPT !.status = s, !.provenance = "known"] \in State
    BY <1>0, <1>2 DEF ResolveUnknown, State
  <2> QED
    BY <1>2, <2>1, MutateAppends DEF ResolveUnknown, Dimension, Request
<1>3. ASSUME NEW v \in {"visible", "hidden"}, SetVisibility(i, k, e, v)
      PROVE  Appends(i, k)
  <2>1. [projection[i] EXCEPT !.visibility = v] \in State /\ v \in Request
    BY <1>0, <1>3 DEF SetVisibility, State, Request
  <2> QED
    BY <1>3, <2>1, MutateAppends DEF SetVisibility, Dimension
<1>4. ASSUME NEW r \in Reminder \cup {None}, SetReminder(i, k, e, r)
      PROVE  Appends(i, k)
  <2>1. [projection[i] EXCEPT !.reminder = r] \in State
    BY <1>0, <1>4 DEF SetReminder, State
  <2> QED
    BY <1>4, <2>1, MutateAppends DEF SetReminder, Dimension, Request
<1>5. ASSUME NEW n \in 1 .. e, UndoTransition(i, k, e, n)
      PROVE  Appends(i, k)
  <2> DEFINE target == history[i][n].before
             row == [Row("undo", "none", projection[i], target, k, e, "undo") EXCEPT !.undoOf = n]
  <2>1. ~Used(k) /\ Version(i) = e /\ e \in Nat /\ n \in Nat /\ projection[i] \in State
    BY <1>0, <1>5, LedgerAssumption DEF UndoTransition, Fresh
  <2>2. target \in State
    <3>1. history[i][n] \in Transition
      BY <1>5 DEF UndoTransition, Version, IInv, LedgerTypeOK
    <3> QED
      BY <1>5, <3>1 DEF UndoTransition, Undoable, Transition
  <2>3. row \in Transition /\ row.before = projection[i] /\ row.key = k /\ row.expected = e
    BY <2>1, <2>2 DEF Row, Transition, Class, Dimension, Request
  <2>4. Linked(i, <<row>>, k)
    BY <2>1, <2>3, OneRowLinked DEF IInv
  <2>5. Extend(i, <<row>>, k)
    BY <1>5 DEF UndoTransition
  <2> QED
    BY <2>4, <2>5 DEF Appends
<1>6. ASSUME NEW n \in 1 .. e, NEW target \in Corrections, CorrectState(i, k, e, n, target)
      PROVE  Appends(i, k)
  <2> DEFINE row == [Row("correction", "none", projection[i], target, k, e, "correct")
                       EXCEPT !.correctionOf = n]
  <2>1. ~Used(k) /\ Version(i) = e /\ e \in Nat /\ n \in Nat /\ projection[i] \in State
        /\ target \in State
    BY <1>0, <1>6, LedgerAssumption DEF CorrectState, Fresh
  <2>2. row \in Transition /\ row.before = projection[i] /\ row.key = k /\ row.expected = e
    BY <2>1 DEF Row, Transition, Class, Dimension, Request
  <2>3. Linked(i, <<row>>, k)
    BY <2>1, <2>2, OneRowLinked DEF IInv
  <2>4. Extend(i, <<row>>, k)
    BY <1>6 DEF CorrectState
  <2> QED
    BY <2>3, <2>4 DEF Appends
<1> QED
  BY <1>1, <1>2, <1>3, <1>4, <1>5, <1>6 DEF Service

\* A backfill appends to one history, under no key.
LEMMA BackfillAppends ==
  ASSUME IInv, NEW i \in Item, NEW found \in Legacy, Backfill(i, found)
  PROVE  Appends(i, None)
<1> DEFINE row == Row("baseline", "none", None, LegacyProjection(found), None, 0, "legacy")
<1>1. row \in Transition /\ row.key = None
  BY LegacyTyped DEF Row, Transition, Class, Dimension, Request
<1>2. <<row>> \in Seq(Transition) /\ Len(<<row>>) = 1 /\ <<row>>[1] = row /\ <<row>> # << >>
  BY <1>1
<1>3. \A n \in 1 .. Len(<<row>>) : <<row>>[n].key = None
  BY <1>1, <1>2
<1>4. \A n \in 2 .. Len(<<row>>) : FALSE
  BY <1>2
<1>5. Linked(i, <<row>>, None)
  BY <1>2, <1>3, <1>4 DEF Linked, Backfill
<1> QED
  BY <1>5 DEF Backfill, Appends

(* A retry reads the ledger only.                                          *)
LEMMA ReplayKeeps ==
  ASSUME IInv, NEW k \in Key, Replay(k)
  PROVE  IInv'
<1>0. PICK i \in Item : \E n \in 1 .. Version(i) :
        answer' = [answer EXCEPT ![k] = [item |-> i, after |-> history[i][n].after, version |-> n]]
  BY DEF Replay
<1>1. PICK n \in 1 .. Version(i) :
        answer' = [answer EXCEPT ![k] = [item |-> i, after |-> history[i][n].after, version |-> n]]
  BY <1>0
<1>2. history[i][n] \in Transition /\ n \in Nat
  BY <1>1 DEF IInv, LedgerTypeOK, Version
<1>3. [item |-> i, after |-> history[i][n].after, version |-> n] \in Answer
  BY <1>2 DEF Transition, Answer
<1>4. UNCHANGED <<projection, history>>
  BY DEF Replay
<1>5. answer' \in [Key -> Answer \cup {None}]
  BY <1>1, <1>3 DEF IInv, LedgerTypeOK
<1>6. LedgerTypeOK'
  BY <1>4, <1>5 DEF IInv, LedgerTypeOK
<1>7. LedgerChain' /\ KeysUnique'
  BY <1>4 DEF IInv, LedgerChain, KeysUnique, Version
<1> QED
  BY <1>6, <1>7 DEF IInv

(* The inductive invariant: the ledger is one chain with one row per key.  *)
THEOREM LedgerInvariant == LedgerSpec => []IInv
<1>1. LedgerInit => IInv
  BY EmptySeq DEF LedgerInit, IInv, LedgerTypeOK, LedgerChain, KeysUnique, Version
<1>2. IInv /\ [LedgerNext]_ledger => IInv'
  <2>1. SUFFICES ASSUME IInv, [LedgerNext]_ledger
                 PROVE  IInv'
    OBVIOUS
  <2>2. ASSUME NEW i \in Item, NEW row \in Legacy, Backfill(i, row)
        PROVE  IInv'
    BY <2>1, <2>2, BackfillAppends, ExtendKeeps DEF Appends
  <2>3. ASSUME NEW i \in Item, NEW k \in Key, NEW e \in 1 .. MaxVersion, Service(i, k, e)
        PROVE  IInv'
    BY <2>1, <2>3, ServiceAppends, ExtendKeeps DEF Appends
  <2>4. ASSUME NEW k \in Key, Replay(k)
        PROVE  IInv'
    BY <2>1, <2>4, ReplayKeeps
  <2>5. CASE UNCHANGED ledger
    <3>1. projection' = projection /\ history' = history /\ answer' = answer
      BY <2>5 DEF ledger
    <3>2. LedgerTypeOK'
      BY <2>1, <3>1 DEF IInv, LedgerTypeOK
    <3>3. LedgerChain'
      BY <2>1, <3>1 DEF IInv, LedgerChain, Version
    <3>4. KeysUnique'
      BY <2>1, <3>1 DEF IInv, KeysUnique, Version
    <3> QED
      BY <3>2, <3>3, <3>4 DEF IInv
  <2> QED
    BY <2>1, <2>2, <2>3, <2>4, <2>5 DEF LedgerNext
<1> QED
  BY <1>1, <1>2, PTL DEF LedgerSpec

(* Every variable of the service keeps its type.                           *)
THEOREM LedgerTypeCorrect == LedgerSpec => []LedgerTypeOK
<1>1. IInv => LedgerTypeOK
  BY DEF IInv
<1> QED
  BY <1>1, LedgerInvariant, PTL

(* No caller of the state service overwrites what it did not see.          *)
THEOREM LedgerChained == LedgerSpec => []LedgerChain
<1>1. IInv => LedgerChain
  BY DEF IInv
<1> QED
  BY <1>1, LedgerInvariant, PTL

-----------------------------------------------------------------------------
(* replay_result finds one row, because one row at most carries a key.     *)
LEMMA DecidedAt ==
  ASSUME NEW H, NEW k, NEW i \in Item, NEW n \in 1 .. Len(H[i]), H[i][n].key = k,
         \A j \in Item : \A m \in 1 .. Len(H[j]) : H[j][m].key = k => j = i /\ m = n
  PROVE  DecidedIn(H, k) = [item |-> i, after |-> H[i][n].after, version |-> n]
<1> DEFINE a == CHOOSE j \in Item : \E m \in 1 .. Len(H[j]) : H[j][m].key = k
           b == CHOOSE m \in 1 .. Len(H[a]) : H[a][m].key = k
<1>1. \E j \in Item : \E m \in 1 .. Len(H[j]) : H[j][m].key = k
  OBVIOUS
<1>2. a \in Item /\ \E m \in 1 .. Len(H[a]) : H[a][m].key = k
  BY <1>1
<1>3. a = i
  BY <1>2
<1>4. b \in 1 .. Len(H[a]) /\ H[a][b].key = k
  BY <1>2
<1>5. b = n
  BY <1>3, <1>4
<1>6. DecidedIn(H, k) = [item |-> a, after |-> H[a][b].after, version |-> b]
  BY <1>1 DEF DecidedIn
<1> QED
  BY <1>3, <1>5, <1>6

\* A key that no row carries is not decided.
LEMMA Undecided ==
  ASSUME NEW H, NEW k, ~\E j \in Item : \E m \in 1 .. Len(H[j]) : H[j][m].key = k
  PROVE  DecidedIn(H, k) = None
BY DEF DecidedIn

(* A transaction decides the request of its key and no other.              *)
LEMMA ExtendDecides ==
  ASSUME IInv, IInv', NEW i \in Item, NEW k \in Key \cup {None}, NEW rows,
         Linked(i, rows, k), Extend(i, rows, k)
  PROVE  [Once!Next]_<<outcome, answer>>
<1> DEFINE h == history[i] \o rows
           D == [c \in Key |-> DecidedIn(history, c)]
           told == [item |-> i, after |-> h[Len(h)].after, version |-> Len(h)]
<1>1. /\ history[i] \in Seq(Transition) /\ rows \in Seq(Transition)
      /\ Len(history[i]) \in Nat /\ Len(rows) \in Nat \ {0}
  BY EmptySeq DEF IInv, LedgerTypeOK, Linked
<1>2. /\ h \in Seq(Transition)
      /\ Len(h) = Len(history[i]) + Len(rows)
      /\ \A n \in 1 .. Len(history[i]) + Len(rows) :
           h[n] = IF n <= Len(history[i]) THEN history[i][n] ELSE rows[n - Len(history[i])]
  BY <1>1, ConcatProperties
<1>3. history'[i] = h /\ \A j \in Item \ {i} : history'[j] = history[j]
  BY DEF Extend, IInv, LedgerTypeOK
<1>4. ASSUME NEW j \in Item, NEW n \in 1 .. Len(history[j])
      PROVE  n \in 1 .. Len(history'[j]) /\ history'[j][n] = history[j][n]
  <2>1. CASE j # i
    BY <1>3, <1>4, <2>1
  <2>2. CASE j = i
    BY <1>1, <1>2, <1>3, <1>4, <2>2
  <2> QED
    BY <2>1, <2>2
<1>5. ASSUME NEW j \in Item, NEW n \in 1 .. Len(history'[j]), history'[j][n].key # None,
             ~(n \in 1 .. Len(history[j]))
      PROVE  j = i /\ n = Len(h) /\ history'[j][n].key = k /\ k # None
  <2>1. j = i /\ n \in 1 .. Len(h) /\ n > Len(history[i])
    BY <1>1, <1>2, <1>3, <1>5
  <2>2. n - Len(history[i]) \in 1 .. Len(rows) /\ h[n] = rows[n - Len(history[i])]
    <3>1. n \in 1 .. Len(history[i]) + Len(rows) /\ ~(n <= Len(history[i]))
      BY <1>1, <1>2, <2>1
    <3>2. h[n] = rows[n - Len(history[i])]
      BY <1>2, <3>1
    <3>3. n - Len(history[i]) \in 1 .. Len(rows)
      BY <1>1, <3>1
    <3> QED
      BY <3>2, <3>3
  <2>3. n - Len(history[i]) = Len(rows) /\ rows[n - Len(history[i])].key = k
    BY <1>3, <1>5, <2>1, <2>2 DEF Linked
  <2>4. n = Len(h)
    <3>1. Len(history[i]) \in Int /\ Len(rows) \in Int
      BY <1>1
    <3>2. n \in Int
      BY <2>1
    <3>3. n = Len(history[i]) + Len(rows)
      BY <2>3, <3>1, <3>2
    <3> QED
      BY <1>2, <3>3
  <2>5. history'[j][n].key = k
    BY <1>3, <2>1, <2>2, <2>3
  <2> QED
    BY <1>5, <2>1, <2>4, <2>5
<1>6. ASSUME NEW c \in Key, c # k
      PROVE  DecidedIn(history', c) = DecidedIn(history, c)
  <2>0. c # None
    BY LedgerAssumption
  <2>1. CASE Used(c)
    <3>1. PICK j \in Item : \E n \in 1 .. Len(history[j]) : history[j][n].key = c
      BY <2>1 DEF Used, Version
    <3>2. PICK n \in 1 .. Len(history[j]) : history[j][n].key = c
      BY <3>1
    <3>3. DecidedIn(history, c) = [item |-> j, after |-> history[j][n].after, version |-> n]
      <4>1. \A l \in Item : \A m \in 1 .. Len(history[l]) : history[l][m].key = c => l = j /\ m = n
        BY <2>0, <3>2 DEF IInv, KeysUnique, Version
      <4> QED
        BY <3>2, <4>1, DecidedAt
    <3>4. n \in 1 .. Len(history'[j]) /\ history'[j][n] = history[j][n]
      BY <1>4
    <3>5. \A l \in Item : \A m \in 1 .. Len(history'[l]) : history'[l][m].key = c => l = j /\ m = n
      BY <2>0, <3>2, <3>4 DEF IInv, KeysUnique, Version
    <3>6. DecidedIn(history', c) = [item |-> j, after |-> history'[j][n].after, version |-> n]
      <4>1. history'[j][n].key = c /\ n \in 1 .. Len(history'[j])
        BY <3>2, <3>4
      <4>2. \A H : /\ n \in 1 .. Len(H[j]) /\ H[j][n].key = c
                   /\ \A l \in Item : \A m \in 1 .. Len(H[l]) : H[l][m].key = c => l = j /\ m = n
                   => DecidedIn(H, c) = [item |-> j, after |-> H[j][n].after, version |-> n]
        BY DecidedAt
      <4> QED
        BY <3>5, <4>1, <4>2
    <3> QED
      BY <3>3, <3>4, <3>6
  <2>2. CASE ~Used(c)
    <3>1. ~\E j \in Item : \E n \in 1 .. Len(history[j]) : history[j][n].key = c
      BY <2>2 DEF Used, Version
    <3>2. ASSUME NEW j \in Item, NEW n \in 1 .. Len(history'[j]), history'[j][n].key = c
          PROVE  FALSE
      <4>1. CASE n \in 1 .. Len(history[j])
        BY <1>4, <3>1, <3>2, <4>1
      <4>2. CASE ~(n \in 1 .. Len(history[j]))
        BY <1>5, <1>6, <2>0, <3>2, <4>2
      <4> QED
        BY <4>1, <4>2
    <3>3. DecidedIn(history, c) = None
      BY <3>1, Undecided
    <3>4. DecidedIn(history', c) = None
      BY <3>2, Undecided
    <3> QED
      BY <3>3, <3>4
  <2> QED
    BY <2>1, <2>2
<1>7. CASE k = None
  <2>1. D' = D
    BY <1>6, <1>7, LedgerAssumption
  <2>2. answer' = answer
    BY <1>7 DEF Extend
  <2> QED
    BY <2>1, <2>2 DEF outcome
<1>8. CASE k # None
  <2>0. k \in Key /\ ~Used(k) /\ rows[Len(rows)].key = k
    BY <1>8 DEF Linked
  <2>1. DecidedIn(history, k) = None
    <3>1. ~\E j \in Item : \E n \in 1 .. Len(history[j]) : history[j][n].key = k
      BY <2>0 DEF Used, Version
    <3> QED
      BY <3>1, Undecided
  <2>2. DecidedIn(history', k) = told
    <3>1. Len(h) \in 1 .. Len(history'[i]) /\ h[Len(h)] = rows[Len(rows)] /\ history'[i][Len(h)].key = k
      BY <1>1, <1>2, <1>3, <2>0
    <3>2. \A l \in Item : \A m \in 1 .. Len(history'[l]) :
             history'[l][m].key = k => l = i /\ m = Len(h)
      BY <1>8, <3>1 DEF IInv, KeysUnique, Version
    <3>3. DecidedIn(history', k) = [item |-> i, after |-> history'[i][Len(h)].after, version |-> Len(h)]
      <4>1. \A H : \A n \in 1 .. Len(H[i]) :
               /\ H[i][n].key = k
               /\ \A l \in Item : \A m \in 1 .. Len(H[l]) : H[l][m].key = k => l = i /\ m = n
               => DecidedIn(H, k) = [item |-> i, after |-> H[i][n].after, version |-> n]
        BY DecidedAt
      <4> QED
        BY <3>1, <3>2, <4>1
    <3> QED
      BY <1>3, <3>3
  <2>3. told # None
    <3>1. told \in Answer
      <4>1. h[Len(h)] \in Transition /\ Len(h) \in Nat
        BY <1>1, <1>2
      <4> QED
        BY <4>1 DEF Transition, Answer
    <3> QED
      BY <3>1, LedgerAssumption
  <2>4. D[k] = None /\ D'[k] = told
    BY <2>0, <2>1, <2>2
  <2>5. D' = [D EXCEPT ![k] = told]
    BY <1>6, <2>0, <2>2
  <2>6. answer' \in {answer, [answer EXCEPT ![k] = told]}
    BY <1>8 DEF Extend
  <2>7. Once!Decide(k)
    BY <2>3, <2>4, <2>5, <2>6 DEF Once!Decide, outcome
  <2> QED
    BY <2>0, <2>7 DEF Once!Next, outcome
<1> QED
  BY <1>7, <1>8

(* A retry tells what was decided.                                         *)
LEMMA ReplayTells ==
  ASSUME IInv, NEW k \in Key, Replay(k)
  PROVE  [Once!Next]_<<outcome, answer>>
<1> DEFINE D == [c \in Key |-> DecidedIn(history, c)]
<1>0. k # None
  BY LedgerAssumption
<1>1. PICK i \in Item : \E n \in 1 .. Version(i) :
        /\ history[i][n].key = k
        /\ answer' = [answer EXCEPT ![k] = [item |-> i, after |-> history[i][n].after, version |-> n]]
  BY DEF Replay
<1>2. PICK n \in 1 .. Version(i) :
        /\ history[i][n].key = k
        /\ answer' = [answer EXCEPT ![k] = [item |-> i, after |-> history[i][n].after, version |-> n]]
  BY <1>1
<1>3. \A l \in Item : \A m \in 1 .. Len(history[l]) : history[l][m].key = k => l = i /\ m = n
  BY <1>0, <1>2 DEF IInv, KeysUnique, Version
<1>4. DecidedIn(history, k) = [item |-> i, after |-> history[i][n].after, version |-> n]
  BY <1>2, <1>3, DecidedAt DEF Version
<1>5. [item |-> i, after |-> history[i][n].after, version |-> n] # None
  <2>1. history[i][n] \in Transition /\ n \in Nat
    BY <1>2 DEF IInv, LedgerTypeOK, Version
  <2>2. [item |-> i, after |-> history[i][n].after, version |-> n] \in Answer
    BY <2>1 DEF Transition, Answer
  <2> QED
    BY <2>2, LedgerAssumption
<1>6. D' = D
  BY DEF Replay
<1>7. D[k] # None /\ answer' = [answer EXCEPT ![k] = D[k]]
  BY <1>2, <1>4, <1>5
<1>8. Once!Tell(k)
  BY <1>6, <1>7 DEF Once!Tell, outcome
<1> QED
  BY <1>8 DEF Once!Next, outcome

(* The requests of the state service implement RequestOnce.                *)
THEOREM Implementation == LedgerSpec => EachRequestOnce
<1>1. LedgerInit => Once!Init
  <2>1. SUFFICES ASSUME LedgerInit
                 PROVE  Once!Init
    OBVIOUS
  <2>2. ASSUME NEW c \in Key
        PROVE  DecidedIn(history, c) = None
    <3>1. ~\E j \in Item : \E m \in 1 .. Len(history[j]) : history[j][m].key = c
      BY <2>1, EmptySeq DEF LedgerInit
    <3> QED
      BY <3>1, Undecided
  <2>3. outcome = [c \in Key |-> None]
    BY <2>2 DEF outcome
  <2> QED
    BY <2>1, <2>3 DEF LedgerInit, Once!Init
<1>2. IInv /\ IInv' /\ [LedgerNext]_ledger => [Once!Next]_<<outcome, answer>>
  <2>1. SUFFICES ASSUME IInv, IInv', [LedgerNext]_ledger
                 PROVE  [Once!Next]_<<outcome, answer>>
    OBVIOUS
  <2>2. ASSUME NEW i \in Item, NEW row \in Legacy, Backfill(i, row)
        PROVE  [Once!Next]_<<outcome, answer>>
    BY <2>1, <2>2, BackfillAppends, ExtendDecides DEF Appends
  <2>3. ASSUME NEW i \in Item, NEW k \in Key, NEW e \in 1 .. MaxVersion, Service(i, k, e)
        PROVE  [Once!Next]_<<outcome, answer>>
    BY <2>1, <2>3, ServiceAppends, ExtendDecides DEF Appends
  <2>4. ASSUME NEW k \in Key, Replay(k)
        PROVE  [Once!Next]_<<outcome, answer>>
    BY <2>1, <2>4, ReplayTells
  <2>5. CASE UNCHANGED ledger
    BY <2>5 DEF ledger, outcome
  <2> QED
    BY <2>1, <2>2, <2>3, <2>4, <2>5 DEF LedgerNext
<1> QED
  BY <1>1, <1>2, LedgerInvariant, PTL DEF LedgerSpec, EachRequestOnce, Once!Spec

-----------------------------------------------------------------------------
(* What Reconciles says of one history, and that a row refers to one other *)
(* row at most.                                                            *)
Accepted(h) ==
  /\ \A n \in 2 .. Len(h) : h[n].class = "none" => DimensionKept(h[n])
  /\ \A n \in 1 .. Len(h) :
       /\ Ref(h[n]) < n
       /\ h[n].undoOf # 0 => h[h[n].undoOf].dim \notin {"baseline", "undo"}
       /\ h[n].correctionOf # 0 => h[h[n].correctionOf].dim \in {"workflow", "correction"}
       /\ Ref(h[n]) # 0 => h[Ref(h[n])].class = "none"
  /\ \A n, m \in 1 .. Len(h) : n # m /\ Ref(h[n]) # 0 => Ref(h[n]) # Ref(h[m])
  /\ \A n \in 1 .. Len(h) : h[n].undoOf = 0 \/ h[n].correctionOf = 0

AllAccepted == \A i \in Item : Accepted(history[i])

\* Histories that are accepted reconcile.
LEMMA AcceptedReconciles == AllAccepted => Reconciles
BY DEF AllAccepted, Accepted, Reconciles

(* A row that supersedes one nothing superseded yet.                       *)
Supersedes(h, t) ==
  /\ Ref(t) \in 1 .. Len(h) /\ Childless(h, Ref(t)) /\ h[Ref(t)].class = "none"
  /\ t.undoOf # 0 => t.correctionOf = 0 /\ h[t.undoOf].dim \notin {"baseline", "undo"}
  /\ t.correctionOf # 0 => h[t.correctionOf].dim \in {"workflow", "correction"}

(* Rows of one transaction the reconciler accepts after the history h.     *)
Fitting(h, rows) ==
  /\ \A n \in 1 .. Len(rows) :
       rows[n].class = "none" /\ (n > 1 \/ h # << >>) => DimensionKept(rows[n])
  /\ \A n \in 1 .. Len(rows) :
       Ref(rows[n]) # 0 => Len(rows) = 1 /\ Supersedes(h, rows[n])

\* What a row refers to is a place in a history, or nothing.
LEMMA RefTyped ==
  ASSUME NEW t \in Transition
  PROVE  /\ t.undoOf \in Nat /\ t.correctionOf \in Nat /\ Ref(t) \in Nat
         /\ Ref(t) = 0 => t.undoOf = 0 /\ t.correctionOf = 0
BY DEF Transition, Ref

\* The rows of a longer history are those of its parts.
LEMMA Joined ==
  ASSUME NEW h \in Seq(Transition), NEW rows \in Seq(Transition)
  PROVE  /\ h \o rows \in Seq(Transition)
         /\ Len(h) \in Nat /\ Len(rows) \in Nat
         /\ Len(h \o rows) = Len(h) + Len(rows)
         /\ \A n \in 1 .. Len(h) : (h \o rows)[n] = h[n] /\ h[n] \in Transition
         /\ \A n \in 1 .. Len(rows) : rows[n] \in Transition
         /\ \A n \in 1 .. Len(h) + Len(rows) : n > Len(h) =>
              n - Len(h) \in 1 .. Len(rows) /\ (h \o rows)[n] = rows[n - Len(h)]
<1>1. h \o rows \in Seq(Transition) /\ Len(h \o rows) = Len(h) + Len(rows)
      /\ Len(h) \in Nat /\ Len(rows) \in Nat
      /\ \A n \in 1 .. Len(h) + Len(rows) :
           (h \o rows)[n] = IF n <= Len(h) THEN h[n] ELSE rows[n - Len(h)]
  BY ConcatProperties
<1>2. \A n \in 1 .. Len(h) : h[n] \in Transition
  OBVIOUS
<1>3. \A n \in 1 .. Len(rows) : rows[n] \in Transition
  OBVIOUS
<1>4. ASSUME NEW n \in 1 .. Len(h) + Len(rows), n > Len(h)
      PROVE  n - Len(h) \in 1 .. Len(rows) /\ (h \o rows)[n] = rows[n - Len(h)]
  <2>1. ~(n <= Len(h)) /\ n - Len(h) \in 1 .. Len(rows)
    BY <1>1, <1>4
  <2> QED
    BY <1>1, <2>1
<1>5. ASSUME NEW n \in 1 .. Len(h)
      PROVE  (h \o rows)[n] = h[n]
  <2>1. n \in 1 .. Len(h) + Len(rows) /\ n <= Len(h)
    BY <1>1
  <2> QED
    BY <1>1, <2>1
<1> QED
  BY <1>1, <1>2, <1>3, <1>4, <1>5

(* Fitting rows leave a history the reconciler accepts.                    *)
LEMMA FittingAccepted ==
  ASSUME NEW h \in Seq(Transition), NEW rows \in Seq(Transition),
         Accepted(h), Fitting(h, rows)
  PROVE  Accepted(h \o rows)
<1> DEFINE g == h \o rows
           L == Len(h)
<1>1. /\ g \in Seq(Transition) /\ L \in Nat /\ Len(rows) \in Nat
      /\ Len(g) = L + Len(rows)
      /\ \A n \in 1 .. L : g[n] = h[n] /\ h[n] \in Transition
      /\ \A n \in 1 .. Len(rows) : rows[n] \in Transition
      /\ \A n \in 1 .. L + Len(rows) : n > L => n - L \in 1 .. Len(rows) /\ g[n] = rows[n - L]
  BY Joined
<1>2. h # << >> <=> L > 0
  BY <1>1, EmptySeq
<1> HIDE DEF g
<1>3. ASSUME NEW n \in 1 .. Len(g)
      PROVE  (n \in 1 .. L /\ g[n] = h[n]) \/ (n > L /\ n - L \in 1 .. Len(rows) /\ g[n] = rows[n - L])
  BY <1>1
<1>4. ASSUME NEW n \in 2 .. Len(g), g[n].class = "none"
      PROVE  DimensionKept(g[n])
  <2>1. n \in 1 .. Len(g)
    BY <1>1
  <2>2. CASE n \in 1 .. L /\ g[n] = h[n]
    <3>1. n \in 2 .. L
      BY <2>2
    <3> QED
      BY <1>4, <2>2, <3>1 DEF Accepted
  <2>3. CASE n > L /\ n - L \in 1 .. Len(rows) /\ g[n] = rows[n - L]
    <3>1. n - L > 1 \/ h # << >>
      BY <1>1, <1>2
    <3> QED
      BY <1>4, <2>3, <3>1 DEF Fitting
  <2> QED
    BY <1>3, <2>1, <2>2, <2>3
<1>5. ASSUME NEW n \in 1 .. Len(g), n > L, Ref(g[n]) # 0
      PROVE  /\ n = L + 1 /\ Len(g) = L + 1
             /\ g[n] = rows[1] /\ Supersedes(h, g[n]) /\ g[n] \in Transition
  <2>1. n - L \in 1 .. Len(rows) /\ g[n] = rows[n - L]
    BY <1>3, <1>5, <1>1
  <2>2. Len(rows) = 1 /\ Supersedes(h, g[n])
    BY <1>5, <2>1 DEF Fitting
  <2>3. n - L = 1
    BY <2>1, <2>2
  <2> QED
    BY <1>1, <2>1, <2>2, <2>3
<1>6. ASSUME NEW n \in 1 .. Len(g)
      PROVE  /\ Ref(g[n]) < n
             /\ g[n].undoOf # 0 => g[g[n].undoOf].dim \notin {"baseline", "undo"}
             /\ g[n].correctionOf # 0 => g[g[n].correctionOf].dim \in {"workflow", "correction"}
             /\ Ref(g[n]) # 0 => g[Ref(g[n])].class = "none"
  <2>1. CASE n \in 1 .. L /\ g[n] = h[n]
    <3>1. /\ Ref(h[n]) < n
          /\ h[n].undoOf # 0 => h[h[n].undoOf].dim \notin {"baseline", "undo"}
          /\ h[n].correctionOf # 0 => h[h[n].correctionOf].dim \in {"workflow", "correction"}
          /\ Ref(h[n]) # 0 => h[Ref(h[n])].class = "none"
      BY <2>1 DEF Accepted
    <3>2. h[n].undoOf \in Nat /\ h[n].correctionOf \in Nat /\ Ref(h[n]) \in Nat
      BY <1>1, <2>1, RefTyped
    <3>3. Ref(h[n]) # 0 => g[Ref(h[n])] = h[Ref(h[n])]
      BY <1>1, <2>1, <3>1, <3>2
    <3>4. h[n].undoOf # 0 => Ref(h[n]) = h[n].undoOf
      BY DEF Ref
    <3>5. h[n].correctionOf # 0 => Ref(h[n]) = h[n].correctionOf
      BY <2>1 DEF Ref, Accepted
    <3>6. h[n].undoOf # 0 => g[h[n].undoOf] = h[h[n].undoOf]
      BY <3>3, <3>4
    <3>7. h[n].correctionOf # 0 => g[h[n].correctionOf] = h[h[n].correctionOf]
      BY <3>3, <3>5
    <3> QED
      BY <2>1, <3>1, <3>3, <3>6, <3>7
  <2>2. CASE n > L /\ n - L \in 1 .. Len(rows) /\ g[n] = rows[n - L]
    <3>1. g[n] \in Transition
      BY <1>1, <2>2
    <3>2. CASE Ref(g[n]) = 0
      BY <1>1, <3>1, <3>2, RefTyped
    <3>3. CASE Ref(g[n]) # 0
      <4>1. /\ n = L + 1 /\ Ref(g[n]) \in 1 .. L /\ h[Ref(g[n])].class = "none"
            /\ g[n].undoOf # 0 => g[n].correctionOf = 0 /\ h[g[n].undoOf].dim \notin {"baseline", "undo"}
            /\ g[n].correctionOf # 0 => h[g[n].correctionOf].dim \in {"workflow", "correction"}
        BY <1>5, <2>2, <3>3 DEF Supersedes
      <4>2. g[Ref(g[n])] = h[Ref(g[n])]
        BY <1>1, <4>1
      <4>3. g[n].undoOf # 0 => Ref(g[n]) = g[n].undoOf
        BY DEF Ref
      <4>4. g[n].correctionOf # 0 => Ref(g[n]) = g[n].correctionOf
        BY <4>1 DEF Ref
      <4>5. Ref(g[n]) < n
        BY <4>1, <1>1
      <4> QED
        BY <4>1, <4>2, <4>3, <4>4, <4>5
    <3> QED
      BY <3>2, <3>3
  <2> QED
    BY <1>3, <2>1, <2>2
<1>7. ASSUME NEW n \in 1 .. L, NEW m \in 1 .. Len(g), m > L, Ref(g[m]) # 0
      PROVE  Ref(g[n]) # Ref(g[m])
  <2>1. Childless(h, Ref(g[m]))
    BY <1>5, <1>7 DEF Supersedes
  <2>2. h[n].undoOf # Ref(g[m]) /\ h[n].correctionOf # Ref(g[m])
    BY <2>1 DEF Childless
  <2> QED
    BY <1>1, <2>2 DEF Ref
<1>8. ASSUME NEW n \in 1 .. Len(g), NEW m \in 1 .. Len(g), n # m, Ref(g[n]) # 0
      PROVE  Ref(g[n]) # Ref(g[m])
  <2>1. CASE n \in 1 .. L /\ m \in 1 .. L
    BY <1>1, <1>8, <2>1 DEF Accepted
  <2>2. CASE n \in 1 .. L /\ m > L
    BY <1>7, <1>8, <2>2
  <2>3. CASE n > L /\ m \in 1 .. L
    BY <1>7, <1>8, <2>3
  <2>4. CASE n > L /\ m > L
    <3>1. n = L + 1 /\ Len(g) = L + 1
      BY <1>5, <1>8, <2>4
    <3> QED
      BY <1>1, <1>8, <2>4, <3>1
  <2> QED
    BY <1>3, <2>1, <2>2, <2>3, <2>4
<1>9. ASSUME NEW n \in 1 .. Len(g)
      PROVE  g[n].undoOf = 0 \/ g[n].correctionOf = 0
  <2>1. CASE n \in 1 .. L /\ g[n] = h[n]
    BY <2>1 DEF Accepted
  <2>2. CASE n > L /\ n - L \in 1 .. Len(rows) /\ g[n] = rows[n - L]
    <3>1. g[n] \in Transition
      BY <1>1, <2>2
    <3>2. CASE Ref(g[n]) = 0
      BY <3>1, <3>2, RefTyped
    <3>3. CASE Ref(g[n]) # 0
      BY <1>5, <2>2, <3>3 DEF Supersedes
    <3> QED
      BY <3>2, <3>3
  <2> QED
    BY <1>3, <2>1, <2>2
<1> QED
  BY <1>4, <1>6, <1>8, <1>9 DEF Accepted, g

\* Rows that fit extend an accepted history to an accepted one.
LEMMA ExtendAccepted ==
  ASSUME LedgerTypeOK, AllAccepted, NEW i \in Item, NEW rows \in Seq(Transition), NEW k,
         Fitting(history[i], rows), Extend(i, rows, k)
  PROVE  AllAccepted'
<1>1. history[i] \in Seq(Transition)
  BY DEF LedgerTypeOK
<1>2. Accepted(history[i] \o rows)
  BY <1>1, FittingAccepted DEF AllAccepted
<1>3. \A j \in Item : history'[j] = IF j = i THEN history[i] \o rows ELSE history[j]
  BY DEF Extend, LedgerTypeOK
<1> QED
  BY <1>2, <1>3 DEF AllAccepted

(* One row that takes its reference, if it has one, from its own builder.  *)
LEMMA OneRowFits ==
  ASSUME NEW h \in Seq(Transition), NEW row \in Transition,
         row.class = "none" /\ h # << >> => DimensionKept(row),
         Ref(row) # 0 => Supersedes(h, row)
  PROVE  <<row>> \in Seq(Transition) /\ Fitting(h, <<row>>)
<1>1. <<row>> \in Seq(Transition) /\ Len(<<row>>) = 1 /\ <<row>>[1] = row
  OBVIOUS
<1>2. \A n \in 1 .. Len(<<row>>) : n = 1
  BY <1>1
<1> QED
  BY <1>1, <1>2 DEF Fitting

-----------------------------------------------------------------------------
(* Of a history that was never corrected, the moves the funnel counts.     *)
Corrected(h) == \E n \in 1 .. Len(h) : h[n].dim = "correction"

Counted(h) ==
  {n \in 1 .. Len(h) : h[n].dim = "workflow" /\ Childless(h, n) /\ Genuine(h[n])}

(* Only an undo or a correction refers to another row, and a history       *)
(* starts with its baseline.                                               *)
Shaped(h) ==
  /\ h # << >> => h[1].dim = "baseline"
  /\ \A n \in 1 .. Len(h) :
       /\ h[n].undoOf # 0 <=> h[n].dim = "undo"
       /\ h[n].correctionOf # 0 => h[n].dim = "correction"

(* An item that moved by a counted row has had a status ever since.        *)
StatusKept(h) ==
  ~Corrected(h) =>
    \A n \in Counted(h) : \A m \in n .. Len(h) : h[m].after.status # None

(* What FunnelIsRoad says of one history.                                  *)
Road(h) ==
  ~Corrected(h) =>
    \A n \in Counted(h) :
      LET later == {m \in Counted(h) : m > n}
      IN  IF later = {} THEN h[n].after.status = h[Len(h)].after.status
          ELSE \E m \in later : /\ \A l \in later : m <= l
                                /\ h[m].before.status = h[n].after.status

(* An undo refers to a row that refers to none, so the chain of            *)
(* corrections a row goes back along is at most one long.                  *)
LEMMA RootOfUncorrected ==
  ASSUME NEW h \in Seq(Transition), Accepted(h), Shaped(h), ~Corrected(h),
         NEW n \in 1 .. Len(h), h[n].dim # "undo"
  PROVE  Root(h)[n] = n
<1>0. Len(h) \in Nat /\ \A m \in 1 .. Len(h) : h[m] \in Transition
  OBVIOUS
<1> DEFINE F(f) == [m \in 1 .. Len(h) |-> IF Ref(h[m]) = 0 THEN m ELSE f[Ref(h[m])]]
           g == [m \in 1 .. Len(h) |-> IF Ref(h[m]) = 0 THEN m ELSE Ref(h[m])]
<1>1. ASSUME NEW m \in 1 .. Len(h), Ref(h[m]) # 0
      PROVE  Ref(h[m]) \in 1 .. Len(h) /\ Ref(h[Ref(h[m])]) = 0
  <2>1. h[m].correctionOf = 0
    BY DEF Shaped, Corrected
  <2>2. h[m].undoOf # 0 /\ Ref(h[m]) = h[m].undoOf
    BY <1>1, <2>1 DEF Ref
  <2>3. h[m] \in Transition
    BY <1>0
  <2>4. Ref(h[m]) \in 1 .. Len(h)
    <3>1. Ref(h[m]) \in Nat /\ Ref(h[m]) < m
      BY <2>3, RefTyped DEF Accepted
    <3> QED
      BY <1>0, <1>1, <3>1
  <2>5. h[Ref(h[m])].dim # "undo"
    BY <2>2 DEF Accepted
  <2>6. h[Ref(h[m])].undoOf = 0 /\ h[Ref(h[m])].correctionOf = 0
    BY <2>4, <2>5 DEF Shaped, Corrected
  <2> QED
    BY <2>4, <2>6 DEF Ref
<1>2. g = F(g)
  <2>1. \A m \in 1 .. Len(h) : Ref(h[m]) # 0 => g[Ref(h[m])] = Ref(h[m])
    BY <1>1
  <2> QED
    BY <2>1
<1>3. Root(h) = (CHOOSE f : f = F(f))
  BY DEF Root
<1>4. Root(h) = F(Root(h))
  <2>1. \E f : f = F(f)
    BY <1>2
  <2> HIDE DEF F
  <2> QED
    BY <1>3, <2>1
<1>5. Ref(h[n]) = 0
  BY DEF Shaped, Corrected, Ref
<1> QED
  BY <1>4, <1>5

\* Where nothing was corrected the effective rows are the counted ones.
LEMMA EffectiveCounted ==
  ASSUME NEW h \in Seq(Transition), Accepted(h), Shaped(h), ~Corrected(h)
  PROVE  Effective(h) = Counted(h)
<1>1. \A n \in 1 .. Len(h) : h[n].dim # "undo" => Root(h)[n] = n
  BY RootOfUncorrected
<1> QED
  BY <1>1 DEF Effective, Counted

(* The kinds of row a call of the service may append to a history.         *)
Moves(h, row) ==
  \/ row.dim = "correction"
  \/ row.dim \in {"visibility", "reminder"} /\ row.after.status = row.before.status
  \/ row.dim = "workflow" /\ Genuine(row)
  \/ row.dim = "workflow" /\ row.before.status = None /\ row.after.status # None
  \/ row.dim = "undo" /\ row.undoOf = Len(h) /\ row.after = h[Len(h)].before

(* One call of the service, as a row.                                      *)
Serves(h, row) ==
  /\ row \in Transition /\ h # << >> /\ row.before = h[Len(h)].after
  /\ row.class = "none" /\ DimensionKept(row)
  /\ Ref(row) # 0 => Supersedes(h, row)
  /\ row.undoOf # 0 <=> row.dim = "undo"
  /\ row.correctionOf # 0 => row.dim = "correction"
  /\ Moves(h, row)

HistoryInv(h) == Accepted(h) /\ Shaped(h) /\ StatusKept(h) /\ Road(h)

(* Where a row of a history starts.                                        *)
Chained(h) == \A n \in 2 .. Len(h) : h[n].before = h[n - 1].after

\* A history with one more row has the rows it had.
LEMMA OneMore ==
  ASSUME NEW h \in Seq(Transition), NEW row \in Transition
  PROVE  /\ h \o <<row>> \in Seq(Transition)
         /\ Len(h) \in Nat /\ Len(h \o <<row>>) = Len(h) + 1
         /\ \A n \in 1 .. Len(h) : (h \o <<row>>)[n] = h[n] /\ h[n] \in Transition
         /\ (h \o <<row>>)[Len(h) + 1] = row
<1>1. <<row>> \in Seq(Transition) /\ Len(<<row>>) = 1 /\ <<row>>[1] = row
  OBVIOUS
<1>2. /\ h \o <<row>> \in Seq(Transition) /\ Len(h) \in Nat
      /\ Len(h \o <<row>>) = Len(h) + 1
      /\ \A n \in 1 .. Len(h) : (h \o <<row>>)[n] = h[n] /\ h[n] \in Transition
      /\ \A n \in 1 .. Len(h) + 1 : n > Len(h) => (h \o <<row>>)[n] = <<row>>[n - Len(h)]
  BY <1>1, Joined
<1>3. Len(h) + 1 \in 1 .. Len(h) + 1 /\ Len(h) + 1 > Len(h) /\ (Len(h) + 1) - Len(h) = 1
  BY <1>2
<1> QED
  BY <1>1, <1>2, <1>3

(* What a row does to the moves that count: a move is one more, an undo    *)
(* takes the last row away, everything else leaves them alone.             *)
LEMMA CountedAfter ==
  ASSUME NEW h \in Seq(Transition), Accepted(h), NEW row, Serves(h, row),
         row.dim # "correction"
  PROVE  Counted(h \o <<row>>) =
           (Counted(h) \cup (IF row.dim = "workflow" /\ Genuine(row) THEN {Len(h) + 1} ELSE {}))
             \ (IF row.dim = "undo" THEN {Len(h)} ELSE {})
<1> DEFINE g == h \o <<row>>
           L == Len(h)
<1>0. row \in Transition
  BY DEF Serves
<1>1. /\ g \in Seq(Transition) /\ L \in Nat /\ Len(g) = L + 1
      /\ \A n \in 1 .. L : g[n] = h[n] /\ h[n] \in Transition
      /\ g[L + 1] = row
  BY <1>0, OneMore
<1>2. L > 0
  BY <1>1, EmptySeq DEF Serves
<1> HIDE DEF g
<1>3. row.undoOf \in Nat /\ row.correctionOf = 0
      /\ (row.dim # "undo" => row.undoOf = 0) /\ (row.dim = "undo" => row.undoOf = L)
  BY <1>0 DEF Serves, Moves, Transition
<1>4. ASSUME NEW n \in 1 .. L
      PROVE  Childless(g, n) <=> Childless(h, n) /\ ~(row.dim = "undo" /\ n = L)
  <2>1. Childless(g, n) <=> Childless(h, n) /\ row.undoOf # n /\ row.correctionOf # n
    BY <1>1 DEF Childless
  <2> QED
    BY <1>3, <2>1
<1>5. ASSUME row.dim # "undo"
      PROVE  Childless(g, L + 1)
  <2>1. ASSUME NEW m \in 1 .. L
        PROVE  h[m].undoOf # L + 1 /\ h[m].correctionOf # L + 1
    <3>1. h[m] \in Transition
      BY <1>1
    <3>2. Ref(h[m]) < m /\ (h[m].undoOf = 0 \/ h[m].correctionOf = 0)
      BY DEF Accepted
    <3>3. h[m].undoOf \in Nat /\ h[m].correctionOf \in Nat
      BY <3>1, RefTyped
    <3> QED
      BY <1>1, <3>2, <3>3 DEF Ref
  <2> QED
    BY <1>1, <1>3, <1>5, <2>1 DEF Childless
<1> DEFINE C == (Counted(h) \cup (IF row.dim = "workflow" /\ Genuine(row) THEN {Len(h) + 1} ELSE {}))
                  \ (IF row.dim = "undo" THEN {Len(h)} ELSE {})
<1>6. Counted(g) \subseteq 1 .. L + 1 /\ C \subseteq 1 .. L + 1
  <2>1. Counted(h) \subseteq 1 .. L /\ Counted(g) \subseteq 1 .. L + 1
    BY <1>1 DEF Counted
  <2> QED
    BY <1>1, <2>1
<1>7. ASSUME NEW n \in 1 .. L
      PROVE  n \in Counted(g) <=> n \in C
  <2>1. n \in Counted(g) <=> h[n].dim = "workflow" /\ Childless(g, n) /\ Genuine(h[n])
    BY <1>1 DEF Counted
  <2>2. n \in Counted(h) <=> h[n].dim = "workflow" /\ Childless(h, n) /\ Genuine(h[n])
    BY DEF Counted
  <2>3. n # L + 1
    BY <1>1
  <2> QED
    BY <1>4, <2>1, <2>2, <2>3
<1>8. L + 1 \in Counted(g) <=> L + 1 \in C
  <2>1. L + 1 \in 1 .. Len(g) /\ L + 1 # L /\ L + 1 \notin Counted(h)
    BY <1>1 DEF Counted
  <2>2. L + 1 \in Counted(g) <=> row.dim = "workflow" /\ Childless(g, L + 1) /\ Genuine(row)
    BY <1>1, <2>1 DEF Counted
  <2> QED
    BY <1>5, <2>1, <2>2
<1>9. \A n \in 1 .. L + 1 : n \in 1 .. L \/ n = L + 1
  BY <1>1
<1>10. Counted(g) = C
  BY <1>6, <1>7, <1>8, <1>9
<1> QED
  BY <1>10 DEF g

(* The counted moves are still a road after any row.                       *)
LEMMA RoadAfter ==
  ASSUME NEW h \in Seq(Transition), Chained(h), HistoryInv(h), NEW row, Serves(h, row)
  PROVE  StatusKept(h \o <<row>>) /\ Road(h \o <<row>>)
<1> DEFINE g == h \o <<row>>
           L == Len(h)
           E == Counted(h)
           G == Counted(h \o <<row>>)
<1>0. row \in Transition
  BY DEF Serves
<1>1. /\ g \in Seq(Transition) /\ L \in Nat /\ Len(g) = L + 1
      /\ \A n \in 1 .. L : g[n] = h[n] /\ h[n] \in Transition
      /\ g[L + 1] = row
  BY <1>0, OneMore
<1>2. L > 0 /\ L \in 1 .. L /\ h[1].dim = "baseline"
  BY <1>1, EmptySeq DEF Serves, HistoryInv, Shaped
<1>3. SUFFICES ASSUME ~Corrected(g)
               PROVE  StatusKept(g) /\ Road(g)
  BY DEF StatusKept, Road
<1>4. ~Corrected(h) /\ row.dim # "correction"
  BY <1>1, <1>3 DEF Corrected
<1>5. G = (E \cup (IF row.dim = "workflow" /\ Genuine(row) THEN {L + 1} ELSE {}))
            \ (IF row.dim = "undo" THEN {L} ELSE {})
  BY <1>4, CountedAfter DEF HistoryInv
<1>6. E \subseteq 1 .. L
  BY DEF Counted
<1>7. \A n \in E : \A m \in n .. L : h[m].after.status # None
  BY <1>4 DEF HistoryInv, StatusKept
<1>8. \A n \in E :
        LET later == {m \in E : m > n}
        IN  IF later = {} THEN h[n].after.status = h[L].after.status
            ELSE \E m \in later : /\ \A l \in later : m <= l
                                  /\ h[m].before.status = h[n].after.status
  BY <1>4 DEF HistoryInv, Road
<1>9. row.before = h[L].after /\ row.after \in State
  BY <1>0 DEF Serves, Transition
<1>10. g[Len(g)] = row
  BY <1>1
<1> HIDE DEF g, E, G
<1>11. ASSUME \A n \in E : row.after.status # None,
              \A n \in G : n = L + 1 => row.after.status # None
       PROVE  StatusKept(g)
  <2>1. ASSUME NEW n \in G, NEW m \in n .. L + 1
        PROVE  g[m].after.status # None
    <3>1. n \in E \/ n = L + 1
      BY <1>5
    <3>2. CASE m = L + 1
      BY <1>1, <1>11, <3>1, <3>2
    <3>3. CASE m # L + 1
      <4>0. n # L + 1
        BY <1>1, <3>3
      <4>1. n \in E /\ n \in 1 .. L
        BY <1>6, <3>1, <4>0
      <4>2. m \in n .. L /\ m \in 1 .. L
        BY <1>1, <3>3, <4>1
      <4> QED
        BY <1>1, <1>7, <4>1, <4>2
    <3> QED
      BY <3>2, <3>3
  <2> QED
    BY <1>1, <2>1 DEF StatusKept, g, G
<1>12. ASSUME \A n \in G :
                LET later == {m \in G : m > n}
                IN  IF later = {} THEN g[n].after.status = row.after.status
                    ELSE \E m \in later : /\ \A l \in later : m <= l
                                          /\ g[m].before.status = g[n].after.status
       PROVE  Road(g)
  BY <1>10, <1>12 DEF Road, g, G
<1>13. \A n \in E : n \in 1 .. L /\ g[n] = h[n]
  BY <1>1, <1>6
<1>14. CASE row.dim \in {"visibility", "reminder"} /\ row.after.status = row.before.status
  <2>1. G = E
    BY <1>5, <1>14
  <2>2. \A n \in E : row.after.status # None /\ n # L + 1
    BY <1>1, <1>2, <1>6, <1>7, <1>9, <1>14
  <2>3. StatusKept(g)
    BY <1>11, <2>1, <2>2
  <2>4. Road(g)
    BY <1>8, <1>9, <1>12, <1>13, <1>14, <2>1
  <2> QED
    BY <2>3, <2>4
<1>15. CASE row.dim = "workflow" /\ Genuine(row)
  <2>1. G = E \cup {L + 1}
    BY <1>5, <1>15
  <2>2. row.after.status # None
    <3>1. row.after.status \in Forward(row.before.status) /\ row.before.status \in Status
      BY <1>0, <1>15 DEF Genuine, Transition, State
    <3> QED
      BY <3>1, ForwardTyped, LedgerAssumption
  <2>3. StatusKept(g)
    BY <1>11, <2>2
  <2>4. ASSUME NEW n \in G
        PROVE  LET later == {m \in G : m > n}
               IN  IF later = {} THEN g[n].after.status = row.after.status
                   ELSE \E m \in later : /\ \A l \in later : m <= l
                                         /\ g[m].before.status = g[n].after.status
    <3>1. CASE n = L + 1
      <4>0. ASSUME NEW m \in G, m > n
            PROVE  FALSE
        <5>1. m \in 1 .. L + 1
          BY <1>1, <1>6, <2>1
        <5> QED
          BY <1>1, <3>1, <4>0, <5>1
      <4>1. {m \in G : m > n} = {}
        BY <4>0
      <4> QED
        BY <1>1, <3>1, <4>1
    <3>2. CASE n # L + 1
      <4>1. n \in E /\ n \in 1 .. L /\ g[n] = h[n]
        BY <1>13, <2>1, <3>2
      <4> DEFINE old == {m \in E : m > n}
                 later == {m \in G : m > n}
      <4>2. later = old \cup {L + 1}
        BY <1>1, <2>1, <4>1
      <4>3. CASE old = {}
        <5>1. later = {L + 1} /\ h[n].after.status = h[L].after.status
          BY <1>8, <4>1, <4>2, <4>3
        <5> QED
          BY <1>1, <1>9, <4>1, <5>1
      <4>4. CASE old # {}
        <5>1. PICK m \in old : /\ \A l \in old : m <= l
                               /\ h[m].before.status = h[n].after.status
          BY <1>8, <4>1, <4>4
        <5>2. m \in later /\ m \in 1 .. L /\ g[m] = h[m]
          BY <1>13, <4>2, <5>1
        <5>3. \A l \in later : m <= l
          BY <1>1, <4>2, <5>1, <5>2
        <5> QED
          BY <4>1, <5>1, <5>2, <5>3
      <4> QED
        BY <4>3, <4>4
    <3> QED
      BY <3>1, <3>2
  <2> QED
    BY <1>12, <2>3, <2>4
<1>16. CASE row.dim = "workflow" /\ row.before.status = None /\ row.after.status # None
  <2>1. E = {}
    BY <1>1, <1>2, <1>6, <1>7, <1>9, <1>16
  <2>2. ~Genuine(row)
    BY <1>16 DEF Genuine
  <2>3. G = {}
    BY <1>5, <1>16, <2>1, <2>2
  <2> QED
    BY <1>11, <1>12, <2>1, <2>3
<1>17. CASE row.dim = "undo" /\ row.undoOf = L /\ row.after = h[L].before
  <2>1. G = E \ {L} /\ L + 1 \notin G
    BY <1>1, <1>5, <1>6, <1>17
  <2>2. /\ h[L].class = "none" /\ Childless(h, L)
        /\ h[L].dim \notin {"baseline", "undo", "correction"}
    <3>1. Ref(row) = L
      BY <1>2, <1>17 DEF Ref
    <3>2. Supersedes(h, row)
      BY <1>2, <3>1, <1>1 DEF Serves
    <3> QED
      BY <1>1, <1>2, <1>4, <1>17, <3>1, <3>2 DEF Supersedes, Corrected
  <2>3. L \in 2 .. L /\ L - 1 \in 1 .. L
    BY <1>1, <1>2, <2>2
  <2>4. h[L].before = h[L - 1].after /\ DimensionKept(h[L])
    BY <2>2, <2>3 DEF Chained, HistoryInv, Accepted
  <2>5. h[L] \in Transition /\ h[L - 1] \in Transition /\ h[L].before \in State /\ h[L].after \in State
        /\ h[L].before # None
    BY <1>1, <1>2, <2>3, <2>4, LedgerAssumption DEF Transition
  <2>6. \A n \in E \ {L} : n \in 1 .. L /\ n < L /\ L - 1 \in n .. L
    BY <1>1, <1>6, <2>3
  <2>7. \A n \in E \ {L} : row.after.status # None
    BY <1>7, <1>17, <2>4, <2>6
  <2>8. h[L].dim \in {"workflow", "visibility", "reminder"}
    BY <2>2, <2>5 DEF Transition, Dimension
  <2>9. CASE h[L].dim = "workflow" /\ E \ {L} # {}
    <3>1. row.after.status # None
      BY <2>7, <2>9
    <3>2. Genuine(h[L])
      BY <1>17, <2>2, <2>4, <2>5, <2>9, <3>1 DEF DimensionKept, Genuine
    <3>3. L \in E
      BY <1>2, <2>2, <2>9, <3>2 DEF Counted, E
    <3>4. StatusKept(g)
      BY <1>11, <2>1, <3>1
    <3>5. ASSUME NEW n \in G
          PROVE  LET later == {m \in G : m > n}
                 IN  IF later = {} THEN g[n].after.status = row.after.status
                     ELSE \E m \in later : /\ \A l \in later : m <= l
                                           /\ g[m].before.status = g[n].after.status
      <4>1. n \in E /\ n \in 1 .. L /\ n < L /\ g[n] = h[n]
        BY <1>13, <2>1, <2>6
      <4> DEFINE old == {m \in E : m > n}
                 later == {m \in G : m > n}
      <4>2. later = old \ {L} /\ L \in old
        BY <2>1, <3>3, <4>1
      <4>3. PICK m \in old : /\ \A l \in old : m <= l
                             /\ h[m].before.status = h[n].after.status
        BY <1>8, <4>1, <4>2
      <4>4. m \in 1 .. L /\ g[m] = h[m]
        BY <1>13, <4>3
      <4>5. CASE m = L
        <5>1. later = {}
          BY <1>1, <1>6, <4>2, <4>3, <4>5
        <5> QED
          BY <1>17, <4>1, <4>3, <4>5, <5>1
      <4>6. CASE m # L
        BY <4>1, <4>2, <4>3, <4>4, <4>6
      <4> QED
        BY <4>5, <4>6
    <3> QED
      BY <1>12, <3>4, <3>5
  <2>10. CASE h[L].dim = "workflow" /\ E \ {L} = {}
    <3>1. G = {}
      BY <2>1, <2>10
    <3>2. StatusKept(g)
      BY <3>1, <1>1 DEF StatusKept, G, g
    <3> QED
      BY <1>12, <3>1, <3>2
  <2>11. CASE h[L].dim \in {"visibility", "reminder"}
    <3>1. L \notin E /\ G = E
      BY <2>1, <2>11 DEF E, Counted
    <3>2. h[L].after.status = h[L].before.status
      BY <2>4, <2>5, <2>11 DEF DimensionKept, State
    <3>3. StatusKept(g)
      BY <1>11, <2>1, <2>7, <3>1
    <3>4. Road(g)
      BY <1>8, <1>12, <1>13, <1>17, <3>1, <3>2
    <3> QED
      BY <3>3, <3>4
  <2> QED
    BY <2>8, <2>9, <2>10, <2>11
<1> QED
  BY <1>4, <1>14, <1>15, <1>16, <1>17 DEF Serves, Moves, g

(* Every row of the service keeps what HistoryInv says.                    *)
LEMMA ServesKeeps ==
  ASSUME NEW h \in Seq(Transition), Chained(h), HistoryInv(h), NEW row, Serves(h, row)
  PROVE  HistoryInv(h \o <<row>>)
<1>0. row \in Transition
  BY DEF Serves
<1>1. <<row>> \in Seq(Transition) /\ Fitting(h, <<row>>)
  BY <1>0, OneRowFits DEF Serves
<1>2. Accepted(h \o <<row>>)
  BY <1>1, FittingAccepted DEF HistoryInv
<1>3. /\ h \o <<row>> \in Seq(Transition) /\ Len(h) \in Nat
      /\ Len(h \o <<row>>) = Len(h) + 1
      /\ \A n \in 1 .. Len(h) : (h \o <<row>>)[n] = h[n] /\ h[n] \in Transition
      /\ (h \o <<row>>)[Len(h) + 1] = row
  BY <1>0, OneMore
<1> DEFINE g == h \o <<row>>
<1>4. Len(h) > 0
  BY <1>3, EmptySeq DEF Serves
<1> HIDE DEF g
<1>5. g[1].dim = "baseline"
  BY <1>3, <1>4 DEF g, HistoryInv, Shaped, Serves
<1>6. ASSUME NEW n \in 1 .. Len(g)
      PROVE  /\ g[n].undoOf # 0 <=> g[n].dim = "undo"
             /\ g[n].correctionOf # 0 => g[n].dim = "correction"
  <2>1. CASE n \in 1 .. Len(h)
    BY <1>3, <2>1 DEF g, HistoryInv, Shaped
  <2>2. CASE n = Len(h) + 1
    BY <1>3, <2>2 DEF g, Serves
  <2> QED
    BY <1>3, <2>1, <2>2 DEF g
<1>7. Shaped(g)
  BY <1>5, <1>6 DEF Shaped
<1> QED
  BY <1>2, <1>7, RoadAfter DEF HistoryInv, g

\* A baseline alone is a history that the funnel counts.
LEMMA BaselineKeeps ==
  ASSUME NEW row \in Transition, row.dim = "baseline", row.undoOf = 0, row.correctionOf = 0
  PROVE  HistoryInv(<<row>>)
<1> DEFINE h == <<row>>
<1>1. Len(h) = 1 /\ h[1] = row /\ h # << >>
  OBVIOUS
<1>2. \A n \in 1 .. Len(h) : n = 1
  BY <1>1
<1>3. \A n \in 2 .. Len(h) : FALSE
  BY <1>1
<1> HIDE DEF h
<1>4. Ref(h[1]) = 0 /\ h[1].dim = "baseline" /\ h[1].undoOf = 0 /\ h[1].correctionOf = 0
  BY <1>1 DEF Ref
<1>5. Counted(h) = {}
  BY <1>2, <1>4 DEF Counted
<1>6. Accepted(h)
  BY <1>2, <1>3, <1>4 DEF Accepted
<1>7. Shaped(h)
  BY <1>2, <1>4 DEF Shaped
<1>8. StatusKept(h) /\ Road(h)
  BY <1>5 DEF StatusKept, Road
<1> QED
  BY <1>6, <1>7, <1>8 DEF HistoryInv, h

\* No rows are a history that the funnel counts.
LEMMA NothingKeeps ==
  HistoryInv(<< >>)
<1>1. \A n \in 1 .. Len(<< >>) : FALSE
  OBVIOUS
<1>2. \A n \in 2 .. Len(<< >>) : FALSE
  OBVIOUS
<1>3. Counted(<< >>) = {}
  BY <1>1 DEF Counted
<1> QED
  BY <1>1, <1>2, <1>3 DEF HistoryInv, Accepted, Shaped, StatusKept, Road

-----------------------------------------------------------------------------
(* Every call of the service appends one such row.                         *)
LEMMA ServiceServes ==
  ASSUME IInv, NEW i \in Item, HistoryInv(history[i]), NEW k \in Key, NEW e \in 1 .. MaxVersion,
         Service(i, k, e)
  PROVE  \E row : Serves(history[i], row) /\ history' = [history EXCEPT ![i] = history[i] \o <<row>>]
<1> DEFINE h == history[i]
           P == projection[i]
<1>0. P # None => P \in State /\ h # << >> /\ P = h[Len(h)].after
  BY DEF IInv, LedgerTypeOK, LedgerChain, Version
<1>h. h \in Seq(Transition)
  BY DEF IInv, LedgerTypeOK
<1>1. ASSUME NEW dim \in {"workflow", "visibility", "reminder"}, NEW request \in Request,
             NEW after \in State, Mutate(i, k, e, dim, request, after),
             DimensionKept(Row(dim, "none", P, after, k, e, request)),
             Moves(h, Row(dim, "none", P, after, k, e, request))
      PROVE  \E row : Serves(h, row) /\ history' = [history EXCEPT ![i] = h \o <<row>>]
  <2> DEFINE row == Row(dim, "none", P, after, k, e, request)
  <2>1. P # None /\ e \in Nat
    BY <1>1 DEF Mutate, Fresh
  <2>2. row \in Transition /\ row.before = P /\ row.class = "none"
        /\ row.undoOf = 0 /\ row.correctionOf = 0 /\ row.dim = dim /\ Ref(row) = 0
    BY <1>0, <2>1 DEF Row, Transition, Class, Dimension, Ref
  <2>3. Serves(h, row)
    BY <1>0, <1>1, <2>1, <2>2 DEF Serves
  <2>4. history' = [history EXCEPT ![i] = h \o <<row>>]
    BY <1>1 DEF Mutate, Extend
  <2> QED
    BY <2>3, <2>4
<1>2. ASSUME NEW s \in Status, ChangeWorkflow(i, k, e, s)
      PROVE  \E row : Serves(h, row) /\ history' = [history EXCEPT ![i] = h \o <<row>>]
  <2> DEFINE after == [P EXCEPT !.status = s, !.provenance = "known"]
             row == Row("workflow", "none", P, after, k, e, "change")
  <2>1. after \in State /\ P # None /\ P \in State /\ after.status = s
        /\ after.visibility = P.visibility /\ after.reminder = P.reminder
    BY <1>0, <1>2 DEF ChangeWorkflow, State
  <2>2. P.status # None /\ s \in Forward(P.status)
    BY <1>2 DEF ChangeWorkflow
  <2>3. DimensionKept(row)
    BY <2>1, <2>2 DEF DimensionKept, Row
  <2>4. Moves(h, row)
    BY <2>1, <2>2 DEF Moves, Row, Genuine
  <2>5. Mutate(i, k, e, "workflow", "change", after)
    BY <1>2 DEF ChangeWorkflow
  <2>6. "change" \in Request
    BY DEF Request
  <2> QED
    BY <1>1, <2>1, <2>3, <2>4, <2>5, <2>6
<1>3. ASSUME NEW s \in Status, ResolveUnknown(i, k, e, s)
      PROVE  \E row : Serves(h, row) /\ history' = [history EXCEPT ![i] = h \o <<row>>]
  <2> DEFINE after == [P EXCEPT !.status = s, !.provenance = "known"]
             row == Row("workflow", "none", P, after, k, e, "resolve")
  <2>1. after \in State /\ P # None /\ P \in State /\ after.status = s /\ s # None
        /\ after.visibility = P.visibility /\ after.reminder = P.reminder
        /\ after.provenance = "known"
    BY <1>0, <1>3, LedgerAssumption DEF ResolveUnknown, State
  <2>2. P.status = None /\ P.provenance = "unknown_legacy"
    BY <1>3 DEF ResolveUnknown
  <2>3. DimensionKept(row)
    BY <2>1, <2>2 DEF DimensionKept, Row
  <2>4. Moves(h, row)
    BY <2>1, <2>2 DEF Moves, Row
  <2>5. Mutate(i, k, e, "workflow", "resolve", after)
    BY <1>3 DEF ResolveUnknown
  <2>6. "resolve" \in Request
    BY DEF Request
  <2> QED
    BY <1>1, <2>1, <2>3, <2>4, <2>5, <2>6
<1>4. ASSUME NEW v \in {"visible", "hidden"}, SetVisibility(i, k, e, v)
      PROVE  \E row : Serves(h, row) /\ history' = [history EXCEPT ![i] = h \o <<row>>]
  <2> DEFINE after == [P EXCEPT !.visibility = v]
             row == Row("visibility", "none", P, after, k, e, v)
  <2>1. after \in State /\ after.status = P.status /\ after.visibility = v
    BY <1>0, <1>4 DEF SetVisibility, State
  <2>2. DimensionKept(row) /\ Moves(h, row)
    BY <2>1 DEF DimensionKept, Moves, Row
  <2>3. Mutate(i, k, e, "visibility", v, after) /\ v \in Request
    BY <1>4 DEF SetVisibility, Request
  <2> QED
    BY <1>1, <2>1, <2>2, <2>3
<1>5. ASSUME NEW r \in Reminder \cup {None}, SetReminder(i, k, e, r)
      PROVE  \E row : Serves(h, row) /\ history' = [history EXCEPT ![i] = h \o <<row>>]
  <2> DEFINE after == [P EXCEPT !.reminder = r]
             row == Row("reminder", "none", P, after, k, e, "reminder")
  <2>1. after \in State /\ after.status = P.status /\ after.reminder = r
    BY <1>0, <1>5 DEF SetReminder, State
  <2>2. DimensionKept(row) /\ Moves(h, row)
    BY <2>1 DEF DimensionKept, Moves, Row
  <2>3. Mutate(i, k, e, "reminder", "reminder", after) /\ "reminder" \in Request
    BY <1>5 DEF SetReminder, Request
  <2> QED
    BY <1>1, <2>1, <2>2, <2>3
<1>6. ASSUME NEW n \in 1 .. e, UndoTransition(i, k, e, n)
      PROVE  \E row : Serves(h, row) /\ history' = [history EXCEPT ![i] = h \o <<row>>]
  <2> DEFINE before == h[n].before
             row == [Row("undo", "none", P, before, k, e, "undo") EXCEPT !.undoOf = n]
  <2>1. /\ n \in 1 .. Len(h) /\ Undoable(i, n, e) /\ P # None /\ Len(h) = e
    BY <1>6 DEF UndoTransition, Fresh, Version
  <2>2. /\ n = e /\ h[n].dim \notin {"baseline", "undo"} /\ h[n].class = "none"
        /\ Childless(h, n) /\ before # None
    BY <2>1 DEF Undoable
  <2>3. before \in State /\ n \in Nat /\ n # 0 /\ e \in Nat
    <3>1. h[n] \in Transition /\ n \in Nat /\ n # 0 /\ e \in Nat
      BY <1>h, <2>1, LedgerAssumption
    <3>2. h[n].before \in State \cup {None}
      BY <3>1 DEF Transition
    <3> QED
      BY <2>2, <3>1, <3>2
  <2>4. /\ row \in Transition /\ row.before = P /\ row.class = "none" /\ row.after = before
        /\ row.undoOf = n /\ row.correctionOf = 0 /\ row.dim = "undo"
    BY <1>0, <2>1, <2>3 DEF Row, Transition, Class, Dimension, Request
  <2>5. Ref(row) = n /\ Supersedes(h, row)
    BY <2>1, <2>2, <2>3, <2>4 DEF Ref, Supersedes
  <2>6. DimensionKept(row) /\ Moves(h, row)
    BY <2>1, <2>2, <2>4 DEF DimensionKept, Moves
  <2>7. Serves(h, row)
    BY <1>0, <2>1, <2>3, <2>4, <2>5, <2>6 DEF Serves
  <2>8. history' = [history EXCEPT ![i] = h \o <<row>>]
    BY <1>6 DEF UndoTransition, Extend
  <2> QED
    BY <2>7, <2>8
<1>7. ASSUME NEW n \in 1 .. e, NEW target \in Corrections, CorrectState(i, k, e, n, target)
      PROVE  \E row : Serves(h, row) /\ history' = [history EXCEPT ![i] = h \o <<row>>]
  <2> DEFINE row == [Row("correction", "none", P, target, k, e, "correct") EXCEPT !.correctionOf = n]
  <2>1. /\ n \in 1 .. Len(h) /\ Correctable(i, n) /\ P # None /\ Len(h) = e
    BY <1>7 DEF CorrectState, Fresh, Version
  <2>2. /\ h[n].dim \in {"workflow", "correction"} /\ h[n].class = "none" /\ Childless(h, n)
    BY <2>1 DEF Correctable
  <2>3. target \in State /\ n \in Nat /\ n # 0 /\ e \in Nat
    BY <2>1, LedgerAssumption
  <2>4. /\ row \in Transition /\ row.before = P /\ row.class = "none"
        /\ row.undoOf = 0 /\ row.correctionOf = n /\ row.dim = "correction"
    BY <1>0, <2>1, <2>3 DEF Row, Transition, Class, Dimension, Request
  <2>5. Ref(row) = n /\ Supersedes(h, row)
    BY <2>1, <2>2, <2>3, <2>4 DEF Ref, Supersedes
  <2>6. DimensionKept(row) /\ Moves(h, row)
    BY <2>4 DEF DimensionKept, Moves
  <2>7. Serves(h, row)
    BY <1>0, <2>1, <2>3, <2>4, <2>5, <2>6 DEF Serves
  <2>8. history' = [history EXCEPT ![i] = h \o <<row>>]
    BY <1>7 DEF CorrectState, Extend
  <2> QED
    BY <2>7, <2>8
<1> QED
  BY <1>2, <1>3, <1>4, <1>5, <1>6, <1>7 DEF Service

(* Every history is one the reconciler accepts, and what its funnel counts *)
(* is a road.                                                              *)
FunnelInv == \A i \in Item : HistoryInv(history[i])

\* Every step keeps what the funnel relies on.
LEMMA FunnelStep == IInv /\ FunnelInv /\ [LedgerNext]_ledger => FunnelInv'
<1> SUFFICES ASSUME IInv, FunnelInv, [LedgerNext]_ledger
             PROVE  FunnelInv'
  OBVIOUS
<1>0. history \in [Item -> Seq(Transition)]
  BY DEF IInv, LedgerTypeOK
<1>1. ASSUME NEW i \in Item, NEW row \in Legacy, Backfill(i, row)
      PROVE  FunnelInv'
  <2> DEFINE first == Row("baseline", "none", None, LegacyProjection(row), None, 0, "legacy")
  <2>1. first \in Transition /\ first.dim = "baseline" /\ first.undoOf = 0 /\ first.correctionOf = 0
    BY LegacyTyped DEF Row, Transition, Class, Dimension, Request
  <2>2. HistoryInv(<<first>>)
    BY <2>1, BaselineKeeps
  <2>3. history[i] = << >> /\ history' = [history EXCEPT ![i] = history[i] \o <<first>>]
    BY <1>1 DEF Backfill, Extend
  <2>4. << >> \o <<first>> = <<first>>
    BY <2>1, ConcatEmptySeq
  <2>5. \A j \in Item : history'[j] = IF j = i THEN <<first>> ELSE history[j]
    BY <1>0, <2>3, <2>4
  <2> QED
    BY <2>2, <2>5 DEF FunnelInv
<1>2. ASSUME NEW i \in Item, NEW k \in Key, NEW e \in 1 .. MaxVersion, Service(i, k, e)
      PROVE  FunnelInv'
  <2>1. PICK row : Serves(history[i], row) /\ history' = [history EXCEPT ![i] = history[i] \o <<row>>]
    BY <1>2, ServiceServes DEF FunnelInv
  <2>2. Chained(history[i])
    BY DEF IInv, LedgerChain, Version, Chained
  <2>3. HistoryInv(history[i] \o <<row>>)
    BY <1>0, <2>1, <2>2, ServesKeeps DEF FunnelInv
  <2>4. \A j \in Item : history'[j] = IF j = i THEN history[i] \o <<row>> ELSE history[j]
    BY <1>0, <2>1
  <2> QED
    BY <2>3, <2>4 DEF FunnelInv
<1>3. ASSUME NEW k \in Key, Replay(k)
      PROVE  FunnelInv'
  BY <1>3 DEF Replay, FunnelInv
<1>4. CASE UNCHANGED ledger
  BY <1>4 DEF ledger, FunnelInv
<1> QED
  BY <1>1, <1>2, <1>3, <1>4 DEF LedgerNext

(* What undos and corrections leave behind, in any order and any number,   *)
(* is a history the reconciler accepts, and of an item never corrected the *)
(* funnel counts the road it took.                                         *)
THEOREM FunnelTheorem == LedgerSpec => []FunnelSound
<1>1. LedgerInit => FunnelInv
  BY NothingKeeps DEF LedgerInit, FunnelInv
<1>2. IInv /\ FunnelInv => FunnelSound
  <2> SUFFICES ASSUME IInv, FunnelInv
               PROVE  FunnelSound
    OBVIOUS
  <2>1. Reconciles
    BY AcceptedReconciles DEF FunnelInv, HistoryInv, AllAccepted
  <2>2. ASSUME NEW i \in Item, ~Corrected(history[i])
        PROVE  /\ Effective(history[i]) = Counted(history[i])
               /\ Road(history[i])
               /\ history[i] # << >> => projection[i] = history[i][Len(history[i])].after
    <3>1. history[i] \in Seq(Transition)
      BY DEF IInv, LedgerTypeOK
    <3> QED
      BY <2>2, <3>1, EffectiveCounted DEF FunnelInv, HistoryInv, IInv, LedgerChain, Version
  <2>3. ASSUME NEW i \in Item, ~Corrected(history[i]), NEW n \in Effective(history[i])
        PROVE  LET h == history[i]
                   later == {m \in Effective(h) : m > n}
               IN  IF later = {} THEN h[n].after.status = projection[i].status
                   ELSE \E m \in later : /\ \A l \in later : m <= l
                                         /\ h[m].before.status = h[n].after.status
    <3>1. history[i] # << >>
      BY <2>3 DEF Effective
    <3>2. n \in Counted(history[i])
      BY <2>2, <2>3
    <3> QED
      BY <2>2, <2>3, <3>1, <3>2 DEF Road
  <2>4. FunnelIsRoad
    BY <2>3 DEF FunnelIsRoad, Corrected
  <2> QED
    BY <2>1, <2>4 DEF FunnelSound
<1> QED
  BY <1>1, <1>2, LedgerInvariant, FunnelStep, PTL DEF LedgerSpec

-----------------------------------------------------------------------------
\* The workflow actions of the browser and the statuses they stand for.
LEMMA WorkflowActions ==
  /\ DOMAIN WORKFLOW_ACTIONS = {"save", "applied", "assessment_started", "assessment_completed",
                                "accepted", "rejected"}
  /\ \A action \in DOMAIN WORKFLOW_ACTIONS :
       WORKFLOW_ACTIONS[action] \in Status /\ WORKFLOW_ACTIONS[action] # None
<1>1. DOMAIN WORKFLOW_ACTIONS = {"save", "applied", "assessment_started", "assessment_completed",
                                 "accepted", "rejected"}
  BY DEF WORKFLOW_ACTIONS
<1>2. \A action \in DOMAIN WORKFLOW_ACTIONS : WORKFLOW_ACTIONS[action] \in Status
  BY <1>1 DEF WORKFLOW_ACTIONS, Status
<1> QED
  BY <1>1, <1>2, LedgerAssumption

(* An item nobody reported the status of is an item of the old program.    *)
Settled(st) ==
  /\ st \in State /\ ~Adrift(st)
  /\ st.status = None => st.provenance = "unknown_legacy"

(* What an action aims at, T: only the action's own dimension changes.      *)
Aimed(T, st, action, r) ==
  /\ Settled(T)
  /\ AcceptedNoop(st, action, r) => T = st
  /\ ~AcceptedNoop(st, action, r) /\ action \in DOMAIN WORKFLOW_ACTIONS =>
       /\ T.status = WORKFLOW_ACTIONS[action] /\ T.provenance = "known"
       /\ T.visibility = st.visibility /\ T.reminder = st.reminder
       /\ st.status = None \/ T.status \in Forward(st.status)
  /\ ~AcceptedNoop(st, action, r) /\ action = "remind_later" =>
       T = [st EXCEPT !.reminder = r]
  /\ ~AcceptedNoop(st, action, r) /\ action \in {"not_interested", "show_again"} =>
       T = [st EXCEPT !.visibility = T.visibility]
  /\ action = "show_again_as_saved" =>
       /\ st.status = None /\ ~AcceptedNoop(st, action, r)
       /\ T = [st EXCEPT !.status = "saved", !.provenance = "known", !.visibility = "visible"]

\* The target of an action is what the action asks for.
LEMMA TargetAimed ==
  ASSUME NEW st, Settled(st), NEW action \in SUPPORTED_ACTIONS, NEW r \in Reminder \cup {None},
         action = "remind_later" => r # None, Target(st, action, r) # None
  PROVE  Aimed(Target(st, action, r), st, action, r)
<1> DEFINE T == Target(st, action, r)
<1>0. st \in State /\ ~Adrift(st) /\ (st.status = None => st.provenance = "unknown_legacy")
  BY DEF Settled
<1>w. "remind_later" \notin DOMAIN WORKFLOW_ACTIONS /\ "not_interested" \notin DOMAIN WORKFLOW_ACTIONS
      /\ "show_again" \notin DOMAIN WORKFLOW_ACTIONS
      /\ "show_again_as_saved" \notin DOMAIN WORKFLOW_ACTIONS
  BY WorkflowActions
<1>n. None \notin Status /\ None # "saved"
  BY LedgerAssumption DEF Status
<1>1. CASE AcceptedNoop(st, action, r)
  <2>0. action \in DOMAIN WORKFLOW_ACTIONS \/ action \in {"remind_later", "not_interested", "show_again"}
    BY <1>1, <1>w DEF AcceptedNoop
  <2>1. T = st
    <3>1. CASE action \in DOMAIN WORKFLOW_ACTIONS
      <4>1. st.status = WORKFLOW_ACTIONS[action] /\ st.status # None
        BY <1>1, <1>w, <3>1, WorkflowActions DEF AcceptedNoop
      <4>2. st.status \notin Forward(st.status)
        BY <1>0 DEF Forward, State, Status
      <4>3. action \notin {"remind_later", "not_interested", "show_again", "show_again_as_saved"}
        BY <1>w, <3>1
      <4> QED
        BY <1>1, <4>1, <4>2, <4>3 DEF Target
    <3>2. CASE action = "remind_later"
      <4>1. [st EXCEPT !.reminder = r] = st
        BY <1>0, <1>1, <1>w, <3>2 DEF AcceptedNoop, State
      <4> QED
        BY <1>1, <1>w, <3>2, <4>1 DEF Target
    <3>3. CASE action = "not_interested"
      <4>1. [st EXCEPT !.visibility = "hidden"] = st
        BY <1>0, <1>1, <1>w, <3>3 DEF AcceptedNoop, State
      <4> QED
        BY <1>1, <1>w, <3>3, <4>1 DEF Target
    <3>4. CASE action = "show_again"
      <4>1. st.visibility = "visible"
        BY <1>1, <1>w, <3>4 DEF AcceptedNoop
      <4> QED
        BY <1>1, <1>w, <3>4, <4>1 DEF Target
    <3> QED
      BY <2>0, <3>1, <3>2, <3>3, <3>4
  <2>2. action # "show_again_as_saved"
    BY <1>1, <1>w DEF AcceptedNoop
  <2> QED
    BY <1>0, <1>1, <2>1, <2>2 DEF Settled, Aimed
<1>2. CASE ~AcceptedNoop(st, action, r) /\ action \in DOMAIN WORKFLOW_ACTIONS
  <2>1. action \notin {"remind_later", "not_interested", "show_again", "show_again_as_saved"}
    BY <1>2, <1>w
  <2>2. st.status = None \/ WORKFLOW_ACTIONS[action] \in Forward(st.status)
    BY <1>2, <2>1 DEF Target
  <2>3. T = [st EXCEPT !.status = WORKFLOW_ACTIONS[action], !.provenance = "known"]
    BY <1>2, <2>1, <2>2 DEF Target
  <2>4. T \in State /\ T.status = WORKFLOW_ACTIONS[action] /\ T.provenance = "known"
        /\ T.visibility = st.visibility /\ T.reminder = st.reminder /\ T.status # None
    BY <1>0, <1>2, <2>3, WorkflowActions DEF State
  <2> QED
    BY <1>2, <2>1, <2>2, <2>4 DEF Settled, Adrift, Aimed
<1>3. CASE ~AcceptedNoop(st, action, r) /\ action = "remind_later"
  <2>1. T = [st EXCEPT !.reminder = r]
    BY <1>3, <1>w DEF Target
  <2>2. T \in State /\ T.reminder # None /\ T.status = st.status /\ T.provenance = st.provenance
    BY <1>0, <1>3, <2>1 DEF State
  <2> QED
    BY <1>0, <1>3, <1>w, <2>1, <2>2 DEF Settled, Adrift, Aimed
<1>4. CASE ~AcceptedNoop(st, action, r) /\ action = "not_interested"
  <2>1. T = [st EXCEPT !.visibility = "hidden"]
    BY <1>4, <1>w DEF Target
  <2>2. T \in State /\ T.visibility = "hidden" /\ T.status = st.status /\ T.provenance = st.provenance
    BY <1>0, <2>1 DEF State
  <2> QED
    BY <1>0, <1>4, <1>w, <2>1, <2>2 DEF Settled, Adrift, Aimed
<1>5. CASE ~AcceptedNoop(st, action, r) /\ action = "show_again"
  <2>1. st.status # None /\ T = [st EXCEPT !.visibility = "visible"]
    BY <1>5, <1>w DEF Target
  <2>2. T \in State /\ T.visibility = "visible" /\ T.status = st.status /\ T.provenance = st.provenance
    BY <1>0, <2>1 DEF State
  <2> QED
    BY <1>0, <1>5, <1>w, <2>1, <2>2 DEF Settled, Adrift, Aimed
<1>6. CASE ~AcceptedNoop(st, action, r) /\ action = "show_again_as_saved"
  <2>1. st.status = None
        /\ T = [st EXCEPT !.status = "saved", !.provenance = "known", !.visibility = "visible"]
    BY <1>6, <1>w DEF Target
  <2>2. T \in State /\ T.status = "saved"
    BY <1>0, <2>1 DEF State, Status
  <2> QED
    BY <1>6, <1>n, <1>w, <2>1, <2>2 DEF Settled, Adrift, Aimed
<1> QED
  BY <1>1, <1>2, <1>3, <1>4, <1>5, <1>6, WorkflowActions DEF SUPPORTED_ACTIONS

(* Rows of one or two that one action appends.                             *)
LEMMA ActionLinked ==
  ASSUME LedgerTypeOK, NEW i \in Item, NEW k \in Key, ~Used(k),
         NEW rows \in Seq(Transition), Len(rows) \in {1, 2},
         history[i] # << >> => rows[1].before = projection[i],
         Len(rows) = 2 => /\ rows[2].before = rows[1].after /\ rows[1].key = None
                          /\ rows[1].request = rows[2].request,
         rows[Len(rows)].key = k, rows[Len(rows)].expected = Version(i)
  PROVE  Linked(i, rows, k)
<1>1. rows # << >>
  BY EmptySeq
<1>2. \A n \in 2 .. Len(rows) : n = 2 /\ Len(rows) = 2
  OBVIOUS
<1>3. \A n \in 1 .. Len(rows) : n = Len(rows) \/ (n = 1 /\ Len(rows) = 2)
  OBVIOUS
<1>4. k # None
  BY LedgerAssumption
<1>5. \A n \in 2 .. Len(rows) : rows[n].before = rows[n - 1].after
  BY <1>2
<1>6. ASSUME NEW n \in 1 .. Len(rows), rows[n].key # None
      PROVE  /\ rows[n].key = k /\ n = Len(rows) /\ rows[n].expected = Version(i)
             /\ \A m \in 1 .. n : rows[m].request = rows[n].request
  <2>1. n = Len(rows)
    BY <1>3, <1>6
  <2>2. \A m \in 1 .. n : rows[m].request = rows[n].request
    BY <1>3, <2>1
  <2> QED
    BY <2>1, <2>2
<1> QED
  BY <1>1, <1>5, <1>6 DEF Linked

(* The rows of an action on the state st tell what it did.                 *)
Tells(rows, action, st, r) ==
  /\ \A n \in 1 .. Len(rows) :
       /\ Ref(rows[n]) = 0
       /\ rows[n].class = "none" => DimensionKept(rows[n])
       /\ rows[n].class = "none" /\ rows[n].request \in DOMAIN WORKFLOW_ACTIONS \ {"save"} =>
            /\ Reports(st, action, r) /\ rows[n].after.status = WORKFLOW_ACTIONS[action]
  /\ rows[Len(rows)].after = Target(st, action, r)
  /\ Reports(st, action, r) =>
       LET t == rows[Len(rows)]
       IN  /\ t.class = "none" /\ t.dim = "workflow" /\ t.after.status = WORKFLOW_ACTIONS[action]
           /\ t.request \in DOMAIN WORKFLOW_ACTIONS

\* The rows an action writes say what changed, and end where it aimed.
LEMMA RowsTell ==
  ASSUME NEW st, Settled(st), NEW action \in SUPPORTED_ACTIONS, NEW r \in Reminder \cup {None},
         action = "remind_later" => r # None, Target(st, action, r) # None,
         NEW k \in Key, NEW e \in Nat
  PROVE  LET rows == Rows(st, action, r, k, e)
         IN  /\ rows \in Seq(Transition) /\ Len(rows) \in {1, 2}
             /\ action # "show_again_as_saved" => Len(rows) = 1
             /\ rows[1].before = st
             /\ Len(rows) = 2 => /\ rows[2].before = rows[1].after /\ rows[1].key = None
                                 /\ rows[1].request = rows[2].request
             /\ rows[Len(rows)].key = k /\ rows[Len(rows)].expected = e
             /\ rows[Len(rows)].request = action
             /\ Tells(rows, action, st, r)
<1> DEFINE T == Target(st, action, r)
           rows == Rows(st, action, r, k, e)
<1>s. Aimed(T, st, action, r)
  BY TargetAimed
<1>0. /\ Settled(T) /\ st \in State /\ T \in State /\ action \in Request
      /\ st.status = None => st.provenance = "unknown_legacy"
  BY <1>s DEF Settled, Request, Aimed
<1>w. /\ \A a \in {"remind_later", "not_interested", "show_again", "show_again_as_saved"} :
           a \notin DOMAIN WORKFLOW_ACTIONS
      /\ \A a \in SUPPORTED_ACTIONS : a \in DOMAIN WORKFLOW_ACTIONS
           \/ a \in {"remind_later", "not_interested", "show_again", "show_again_as_saved"}
  BY WorkflowActions DEF SUPPORTED_ACTIONS
<1>t. action \in DOMAIN WORKFLOW_ACTIONS => WORKFLOW_ACTIONS[action] \in Status
  BY WorkflowActions
<1>1. CASE AcceptedNoop(st, action, r)
  <2> DEFINE a == Row("workflow", "operation_noop", st, st, k, e, action)
  <2>1. rows = <<a>>
    BY <1>1 DEF Rows
  <2>2. T = st /\ action # "show_again_as_saved" /\ ~Reports(st, action, r)
    BY <1>1, <1>s DEF Aimed, Reports
  <2>3. /\ a \in Transition /\ Ref(a) = 0 /\ a.class = "operation_noop" /\ a.before = st
        /\ a.after = st /\ a.key = k /\ a.expected = e /\ a.request = action
    BY <1>0 DEF Row, Transition, Class, Dimension, Ref
  <2> HIDE DEF a, rows
  <2>4. rows \in Seq(Transition) /\ Len(rows) = 1 /\ rows[1] = a
    BY <2>1, <2>3
  <2>5. \A n \in 1 .. Len(rows) : rows[n] = a
    BY <2>4
  <2>6. Tells(rows, action, st, r)
    BY <2>2, <2>3, <2>4, <2>5 DEF Tells
  <2> QED
    BY <2>3, <2>4, <2>6 DEF rows
<1>2. CASE ~AcceptedNoop(st, action, r) /\ action # "show_again_as_saved"
  <2> DEFINE a == Row(Dim(action), "none", st, T, k, e, action)
  <2>1. rows = <<a>>
    BY <1>2 DEF Rows
  <2>2. Dim(action) \in {"workflow", "reminder", "visibility"}
        /\ (action \in DOMAIN WORKFLOW_ACTIONS <=> Dim(action) = "workflow")
        /\ (action = "remind_later" <=> Dim(action) = "reminder")
    BY <1>w DEF Dim
  <2>3. /\ a \in Transition /\ Ref(a) = 0 /\ a.class = "none" /\ a.before = st
        /\ a.after = T /\ a.key = k /\ a.expected = e /\ a.request = action /\ a.dim = Dim(action)
    BY <1>0, <2>2 DEF Row, Transition, Class, Dimension, Ref
  <2>4. DimensionKept(a)
    <3>1. CASE action \in DOMAIN WORKFLOW_ACTIONS
      <4>1. /\ T.status = WORKFLOW_ACTIONS[action] /\ T.provenance = "known"
            /\ T.visibility = st.visibility /\ T.reminder = st.reminder
            /\ st.status = None \/ T.status \in Forward(st.status)
        BY <1>2, <3>1, <1>s DEF Aimed
      <4>2. a.dim = "workflow"
        BY <2>2, <2>3, <3>1
      <4> HIDE DEF a, T
      <4> QED
        BY <1>0, <1>t, <2>3, <3>1, <4>1, <4>2 DEF DimensionKept
    <3>2. CASE action = "remind_later"
      <4>1. T = [st EXCEPT !.reminder = r] /\ a.dim = "reminder"
        BY <1>2, <2>2, <2>3, <3>2, <1>s DEF Aimed
      <4>2. T.reminder = r
        BY <1>0, <4>1 DEF State
      <4> HIDE DEF a, T
      <4> QED
        BY <2>3, <4>1, <4>2 DEF DimensionKept
    <3>3. CASE action \in {"not_interested", "show_again"}
      <4>1. T = [st EXCEPT !.visibility = T.visibility]
        BY <1>2, <3>3, <1>s DEF Aimed
      <4>2. a.dim = "visibility"
        BY <1>w, <2>2, <2>3, <3>3
      <4> HIDE DEF a, T
      <4> QED
        BY <2>3, <4>1, <4>2 DEF DimensionKept
    <3> QED
      BY <1>2, <1>w, <3>1, <3>2, <3>3
  <2>5. action \in DOMAIN WORKFLOW_ACTIONS => T.status = WORKFLOW_ACTIONS[action]
    BY <1>2, <1>s DEF Aimed
  <2>6. Reports(st, action, r) <=> action \in DOMAIN WORKFLOW_ACTIONS \ {"save"}
    BY <1>2 DEF Reports
  <2> HIDE DEF a, rows
  <2>7. rows \in Seq(Transition) /\ Len(rows) = 1 /\ rows[1] = a
    BY <2>1, <2>3
  <2>8. \A n \in 1 .. Len(rows) : rows[n] = a
    BY <2>7
  <2>9. Tells(rows, action, st, r)
    BY <2>2, <2>3, <2>4, <2>5, <2>6, <2>7, <2>8 DEF Tells
  <2> QED
    BY <2>3, <2>7, <2>9 DEF rows
<1>3. CASE ~AcceptedNoop(st, action, r) /\ action = "show_again_as_saved"
  <2> DEFINE resolved == [st EXCEPT !.status = "saved", !.provenance = "known"]
             a == Row("workflow", "none", st, resolved, None, e, action)
             b == Row("visibility", "none", resolved, T, k, e, action)
  <2>1. rows = <<a, b>>
    BY <1>3 DEF Rows
  <2>2. /\ st.status = None
        /\ T = [st EXCEPT !.status = "saved", !.provenance = "known", !.visibility = "visible"]
    BY <1>3, <1>s DEF Aimed
  <2>3. /\ resolved \in State /\ resolved.status = "saved" /\ resolved.provenance = "known"
        /\ resolved.visibility = st.visibility /\ resolved.reminder = st.reminder
        /\ T = [resolved EXCEPT !.visibility = T.visibility]
    BY <1>0, <2>2 DEF State, Status
  <2>4. /\ a \in Transition /\ Ref(a) = 0 /\ a.class = "none" /\ a.before = st
        /\ a.after = resolved /\ a.key = None /\ a.request = action /\ a.dim = "workflow"
    BY <1>0, <2>3 DEF Row, Transition, Class, Dimension, Ref
  <2>5. /\ b \in Transition /\ Ref(b) = 0 /\ b.class = "none" /\ b.before = resolved
        /\ b.after = T /\ b.key = k /\ b.expected = e /\ b.request = action /\ b.dim = "visibility"
    BY <1>0, <2>3 DEF Row, Transition, Class, Dimension, Ref
  <2>6. action \notin DOMAIN WORKFLOW_ACTIONS /\ ~Reports(st, action, r)
    BY <1>3, <1>w DEF Reports
  <2> HIDE DEF a, b, rows, resolved, T
  <2>7. DimensionKept(a)
    BY <1>0, <2>2, <2>3, <2>4 DEF DimensionKept, Status
  <2>8. DimensionKept(b)
    BY <2>3, <2>5 DEF DimensionKept
  <2>9. rows \in Seq(Transition) /\ Len(rows) = 2 /\ rows[1] = a /\ rows[2] = b
    BY <2>1, <2>4, <2>5
  <2>10. \A n \in 1 .. Len(rows) : rows[n] \in {a, b}
    BY <2>9
  <2>11. Tells(rows, action, st, r)
    BY <2>4, <2>5, <2>6, <2>7, <2>8, <2>9, <2>10 DEF Tells, T
  <2> QED
    BY <1>3, <2>4, <2>5, <2>9, <2>11 DEF rows
<1> QED
  BY <1>1, <1>2, <1>3

-----------------------------------------------------------------------------
(* What the actions keep: the ledger is one chain the reconciler accepts,  *)
(* the mirrors and the applicant rows follow it, an applicant row is filed *)
(* under the title of the item it names, and an item without a status is   *)
(* one the migration found.                                                *)
ActionsInv ==
  /\ IInv /\ AllAccepted /\ ActionsTypeOK /\ RecordsAgree
  /\ \A i \in Item : projection[i] # None => Settled(projection[i])
  /\ \A row \in applicants : row.id.title = titleOf[row.item]
  /\ NeverMalformed

(* One transaction of perform_pipeline_action: rows that tell what they    *)
(* did, the mirror and the applicant row.                                  *)
Writes(i, st, rows, action, r, k) ==
  /\ Settled(st) /\ Target(st, action, r) # None /\ Checked(i, st, action, r)
  /\ action = "remind_later" => r # None
  /\ rows \in Seq(Transition) /\ Linked(i, rows, k) /\ Len(rows) \in {1, 2}
  /\ \A n \in 1 .. Len(rows) :
       /\ Ref(rows[n]) = 0
       /\ rows[n].class = "none" /\ (n > 1 \/ history[i] # << >>) => DimensionKept(rows[n])
       /\ rows[n].class = "none" /\ rows[n].request \in DOMAIN WORKFLOW_ACTIONS \ {"save"} =>
            Reports(st, action, r) /\ rows[n].after.status = WORKFLOW_ACTIONS[action]
  /\ rows[Len(rows)].after = Target(st, action, r)
  /\ Reports(st, action, r) =>
       /\ rows[Len(rows)].class = "none" /\ rows[Len(rows)].dim = "workflow"
       /\ rows[Len(rows)].after.status = WORKFLOW_ACTIONS[action]
       /\ rows[Len(rows)].request \in DOMAIN WORKFLOW_ACTIONS
  /\ Extend(i, rows, k)
  /\ mirror' = [mirror EXCEPT ![i] = Mirrored(i, st, action, r)]
  /\ applicants' = IF Reports(st, action, r) THEN Upsert(i, action) ELSE applicants
  /\ UNCHANGED <<titleOf, day, fault>>

\* A command completed keeps the invariant of the browser's actions.
LEMMA CompleteKeeps ==
  ASSUME ActionsInv, NEW i \in Item, NEW k \in Key, NEW action \in SUPPORTED_ACTIONS,
         NEW r \in Reminder \cup {None}, NEW st, NEW rows, Writes(i, st, rows, action, r, k)
  PROVE  ActionsInv'
<1> USE DEF Writes
<1> DEFINE T == Target(st, action, r)
           h == history[i]
           g == h \o rows
<1>0. /\ LedgerTypeOK /\ h \in Seq(Transition)
      /\ titleOf \in [Item -> Title]
      /\ mirror \in [Item -> [status : LegacyStatus, reminder : Reminder \cup {None}] \cup {None}]
      /\ applicants \subseteq [id : [title : Title, status : Status, day : 1 .. Days], item : Item]
      /\ day \in 1 .. Days /\ fault \in {"none", "creation", "update"}
  BY DEF ActionsInv, ActionsTypeOK, LedgerTypeOK
<1>1. /\ g \in Seq(Transition) /\ Len(h) \in Nat /\ Len(rows) \in Nat
      /\ Len(g) = Len(h) + Len(rows)
      /\ \A n \in 1 .. Len(h) : g[n] = h[n] /\ h[n] \in Transition
      /\ \A n \in 1 .. Len(rows) : rows[n] \in Transition
      /\ \A n \in 1 .. Len(h) + Len(rows) : n > Len(h) =>
           n - Len(h) \in 1 .. Len(rows) /\ g[n] = rows[n - Len(h)]
  BY <1>0, Joined
<1>2. g[Len(g)] = rows[Len(rows)] /\ Len(g) \in 1 .. Len(g)
  <2>1. Len(h) + Len(rows) \in 1 .. Len(h) + Len(rows) /\ Len(h) + Len(rows) > Len(h)
        /\ (Len(h) + Len(rows)) - Len(h) = Len(rows)
    <3>1. \A a \in Nat : \A b \in {1, 2} : a + b \in 1 .. a + b /\ a + b > a /\ (a + b) - a = b
      OBVIOUS
    <3>2. Len(h) \in Nat /\ Len(rows) \in {1, 2}
      BY <1>1
    <3> HIDE DEF h, Writes
    <3> QED
      BY <3>1, <3>2
  <2> QED
    BY <1>1, <2>1
<1>3. /\ \A j \in Item : history'[j] = IF j = i THEN g ELSE history[j]
      /\ \A j \in Item : projection'[j] = IF j = i THEN T ELSE projection[j]
  BY <1>0, <1>2 DEF Extend, LedgerTypeOK
<1>4. Aimed(T, st, action, r) /\ Settled(T) /\ T \in State /\ T # None
  <2>1. Aimed(T, st, action, r)
    BY TargetAimed
  <2> HIDE DEF T
  <2> QED
    BY <2>1, LedgerAssumption DEF Aimed, Settled
<1> HIDE DEF g, T
<1>5. IInv'
  BY ExtendKeeps DEF ActionsInv
<1>6. AllAccepted'
  <2>1. Fitting(h, rows)
    BY DEF Fitting
  <2> QED
    BY <1>0, <2>1, ExtendAccepted DEF ActionsInv
<1>7. \A j \in Item : projection'[j] # None => Settled(projection'[j])
  BY <1>3, <1>4 DEF ActionsInv
<1>8. Mirrored(i, st, action, r) = Compatibility(T)
  BY DEF Checked, T
<1>9. /\ Compatibility(T) \in [status : LegacyStatus, reminder : Reminder \cup {None}]
      /\ Compatibility(T) # None
  <2>1. Compatibility(T) \in [status : LegacyStatus, reminder : Reminder \cup {None}]
    BY <1>4 DEF Compatibility, LegacyStatus, State
  <2> QED
    BY <2>1, ActionsAssumption
<1>10. \A j \in Item : mirror'[j] = IF j = i THEN Compatibility(T) ELSE mirror[j]
  BY <1>0, <1>8
<1>11. /\ \A j \in Item : mirror'[j] = None <=> projection'[j] = None
       /\ \A j \in Item : projection'[j] # None =>
            mirror'[j] = Compatibility(projection'[j]) /\ ~Adrift(projection'[j])
  BY <1>3, <1>4, <1>9, <1>10 DEF ActionsInv, RecordsAgree, Reconciled, Settled
<1>12. /\ applicants \subseteq applicants'
       /\ \A row \in applicants' \ applicants :
            Reports(st, action, r) /\ row = [id |-> UpdateId(i, action), item |-> i]
       /\ Reports(st, action, r) => [id |-> UpdateId(i, action), item |-> i] \in applicants'
  BY DEF Upsert, Checked, Bound
<1>13. Reports(st, action, r) =>
         /\ action \in DOMAIN WORKFLOW_ACTIONS
         /\ UpdateId(i, action) \in [title : Title, status : Status, day : 1 .. Days]
         /\ UpdateId(i, action).title = titleOf[i]
         /\ UpdateId(i, action).status = WORKFLOW_ACTIONS[action]
  BY <1>0, WorkflowActions DEF Reports, UpdateId
<1>14. ActionsTypeOK'
  <2>1. applicants' \subseteq [id : [title : Title, status : Status, day : 1 .. Days], item : Item]
    BY <1>0, <1>12, <1>13
  <2>2. mirror' \in [Item -> [status : LegacyStatus, reminder : Reminder \cup {None}] \cup {None}]
    BY <1>0, <1>8, <1>9
  <2> QED
    BY <1>0, <1>5, <2>1, <2>2 DEF ActionsTypeOK, IInv
<1>15. \A row \in applicants' : row.id.title = titleOf'[row.item]
  BY <1>12, <1>13 DEF ActionsInv
<1>16. NeverMalformed'
  BY DEF NeverMalformed, ActionsInv
<1>17. \A j \in Item : \A n \in 1 .. Version(j)' :
         LET t == history'[j][n]
         IN  t.class = "none" /\ t.request \in DOMAIN WORKFLOW_ACTIONS \ {"save"} =>
               \E row \in applicants' : row.item = j /\ row.id.status = t.after.status
  <2>1. SUFFICES ASSUME NEW j \in Item, NEW n \in 1 .. Len(history'[j]),
                        history'[j][n].class = "none",
                        history'[j][n].request \in DOMAIN WORKFLOW_ACTIONS \ {"save"}
                 PROVE  \E row \in applicants' : row.item = j /\ row.id.status = history'[j][n].after.status
    BY DEF Version
  <2>2. CASE n \in 1 .. Len(history[j]) /\ history'[j][n] = history[j][n]
    BY <1>12, <2>1, <2>2 DEF ActionsInv, RecordsAgree, Reconciled, Version
  <2>3. CASE j = i /\ n > Len(h) /\ n - Len(h) \in 1 .. Len(rows) /\ history'[j][n] = rows[n - Len(h)]
    <3>1. Reports(st, action, r) /\ history'[j][n].after.status = WORKFLOW_ACTIONS[action]
      BY <2>1, <2>3
    <3> QED
      BY <1>12, <1>13, <2>3, <3>1
  <2>4. CASE j # i
    BY <1>3, <2>1, <2>2, <2>4
  <2>5. CASE j = i
    <3>1. n \in 1 .. Len(h) + Len(rows) /\ history'[j] = g
      BY <1>1, <1>3, <2>1, <2>5
    <3>2. n \in 1 .. Len(h) \/ n > Len(h)
      BY <1>1, <3>1
    <3> QED
      BY <1>1, <2>2, <2>3, <2>5, <3>1, <3>2
  <2> QED
    BY <2>4, <2>5
<1>18. ApplicantsMoved'
  <2>1. SUFFICES ASSUME NEW row \in applicants'
                 PROVE  \E n \in 1 .. Len(history'[row.item]) :
                          LET t == history'[row.item][n]
                          IN  /\ t.class = "none" /\ t.dim = "workflow"
                              /\ t.after.status = row.id.status
                              /\ t.request \in DOMAIN WORKFLOW_ACTIONS
    BY DEF ApplicantsMoved, Version
  <2>2. CASE row \in applicants
    <3>1. PICK n \in 1 .. Len(history[row.item]) :
            LET t == history[row.item][n]
            IN  /\ t.class = "none" /\ t.dim = "workflow"
                /\ t.after.status = row.id.status
                /\ t.request \in DOMAIN WORKFLOW_ACTIONS
      BY <2>2 DEF ActionsInv, RecordsAgree, ApplicantsMoved, Version
    <3>2. row.item \in Item
      BY <1>0, <2>2
    <3>3. n \in 1 .. Len(history'[row.item]) /\ history'[row.item][n] = history[row.item][n]
      BY <1>1, <1>3, <3>2
    <3> QED
      BY <3>1, <3>3
  <2>3. CASE row \notin applicants
    <3>1. Reports(st, action, r) /\ row.item = i /\ row.id.status = WORKFLOW_ACTIONS[action]
      BY <1>12, <1>13, <2>3
    <3>2. history'[i] = g
      BY <1>3
    <3> QED
      BY <1>2, <3>1, <3>2
  <2> QED
    BY <2>2, <2>3
<1>19. Reconciles'
  BY <1>6, AcceptedReconciles, PTL
<1>20. RecordsAgree'
  BY <1>11, <1>17, <1>18, <1>19 DEF RecordsAgree, Reconciled
<1> QED
  BY <1>5, <1>6, <1>7, <1>14, <1>15, <1>16, <1>20 DEF ActionsInv

(* An action on an item that has a state.                                  *)
LEMMA ActWrites ==
  ASSUME ActionsInv, NEW i \in Item, NEW k \in Key, NEW e \in 1 .. MaxVersion,
         NEW action \in SUPPORTED_ACTIONS, NEW r \in Reminder \cup {None},
         action = "remind_later" => r # None,
         Fresh(i, k, e), Complete(i, projection[i], << >>, action, r, k, e)
  PROVE  \E rows : Writes(i, projection[i], rows, action, r, k)
<1> DEFINE st == projection[i]
           rows == Rows(st, action, r, k, e)
<1>1. /\ ~Used(k) /\ st # None /\ Version(i) = e /\ e \in Nat /\ Settled(st)
      /\ Target(st, action, r) # None
  BY LedgerAssumption DEF Fresh, Complete, ActionsInv
<1>2. /\ rows \in Seq(Transition) /\ Len(rows) \in {1, 2}
      /\ rows[1].before = st
      /\ Len(rows) = 2 => /\ rows[2].before = rows[1].after /\ rows[1].key = None
                          /\ rows[1].request = rows[2].request
      /\ rows[Len(rows)].key = k /\ rows[Len(rows)].expected = e
      /\ Tells(rows, action, st, r)
  BY <1>1, RowsTell
<1>3. << >> \o rows = rows
  BY <1>2, ConcatEmptySeq
<1>4. /\ Checked(i, st, action, r) /\ Extend(i, rows, k)
      /\ mirror' = [mirror EXCEPT ![i] = Mirrored(i, st, action, r)]
      /\ applicants' = IF Reports(st, action, r) THEN Upsert(i, action) ELSE applicants
      /\ UNCHANGED <<titleOf, day, fault>>
  BY <1>3 DEF Complete
<1> HIDE DEF rows, st
<1>5. Linked(i, rows, k)
  BY <1>1, <1>2, ActionLinked DEF ActionsInv, IInv, st
<1>6. /\ \A n \in 1 .. Len(rows) :
           /\ Ref(rows[n]) = 0
           /\ rows[n].class = "none" /\ (n > 1 \/ history[i] # << >>) => DimensionKept(rows[n])
           /\ rows[n].class = "none" /\ rows[n].request \in DOMAIN WORKFLOW_ACTIONS \ {"save"} =>
                Reports(st, action, r) /\ rows[n].after.status = WORKFLOW_ACTIONS[action]
      /\ rows[Len(rows)].after = Target(st, action, r)
      /\ Reports(st, action, r) =>
           /\ rows[Len(rows)].class = "none" /\ rows[Len(rows)].dim = "workflow"
           /\ rows[Len(rows)].after.status = WORKFLOW_ACTIONS[action]
           /\ rows[Len(rows)].request \in DOMAIN WORKFLOW_ACTIONS
  BY <1>2 DEF Tells
<1>7. Writes(i, st, rows, action, r, k)
  BY <1>1, <1>2, <1>4, <1>5, <1>6 DEF Writes
<1> QED
  BY <1>7 DEF st

\* A new application is settled.
LEMMA CreatedSettled == Settled(Created)
BY LedgerAssumption DEF Created, Settled, Adrift, State, Status

(* An action on an item no one has.                                        *)
LEMMA CreateWrites ==
  ASSUME ActionsInv, NEW i \in Item, NEW k \in Key, NEW action \in CreationActions,
         ~Used(k), mirror[i] = None,
         Complete(i, Created, <<Row("workflow", "user_initialization", None, Created, None, 0, action)>>,
                  action, None, k, 0)
  PROVE  \E rows : Writes(i, Created, rows, action, None, k)
<1> DEFINE f == Row("workflow", "user_initialization", None, Created, None, 0, action)
           more == Rows(Created, action, None, k, 0)
           rows == <<f>> \o more
<1>0. /\ history[i] = << >> /\ Len(history[i]) = 0
  BY DEF ActionsInv, IInv, LedgerTypeOK, RecordsAgree, Reconciled
<1>1. action \in SUPPORTED_ACTIONS /\ action # "remind_later" /\ action # "show_again_as_saved"
      /\ action \in Request
  BY DEF CreationActions, SUPPORTED_ACTIONS, Request
<1>2. Settled(Created) /\ Created \in State /\ Target(Created, action, None) # None
  BY CreatedSettled DEF Settled, Complete
<1>3. /\ more \in Seq(Transition) /\ Len(more) = 1 /\ more[1].before = Created
      /\ more[1].key = k /\ more[1].expected = 0 /\ more[1].request = action
      /\ Tells(more, action, Created, None)
  <2>1. 0 \in Nat /\ None \in Reminder \cup {None}
    OBVIOUS
  <2>2. /\ more \in Seq(Transition) /\ Len(more) \in {1, 2}
        /\ action # "show_again_as_saved" => Len(more) = 1
        /\ more[1].before = Created
        /\ more[Len(more)].key = k /\ more[Len(more)].expected = 0 /\ more[Len(more)].request = action
        /\ Tells(more, action, Created, None)
    BY <1>1, <1>2, <2>1, RowsTell
  <2> HIDE DEF more
  <2> QED
    BY <1>1, <2>2
<1>4. /\ f \in Transition /\ f.class = "user_initialization" /\ f.after = Created /\ f.key = None
      /\ f.request = action /\ Ref(f) = 0
  BY <1>1, <1>2 DEF Row, Transition, Class, Dimension, Ref
<1>5. /\ Checked(i, Created, action, None) /\ Extend(i, rows, k)
      /\ mirror' = [mirror EXCEPT ![i] = Mirrored(i, Created, action, None)]
      /\ applicants' = IF Reports(Created, action, None) THEN Upsert(i, action) ELSE applicants
      /\ UNCHANGED <<titleOf, day, fault>>
  BY DEF Complete
<1> HIDE DEF f, more
<1>6. /\ rows \in Seq(Transition) /\ Len(rows) = 2 /\ rows[1] = f /\ rows[2] = more[1]
  <2>1. <<f>> \in Seq(Transition) /\ Len(<<f>>) = 1 /\ <<f>>[1] = f
    BY <1>4
  <2>2. /\ rows \in Seq(Transition) /\ Len(rows) = 1 + 1
        /\ \A n \in 1 .. 1 : rows[n] = <<f>>[n]
        /\ \A n \in 1 .. 1 + 1 : n > 1 => rows[n] = more[n - 1]
    BY <1>3, <2>1, Joined
  <2> QED
    BY <2>1, <2>2
<1> HIDE DEF rows
<1>7. Linked(i, rows, k)
  BY <1>0, <1>3, <1>4, <1>6, ActionLinked DEF ActionsInv, IInv, Version
<1>8. \A n \in 1 .. Len(rows) : rows[n] = f \/ (n = 2 /\ rows[n] = more[1])
  BY <1>6
<1>9. /\ Ref(more[1]) = 0
      /\ more[1].class = "none" => DimensionKept(more[1])
      /\ more[1].class = "none" /\ more[1].request \in DOMAIN WORKFLOW_ACTIONS \ {"save"} =>
           Reports(Created, action, None) /\ more[1].after.status = WORKFLOW_ACTIONS[action]
      /\ more[1].after = Target(Created, action, None)
      /\ Reports(Created, action, None) =>
           /\ more[1].class = "none" /\ more[1].dim = "workflow"
           /\ more[1].after.status = WORKFLOW_ACTIONS[action]
           /\ more[1].request \in DOMAIN WORKFLOW_ACTIONS
  BY <1>3 DEF Tells
<1>10. \A n \in 1 .. Len(rows) :
         /\ Ref(rows[n]) = 0
         /\ rows[n].class = "none" /\ (n > 1 \/ history[i] # << >>) => DimensionKept(rows[n])
         /\ rows[n].class = "none" /\ rows[n].request \in DOMAIN WORKFLOW_ACTIONS \ {"save"} =>
              Reports(Created, action, None) /\ rows[n].after.status = WORKFLOW_ACTIONS[action]
  BY <1>4, <1>8, <1>9
<1>11. /\ rows[Len(rows)].after = Target(Created, action, None)
       /\ Reports(Created, action, None) =>
            /\ rows[Len(rows)].class = "none" /\ rows[Len(rows)].dim = "workflow"
            /\ rows[Len(rows)].after.status = WORKFLOW_ACTIONS[action]
            /\ rows[Len(rows)].request \in DOMAIN WORKFLOW_ACTIONS
  BY <1>6, <1>9
<1>12. None \in Reminder \cup {None} /\ Len(rows) \in {1, 2}
  BY <1>6
<1>13. Writes(i, Created, rows, action, None, k)
  BY <1>1, <1>2, <1>5, <1>6, <1>7, <1>10, <1>11, <1>12 DEF Writes
<1> QED
  BY <1>13

\* Steps that touch no record keep what the records say.
LEMMA RecordsStay ==
  ASSUME ActionsInv, UNCHANGED <<projection, history, answer, mirror, applicants>>
  PROVE  IInv' /\ AllAccepted' /\ RecordsAgree'
<1>1. LedgerTypeOK'
  BY DEF ActionsInv, IInv, LedgerTypeOK
<1>2. LedgerChain'
  BY DEF ActionsInv, IInv, LedgerChain, Version
<1>3. KeysUnique'
  BY DEF ActionsInv, IInv, KeysUnique, Version
<1>4. AllAccepted'
  BY DEF ActionsInv, AllAccepted
<1>5. Reconciles'
  BY <1>4, AcceptedReconciles, PTL
<1>6. Reconciled'
  BY <1>5 DEF ActionsInv, RecordsAgree, Reconciled, Version
<1>7. ApplicantsMoved'
  BY DEF ActionsInv, RecordsAgree, ApplicantsMoved, Version
<1> QED
  BY <1>1, <1>2, <1>3, <1>4, <1>6, <1>7 DEF IInv, RecordsAgree

(* The checks made after the writes fail only where another item has the   *)
(* same title: the mirror was copied from the state, and an applicant row  *)
(* under the id is one of the item.                                        *)
LEMMA FailKeeps ==
  ASSUME ActionsInv, NEW i \in Item, NEW st, NEW action, NEW r,
         NEW call \in {"creation", "update"},
         Settled(st), action \in SUPPORTED_ACTIONS, r \in Reminder \cup {None},
         action = "remind_later" => r # None,
         mirror[i] # None => st = projection[i],
         Fail(i, st, action, r, call)
  PROVE  ActionsInv'
<1>1. UNCHANGED <<projection, history, answer, titleOf, mirror, applicants, day>> /\ fault' = call
  BY DEF Fail
<1>2. ASSUME \A j, l \in Item : titleOf[j] = titleOf[l] => j = l
      PROVE  FALSE
  <2>1. Aimed(Target(st, action, r), st, action, r)
    BY TargetAimed DEF Fail
  <2>2. Mirrored(i, st, action, r) = Compatibility(Target(st, action, r))
    <3>1. CASE AcceptedNoop(st, action, r) /\ mirror[i] # None
      <4>1. mirror[i] = Compatibility(projection[i])
        BY <3>1 DEF ActionsInv, RecordsAgree, Reconciled
      <4>2. Target(st, action, r) = projection[i]
        BY <2>1, <3>1 DEF Aimed
      <4> QED
        BY <3>1, <4>1, <4>2 DEF Mirrored
    <3>2. CASE ~(AcceptedNoop(st, action, r) /\ mirror[i] # None)
      BY <3>2 DEF Mirrored
    <3> QED
      BY <3>1, <3>2
  <2>3. Bound(i, st, action, r)
    <3>1. SUFFICES ASSUME NEW row \in applicants, row.id = UpdateId(i, action)
                   PROVE  [id |-> UpdateId(i, action), item |-> i] \in applicants
      BY DEF Bound, Upsert
    <3>2. row \in [id : [title : Title, status : Status, day : 1 .. Days], item : Item]
      BY DEF ActionsInv, ActionsTypeOK
    <3>3. titleOf[row.item] = titleOf[i] /\ row.item \in Item
      BY <3>1, <3>2 DEF ActionsInv, UpdateId
    <3>4. row.item = i
      BY <1>2, <3>3
    <3>5. row = [id |-> row.id, item |-> row.item]
      BY <3>2
    <3> QED
      BY <3>1, <3>4, <3>5
  <2> QED
    BY <2>2, <2>3 DEF Fail, Checked
<1>3. IInv' /\ AllAccepted' /\ RecordsAgree'
  BY <1>1, RecordsStay DEF ActionsInv
<1>4. ActionsTypeOK'
  BY <1>1, <1>3 DEF ActionsInv, IInv, ActionsTypeOK
<1>5. NeverMalformed'
  BY <1>1, <1>2 DEF NeverMalformed
<1> QED
  BY <1>1, <1>3, <1>4, <1>5 DEF ActionsInv

\* A command tried again keeps the invariant.
LEMMA RetryKeeps ==
  ASSUME ActionsInv, NEW k \in Key, Retry(k)
  PROVE  ActionsInv'
<1>1. UNCHANGED <<projection, history, titleOf, mirror, applicants, day, fault>>
  BY DEF Retry, Replay
<1>2. IInv'
  BY ReplayKeeps DEF ActionsInv, Retry
<1>3. AllAccepted' /\ RecordsAgree'
  BY <1>1 DEF ActionsInv, Version, AllAccepted, RecordsAgree, Reconciled, Reconciles, ApplicantsMoved
<1>4. ActionsTypeOK'
  BY <1>1, <1>2 DEF ActionsInv, IInv, ActionsTypeOK
<1> QED
  BY <1>1, <1>2, <1>3, <1>4 DEF ActionsInv, NeverMalformed

\* The day that passes keeps the invariant.
LEMMA MidnightKeeps ==
  ASSUME ActionsInv, Midnight \/ UNCHANGED actions
  PROVE  ActionsInv'
<1>1. UNCHANGED <<projection, history, answer, titleOf, mirror, applicants, fault>>
  BY DEF Midnight, actions
<1>2. day' \in 1 .. Days
  BY ActionsAssumption DEF Midnight, actions, ActionsInv, ActionsTypeOK
<1>3. IInv' /\ AllAccepted' /\ RecordsAgree'
  BY <1>1, RecordsStay DEF ActionsInv
<1>4. ActionsTypeOK'
  BY <1>1, <1>2, <1>3 DEF ActionsInv, IInv, ActionsTypeOK
<1> QED
  BY <1>1, <1>3, <1>4 DEF ActionsInv, NeverMalformed

(* The migration backfilled what it found, in a transaction per item.      *)
LEMMA ActionsInitKeeps == ActionsInit => IInv /\ (Reconciled => ActionsInv)
<1> SUFFICES ASSUME ActionsInit
             PROVE  IInv /\ (Reconciled => ActionsInv)
  OBVIOUS
<1>1. PICK found \in [Item -> Legacy \cup {None}] :
        /\ mirror = [i \in Item |-> IF found[i] = None THEN None
                                    ELSE [status |-> found[i].status, reminder |-> found[i].reminder]]
        /\ projection = [i \in Item |-> IF found[i] = None THEN None
                                        ELSE LegacyProjection(found[i])]
        /\ history = [i \in Item |-> IF found[i] = None THEN << >>
                        ELSE <<Row("baseline", "none", None, LegacyProjection(found[i]), None, 0, "legacy")>>]
  BY DEF ActionsInit
<1> DEFINE First(i) == Row("baseline", "none", None, LegacyProjection(found[i]), None, 0, "legacy")
<1>2. ASSUME NEW i \in Item, found[i] # None
      PROVE  /\ LegacyProjection(found[i]) \in State /\ LegacyProjection(found[i]) # None
             /\ First(i) \in Transition /\ First(i).dim = "baseline" /\ First(i).key = None
             /\ First(i).undoOf = 0 /\ First(i).correctionOf = 0 /\ First(i).request = "legacy"
             /\ First(i).after = LegacyProjection(found[i])
             /\ projection[i] = LegacyProjection(found[i]) /\ history[i] = <<First(i)>>
             /\ found[i] \in Legacy
  <2>1. LegacyProjection(found[i]) \in State /\ found[i] \in Legacy
    BY <1>2, LegacyTyped
  <2>2. LegacyProjection(found[i]) # None
    BY <2>1, LedgerAssumption
  <2>3. First(i) \in Transition
    BY <2>1 DEF Row, Transition, Class, Dimension, Request
  <2>4. projection[i] = LegacyProjection(found[i]) /\ history[i] = <<First(i)>>
    BY <1>1, <1>2
  <2> QED
    BY <2>1, <2>2, <2>3, <2>4 DEF Row
<1> HIDE DEF First
<1>3. \A i \in Item : found[i] = None => projection[i] = None /\ history[i] = << >> /\ mirror[i] = None
  BY <1>1
<1>o. \A t \in Transition : /\ <<t>> \in Seq(Transition) /\ Len(<<t>>) = 1 /\ <<t>>[1] = t
                             /\ <<t>> # << >>
  OBVIOUS
<1>4. ASSUME NEW i \in Item
      PROVE  \/ found[i] = None /\ history[i] = << >> /\ Version(i) = 0
             \/ found[i] # None /\ history[i] = <<First(i)>> /\ Version(i) = 1
                /\ history[i][1] = First(i) /\ history[i] # << >>
  <2>1. CASE found[i] = None
    BY <1>3, <2>1 DEF Version
  <2>2. CASE found[i] # None
    <3>1. First(i) \in Transition /\ history[i] = <<First(i)>>
      BY <1>2, <2>2
    <3>2. /\ <<First(i)>> \in Seq(Transition) /\ Len(<<First(i)>>) = 1
          /\ <<First(i)>>[1] = First(i) /\ <<First(i)>> # << >>
      BY <1>o, <3>1
    <3> QED
      BY <2>2, <3>1, <3>2 DEF Version
  <2> QED
    BY <2>1, <2>2
<1>5. \A i \in Item : \A n \in 1 .. Version(i) :
        n = 1 /\ found[i] # None /\ Version(i) = 1 /\ history[i][n] = First(i)
  BY <1>4
<1>6. LedgerTypeOK
  <2>1. history \in [Item -> Seq(Transition)]
    <3>1. \A i \in Item : history[i] \in Seq(Transition)
      <4>1. ASSUME NEW i \in Item
            PROVE  history[i] \in Seq(Transition)
        <5>1. CASE found[i] = None
          BY <1>3, <5>1, EmptySeq
        <5>2. CASE found[i] # None
          <6>1. First(i) \in Transition /\ history[i] = <<First(i)>>
            BY <1>2, <5>2
          <6> QED
            BY <1>o, <6>1
        <5> QED
          BY <5>1, <5>2
      <4> QED
        BY <4>1
    <3> QED
      BY <1>1, <3>1
  <2>2. projection \in [Item -> State \cup {None}]
    BY <1>1, <1>2
  <2>3. answer \in [Key -> Answer \cup {None}]
    BY DEF ActionsInit
  <2>4. \A i \in Item : projection[i] = None <=> history[i] = << >>
    BY <1>2, <1>3, <1>4
  <2> QED
    BY <2>1, <2>2, <2>3, <2>4 DEF LedgerTypeOK
<1>7. LedgerChain
  <2>1. ASSUME NEW i \in Item
        PROVE  /\ \A n \in 2 .. Version(i) : FALSE
               /\ history[i] # << >> => projection[i] = history[i][Version(i)].after
               /\ \A n \in 1 .. Version(i) : history[i][n].key = None
    BY <1>2, <1>4, <1>5
  <2> QED
    BY <2>1 DEF LedgerChain
<1>8. KeysUnique
  BY <1>2, <1>5 DEF KeysUnique
<1>9. AllAccepted
  <2>1. ASSUME NEW i \in Item
        PROVE  Accepted(history[i])
    <3>1. CASE found[i] = None
      BY <1>3, <3>1, NothingKeeps DEF HistoryInv
    <3>2. CASE found[i] # None
      BY <1>2, <3>2, BaselineKeeps DEF HistoryInv
    <3> QED
      BY <3>1, <3>2
  <2> QED
    BY <2>1 DEF AllAccepted
<1>10. ASSUME NEW i \in Item, found[i] # None
       PROVE  /\ mirror[i] \in [status : LegacyStatus, reminder : Reminder \cup {None}]
              /\ mirror[i] # None
  <2>1. found[i] \in [status : LegacyStatus, reminder : Reminder \cup {None}]
    BY <1>2, <1>10, LedgerAssumption
  <2>2. mirror[i] = [status |-> found[i].status, reminder |-> found[i].reminder]
    BY <1>1, <1>10
  <2> QED
    BY <2>1, <2>2, ActionsAssumption
<1>11. ActionsTypeOK
  <2>1. mirror \in [Item -> [status : LegacyStatus, reminder : Reminder \cup {None}] \cup {None}]
    BY <1>1, <1>3, <1>10
  <2> QED
    BY <1>6, <2>1, ActionsAssumption DEF ActionsInit, ActionsTypeOK
<1>12. ASSUME Reconciled
       PROVE  \A i \in Item : projection[i] # None => Settled(projection[i])
  <2>1. ASSUME NEW i \in Item, projection[i] # None
        PROVE  Settled(projection[i])
    <3>1. found[i] # None /\ projection[i] = LegacyProjection(found[i]) /\ projection[i] \in State
      BY <1>2, <1>3, <2>1
    <3>2. ~Adrift(projection[i])
      BY <1>12, <2>1 DEF Reconciled
    <3>3. projection[i].status = None => projection[i].provenance = "unknown_legacy"
      BY <3>1, LedgerAssumption DEF LegacyProjection
    <3> QED
      BY <3>1, <3>2, <3>3 DEF Settled
  <2> QED
    BY <2>1
<1>13. ApplicantsMoved /\ NeverMalformed /\ applicants = {}
  BY DEF ActionsInit, ApplicantsMoved, NeverMalformed
<1> QED
  BY <1>6, <1>7, <1>8, <1>9, <1>11, <1>12, <1>13 DEF ActionsInv, IInv, RecordsAgree

\* Every step keeps the invariant of the browser's actions.
LEMMA ActionsStep == ActionsInv /\ [ActionsNext]_actions => ActionsInv'
<1> SUFFICES ASSUME ActionsInv, [ActionsNext]_actions
             PROVE  ActionsInv'
  OBVIOUS
<1>1. ASSUME NEW i \in Item, NEW k \in Key, NEW action \in CreationActions, Create(i, k, action)
      PROVE  ActionsInv'
  <2> DEFINE f == Row("workflow", "user_initialization", None, Created, None, 0, action)
  <2>1. ~Used(k) /\ mirror[i] = None /\ action \in SUPPORTED_ACTIONS /\ action # "remind_later"
        /\ "creation" \in {"creation", "update"} /\ None \in Reminder \cup {None}
    BY <1>1 DEF Create, CreationActions, SUPPORTED_ACTIONS
  <2>2. CASE Complete(i, Created, <<f>>, action, None, k, 0)
    BY <2>1, <2>2, CreateWrites, CompleteKeeps
  <2>3. CASE Fail(i, Created, action, None, "creation")
    BY <2>1, <2>3, CreatedSettled, FailKeeps
  <2> QED
    BY <1>1, <2>2, <2>3 DEF Create
<1>2. ASSUME NEW i \in Item, NEW k \in Key, NEW e \in 1 .. MaxVersion,
             NEW action \in SUPPORTED_ACTIONS,
             NEW r \in IF action = "remind_later" THEN Reminder ELSE {None}, Act(i, k, e, action, r)
      PROVE  ActionsInv'
  <2>1. r \in Reminder \cup {None} /\ (action = "remind_later" => r # None)
    BY LedgerAssumption
  <2>2. Fresh(i, k, e) /\ Settled(projection[i]) /\ "update" \in {"creation", "update"}
    BY <1>2 DEF Act, Fresh, ActionsInv
  <2>3. CASE Complete(i, projection[i], << >>, action, r, k, e)
    BY <2>1, <2>2, <2>3, ActWrites, CompleteKeeps
  <2>4. CASE Fail(i, projection[i], action, r, "update")
    BY <2>1, <2>2, <2>4, FailKeeps
  <2> QED
    BY <1>2, <2>3, <2>4 DEF Act
<1>3. ASSUME NEW k \in Key, Retry(k)
      PROVE  ActionsInv'
  BY <1>3, RetryKeeps
<1>4. CASE Midnight \/ UNCHANGED actions
  BY <1>4, MidnightKeeps
<1> QED
  BY <1>1, <1>2, <1>3, <1>4 DEF ActionsNext

(* A database the reconciler blocks on has no actions.                     *)
Blocked == ~Reconciled /\ NeverMalformed /\ IInv

\* A database that does not reconcile when it opens never does: every action is refused.
LEMMA BlockedStep == Blocked /\ [ActionsNext]_actions => Blocked'
<1> SUFFICES ASSUME Blocked, [ActionsNext]_actions
             PROVE  Blocked'
  OBVIOUS
<1>1. UNCHANGED <<projection, history, answer, mirror, applicants, titleOf, fault>>
  BY DEF Blocked, ActionsNext, Midnight, actions
<1>2. Reconciled' <=> Reconciled
  BY <1>1 DEF Reconciled, Reconciles, Version
<1>3. NeverMalformed'
  BY <1>1 DEF Blocked, NeverMalformed
<1>4. LedgerTypeOK' /\ LedgerChain'
  BY <1>1 DEF Blocked, IInv, LedgerTypeOK, LedgerChain, Version
<1>5. KeysUnique'
  BY <1>1 DEF Blocked, IInv, KeysUnique, Version
<1> QED
  BY <1>2, <1>3, <1>4, <1>5 DEF Blocked, IInv

(* On a database that reconciles when it opens, the ledger, the old        *)
(* columns and the applicant rows tell one story after every action.       *)
THEOREM RecordsTheorem == ActionsSpec /\ Reconciled => []RecordsAgree
<1>1. ActionsInv => RecordsAgree
  BY DEF ActionsInv
<1> QED
  BY <1>1, ActionsInitKeeps, ActionsStep, PTL DEF ActionsSpec

(* Without two items of one title, the checks a product action makes on    *)
(* its own writes never fail.                                              *)
THEOREM MalformedTheorem == ActionsSpec => []NeverMalformed
<1>1. ActionsInit => ActionsInv \/ Blocked
  BY ActionsInitKeeps DEF Blocked, NeverMalformed, ActionsInit
<1>2. (ActionsInv \/ Blocked) /\ [ActionsNext]_actions => (ActionsInv \/ Blocked)'
  BY ActionsStep, BlockedStep
<1>3. ActionsInv \/ Blocked => NeverMalformed
  BY DEF ActionsInv, Blocked
<1> QED
  BY <1>1, <1>2, <1>3, PTL DEF ActionsSpec

(* The actions, too, give a key one effect, and a retry is told of it.     *)
LEMMA ActionsDecide ==
  ASSUME ActionsInv \/ Blocked, ActionsInv' \/ Blocked', [ActionsNext]_actions
  PROVE  [Once!Next]_<<outcome, answer>>
<1>0. IInv /\ IInv'
  BY DEF ActionsInv, Blocked
<1>1. ASSUME NEW i \in Item, NEW k \in Key, NEW st, NEW rows, NEW action, NEW r,
             Writes(i, st, rows, action, r, k)
      PROVE  [Once!Next]_<<outcome, answer>>
  BY <1>0, <1>1, ExtendDecides DEF Writes
<1>2. CASE UNCHANGED <<projection, history, answer>>
  BY <1>2 DEF outcome
<1>3. ASSUME Reconciled, NEW i \in Item, NEW k \in Key, NEW action \in CreationActions,
             Create(i, k, action)
      PROVE  [Once!Next]_<<outcome, answer>>
  <2>1. ~Used(k) /\ mirror[i] = None /\ ActionsInv
    BY <1>3 DEF Create, Blocked
  <2>2. CASE Fail(i, Created, action, None, "creation")
    BY <1>2, <2>2 DEF Fail
  <2>3. CASE Complete(i, Created, <<Row("workflow", "user_initialization", None, Created, None, 0, action)>>,
                      action, None, k, 0)
    <3>1. \E rows : Writes(i, Created, rows, action, None, k)
      BY <1>3, <2>1, <2>3, CreateWrites
    <3> QED
      BY <1>1, <3>1
  <2> QED
    BY <1>3, <2>2, <2>3 DEF Create
<1>4. ASSUME Reconciled, NEW i \in Item, NEW k \in Key, NEW e \in 1 .. MaxVersion,
             NEW action \in SUPPORTED_ACTIONS,
             NEW r \in IF action = "remind_later" THEN Reminder ELSE {None}, Act(i, k, e, action, r)
      PROVE  [Once!Next]_<<outcome, answer>>
  <2>1. r \in Reminder \cup {None} /\ (action = "remind_later" => r # None)
    BY LedgerAssumption
  <2>2. Fresh(i, k, e) /\ ActionsInv
    BY <1>4 DEF Act, Blocked
  <2>3. CASE Fail(i, projection[i], action, r, "update")
    BY <1>2, <2>3 DEF Fail
  <2>4. CASE Complete(i, projection[i], << >>, action, r, k, e)
    <3>1. \E rows : Writes(i, projection[i], rows, action, r, k)
      BY <2>1, <2>2, <2>4, ActWrites
    <3> QED
      BY <1>1, <3>1
  <2> QED
    BY <1>4, <2>3, <2>4 DEF Act
<1>5. ASSUME NEW k \in Key, Retry(k)
      PROVE  [Once!Next]_<<outcome, answer>>
  BY <1>0, <1>5, ReplayTells DEF Retry
<1>6. CASE Midnight \/ UNCHANGED actions
  BY <1>2, <1>6 DEF Midnight, actions
<1> QED
  BY <1>3, <1>4, <1>5, <1>6 DEF ActionsNext

(* The actions of the browser implement RequestOnce.                       *)
THEOREM ActionsImplementation == ActionsSpec => EachRequestOnce
<1>1. ActionsInit => ActionsInv \/ Blocked
  BY ActionsInitKeeps DEF Blocked, NeverMalformed, ActionsInit
<1>2. (ActionsInv \/ Blocked) /\ [ActionsNext]_actions => (ActionsInv \/ Blocked)'
  BY ActionsStep, BlockedStep
<1>3. ActionsInit => Once!Init
  <2>1. SUFFICES ASSUME ActionsInit
                 PROVE  Once!Init
    OBVIOUS
  <2>2. ASSUME NEW i \in Item, NEW n \in 1 .. Len(history[i])
        PROVE  history[i][n].key = None
    <3>1. \/ history[i] = << >>
          \/ \E p : history[i] = <<Row("baseline", "none", None, p, None, 0, "legacy")>>
      BY <2>1 DEF ActionsInit
    <3>2. CASE history[i] = << >>
      BY <2>2, <3>2
    <3>3. ASSUME NEW p, history[i] = <<Row("baseline", "none", None, p, None, 0, "legacy")>>
          PROVE  history[i][n].key = None
      <4> DEFINE f == Row("baseline", "none", None, p, None, 0, "legacy")
      <4>1. f.key = None
        BY DEF Row
      <4> HIDE DEF f
      <4>2. history[i] = <<f>> /\ Len(<<f>>) = 1 /\ <<f>>[1] = f
        BY <3>3 DEF f
      <4> QED
        BY <2>2, <4>1, <4>2
    <3> QED
      BY <3>1, <3>2, <3>3
  <2>3. ASSUME NEW c \in Key
        PROVE  DecidedIn(history, c) = None
    <3>1. ~\E j \in Item : \E n \in 1 .. Len(history[j]) : history[j][n].key = c
      BY <2>2, LedgerAssumption
    <3> QED
      BY <3>1, Undecided
  <2>4. outcome = [c \in Key |-> None]
    BY <2>3 DEF outcome
  <2> QED
    BY <2>1, <2>4 DEF ActionsInit, Once!Init
<1>4. (ActionsInv \/ Blocked) /\ (ActionsInv \/ Blocked)' /\ [ActionsNext]_actions
      => [Once!Next]_<<outcome, answer>>
  BY ActionsDecide
<1> QED
  BY <1>1, <1>2, <1>3, <1>4, PTL DEF ActionsSpec, EachRequestOnce, Once!Spec
=============================================================================
