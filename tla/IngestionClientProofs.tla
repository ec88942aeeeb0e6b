------------------------ MODULE IngestionClientProofs -----------------------
(***************************************************************************)
(* The ingestion task loses and repeats nothing by itself, for any         *)
(* capacity and batch size.  What is under way is one sequence, from the   *)
(* table back to the channel; every step of the task moves the borders     *)
(* inside it, and every proof below is an equation between concatenations. *)
(***************************************************************************)
EXTENDS IngestionClient, SequenceTheorems, TLAPS

LEMMA EmptyRows ==
    /\ <<>> \in Seq(Rows) /\ Len(<<>>) = 0
    /\ 0 < max_batch_size /\ 0 <= Capacity
BY IngestAssumption

LEMMA RowsAssociative ==
    ASSUME NEW s \in Seq(Rows), NEW t \in Seq(Rows), NEW u \in Seq(Rows)
    PROVE  (s \o t) \o u = s \o (t \o u)
BY ConcatAssociative

(* The head of the second sequence moves to the end of the first.          *)
LEMMA MoveHead ==
    ASSUME NEW S, NEW q \in Seq(S), NEW r \in Seq(S), r # <<>>
    PROVE  Append(q, Head(r)) \o Tail(r) = q \o r
<1> DEFINE t == Append(q, Head(r)) \o Tail(r)
<1>1. Head(r) \in S /\ Tail(r) \in Seq(S) /\ Len(Tail(r)) = Len(r) - 1
  BY HeadTailProperties
<1>2. Append(q, Head(r)) \in Seq(S) /\ t \in Seq(S) /\ q \o r \in Seq(S) /\ Len(t) = Len(q \o r)
  BY <1>1
<1>3. \A i \in 1 .. Len(t) : t[i] = (q \o r)[i]
  BY <1>1
<1>4. QED
  BY <1>2, <1>3, SeqEqual

-----------------------------------------------------------------------------
(* With a partial row in the buffer no batch is ever pushed to its end.    *)
PartialRefuses == partial /\ pc = "ingest" => batch # <<>>

IInv == TypeOK /\ ExactlyOnce /\ PartialRefuses

LEMMA InitInv == Init => IInv
<1>1. Init => TypeOK
  <2>1. 0 \in 0 .. MaxRows
    BY IngestAssumption
  <2>2. QED
    BY <2>1, EmptyRows DEF Init, TypeOK
<1>2. Init => UnderWay = accepted
  <2>1. <<>> \in Seq(Rows) /\ <<>> \o <<>> = <<>>
    OBVIOUS
  <2>2. QED
    BY <2>1 DEF Init, UnderWay
<1>3. Init => PartialRefuses
  BY DEF Init, PartialRefuses
<1>4. QED
  BY <1>1, <1>2, <1>3 DEF IInv, ExactlyOnce

LEMMA CollectType ==
    ASSUME NEW rows \in Seq(Rows), Collect(rows), Len(rows) <= max_batch_size
    PROVE  /\ pc' \in {"top", "ingest"}
           /\ buffer' \in Seq(Rows) /\ Len(buffer') < max_batch_size
           /\ batch' \in Seq(Rows) /\ (pc' # "ingest" => batch' = <<>>)
           /\ batch' \o buffer' = rows
           /\ rows # <<>> /\ pc' = "ingest" => batch' # <<>>
<1>1. CASE Len(rows) >= max_batch_size
  <2>1. pc' = "ingest" /\ batch' = rows /\ buffer' = <<>>
    BY <1>1 DEF Collect, TakeBatch
  <2>2. QED
    BY <2>1, IngestAssumption, ConcatEmptySeq
<1>2. CASE ~(Len(rows) >= max_batch_size)
  <2>1. pc' = "top" /\ batch' = <<>> /\ buffer' = rows
    BY <1>2 DEF Collect
  <2>2. QED
    BY <1>2, <2>1, IngestAssumption, ConcatEmptySeq
<1>3. QED
  BY <1>1, <1>2

LEMMA TypeNext == TypeOK /\ [Next]_vars => TypeOK'
<1> SUFFICES ASSUME TypeOK, [Next]_vars
             PROVE  TypeOK'
  OBVIOUS
<1> USE IngestAssumption DEF TypeOK, clientVars, dbVars, histVars
<1>1. CASE Send
  <2>1. sent + 1 \in Rows /\ sent' \in 0 .. MaxRows
    BY <1>1 DEF Send, Rows
  <2>2. TrySend(rx, Capacity, sent + 1) \in Seq(Rows) /\ Len(TrySend(rx, Capacity, sent + 1)) <= Capacity
    BY <2>1 DEF TrySend, HasRoom
  <2>3. QED
    BY <1>1, <2>1, <2>2 DEF Send
<1>2. CASE Cancel
  BY <1>2 DEF Cancel
<1>3. CASE Top
  BY <1>3 DEF Top
<1>4. CASE Recv
  <2>1. /\ Append(buffer, Head(rx)) \in Seq(Rows)
        /\ Len(Append(buffer, Head(rx))) <= max_batch_size
        /\ rx' \in Seq(Rows) /\ Len(rx') <= Capacity
    BY <1>4, HeadTailProperties DEF Recv
  <2>2. Collect(Append(buffer, Head(rx)))
    BY <1>4 DEF Recv
  <2>3. QED
    BY <1>4, <2>1, <2>2, CollectType DEF Recv
<1>5. CASE Tick
  BY <1>5, EmptyRows DEF Tick, TakeBatch
<1>6. CASE Cancelled
  BY <1>6, EmptyRows DEF Cancelled, TakeBatch
<1>7. CASE Push
  <2>1. Head(batch) \in Rows /\ Tail(batch) \in Seq(Rows) /\ Append(ilp, Head(batch)) \in Seq(Rows)
    BY <1>7, HeadTailProperties, AppendProperties, AppendIsConcat DEF Push
  <2>2. QED
    BY <1>7, <2>1 DEF Push
<1>8. CASE PushFails
  BY <1>8 DEF PushFails
<1>9. CASE Flush
  BY <1>9, ConcatProperties DEF Flush
<1>10. CASE FlushFails
  <2>1. table \o ilp \in Seq(Rows)
    BY ConcatProperties
  <2>2. QED
    BY <1>10, <2>1 DEF FlushFails
<1>11. CASE UNCHANGED vars
  BY <1>11 DEF vars
<1>12. QED
  BY <1>1, <1>2, <1>3, <1>4, <1>5, <1>6, <1>7, <1>8, <1>9, <1>10, <1>11 DEF Next

LEMMA OnceNext == IInv /\ [Next]_vars => ExactlyOnce'
<1> SUFFICES ASSUME IInv, [Next]_vars, ~refused', ~resent'
             PROVE  UnderWay' = accepted'
  BY DEF ExactlyOnce
<1>0. /\ rx \in Seq(Rows) /\ buffer \in Seq(Rows) /\ batch \in Seq(Rows)
      /\ ilp \in Seq(Rows) /\ table \in Seq(Rows)
  BY DEF IInv, TypeOK
<1>e. pc # "ingest" => batch = <<>>
  BY DEF IInv, TypeOK
<1> DEFINE front == table \o ilp
<1> DEFINE mid == batch \o buffer
<1>a. /\ front \in Seq(Rows) /\ mid \in Seq(Rows)
      /\ front \o mid \in Seq(Rows)
  <2>1. front \in Seq(Rows) /\ mid \in Seq(Rows)
    BY <1>0, ConcatProperties
  <2> HIDE DEF front, mid
  <2>2. QED
    BY <2>1, ConcatProperties
<1>c. UnderWay = (front \o mid) \o rx
  BY DEF UnderWay
<1>d. front = table \o ilp /\ mid = batch \o buffer
  OBVIOUS
<1> HIDE DEF front, mid
<1>b. ~refused /\ ~resent => UnderWay = accepted
  BY DEF IInv, ExactlyOnce
<1>1. CASE Send
  <2>1. ~refused /\ ~resent /\ UNCHANGED <<table, ilp, batch, buffer>>
    BY <1>1 DEF Send, clientVars, dbVars
  <2>2. CASE HasRoom(rx, Capacity)
    <3>1. rx' = Append(rx, sent + 1) /\ accepted' = Append(accepted, sent + 1)
      BY <1>1, <2>2 DEF Send, TrySend
    <3>2. sent + 1 \in Rows
      BY <1>1, IngestAssumption DEF Send, IInv, TypeOK, Rows
    <3>3. rx' = rx \o <<sent + 1>> /\ <<sent + 1>> \in Seq(Rows)
      BY <1>0, <3>1, <3>2, AppendProperties, AppendIsConcat
    <3>4. (front \o mid) \o (rx \o <<sent + 1>>) = ((front \o mid) \o rx) \o <<sent + 1>>
      <4>1. front \o mid \in Seq(Rows) /\ rx \in Seq(Rows) /\ <<sent + 1>> \in Seq(Rows)
        BY <1>0, <1>a, <3>3
      <4>2. QED
        BY <4>1, RowsAssociative
    <3>5. accepted' = accepted \o <<sent + 1>>
      BY <3>1, <3>2, AppendProperties, AppendIsConcat DEF IInv, TypeOK
    <3>6. QED
      BY <1>b, <1>c, <1>d, <2>1, <3>3, <3>4, <3>5 DEF UnderWay
  <2>3. CASE ~HasRoom(rx, Capacity)
    BY <1>1, <1>b, <2>1, <2>3 DEF Send, TrySend, UnderWay
  <2>4. QED
    BY <2>2, <2>3
<1>2. CASE Cancel \/ Top
  <2>1. UNCHANGED <<table, ilp, batch, buffer, rx, accepted, resent, refused>>
    BY <1>2 DEF Cancel, Top, clientVars, dbVars, histVars
  <2>2. QED
    BY <2>1, <1>b DEF UnderWay
<1>3. CASE Recv
  <2>1. /\ ~refused /\ ~resent /\ batch = <<>> /\ rx # <<>> /\ rx' = Tail(rx)
        /\ UNCHANGED <<table, ilp, accepted>>
        /\ Collect(Append(buffer, Head(rx)))
    BY <1>e, <1>3 DEF Recv, dbVars, histVars
  <2>2. Head(rx) \in Rows /\ Tail(rx) \in Seq(Rows)
    BY <1>0, <2>1, HeadTailProperties
  <2>3. Append(buffer, Head(rx)) \in Seq(Rows) /\ Len(Append(buffer, Head(rx))) <= max_batch_size
    BY <2>2, IngestAssumption DEF IInv, TypeOK
  <2>4. batch' \o buffer' = Append(buffer, Head(rx))
    BY <2>1, <2>3, CollectType
  <2>5. mid = buffer
    BY <1>0, <1>d, <2>1, ConcatEmptySeq
  <2>6. (front \o Append(buffer, Head(rx))) \o Tail(rx) = front \o (Append(buffer, Head(rx)) \o Tail(rx))
    BY <1>a, <2>2, <2>3, RowsAssociative
  <2>7. Append(buffer, Head(rx)) \o Tail(rx) = buffer \o rx
    BY <1>0, <2>1, MoveHead
  <2>8. front \o (buffer \o rx) = (front \o buffer) \o rx
    <3>1. front \in Seq(Rows) /\ buffer \in Seq(Rows) /\ rx \in Seq(Rows)
      BY <1>0, <1>a
    <3>2. QED
      BY <3>1, RowsAssociative
  <2>9. QED
    BY <1>b, <1>c, <1>d, <2>1, <2>4, <2>5, <2>6, <2>7, <2>8 DEF UnderWay
<1>4. CASE Tick \/ Cancelled
  <2>1. /\ ~refused /\ ~resent /\ batch = <<>>
        /\ UNCHANGED <<table, ilp, accepted, rx>>
    BY <1>e, <1>4 DEF Tick, Cancelled, dbVars, histVars
  <2>2. batch' \o buffer' = batch \o buffer
    <3>1. CASE UNCHANGED <<buffer, batch>>
      BY <3>1
    <3>2. CASE batch' = buffer /\ buffer' = <<>>
      BY <1>0, <2>1, <3>2, ConcatEmptySeq
    <3>3. QED
      BY <1>4, <3>1, <3>2 DEF Tick, Cancelled, TakeBatch
  <2>3. QED
    BY <1>b, <1>c, <1>d, <2>1, <2>2 DEF UnderWay
<1>5. CASE Push
  <2>1. /\ ~refused /\ ~resent /\ batch # <<>>
        /\ ilp' = Append(ilp, Head(batch)) /\ batch' = Tail(batch)
        /\ UNCHANGED <<table, buffer, accepted, rx>>
    BY <1>5 DEF Push, histVars
  <2>2. /\ Head(batch) \in Rows /\ Tail(batch) \in Seq(Rows)
        /\ Append(ilp, Head(batch)) \in Seq(Rows)
    <3>1. Head(batch) \in Rows /\ Tail(batch) \in Seq(Rows)
      BY <1>0, <2>1, HeadTailProperties
    <3>2. QED
      BY <1>0, <3>1, AppendProperties, AppendIsConcat
  <2>3. table \o Append(ilp, Head(batch)) = Append(front, Head(batch))
    <3>1. Append(ilp, Head(batch)) = ilp \o <<Head(batch)>> /\ <<Head(batch)>> \in Seq(Rows)
      BY <1>0, <2>2, AppendProperties, AppendIsConcat
    <3>2. table \o (ilp \o <<Head(batch)>>) = front \o <<Head(batch)>>
      BY <1>0, <1>d, <3>1, RowsAssociative
    <3>3. QED
      BY <1>a, <2>2, <3>1, <3>2, AppendProperties, AppendIsConcat
  <2>4. Append(front, Head(batch)) \o (Tail(batch) \o buffer) = front \o (batch \o buffer)
    <3>1. Append(front, Head(batch)) \in Seq(Rows)
      BY <1>a, <2>2, AppendProperties, AppendIsConcat
    <3>2. Append(front, Head(batch)) \o (Tail(batch) \o buffer)
            = (Append(front, Head(batch)) \o Tail(batch)) \o buffer
      BY <1>0, <2>2, <3>1, RowsAssociative
    <3>3. Append(front, Head(batch)) \o Tail(batch) = front \o batch
      BY <1>0, <1>a, <2>1, MoveHead
    <3>4. (front \o batch) \o buffer = front \o (batch \o buffer)
      <4>1. front \in Seq(Rows) /\ batch \in Seq(Rows) /\ buffer \in Seq(Rows)
        BY <1>0, <1>a
      <4>2. QED
        BY <4>1, RowsAssociative
    <3>5. QED
      BY <3>2, <3>3, <3>4
  <2>5. QED
    BY <1>b, <1>c, <1>d, <2>1, <2>3, <2>4 DEF UnderWay
<1>6. CASE PushFails
  BY <1>6 DEF PushFails
<1>7. CASE Flush
  <2>1. /\ ~refused /\ ~resent
        /\ table' = table \o ilp /\ ilp' = <<>>
        /\ UNCHANGED <<batch, buffer, accepted, rx>>
    BY <1>7 DEF Flush, histVars
  <2>2. (table \o ilp) \o <<>> = table \o ilp
    BY <1>a, <1>d, ConcatEmptySeq
  <2>3. QED
    BY <1>b, <1>c, <1>d, <2>1, <2>2 DEF UnderWay
<1>8. CASE FlushFails
  BY <1>8, <1>b, <1>c, <1>d DEF FlushFails, UnderWay
<1>9. CASE UNCHANGED vars
  BY <1>9, <1>b, <1>c, <1>d DEF vars, clientVars, dbVars, histVars, UnderWay
<1>10. QED
  BY <1>1, <1>2, <1>3, <1>4, <1>5, <1>6, <1>7, <1>8, <1>9 DEF Next

LEMMA PartialNext == IInv /\ [Next]_vars => PartialRefuses'
<1> SUFFICES ASSUME IInv, [Next]_vars
             PROVE  PartialRefuses'
  OBVIOUS
<1> USE DEF PartialRefuses
<1>1. CASE Recv
  <2>0. Head(rx) \in Rows /\ buffer \in Seq(Rows) /\ Len(buffer) < max_batch_size
    BY <1>1, HeadTailProperties DEF Recv, IInv, TypeOK
  <2>1. /\ Append(buffer, Head(rx)) \in Seq(Rows)
        /\ Append(buffer, Head(rx)) # <<>>
        /\ Len(Append(buffer, Head(rx))) <= max_batch_size
    BY <2>0, IngestAssumption
  <2>2. Collect(Append(buffer, Head(rx)))
    BY <1>1 DEF Recv
  <2>3. QED
    BY <2>1, <2>2, CollectType
<1>2. CASE Tick \/ Cancelled
  BY <1>2 DEF Tick, Cancelled, TakeBatch
<1>3. CASE Push \/ PushFails \/ Flush \/ FlushFails
  BY <1>3 DEF Push, PushFails, Flush, FlushFails
<1>4. CASE Send \/ Cancel \/ Top
  BY <1>4 DEF Send, Cancel, Top, IInv, clientVars, dbVars
<1>5. CASE UNCHANGED vars
  BY <1>5 DEF vars, IInv, clientVars, dbVars
<1>6. QED
  BY <1>1, <1>2, <1>3, <1>4, <1>5 DEF Next

LEMMA Invariant == Spec => []IInv
<1>1. IInv /\ [Next]_vars => IInv'
  BY TypeNext, OnceNext, PartialNext DEF IInv
<1>2. QED
  BY InitInv, <1>1, PTL DEF Spec

(* Every variable keeps its range; the buffer of the client is below a     *)
(* batch whenever the task may stop.                                       *)
THEOREM IngestionTyped == Spec => []TypeOK
<1>1. IInv => TypeOK
  BY DEF IInv
<1>2. QED
  BY Invariant, <1>1, PTL

(* run, ingest, push and flush hand every accepted row on exactly once and *)
(* in order, whatever requests fail, as long as none is stored behind an   *)
(* error and no row is refused.                                            *)
THEOREM RowsExactlyOnce == Spec => []ExactlyOnce
<1>1. IInv => ExactlyOnce
  BY DEF IInv
<1>2. QED
  BY Invariant, <1>1, PTL

(* No step after a row was refused half-way stores anything.               *)
THEOREM NothingAfterPartialRow == Spec => PartialRowIsFinal
<1> DEFINE Final == partial => partial' /\ table' = table /\ ilp' = ilp
<1>1. IInv /\ [Next]_vars => [Final]_vars
  <2> SUFFICES ASSUME IInv, Next, partial
               PROVE  partial' /\ table' = table /\ ilp' = ilp
    OBVIOUS
  <2>1. CASE Send \/ Cancel \/ Top \/ Recv \/ Tick \/ Cancelled
    BY <2>1 DEF Send, Cancel, Top, Recv, Tick, Cancelled, dbVars
  <2>2. CASE Push
    BY <2>2 DEF Push, Accepts
  <2>3. CASE PushFails
    BY <2>3 DEF PushFails
  <2>4. CASE Flush \/ FlushFails
    BY <2>4 DEF Flush, FlushFails, IInv, PartialRefuses
  <2>5. QED
    BY <2>1, <2>2, <2>3, <2>4 DEF Next
<1>2. QED
  BY Invariant, <1>1, PTL DEF Spec, PartialRowIsFinal

(* What push accepted is in the client's buffer until it is in the table,  *)
(* whatever requests fail and whatever batch is given up.                  *)
THEOREM PushedRowsAreKept == Spec => PushedIsKept
<1> DEFINE Kept == \A n \in 1 .. Len(ilp) :
                      \/ n <= Len(ilp') /\ ilp'[n] = ilp[n]
                      \/ \E m \in 1 .. Len(table') : table'[m] = ilp[n]
<1>1. ASSUME IInv, [Next]_vars PROVE Kept
  <2>0. ilp \in Seq(Rows) /\ table \in Seq(Rows) /\ Len(ilp) \in Nat /\ Len(table) \in Nat
    BY <1>1 DEF IInv, TypeOK
  <2>1. CASE ilp' = ilp
    BY <2>0, <2>1
  <2>2. CASE Push
    <3>1. Head(batch) \in Rows
      BY <1>1, <2>2, HeadTailProperties DEF Push, IInv, TypeOK
    <3>2. ilp' = Append(ilp, Head(batch))
      BY <2>2 DEF Push
    <3>3. Len(ilp') = Len(ilp) + 1 /\ \A n \in 1 .. Len(ilp) : ilp'[n] = ilp[n]
      BY <2>0, <3>1, <3>2, AppendProperties
    <3>4. QED
      BY <2>0, <3>3
  <2>3. CASE Flush
    <3>1. table' = table \o ilp
      BY <2>3 DEF Flush
    <3>2. ASSUME NEW n \in 1 .. Len(ilp)
          PROVE  Len(table) + n \in 1 .. Len(table') /\ table'[Len(table) + n] = ilp[n]
      BY <2>0, <3>1, ConcatProperties
    <3>3. QED
      BY <3>2
  <2>4. CASE FlushFails
    BY <2>1, <2>4 DEF FlushFails
  <2>5. CASE UNCHANGED vars \/ Send \/ Cancel \/ Top \/ Recv \/ Tick \/ Cancelled \/ PushFails
    BY <2>1, <2>5 DEF vars, dbVars, Send, Cancel, Top, Recv, Tick, Cancelled, PushFails
  <2>6. QED
    BY <1>1, <2>2, <2>3, <2>4, <2>5 DEF Next
<1>2. IInv /\ [Next]_vars => [Kept]_vars
  BY <1>1
<1>3. QED
  BY Invariant, <1>2, PTL DEF Spec, PushedIsKept
=============================================================================
