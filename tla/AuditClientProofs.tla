-------------------------- MODULE AuditClientProofs -------------------------
(***************************************************************************)
(* The audit task never repeats or reorders events, whatever fails, and    *)
(* loses none unless an insert fails, for any capacity and flush length.   *)
(***************************************************************************)
EXTENDS AuditClient, SequenceTheorems, TLAPS

(* Everything between the channel and Postgres, the table in front.        *)
Line == (table \o buffer) \o rx

Increasing(q) == \A i, j \in 1 .. Len(q) : i < j => q[i] < q[j]

(* Numbers are handed out in order, and none is ahead of its sending.      *)
LineInOrder == Increasing(Line) /\ \A i \in 1 .. Len(Line) : Line[i] <= sent

IInv == TypeOK /\ ExactlyOnce /\ LineInOrder

(* The head of the second sequence moves to the end of the first.          *)
LEMMA MoveHead ==
    ASSUME NEW S, NEW q \in Seq(S), NEW r \in Seq(S), r # <<>>
    PROVE  Append(q, Head(r)) \o Tail(r) = q \o r
<1> DEFINE t == Append(q, Head(r)) \o Tail(r)
<1>1. Head(r) \in S /\ Tail(r) \in Seq(S) /\ Len(Tail(r)) = Len(r) - 1
  BY HeadTailProperties
<1>2. Append(q, Head(r)) \in Seq(S) /\ t \in Seq(S) /\ q \o r \in Seq(S) /\ Len(t) = Len(q \o r)
  BY <1>1
<1>3. \A i \in 1 .. Len(t) : t[i] = (q \o r)[i]
  BY <1>1
<1>4. QED
  BY <1>2, <1>3, SeqEqual

LEMMA LineType ==
    ASSUME TypeOK
    PROVE  /\ rx \in Seq(Events) /\ buffer \in Seq(Events) /\ table \in Seq(Events)
           /\ accepted \in Seq(Events) /\ sent \in Nat /\ Events \subseteq Nat
           /\ table \o buffer \in Seq(Events) /\ Line \in Seq(Events)
<1>1. /\ rx \in Seq(Events) /\ buffer \in Seq(Events) /\ table \in Seq(Events)
      /\ accepted \in Seq(Events) /\ sent \in Nat
  BY DEF TypeOK
<1>2. Events \subseteq Nat
  BY DEF Events
<1>3. table \o buffer \in Seq(Events)
  BY <1>1, ConcatProperties
<1>4. Line \in Seq(Events)
  BY <1>1, <1>3, ConcatProperties DEF Line
<1>5. QED
  BY <1>1, <1>2, <1>3, <1>4

LEMMA InitInv == Init => IInv
<1> SUFFICES ASSUME Init
             PROVE  IInv
  OBVIOUS
<1>1. <<>> \in Seq(Events) /\ Len(<<>>) = 0 /\ 0 \in 0 .. MaxEvents /\ 0 <= Capacity
  BY AuditAssumption
<1>2. TypeOK
  BY <1>1 DEF Init, TypeOK
<1>3. Line = <<>>
  BY <1>1 DEF Init, Line
<1>4. ExactlyOnce
  BY <1>3 DEF Init, ExactlyOnce, Line
<1>5. LineInOrder
  BY <1>3 DEF LineInOrder, Increasing
<1>6. QED
  BY <1>2, <1>4, <1>5 DEF IInv

LEMMA TypeNext == TypeOK /\ [Next]_vars => TypeOK'
<1> SUFFICES ASSUME TypeOK, [Next]_vars
             PROVE  TypeOK'
  OBVIOUS
<1> USE AuditAssumption DEF TypeOK
<1>1. CASE Send
  <2>1. sent + 1 \in Events /\ sent' \in 0 .. MaxEvents
    BY <1>1 DEF Send, Events
  <2>2. TrySend(rx, Capacity, sent + 1) \in Seq(Events) /\ Len(TrySend(rx, Capacity, sent + 1)) <= Capacity
    BY <2>1 DEF TrySend, HasRoom
  <2>3. accepted' \in Seq(Events)
    <3>1. Append(accepted, sent + 1) \in Seq(Events)
      BY <2>1
    <3>2. QED
      BY <1>1, <3>1 DEF Send
  <2>4. rx' \in Seq(Events) /\ Len(rx') <= Capacity
    BY <1>1, <2>2 DEF Send
  <2>5. QED
    BY <1>1, <2>1, <2>3, <2>4 DEF Send
<1>2. CASE Cancel \/ Top \/ Tick \/ Cancelled \/ Acquire
  BY <1>2 DEF Cancel, Top, Tick, Cancelled, Acquire
<1>3. CASE Recv
  <2>1. Head(rx) \in Events /\ Tail(rx) \in Seq(Events) /\ Len(Tail(rx)) <= Capacity
    BY <1>3, HeadTailProperties DEF Recv
  <2>2. Append(buffer, Head(rx)) \in Seq(Events) /\ Append(buffer, Head(rx)) # <<>>
    BY <2>1, AppendProperties
  <2>3. QED
    BY <1>3, <2>1, <2>2 DEF Recv
<1>4. CASE Insert
  <2>1. Head(buffer) \in Events /\ Tail(buffer) \in Seq(Events)
    BY <1>4, HeadTailProperties DEF Insert
  <2>2. Append(table, Head(buffer)) \in Seq(Events)
    BY <2>1
  <2>3. QED
    BY <1>4, <2>1, <2>2 DEF Insert
<1>5. CASE InsertFails
  <2>1. Head(buffer) \in Events
    BY <1>5, HeadTailProperties DEF InsertFails
  <2>2. Append(table, Head(buffer)) \in Seq(Events) /\ <<>> \in Seq(Events)
    BY <2>1
  <2>3. QED
    BY <1>5, <2>2 DEF InsertFails
<1>6. CASE UNCHANGED vars
  BY <1>6 DEF vars
<1>7. QED
  BY <1>1, <1>2, <1>3, <1>4, <1>5, <1>6 DEF Next

(* What a step does to the line of events.                                 *)
LEMMA LineStep ==
    ASSUME TypeOK, [Next]_vars, ~InsertFails
    PROVE  \/ Line' = Line /\ accepted' = accepted /\ sent' \in {sent, sent + 1}
           \/ /\ Line' = Append(Line, sent + 1)
              /\ accepted' = Append(accepted, sent + 1)
              /\ sent' = sent + 1
<1>0. rx \in Seq(Events) /\ buffer \in Seq(Events) /\ table \in Seq(Events) /\ table \o buffer \in Seq(Events)
  BY LineType
<1>1. CASE Send
  <2>0. sent + 1 \in Events
    BY <1>1, AuditAssumption DEF Send, Events, TypeOK
  <2>1. sent + 1 \in Events /\ <<sent + 1>> \in Seq(Events)
    BY <2>0
  <2>2. CASE HasRoom(rx, Capacity)
    <3>1. rx' = rx \o <<sent + 1>>
      BY <1>0, <1>1, <2>1, <2>2, AppendProperties, AppendIsConcat DEF Send, TrySend
    <3>2. (table \o buffer) \o (rx \o <<sent + 1>>) = Line \o <<sent + 1>>
      BY <1>0, <2>1, ConcatAssociative DEF Line
    <3>3. Line' = (table \o buffer) \o rx'
      BY <1>1 DEF Send, Line
    <3>4. Line' = Append(Line, sent + 1)
      BY <2>1, <3>1, <3>2, <3>3, LineType, AppendProperties, AppendIsConcat
    <3>5. QED
      BY <1>1, <2>2, <3>4 DEF Send
  <2>3. CASE ~HasRoom(rx, Capacity)
    BY <1>1, <2>3 DEF Send, TrySend, Line
  <2>4. QED
    BY <2>2, <2>3
<1>2. CASE Cancel \/ Top \/ Tick \/ Cancelled \/ Acquire
  BY <1>2 DEF Cancel, Top, Tick, Cancelled, Acquire, Line
<1>3. CASE Recv
  <2>1. rx # <<>> /\ rx' = Tail(rx) /\ buffer' = Append(buffer, Head(rx)) /\ UNCHANGED <<table, accepted, sent>>
    BY <1>3 DEF Recv
  <2>2. Head(rx) \in Events /\ Tail(rx) \in Seq(Events) /\ Append(buffer, Head(rx)) \in Seq(Events)
    BY <1>0, <2>1, HeadTailProperties, AppendProperties, AppendIsConcat
  <2>3. (table \o Append(buffer, Head(rx))) \o Tail(rx) = table \o (Append(buffer, Head(rx)) \o Tail(rx))
    <3> DEFINE b == Append(buffer, Head(rx))
               t == Tail(rx)
    <3>1. table \in Seq(Events) /\ b \in Seq(Events) /\ t \in Seq(Events)
      BY <1>0, <2>2
    <3> HIDE DEF b, t
    <3>2. (table \o b) \o t = table \o (b \o t)
      BY ONLY <3>1, ConcatAssociative
    <3>3. QED
      BY <3>2 DEF b, t
  <2>4. Append(buffer, Head(rx)) \o Tail(rx) = buffer \o rx
    BY <1>0, <2>1, MoveHead
  <2>5. table \o (buffer \o rx) = (table \o buffer) \o rx
    BY <1>0, ConcatAssociative
  <2>6. QED
    BY <2>1, <2>3, <2>4, <2>5 DEF Line
<1>4. CASE Insert
  <2>1. /\ buffer # <<>> /\ buffer' = Tail(buffer) /\ table' = Append(table, Head(buffer))
        /\ UNCHANGED <<rx, accepted, sent>>
    BY <1>4 DEF Insert, TypeOK
  <2>2. Append(table, Head(buffer)) \o Tail(buffer) = table \o buffer
    BY <1>0, <2>1, MoveHead
  <2>3. QED
    BY <2>1, <2>2 DEF Line
<1>5. CASE UNCHANGED vars
  BY <1>5 DEF vars, Line
<1>6. QED
  BY <1>1, <1>2, <1>3, <1>4, <1>5 DEF Next

LEMMA OnceNext == IInv /\ [Next]_vars => ExactlyOnce'
<1> SUFFICES ASSUME IInv, [Next]_vars, ~torn'
             PROVE  Line' = accepted'
  BY DEF ExactlyOnce, Line
<1>1. ~InsertFails
  BY DEF InsertFails
<1>2. ~torn
  BY <1>1 DEF Next, vars, Send, Cancel, Top, Recv, Tick, Cancelled, Acquire, Insert
<1>3. Line = accepted
  BY <1>2 DEF IInv, ExactlyOnce, Line
<1>4. QED
  BY <1>1, <1>3, LineStep DEF IInv

LEMMA OrderNext == IInv /\ [Next]_vars => LineInOrder'
<1> SUFFICES ASSUME IInv, [Next]_vars
             PROVE  LineInOrder'
  OBVIOUS
<1>0. /\ Line \in Seq(Events) /\ Len(Line) \in Nat /\ sent \in Nat
      /\ \A i \in 1 .. Len(Line) : Line[i] \in Nat
  BY LineType DEF IInv
<1>1. CASE InsertFails
  <2> DEFINE n == Len(table')
  <2> DEFINE gap == Len(table) + Len(buffer) - n
  <2>0. /\ rx \in Seq(Events) /\ buffer \in Seq(Events) /\ table \in Seq(Events)
        /\ table \o buffer \in Seq(Events) /\ buffer # <<>>
    BY <1>1, LineType DEF IInv, TypeOK, InsertFails
  <2>1. /\ table' \in Seq(Events) /\ n \in Nat /\ gap \in Nat
        /\ \A i \in 1 .. n : table'[i] = (table \o buffer)[i]
    <3>1. CASE table' = table
      BY <2>0, <3>1
    <3>2. CASE table' = Append(table, Head(buffer))
      <4>1. Head(buffer) \in Events /\ Len(buffer) > 0
        BY <2>0
      <4>2. QED
        BY <2>0, <3>2, <4>1
    <3>3. QED
      BY <1>1, <3>1, <3>2 DEF InsertFails
  <2>2. Line' = table' \o rx
    <3>1. table' \o <<>> = table'
      BY <2>1, ConcatEmptySeq
    <3>2. QED
      BY <1>1, <3>1 DEF InsertFails, Line
  <2>3. Len(Line') = n + Len(rx) /\ Len(Line) = n + gap + Len(rx)
    BY <2>0, <2>1, <2>2 DEF Line
  <2>4. \A i \in 1 .. Len(Line') : Line'[i] = IF i <= n THEN Line[i] ELSE Line[i + gap]
    <3> SUFFICES ASSUME NEW i \in 1 .. Len(Line')
                 PROVE  Line'[i] = IF i <= n THEN Line[i] ELSE Line[i + gap]
      OBVIOUS
    <3>1. CASE i <= n
      <4>1. Line'[i] = table'[i]
        BY <2>0, <2>1, <2>2, <2>3, <3>1, ConcatProperties
      <4>2. Line[i] = (table \o buffer)[i]
        <5>1. i \in 1 .. Len(table \o buffer) /\ Len(table \o buffer) = n + gap
          BY <2>0, <2>1, <3>1
        <5>2. QED
          BY <2>0, <5>1 DEF Line
      <4>3. QED
        BY <2>1, <3>1, <4>1, <4>2
    <3>2. CASE ~(i <= n)
      <4>1. i - n \in 1 .. Len(rx) /\ Len(rx) \in Nat
        BY <2>0, <2>1, <2>3, <3>2
      <4>2. Line'[i] = rx[i - n]
        BY <2>0, <2>1, <2>2, <2>3, <3>2, ConcatProperties
      <4>3. Line[i + gap] = rx[i - n]
        <5>1. Len(table \o buffer) = n + gap
          BY <2>0
        <5>2. i + gap \in 1 .. Len(table \o buffer) + Len(rx) /\ ~(i + gap <= Len(table \o buffer))
          BY <2>1, <3>2, <4>1, <5>1
        <5>3. (i + gap) - Len(table \o buffer) = i - n
          BY <2>1, <5>1
        <5>4. ((table \o buffer) \o rx)[i + gap] = rx[(i + gap) - Len(table \o buffer)]
          BY <2>0, <5>2, ConcatProperties
        <5>5. QED
          BY <5>3, <5>4 DEF Line
      <4>4. QED
        BY <3>2, <4>2, <4>3
    <3>3. QED
      BY <3>1, <3>2
  <2>5. sent' = sent
    BY <1>1 DEF InsertFails
  <2> HIDE DEF n, gap
  <2>6. ASSUME NEW i \in 1 .. Len(Line')
        PROVE  Line'[i] <= sent'
    <3>1. (IF i <= n THEN i ELSE i + gap) \in 1 .. Len(Line)
      BY <2>0, <2>1, <2>3
    <3>2. QED
      BY <2>4, <2>5, <3>1 DEF IInv, LineInOrder
  <2>7. ASSUME NEW i \in 1 .. Len(Line'), NEW j \in 1 .. Len(Line'), i < j
        PROVE  Line'[i] < Line'[j]
    <3> DEFINE I == IF i <= n THEN i ELSE i + gap
    <3> DEFINE J == IF j <= n THEN j ELSE j + gap
    <3>1. I \in 1 .. Len(Line) /\ J \in 1 .. Len(Line) /\ I < J
      BY <2>0, <2>1, <2>3, <2>7
    <3>2. Line'[i] = Line[I] /\ Line'[j] = Line[J]
      BY <2>4
    <3>3. QED
      BY <3>1, <3>2 DEF IInv, LineInOrder, Increasing
  <2>8. QED
    BY <2>6, <2>7 DEF LineInOrder, Increasing
<1>2. CASE ~InsertFails
  <2>1. CASE Line' = Line /\ sent' \in {sent, sent + 1}
    <3>1. \A i \in 1 .. Len(Line) : Line[i] <= sent'
      BY <1>0, <2>1 DEF IInv, LineInOrder
    <3>2. QED
      BY <2>1, <3>1 DEF IInv, LineInOrder, Increasing
  <2>2. CASE Line' = Append(Line, sent + 1) /\ sent' = sent + 1
    <3>1. /\ Len(Line') = Len(Line) + 1
          /\ \A i \in 1 .. Len(Line') : Line'[i] = IF i <= Len(Line) THEN Line[i] ELSE sent + 1
      BY <1>0, <2>2
    <3>2. ASSUME NEW i \in 1 .. Len(Line')
          PROVE  Line'[i] <= sent'
      BY <1>0, <2>2, <3>1 DEF IInv, LineInOrder
    <3>3. ASSUME NEW i \in 1 .. Len(Line'), NEW j \in 1 .. Len(Line'), i < j
          PROVE  Line'[i] < Line'[j]
      <4>1. CASE j <= Len(Line)
        BY <1>0, <3>1, <3>3, <4>1 DEF IInv, LineInOrder, Increasing
      <4>2. CASE ~(j <= Len(Line))
        BY <1>0, <3>1, <3>3, <4>2 DEF IInv, LineInOrder
      <4>3. QED
        BY <4>1, <4>2
    <3>4. QED
      BY <3>2, <3>3 DEF LineInOrder, Increasing
  <2>3. QED
    BY <1>2, <2>1, <2>2, LineStep DEF IInv
<1>3. QED
  BY <1>1, <1>2

LEMMA Invariant == Spec => []IInv
<1>1. IInv /\ [Next]_vars => IInv'
  BY TypeNext, OnceNext, OrderNext DEF IInv
<1>2. QED
  BY InitInv, <1>1, PTL DEF Spec

(* Channel and buffer of run stay within their bounds and hold events only.*)
THEOREM AuditTyped == Spec => []TypeOK
<1>1. IInv => TypeOK
  BY DEF IInv
<1>2. QED
  BY Invariant, <1>1, PTL

(* run and flush hand every event the channel took on to Postgres exactly  *)
(* once and in order, for as long as no insert fails.                      *)
THEOREM EventsExactlyOnce == Spec => []ExactlyOnce
<1>1. IInv => ExactlyOnce
  BY DEF IInv
<1>2. QED
  BY Invariant, <1>1, PTL

(* Even a failed insert, whose event may be in the table or not, leads to  *)
(* no event twice and to none out of order: drain gave up the rest.        *)
THEOREM EventsAtMostOnce == Spec => []AtMostOnceInOrder
<1>1. IInv => AtMostOnceInOrder
  <2> SUFFICES ASSUME IInv, NEW i \in 1 .. Len(table), NEW j \in 1 .. Len(table), i < j
               PROVE  table[i] < table[j]
    BY DEF AtMostOnceInOrder
  <2>1. rx \in Seq(Events) /\ buffer \in Seq(Events) /\ table \in Seq(Events) /\ table \o buffer \in Seq(Events)
    BY LineType DEF IInv
  <2>2. Len(Line) = Len(table) + Len(buffer) + Len(rx)
    BY <2>1 DEF Line
  <2>3. \A k \in 1 .. Len(table) : k \in 1 .. Len(Line) /\ Line[k] = table[k]
    BY <2>1, <2>2 DEF Line
  <2>4. QED
    BY <2>3 DEF IInv, LineInOrder, Increasing
<1>2. QED
  BY Invariant, <1>1, PTL
=============================================================================
