---------------------------- MODULE DriverProofs ----------------------------
(***************************************************************************)
(* Drivers of a partner: what a driver owes of the deposit, for any rule   *)
(* and any payments, the documents of a driver with the deposit that is    *)
(* paid back, for any number of clients, kinds and documents, and the      *)
(* roster that follows the imports, for any number of readers and names.   *)
(***************************************************************************)
EXTENDS DepositLedger, DriverDocuments, DriverSync, SumTheorems, SequenceTheorems

-----------------------------------------------------------------------------
(* The deposit ledger *)

\* The variables are amounts; the sums of the history may be below zero.
LedgerTypeOK ==
    /\ rule \in RuleType
    /\ paid \in Nat
    /\ arrears \in Nat
    /\ days \in Nat
    /\ net \in Int
    /\ peak \in Nat

\* The inductive invariant: the closed form, and that a ledger which has
\* arrears is not at its end.
LedgerInv == LedgerTypeOK /\ PaidIsPeakSurplus /\ LunasOwesNothing

\* The total is a positive number, and a fixed day adds one installment.
LEMMA TargetIsPositive ==
    ASSUME NEW amount \in Nat \ {0}, NEW count \in Nat \ {0}
    PROVE  amount * count \in Nat \ {0}
  BY SMT

\* One more fixed installment: the distributive law.
LEMMA OneMoreInstallment ==
    ASSUME NEW amount \in Nat, NEW n \in Nat
    PROVE  /\ amount * n \in Nat
           /\ amount * (n + 1) = amount * n + amount
           /\ amount * 0 = 0
  BY SMT

\* Nothing is paid or owed before the first day.
LEMMA LedgerStarts == LedgerInit => LedgerInv
  <1> SUFFICES ASSUME LedgerInit PROVE LedgerInv
    OBVIOUS
  <1>1. LedgerTypeOK
    BY RulesAssumption DEF LedgerInit, LedgerTypeOK
  <1>2. TotalTarget \in Nat \ {0}
    BY <1>1, TargetIsPositive DEF LedgerTypeOK, RuleType, TotalTarget
  <1>3. rule.amount * days = 0
    BY <1>1, OneMoreInstallment DEF LedgerInit, LedgerTypeOK, RuleType
  <1> QED
    BY <1>1, <1>2, <1>3 DEF LedgerInit, LedgerInv, PaidIsPeakSurplus, LunasOwesNothing, Lunas, LesserOf

\* A fixed, a short and a surplus day each keep the closed form.
LEMMA LedgerGoesOn == LedgerInv /\ [LedgerNext]_ledgerVars => LedgerInv'
  <1> SUFFICES ASSUME LedgerInv, [LedgerNext]_ledgerVars PROVE LedgerInv'
    OBVIOUS
  <1> USE DEF LedgerInv
  <1>1. TotalTarget \in Nat \ {0}
    BY TargetIsPositive DEF LedgerTypeOK, RuleType, TotalTarget
  <1>2. CASE UNCHANGED ledgerVars
    BY <1>2 DEF ledgerVars, LedgerTypeOK, PaidIsPeakSurplus, LunasOwesNothing, Lunas, TotalTarget
  <1>3. ASSUME NEW setoran \in Setorans, NextDay
        PROVE  /\ setoran \in Nat
               /\ rule' = rule /\ TotalTarget' = TotalTarget
               /\ rule' \in RuleType /\ days' \in Nat
               /\ rule.minDailySetoran \in Nat
               /\ paid < TotalTarget
    BY <1>1, <1>3, RulesAssumption DEF NextDay, Lunas, TotalTarget, LedgerTypeOK, RuleType
  <1>4. ASSUME NEW setoran \in Setorans, FixedDay(setoran) PROVE LedgerInv'
    <2>1. NextDay BY <1>4 DEF FixedDay
    <2>2. /\ rule.amount \in Nat \ {0} /\ rule.amount * days \in Nat
          /\ rule.amount * days' = rule.amount * days + rule.amount
      BY <2>1, OneMoreInstallment DEF NextDay, LedgerTypeOK, RuleType
    <2>3. paid = rule.amount * days /\ arrears = 0
      BY <1>1, <1>3, <1>4, <2>1, <2>2 DEF FixedDay, PaidIsPeakSurplus, LesserOf, LedgerTypeOK
    <2>4. paid' = LesserOf(TotalTarget, rule.amount * days')
      BY <1>1, <1>3, <1>4, <2>1, <2>2, <2>3 DEF FixedDay, LesserOf, LedgerTypeOK
    <2>5. PaidIsPeakSurplus'
      BY <1>3, <1>4, <2>1, <2>3, <2>4 DEF FixedDay, PaidIsPeakSurplus, LesserOf
    <2>6. LedgerTypeOK' /\ LunasOwesNothing'
      BY <1>1, <1>3, <1>4, <2>1, <2>2, <2>3, <2>4
      DEF FixedDay, LesserOf, LedgerTypeOK, LunasOwesNothing, Lunas
    <2> QED BY <2>5, <2>6
  <1>5. ASSUME NEW setoran \in Setorans, ShortDay(setoran) PROVE LedgerInv'
    <2>1. NextDay BY <1>5 DEF ShortDay
    <2>2. peak' = peak /\ arrears' = peak' - net'
      BY <1>3, <1>5, <2>1
      DEF ShortDay, Remember, GreaterOf, Obligation, PaidIsPeakSurplus, LedgerTypeOK
    <2>3. LedgerTypeOK'
      BY <1>3, <1>5, <2>1, <2>2 DEF ShortDay, Remember, Obligation, LedgerTypeOK
    <2>4. PaidIsPeakSurplus' /\ LunasOwesNothing'
      BY <1>3, <1>5, <2>1, <2>2
      DEF ShortDay, PaidIsPeakSurplus, LunasOwesNothing, Lunas, LesserOf, LedgerTypeOK
    <2> QED BY <2>3, <2>4
  <1>6. ASSUME NEW setoran \in Setorans, SurplusDay(setoran) PROVE LedgerInv'
    <2>1. NextDay BY <1>6 DEF SurplusDay
    <2>2. paid = peak
      BY <1>1, <1>3, <1>6, <2>1 DEF SurplusDay, PaidIsPeakSurplus, LesserOf, LedgerTypeOK
    <2>3. /\ net' = peak + (setoran - Obligation)
          /\ setoran - Obligation \in Nat
          /\ peak' = net'
      BY <1>3, <1>6, <2>1
      DEF SurplusDay, Remember, GreaterOf, Obligation, PaidIsPeakSurplus, LedgerTypeOK
    <2>4. /\ paid' = LesserOf(TotalTarget, peak')
          /\ arrears' = peak' - net'
          /\ peak' \in Nat
      BY <1>1, <1>3, <1>6, <2>1, <2>2, <2>3 DEF SurplusDay, LesserOf, LedgerTypeOK
    <2>5. LedgerTypeOK'
      BY <1>1, <1>3, <1>6, <2>1, <2>3, <2>4 DEF SurplusDay, LesserOf, LedgerTypeOK
    <2>6. PaidIsPeakSurplus' /\ LunasOwesNothing'
      BY <1>1, <1>3, <1>6, <2>1, <2>4
      DEF SurplusDay, PaidIsPeakSurplus, LunasOwesNothing, Lunas, LesserOf
    <2> QED BY <2>5, <2>6
  <1> QED
    BY <1>2, <1>4, <1>5, <1>6 DEF LedgerNext

\* For every rule and every sequence of payments the ledger has its closed form:
\* the mandatory setoran is never taken for the installment and no surplus is lost.
THEOREM LedgerClosedForm == LedgerSpec => []PaidIsPeakSurplus
  <1>1. LedgerInv => PaidIsPeakSurplus
    BY DEF LedgerInv
  <1> QED
    BY <1>1, LedgerStarts, LedgerGoesOn, PTL DEF LedgerSpec

\* Whenever the total is reached nothing is owed, whatever the driver paid.
THEOREM LedgerEndsClean == LedgerSpec => []LunasOwesNothing
  <1>1. LedgerInv => LunasOwesNothing
    BY DEF LedgerInv
  <1> QED
    BY <1>1, LedgerStarts, LedgerGoesOn, PTL DEF LedgerSpec
-----------------------------------------------------------------------------
(* The documents of a driver *)

DocumentRow == [kind : DocumentKinds, state : FileStates]

DocumentShape ==
    /\ documents \in Seq(DocumentRow)
    /\ driverCall = [c \in Clients |-> driverCall[c]]

\* What a handler remembers of documents is still true when it acts on it.
Recalls(call) ==
    /\ call.op = "confirm" /\ call.at = "read" =>
        /\ call.doc \in DocumentIds
        /\ Present(call.doc) => IF call.mark THEN call.doc \in documentObjects
                                ELSE documents[call.doc].state = "uploaded"
    /\ call.op = "confirm" /\ call.at = "forget" =>
        \A d \in call.keys : d \in DocumentIds /\ ~Present(d)
    /\ call.op = "remove" => call.doc \in DocumentIds /\ ~Present(call.doc)

DocumentInv ==
    /\ DocumentShape
    /\ \A c \in Clients : Recalls(driverCall[c])
    /\ DocumentsInOrder

\* What every step does: documents keep their kind, deleted ones stay deleted, an
\* uploaded one stays so until it is deleted, only objects of deleted ones go, and
\* what is uploaded has been seen.
Onward ==
    /\ DocumentIds \subseteq DocumentIds'
    /\ \A d \in DocumentIds : documents'[d].kind = documents[d].kind
    /\ \A d \in DocumentIds : Present(d)' => Present(d)
    /\ \A d \in DocumentIds : Present(d)' /\ documents[d].state = "uploaded"
                                => documents'[d].state = "uploaded"
    /\ \A d \in documentObjects : d \in DocumentIds /\ Present(d)' => d \in documentObjects'
    /\ \A d \in DocumentIds' : documents'[d].state = "uploaded"
                                => d \in DocumentIds /\ d \in documentObjects

\* Rows picked one by one make a sequence of rows.
LEMMA RowsMakeDocuments ==
    ASSUME NEW n \in Nat, NEW f \in [1..n -> DocumentRow]
    PROVE  f \in Seq(DocumentRow) /\ Len(f) = n
  <1>1. f \in Seq(DocumentRow)
    BY SeqDef
  <1>2. DOMAIN f = 1..n /\ DOMAIN f = 1..Len(f) /\ Len(f) \in Nat
    BY <1>1, LenProperties
  <1> QED
    BY <1>1, <1>2

\* What the shape says of the rows.
LEMMA RowsOfDocuments ==
    ASSUME documents \in Seq(DocumentRow)
    PROVE  /\ Len(documents) \in Nat /\ DocumentIds = 1..Len(documents) /\ IsFiniteSet(DocumentIds)
           /\ \A d \in DocumentIds : /\ documents[d] \in DocumentRow
                                     /\ documents[d].kind \in DocumentKinds
                                     /\ documents[d].state \in FileStates
  <1>1. Len(documents) \in Nat /\ DocumentIds = 1..Len(documents)
    BY LenProperties DEF DocumentIds
  <1>2. IsFiniteSet(1..Len(documents))
    BY <1>1, FS_Interval
  <1>3. \A d \in DocumentIds : documents[d] \in DocumentRow
    BY <1>1, ElementOfSeq
  <1>4. \A row \in DocumentRow : row.kind \in DocumentKinds /\ row.state \in FileStates
    BY DEF DocumentRow
  <1> QED
    BY <1>1, <1>2, <1>3, <1>4

\* Rows that keep their kind, each going to a state: what an UPDATE of states does.
LEMMA StatesWritten ==
    ASSUME DocumentInv, NEW state \in [DocumentIds -> FileStates],
           documents' = [d \in DocumentIds |-> [documents[d] EXCEPT !.state = state[d]]]
    PROVE  /\ documents' \in Seq(DocumentRow) /\ DocumentIds' = DocumentIds
           /\ \A d \in DocumentIds : /\ documents'[d].state = state[d]
                                     /\ documents'[d].kind = documents[d].kind
  <1>1. /\ Len(documents) \in Nat /\ DocumentIds = 1..Len(documents)
        /\ \A d \in DocumentIds : documents[d] \in DocumentRow
    BY RowsOfDocuments DEF DocumentInv, DocumentShape
  <1>2. \A row \in DocumentRow, s \in FileStates :
            LET new == [row EXCEPT !.state = s] IN
            new \in DocumentRow /\ new.state = s /\ new.kind = row.kind
    BY DEF DocumentRow
  <1>3. documents' \in [1..Len(documents) -> DocumentRow]
    BY <1>1, <1>2
  <1>4. documents' \in Seq(DocumentRow) /\ Len(documents') = Len(documents)
    BY <1>1, <1>3, RowsMakeDocuments
  <1>5. DocumentIds' = DocumentIds
    BY <1>4 DEF DocumentIds
  <1> QED
    BY <1>1, <1>2, <1>4, <1>5

\* At most one is at most one, and fewer are at most as many.
LEMMA AtMostOne ==
    ASSUME NEW S, NEW T, S \subseteq T, IsFiniteSet(T), Cardinality(T) <= 1
    PROVE  Cardinality(S) <= 1
  BY FS_Subset, FS_CardinalityType

LEMMA OneOrNone ==
    ASSUME NEW S, NEW x, S \subseteq {x}
    PROVE  Cardinality(S) <= 1
  <1>1. IsFiniteSet({x}) /\ Cardinality({x}) = 1
    BY FS_Singleton
  <1> QED
    BY <1>1, AtMostOne

\* A step onward that lets no other document of a kind be uploaded keeps the order.
LEMMA OnwardKeepsOrder ==
    ASSUME DocumentInv, Onward,
           \A k \in DocumentKinds : Uploaded(k)' \subseteq Uploaded(k)
                                    \/ \E d : Uploaded(k)' \subseteq {d}
    PROVE  DocumentsInOrder'
  <1>1. DocumentBacked'
    BY DEF DocumentBacked, Onward, Present
  <1>2. SingleInstance'
    <2> SUFFICES ASSUME NEW k \in DocumentKinds PROVE Cardinality(Uploaded(k)') <= 1
      BY DEF SingleInstance
    <2>1. Cardinality(Uploaded(k)) <= 1
      BY DEF DocumentInv, DocumentsInOrder, SingleInstance
    <2>2. Uploaded(k) \subseteq DocumentIds /\ IsFiniteSet(DocumentIds)
      BY RowsOfDocuments DEF Uploaded, DocumentInv, DocumentShape
    <2>3. IsFiniteSet(Uploaded(k))
      BY <2>2, FS_Subset
    <2> QED
      BY <2>1, <2>3, AtMostOne, OneOrNone
  <1> QED
    BY <1>1, <1>2 DEF DocumentsInOrder

\* A handler's step onward keeps what the others remember.
LEMMA DriverHandlerKeeps ==
    ASSUME DocumentInv, Onward, documents' \in Seq(DocumentRow), DocumentsInOrder',
           NEW c \in Clients, NEW call, Call(c, call), Recalls(call)'
    PROVE  Onward /\ DocumentInv'
  <1>1. driverCall' = [d \in Clients |-> IF d = c THEN call ELSE driverCall[d]]
    BY DEF DocumentInv, DocumentShape, Call, Now
  <1>2. ASSUME NEW d \in Clients, d # c PROVE Recalls(driverCall[d])'
    <2>1. PICK kept : kept = driverCall[d]
      OBVIOUS
    <2>2. Recalls(kept) /\ driverCall'[d] = kept
      BY <1>1, <1>2, <2>1 DEF DocumentInv
    <2>3. Recalls(kept)'
      BY <2>2 DEF Recalls, Onward
    <2> QED
      BY <2>2, <2>3
  <1>3. Recalls(driverCall[c])'
    BY <1>1
  <1> QED
    BY <1>1, <1>2, <1>3 DEF DocumentInv, DocumentShape

\* A step that leaves documents and objects alone.
LEMMA NoDocumentMoves ==
    ASSUME DocumentInv, UNCHANGED <<documents, documentObjects>>
    PROVE  /\ Onward /\ documents' \in Seq(DocumentRow) /\ DocumentsInOrder'
           /\ \A k : Uploaded(k)' = Uploaded(k)
  BY DEF DocumentInv, DocumentShape, Onward, DocumentsInOrder, DocumentBacked, SingleInstance,
         Uploaded, DocumentIds, Present

\* The same when no handler moves.
LEMMA DriverOthersKeep ==
    ASSUME DocumentInv, Onward, documents' \in Seq(DocumentRow), DocumentsInOrder',
           UNCHANGED driverCall
    PROVE  Onward /\ DocumentInv'
  <1>1. ASSUME NEW d \in Clients PROVE Recalls(driverCall[d])'
    <2>1. PICK kept : kept = driverCall[d]
      OBVIOUS
    <2>2. Recalls(kept) /\ driverCall'[d] = kept
      BY <2>1 DEF DocumentInv
    <2>3. Recalls(kept)'
      BY <2>2 DEF Recalls, Onward
    <2> QED
      BY <2>2, <2>3
  <1> QED
    BY <1>1 DEF DocumentInv, DocumentShape
\* Writing the state a row has changes nothing.
LEMMA SameStateSameRow ==
    ASSUME DocumentInv
    PROVE  \A d \in DocumentIds : [documents[d] EXCEPT !.state = documents[d].state] = documents[d]
  <1>1. \A row \in DocumentRow : [row EXCEPT !.state = row.state] = row
    BY DEF DocumentRow
  <1> QED
    BY <1>1, RowsOfDocuments DEF DocumentInv, DocumentShape

\* A DELETE of rows.
LEMMA DroppingDocuments ==
    ASSUME DocumentInv, NEW ids, documents' = DropDocuments(ids), UNCHANGED documentObjects
    PROVE  /\ Onward /\ documents' \in Seq(DocumentRow) /\ DocumentsInOrder'
           /\ DocumentIds' = DocumentIds
           /\ \A d \in DocumentIds : Present(d)' <=> Present(d) /\ d \notin ids
           /\ \A k : Uploaded(k)' = Uploaded(k) \ ids
  <1> DEFINE state == [d \in DocumentIds |-> IF d \in ids THEN "deleted" ELSE documents[d].state]
  <1>1. state \in [DocumentIds -> FileStates]
    BY RowsOfDocuments DEF DocumentInv, DocumentShape, FileStates
  <1>2. documents' = [d \in DocumentIds |-> [documents[d] EXCEPT !.state = state[d]]]
    BY SameStateSameRow DEF DropDocuments
  <1>3. \A d \in DocumentIds : state[d] = IF d \in ids THEN "deleted" ELSE documents[d].state
    OBVIOUS
  <1> HIDE DEF state
  <1>4. /\ documents' \in Seq(DocumentRow) /\ DocumentIds' = DocumentIds
        /\ \A d \in DocumentIds : /\ documents'[d].state = state[d]
                                  /\ documents'[d].kind = documents[d].kind
    BY <1>1, <1>2, StatesWritten
  <1>5. \A d \in DocumentIds : documents[d].state = "uploaded" => d \in documentObjects
    BY DEF DocumentInv, DocumentsInOrder, DocumentBacked
  <1>6. Onward
    BY <1>3, <1>4, <1>5 DEF Onward, Present
  <1>7. \A k : Uploaded(k)' = Uploaded(k) \ ids
    BY <1>3, <1>4 DEF Uploaded
  <1>8. \A d \in DocumentIds : Present(d)' <=> Present(d) /\ d \notin ids
    BY <1>3, <1>4 DEF Present
  <1> QED
    BY <1>4, <1>6, <1>7, <1>8, OnwardKeepsOrder

\* The transaction of confirm(): one document of its kind is left, if it is there.
LEMMA Confirming ==
    ASSUME DocumentInv, NEW c \in Clients, NEW call, call = driverCall[c],
           NEW stale, stale = Superseded(call.doc), NEW kind, kind = documents[call.doc].kind,
           ConfirmDocument(c)
    PROVE  /\ Onward /\ documents' \in Seq(DocumentRow) /\ DocumentsInOrder'
           /\ DocumentIds' = DocumentIds
           /\ \A d \in stale : d \in DocumentIds /\ ~Present(d)'
           /\ call.doc \in DocumentIds
           /\ Present(call.doc) => call.doc \in Uploaded(kind)'
           /\ \A k : k # kind => Uploaded(k)' = Uploaded(k)
  <1> DEFINE doc == call.doc
             state == [e \in DocumentIds |-> IF e \in stale THEN "deleted"
                          ELSE IF e = doc /\ call.mark /\ Present(e) THEN "uploaded"
                          ELSE documents[e].state]
  <1>0. /\ doc \in DocumentIds
        /\ Present(doc) => IF call.mark THEN doc \in documentObjects
                           ELSE documents[doc].state = "uploaded"
    BY DEF DocumentInv, Recalls, ConfirmDocument, InCall
  <1>1. state \in [DocumentIds -> FileStates]
    BY RowsOfDocuments DEF DocumentInv, DocumentShape, FileStates
  <1>2. documents' = [e \in DocumentIds |-> [documents[e] EXCEPT !.state = state[e]]]
    <2>1. documents' = [e \in DocumentIds |->
                IF e \in stale THEN [documents[e] EXCEPT !.state = "deleted"]
                ELSE IF e = doc /\ call.mark /\ Present(e)
                THEN [documents[e] EXCEPT !.state = "uploaded"] ELSE documents[e]]
      BY DEF ConfirmDocument
    <2> QED
      BY <2>1, SameStateSameRow
  <1>3. \A e \in DocumentIds : state[e] = IF e \in stale THEN "deleted"
                          ELSE IF e = doc /\ call.mark /\ Present(e) THEN "uploaded"
                          ELSE documents[e].state
    OBVIOUS
  <1>4. stale = {e \in DocumentIds : /\ Present(e) /\ e # doc
                                     /\ documents[e].kind = kind}
    BY DEF Superseded
  <1>a. kind = documents[doc].kind
    OBVIOUS
  <1> HIDE DEF state, doc
  <1>5. /\ documents' \in Seq(DocumentRow) /\ DocumentIds' = DocumentIds
        /\ \A d \in DocumentIds : /\ documents'[d].state = state[d]
                                  /\ documents'[d].kind = documents[d].kind
    BY <1>1, <1>2, StatesWritten
  <1>6. \A d \in DocumentIds : documents[d].state = "uploaded" => d \in documentObjects
    BY DEF DocumentInv, DocumentsInOrder, DocumentBacked
  <1>7. UNCHANGED documentObjects
    BY DEF ConfirmDocument
  <1>8. Onward
    BY <1>0, <1>3, <1>5, <1>6, <1>7 DEF Onward, Present
  <1>9. \A k : k # kind => Uploaded(k)' = Uploaded(k)
    BY <1>0, <1>a, <1>3, <1>4, <1>5 DEF Uploaded
  <1>10. Uploaded(kind)' \subseteq {doc}
    BY <1>0, <1>a, <1>3, <1>4, <1>5 DEF Uploaded, Present
  <1>11. Present(doc) => doc \in Uploaded(kind)'
    BY <1>0, <1>a, <1>3, <1>4, <1>5 DEF Uploaded
  <1>12. \A d \in stale : d \in DocumentIds /\ ~Present(d)'
    BY <1>3, <1>4, <1>5 DEF Present
  <1>13. DocumentsInOrder'
    BY <1>8, <1>9, <1>10, OnwardKeepsOrder
  <1> QED
    BY <1>0, <1>5, <1>8, <1>9, <1>11, <1>12, <1>13 DEF doc

\* A new document is pending.
LEMMA AddingDocument ==
    ASSUME DocumentInv, PresignDocument
    PROVE  /\ Onward /\ documents' \in Seq(DocumentRow) /\ DocumentsInOrder'
           /\ \A k : Uploaded(k)' = Uploaded(k)
           /\ \A d \in DocumentIds : documents'[d] = documents[d] /\ d \in DocumentIds'
  <1>1. PICK k \in DocumentKinds : documents' = Append(documents, [kind |-> k, state |-> "pending"])
    BY DEF PresignDocument
  <1> DEFINE row == [kind |-> k, state |-> "pending"]
  <1>2. row \in DocumentRow /\ row.state = "pending"
    BY DEF DocumentRow, FileStates
  <1>3. Len(documents) \in Nat /\ DocumentIds = 1..Len(documents) /\ documents \in Seq(DocumentRow)
    BY RowsOfDocuments DEF DocumentInv, DocumentShape
  <1>4. documents' = Append(documents, row) /\ UNCHANGED documentObjects
    BY <1>1 DEF PresignDocument
  <1> HIDE DEF row
  <1>5. /\ documents' \in Seq(DocumentRow) /\ Len(documents') = Len(documents) + 1
        /\ \A d \in 1..Len(documents) : documents'[d] = documents[d]
        /\ documents'[Len(documents) + 1] = row
    BY <1>2, <1>3, <1>4
  <1>6. DocumentIds' = 1..(Len(documents) + 1)
    BY <1>5 DEF DocumentIds
  <1>7. /\ \A d \in DocumentIds : documents'[d] = documents[d] /\ d \in DocumentIds'
        /\ \A d \in DocumentIds' : d \in DocumentIds \/ documents'[d] = row
    BY <1>3, <1>5, <1>6
  <1>8. \A d \in DocumentIds : documents[d].state = "uploaded" => d \in documentObjects
    BY DEF DocumentInv, DocumentsInOrder, DocumentBacked
  <1>9. Onward
    BY <1>2, <1>4, <1>7, <1>8 DEF Onward, Present
  <1>10. \A j : Uploaded(j)' = Uploaded(j)
    BY <1>2, <1>7 DEF Uploaded
  <1> QED
    BY <1>5, <1>7, <1>9, <1>10, OnwardKeepsOrder

\* Objects of deleted documents that go.
LEMMA ForgettingObjects ==
    ASSUME DocumentInv, NEW keys, \A d \in keys : d \in DocumentIds => ~Present(d),
           documentObjects' = documentObjects \ keys, UNCHANGED documents
    PROVE  /\ Onward /\ documents' \in Seq(DocumentRow) /\ DocumentsInOrder'
           /\ \A k : Uploaded(k)' = Uploaded(k)
  BY DEF DocumentInv, DocumentShape, Onward, DocumentsInOrder, DocumentBacked, SingleInstance,
         Uploaded, DocumentIds, Present

\* A call that is about the driver's row recalls no document.
LEMMA NothingRecalled ==
    /\ Recalls(NoCall)' /\ NoCall.op = "none"
    /\ \A call : call.op = "patch" => Recalls(call)'
  BY DEF NoCall, Recalls

\* Every step goes onward and keeps the documents in order.
LEMMA DocumentsGoOn ==
    ASSUME DocumentInv, [DriverNext]_driverVars
    PROVE  Onward /\ DocumentInv'
  <1>1. CASE UNCHANGED driverVars
    BY <1>1, NoDocumentMoves, DriverOthersKeep DEF driverVars
  <1>2. CASE PresignDocument
    <2>1. UNCHANGED driverCall
      BY <1>2 DEF PresignDocument
    <2> QED
      BY <1>2, <2>1, AddingDocument, DriverOthersKeep
  <1>3. ASSUME NEW d \in DocumentIds, UploadDocument(d) PROVE Onward /\ DocumentInv'
    <2>1. Onward /\ documents' \in Seq(DocumentRow) /\ DocumentsInOrder' /\ UNCHANGED driverCall
      BY <1>3 DEF UploadDocument, DocumentInv, DocumentShape, Onward, DocumentsInOrder,
                  DocumentBacked, SingleInstance, Uploaded, DocumentIds, Present
    <2> QED
      BY <2>1, DriverOthersKeep
  <1>4. ASSUME NEW c \in Clients, DriverHandler(c) PROVE Onward /\ DocumentInv'
    <2>a. PICK call : call = driverCall[c]
      OBVIOUS
    <2>0. call = driverCall[c] /\ Recalls(call)
      BY <2>a DEF DocumentInv
    <2>b. ASSUME UNCHANGED <<documents, documentObjects>>, NEW next, Call(c, next), Recalls(next)'
          PROVE  Onward /\ DocumentInv'
      BY <2>b, NoDocumentMoves, DriverHandlerKeeps
    <2>c. ASSUME Onward, documents' \in Seq(DocumentRow), DocumentsInOrder', Respond(c)
          PROVE  Onward /\ DocumentInv'
      <3>1. PICK next : next = NoCall
        OBVIOUS
      <3>2. Call(c, next) /\ Recalls(next)'
        BY <2>c, <3>1, NothingRecalled DEF Respond
      <3> QED
        BY <2>c, <3>2, DriverHandlerKeeps
    <2>1. CASE ReadDocument(c)
      <3>1. PICK d \in DocumentIds, mark \in BOOLEAN :
                /\ Present(d)
                /\ mark = (documents[d].state = "pending")
                /\ mark => d \in documentObjects
                /\ Call(c, [op |-> "confirm", at |-> "read", doc |-> d, mark |-> mark])
                /\ UNCHANGED <<documents, documentObjects>>
        BY <2>1 DEF ReadDocument
      <3> DEFINE next == [op |-> "confirm", at |-> "read", doc |-> d, mark |-> mark]
      <3>2. /\ next.op = "confirm" /\ next.at = "read" /\ next.doc = d /\ next.mark = mark
            /\ Call(c, next)
        BY <3>1
      <3>3. documents[d].state \in {"pending", "uploaded"}
        BY <3>1, RowsOfDocuments DEF DocumentInv, DocumentShape, FileStates, Present
      <3> HIDE DEF next
      <3>4. Recalls(next)'
        BY <3>1, <3>2, <3>3 DEF Recalls, DocumentIds, Present
      <3> QED
        BY <2>b, <3>1, <3>2, <3>4
    <2>2. CASE ConfirmDocument(c)
      <3>0. PICK stale, kind : stale = Superseded(call.doc) /\ kind = documents[call.doc].kind
        OBVIOUS
      <3> DEFINE next == [op |-> "confirm", at |-> "forget", keys |-> stale]
      <3>1. /\ Onward /\ documents' \in Seq(DocumentRow) /\ DocumentsInOrder'
            /\ DocumentIds' = DocumentIds
            /\ \A d \in stale : d \in DocumentIds /\ ~Present(d)'
        BY <2>0, <2>2, <3>0, Confirming
      <3>2. next.op = "confirm" /\ next.at = "forget" /\ next.keys = stale /\ Call(c, next)
        BY <2>0, <2>2, <3>0 DEF ConfirmDocument
      <3> HIDE DEF next
      <3>3. Recalls(next)'
        BY <3>1, <3>2 DEF Recalls
      <3> QED
        BY <3>1, <3>2, <3>3, DriverHandlerKeeps
    <2>3. CASE ForgetReplaced(c)
      <3>1. /\ \A d \in call.keys : d \in DocumentIds /\ ~Present(d)
            /\ documentObjects' = documentObjects \ call.keys /\ UNCHANGED documents /\ Respond(c)
        BY <2>0, <2>3 DEF ForgetReplaced, InCall, Recalls
      <3> QED
        BY <2>c, <3>1, ForgettingObjects
    <2>4. CASE RemoveDocument(c)
      <3>0. PICK d \in DocumentIds, at \in {"reset", "forget"} :
                /\ documents' = DropDocuments({d}) /\ UNCHANGED documentObjects
                /\ Call(c, [op |-> "remove", doc |-> d, at |-> at])
        BY <2>4 DEF RemoveDocument
      <3>a. PICK ids : ids = {d}
        OBVIOUS
      <3>1. /\ documents' = DropDocuments(ids) /\ UNCHANGED documentObjects
            /\ Call(c, [op |-> "remove", doc |-> d, at |-> at]) /\ d \in ids
        BY <3>0, <3>a
      <3> DEFINE next == [op |-> "remove", doc |-> d, at |-> at]
      <3>2. next.op = "remove" /\ next.doc = d /\ Call(c, next)
        BY <3>1
      <3>3. /\ Onward /\ documents' \in Seq(DocumentRow) /\ DocumentsInOrder'
            /\ DocumentIds' = DocumentIds /\ ~Present(d)'
        BY <3>1, DroppingDocuments
      <3> HIDE DEF next
      <3>4. Recalls(next)'
        BY <3>2, <3>3 DEF Recalls
      <3> QED
        BY <3>2, <3>3, <3>4, DriverHandlerKeeps
    <2>5. CASE ResetDeposit(c)
      <3> DEFINE next == [call EXCEPT !.at = "forget"]
      <3>1. /\ call.op = "remove" /\ Call(c, next) /\ UNCHANGED <<documents, documentObjects>>
        BY <2>0, <2>5 DEF ResetDeposit, InCall
      <3>2. next.op = "remove" /\ next.doc = call.doc
        BY <3>1
      <3> HIDE DEF next
      <3>3. Recalls(next)'
        BY <2>0, <3>1, <3>2 DEF Recalls, DocumentIds, Present
      <3> QED
        BY <2>b, <3>1, <3>3
    <2>6. CASE ForgetDocument(c)
      <3>0. PICK keys : keys = {call.doc}
        OBVIOUS
      <3>1. /\ \A d \in keys : d \in DocumentIds /\ ~Present(d)
            /\ documentObjects' = documentObjects \ keys /\ UNCHANGED documents /\ Respond(c)
        BY <2>0, <2>6, <3>0 DEF ForgetDocument, InCall, Recalls
      <3> QED
        BY <2>c, <3>1, ForgettingObjects
    <2>7. CASE ReadDriver(c)
      <3>1. PICK at, patch : /\ Call(c, [op |-> "patch", at |-> at, patch |-> patch])
                             /\ UNCHANGED <<documents, documentObjects>>
        BY <2>7 DEF ReadDriver
      <3> DEFINE next == [op |-> "patch", at |-> at, patch |-> patch]
      <3>2. next.op = "patch" /\ Call(c, next)
        BY <3>1
      <3> HIDE DEF next
      <3> QED
        BY <2>b, <3>1, <3>2, NothingRecalled
    <2>8. CASE ReturnGate(c)
      <3> DEFINE next == [call EXCEPT !.at = "write"]
      <3>1. /\ call.op = "patch" /\ UNCHANGED <<documents, documentObjects>>
            /\ Call(c, next) \/ Respond(c)
        BY <2>0, <2>8 DEF ReturnGate, InCall
      <3>2. next.op = "patch"
        BY <3>1
      <3> HIDE DEF next
      <3>3. CASE Call(c, next)
        BY <2>b, <3>1, <3>2, <3>3, NothingRecalled
      <3>4. CASE Respond(c)
        BY <2>c, <3>1, <3>4, NoDocumentMoves
      <3> QED
        BY <3>1, <3>3, <3>4
    <2>9. CASE WriteDriver(c) \/ AbortDriverCall(c)
      <3>1. UNCHANGED <<documents, documentObjects>> /\ Respond(c)
        BY <2>9 DEF WriteDriver, AbortDriverCall
      <3> QED
        BY <2>c, <3>1, NoDocumentMoves
    <2> QED
      BY <1>4, <2>1, <2>2, <2>3, <2>4, <2>5, <2>6, <2>7, <2>8, <2>9 DEF DriverHandler
  <1> QED
    BY <1>1, <1>2, <1>3, <1>4 DEF DriverNext

LEMMA DocumentsStart == DriverInit => DocumentInv
  <1> SUFFICES ASSUME DriverInit PROVE DocumentInv
    OBVIOUS
  <1>1. documents \in Seq(DocumentRow) /\ DocumentIds = {}
    BY EmptySeq DEF DriverInit, DocumentIds
  <1>2. \A c \in Clients : driverCall[c] = NoCall /\ NoCall.op = "none"
    BY DEF DriverInit, NoCall
  <1>3. \A k : Uploaded(k) = {}
    BY <1>1 DEF Uploaded
  <1>4. SingleInstance
    BY <1>3, FS_EmptySet DEF SingleInstance
  <1>5. DocumentBacked
    BY <1>1 DEF DocumentBacked
  <1>6. DocumentShape
    BY <1>1 DEF DocumentShape, DriverInit
  <1> QED
    BY <1>2, <1>4, <1>5, <1>6 DEF DocumentInv, Recalls, DocumentsInOrder

\* However confirmations, removals and failures of any number of clients overtake
\* each other, at most one document of a kind is uploaded and its bytes are there
\* (confirm and remove of driver-documents.service.ts).
THEOREM DocumentsStayInOrder == DriverSpec => []DocumentsInOrder
  <1>1. DocumentInv => DocumentsInOrder
    BY DEF DocumentInv
  <1>2. DocumentInv /\ [DriverNext]_driverVars => DocumentInv'
    BY DocumentsGoOn
  <1> QED
    BY <1>1, <1>2, DocumentsStart, PTL DEF DriverSpec

\* What ConfirmKeepsOne says of a step.
KnownTaker ==
    \A k \in DocumentKinds : Uploaded(k) # {} /\ Uploaded(k)' = {}
        => \E c \in Clients :
            \/ driverCall[c] = NoCall /\ driverCall'[c].op = "remove"
            \/ /\ InCall(c, "confirm", "read") /\ InCall(c, "confirm", "forget")'
               /\ ~Present(driverCall[c].doc)

\* Only a transaction that deletes rows can take a kind its document, and that of a
\* confirmation leaves its own document uploaded if the row is there.
LEMMA TakersAreKnown ==
    ASSUME DocumentInv, [DriverNext]_driverVars
    PROVE  KnownTaker
  <1>a. ASSUME UNCHANGED documents PROVE KnownTaker
    BY <1>a DEF KnownTaker, Uploaded, DocumentIds
  <1>b. ASSUME NEW c \in Clients, NEW call, Call(c, call) PROVE driverCall'[c] = call
    BY <1>b DEF DocumentInv, DocumentShape, Call, Now
  <1>1. CASE UNCHANGED driverVars
    BY <1>a, <1>1 DEF driverVars
  <1>2. CASE PresignDocument
    <2>1. \A k : Uploaded(k)' = Uploaded(k)
      BY <1>2, AddingDocument
    <2> QED
      BY <2>1 DEF KnownTaker
  <1>3. ASSUME NEW d \in DocumentIds, UploadDocument(d) PROVE KnownTaker
    BY <1>a, <1>3 DEF UploadDocument
  <1>4. ASSUME NEW c \in Clients, DriverHandler(c) PROVE KnownTaker
    <2>1. CASE ConfirmDocument(c)
      <3>0. PICK call, stale, kind : /\ call = driverCall[c] /\ stale = Superseded(call.doc)
                                     /\ kind = documents[call.doc].kind
        OBVIOUS
      <3> DEFINE next == [op |-> "confirm", at |-> "forget", keys |-> stale]
      <3>1. next.op = "confirm" /\ next.at = "forget" /\ Call(c, next)
        BY <2>1, <3>0 DEF ConfirmDocument
      <3> HIDE DEF next
      <3>2. /\ Present(call.doc) => call.doc \in Uploaded(kind)'
            /\ \A k : k # kind => Uploaded(k)' = Uploaded(k)
        BY <2>1, <3>0, Confirming
      <3>3. InCall(c, "confirm", "read") /\ InCall(c, "confirm", "forget")'
        BY <1>b, <2>1, <3>1 DEF ConfirmDocument, InCall
      <3>4. CASE Present(call.doc)
        BY <3>2, <3>4 DEF KnownTaker
      <3>5. CASE ~Present(call.doc)
        BY <3>0, <3>3, <3>5 DEF KnownTaker
      <3> QED
        BY <3>4, <3>5
    <2>2. CASE RemoveDocument(c)
      <3>1. PICK d \in DocumentIds, at \in {"reset", "forget"} :
                Call(c, [op |-> "remove", doc |-> d, at |-> at]) /\ driverCall[c] = NoCall
        BY <2>2 DEF RemoveDocument
      <3> DEFINE next == [op |-> "remove", doc |-> d, at |-> at]
      <3>2. next.op = "remove" /\ Call(c, next)
        BY <3>1
      <3> HIDE DEF next
      <3>3. driverCall'[c] = next
        BY <1>b, <3>2
      <3> QED
        BY <3>1, <3>2, <3>3 DEF KnownTaker
    <2>3. CASE \/ ReadDocument(c) \/ ForgetReplaced(c) \/ ResetDeposit(c) \/ ForgetDocument(c)
               \/ ReadDriver(c) \/ ReturnGate(c) \/ WriteDriver(c) \/ AbortDriverCall(c)
      BY <1>a, <2>3 DEF ReadDocument, ForgetReplaced, ResetDeposit, ForgetDocument,
                        ReadDriver, ReturnGate, WriteDriver, AbortDriverCall
    <2> QED
      BY <1>4, <2>1, <2>2, <2>3 DEF DriverHandler
  <1> QED
    BY <1>1, <1>2, <1>3, <1>4 DEF DriverNext

\* However the requests of any number of clients overtake each other or are cut off,
\* a kind loses its last uploaded document only to remove() or to a confirmation
\* whose own row was deleted after it was read (confirm and remove).
THEOREM ConfirmationsKeepOne == DriverSpec => ConfirmKeepsOne
  <1>1. DocumentInv /\ [DriverNext]_driverVars => DocumentInv' /\ [KnownTaker]_driverVars
    BY DocumentsGoOn, TakersAreKnown
  <1>2. DriverSpec => [][KnownTaker]_driverVars
    BY <1>1, DocumentsStart, PTL DEF DriverSpec
  <1> QED
    BY <1>2 DEF ConfirmKeepsOne, KnownTaker

-----------------------------------------------------------------------------
(* The deposit, with requests one at a time *)

\* Requests come one at a time: the next one begins after the answer.
OneAtATime == \A c, d \in Clients : c = d

\* The document a confirmation has read is still there.
ConfirmInv ==
    /\ DocumentInv
    /\ \A c \in Clients : InCall(c, "confirm", "read") => Present(driverCall[c].doc)

\* A return that was admitted is that of a resigned driver, and its proof has been
\* found; undoing the resignation takes the return along.
Admitted(call) ==
    /\ call.op = "patch" =>
        /\ call.patch.deposit \in {"none", "approved", Keep}
        /\ call.patch.resigned \in {"yes", "no", Keep}
        /\ call.patch.deposit = "approved" =>
            \/ call.patch.resigned = "yes"
            \/ call.patch.resigned = Keep /\ resigned
        /\ call.patch.resigned = "no" => call.patch.deposit = "none"
    /\ call.op = "patch" /\ call.at = "write" /\ call.patch.deposit = "approved" =>
        Uploaded(ReturnProof) # {}

GroundsInv ==
    /\ ConfirmInv
    /\ deposit \in {"none", "approved"} /\ resigned \in BOOLEAN
    /\ \A c \in Clients : Admitted(driverCall[c])
    /\ ReturnedHasGrounds

\* What moves is the only handler.
LEMMA OnlyHandlerMoves ==
    ASSUME OneAtATime, DocumentInv, NEW c \in Clients, NEW call, Call(c, call)
    PROVE  driverCall'[c] = call /\ \A d \in Clients : d = c
  BY DEF OneAtATime, DocumentInv, DocumentShape, Call, Now

\* With one request at a time, what a confirmation has read stays until it acts on it.
LEMMA ConfirmGoesOn ==
    ASSUME OneAtATime, ConfirmInv, [DriverNext]_driverVars
    PROVE  ConfirmInv'
  <1>0. DocumentInv /\ DocumentInv'
    BY DocumentsGoOn DEF ConfirmInv
  <1>1. CASE UNCHANGED driverVars
    BY <1>0, <1>1 DEF driverVars, ConfirmInv, InCall, Present
  <1>2. CASE PresignDocument
    <2>1. /\ \A d \in DocumentIds : documents'[d] = documents[d]
          /\ UNCHANGED driverCall
      BY <1>0, <1>2, AddingDocument DEF PresignDocument
    <2>2. \A c \in Clients : InCall(c, "confirm", "read") => driverCall[c].doc \in DocumentIds
      BY <1>0 DEF DocumentInv, Recalls, InCall
    <2> QED
      BY <1>0, <2>1, <2>2 DEF ConfirmInv, InCall, Present
  <1>3. ASSUME NEW d \in DocumentIds, UploadDocument(d) PROVE ConfirmInv'
    BY <1>0, <1>3 DEF UploadDocument, ConfirmInv, InCall, Present
  <1>4. ASSUME NEW c \in Clients, DriverHandler(c) PROVE ConfirmInv'
    <2>a. PICK call : call = driverCall[c]
      OBVIOUS
    <2>b. ASSUME NEW next, Call(c, next), ~(next.op = "confirm" /\ next.at = "read")
          PROVE  ConfirmInv'
      <3>1. driverCall'[c] = next /\ \A d \in Clients : d = c
        BY <1>0, <2>b, OnlyHandlerMoves
      <3> QED
        BY <1>0, <2>b, <3>1 DEF ConfirmInv, InCall
    <2>c. ASSUME Respond(c) PROVE ConfirmInv'
      <3>1. PICK next : next = NoCall
        OBVIOUS
      <3>2. Call(c, next) /\ next.op = "none"
        BY <2>c, <3>1, NothingRecalled DEF Respond
      <3> QED
        BY <2>b, <3>2
    <2>1. CASE ReadDocument(c)
      <3>1. PICK d \in DocumentIds, mark \in BOOLEAN :
                /\ Present(d) /\ UNCHANGED documents
                /\ Call(c, [op |-> "confirm", at |-> "read", doc |-> d, mark |-> mark])
        BY <2>1 DEF ReadDocument
      <3> DEFINE next == [op |-> "confirm", at |-> "read", doc |-> d, mark |-> mark]
      <3>2. next.doc = d /\ Call(c, next)
        BY <3>1
      <3> HIDE DEF next
      <3>3. driverCall'[c] = next /\ \A e \in Clients : e = c
        BY <1>0, <3>2, OnlyHandlerMoves
      <3> QED
        BY <1>0, <3>1, <3>2, <3>3 DEF ConfirmInv, Present
    <2>2. CASE ConfirmDocument(c)
      <3>0. PICK stale, kind : stale = Superseded(call.doc) /\ kind = documents[call.doc].kind
        OBVIOUS
      <3> DEFINE next == [op |-> "confirm", at |-> "forget", keys |-> stale]
      <3>1. next.at = "forget" /\ Call(c, next)
        BY <2>a, <2>2, <3>0 DEF ConfirmDocument
      <3> HIDE DEF next
      <3> QED
        BY <2>b, <3>1
    <2>3. CASE RemoveDocument(c)
      <3>1. PICK d \in DocumentIds, at \in {"reset", "forget"} :
                Call(c, [op |-> "remove", doc |-> d, at |-> at]) /\ driverCall[c] = NoCall
        BY <2>3 DEF RemoveDocument
      <3> DEFINE next == [op |-> "remove", doc |-> d, at |-> at]
      <3>2. next.op = "remove" /\ Call(c, next)
        BY <3>1
      <3> HIDE DEF next
      <3> QED
        BY <2>b, <3>2
    <2>4. CASE ResetDeposit(c)
      <3> DEFINE next == [call EXCEPT !.at = "forget"]
      <3>1. call.op = "remove" /\ Call(c, next) /\ UNCHANGED documents
        BY <2>a, <2>4 DEF ResetDeposit, InCall
      <3>2. next.op = "remove"
        BY <3>1
      <3> HIDE DEF next
      <3> QED
        BY <2>b, <3>1, <3>2
    <2>5. CASE ReadDriver(c)
      <3>1. PICK at, patch : /\ Call(c, [op |-> "patch", at |-> at, patch |-> patch])
                             /\ UNCHANGED documents
        BY <2>5 DEF ReadDriver
      <3> DEFINE next == [op |-> "patch", at |-> at, patch |-> patch]
      <3>2. next.op = "patch" /\ Call(c, next)
        BY <3>1
      <3> HIDE DEF next
      <3> QED
        BY <2>b, <3>1, <3>2
    <2>6. CASE ReturnGate(c)
      <3> DEFINE next == [call EXCEPT !.at = "write"]
      <3>1. /\ call.op = "patch" /\ UNCHANGED documents
            /\ Call(c, next) \/ Respond(c)
        BY <2>a, <2>6 DEF ReturnGate, InCall
      <3>2. next.op = "patch"
        BY <3>1
      <3> HIDE DEF next
      <3> QED
        BY <2>b, <2>c, <3>1, <3>2
    <2>7. CASE \/ ForgetReplaced(c) \/ ForgetDocument(c) \/ WriteDriver(c) \/ AbortDriverCall(c)
      BY <2>c, <2>7 DEF ForgetReplaced, ForgetDocument, WriteDriver, AbortDriverCall
    <2> QED
      BY <1>4, <2>1, <2>2, <2>3, <2>4, <2>5, <2>6, <2>7 DEF DriverHandler
  <1> QED
    BY <1>1, <1>2, <1>3, <1>4 DEF DriverNext

LEMMA ConfirmStarts == DriverInit => ConfirmInv
  <1>1. DriverInit => \A c \in Clients : driverCall[c] = NoCall /\ NoCall.op = "none"
    BY DEF DriverInit, NoCall
  <1> QED
    BY <1>1, DocumentsStart DEF ConfirmInv, InCall

\* A step that leaves uploaded documents, the lifecycle and the kind of call alone.
LEMMA GroundsStay ==
    ASSUME OneAtATime, GroundsInv, ConfirmInv', UNCHANGED <<resigned, deposit>>,
           Uploaded(ReturnProof) # {} => Uploaded(ReturnProof)' # {},
           \/ UNCHANGED driverCall
           \/ \E c \in Clients : /\ driverCall'[c].op # "patch" /\ ~InCall(c, "remove", "reset")
                                 /\ \A d \in Clients : d = c
    PROVE  GroundsInv'
  <1>1. ReturnedHasGrounds'
    BY DEF GroundsInv, ReturnedHasGrounds, InCall
  <1>2. \A c \in Clients : Admitted(driverCall[c])'
    <2>1. CASE UNCHANGED driverCall
      <3>1. ASSUME NEW c \in Clients PROVE Admitted(driverCall[c])'
        <4>1. Admitted(driverCall[c]) /\ driverCall'[c] = driverCall[c]
          BY <2>1 DEF GroundsInv
        <4> QED
          BY <4>1 DEF Admitted
      <3> QED
        BY <3>1
    <2>2. CASE \E c \in Clients : driverCall'[c].op # "patch" /\ \A d \in Clients : d = c
      BY <2>2 DEF Admitted
    <2> QED
      BY <2>1, <2>2
  <1> QED
    BY <1>1, <1>2 DEF GroundsInv

LEMMA GroundsGoOn ==
    ASSUME OneAtATime, ~MayBeCut, GroundsInv, [DriverNext]_driverVars
    PROVE  GroundsInv'
  <1>0. ConfirmInv /\ DocumentInv /\ ConfirmInv'
    BY ConfirmGoesOn DEF GroundsInv, ConfirmInv
  <1>1. CASE UNCHANGED driverVars
    BY <1>0, <1>1, GroundsStay DEF driverVars, Uploaded, DocumentIds
  <1>2. CASE PresignDocument
    <2>1. \A k : Uploaded(k)' = Uploaded(k)
      BY <1>0, <1>2, AddingDocument
    <2>2. UNCHANGED <<resigned, deposit, driverCall>>
      BY <1>2 DEF PresignDocument
    <2> QED
      BY <1>0, <2>1, <2>2, GroundsStay
  <1>3. ASSUME NEW d \in DocumentIds, UploadDocument(d) PROVE GroundsInv'
    BY <1>0, <1>3, GroundsStay DEF UploadDocument, Uploaded, DocumentIds
  <1>4. ASSUME NEW c \in Clients, DriverHandler(c) PROVE GroundsInv'
    <2>a. PICK call : call = driverCall[c]
      OBVIOUS
    <2>0. Admitted(call)
      BY <2>a DEF GroundsInv
    <2>b. ASSUME NEW next, Call(c, next), next.op # "patch", ~InCall(c, "remove", "reset"),
                 UNCHANGED <<resigned, deposit>>,
                 Uploaded(ReturnProof) # {} => Uploaded(ReturnProof)' # {}
          PROVE  GroundsInv'
      <3>1. driverCall'[c] = next /\ \A d \in Clients : d = c
        BY <1>0, <2>b, OnlyHandlerMoves
      <3> QED
        BY <1>0, <2>b, <3>1, GroundsStay
    <2>c. ASSUME Respond(c), ~InCall(c, "remove", "reset"), UNCHANGED <<documents, resigned, deposit>>
          PROVE  GroundsInv'
      <3>1. PICK next : next = NoCall
        OBVIOUS
      <3>2. Call(c, next) /\ next.op # "patch"
        BY <2>c, <3>1, NothingRecalled DEF Respond
      <3> QED
        BY <2>b, <2>c, <3>2 DEF Uploaded, DocumentIds
    <2>1. CASE ReadDocument(c)
      <3>1. PICK d \in DocumentIds, mark \in BOOLEAN :
                /\ driverCall[c] = NoCall /\ UNCHANGED <<documents, resigned, deposit>>
                /\ Call(c, [op |-> "confirm", at |-> "read", doc |-> d, mark |-> mark])
        BY <2>1 DEF ReadDocument
      <3> DEFINE next == [op |-> "confirm", at |-> "read", doc |-> d, mark |-> mark]
      <3>2. next.op # "patch" /\ Call(c, next)
        BY <3>1
      <3>3. ~InCall(c, "remove", "reset")
        BY <3>1, NothingRecalled DEF InCall
      <3> HIDE DEF next
      <3> QED
        BY <2>b, <3>1, <3>2, <3>3 DEF Uploaded, DocumentIds
    <2>2. CASE ConfirmDocument(c)
      <3>0. PICK stale, kind : stale = Superseded(call.doc) /\ kind = documents[call.doc].kind
        OBVIOUS
      <3> DEFINE next == [op |-> "confirm", at |-> "forget", keys |-> stale]
      <3>1. next.op # "patch" /\ Call(c, next) /\ UNCHANGED <<resigned, deposit>>
        BY <2>a, <2>2, <3>0 DEF ConfirmDocument
      <3>2. /\ Present(call.doc) => call.doc \in Uploaded(kind)'
            /\ \A k : k # kind => Uploaded(k)' = Uploaded(k)
        BY <1>0, <2>a, <2>2, <3>0, Confirming
      <3>3. Present(call.doc) /\ ~InCall(c, "remove", "reset")
        BY <1>0, <2>a, <2>2 DEF ConfirmInv, ConfirmDocument, InCall
      <3> HIDE DEF next
      <3> QED
        BY <2>b, <3>1, <3>2, <3>3
    <2>3. CASE RemoveDocument(c)
      <3>1. PICK d \in DocumentIds, at \in {"reset", "forget"} :
                /\ documents' = DropDocuments({d})
                /\ UNCHANGED <<documentObjects, resigned, deposit>>
                /\ at = IF documents[d].kind = ReturnProof THEN "reset" ELSE "forget"
                /\ Call(c, [op |-> "remove", doc |-> d, at |-> at]) /\ driverCall[c] = NoCall
        BY <2>3 DEF RemoveDocument
      <3>2. PICK ids : ids = {d}
        OBVIOUS
      <3>3. \A k : Uploaded(k)' = Uploaded(k) \ ids
        BY <1>0, <3>1, <3>2, DroppingDocuments
      <3> DEFINE next == [op |-> "remove", doc |-> d, at |-> at]
      <3>4. next.op = "remove" /\ next.at = at /\ Call(c, next)
        BY <3>1
      <3>5. ~InCall(c, "remove", "reset")
        BY <3>1, NothingRecalled DEF InCall
      <3> HIDE DEF next
      <3>6. CASE at = "forget"
        <4>1. Uploaded(ReturnProof)' = Uploaded(ReturnProof)
          BY <3>1, <3>2, <3>3, <3>6 DEF Uploaded
        <4> QED
          BY <2>b, <3>1, <3>4, <3>5, <4>1
      <3>7. CASE at = "reset"
        <4>1. driverCall'[c] = next /\ \A e \in Clients : e = c
          BY <1>0, <3>4, OnlyHandlerMoves
        <4>2. InCall(c, "remove", "reset")'
          BY <3>4, <3>7, <4>1 DEF InCall
        <4>3. ReturnedHasGrounds'
          BY <3>1, <4>2 DEF GroundsInv, ReturnedHasGrounds
        <4>4. \A e \in Clients : Admitted(driverCall[e])'
          BY <3>4, <4>1 DEF Admitted
        <4> QED
          BY <1>0, <3>1, <4>3, <4>4 DEF GroundsInv
      <3> QED
        BY <3>1, <3>6, <3>7
    <2>4. CASE ResetDeposit(c)
      <3> DEFINE next == [call EXCEPT !.at = "forget"]
      <3>1. /\ call.op = "remove" /\ Call(c, next) /\ UNCHANGED resigned /\ deposit' = "none"
        BY <2>a, <2>4 DEF ResetDeposit, InCall
      <3>2. next.op = "remove"
        BY <3>1
      <3> HIDE DEF next
      <3>3. driverCall'[c] = next /\ \A e \in Clients : e = c
        BY <1>0, <3>1, OnlyHandlerMoves
      <3>4. \A e \in Clients : Admitted(driverCall[e])'
        BY <3>2, <3>3 DEF Admitted
      <3> QED
        BY <1>0, <3>1, <3>4 DEF GroundsInv, ReturnedHasGrounds
    <2>5. CASE ReadDriver(c)
      <3>1. PICK resign \in Answers, returned \in Answers :
                /\ ~Refused(resigned, resign, returned)
                /\ Call(c, [op |-> "patch", at |-> IF returned = "yes" THEN "gate" ELSE "write",
                            patch |-> Patch(resign, returned)])
                /\ driverCall[c] = NoCall
                /\ UNCHANGED <<documents, resigned, deposit>>
        BY <2>5 DEF ReadDriver
      <3> DEFINE patch == Patch(resign, returned)
                 next == [op |-> "patch", at |-> IF returned = "yes" THEN "gate" ELSE "write",
                          patch |-> patch]
      <3>2. /\ next.patch = patch /\ Call(c, next)
            /\ returned = "yes" => next.at = "gate"
        BY <3>1
      <3>3. /\ patch.deposit \in {"none", "approved", Keep} /\ patch.resigned = resign
            /\ resign = "no" => patch.deposit = "none"
            /\ patch.deposit = "approved" => returned = "yes" /\ resign # "no"
        BY DEF Patch, Keep
      <3>4. /\ returned = "yes" => resign # "no" /\ (resign = Keep => resigned)
            /\ resign \in {"yes", "no", Keep}
        BY <3>1 DEF Refused, Answers, Keep
      <3> HIDE DEF next, patch
      <3>5. driverCall'[c] = next /\ \A e \in Clients : e = c
        BY <1>0, <3>2, OnlyHandlerMoves
      <3>6. Admitted(next)'
        BY <3>1, <3>2, <3>3, <3>4 DEF Admitted
      <3>7. ReturnedHasGrounds'
        <4>1. ~InCall(c, "remove", "reset")
          BY <3>1, NothingRecalled DEF InCall
        <4> QED
          BY <3>1, <3>5, <4>1 DEF GroundsInv, ReturnedHasGrounds, Uploaded, DocumentIds
      <3>8. \A e \in Clients : Admitted(driverCall[e])'
        BY <3>5, <3>6
      <3> QED
        BY <1>0, <3>1, <3>7, <3>8 DEF GroundsInv
    <2>6. CASE ReturnGate(c)
      <3> DEFINE next == [call EXCEPT !.at = "write"]
      <3>1. /\ call.op = "patch" /\ call.at = "gate" /\ UNCHANGED <<documents, resigned, deposit>>
            /\ \/ Call(c, next) /\ Uploaded(ReturnProof) # {}
               \/ Respond(c)
        BY <2>a, <2>6 DEF ReturnGate, InCall
      <3>2. ~InCall(c, "remove", "reset")
        BY <2>a, <3>1 DEF InCall
      <3>3. next.op = "patch" /\ next.patch = call.patch
        BY <3>1
      <3> HIDE DEF next
      <3>4. CASE Call(c, next) /\ Uploaded(ReturnProof) # {}
        <4>1. driverCall'[c] = next /\ \A e \in Clients : e = c
          BY <1>0, <3>4, OnlyHandlerMoves
        <4>2. Uploaded(ReturnProof)' = Uploaded(ReturnProof)
          BY <3>1 DEF Uploaded, DocumentIds
        <4>3. Admitted(next)'
          BY <2>0, <3>1, <3>3, <3>4, <4>2 DEF Admitted
        <4>4. ReturnedHasGrounds'
          BY <3>1, <3>4, <4>2 DEF GroundsInv, ReturnedHasGrounds
        <4>5. \A e \in Clients : Admitted(driverCall[e])'
          BY <4>1, <4>3
        <4> QED
          BY <1>0, <3>1, <4>4, <4>5 DEF GroundsInv
      <3> QED
        BY <2>c, <3>1, <3>2, <3>4
    <2>7. CASE WriteDriver(c)
      <3>1. /\ call.op = "patch" /\ call.at = "write" /\ UNCHANGED documents /\ Respond(c)
            /\ resigned' = IF call.patch.resigned = Keep THEN resigned ELSE call.patch.resigned = "yes"
            /\ deposit' = IF call.patch.deposit = Keep THEN deposit ELSE call.patch.deposit
        BY <2>a, <2>7 DEF WriteDriver, InCall
      <3>2. PICK next : next = NoCall
        OBVIOUS
      <3>3. Call(c, next) /\ next.op = "none"
        BY <3>1, <3>2, NothingRecalled DEF Respond
      <3>4. driverCall'[c] = next /\ \A e \in Clients : e = c
        BY <1>0, <3>3, OnlyHandlerMoves
      <3>5. Uploaded(ReturnProof)' = Uploaded(ReturnProof)
        BY <3>1 DEF Uploaded, DocumentIds
      <3>6. \A e \in Clients : Admitted(driverCall[e])'
        BY <3>3, <3>4 DEF Admitted
      <3>7. deposit' \in {"none", "approved"} /\ resigned' \in BOOLEAN
        BY <2>0, <3>1 DEF Admitted, GroundsInv, Keep
      <3>8. ASSUME deposit' = "approved" PROVE resigned' /\ Uploaded(ReturnProof)' # {}
        <4>1. CASE call.patch.deposit = Keep
          <5>1. deposit = "approved" /\ call.patch.resigned # "no"
            BY <2>0, <3>1, <3>8, <4>1 DEF Admitted, Keep
          <5>2. \A e \in Clients : ~InCall(e, "remove", "reset")
            BY <2>a, <3>1, <3>4 DEF InCall
          <5>3. resigned /\ Uploaded(ReturnProof) # {}
            BY <5>1, <5>2 DEF GroundsInv, ReturnedHasGrounds
          <5> QED
            BY <2>0, <3>1, <3>5, <5>1, <5>3 DEF Admitted
        <4>2. CASE call.patch.deposit # Keep
          <5>1. call.patch.deposit = "approved"
            BY <3>1, <3>8, <4>2
          <5> QED
            BY <2>0, <3>1, <3>5, <5>1 DEF Admitted, Keep
        <4> QED
          BY <4>1, <4>2
      <3>9. ReturnedHasGrounds'
        BY <3>8 DEF ReturnedHasGrounds
      <3> QED
        BY <1>0, <3>6, <3>7, <3>9 DEF GroundsInv
    <2>8. CASE ForgetReplaced(c) \/ ForgetDocument(c)
      <3>1. Respond(c) /\ ~InCall(c, "remove", "reset") /\ UNCHANGED <<documents, resigned, deposit>>
        BY <2>8 DEF ForgetReplaced, ForgetDocument, InCall
      <3> QED
        BY <2>c, <3>1
    <2>9. ~AbortDriverCall(c)
      BY DEF AbortDriverCall
    <2> QED
      BY <1>4, <2>1, <2>2, <2>3, <2>4, <2>5, <2>6, <2>7, <2>8, <2>9 DEF DriverHandler
  <1> QED
    BY <1>1, <1>2, <1>3, <1>4 DEF DriverNext

\* With requests one at a time, each run to its end, a deposit marked returned is
\* that of a resigned driver and has the proof of the return uploaded (updateDriver,
\* lifecyclePatch, remove).
THEOREM ReturnsHaveGrounds ==
    ASSUME OneAtATime, ~MayBeCut
    PROVE  DriverSpec => []ReturnedHasGrounds
  <1>1. DriverInit => GroundsInv
    <2>1. DriverInit => \A c \in Clients : driverCall[c] = NoCall /\ NoCall.op = "none"
      BY DEF DriverInit, NoCall
    <2>2. DriverInit => deposit = "none" /\ resigned = FALSE
      BY DEF DriverInit
    <2> QED
      BY <2>1, <2>2, ConfirmStarts DEF GroundsInv, Admitted, ReturnedHasGrounds
  <1>2. GroundsInv /\ [DriverNext]_driverVars => GroundsInv'
    BY GroundsGoOn
  <1>3. GroundsInv => ReturnedHasGrounds
    BY DEF GroundsInv
  <1> QED
    BY <1>1, <1>2, <1>3, PTL DEF DriverSpec

-----------------------------------------------------------------------------
(***************************************************************************)
(* The roster of drivers.  A pass reads and writes in several statements,  *)
(* and what it has read is stale once an import falls in between; but the  *)
(* first pass that begins after the last change and runs alone finds and   *)
(* leaves the truth (LoneInv), and the passes after it read the same data  *)
(* (FreshInv), so they only write what is already there (TrustInv).        *)
(***************************************************************************)

\* What a pass would read now, and what the roster should show.
SeenNow    == [p \in Platforms |-> [n \in Names |-> LastSeen(p, n, fleet)]]
HorizonNow == [p \in Platforms |-> Horizon(p)]
KnownNow   == Known(SeenNow)
Due        == [n \in Names |-> ExitDate(SeenNow, HorizonNow, n)]

Stages    == {"idle", "seen", "code", "horizon", "stamp", "create"}
SeenDays  == [Platforms -> [Names -> 0..LastImportDay]]
DriverRow == [exited : 0..LastImportDay, coded : BOOLEAN]
PassState == [at : Stages, plates : SUBSET FleetPlates, todo : SUBSET Platforms,
              seen : SeenDays, new : SUBSET Names, edge : [Platforms -> 0..LastImportDay],
              stamp : SUBSET [name : Names, day : Days]]

SyncShape ==
    /\ imported \subseteq ImportedRows
    /\ fleet \subseteq FleetPlates
    /\ roster \in [Names -> DriverRow \cup {NotListed}]
    /\ pass \in [Readers -> PassState]
    /\ lone \subseteq Readers
    /\ trusted \in BOOLEAN
    /\ abandoned \subseteq Names

\* A driver without a code is one a request is about to give it to, or was.
CodesInv ==
    /\ \A c \in Readers : /\ pass[c].new \subseteq Listed
                          /\ pass[c].at \notin {"code", "create"} => pass[c].new = {}
    /\ \A n \in Listed : \/ roster[n].coded
                         \/ n \in abandoned
                         \/ \E c \in Readers : n \in pass[c].new

\* What a pass has read is still so.
Reads(c) ==
    /\ pass[c].at = "seen" =>
           /\ pass[c].plates = fleet
           /\ \A p \in Platforms : p \in pass[c].todo \/ pass[c].seen[p] = SeenNow[p]
    /\ pass[c].at \in {"code", "horizon"} =>
           /\ pass[c].seen = SeenNow
           /\ \A p \in Asked(SeenNow) : p \in pass[c].todo \/ pass[c].edge[p] = HorizonNow[p]
    /\ pass[c].at = "stamp" =>
           \A e \in pass[c].stamp : e.name \in KnownNow /\ e.day = Due[e.name]

\* How far a pass has brought the roster.
Done(c) ==
    /\ pass[c].at \in {"code", "horizon", "stamp"} => KnownNow \subseteq Listed
    /\ pass[c].at = "stamp" =>
           \A n \in KnownNow : \/ roster[n].exited = Due[n]
                               \/ [name |-> n, day |-> Due[n]] \in pass[c].stamp

\* The first pass after a change runs alone, until another one begins.
LoneInv ==
    \A c \in lone :
        /\ pass[c].at \in {"seen", "code", "horizon", "stamp"}
        /\ ~trusted => /\ Done(c)
                       /\ \A o \in Readers \ {c} : pass[o].at = "idle"

FreshInv == \A c \in Readers : trusted \/ c \in lone => Reads(c)

TrustInv ==
    trusted => /\ \A n \in KnownNow : n \in Listed /\ roster[n].exited = Due[n]
               /\ \A c \in Readers : pass[c].at \notin {"code", "create"}

TruthInv == LoneInv /\ FreshInv /\ TrustInv

RosterInv == SyncShape /\ CodesInv /\ TruthInv

\* The newest of some days is one of them; there is none when there are none.
LEMMA LatestIs ==
    ASSUME NEW S, S \subseteq 0..LastImportDay
    PROVE  Latest(S) \in 0..LastImportDay /\ (Latest(S) # 0 => Latest(S) \in S)
<1>1. CASE S = {}
  BY <1>1, SyncAssumption DEF Latest
<1>2. CASE S # {}
  <2>1. IsFiniteSet(0..LastImportDay)
    BY SyncAssumption, FS_Interval
  <2>2. IsFiniteSet(S)
    BY <2>1, FS_Subset
  <2>3. PICK x \in S : \A y \in S : y <= x
    <3>1. S \subseteq Int
      BY SyncAssumption
    <3> QED
      BY <1>2, <2>2, <3>1, GreatestExists
  <2>4. Max(S) \in S
    BY <2>3, SyncAssumption DEF Max
  <2> QED
    BY <1>2, <2>4 DEF Latest
<1> QED
  BY <1>1, <1>2

LEMMA NowType ==
    ASSUME SyncShape
    PROVE  SeenNow \in SeenDays /\ HorizonNow \in [Platforms -> 0..LastImportDay]
<1>1. ASSUME NEW p \in Platforms, NEW n \in Names PROVE LastSeen(p, n, fleet) \in 0..LastImportDay
  BY LatestIs, SyncAssumption DEF LastSeen, SyncShape, ImportedRows, Days
<1>2. ASSUME NEW p \in Platforms PROVE Horizon(p) \in 0..LastImportDay
  BY LatestIs, SyncAssumption DEF Horizon, SyncShape, ImportedRows, Days
<1> QED
  BY <1>1, <1>2 DEF SeenNow, HorizonNow, SeenDays

\* An exit date is a day, or none.
LEMMA ExitType ==
    ASSUME NEW seen \in SeenDays, NEW edge, NEW n \in Names
    PROVE  ExitDate(seen, edge, n) \in 0..LastImportDay
<1> DEFINE on == {p \in Platforms : seen[p][n] # 0}
           S == {seen[p][n] : p \in on}
<1>1. S \subseteq 0..LastImportDay
  BY DEF SeenDays
<1> HIDE DEF S
<1>2. Latest(S) \in 0..LastImportDay
  BY <1>1, LatestIs
<1> QED
  BY <1>2, SyncAssumption DEF ExitDate, S

\* Only the platforms that know a driver bear on the exit.
LEMMA ExitFollows ==
    ASSUME NEW edge, \A p \in Asked(SeenNow) : edge[p] = HorizonNow[p], NEW n \in Names
    PROVE  ExitDate(SeenNow, edge, n) = Due[n]
BY DEF ExitDate, Asked, Due

LEMMA NowKeeps ==
    ASSUME UNCHANGED <<imported, fleet>>
    PROVE  SeenNow' = SeenNow /\ HorizonNow' = HorizonNow /\ KnownNow' = KnownNow /\ Due' = Due
<1>1. SeenNow' = SeenNow /\ HorizonNow' = HorizonNow
  BY DEF SeenNow, HorizonNow, LastSeen, Horizon
<1> QED
  BY <1>1 DEF KnownNow, Due, Known, ExitDate

LEMMA ListedIs ==
    ASSUME SyncShape, NEW n \in Names
    PROVE  (n \in Listed <=> roster[n] \in DriverRow) /\ (n \notin Listed <=> roster[n] = NotListed)
BY SyncAssumption DEF SyncShape, Listed, DriverRow

LEMMA RowsDiffer ==
    /\ [exited |-> 0, coded |-> FALSE] \in DriverRow
    /\ NotListed \notin DriverRow
<1>1. DriverRow \subseteq [exited : Nat, coded : BOOLEAN]
  BY SyncAssumption DEF DriverRow
<1> QED
  BY <1>1, SyncAssumption DEF DriverRow

\* Every statement of a pass is about the state of one pass.
LEMMA PassOf ==
    ASSUME SyncShape, NEW c \in Readers
    PROVE  /\ pass[c] \in PassState /\ Resting \in PassState
           /\ NotSeen \in SeenDays
BY SyncAssumption DEF SyncShape, PassState, Resting, NotSeen, Stages, SeenDays

-----------------------------------------------------------------------------
(* The shape *)

LEMMA ExitsAre ==
    ASSUME SyncShape, NEW c \in Readers
    PROVE  Exits(c) \subseteq [name : Names, day : Days] /\ Known(pass[c].seen) \subseteq Names
BY DEF Exits, Known

\* A step that puts one pass in another state.
LEMMA OnePassGoes ==
    ASSUME SyncShape, NEW c \in Readers, NEW how \in PassState, Goes(c, how)
    PROVE  /\ pass' \in [Readers -> PassState]
           /\ pass'[c] = how
           /\ \A o \in Readers \ {c} : pass'[o] = pass[o]
BY DEF SyncShape, Goes

LEMMA ShapeKeeps ==
    ASSUME SyncShape, CodesInv, [SyncNext]_syncVars
    PROVE  SyncShape'
<1>0. /\ imported \subseteq ImportedRows /\ fleet \subseteq FleetPlates
      /\ roster \in [Names -> DriverRow \cup {NotListed}] /\ pass \in [Readers -> PassState]
      /\ lone \subseteq Readers /\ trusted \in BOOLEAN /\ abandoned \subseteq Names
  BY DEF SyncShape
<1>1. ASSUME NEW c \in Readers, BeginPass(c) PROVE SyncShape'
  BY <1>0, <1>1, PassOf DEF SyncShape, BeginPass, Goes, PassState, Resting, Stages, Doing
<1>2. ASSUME NEW c \in Readers, NEW p \in Platforms, ReadCandidates(c, p) PROVE SyncShape'
  <2>1. [n \in Names |-> LastSeen(p, n, pass[c].plates)] \in [Names -> 0..LastImportDay]
    BY LatestIs, SyncAssumption DEF LastSeen, SyncShape, ImportedRows, Days
  <2> DEFINE found == [n \in Names |-> LastSeen(p, n, pass[c].plates)]
             how == [pass[c] EXCEPT !.todo = @ \ {p}, !.seen[p] = found]
  <2> HIDE DEF found
  <2>2. how \in PassState
    BY <2>1, PassOf DEF PassState, SeenDays, found
  <2>3. Goes(c, how)
    BY <1>2 DEF ReadCandidates, found
  <2> HIDE DEF how
  <2>4. pass' \in [Readers -> PassState]
    BY <2>2, <2>3, OnePassGoes
  <2> QED
    BY <1>0, <1>2, <2>4 DEF ReadCandidates, SyncShape
<1>3. ASSUME NEW c \in Readers, InsertNew(c) PROVE SyncShape'
  <2> DEFINE seen == pass[c].seen
             fresh == Known(seen) \ Listed
             how == [Resting EXCEPT !.at = IF fresh = {} THEN "horizon" ELSE "code",
                         !.seen = seen, !.new = fresh, !.todo = Asked(seen)]
  <2>1. seen \in SeenDays /\ Known(seen) \subseteq Names /\ Asked(seen) \subseteq Platforms
    BY PassOf DEF PassState, Known, Asked
  <2>2. how \in PassState
    BY <2>1, PassOf DEF PassState, Stages, Resting
  <2>3. CASE Known(seen) = {}
    <3>1. Goes(c, Resting) /\ UNCHANGED <<imported, fleet, roster, abandoned>>
          /\ lone' \subseteq Readers /\ trusted' \in BOOLEAN
      BY <1>0, <1>3, <2>3 DEF InsertNew, Over
    <3>2. pass' \in [Readers -> PassState]
      BY <3>1, PassOf, OnePassGoes
    <3> QED
      BY <1>0, <3>1, <3>2 DEF SyncShape
  <2>4. CASE Known(seen) # {}
    <3>1. Goes(c, how) /\ UNCHANGED <<imported, fleet, abandoned, lone, trusted>>
          /\ roster' = [n \in Names |-> IF n \in fresh THEN [exited |-> 0, coded |-> FALSE]
                                                       ELSE roster[n]]
      BY <1>3, <2>4 DEF InsertNew
    <3>2. roster' \in [Names -> DriverRow \cup {NotListed}]
      BY <1>0, <3>1, SyncAssumption DEF DriverRow
    <3> HIDE DEF how
    <3>3. pass' \in [Readers -> PassState]
      BY <2>2, <3>1, OnePassGoes
    <3> QED
      BY <1>0, <3>1, <3>2, <3>3 DEF SyncShape
  <2> QED
    BY <2>3, <2>4
<1>4. ASSUME NEW c \in Readers, GiveCodes(c) \/ CodeDriver(c) PROVE SyncShape'
  <2> DEFINE how == IF pass[c].at = "code" THEN [pass[c] EXCEPT !.at = "horizon", !.new = {}] ELSE Resting
  <2>1. Goes(c, how) /\ UNCHANGED <<imported, fleet, abandoned, lone, trusted>>
        /\ roster' = [n \in Names |-> IF n \in pass[c].new THEN [roster[n] EXCEPT !.coded = TRUE]
                                                           ELSE roster[n]]
    BY <1>4 DEF GiveCodes, CodeDriver, Doing
  <2>2. how \in PassState
    BY PassOf DEF PassState, Stages
  <2> HIDE DEF how
  <2>3. pass' \in [Readers -> PassState]
    BY <2>1, <2>2, OnePassGoes
  <2>4. \A n \in pass[c].new : roster[n] \in DriverRow
    BY PassOf, ListedIs DEF CodesInv, PassState
  <2>5. roster' \in [Names -> DriverRow \cup {NotListed}]
    BY <1>0, <2>1, <2>4 DEF DriverRow
  <2> QED
    BY <1>0, <2>1, <2>3, <2>5 DEF SyncShape
<1>5. ASSUME NEW c \in Readers, NEW p \in Platforms, ReadHorizon(c, p) PROVE SyncShape'
  <2> DEFINE how == [pass[c] EXCEPT !.todo = @ \ {p}, !.edge[p] = Horizon(p)]
  <2>1. Horizon(p) \in 0..LastImportDay
    BY NowType DEF HorizonNow
  <2>2. how \in PassState
    BY <2>1, PassOf DEF PassState
  <2>3. Goes(c, how)
    BY <1>5 DEF ReadHorizon
  <2> HIDE DEF how
  <2>4. pass' \in [Readers -> PassState]
    BY <2>2, <2>3, OnePassGoes
  <2> QED
    BY <1>0, <1>5, <2>4 DEF ReadHorizon, SyncShape
<1>6. ASSUME NEW c \in Readers, ClearExits(c) PROVE SyncShape'
  <2> DEFINE how == [Resting EXCEPT !.at = "stamp", !.stamp = Exits(c)]
             current == Known(pass[c].seen) \ Gone(c)
  <2>1. how \in PassState
    BY ExitsAre, PassOf DEF PassState, Stages
  <2>2. Goes(c, how) /\ UNCHANGED <<imported, fleet, abandoned, lone, trusted>>
        /\ roster' = [n \in Names |-> IF n \in current \cap Listed
                                      THEN [roster[n] EXCEPT !.exited = 0] ELSE roster[n]]
    BY <1>6 DEF ClearExits
  <2> HIDE DEF how, current
  <2>3. pass' \in [Readers -> PassState]
    BY <2>1, <2>2, OnePassGoes
  <2>4. roster' \in [Names -> DriverRow \cup {NotListed}]
    BY <1>0, <2>2, ListedIs, SyncAssumption DEF DriverRow
  <2> QED
    BY <1>0, <2>2, <2>3, <2>4 DEF SyncShape
<1>7. ASSUME NEW c \in Readers, NEW day \in Days, StampExits(c, day) PROVE SyncShape'
  <2> DEFINE today == {e \in pass[c].stamp : e.day = day}
             how == [pass[c] EXCEPT !.stamp = @ \ today]
  <2>1. how \in PassState
    BY PassOf DEF PassState
  <2>2. Goes(c, how) /\ UNCHANGED <<imported, fleet, abandoned, lone, trusted>>
        /\ roster' = [n \in Names |-> IF n \in Listed /\ \E e \in today : e.name = n
                                      THEN [roster[n] EXCEPT !.exited = day] ELSE roster[n]]
    BY <1>7 DEF StampExits
  <2> HIDE DEF how, today
  <2>3. pass' \in [Readers -> PassState]
    BY <2>1, <2>2, OnePassGoes
  <2>4. roster' \in [Names -> DriverRow \cup {NotListed}]
    BY <1>0, <2>2, ListedIs, SyncAssumption DEF DriverRow, Days
  <2> QED
    BY <1>0, <2>2, <2>3, <2>4 DEF SyncShape
<1>8. ASSUME NEW c \in Readers, EndPass(c) \/ CutPass(c) PROVE SyncShape'
  <2>1. Goes(c, Resting) /\ UNCHANGED <<imported, fleet, roster>>
        /\ lone' \subseteq Readers /\ trusted' \in BOOLEAN /\ abandoned' \subseteq Names
    BY <1>0, <1>8, PassOf DEF EndPass, CutPass, Over, PassState
  <2>2. pass' \in [Readers -> PassState]
    BY <2>1, PassOf, OnePassGoes
  <2> QED
    BY <1>0, <2>1, <2>2 DEF SyncShape
<1>9. ASSUME NEW c \in Readers, NEW n \in Names, CreateDriver(c, n) PROVE SyncShape'
  <2> DEFINE how == [Resting EXCEPT !.at = "create", !.new = {n}]
  <2>1. how \in PassState
    BY PassOf DEF PassState, Stages
  <2>2. pass' = [pass EXCEPT ![c] = how] /\ UNCHANGED <<imported, fleet, abandoned>>
        /\ lone' = {} /\ trusted' = FALSE
        /\ roster' = [roster EXCEPT ![n] = [exited |-> 0, coded |-> FALSE]]
    BY <1>9 DEF CreateDriver
  <2> HIDE DEF how
  <2>3. pass' \in [Readers -> PassState]
    BY <1>0, <2>1, <2>2
  <2>4. roster' \in [Names -> DriverRow \cup {NotListed}]
    BY <1>0, <2>2, SyncAssumption DEF DriverRow
  <2> QED
    BY <1>0, <2>2, <2>3, <2>4 DEF SyncShape
<1>10. ASSUME NEW r \in ImportedRows, ImportFleetRow(r) \/ DropFleetRow(r) PROVE SyncShape'
  BY <1>0, <1>10 DEF ImportFleetRow, DropFleetRow, Disturb, SyncShape
<1>11. ASSUME NEW plates \in SUBSET FleetPlates, ChangeFleet(plates) PROVE SyncShape'
  BY <1>0, <1>11 DEF ChangeFleet, Disturb, SyncShape
<1>12. ASSUME NEW n \in Names, NEW new \in Names, RenameDriver(n, new) PROVE SyncShape'
  <2>1. roster' \in [Names -> DriverRow \cup {NotListed}]
    BY <1>0, <1>12 DEF RenameDriver
  <2>2. ASSUME NEW c \in Readers
        PROVE  [pass[c] EXCEPT !.new = {IF m = n THEN new ELSE m : m \in pass[c].new}] \in PassState
    BY PassOf DEF PassState
  <2>3. pass' \in [Readers -> PassState]
    BY <1>12, <2>2 DEF RenameDriver
  <2>4. abandoned' \subseteq Names
    BY <1>0, <1>12 DEF RenameDriver
  <2> QED
    BY <1>0, <1>12, <2>1, <2>3, <2>4 DEF RenameDriver, SyncShape
<1>13. CASE UNCHANGED syncVars
  BY <1>0, <1>13 DEF syncVars, SyncShape
<1> QED
  BY <1>1, <1>2, <1>3, <1>4, <1>5, <1>6, <1>7, <1>8, <1>9, <1>10, <1>11, <1>12, <1>13
  DEF SyncNext, PassNext

-----------------------------------------------------------------------------
(* The codes *)

\* A step of one request: rows stay, and a driver without a code had none before
\* and was not the request's, or is the request's now, or is abandoned.
LEMMA CodesFollow ==
    ASSUME CodesInv, NEW c \in Readers,
           \A o \in Readers \ {c} : pass'[o] = pass[o],
           Listed \subseteq Listed',
           pass'[c].new \subseteq Listed',
           pass'[c].at \notin {"code", "create"} => pass'[c].new = {},
           abandoned \subseteq abandoned',
           \A n \in Listed' : \/ roster'[n].coded
                              \/ n \in abandoned' \cup pass'[c].new
                              \/ n \in Listed \ pass[c].new /\ ~roster[n].coded
    PROVE  CodesInv'
<1>1. ASSUME NEW o \in Readers
      PROVE  pass'[o].new \subseteq Listed' /\ (pass'[o].at \notin {"code", "create"} => pass'[o].new = {})
  BY DEF CodesInv
<1>2. ASSUME NEW n \in Listed'
      PROVE  roster'[n].coded \/ n \in abandoned' \/ \E o \in Readers : n \in pass'[o].new
  BY DEF CodesInv
<1> QED
  BY <1>1, <1>2 DEF CodesInv

Exited(n, day) == [roster[n] EXCEPT !.exited = day]

\* An exit date that changes lists nobody, and gives no code.
LEMMA ExitsOnly ==
    ASSUME SyncShape,
           \A n \in Names : \/ roster'[n] = roster[n]
                            \/ /\ n \in Listed
                               /\ \E day \in 0..LastImportDay :
                                      roster'[n] = Exited(n, day)
    PROVE  Listed' = Listed /\ \A n \in Listed : roster'[n].coded = roster[n].coded
<1>1. ASSUME NEW n \in Listed
      PROVE  n \in Names /\ roster'[n] \in DriverRow /\ roster'[n].coded = roster[n].coded
  <2>1. n \in Names /\ roster[n] \in DriverRow
    BY ListedIs DEF Listed
  <2> QED
    BY <2>1 DEF DriverRow, Exited
<1>2. \A n \in Names \ Listed : roster'[n] = roster[n]
  OBVIOUS
<1>3. \A n \in Names : n \in Listed' <=> n \in Listed
  BY <1>1, <1>2, RowsDiffer DEF Listed
<1> QED
  BY <1>1, <1>3 DEF Listed

\* A request gives codes to drivers that are listed.
LEMMA CodesOnly ==
    ASSUME SyncShape, CodesInv, NEW c \in Readers,
           roster' = [n \in Names |-> IF n \in pass[c].new THEN [roster[n] EXCEPT !.coded = TRUE]
                                                           ELSE roster[n]]
    PROVE  /\ Listed' = Listed
           /\ \A n \in pass[c].new : roster'[n].coded
           /\ \A n \in Names \ pass[c].new : roster'[n] = roster[n]
<1>1. \A n \in pass[c].new : roster[n] \in DriverRow /\ n \in Listed /\ n \in Names
  BY PassOf, ListedIs DEF CodesInv, PassState
<1>2. \A n \in pass[c].new : roster'[n].coded /\ roster'[n] \in DriverRow
  BY <1>1 DEF DriverRow
<1>3. Listed' = Listed
  BY <1>1, <1>2, RowsDiffer DEF Listed
<1> QED
  BY <1>2, <1>3

LEMMA CodesKeep ==
    ASSUME SyncShape, CodesInv, SyncShape', [SyncNext]_syncVars
    PROVE  CodesInv'
<1>0. Listed \subseteq Names /\ Listed' \subseteq Names
  BY DEF Listed
<1>1. ASSUME NEW c \in Readers, Goes(c, pass'[c]), pass'[c].new = pass[c].new,
             pass'[c].at = pass[c].at \/ (pass'[c].at = "stamp" /\ pass[c].at = "horizon")
                 \/ (pass'[c].at = "seen" /\ pass[c].at = "idle"),
             Listed' = Listed, abandoned' = abandoned,
             \A n \in Listed : roster'[n].coded = roster[n].coded
      PROVE  CodesInv'
  <2>1. \A o \in Readers \ {c} : pass'[o] = pass[o]
    BY <1>1 DEF Goes, SyncShape
  <2>2. pass'[c].at \notin {"code", "create"} => pass'[c].new = {}
    BY <1>1 DEF CodesInv
  <2>3. pass'[c].new \subseteq Listed'
    BY <1>1 DEF CodesInv
  <2>4. \A n \in Listed' : roster'[n].coded \/ n \in pass'[c].new \/ (n \in Listed \ pass[c].new /\ ~roster[n].coded)
    <3>1. \A n \in Listed : (roster[n].coded => roster'[n].coded)
      BY <1>1
    <3>2. \A n \in Listed : n \in pass'[c].new \/ n \in Listed \ pass[c].new
      BY <1>1
    <3> QED
      BY <1>1, <3>1, <3>2
  <2> QED
    BY <1>1, <2>1, <2>2, <2>3, <2>4, CodesFollow
<1>2. ASSUME NEW c \in Readers, BeginPass(c) PROVE CodesInv'
  <2>1. Goes(c, pass'[c]) /\ pass'[c].at = "seen" /\ pass'[c].new = {} /\ pass[c].at = "idle"
    BY <1>2 DEF BeginPass, Goes, SyncShape, Resting, Doing
  <2>2. Listed' = Listed /\ UNCHANGED <<roster, abandoned>> /\ pass[c].new = {}
    BY <1>2, <2>1 DEF BeginPass, Listed, CodesInv
  <2> QED
    BY <1>1, <2>1, <2>2
<1>3. ASSUME NEW c \in Readers, NEW p \in Platforms, ReadCandidates(c, p) \/ ReadHorizon(c, p) PROVE CodesInv'
  <2>1. Goes(c, pass'[c]) /\ pass'[c].at = pass[c].at /\ pass'[c].new = pass[c].new
    BY <1>3, PassOf DEF ReadCandidates, ReadHorizon, Goes, SyncShape, PassState
  <2>2. Listed' = Listed /\ UNCHANGED <<roster, abandoned>>
    BY <1>3 DEF ReadCandidates, ReadHorizon, Listed
  <2> QED
    BY <1>1, <2>1, <2>2
<1>4. ASSUME NEW c \in Readers, InsertNew(c) PROVE CodesInv'
  <2> DEFINE fresh == Known(pass[c].seen) \ Listed
  <2>1. \A o \in Readers \ {c} : pass'[o] = pass[o]
    BY <1>4 DEF InsertNew, Over, Goes, SyncShape
  <2>2. pass[c].new = {} /\ abandoned' = abandoned
    BY <1>4 DEF InsertNew, Doing, CodesInv
  <2>3. CASE Known(pass[c].seen) = {}
    <3>1. Listed' = Listed /\ UNCHANGED roster
      BY <1>4, <2>3 DEF InsertNew, Listed
    <3>2. pass'[c].new = {}
      BY <1>4, <2>3 DEF InsertNew, Over, Goes, SyncShape, Resting
    <3> QED
      BY <2>1, <2>2, <3>1, <3>2, CodesFollow DEF CodesInv
  <2>4. CASE Known(pass[c].seen) # {}
    <3>1. roster' = [n \in Names |-> IF n \in fresh THEN [exited |-> 0, coded |-> FALSE]
                                                    ELSE roster[n]]
      BY <1>4, <2>4 DEF InsertNew
    <3>2. pass'[c].new = fresh /\ (fresh # {} => pass'[c].at = "code")
      <4> DEFINE stage == IF fresh = {} THEN "horizon" ELSE "code"
                 asked == Asked(pass[c].seen)
      <4>1. pass'[c] = [Resting EXCEPT !.at = stage, !.seen = pass[c].seen, !.new = fresh, !.todo = asked]
        BY <1>4, <2>4 DEF InsertNew, Goes, SyncShape
      <4> HIDE DEF stage, asked, fresh
      <4>2. pass'[c].new = fresh /\ pass'[c].at = stage
        BY <4>1 DEF Resting
      <4> QED
        BY <4>2 DEF stage
    <3>3. fresh \subseteq Names
      BY DEF Known
    <3> HIDE DEF fresh
    <3>4. \A n \in Names : n \in Listed' <=> n \in Listed \cup fresh
      BY <3>1, RowsDiffer DEF Listed
    <3>5. Listed \subseteq Listed' /\ fresh \subseteq Listed'
      BY <1>0, <3>3, <3>4
    <3>6. \A n \in Listed' : n \in fresh \/ (n \in Listed /\ roster'[n] = roster[n])
      BY <1>0, <3>1, <3>4
    <3>7. pass'[c].at \notin {"code", "create"} => pass'[c].new = {}
      BY <3>2
    <3> QED
      BY <2>1, <2>2, <3>2, <3>5, <3>6, <3>7, CodesFollow DEF CodesInv
  <2> QED
    BY <2>3, <2>4
<1>5. ASSUME NEW c \in Readers, GiveCodes(c) \/ CodeDriver(c) PROVE CodesInv'
  <2>1. \A o \in Readers \ {c} : pass'[o] = pass[o]
    BY <1>5 DEF GiveCodes, CodeDriver, Goes, SyncShape
  <2>2. pass'[c].new = {}
    <3>1. CASE GiveCodes(c)
      <4>1. pass'[c] = [pass[c] EXCEPT !.at = "horizon", !.new = {}]
        BY <3>1 DEF GiveCodes, Goes, SyncShape
      <4> QED
        BY <4>1, PassOf DEF PassState
    <3>2. CASE CodeDriver(c)
      BY <3>2 DEF CodeDriver, Goes, SyncShape, Resting
    <3> QED
      BY <1>5, <3>1, <3>2
  <2>3. roster' = [n \in Names |-> IF n \in pass[c].new THEN [roster[n] EXCEPT !.coded = TRUE]
                                                        ELSE roster[n]]
        /\ abandoned' = abandoned
    BY <1>5 DEF GiveCodes, CodeDriver
  <2>4. /\ Listed' = Listed
        /\ \A n \in pass[c].new : roster'[n].coded
        /\ \A n \in Names \ pass[c].new : roster'[n] = roster[n]
    BY <2>3, CodesOnly
  <2>5. \A n \in Listed' : roster'[n].coded \/ (n \in Listed \ pass[c].new /\ ~roster[n].coded)
    <3>1. \A n \in Listed : (roster[n].coded => roster'[n].coded) \/ n \in pass[c].new
      BY <1>0, <2>4
    <3>2. \A n \in pass[c].new : roster'[n].coded
      BY <2>4
    <3> QED
      BY <2>4, <3>1, <3>2
  <2> QED
    BY <2>1, <2>2, <2>3, <2>4, <2>5, CodesFollow
<1>7. ASSUME NEW c \in Readers, ClearExits(c) PROVE CodesInv'
  <2>1. Goes(c, pass'[c]) /\ pass[c].at = "horizon" /\ pass'[c].at = "stamp" /\ pass'[c].new = {}
    BY <1>7 DEF ClearExits, Goes, SyncShape, Resting, Doing
  <2>2. pass[c].new = {}
    BY <2>1 DEF CodesInv
  <2>3. abandoned' = abandoned
    BY <1>7 DEF ClearExits
  <2> DEFINE current == Known(pass[c].seen) \ Gone(c)
  <2>4. roster' = [n \in Names |-> IF n \in current \cap Listed THEN Exited(n, 0) ELSE roster[n]]
    BY <1>7 DEF ClearExits, Exited
  <2> HIDE DEF current
  <2>5. Listed' = Listed /\ \A n \in Listed : roster'[n].coded = roster[n].coded
    <3>1. 0 \in 0..LastImportDay
      BY SyncAssumption
    <3>2. \A n \in Names : roster'[n] = roster[n] \/ (n \in Listed /\ roster'[n] = Exited(n, 0))
      BY <2>4
    <3> QED
      BY <3>1, <3>2, ExitsOnly
  <2> QED
    BY <1>1, <2>1, <2>2, <2>3, <2>5
<1>8. ASSUME NEW c \in Readers, NEW day \in Days, StampExits(c, day) PROVE CodesInv'
  <2>1. Goes(c, pass'[c]) /\ pass'[c].at = pass[c].at /\ pass'[c].new = pass[c].new
    BY <1>8, PassOf DEF StampExits, Goes, SyncShape, PassState
  <2> DEFINE today == {e \in pass[c].stamp : e.day = day}
  <2>2. roster' = [n \in Names |-> IF n \in Listed /\ \E e \in today : e.name = n
                                   THEN Exited(n, day) ELSE roster[n]]
    BY <1>8 DEF StampExits, Exited
  <2> HIDE DEF today
  <2>3. abandoned' = abandoned
    BY <1>8 DEF StampExits
  <2>4. Listed' = Listed /\ \A n \in Listed : roster'[n].coded = roster[n].coded
    <3>1. day \in 0..LastImportDay
      BY SyncAssumption DEF Days
    <3>2. \A n \in Names : roster'[n] = roster[n] \/ (n \in Listed /\ roster'[n] = Exited(n, day))
      BY <2>2
    <3> QED
      BY <3>1, <3>2, ExitsOnly
  <2> QED
    BY <1>1, <2>1, <2>3, <2>4
<1>9. ASSUME NEW c \in Readers, EndPass(c) \/ CutPass(c) PROVE CodesInv'
  <2>1. \A o \in Readers \ {c} : pass'[o] = pass[o]
    BY <1>9 DEF EndPass, CutPass, Over, Goes, SyncShape
  <2>2. pass'[c].new = {} /\ Listed' = Listed /\ UNCHANGED roster
    BY <1>9 DEF EndPass, CutPass, Over, Goes, SyncShape, Resting, Listed
  <2>3. abandoned \cup pass[c].new \subseteq abandoned'
    BY <1>9 DEF EndPass, CutPass, CodesInv, Doing
  <2> QED
    BY <2>1, <2>2, <2>3, CodesFollow
<1>10. ASSUME NEW c \in Readers, NEW n \in Names, CreateDriver(c, n) PROVE CodesInv'
  <2>1. \A o \in Readers \ {c} : pass'[o] = pass[o]
    BY <1>10 DEF CreateDriver, SyncShape
  <2>2. pass'[c].new = {n} /\ pass'[c].at = "create" /\ pass[c].new = {} /\ abandoned' = abandoned
    BY <1>10 DEF CreateDriver, SyncShape, Resting, Doing, CodesInv
  <2>3. \A m \in Names : roster'[m] = IF m = n THEN [exited |-> 0, coded |-> FALSE] ELSE roster[m]
    BY <1>10 DEF CreateDriver, SyncShape
  <2>4. Listed' = Listed \cup {n}
    BY <2>3, RowsDiffer DEF Listed
  <2>5. \A m \in Listed' : m \in {n} \/ (m \in Listed /\ roster'[m] = roster[m])
    BY <1>0, <2>3, <2>4
  <2> QED
    BY <2>1, <2>2, <2>4, <2>5, CodesFollow
<1>11. ASSUME UNCHANGED <<roster, pass, abandoned>> PROVE CodesInv'
  BY <1>11 DEF CodesInv, Listed
<1>12. ASSUME NEW n \in Names, NEW new \in Names, RenameDriver(n, new) PROVE CodesInv'
  <2>1. n \in Listed /\ new \notin Listed
    BY <1>12 DEF RenameDriver
  <2>2. \A m \in Names : roster'[m] = IF m = n THEN NotListed ELSE IF m = new THEN roster[n] ELSE roster[m]
    BY <1>12, <2>1 DEF RenameDriver, SyncShape
  <2>3. Listed' = (Listed \ {n}) \cup {new}
    BY <2>1, <2>2 DEF Listed
  <2>4. \A c \in Readers : /\ pass'[c].at = pass[c].at
                           /\ pass'[c].new = {IF m = n THEN new ELSE m : m \in pass[c].new}
    BY <1>12, PassOf DEF RenameDriver, PassState
  <2>5. abandoned' = {IF m = n THEN new ELSE m : m \in abandoned}
    BY <1>12 DEF RenameDriver
  <2>6. ASSUME NEW c \in Readers
        PROVE  pass'[c].new \subseteq Listed' /\ (pass'[c].at \notin {"code", "create"} => pass'[c].new = {})
    <3>1. pass[c].new \subseteq Listed /\ (pass[c].at \notin {"code", "create"} => pass[c].new = {})
      BY DEF CodesInv
    <3> QED
      BY <2>3, <2>4, <3>1
  <2>7. ASSUME NEW m \in Listed'
        PROVE  roster'[m].coded \/ m \in abandoned' \/ \E c \in Readers : m \in pass'[c].new
    <3>1. PICK was \in Listed : m = (IF was = n THEN new ELSE was) /\ roster'[m] = roster[was]
      <4>1. CASE m = new
        BY <1>0, <2>1, <2>2, <4>1
      <4>2. CASE m # new
        BY <1>0, <2>2, <2>3, <4>2
      <4> QED
        BY <4>1, <4>2
    <3>2. CASE roster[was].coded
      BY <3>1, <3>2
    <3>3. CASE was \in abandoned
      BY <2>5, <3>1, <3>3
    <3>4. CASE \E c \in Readers : was \in pass[c].new
      BY <2>4, <3>1, <3>4
    <3> QED
      BY <3>2, <3>3, <3>4 DEF CodesInv
  <2> QED
    BY <2>6, <2>7 DEF CodesInv
<1>13. ASSUME NEW r \in ImportedRows, ImportFleetRow(r) \/ DropFleetRow(r) PROVE CodesInv'
  BY <1>11, <1>13 DEF ImportFleetRow, DropFleetRow, Disturb
<1>14. ASSUME NEW plates \in SUBSET FleetPlates, ChangeFleet(plates) PROVE CodesInv'
  BY <1>11, <1>14 DEF ChangeFleet, Disturb
<1>15. CASE UNCHANGED syncVars
  BY <1>11, <1>15 DEF syncVars
<1> QED
  BY <1>2, <1>3, <1>4, <1>5, <1>7, <1>8, <1>9, <1>10, <1>12, <1>13, <1>14, <1>15
  DEF SyncNext, PassNext

-----------------------------------------------------------------------------
(* The truth *)

\* A statement of a pass that is under way.
LEMMA TruthFollows ==
    ASSUME TruthInv, UNCHANGED <<imported, fleet>>, NEW c \in Readers,
           \A o \in Readers \ {c} : pass'[o] = pass[o],
           pass[c].at # "idle",
           lone \subseteq Readers, lone' \subseteq lone,
           trusted' \in BOOLEAN, trusted => trusted', trusted' => trusted \/ c \in lone,
           trusted \/ c \in lone => Reads(c)',
           c \in lone' => /\ pass'[c].at \in {"seen", "code", "horizon", "stamp"}
                          /\ ~trusted => Done(c)',
           trusted' => /\ \A n \in KnownNow : n \in Listed' /\ roster'[n].exited = Due[n]
                       /\ pass'[c].at \notin {"code", "create"}
    PROVE  TruthInv'
<1>0. LoneInv /\ FreshInv /\ TrustInv
  BY DEF TruthInv
<1>1. SeenNow' = SeenNow /\ HorizonNow' = HorizonNow /\ KnownNow' = KnownNow /\ Due' = Due
  BY NowKeeps
<1>2. ASSUME NEW o \in Readers \ {c}, ~trusted, c \in lone PROVE pass[o].at = "idle"
  BY <1>0, <1>2 DEF LoneInv
<1>3. ASSUME NEW o \in lone, o # c PROVE trusted
  BY <1>0, <1>3 DEF LoneInv
<1>4. LoneInv'
  <2>1. ASSUME NEW o \in lone', o # c
        PROVE  pass'[o].at \in {"seen", "code", "horizon", "stamp"} /\ trusted'
    BY <1>0, <1>3, <2>1 DEF LoneInv
  <2>2. ASSUME c \in lone', ~trusted'
        PROVE  Done(c)' /\ \A o \in Readers \ {c} : pass'[o].at = "idle"
    BY <1>2, <2>2
  <2> QED
    BY <2>1, <2>2 DEF LoneInv
<1>5. FreshInv'
  <2>1. ASSUME NEW o \in Readers \ {c}, trusted' \/ o \in lone' PROVE Reads(o)'
    <3>1. CASE trusted \/ o \in lone
      <4>1. Reads(o)
        BY <1>0, <3>1 DEF FreshInv
      <4> QED
        BY <1>1, <4>1 DEF Reads
    <3>2. CASE ~trusted /\ o \notin lone
      <4>1. pass'[o].at = "idle"
        BY <1>2, <2>1, <3>2
      <4> QED
        BY <4>1 DEF Reads
    <3> QED
      BY <3>1, <3>2
  <2> QED
    BY <2>1 DEF FreshInv
<1>6. TrustInv'
  <2>1. ASSUME NEW o \in Readers \ {c}, trusted' PROVE pass'[o].at \notin {"code", "create"}
    BY <1>0, <1>2, <2>1 DEF TrustInv
  <2> QED
    BY <1>1, <2>1 DEF TrustInv
<1> QED
  BY <1>4, <1>5, <1>6 DEF TruthInv

LEMMA TruthKeeps ==
    ASSUME RosterInv, SyncShape', [SyncNext]_syncVars
    PROVE  TruthInv'
<1>0. SyncShape /\ CodesInv /\ TruthInv /\ LoneInv /\ FreshInv /\ TrustInv /\ lone \subseteq Readers /\ trusted \in BOOLEAN
  BY DEF RosterInv, TruthInv, SyncShape
<1>1. ASSUME lone' = {}, trusted' = FALSE PROVE TruthInv'
  BY <1>1 DEF TruthInv, LoneInv, FreshInv, TrustInv
<1>2. ASSUME NEW c \in Readers, BeginPass(c) PROVE TruthInv'
  <2>1. /\ \A o \in Readers \ {c} : pass'[o] = pass[o]
        /\ pass'[c].at = "seen" /\ pass'[c].plates = fleet /\ pass'[c].todo = Platforms
    BY <1>0, <1>2 DEF BeginPass, Goes, SyncShape, Resting
  <2>2. UNCHANGED <<imported, fleet, roster, trusted>> /\ Listed' = Listed
        /\ lone' \subseteq {c} /\ (c \in lone' => \A o \in Readers : pass[o].at = "idle")
    BY <1>2 DEF BeginPass, Listed, Doing
  <2>3. SeenNow' = SeenNow /\ HorizonNow' = HorizonNow /\ KnownNow' = KnownNow /\ Due' = Due
    BY <2>2, NowKeeps
  <2>4. Reads(c)' /\ Done(c)'
    BY <2>1, <2>2 DEF Reads, Done
  <2>5. LoneInv'
    BY <2>1, <2>2, <2>4 DEF LoneInv
  <2>6. FreshInv'
    <3>1. ASSUME NEW o \in Readers \ {c}, trusted' \/ o \in lone' PROVE Reads(o)'
      <4>1. Reads(o)
        BY <1>0, <2>2, <3>1 DEF FreshInv
      <4> QED
        BY <2>1, <2>2, <2>3, <4>1 DEF Reads
    <3> QED
      BY <2>4, <3>1 DEF FreshInv
  <2>7. TrustInv'
    BY <1>0, <2>1, <2>2, <2>3 DEF TrustInv
  <2> QED
    BY <2>5, <2>6, <2>7 DEF TruthInv
<1>3. ASSUME NEW c \in Readers, NEW p \in Platforms, ReadCandidates(c, p) PROVE TruthInv'
  <2> DEFINE found == [n \in Names |-> LastSeen(p, n, pass[c].plates)]
             how == [pass[c] EXCEPT !.todo = @ \ {p}, !.seen[p] = found]
  <2>1. /\ \A o \in Readers \ {c} : pass'[o] = pass[o]
        /\ pass'[c] = how /\ pass[c].at = "seen"
        /\ UNCHANGED <<imported, fleet, roster, lone, trusted>> /\ Listed' = Listed
    BY <1>0, <1>3 DEF ReadCandidates, Goes, SyncShape, Doing, Listed
  <2>2. pass[c].plates = fleet => found = SeenNow[p]
    BY DEF SeenNow
  <2> HIDE DEF found
  <2>3. /\ pass'[c].at = "seen" /\ pass'[c].plates = pass[c].plates /\ pass'[c].todo = pass[c].todo \ {p}
        /\ \A q \in Platforms : pass'[c].seen[q] = IF q = p THEN found ELSE pass[c].seen[q]
    BY <1>0, <2>1, PassOf DEF PassState, SeenDays
  <2>4. SeenNow' = SeenNow
    BY <2>1, NowKeeps
  <2>5. trusted \/ c \in lone => Reads(c)'
    <3>1. Reads(c) => Reads(c)'
      BY <2>1, <2>2, <2>3, <2>4 DEF Reads
    <3> QED
      BY <1>0, <3>1 DEF FreshInv
  <2>6. Done(c)'
    BY <2>3 DEF Done
  <2>7. trusted' => \A n \in KnownNow : n \in Listed' /\ roster'[n].exited = Due[n]
    BY <1>0, <2>1 DEF TrustInv
  <2> HIDE DEF how
  <2> QED
    BY <1>0, <2>1, <2>3, <2>5, <2>6, <2>7, TruthFollows
<1>4. ASSUME NEW c \in Readers, InsertNew(c) PROVE TruthInv'
  <2> DEFINE seen == pass[c].seen
             fresh == Known(seen) \ Listed
             stage == IF fresh = {} THEN "horizon" ELSE "code"
             asked == Asked(seen)
  <2>1. /\ \A o \in Readers \ {c} : pass'[o] = pass[o]
        /\ pass[c].at = "seen" /\ pass[c].todo = {}
        /\ UNCHANGED <<imported, fleet>>
    BY <1>0, <1>4 DEF InsertNew, Over, Goes, SyncShape, Doing
  <2>2. SeenNow' = SeenNow /\ KnownNow' = KnownNow
    BY <2>1, NowKeeps
  <2>3. trusted \/ c \in lone => seen = SeenNow
    <3>1. seen \in SeenDays /\ SeenNow \in SeenDays
      BY <1>0, PassOf, NowType DEF PassState
    <3>2. trusted \/ c \in lone => \A p \in Platforms : seen[p] = SeenNow[p]
      BY <1>0, <2>1 DEF FreshInv, Reads
    <3> QED
      BY <3>1, <3>2 DEF SeenDays
  <2>4. CASE Known(seen) = {}
    <3>1. /\ pass'[c] = Resting /\ UNCHANGED roster /\ Listed' = Listed
          /\ trusted' = (trusted \/ c \in lone) /\ lone' = lone \ {c}
      BY <1>0, <1>4, <2>4 DEF InsertNew, Over, Goes, SyncShape, Listed
    <3>2. pass'[c].at = "idle"
      BY <3>1 DEF Resting
    <3>3. Reads(c)'
      BY <3>2 DEF Reads
    <3>4. trusted' => KnownNow = {}
      BY <2>3, <2>4, <3>1 DEF KnownNow
    <3>5. trusted' \in BOOLEAN
      BY <1>0, <3>1
    <3> HIDE DEF seen
    <3> QED
      BY <1>0, <2>1, <3>1, <3>2, <3>3, <3>4, <3>5, TruthFollows
  <2>5. CASE Known(seen) # {}
    <3>1. /\ roster' = [n \in Names |-> IF n \in fresh THEN [exited |-> 0, coded |-> FALSE]
                                                       ELSE roster[n]]
          /\ UNCHANGED <<lone, trusted>>
          /\ pass'[c] = [Resting EXCEPT !.at = stage, !.seen = seen, !.new = fresh, !.todo = asked]
      BY <1>0, <1>4, <2>5 DEF InsertNew, Goes, SyncShape
    <3>2. fresh \subseteq Names /\ Known(seen) \subseteq Listed \cup fresh
      BY DEF Known
    <3>3. seen = SeenNow => Known(seen) = KnownNow /\ asked = Asked(SeenNow)
      BY DEF KnownNow
    <3> HIDE DEF seen, asked
    <3>4. stage \in {"code", "horizon"} /\ (fresh = {} => stage = "horizon")
      OBVIOUS
    <3> HIDE DEF fresh, stage
    <3>5. pass'[c].at = stage /\ pass'[c].seen = seen /\ pass'[c].todo = asked
      BY <3>1 DEF Resting
    <3>6. trusted \/ c \in lone => Reads(c)'
      BY <2>2, <2>3, <3>3, <3>4, <3>5 DEF Reads
    <3>7. \A n \in Names : n \in Listed' <=> n \in Listed \cup fresh
      BY <3>1, RowsDiffer DEF Listed
    <3>8. c \in lone => Done(c)'
      BY <2>2, <2>3, <3>2, <3>3, <3>4, <3>5, <3>7 DEF Done, KnownNow, Known
    <3>9. ASSUME trusted
          PROVE  /\ \A n \in KnownNow : n \in Listed' /\ roster'[n].exited = Due[n]
                 /\ pass'[c].at \notin {"code", "create"}
      <4>1. KnownNow \subseteq Listed /\ KnownNow \subseteq Names
        BY <1>0, <3>9 DEF TrustInv, KnownNow, Known
      <4>2. fresh = {}
        BY <2>3, <3>3, <3>9, <4>1 DEF fresh
      <4>3. \A n \in Names : roster'[n] = roster[n]
        BY <3>1, <4>2
      <4> QED
        BY <1>0, <3>4, <3>5, <3>7, <3>9, <4>1, <4>2, <4>3 DEF TrustInv
    <3> QED
      BY <1>0, <2>1, <3>1, <3>4, <3>5, <3>6, <3>8, <3>9, TruthFollows
  <2> QED
    BY <2>4, <2>5
<1>5. ASSUME NEW c \in Readers, GiveCodes(c) PROVE TruthInv'
  <2>1. /\ \A o \in Readers \ {c} : pass'[o] = pass[o]
        /\ pass'[c] = [pass[c] EXCEPT !.at = "horizon", !.new = {}] /\ pass[c].at = "code"
        /\ UNCHANGED <<imported, fleet, lone, trusted>>
        /\ Listed' = Listed
    BY <1>0, <1>5, CodesOnly DEF GiveCodes, Goes, SyncShape, Doing
  <2>2. /\ pass'[c].at = "horizon" /\ pass'[c].seen = pass[c].seen
        /\ pass'[c].todo = pass[c].todo /\ pass'[c].edge = pass[c].edge
    BY <1>0, <2>1, PassOf DEF PassState
  <2>3. SeenNow' = SeenNow /\ HorizonNow' = HorizonNow /\ KnownNow' = KnownNow
    BY <2>1, NowKeeps
  <2>4. trusted \/ c \in lone => Reads(c)'
    <3>1. Reads(c) => Reads(c)'
      BY <2>1, <2>2, <2>3 DEF Reads
    <3> QED
      BY <1>0, <3>1 DEF FreshInv
  <2>5. ~trusted
    BY <1>0, <2>1 DEF TrustInv
  <2>6. c \in lone => Done(c)'
    BY <1>0, <2>1, <2>2, <2>3, <2>5 DEF LoneInv, Done
  <2> QED
    BY <1>0, <2>1, <2>2, <2>4, <2>5, <2>6, TruthFollows
<1>6. ASSUME NEW c \in Readers, CodeDriver(c) PROVE TruthInv'
  <2>1. /\ pass[c].at = "create" /\ UNCHANGED <<lone, trusted>>
    BY <1>6 DEF CodeDriver, Doing
  <2>2. ~trusted /\ c \notin lone
    BY <1>0, <2>1 DEF TrustInv, LoneInv
  <2>3. lone = {}
    BY <1>0, <2>1, <2>2 DEF LoneInv
  <2> QED
    BY <1>0, <1>1, <2>1, <2>2, <2>3
<1>7. ASSUME NEW c \in Readers, NEW p \in Platforms, ReadHorizon(c, p) PROVE TruthInv'
  <2> DEFINE newest == Horizon(p)
  <2>1. /\ \A o \in Readers \ {c} : pass'[o] = pass[o]
        /\ pass'[c] = [pass[c] EXCEPT !.todo = @ \ {p}, !.edge[p] = newest]
        /\ pass[c].at = "horizon"
        /\ UNCHANGED <<imported, fleet, roster, lone, trusted>> /\ Listed' = Listed
    BY <1>0, <1>7 DEF ReadHorizon, Goes, SyncShape, Doing, Listed
  <2>2. newest = HorizonNow[p]
    BY DEF HorizonNow
  <2> HIDE DEF newest
  <2>3. /\ pass'[c].at = "horizon" /\ pass'[c].seen = pass[c].seen /\ pass'[c].todo = pass[c].todo \ {p}
        /\ \A q \in Platforms : pass'[c].edge[q] = IF q = p THEN newest ELSE pass[c].edge[q]
    BY <1>0, <2>1, PassOf DEF PassState
  <2>4. SeenNow' = SeenNow /\ HorizonNow' = HorizonNow /\ KnownNow' = KnownNow
    BY <2>1, NowKeeps
  <2>5. trusted \/ c \in lone => Reads(c)'
    <3>1. Asked(SeenNow) \subseteq Platforms
      BY DEF Asked
    <3>2. Reads(c) => Reads(c)'
      BY <2>1, <2>2, <2>3, <2>4, <3>1 DEF Reads
    <3> QED
      BY <1>0, <3>2 DEF FreshInv
  <2>6. c \in lone /\ ~trusted => Done(c)'
    BY <1>0, <2>1, <2>3, <2>4 DEF LoneInv, Done
  <2>7. trusted' => \A n \in KnownNow : n \in Listed' /\ roster'[n].exited = Due[n]
    BY <1>0, <2>1 DEF TrustInv
  <2> QED
    BY <1>0, <2>1, <2>3, <2>5, <2>6, <2>7, TruthFollows
<1>8. ASSUME NEW c \in Readers, ClearExits(c) PROVE TruthInv'
  <2> DEFINE exits == Exits(c)
             current == Known(pass[c].seen) \ Gone(c)
  <2>1. /\ \A o \in Readers \ {c} : pass'[o] = pass[o]
        /\ pass'[c] = [Resting EXCEPT !.at = "stamp", !.stamp = exits]
        /\ pass[c].at = "horizon" /\ pass[c].todo = {}
        /\ UNCHANGED <<imported, fleet, lone, trusted>>
        /\ roster' = [n \in Names |-> IF n \in current \cap Listed THEN Exited(n, 0) ELSE roster[n]]
    BY <1>0, <1>8 DEF ClearExits, Goes, SyncShape, Doing, Exited
  <2>2. KnownNow \subseteq Names /\ \A n \in Names : Due[n] \in 0..LastImportDay
    BY <1>0, NowType, ExitType DEF Due, KnownNow, Known
  <2>3. ASSUME trusted \/ c \in lone
        PROVE  exits = {e \in [name : KnownNow, day : Days] : e.day = Due[e.name]}
               /\ Known(pass[c].seen) = KnownNow
    <3>1. pass[c].seen = SeenNow /\ \A p \in Asked(SeenNow) : pass[c].edge[p] = HorizonNow[p]
      BY <1>0, <2>1, <2>3 DEF FreshInv, Reads
    <3>2. \A n \in KnownNow : ExitDate(pass[c].seen, pass[c].edge, n) = Due[n]
      BY <2>2, <3>1, ExitFollows
    <3>3. exits = {e \in [name : KnownNow, day : Days] :
                       e.day = ExitDate(pass[c].seen, pass[c].edge, e.name)}
      BY <3>1 DEF Exits, KnownNow
    <3> HIDE DEF exits
    <3> QED
      BY <3>1, <3>2, <3>3 DEF KnownNow
  <2>4. ASSUME trusted \/ c \in lone, NEW n \in KnownNow
        PROVE  /\ n \notin current => Due[n] \in Days /\ [name |-> n, day |-> Due[n]] \in exits
               /\ n \in current => Due[n] = 0
    <3>1. Gone(c) = {e.name : e \in exits}
      BY DEF Gone
    <3>2. n \in Gone(c) => Due[n] \in Days /\ [name |-> n, day |-> Due[n]] \in exits
      BY <2>3, <2>4, <3>1
    <3>3. Due[n] \in Days => n \in Gone(c)
      <4>1. Due[n] \in Days => [name |-> n, day |-> Due[n]] \in exits
        BY <2>3, <2>4
      <4> HIDE DEF exits
      <4> QED
        BY <3>1, <4>1
    <3>4. Due[n] \in Days \/ Due[n] = 0
      BY <2>2, <2>4, SyncAssumption DEF Days
    <3> QED
      BY <2>3, <2>4, <3>2, <3>3, <3>4
  <2>5. trusted \/ c \in lone => \A e \in exits : e.name \in KnownNow /\ e.day = Due[e.name]
    BY <2>3
  <2> HIDE DEF exits, current
  <2>6. pass'[c].at = "stamp" /\ pass'[c].stamp = exits
    BY <2>1 DEF Resting
  <2>7. SeenNow' = SeenNow /\ HorizonNow' = HorizonNow /\ KnownNow' = KnownNow /\ Due' = Due
    BY <2>1, NowKeeps
  <2>8. Listed' = Listed
    <3>1. 0 \in 0..LastImportDay
      BY SyncAssumption
    <3>2. \A n \in Names : roster'[n] = roster[n] \/ (n \in Listed /\ roster'[n] = Exited(n, 0))
      BY <2>1
    <3> QED
      BY <1>0, <3>1, <3>2, ExitsOnly
  <2>9. \A n \in Listed : roster'[n].exited = IF n \in current THEN 0 ELSE roster[n].exited
    <3>1. \A n \in Listed : n \in Names /\ Exited(n, 0).exited = 0
      BY <1>0, ListedIs DEF Listed, Exited, DriverRow
    <3> QED
      BY <2>1, <3>1
  <2>10. trusted \/ c \in lone => Reads(c)'
    BY <2>5, <2>6, <2>7 DEF Reads
  <2>11. ASSUME c \in lone, ~trusted PROVE Done(c)'
    <3>1. KnownNow \subseteq Listed
      BY <1>0, <2>1, <2>11 DEF LoneInv, Done
    <3>2. \A n \in KnownNow : roster'[n].exited = Due[n] \/ [name |-> n, day |-> Due[n]] \in exits
      BY <2>4, <2>9, <2>11, <3>1
    <3> QED
      BY <2>6, <2>7, <2>8, <3>1, <3>2 DEF Done
  <2>12. trusted' => \A n \in KnownNow : n \in Listed' /\ roster'[n].exited = Due[n]
    BY <1>0, <2>1, <2>4, <2>8, <2>9 DEF TrustInv
  <2> QED
    BY <1>0, <2>1, <2>6, <2>10, <2>11, <2>12, TruthFollows
<1>9. ASSUME NEW c \in Readers, NEW day \in Days, StampExits(c, day) PROVE TruthInv'
  <2> DEFINE today == {e \in pass[c].stamp : e.day = day}
             gone == {n \in Names : \E e \in today : e.name = n}
  <2>1. /\ \A o \in Readers \ {c} : pass'[o] = pass[o]
        /\ pass'[c] = [pass[c] EXCEPT !.stamp = @ \ today]
        /\ pass[c].at = "stamp"
        /\ UNCHANGED <<imported, fleet, lone, trusted>>
        /\ roster' = [n \in Names |-> IF n \in Listed /\ \E e \in today : e.name = n
                                      THEN Exited(n, day) ELSE roster[n]]
    BY <1>0, <1>9 DEF StampExits, Goes, SyncShape, Doing, Exited
  <2>2. pass'[c].at = "stamp" /\ pass'[c].stamp = pass[c].stamp \ today
    BY <1>0, <2>1, PassOf DEF PassState
  <2>3. SeenNow' = SeenNow /\ HorizonNow' = HorizonNow /\ KnownNow' = KnownNow /\ Due' = Due
    BY <2>1, NowKeeps
  <2>4. KnownNow \subseteq Names
    BY DEF KnownNow, Known
  <2>5. trusted \/ c \in lone => \A e \in pass[c].stamp : e.name \in KnownNow /\ e.day = Due[e.name]
    BY <1>0, <2>1 DEF FreshInv, Reads
  <2>6. trusted \/ c \in lone => \A n \in gone : Due[n] = day
    BY <2>5
  <2>7. ASSUME NEW n \in Names \ gone, [name |-> n, day |-> Due[n]] \in pass[c].stamp
        PROVE  [name |-> n, day |-> Due[n]] \in pass[c].stamp \ today
    <3>1. [name |-> n, day |-> Due[n]].name = n
      OBVIOUS
    <3>2. [name |-> n, day |-> Due[n]] \notin today
      BY <3>1
    <3> QED
      BY <2>7, <3>2
  <2>8. roster' = [n \in Names |-> IF n \in Listed \cap gone THEN Exited(n, day) ELSE roster[n]]
    BY <2>1
  <2> HIDE DEF today, gone
  <2>9. Listed' = Listed
    <3>1. day \in 0..LastImportDay
      BY SyncAssumption DEF Days
    <3>2. \A n \in Names : roster'[n] = roster[n] \/ (n \in Listed /\ roster'[n] = Exited(n, day))
      BY <2>8
    <3> QED
      BY <1>0, <3>1, <3>2, ExitsOnly
  <2>10. \A n \in Listed : roster'[n].exited = IF n \in gone THEN day ELSE roster[n].exited
    <3>1. \A n \in Listed : n \in Names /\ Exited(n, day).exited = day
      BY <1>0, ListedIs DEF Listed, Exited, DriverRow
    <3> QED
      BY <2>8, <3>1
  <2>11. trusted \/ c \in lone => Reads(c)'
    BY <2>2, <2>3, <2>5 DEF Reads
  <2>12. ASSUME c \in lone, ~trusted PROVE Done(c)'
    <3>1. /\ KnownNow \subseteq Listed
          /\ \A n \in KnownNow : roster[n].exited = Due[n] \/ [name |-> n, day |-> Due[n]] \in pass[c].stamp
      BY <1>0, <2>1, <2>12 DEF LoneInv, Done
    <3>2. ASSUME NEW n \in KnownNow
          PROVE  roster'[n].exited = Due[n] \/ [name |-> n, day |-> Due[n]] \in pass'[c].stamp
      BY <2>2, <2>4, <2>6, <2>7, <2>10, <2>12, <3>1, <3>2
    <3> QED
      BY <2>2, <2>3, <2>9, <3>1, <3>2 DEF Done
  <2>13. trusted' => \A n \in KnownNow : n \in Listed' /\ roster'[n].exited = Due[n]
    BY <1>0, <2>1, <2>6, <2>9, <2>10 DEF TrustInv
  <2> QED
    BY <1>0, <2>1, <2>2, <2>11, <2>12, <2>13, TruthFollows
<1>10. ASSUME NEW c \in Readers, EndPass(c) PROVE TruthInv'
  <2>1. /\ \A o \in Readers \ {c} : pass'[o] = pass[o]
        /\ pass'[c] = Resting /\ pass[c].at = "stamp" /\ pass[c].stamp = {}
        /\ UNCHANGED <<imported, fleet, roster>> /\ Listed' = Listed
        /\ trusted' = (trusted \/ c \in lone) /\ lone' = lone \ {c}
    BY <1>0, <1>10 DEF EndPass, Over, Goes, SyncShape, Doing, Listed
  <2>2. pass'[c].at = "idle"
    BY <2>1 DEF Resting
  <2>3. Reads(c)'
    BY <2>2 DEF Reads
  <2>4. c \in lone /\ ~trusted => \A n \in KnownNow : n \in Listed /\ roster[n].exited = Due[n]
    BY <1>0, <2>1 DEF LoneInv, Done
  <2>5. trusted' => \A n \in KnownNow : n \in Listed' /\ roster'[n].exited = Due[n]
    BY <1>0, <2>1, <2>4 DEF TrustInv
  <2>6. trusted' \in BOOLEAN
    BY <1>0, <2>1
  <2> QED
    BY <1>0, <2>1, <2>2, <2>3, <2>5, <2>6, TruthFollows
<1>11. ASSUME NEW c \in Readers, CutPass(c) PROVE TruthInv'
  <2>1. /\ \A o \in Readers \ {c} : pass'[o] = pass[o]
        /\ pass'[c] = Resting /\ pass[c].at # "idle"
        /\ UNCHANGED <<imported, fleet, roster, trusted>> /\ Listed' = Listed
        /\ lone' = lone \ {c}
    BY <1>0, <1>11 DEF CutPass, Goes, SyncShape, Doing, Listed
  <2>2. pass'[c].at = "idle"
    BY <2>1 DEF Resting
  <2>3. Reads(c)'
    BY <2>2 DEF Reads
  <2>4. trusted' => \A n \in KnownNow : n \in Listed' /\ roster'[n].exited = Due[n]
    BY <1>0, <2>1 DEF TrustInv
  <2> QED
    BY <1>0, <2>1, <2>2, <2>3, <2>4, TruthFollows
<1>12. ASSUME NEW c \in Readers, NEW n \in Names, CreateDriver(c, n) PROVE TruthInv'
  BY <1>1, <1>12 DEF CreateDriver
<1>13. ASSUME NEW r \in ImportedRows, ImportFleetRow(r) \/ DropFleetRow(r) PROVE TruthInv'
  BY <1>1, <1>13 DEF ImportFleetRow, DropFleetRow, Disturb
<1>14. ASSUME NEW plates \in SUBSET FleetPlates, ChangeFleet(plates) PROVE TruthInv'
  BY <1>1, <1>14 DEF ChangeFleet, Disturb
<1>15. ASSUME NEW n \in Names, NEW new \in Names, RenameDriver(n, new) PROVE TruthInv'
  BY <1>1, <1>15 DEF RenameDriver
<1>16. CASE UNCHANGED syncVars
  <2>1. UNCHANGED <<imported, fleet, roster, pass, lone, trusted>> /\ Listed' = Listed
    BY <1>16 DEF syncVars, Listed
  <2>2. SeenNow' = SeenNow /\ HorizonNow' = HorizonNow /\ KnownNow' = KnownNow /\ Due' = Due
    BY <2>1, NowKeeps
  <2> QED
    BY <1>0, <2>1, <2>2 DEF TruthInv, LoneInv, FreshInv, TrustInv, Reads, Done
<1> QED
  BY <1>2, <1>3, <1>4, <1>5, <1>6, <1>7, <1>8, <1>9, <1>10, <1>11, <1>12, <1>13, <1>14, <1>15, <1>16
  DEF SyncNext, PassNext

LEMMA RosterInvInit == SyncInit => RosterInv
<1> SUFFICES ASSUME SyncInit PROVE RosterInv
  OBVIOUS
<1>1. /\ imported = {} /\ fleet = {} /\ roster = [n \in Names |-> NotListed]
      /\ pass = [c \in Readers |-> Resting] /\ lone = {} /\ trusted = FALSE /\ abandoned = {}
  BY DEF SyncInit
<1>2. Resting \in PassState
  BY SyncAssumption DEF PassState, Resting, NotSeen, Stages, SeenDays
<1>3. SyncShape
  BY <1>1, <1>2 DEF SyncShape
<1>4. CodesInv
  BY <1>1 DEF CodesInv, Listed, Resting
<1>5. TruthInv
  BY <1>1 DEF TruthInv, LoneInv, FreshInv, TrustInv
<1> QED
  BY <1>3, <1>4, <1>5 DEF RosterInv

LEMMA RosterInvNext == RosterInv /\ [SyncNext]_syncVars => RosterInv'
<1> SUFFICES ASSUME RosterInv, [SyncNext]_syncVars PROVE RosterInv'
  OBVIOUS
<1>1. SyncShape'
  BY ShapeKeeps DEF RosterInv
<1>2. CodesInv'
  BY <1>1, CodesKeep DEF RosterInv
<1>3. TruthInv'
  BY <1>1, TruthKeeps
<1> QED
  BY <1>1, <1>2, <1>3 DEF RosterInv

LEMMA RosterOfInv == RosterInv => RosterFollowsImports
<1> SUFFICES ASSUME RosterInv, trusted, NEW n \in Names, \E p \in Platforms : LastSeen(p, n, fleet) # 0
             PROVE  n \in Listed /\ roster[n].exited = DueExit(n) /\ (roster[n].coded \/ n \in abandoned)
  BY DEF RosterFollowsImports
<1>1. n \in KnownNow
  BY DEF KnownNow, Known, SeenNow
<1>2. n \in Listed /\ roster[n].exited = Due[n] /\ \A c \in Readers : pass[c].at \notin {"code", "create"}
  BY <1>1 DEF RosterInv, TruthInv, TrustInv
<1>3. Due[n] = DueExit(n)
  BY DEF Due, DueExit, SeenNow, HorizonNow
<1>4. roster[n].coded \/ n \in abandoned
  BY <1>2 DEF RosterInv, CodesInv
<1> QED
  BY <1>2, <1>3, <1>4

\* However many requests read the roster at once, are cut off, and imports, fleets and
\* names change in between: a pass nothing changed under leaves the roster as the
\* imports have it, later passes leave it so, and only a driver whose request died is
\* without a code (DriverSyncService.syncFromFleet, exitDateOf).
THEOREM RosterIsTrue == SyncSpec => []RosterFollowsImports
<1>1. SyncInit => RosterInv
  BY RosterInvInit
<1>2. RosterInv /\ [SyncNext]_syncVars => RosterInv'
  BY RosterInvNext
<1>3. RosterInv => RosterFollowsImports
  BY RosterOfInv
<1> QED
  BY <1>1, <1>2, <1>3, PTL DEF SyncSpec
=============================================================================
