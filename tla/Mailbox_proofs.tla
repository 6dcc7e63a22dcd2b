--------------------------- MODULE Mailbox_proofs ---------------------------
(***************************************************************************)
(* Proofs about Mailbox, for any number of messages, goroutines, failures  *)
(* and crashes: type correctness, that summaries and bodies agree, that    *)
(* the mailbox on disk implements MessageStore, what happens to tag rows,  *)
(* and that no removal is forgotten before clients have heard of it.       *)
(***************************************************************************)
EXTENDS Mailbox, FiniteSetTheorems, TLAPS

\* What the goroutine that has the connection has done to the tables, by the
\* statement it is about to run.
TxState(p) ==
    LET m == db.mailbox
        d == db.mailbox_data
        c == committed.mailbox
    IN  \/ /\ op[p] = "Store"
           /\ \/ pc[p] = 2 /\ m = c /\ d = c
              \/ pc[p] = 3 /\ m = c \union sel[p] /\ d = c
              \/ pc[p] = 4 /\ m = c \union sel[p] /\ d = m
        \/ /\ op[p] \in {"DeleteMessages", "DeleteSearch"}
           /\ \/ pc[p] = 3 /\ m = c /\ d = c
              \/ pc[p] = 4 /\ m = c \ sel[p] /\ d = c
              \/ pc[p] \in {5, 6} /\ m = c \ sel[p] /\ d = m
        \/ /\ op[p] = "Prune"
           /\ \/ pc[p] = 3 /\ m = c /\ d = c
              \/ pc[p] \in {4, 5} /\ m = c /\ d = c \ sel[p]
              \/ pc[p] = 6 /\ m = c \ sel[p] /\ d = m
        \/ /\ op[p] = "DeleteAll"
           /\ \/ pc[p] = 3 /\ m = c /\ d = c
              \/ pc[p] = 4 /\ m = {} /\ d = c
              \/ pc[p] \in {5, 6} /\ m = {} /\ d = {}

\* The connection is free or in the hands of a transaction under way.
DiskInv ==
    /\ committed.mailbox = committed.mailbox_data
    /\ conn = Nobody => db = committed
    /\ \A p \in Goroutines : conn = p => TxState(p)

\* A Store has an ID of its own, which nobody has seen before it commits.
StoreInv(p) ==
    op[p] = "Store" =>
        /\ \E m \in Ids : sel[p] = {m}
        /\ pc[p] <= 4 => sel[p] \intersect (committed.mailbox \union removed) = {}
        /\ pc[p] > 4 => sel[p] \subseteq committed.mailbox \union removed
        /\ \A q \in Goroutines : q # p /\ op[q] = "Store" => sel[q] # sel[p]

IInv ==
    /\ TypeOK
    /\ DiskInv
    /\ \A p \in Goroutines : StoreInv(p)

----------------------------------------------------------------------------
(* The programs                                                            *)

Ops == {"Prune"} \union Operations

\* Which program belongs to which operation.
LEMMA ProgramOf ==
    /\ Program("Store") = Store
    /\ Program("DeleteMessages") = DeleteMessages
    /\ Program("DeleteSearch") = DeleteSearch
    /\ Program("Prune") = Prune
    /\ Program("DeleteAll") = DeleteAll
BY Zenon DEF Program, Programs

\* The sequences of statements have these lengths.
LEMMA Lengths ==
    /\ Len(Program("Store")) = 6
    /\ Len(Program("DeleteMessages")) = 10
    /\ Len(Program("DeleteSearch")) = 10
    /\ Len(Program("Prune")) = 10
    /\ Len(Program("DeleteAll")) = 9
BY ProgramOf DEF Store, DeleteMessages, DeleteSearch, Prune, DeleteAll

\* A goroutine that has an operation has one of the five.
LEMMA OperationNames ==
    ASSUME TypeOK, NEW p \in Goroutines, op[p] # "idle"
    PROVE  op[p] \in {"Store", "DeleteMessages", "DeleteSearch", "Prune", "DeleteAll"}
BY OperationsAssumption DEF TypeOK, RequestOperations

\* No program is shorter than its transaction.
LEMMA LongEnough ==
    ASSUME TypeOK, NEW p \in Goroutines, op[p] # "idle"
    PROVE  /\ op[p] = "Store" => Len(Program(op[p])) = 6
           /\ op[p] # "Store" => Len(Program(op[p])) \in {9, 10}
BY OperationNames, Lengths

\* Where in the programs the statements are.
LEMMA Position ==
    ASSUME TypeOK, NEW p \in Goroutines
    PROVE  /\ At(p, "insertMailbox") => op[p] = "Store" /\ pc[p] = 2
           /\ At(p, "insertData") => op[p] = "Store" /\ pc[p] = 3
           /\ At(p, "deleteMailbox") =>
                \/ op[p] \in {"DeleteMessages", "DeleteSearch"} /\ pc[p] = 3
                \/ op[p] = "Prune" /\ pc[p] = 5
           /\ At(p, "deleteData") =>
                \/ op[p] \in {"DeleteMessages", "DeleteSearch"} /\ pc[p] = 4
                \/ op[p] = "Prune" /\ pc[p] = 3
           /\ At(p, "deleteTags") =>
                \/ op[p] \in {"DeleteMessages", "DeleteSearch"} /\ pc[p] = 5
                \/ op[p] = "Prune" /\ pc[p] = 4
           /\ At(p, "emptyMailbox") => op[p] = "DeleteAll" /\ pc[p] = 3
           /\ At(p, "emptyData") => op[p] = "DeleteAll" /\ pc[p] = 4
           /\ At(p, "emptyTags") => op[p] = "DeleteAll" /\ pc[p] = 5
           /\ At(p, "commit") =>
                \/ op[p] = "Store" /\ pc[p] = 4
                \/ op[p] \in {"DeleteMessages", "DeleteSearch", "DeleteAll"} /\ pc[p] = 6
           /\ At(p, "tryCommit") => op[p] = "Prune" /\ pc[p] = 6
           /\ At(p, "begin") =>
                \/ op[p] = "Store" /\ pc[p] = 1
                \/ op[p] # "Store" /\ pc[p] = 2
           /\ At(p, "select") =>
                op[p] \in {"DeleteMessages", "DeleteSearch", "Prune"} /\ pc[p] = 1
           /\ At(p, "tryCount") => op[p] = "DeleteAll" /\ pc[p] = 1
           /\ At(p, "setTags") => op[p] = "Store" /\ pc[p] = 5
<1>0. CASE op[p] = "idle"
  BY <1>0 DEF At
<1>1. CASE op[p] = "Store"
  <2>1. pc[p] \in 1..6
    BY <1>1, Lengths DEF TypeOK
  <2> QED
    BY <1>1, <2>1, ProgramOf DEF At, Store
<1>2. CASE op[p] = "DeleteMessages"
  <2>1. pc[p] \in 1..10
    BY <1>2, Lengths DEF TypeOK
  <2> QED
    BY <1>2, <2>1, ProgramOf DEF At, DeleteMessages
<1>3. CASE op[p] = "DeleteSearch"
  <2>1. pc[p] \in 1..10
    BY <1>3, Lengths DEF TypeOK
  <2> QED
    BY <1>3, <2>1, ProgramOf DEF At, DeleteSearch
<1>4. CASE op[p] = "Prune"
  <2>1. pc[p] \in 1..10
    BY <1>4, Lengths DEF TypeOK
  <2> QED
    BY <1>4, <2>1, ProgramOf DEF At, Prune
<1>5. CASE op[p] = "DeleteAll"
  <2>1. pc[p] \in 1..9
    BY <1>5, Lengths DEF TypeOK
  <2> QED
    BY <1>5, <2>1, ProgramOf DEF At, DeleteAll
<1> QED
  BY <1>0, <1>1, <1>2, <1>3, <1>4, <1>5, OperationNames

----------------------------------------------------------------------------
(* Type correctness                                                        *)

\* The parts of TypeOK about the goroutines.
LocalType ==
    /\ op \in [Goroutines -> {"idle"} \union Ops]
    /\ pc \in [Goroutines -> Nat]
    /\ sel \in [Goroutines -> SUBSET Ids]
    /\ \A p \in Goroutines :
          /\ op[p] = "idle" => pc[p] = 0
          /\ op[p] # "idle" => pc[p] \in 1..Len(Program(op[p]))
          /\ op[p] = "Store" => sel[p] # {}
          /\ op[p] # "DeleteAll" /\ pc[p] > 1 => sel[p] # {}

\* An operation that returns leaves its goroutine idle and touches no other.
LEMMA LeaveType ==
    ASSUME TypeOK, NEW p \in Goroutines, Leave(p)
    PROVE  /\ LocalType'
           /\ op' = [op EXCEPT ![p] = "idle"]
           /\ \A q \in Goroutines : q # p =>
                 op'[q] = op[q] /\ pc'[q] = pc[q] /\ sel'[q] = sel[q]
BY DEF TypeOK, LocalType, Leave, Ops

\* Going on is either one statement further or a return, and touches no other
\* goroutine.
LEMMA GoOnType ==
    ASSUME TypeOK, NEW p \in Goroutines, NEW S \in SUBSET Ids,
           op[p] # "idle", op[p] # "DeleteAll" => S # {}, GoOn(p, S)
    PROVE  /\ LocalType'
           /\ acked' \in SUBSET Ids
           /\ \/ /\ pc[p] # Len(Program(op[p]))
                 /\ op'[p] = op[p] /\ pc'[p] = pc[p] + 1 /\ sel'[p] = S
                 /\ acked' = acked
              \/ /\ pc[p] = Len(Program(op[p]))
                 /\ op'[p] = "idle"
                 /\ acked' = IF op[p] = "Store" THEN acked \union S ELSE acked
           /\ \A q \in Goroutines : q # p =>
                 op'[q] = op[q] /\ pc'[q] = pc[q] /\ sel'[q] = sel[q]
<1>1. CASE Last(p)
  <2>1. Leave(p) /\ acked' = IF op[p] = "Store" THEN acked \union S ELSE acked
    BY <1>1 DEF GoOn
  <2>2. op'[p] = "idle"
    BY <2>1, LeaveType DEF TypeOK
  <2> QED
    BY <1>1, <2>1, <2>2, LeaveType DEF Last, TypeOK
<1>2. CASE ~Last(p)
  <2>1. /\ pc' = [pc EXCEPT ![p] = @ + 1]
        /\ sel' = [sel EXCEPT ![p] = S]
        /\ op' = op /\ acked' = acked
    BY <1>2 DEF GoOn
  <2>2. Len(Program(op[p])) \in Nat
    BY OperationNames, Lengths
  <2>3. pc[p] + 1 \in 1..Len(Program(op[p]))
    BY <1>2, <2>2 DEF Last, TypeOK
  <2> QED
    BY <1>2, <2>1, <2>3 DEF Last, TypeOK, LocalType, Ops
<1> QED
  BY <1>1, <1>2

\* Every operation but Store and DeleteAll selects its IDs first.
LEMMA FirstStatement ==
    ASSUME TypeOK, NEW p \in Goroutines
    PROVE  /\ op[p] \in {"DeleteMessages", "DeleteSearch", "Prune"} /\ pc[p] = 1
                => At(p, "select")
           /\ op[p] = "DeleteAll" /\ pc[p] = 1 => At(p, "tryCount")
           /\ op[p] = "Store" /\ pc[p] = 1 => At(p, "begin")
BY ProgramOf DEF At, DeleteMessages, DeleteSearch, Prune, DeleteAll, Store

\* So the lists of IDs of the later statements are not empty.
LEMMA SelectedIDs ==
    ASSUME TypeOK, NEW p \in Goroutines, NEW s, At(p, s), s # "select"
    PROVE  /\ op[p] # "idle"
           /\ sel[p] \in SUBSET Ids
           /\ op[p] # "DeleteAll" => sel[p] # {}
<1>1. op[p] # "idle" /\ sel[p] \in SUBSET Ids
  BY DEF At, TypeOK
<1>2. ~At(p, "select")
  BY DEF At
<1>3. ASSUME op[p] # "DeleteAll" PROVE sel[p] # {}
  <2>1. CASE op[p] = "Store"
    BY <2>1 DEF TypeOK
  <2>2. CASE op[p] # "Store"
    <3>1. op[p] \in {"DeleteMessages", "DeleteSearch", "Prune"}
      BY <1>1, <1>3, <2>2, OperationNames
    <3>2. pc[p] # 1
      BY <1>2, <3>1, FirstStatement
    <3>3. pc[p] \in Nat /\ pc[p] # 0
      BY <1>1, <3>1, Lengths DEF TypeOK
    <3> QED
      BY <1>3, <3>2, <3>3 DEF TypeOK
  <2> QED
    BY <2>1, <2>2
<1> QED
  BY <1>1, <1>3

\* Going on with the same IDs, which every statement but select and tryCount does.
LEMMA GoOnSame ==
    ASSUME TypeOK, NEW p \in Goroutines, NEW s, At(p, s), s # "select", GoOn(p, sel[p])
    PROVE  LocalType' /\ acked' \in SUBSET Ids
BY SelectedIDs, GoOnType

\* The size of a set of IDs is a number.
LEMMA IdsCardinality ==
    ASSUME NEW S \in SUBSET Ids
    PROVE  Cardinality(S) \in Nat
BY IdsAssumption, FS_Subset, FS_CardinalityType

\* The rest of TypeOK.
SharedType ==
    /\ db \in Tables
    /\ committed \in Tables
    /\ conn \in Goroutines \union {Nobody}
    /\ statsDeleted \in Nat
    /\ faults \in 0..MaxFaults
    /\ removed \in SUBSET Ids
    /\ announced \in SUBSET Ids
    /\ unheard \in SUBSET Ids

\* TypeOK is the conjunction of its parts, in this state
LEMMA TypeParts ==
    TypeOK <=> SharedType /\ LocalType /\ acked \in SUBSET Ids
BY DEF TypeOK, SharedType, LocalType, Ops

\* and the parts after a step give TypeOK after it.
LEMMA TypePartsNext ==
    SharedType' /\ LocalType' /\ acked' \in SUBSET Ids => TypeOK'
BY DEF TypeOK, SharedType, LocalType, Ops

\* The empty mailbox with idle goroutines is well typed.
LEMMA InitType == Init => TypeOK
BY LimitAssumption DEF Init, TypeOK, Tables, Empty

\* A new operation has a program to run and, if it is a Store, an ID.
LEMMA StartType ==
    ASSUME TypeOK, NEW p \in Goroutines, NEW o \in Ops, Start(p, o)
    PROVE  TypeOK'
<1>1. PICK S \in Requests(o) : sel' = [sel EXCEPT ![p] = S]
  BY DEF Start
<1>2. S \in SUBSET Ids /\ (o = "Store" => S # {})
  BY DEF Requests
<1>3. Len(Program(o)) \in Nat \ {0} /\ o # "idle"
  BY Lengths, OperationsAssumption DEF Ops, RequestOperations
<1>4. LocalType'
  BY <1>1, <1>2, <1>3 DEF Start, TypeOK, LocalType, Ops
<1> QED
  BY <1>4, TypeParts, TypePartsNext DEF Start, tables, history, SharedType

\* Each statement keeps the types.
LEMMA StatementType ==
    ASSUME TypeOK, NEW p \in Goroutines, Statement(p)
    PROVE  TypeOK'
<1> USE TypeParts, TypePartsNext
<1>1. CASE Select(p)
  <2>1. PICK S \in Selections(p) : (S # {} /\ GoOn(p, S)) \/ (Leave(p) /\ UNCHANGED acked)
    BY <1>1 DEF Select
  <2>2. S \in SUBSET Ids /\ op[p] # "idle"
    BY <1>1 DEF Selections, Select, At, TypeOK, Tables
  <2>3. LocalType' /\ acked' \in SUBSET Ids
    BY <2>1, <2>2, GoOnType, LeaveType DEF TypeOK
  <2> QED
    BY <1>1, <2>3 DEF Select, tables, SharedType
<1>2. CASE Count(p)
  <2>1. db.mailbox \in SUBSET Ids /\ op[p] = "DeleteAll"
    BY <1>2, Position DEF Count, TypeOK, Tables
  <2>2. LocalType' /\ acked' \in SUBSET Ids
    BY <1>2, <2>1, GoOnType DEF Count
  <2> QED
    BY <1>2, <2>2 DEF Count, tables, SharedType
<1>3. CASE Begin(p)
  <2>1. LocalType' /\ acked' \in SUBSET Ids
    BY <1>3, GoOnSame DEF Begin
  <2> QED
    BY <1>3, <2>1 DEF Begin, SharedType
<1>4. CASE Write(p)
  <2>1. LocalType' /\ acked' \in SUBSET Ids
    BY <1>4, GoOnSame DEF Write
  <2>2. db \in Tables /\ sel[p] \in SUBSET Ids
    BY DEF TypeOK
  <2>3. db' \in Tables
    <3>1. ASSUME NEW S \in SUBSET Ids
          PROVE  /\ [db EXCEPT !.mailbox = S] \in Tables
                 /\ [db EXCEPT !.mailbox_data = S] \in Tables
                 /\ [db EXCEPT !.message_tags = S] \in Tables
      BY <2>2 DEF Tables
    <3>2. \E S \in SUBSET Ids : \/ db' = [db EXCEPT !.mailbox = S]
                               \/ db' = [db EXCEPT !.mailbox_data = S]
                               \/ db' = [db EXCEPT !.message_tags = S]
      <4>1. db.mailbox \subseteq Ids /\ db.mailbox_data \subseteq Ids /\ db.message_tags \subseteq Ids
        BY <2>2 DEF Tables
      <4> QED
        BY <1>4, <2>2, <4>1 DEF Write
    <3> QED
      BY <3>1, <3>2
  <2> QED
    BY <1>4, <2>1, <2>3 DEF Write, SharedType
<1>5. CASE Commit(p)
  <2>1. LocalType' /\ acked' \in SUBSET Ids
    BY <1>5, GoOnSame DEF Commit
  <2>2. removed' \in SUBSET Ids
    BY <1>5 DEF Commit, TypeOK, Tables
  <2> QED
    BY <1>5, <2>1, <2>2 DEF Commit, SharedType
<1>6. CASE SetTags(p)
  <2>1. LocalType' /\ acked' \in SUBSET Ids
    BY <1>6, GoOnSame DEF SetTags
  <2>2. sel[p] \in SUBSET Ids
    BY DEF TypeOK
  <2>3. db' \in Tables /\ committed' \in Tables
    <3>1. PICK tagged \in {{}, sel[p]} :
             /\ db' = [db EXCEPT !.message_tags = @ \union tagged]
             /\ committed' = [committed EXCEPT !.message_tags = @ \union tagged]
      BY <1>6 DEF SetTags
    <3>2. tagged \in SUBSET Ids
      BY <2>2
    <3> QED
      BY <3>1, <3>2 DEF TypeOK, Tables
  <2> QED
    BY <1>6, <2>1, <2>3 DEF SetTags, SharedType
<1>7. CASE Housekeep(p)
  <2>1. LocalType' /\ acked' \in SUBSET Ids
    BY <1>7, GoOnSame DEF Housekeep
  <2> QED
    BY <1>7, <2>1 DEF Housekeep, tables, SharedType
<1>8. CASE LogDeleted(p)
  <2>1. LocalType' /\ acked' \in SUBSET Ids
    BY <1>8, GoOnSame DEF LogDeleted
  <2>2. statsDeleted' \in Nat
    BY <1>8, IdsCardinality DEF LogDeleted, TypeOK
  <2> QED
    BY <1>8, <2>1, <2>2 DEF LogDeleted, tables, SharedType
<1>9. CASE Announce(p)
  <2>1. LocalType' /\ acked' \in SUBSET Ids
    BY <1>9, GoOnSame DEF Announce, Tells
  <2>2. announced' \in SUBSET Ids
    BY <1>9 DEF Announce, TypeOK
  <2> QED
    BY <1>9, <2>1, <2>2 DEF Announce, tables, SharedType
<1> QED
  BY <1>1, <1>2, <1>3, <1>4, <1>5, <1>6, <1>7, <1>8, <1>9 DEF Statement

\* So do a failure and a crash.
LEMMA FailType ==
    ASSUME TypeOK, NEW p \in Goroutines, Fail(p)
    PROVE  TypeOK'
<1>1. LocalType' /\ acked' \in SUBSET Ids
  <2>1. \E s \in TxStatements \union DbStatements : At(p, s)
    BY DEF Fail
  <2>2. CASE \E s \in TryStatements : At(p, s) /\ GoOn(p, sel[p])
    BY <2>2, GoOnSame DEF TryStatements
  <2>3. CASE Leave(p) /\ UNCHANGED acked
    BY <2>3, LeaveType DEF TypeOK
  <2> QED
    BY <2>2, <2>3 DEF Fail
<1>2. SharedType'
  BY LimitAssumption DEF Fail, TypeOK, SharedType
<1> QED
  BY <1>1, <1>2, TypePartsNext

\* A restart is well typed.
LEMMA CrashType ==
    ASSUME TypeOK, Crash
    PROVE  TypeOK'
BY LimitAssumption DEF Crash, TypeOK

\* Every step of the program keeps TypeOK.
LEMMA StepType == TypeOK /\ [Next]_vars => TypeOK'
<1> SUFFICES ASSUME TypeOK, [Next]_vars PROVE TypeOK'
  OBVIOUS
<1>1. CASE UNCHANGED vars
  BY <1>1 DEF TypeOK, vars, tables, local, history
<1>2. CASE Next
  BY <1>2, StatementType, FailType, CrashType, StartType DEF Next, Ops
<1> QED
  BY <1>1, <1>2

\* Every value stays in its range, and no statement is built from an empty list.
THEOREM TypeCorrect == Spec => []TypeOK
BY InitType, StepType, PTL DEF Spec

----------------------------------------------------------------------------
(* Summaries and bodies                                                    *)

\* A goroutine that has the connection is at a statement of a transaction.
LEMMA InsideTx ==
    ASSUME TypeOK, NEW p \in Goroutines, TxState(p)
    PROVE  \E s \in TxStatements : At(p, s)
<1>1. CASE op[p] = "Store"
  BY <1>1, ProgramOf DEF TxState, At, Store, TxStatements
<1>2. CASE op[p] = "DeleteMessages"
  BY <1>2, ProgramOf DEF TxState, At, DeleteMessages, TxStatements
<1>3. CASE op[p] = "DeleteSearch"
  BY <1>3, ProgramOf DEF TxState, At, DeleteSearch, TxStatements
<1>4. CASE op[p] = "Prune"
  BY <1>4, ProgramOf DEF TxState, At, Prune, TxStatements
<1>5. CASE op[p] = "DeleteAll"
  BY <1>5, ProgramOf DEF TxState, At, DeleteAll, TxStatements
<1> QED
  BY <1>1, <1>2, <1>3, <1>4, <1>5 DEF TxState

\* A step outside of a transaction that leaves the tables alone keeps DiskInv.
LEMMA OutsideTx ==
    ASSUME TypeOK, DiskInv, NEW p \in Goroutines,
           \A s \in TxStatements : ~At(p, s),
           UNCHANGED tables,
           \A q \in Goroutines : q # p =>
                 op'[q] = op[q] /\ pc'[q] = pc[q] /\ sel'[q] = sel[q]
    PROVE  DiskInv'
<1>1. conn # p
  BY InsideTx DEF DiskInv
<1>2. ASSUME NEW q \in Goroutines, conn' = q PROVE TxState(q)'
  <2>1. TxState(q) /\ q # p /\ db' = db /\ committed' = committed
    BY <1>1, <1>2 DEF DiskInv, tables
  <2>2. op'[q] = op[q] /\ pc'[q] = pc[q] /\ sel'[q] = sel[q]
    BY <2>1
  <2> QED
    BY <2>1, <2>2 DEF TxState
<1> QED
  BY <1>2 DEF DiskInv, tables

\* The transaction of p is where it was and one statement further.
LEMMA NextStatement ==
    ASSUME TypeOK, NEW p \in Goroutines, NEW s, At(p, s), s # "select",
           GoOn(p, sel[p]), pc[p] < 6, op[p] # "Store" \/ pc[p] < 5
    PROVE  op'[p] = op[p] /\ pc'[p] = pc[p] + 1 /\ sel'[p] = sel[p] /\ acked' = acked
<1>1. op[p] # "idle" /\ sel[p] \in SUBSET Ids /\ (op[p] # "DeleteAll" => sel[p] # {})
  BY SelectedIDs
<1>2. pc[p] # Len(Program(op[p]))
  <2>1. CASE op[p] = "Store"
    <3>1. Len(Program(op[p])) = 6
      BY <2>1, <1>1, LongEnough
    <3>2. pc[p] \in Nat /\ pc[p] < 5
      BY <2>1 DEF TypeOK
    <3> QED
      BY <3>1, <3>2
  <2>2. CASE op[p] # "Store"
    <3>1. Len(Program(op[p])) = 9 \/ Len(Program(op[p])) = 10
      BY <2>2, <1>1, LongEnough
    <3>2. pc[p] # 9 /\ pc[p] # 10
      BY DEF TypeOK
    <3> QED
      BY <3>1, <3>2
  <2> QED
    BY <2>1, <2>2
<1> QED
  BY <1>1, <1>2, GoOnType

\* A transaction begins on the tables that are on disk.
LEMMA BeginDisk ==
    ASSUME TypeOK, DiskInv, NEW p \in Goroutines, Begin(p)
    PROVE  DiskInv'
<1>1. At(p, "begin") /\ db = committed
  BY DEF Begin, DiskInv
<1>2. \/ op[p] = "Store" /\ pc[p] = 1
      \/ op[p] # "Store" /\ pc[p] = 2
  BY <1>1, Position
<1>3. op'[p] = op[p] /\ pc'[p] = pc[p] + 1
  BY <1>1, <1>2, NextStatement DEF Begin
<1>4. op[p] \in {"Store", "DeleteMessages", "DeleteSearch", "Prune", "DeleteAll"}
  BY <1>1, OperationNames DEF At
<1>5. TxState(p)'
  BY <1>1, <1>2, <1>3, <1>4 DEF TxState, Begin, DiskInv
<1> QED
  BY <1>5, GoroutineAssumption DEF DiskInv, Begin, Goroutines

\* Each statement does to the tables what TxState says is done after it.
LEMMA WriteDisk ==
    ASSUME TypeOK, DiskInv, NEW p \in Goroutines, Write(p)
    PROVE  DiskInv' /\ UNCHANGED <<committed, removed, acked>>
<1>1. TxState(p) /\ conn' = conn /\ committed' = committed /\ conn = p /\ removed' = removed
  BY DEF Write, DiskInv
<1>2. sel[p] \in SUBSET Ids /\ db.mailbox \in SUBSET Ids /\ committed.mailbox \in SUBSET Ids
  BY DEF TypeOK, Tables
<1>3. pc[p] < 6 /\ (op[p] = "Store" => pc[p] < 5)
  BY Position DEF Write
<1>4. op'[p] = op[p] /\ pc'[p] = pc[p] + 1 /\ sel'[p] = sel[p] /\ acked' = acked
  BY <1>3, NextStatement DEF Write
<1>5. TxState(p)'
  <2>1. CASE At(p, "insertMailbox") /\ db' = [db EXCEPT !.mailbox = @ \union sel[p]]
    <3>1. db'.mailbox = db.mailbox \union sel[p] /\ db'.mailbox_data = db.mailbox_data
      BY <2>1 DEF TypeOK, Tables
    <3> QED
      BY <1>1, <1>4, <2>1, <3>1, Position DEF TxState
  <2>2. CASE At(p, "insertData") /\ db' = [db EXCEPT !.mailbox_data = @ \union sel[p]]
    <3>1. db'.mailbox_data = db.mailbox_data \union sel[p] /\ db'.mailbox = db.mailbox
      BY <2>2 DEF TypeOK, Tables
    <3> QED
      BY <1>1, <1>4, <2>2, <3>1, Position DEF TxState
  <2>3. CASE At(p, "deleteMailbox") /\ db' = [db EXCEPT !.mailbox = @ \ sel[p]]
    <3>1. db'.mailbox = db.mailbox \ sel[p] /\ db'.mailbox_data = db.mailbox_data
      BY <2>3 DEF TypeOK, Tables
    <3> QED
      BY <1>1, <1>4, <2>3, <3>1, Position DEF TxState
  <2>4. CASE At(p, "deleteData") /\ db' = [db EXCEPT !.mailbox_data = @ \ sel[p]]
    <3>1. db'.mailbox_data = db.mailbox_data \ sel[p] /\ db'.mailbox = db.mailbox
      BY <2>4 DEF TypeOK, Tables
    <3> QED
      BY <1>1, <1>4, <2>4, <3>1, Position DEF TxState, DiskInv
  <2>5. CASE At(p, "deleteTags") /\ db' = [db EXCEPT !.message_tags = @ \ sel[p]]
    <3>1. db'.mailbox_data = db.mailbox_data /\ db'.mailbox = db.mailbox
      BY <2>5 DEF TypeOK, Tables
    <3> QED
      BY <1>1, <1>4, <2>5, <3>1, Position DEF TxState
  <2>6. CASE At(p, "emptyMailbox") /\ db' = [db EXCEPT !.mailbox = {}]
    <3>1. db'.mailbox = {} /\ db'.mailbox_data = db.mailbox_data
      BY <2>6 DEF TypeOK, Tables
    <3> QED
      BY <1>1, <1>4, <2>6, <3>1, Position DEF TxState
  <2>7. CASE At(p, "emptyData") /\ db' = [db EXCEPT !.mailbox_data = {}]
    <3>1. db'.mailbox_data = {} /\ db'.mailbox = db.mailbox
      BY <2>7 DEF TypeOK, Tables
    <3> QED
      BY <1>1, <1>4, <2>7, <3>1, Position DEF TxState
  <2>8. CASE At(p, "emptyTags") /\ db' = [db EXCEPT !.message_tags = {}]
    <3>1. db'.mailbox_data = db.mailbox_data /\ db'.mailbox = db.mailbox
      BY <2>8 DEF TypeOK, Tables
    <3> QED
      BY <1>1, <1>4, <2>8, <3>1, Position DEF TxState
  <2> QED
    BY <2>1, <2>2, <2>3, <2>4, <2>5, <2>6, <2>7, <2>8 DEF Write
<1> QED
  BY <1>1, <1>4, <1>5, GoroutineAssumption DEF DiskInv, Goroutines

\* What a commit makes of the mailbox on disk: a Store adds its ID, any other
\* operation takes IDs away.
LEMMA CommitEffect ==
    ASSUME TypeOK, DiskInv, NEW p \in Goroutines, Commit(p)
    PROVE  /\ DiskInv'
           /\ op'[p] = op[p] /\ pc'[p] = pc[p] + 1 /\ sel'[p] = sel[p] /\ acked' = acked
           /\ removed' = removed \union (committed.mailbox \ committed'.mailbox)
           /\ op[p] = "Store" =>
                 pc[p] = 4 /\ committed'.mailbox = committed.mailbox \union sel[p]
           /\ op[p] # "Store" => committed'.mailbox \subseteq committed.mailbox
<1>1. TxState(p) /\ (At(p, "commit") \/ At(p, "tryCommit"))
  BY DEF Commit, DiskInv
<1>2. \/ op[p] = "Store" /\ pc[p] = 4
      \/ op[p] \in {"DeleteMessages", "DeleteSearch", "DeleteAll", "Prune"} /\ pc[p] = 6
  BY <1>1, Position
<1>3. db.mailbox = db.mailbox_data
  BY <1>1, <1>2 DEF TxState
<1>4. op[p] # "idle" /\ sel[p] \in SUBSET Ids /\ (op[p] # "DeleteAll" => sel[p] # {})
  BY <1>1, SelectedIDs
<1>5. pc[p] # Len(Program(op[p]))
  <2>1. CASE op[p] = "Store"
    <3>1. Len(Program(op[p])) = 6
      BY <2>1, <1>4, LongEnough
    <3>2. pc[p] = 4
      BY <1>2, <2>1
    <3> QED
      BY <3>1, <3>2
  <2>2. CASE op[p] # "Store"
    <3>1. Len(Program(op[p])) \in {9, 10}
      BY <2>2, <1>4, LongEnough
    <3>2. pc[p] = 6
      BY <1>2, <2>2
    <3> QED
      BY <3>1, <3>2
  <2> QED
    BY <2>1, <2>2
<1>6. op'[p] = op[p] /\ pc'[p] = pc[p] + 1 /\ sel'[p] = sel[p] /\ acked' = acked
  BY <1>4, <1>5, GoOnType DEF Commit
<1>7. DiskInv'
  BY <1>3, GoroutineAssumption DEF Commit, DiskInv, Goroutines
<1> QED
  BY <1>1, <1>2, <1>6, <1>7 DEF Commit, TxState

\* Every step keeps DiskInv.
LEMMA StatementDisk ==
    ASSUME TypeOK, DiskInv, NEW p \in Goroutines, Statement(p)
    PROVE  /\ DiskInv'
           /\ Commit(p) \/ (committed'.mailbox = committed.mailbox /\ removed' = removed)
<1>1. CASE Select(p)
  <2>1. \A s \in TxStatements : ~At(p, s)
    BY <1>1 DEF Select, At, TxStatements
  <2>2. PICK S \in Selections(p) : (S # {} /\ GoOn(p, S)) \/ (Leave(p) /\ UNCHANGED acked)
    BY <1>1 DEF Select
  <2>3. S \in SUBSET Ids /\ op[p] # "idle"
    BY <1>1 DEF Selections, Select, At, TypeOK, Tables
  <2>4. \A q \in Goroutines : q # p =>
           op'[q] = op[q] /\ pc'[q] = pc[q] /\ sel'[q] = sel[q]
    BY <2>2, <2>3, GoOnType, LeaveType
  <2>5. UNCHANGED tables /\ removed' = removed /\ committed' = committed
    BY <1>1 DEF Select, tables
  <2>6. DiskInv'
    BY <2>1, <2>4, <2>5, OutsideTx
  <2> QED
    BY <2>5, <2>6
<1>2. CASE Count(p)
  <2>1. \A s \in TxStatements : ~At(p, s)
    BY <1>2 DEF Count, At, TxStatements
  <2>2. db.mailbox \in SUBSET Ids /\ op[p] = "DeleteAll"
    BY <1>2, Position DEF Count, TypeOK, Tables
  <2>3. \A q \in Goroutines : q # p =>
           op'[q] = op[q] /\ pc'[q] = pc[q] /\ sel'[q] = sel[q]
    BY <1>2, <2>2, GoOnType DEF Count
  <2>4. UNCHANGED tables /\ removed' = removed /\ committed' = committed
    BY <1>2 DEF Count, tables
  <2>5. DiskInv'
    BY <2>1, <2>3, <2>4, OutsideTx
  <2> QED
    BY <2>4, <2>5
<1>3. CASE Begin(p)
  BY <1>3, BeginDisk DEF Begin
<1>4. CASE Write(p)
  BY <1>4, WriteDisk
<1>5. CASE Commit(p)
  BY <1>5, CommitEffect
<1>6. CASE SetTags(p)
  <2>1. PICK tagged \in {{}, sel[p]} :
           /\ db' = [db EXCEPT !.message_tags = @ \union tagged]
           /\ committed' = [committed EXCEPT !.message_tags = @ \union tagged]
    BY <1>6 DEF SetTags
  <2>2. /\ committed'.mailbox = committed.mailbox
        /\ committed'.mailbox_data = committed.mailbox_data
    BY <2>1 DEF TypeOK, Tables
  <2>3. conn' = Nobody /\ db = committed /\ removed' = removed
    BY <1>6 DEF SetTags, DiskInv
  <2> QED
    BY <2>1, <2>2, <2>3, GoroutineAssumption DEF DiskInv, Goroutines
<1>7. CASE Housekeep(p) \/ LogDeleted(p) \/ Announce(p)
  <2>1. PICK s : At(p, s) /\ s # "select" /\ s \notin TxStatements
    BY <1>7 DEF Housekeep, LogDeleted, Announce, Tells, TxStatements
  <2>2. \A t \in TxStatements : ~At(p, t)
    BY <2>1 DEF At
  <2>3. op[p] # "idle" /\ sel[p] \in SUBSET Ids /\ (op[p] # "DeleteAll" => sel[p] # {})
    BY <2>1, SelectedIDs
  <2>4. GoOn(p, sel[p])
    BY <1>7 DEF Housekeep, LogDeleted, Announce
  <2>5. \A q \in Goroutines : q # p =>
           op'[q] = op[q] /\ pc'[q] = pc[q] /\ sel'[q] = sel[q]
    BY <2>3, <2>4, GoOnType
  <2>6. UNCHANGED tables /\ removed' = removed /\ committed' = committed
    BY <1>7 DEF Housekeep, LogDeleted, Announce, tables
  <2>7. DiskInv'
    BY <2>2, <2>5, <2>6, OutsideTx
  <2> QED
    BY <2>6, <2>7
<1> QED
  BY <1>1, <1>2, <1>3, <1>4, <1>5, <1>6, <1>7 DEF Statement

\* Starting an operation touches neither the tables nor another goroutine.
LEMMA StartDisk ==
    ASSUME TypeOK, DiskInv, NEW p \in Goroutines, NEW o \in Ops, Start(p, o)
    PROVE  /\ DiskInv' /\ committed' = committed /\ removed' = removed /\ acked' = acked
           /\ op' = [op EXCEPT ![p] = o] /\ pc' = [pc EXCEPT ![p] = 1]
           /\ \A q \in Goroutines : q # p =>
                 op'[q] = op[q] /\ pc'[q] = pc[q] /\ sel'[q] = sel[q]
<1>1. \A q \in Goroutines : q # p =>
          op'[q] = op[q] /\ pc'[q] = pc[q] /\ sel'[q] = sel[q]
  BY DEF Start, TypeOK
<1>2. \A s \in TxStatements : ~At(p, s)
  BY DEF Start, At
<1>3. UNCHANGED tables
  BY DEF Start
<1> QED
  BY <1>1, <1>2, <1>3, OutsideTx DEF Start, tables, history

\* A failed statement leaves what is on disk, and rolls the rest back.
LEMMA FailDisk ==
    ASSUME TypeOK, DiskInv, NEW p \in Goroutines, Fail(p)
    PROVE  DiskInv' /\ committed' = committed /\ removed' = removed
BY GoroutineAssumption DEF Fail, DiskInv, Goroutines

\* A crash leaves what is on disk.
LEMMA CrashDisk ==
    ASSUME TypeOK, DiskInv, Crash
    PROVE  DiskInv' /\ committed' = committed /\ removed' = removed
BY GoroutineAssumption DEF Crash, DiskInv, Goroutines

\* DiskInv holds of the empty mailbox.
LEMMA InitDisk == Init => DiskInv
BY GoroutineAssumption DEF Init, DiskInv, Empty, Goroutines

\* Every step of the program keeps DiskInv.
LEMMA StepDisk ==
    TypeOK /\ DiskInv /\ [Next]_vars => DiskInv'
<1> SUFFICES ASSUME TypeOK, DiskInv, [Next]_vars PROVE DiskInv'
  OBVIOUS
<1>1. CASE UNCHANGED vars
  BY <1>1 DEF DiskInv, TxState, vars, tables, local
<1>2. CASE Next
  BY <1>2, StatementDisk, StartDisk, FailDisk, CrashDisk DEF Next, Ops
<1> QED
  BY <1>1, <1>2

\* A summary is on disk exactly when its body is, and readers see what is on
\* disk: the transactions of Store and of the deletions put them there and take
\* them away together.
THEOREM SummariesHaveBodies == Spec => []TablesAgree
<1>1. Init => TypeOK /\ DiskInv
  BY InitType, InitDisk
<1>2. TypeOK /\ DiskInv /\ [Next]_vars => (TypeOK /\ DiskInv)'
  BY StepType, StepDisk
<1>3. TypeOK /\ DiskInv => TablesAgree
  BY DEF DiskInv, TablesAgree
<1> QED
  BY <1>1, <1>2, <1>3, PTL DEF Spec

----------------------------------------------------------------------------
(* The mailbox on disk implements MessageStore                             *)

\* The statements of Store; the fourth is the commit.
LEMMA StoreStatements ==
    ASSUME TypeOK, NEW p \in Goroutines, op[p] = "Store"
    PROVE  /\ \A s \in TryStatements : ~At(p, s)
           /\ pc[p] = 4 => At(p, "commit")
<1>1. pc[p] \in 1..6
  BY Lengths DEF TypeOK
<1> QED
  BY <1>1, ProgramOf DEF At, Store, TryStatements

\* A Store that goes on keeps its ID, and commits before the statements after
\* the fourth.
LEMMA StoreGoesOn ==
    ASSUME TypeOK, NEW p \in Goroutines, Statement(p) \/ Fail(p), op'[p] = "Store"
    PROVE  /\ op[p] = "Store" /\ sel'[p] = sel[p] /\ pc'[p] = pc[p] + 1
           /\ pc[p] = 4 => Commit(p)
<1>1. CASE Select(p)
  <2>1. PICK S \in Selections(p) : (S # {} /\ GoOn(p, S)) \/ (Leave(p) /\ UNCHANGED acked)
    BY <1>1 DEF Select
  <2>2. S \in SUBSET Ids /\ op[p] # "idle" /\ op[p] # "Store"
    BY <1>1, Position DEF Selections, Select, At, TypeOK, Tables
  <2>3. op'[p] \in {op[p], "idle"}
    BY <2>1, <2>2, GoOnType, LeaveType DEF TypeOK
  <2> QED
    BY <2>2, <2>3
<1>2. CASE Count(p)
  <2>1. db.mailbox \in SUBSET Ids /\ op[p] = "DeleteAll"
    BY <1>2, Position DEF Count, TypeOK, Tables
  <2> QED
    BY <1>2, <2>1, GoOnType DEF Count
<1>3. CASE Statement(p) /\ ~Select(p) /\ ~Count(p)
  <2>1. GoOn(p, sel[p])
    BY <1>3 DEF Statement, Begin, Write, Commit, SetTags, Housekeep, LogDeleted, Announce
  <2>2. PICK s : At(p, s) /\ s # "select" /\ (Commit(p) \/ s # "commit")
    BY <1>3 DEF Statement, Begin, Write, Commit, SetTags, Housekeep, LogDeleted, Announce, Tells
  <2>3. op[p] # "idle" /\ sel[p] \in SUBSET Ids /\ (op[p] # "DeleteAll" => sel[p] # {})
    BY <2>2, SelectedIDs
  <2>4. op[p] = "Store" /\ sel'[p] = sel[p] /\ pc'[p] = pc[p] + 1
    BY <2>1, <2>3, GoOnType
  <2>5. ASSUME pc[p] = 4 PROVE Commit(p)
    <3>1. At(p, "commit")
      BY <2>4, <2>5, StoreStatements
    <3> QED
      BY <2>2, <3>1 DEF At
  <2> QED
    BY <2>4, <2>5
<1>4. CASE Fail(p)
  <2>1. CASE \E s \in TryStatements : At(p, s) /\ GoOn(p, sel[p])
    <3>1. PICK s \in TryStatements : At(p, s) /\ GoOn(p, sel[p])
      BY <2>1
    <3>2. op[p] # "idle" /\ sel[p] \in SUBSET Ids /\ (op[p] # "DeleteAll" => sel[p] # {})
      BY <3>1, SelectedIDs DEF TryStatements
    <3>3. op[p] = "Store"
      BY <3>1, <3>2, GoOnType
    <3> QED
      BY <3>1, <3>3, StoreStatements
  <2>2. CASE Leave(p)
    BY <2>2, LeaveType DEF TypeOK
  <2> QED
    BY <1>4, <2>1, <2>2 DEF Fail
<1> QED
  BY <1>1, <1>2, <1>3, <1>4

\* Nor does a statement or a failure touch another goroutine.
LEMMA OthersStay ==
    ASSUME TypeOK, NEW p \in Goroutines, Statement(p) \/ Fail(p),
           NEW q \in Goroutines, q # p
    PROVE  op'[q] = op[q] /\ pc'[q] = pc[q] /\ sel'[q] = sel[q]
<1>1. \/ \E S : GoOn(p, S)
      \/ Leave(p)
  BY DEF Statement, Fail, Select, Count, Begin, Write, Commit, SetTags, Housekeep,
         LogDeleted, Announce
<1> QED
  BY <1>1 DEF GoOn, Leave, TypeOK

\* Every step keeps StoreInv: a new ID is fresh, and it is on disk from the
\* commit on, until it is removed.
LEMMA StepStores ==
    ASSUME IInv, [Next]_vars
    PROVE  \A p \in Goroutines : StoreInv(p)'
<1> DEFINE seen == committed.mailbox \union removed
<1> USE DEF IInv
<1>1. CASE UNCHANGED vars
  BY <1>1 DEF StoreInv, vars, tables, local, history
<1>2. ASSUME Crash, NEW p \in Goroutines PROVE StoreInv(p)'
  BY <1>2 DEF Crash, StoreInv
<1>3. ASSUME NEW p \in Goroutines, NEW o \in Ops, Start(p, o), NEW q \in Goroutines
      PROVE  StoreInv(q)'
  <2>1. /\ committed' = committed /\ removed' = removed
        /\ op'[p] = o /\ pc'[p] = 1
        /\ \A r \in Goroutines : r # p =>
              op'[r] = op[r] /\ pc'[r] = pc[r] /\ sel'[r] = sel[r]
    BY <1>3, StartDisk DEF TypeOK
  <2>2. PICK S \in Requests(o) : sel'[p] = S
    BY <1>3 DEF Start, TypeOK
  <2>3. o = "Store" => \E m \in Ids : Fresh(m) /\ S = {m}
    BY <2>2 DEF Requests
  <2>4. o = "Store" =>
            /\ \E m \in Ids : sel'[p] = {m}
            /\ sel'[p] \intersect seen = {}
            /\ \A r \in Goroutines : r # p /\ op[r] = "Store" => sel[r] # sel'[p]
    BY <2>2, <2>3 DEF Fresh
  <2>5. CASE q = p
    BY <2>1, <2>4, <2>5 DEF StoreInv
  <2>6. CASE q # p
    BY <2>1, <2>4, <2>6 DEF StoreInv
  <2> QED
    BY <2>5, <2>6
<1>4. ASSUME NEW p \in Goroutines, Statement(p) \/ Fail(p), NEW q \in Goroutines
      PROVE  StoreInv(q)'
  <2>1. \A r \in Goroutines : r # p =>
              op'[r] = op[r] /\ pc'[r] = pc[r] /\ sel'[r] = sel[r]
    BY <1>4, OthersStay
  <2>2. op'[p] = "Store" =>
           /\ op[p] = "Store" /\ sel'[p] = sel[p] /\ pc'[p] = pc[p] + 1
           /\ pc[p] = 4 => Commit(p)
    BY <1>4, StoreGoesOn
  <2>3. \/ committed'.mailbox = committed.mailbox /\ removed' = removed
        \/ Commit(p)
    BY <1>4, StatementDisk, FailDisk
  <2>4. CASE committed'.mailbox = committed.mailbox /\ removed' = removed /\ ~Commit(p)
    <3>1. CASE q = p
      <4>1. /\ op'[p] = "Store" => op[p] = "Store" /\ sel'[p] = sel[p] /\ pc'[p] = pc[p] + 1 /\ pc[p] # 4
            /\ pc[p] \in Nat
        BY <2>2, <2>4 DEF TypeOK
      <4>2. \A r \in Goroutines : r # p => op'[r] = op[r] /\ sel'[r] = sel[r]
        BY <2>1
      <4> QED
        BY <2>4, <3>1, <4>1, <4>2 DEF StoreInv
    <3>2. CASE q # p
      BY <2>1, <2>2, <2>4, <3>2 DEF StoreInv
    <3> QED
      BY <3>1, <3>2
  <2>5. CASE Commit(p) /\ op[p] = "Store"
    <3>1. /\ committed'.mailbox = committed.mailbox \union sel[p] /\ pc[p] = 4
          /\ op'[p] = "Store" /\ sel'[p] = sel[p] /\ pc'[p] = 5
      BY <2>5, CommitEffect
    <3>4. removed' = removed
      <4>1. removed' = removed \union (committed.mailbox \ committed'.mailbox)
        BY <2>5, CommitEffect
      <4> QED
        BY <3>1, <4>1
    <3>2. CASE q = p
      BY <2>1, <2>5, <3>1, <3>2, <3>4 DEF StoreInv
    <3>3. CASE q # p
      BY <2>1, <2>5, <3>1, <3>3, <3>4 DEF StoreInv
    <3> QED
      BY <3>2, <3>3
  <2>6. CASE Commit(p) /\ op[p] # "Store"
    <3>1. op'[p] # "Store"
      BY <2>6, CommitEffect
    <3>2. committed'.mailbox \union removed' = seen
      BY <2>6, CommitEffect
    <3>3. CASE q = p
      BY <3>1, <3>3 DEF StoreInv
    <3>4. CASE q # p
      BY <2>1, <3>1, <3>2, <3>4 DEF StoreInv
    <3> QED
      BY <3>3, <3>4
  <2> QED
    BY <2>3, <2>4, <2>5, <2>6
<1> QED
  BY <1>1, <1>2, <1>3, <1>4 DEF Next, Ops

\* No Store is under way at the start.
LEMMA InitStores == Init => \A p \in Goroutines : StoreInv(p)
BY DEF Init, StoreInv

\* The inductive invariant of the mailbox: what every transaction under way has
\* done to the tables, and whose ID every Store has.
THEOREM MailboxInductive == Spec => []IInv
<1>1. Init => IInv
  BY InitType, InitDisk, InitStores DEF IInv
<1>2. IInv /\ [Next]_vars => IInv'
  BY StepType, StepDisk, StepStores DEF IInv
<1> QED
  BY <1>1, <1>2, PTL DEF Spec

\* Only a Store that returns acknowledges, and it does so at the end.
LEMMA AckStep ==
    ASSUME IInv, NEW p \in Goroutines, Statement(p) \/ Fail(p)
    PROVE  \/ acked' = acked
           \/ /\ ~Commit(p)
              /\ \E m \in Ids : /\ m \in committed.mailbox \union removed
                                /\ acked' = acked \union {m}
<1> USE DEF IInv
<1>1. CASE acked' = acked
  BY <1>1
<1>2. CASE acked' # acked
  <2>1. PICK S : GoOn(p, S) /\ Last(p) /\ op[p] = "Store" /\ acked' = acked \union S
                 /\ (S = sel[p] \/ Select(p) \/ Count(p))
    BY <1>2 DEF Statement, Fail, Select, Count, Begin, Write, Commit, SetTags, Housekeep,
                LogDeleted, Announce, GoOn
  <2>2. ~Select(p) /\ ~Count(p)
    BY <2>1, Position DEF Select, Count
  <2>3. pc[p] = 6
    BY <2>1, LongEnough DEF Last
  <2>4. ~Commit(p)
    BY <2>1, <2>3, Position DEF Commit
  <2>5. sel[p] \subseteq committed.mailbox \union removed /\ \E m \in Ids : sel[p] = {m}
    BY <2>1, <2>3 DEF StoreInv
  <2> QED
    BY <2>1, <2>2, <2>4, <2>5
<1> QED
  BY <1>1, <1>2

\* Every step is a step of MessageStore or changes nothing of it.
LEMMA StepImplements ==
    ASSUME IInv, [Next]_vars
    PROVE  [Promise!Next]_<<committed.mailbox, removed, acked>>
<1> USE DEF IInv
<1>1. CASE UNCHANGED vars
  BY <1>1 DEF vars, tables, history
<1>2. CASE Crash
  BY <1>2 DEF Crash
<1>3. ASSUME NEW p \in Goroutines, NEW o \in Ops, Start(p, o)
      PROVE  UNCHANGED <<committed.mailbox, removed, acked>>
  BY <1>3, StartDisk
<1>4. ASSUME NEW p \in Goroutines, Statement(p) \/ Fail(p)
      PROVE  [Promise!Next]_<<committed.mailbox, removed, acked>>
  <2>1. CASE Commit(p) /\ op[p] = "Store"
    <3>1. PICK m \in Ids : sel[p] = {m}
      BY <2>1 DEF StoreInv
    <3>2. /\ committed'.mailbox = committed.mailbox \union {m}
          /\ pc[p] = 4 /\ acked' = acked
          /\ removed' = removed \union (committed.mailbox \ committed'.mailbox)
      BY <2>1, <3>1, CommitEffect
    <3>3. m \notin committed.mailbox \union removed
      BY <2>1, <3>1, <3>2 DEF StoreInv
    <3>4. removed' = removed
      BY <3>2
    <3> QED
      BY <3>2, <3>3, <3>4 DEF Promise!Next, Promise!Add
  <2>2. CASE Commit(p) /\ op[p] # "Store"
    <3> DEFINE S == committed.mailbox \ committed'.mailbox
    <3>1. /\ committed'.mailbox \subseteq committed.mailbox
          /\ removed' = removed \union S /\ acked' = acked
      BY <2>2, CommitEffect
    <3>2. S \in SUBSET committed.mailbox /\ committed'.mailbox = committed.mailbox \ S
      BY <3>1
    <3>3. Promise!Remove(S)
      BY <3>1, <3>2 DEF Promise!Remove
    <3> QED
      BY <3>2, <3>3 DEF Promise!Next
  <2>3. CASE ~Commit(p)
    <3>1. committed'.mailbox = committed.mailbox /\ removed' = removed
      BY <1>4, <2>3, StatementDisk, FailDisk
    <3>2. CASE acked' = acked
      BY <3>1, <3>2
    <3>3. CASE acked' # acked
      BY <1>4, <3>1, <3>3, AckStep DEF Promise!Next, Promise!Acknowledge
    <3> QED
      BY <3>2, <3>3
  <2> QED
    BY <2>1, <2>2, <2>3
<1> QED
  BY <1>1, <1>2, <1>3, <1>4 DEF Next, Ops

\* Whatever overlaps, fails or is cut off, the mailbox on disk behaves as a set
\* of messages that appear whole, stay once acknowledged until an operation removes
\* them, and never come back.
THEOREM MailboxKeepsItsPromise == Spec => ImplementsMessageStore
<1>1. Init => Promise!Init
  BY DEF Init, Empty, Promise!Init
<1>2. IInv /\ [Next]_vars => [Promise!Next]_<<committed.mailbox, removed, acked>>
  BY StepImplements
<1>3. <<committed.mailbox, removed, acked>> = Promise!vars
  BY DEF Promise!vars
<1> QED
  BY <1>1, <1>2, <1>3, MailboxInductive, PTL DEF Spec, ImplementsMessageStore, Promise!StoreSpec, Promise!vars

\* What MessageStore promises in every state: what is acknowledged is there or was removed, and
\* nothing is both.
Survives ==
    /\ acked \subseteq committed.mailbox \union removed
    /\ committed.mailbox \intersect removed = {}

\* An acknowledged message stays in the mailbox on disk until an operation removes it, and a
\* removed one is never in it again, whatever fails or crashes: from the refinement alone.
THEOREM AcknowledgedSurvives == Spec => []Survives
<1>1. Promise!Init => Survives
  BY DEF Promise!Init, Survives
<1>2. Survives /\ [Promise!Next]_<<committed.mailbox, removed, acked>> => Survives'
  <2> SUFFICES ASSUME Survives, [Promise!Next]_<<committed.mailbox, removed, acked>> PROVE Survives'
    OBVIOUS
  <2> USE DEF Survives
  <2>1. CASE UNCHANGED <<committed.mailbox, removed, acked>>
    BY <2>1
  <2>2. ASSUME NEW m \in Ids, Promise!Add(m) PROVE Survives'
    BY <2>2 DEF Promise!Add
  <2>3. ASSUME NEW m \in Ids, Promise!Acknowledge(m) PROVE Survives'
    BY <2>3 DEF Promise!Acknowledge
  <2>4. ASSUME NEW S \in SUBSET committed.mailbox, Promise!Remove(S) PROVE Survives'
    BY <2>4 DEF Promise!Remove
  <2> QED
    BY <2>1, <2>2, <2>3, <2>4 DEF Promise!Next
<1>3. <<committed.mailbox, removed, acked>> = Promise!vars
  BY DEF Promise!vars
<1> QED
  BY <1>1, <1>2, <1>3, MailboxKeepsItsPromise, PTL
  DEF ImplementsMessageStore, Promise!StoreSpec, Promise!vars
----------------------------------------------------------------------------
(* The connection                                                          *)

\* Whoever has the connection is at a statement that runs on it: nobody waits for himself.
HolderGoesOn == \A p \in Goroutines : conn = p => \E s \in TxStatements : At(p, s)

\* What OperationsReturn rests on besides fairness: the holder of the connection never asks
\* for it again, so a statement that waits, waits for somebody who can go on.
THEOREM NobodyWaitsForHimself == Spec => []HolderGoesOn
<1>1. TypeOK /\ DiskInv => HolderGoesOn
  BY InsideTx DEF DiskInv, HolderGoesOn
<1> QED
  BY <1>1, MailboxInductive, PTL DEF IInv
----------------------------------------------------------------------------
(* Tag rows                                                                *)

\* What a deletion under way has done to the tag rows, by its next statement.
TagState(p) ==
    /\ op[p] \in {"DeleteMessages", "DeleteSearch"} /\ pc[p] = 6 =>
          sel[p] \intersect db.message_tags = {}
    /\ op[p] = "Prune" /\ pc[p] \in {5, 6} => sel[p] \intersect db.message_tags = {}
    /\ op[p] = "DeleteAll" /\ pc[p] = 6 => db.message_tags = {}

TagInv == \A p \in Goroutines : conn = p => TagState(p)

\* A step that leaves the connection and the tables alone and is not one of the
\* goroutine that has the connection keeps TagInv.
LEMMA OutsideTags ==
    ASSUME TypeOK, DiskInv, TagInv, NEW p \in Goroutines,
           \A s \in TxStatements : ~At(p, s),
           UNCHANGED tables,
           \A q \in Goroutines : q # p =>
                 op'[q] = op[q] /\ pc'[q] = pc[q] /\ sel'[q] = sel[q]
    PROVE  TagInv'
<1>1. conn # p
  BY InsideTx DEF DiskInv
<1> SUFFICES ASSUME NEW q \in Goroutines, conn' = q PROVE TagState(q)'
  BY DEF TagInv
<1>2. TagState(q) /\ q # p /\ db' = db
  BY <1>1 DEF TagInv, tables
<1>3. op'[q] = op[q] /\ pc'[q] = pc[q] /\ sel'[q] = sel[q]
  BY <1>2
<1> QED
  BY <1>2, <1>3 DEF TagState

\* The tags are deleted before the commit, and nothing brings them back meanwhile.
LEMMA WriteTags ==
    ASSUME TypeOK, DiskInv, TagInv, NEW p \in Goroutines, Write(p)
    PROVE  TagInv'
<1>1. conn = p /\ conn' = p /\ TagState(p) /\ TxState(p)
  BY DEF Write, TagInv, DiskInv
<1>2. pc[p] < 6 /\ (op[p] = "Store" => pc[p] < 5)
  BY Position DEF Write
<1>3. op'[p] = op[p] /\ pc'[p] = pc[p] + 1 /\ sel'[p] = sel[p]
  BY <1>2, NextStatement DEF Write
<1>4. CASE At(p, "deleteTags")
  <2>1. db'.message_tags = db.message_tags \ sel[p]
    BY <1>4 DEF Write, At, TypeOK, Tables
  <2> QED
    BY <1>1, <1>3, <1>4, <2>1, Position DEF TagInv, TagState
<1>5. CASE At(p, "emptyTags")
  <2>1. db'.message_tags = {}
    BY <1>5 DEF Write, At, TypeOK, Tables
  <2> QED
    BY <1>1, <1>3, <1>5, <2>1, Position DEF TagInv, TagState
<1>6. CASE ~At(p, "deleteTags") /\ ~At(p, "emptyTags")
  <2>1. db'.message_tags = db.message_tags
    BY <1>6 DEF Write, TypeOK, Tables
  <2>2. \/ op[p] = "Store"
        \/ op[p] \in {"DeleteMessages", "DeleteSearch"} /\ pc[p] \in {3, 4}
        \/ op[p] = "Prune" /\ pc[p] \in {3, 5}
        \/ op[p] = "DeleteAll" /\ pc[p] \in {3, 4}
    BY <1>6, Position DEF Write
  <2>3. TagState(p)'
    BY <1>1, <1>3, <2>1, <2>2 DEF TagState
  <2> QED
    BY <1>1, <2>3 DEF TagInv
<1> QED
  BY <1>4, <1>5, <1>6

\* A transaction begins before its first deletion.
LEMMA BeginTags ==
    ASSUME TypeOK, DiskInv, TagInv, NEW p \in Goroutines, Begin(p)
    PROVE  TagInv'
<1>1. At(p, "begin") /\ conn' = p
  BY DEF Begin
<1>2. \/ op[p] = "Store" /\ pc[p] = 1
      \/ op[p] # "Store" /\ pc[p] = 2
  BY <1>1, Position
<1>3. op'[p] = op[p] /\ pc'[p] = pc[p] + 1
  BY <1>1, <1>2, NextStatement DEF Begin
<1>4. TagState(p)'
  BY <1>2, <1>3 DEF TagState
<1> QED
  BY <1>1, <1>4 DEF TagInv

\* Steps after which nobody has the connection.
LEMMA FreeTags ==
    ASSUME conn' = Nobody PROVE TagInv'
BY GoroutineAssumption DEF TagInv, Goroutines

LEMMA StatementTags ==
    ASSUME TypeOK, DiskInv, TagInv, NEW p \in Goroutines, Statement(p)
    PROVE  TagInv'
<1>1. CASE Begin(p) \/ Write(p)
  BY <1>1, BeginTags, WriteTags
<1>2. CASE Commit(p) \/ SetTags(p) \/ Select(p) \/ Count(p) \/ Housekeep(p)
  BY <1>2, FreeTags DEF Commit, SetTags, Select, Count, Housekeep, tables
<1>3. CASE LogDeleted(p) \/ Announce(p)
  <2>1. PICK s : At(p, s) /\ s # "select" /\ s \notin TxStatements
    BY <1>3 DEF LogDeleted, Announce, Tells, TxStatements
  <2>2. \A t \in TxStatements : ~At(p, t)
    BY <2>1 DEF At
  <2>3. op[p] # "idle" /\ sel[p] \in SUBSET Ids /\ (op[p] # "DeleteAll" => sel[p] # {})
    BY <2>1, SelectedIDs
  <2>4. GoOn(p, sel[p])
    BY <1>3 DEF LogDeleted, Announce
  <2>5. \A q \in Goroutines : q # p =>
           op'[q] = op[q] /\ pc'[q] = pc[q] /\ sel'[q] = sel[q]
    BY <2>3, <2>4, GoOnType
  <2>6. UNCHANGED tables
    BY <1>3 DEF LogDeleted, Announce
  <2> QED
    BY <2>2, <2>5, <2>6, OutsideTags
<1> QED
  BY <1>1, <1>2, <1>3 DEF Statement

LEMMA StepTags == TypeOK /\ DiskInv /\ TagInv /\ [Next]_vars => TagInv'
<1> SUFFICES ASSUME TypeOK, DiskInv, TagInv, [Next]_vars PROVE TagInv'
  OBVIOUS
<1>1. CASE UNCHANGED vars
  BY <1>1 DEF TagInv, TagState, vars, tables, local
<1>2. ASSUME NEW p \in Goroutines, NEW o \in Ops, Start(p, o) PROVE TagInv'
  <2>1. \A s \in TxStatements : ~At(p, s)
    BY <1>2 DEF Start, At
  <2> QED
    BY <1>2, <2>1, StartDisk, OutsideTags DEF Start
<1>3. CASE Crash \/ \E p \in Goroutines : Fail(p)
  BY <1>3, FreeTags DEF Crash, Fail
<1> QED
  BY <1>1, <1>2, <1>3, StatementTags DEF Next, Ops

\* What a commit takes out of the mailbox has no tag rows left.
LEMMA CommitTags ==
    ASSUME TypeOK, DiskInv, TagInv, NEW p \in Goroutines, Commit(p)
    PROVE  (committed.mailbox \ committed'.mailbox) \intersect committed'.message_tags = {}
<1>1. TxState(p) /\ TagState(p) /\ committed' = db /\ (At(p, "commit") \/ At(p, "tryCommit"))
  BY DEF Commit, DiskInv, TagInv
<1>2. \/ op[p] = "Store" /\ pc[p] = 4
      \/ op[p] \in {"DeleteMessages", "DeleteSearch", "DeleteAll", "Prune"} /\ pc[p] = 6
  BY <1>1, Position
<1>3. CASE op[p] = "Store"
  BY <1>1, <1>2, <1>3 DEF TxState
<1>4. CASE op[p] = "DeleteAll"
  BY <1>1, <1>2, <1>4 DEF TagState
<1>5. CASE op[p] \in {"DeleteMessages", "DeleteSearch", "Prune"}
  <2>1. sel[p] \intersect db.message_tags = {}
    BY <1>1, <1>2, <1>5 DEF TagState
  <2>2. db.mailbox = committed.mailbox \ sel[p]
    BY <1>1, <1>2, <1>5 DEF TxState
  <2> QED
    BY <1>1, <2>1, <2>2
<1> QED
  BY <1>2, <1>3, <1>4, <1>5

\* Each of the four deletions takes the tag rows of its messages along, in the same
\* commit, however operations overlap and whatever fails.
THEOREM TagRowsGoAlong == Spec => RemovalTakesTagRows
<1> DEFINE A == (committed.mailbox \ committed'.mailbox) \intersect committed'.message_tags = {}
<1>1. Init => TypeOK /\ DiskInv /\ TagInv
  BY InitType, InitDisk, GoroutineAssumption DEF TagInv, Init, Goroutines
<1>2. TypeOK /\ DiskInv /\ TagInv /\ [Next]_vars => (TypeOK /\ DiskInv /\ TagInv)'
  BY StepType, StepDisk, StepTags
<1>3. TypeOK /\ DiskInv /\ TagInv /\ [Next]_vars => [A]_vars
  <2> SUFFICES ASSUME TypeOK, DiskInv, TagInv, Next PROVE A
    OBVIOUS
  <2>1. CASE committed'.mailbox = committed.mailbox
    BY <2>1
  <2>2. CASE committed'.mailbox # committed.mailbox
    <3>1. PICK p \in Goroutines : Commit(p)
      BY <2>2, StatementDisk, StartDisk, FailDisk, CrashDisk DEF Next, Ops
    <3> QED
      BY <3>1, CommitTags
  <2> QED
    BY <2>1, <2>2
<1> QED
  BY <1>1, <1>2, <1>3, PTL DEF Spec, RemovalTakesTagRows
----------------------------------------------------------------------------
(* Announcements                                                           *)

\* The events of a search deletion tell all of it: it is one chunk, or its last chunk is so large
\* that clients are made to fetch the mailbox again.
SearchesAreTold ==
    \A p \in Goroutines : op[p] = "DeleteSearch" =>
        \/ Cardinality(sel[p]) <= ChunkSize
        \/ \A C \in LastChunks(sel[p]) : Cardinality(C) > PruneThreshold

\* Owes, by the positions of the statements.
OwesAt(p, m) ==
    \/ op[p] = "DeleteMessages" /\ pc[p] > 6 /\ m \in sel[p]
    \/ op[p] = "DeleteSearch" /\ pc[p] \in {7, 8} /\ m \in sel[p]
    \/ op[p] \in {"Prune", "DeleteAll"} /\ pc[p] > 6

\* The statements S occur in the program P at position k, or nowhere.
OnceAt(P, S, k) == k \in 1..Len(P) /\ \A n \in 1..Len(P) : P[n] \in S <=> n = k
Nowhere(P, S) == \A n \in 1..Len(P) : P[n] \notin S

\* The commits and events of the programs.
LEMMA Endings ==
    /\ Nowhere(Store, NamingEvents) /\ Nowhere(Store, ReloadEvents)
    /\ OnceAt(DeleteMessages, Commits, 6)
    /\ OnceAt(DeleteMessages, NamingEvents, 10) /\ Nowhere(DeleteMessages, ReloadEvents)
    /\ OnceAt(DeleteSearch, Commits, 6)
    /\ OnceAt(DeleteSearch, NamingEvents, 8) /\ Nowhere(DeleteSearch, ReloadEvents)
    /\ OnceAt(Prune, Commits, 6)
    /\ OnceAt(Prune, ReloadEvents, 10) /\ Nowhere(Prune, NamingEvents)
    /\ OnceAt(DeleteAll, Commits, 6)
    /\ OnceAt(DeleteAll, ReloadEvents, 9) /\ Nowhere(DeleteAll, NamingEvents)
<1> USE DEF OnceAt, Nowhere, Commits, NamingEvents, ReloadEvents
<1>1. Nowhere(Store, NamingEvents) /\ Nowhere(Store, ReloadEvents)
  BY DEF Store
<1>2. /\ OnceAt(DeleteMessages, Commits, 6)
      /\ OnceAt(DeleteMessages, NamingEvents, 10) /\ Nowhere(DeleteMessages, ReloadEvents)
  BY DEF DeleteMessages
<1>3. /\ OnceAt(DeleteSearch, Commits, 6)
      /\ OnceAt(DeleteSearch, NamingEvents, 8) /\ Nowhere(DeleteSearch, ReloadEvents)
  BY DEF DeleteSearch
<1>4. /\ OnceAt(Prune, Commits, 6)
      /\ OnceAt(Prune, ReloadEvents, 10) /\ Nowhere(Prune, NamingEvents)
  BY DEF Prune
<1>5. /\ OnceAt(DeleteAll, Commits, 6)
      /\ OnceAt(DeleteAll, ReloadEvents, 9) /\ Nowhere(DeleteAll, NamingEvents)
  BY DEF DeleteAll
<1> HIDE DEF OnceAt, Nowhere, Commits, NamingEvents, ReloadEvents
<1> QED
  BY <1>1, <1>2, <1>3, <1>4, <1>5

\* A statement that occurs once is ahead until it has run.
LEMMA AheadOnce ==
    ASSUME TypeOK, NEW p \in Goroutines, NEW S, NEW k \in Nat, op[p] # "idle",
           OnceAt(Program(op[p]), S, k)
    PROVE  Ahead(p, S) <=> pc[p] <= k
<1> DEFINE l == Len(Program(op[p]))
<1>1. l \in Nat
  BY OperationNames, Lengths
<1>2. pc[p] \in 1..l /\ k \in 1..l
  BY DEF TypeOK, OnceAt
<1>3. ASSUME Ahead(p, S) PROVE pc[p] <= k
  <2>1. PICK n \in pc[p]..l : Program(op[p])[n] \in S
    BY <1>3 DEF Ahead
  <2>2. n \in 1..l /\ pc[p] <= n
    BY <1>1, <1>2
  <2> QED
    BY <2>1, <2>2 DEF OnceAt
<1>4. ASSUME pc[p] <= k PROVE Ahead(p, S)
  <2>1. k \in pc[p]..l /\ Program(op[p])[k] \in S
    BY <1>1, <1>2, <1>4 DEF OnceAt
  <2> QED
    BY <2>1 DEF Ahead
<1> QED
  BY <1>3, <1>4

\* One that does not occur never is.
LEMMA AheadNowhere ==
    ASSUME TypeOK, NEW p \in Goroutines, NEW S, op[p] # "idle", Nowhere(Program(op[p]), S)
    PROVE  ~Ahead(p, S)
<1>1. Len(Program(op[p])) \in Nat
  BY OperationNames, Lengths
<1>2. pc[p]..Len(Program(op[p])) \subseteq 1..Len(Program(op[p]))
  BY <1>1 DEF TypeOK
<1> QED
  BY <1>2 DEF Ahead, Nowhere

\* What an operation owes, by its position.
LEMMA OwesPositions ==
    ASSUME TypeOK, NEW p \in Goroutines, NEW m PROVE Owes(p, m) <=> OwesAt(p, m)
<1>1. CASE op[p] = "idle"
  BY <1>1 DEF Owes, OwesAt, Ahead
<1>2. CASE op[p] = "Store"
  <2>1. ~Ahead(p, NamingEvents) /\ ~Ahead(p, ReloadEvents)
    BY <1>2, ProgramOf, Endings, AheadNowhere
  <2> QED
    BY <1>2, <2>1 DEF Owes, OwesAt
<1>3. CASE op[p] = "DeleteMessages"
  <2>1. pc[p] \in 1..10
    BY <1>3, Lengths DEF TypeOK
  <2>2. Ahead(p, Commits) <=> pc[p] <= 6
    BY <1>3, ProgramOf, Endings, AheadOnce
  <2>3. Ahead(p, NamingEvents) <=> pc[p] <= 10
    BY <1>3, ProgramOf, Endings, AheadOnce
  <2>4. ~Ahead(p, ReloadEvents)
    BY <1>3, ProgramOf, Endings, AheadNowhere
  <2> QED
    BY <1>3, <2>1, <2>2, <2>3, <2>4 DEF Owes, OwesAt
<1>4. CASE op[p] = "DeleteSearch"
  <2>1. pc[p] \in 1..10
    BY <1>4, Lengths DEF TypeOK
  <2>2. Ahead(p, Commits) <=> pc[p] <= 6
    BY <1>4, ProgramOf, Endings, AheadOnce
  <2>3. Ahead(p, NamingEvents) <=> pc[p] <= 8
    BY <1>4, ProgramOf, Endings, AheadOnce
  <2>4. ~Ahead(p, ReloadEvents)
    BY <1>4, ProgramOf, Endings, AheadNowhere
  <2> QED
    BY <1>4, <2>1, <2>2, <2>3, <2>4 DEF Owes, OwesAt
<1>5. CASE op[p] = "Prune"
  <2>1. pc[p] \in 1..10
    BY <1>5, Lengths DEF TypeOK
  <2>2. Ahead(p, Commits) <=> pc[p] <= 6
    BY <1>5, ProgramOf, Endings, AheadOnce
  <2>3. Ahead(p, ReloadEvents) <=> pc[p] <= 10
    BY <1>5, ProgramOf, Endings, AheadOnce
  <2>4. ~Ahead(p, NamingEvents)
    BY <1>5, ProgramOf, Endings, AheadNowhere
  <2> QED
    BY <1>5, <2>1, <2>2, <2>3, <2>4 DEF Owes, OwesAt
<1>6. CASE op[p] = "DeleteAll"
  <2>1. pc[p] \in 1..9
    BY <1>6, Lengths DEF TypeOK
  <2>2. Ahead(p, Commits) <=> pc[p] <= 6
    BY <1>6, ProgramOf, Endings, AheadOnce
  <2>3. Ahead(p, ReloadEvents) <=> pc[p] <= 9
    BY <1>6, ProgramOf, Endings, AheadOnce
  <2>4. ~Ahead(p, NamingEvents)
    BY <1>6, ProgramOf, Endings, AheadNowhere
  <2> QED
    BY <1>6, <2>1, <2>2, <2>3, <2>4 DEF Owes, OwesAt
<1> QED
  BY <1>1, <1>2, <1>3, <1>4, <1>5, <1>6, OperationNames

\* Statements that some programs do not have.
LEMMA Absent ==
    /\ Nowhere(DeleteMessages, {"announceNew", "announceSearch", "pruneTags"})
    /\ Nowhere(DeleteSearch, {"announceNew"})
    /\ Nowhere(Prune, {"announceNew", "pruneTags"})
    /\ Nowhere(DeleteAll, {"announceNew", "pruneTags"})
BY DEF Nowhere, DeleteMessages, DeleteSearch, Prune, DeleteAll

\* A goroutine is at no statement that its program does not have.
LEMMA NotNowhere ==
    ASSUME TypeOK, NEW p \in Goroutines, NEW S, NEW s \in S, At(p, s)
    PROVE  ~Nowhere(Program(op[p]), S)
BY DEF At, TypeOK, Nowhere

\* A debt is carried on by every statement but the event.
LEMMA CarriedOn ==
    ASSUME TypeOK, NEW p \in Goroutines, NEW m, OwesAt(p, m), GoOn(p, sel[p]),
           NEW s, At(p, s), s \notin NamingEvents \union ReloadEvents, s # "select"
    PROVE  OwesAt(p, m)'
<1>1. op[p] # "idle" /\ sel[p] \in SUBSET Ids /\ (op[p] # "DeleteAll" => sel[p] # {})
  BY SelectedIDs
<1>2. Program(op[p])[pc[p]] \notin NamingEvents \union ReloadEvents
  BY DEF At
<1>3. /\ op[p] = "DeleteMessages" => pc[p] # 10
      /\ op[p] = "DeleteSearch" => pc[p] # 8
      /\ op[p] = "Prune" => pc[p] # 10
      /\ op[p] = "DeleteAll" => pc[p] # 9
  BY <1>2, ProgramOf, Endings DEF OnceAt
<1>4. pc[p] \in 1..Len(Program(op[p]))
  BY <1>1 DEF TypeOK
<1>5. pc[p] # Len(Program(op[p])) /\ (op[p] = "DeleteSearch" => pc[p] = 7)
  <2>1. CASE op[p] = "DeleteMessages" \/ op[p] = "Prune"
    <3>1. pc[p] # 10 /\ op[p] # "DeleteSearch"
      BY <1>3, <2>1
    <3>2. Len(Program(op[p])) = 10
      BY <2>1, Lengths
    <3> QED
      BY <3>1, <3>2
  <2>2. CASE op[p] = "DeleteSearch"
    <3>1. pc[p] = 7
      BY <1>3, <2>2 DEF OwesAt
    <3>2. Len(Program(op[p])) = 10
      BY <2>2, Lengths
    <3> QED
      BY <3>1, <3>2
  <2>3. CASE op[p] = "DeleteAll"
    <3>1. pc[p] # 9 /\ op[p] # "DeleteSearch"
      BY <1>3, <2>3
    <3>2. Len(Program(op[p])) = 9
      BY <2>3, Lengths
    <3> QED
      BY <3>1, <3>2
  <2> QED
    BY <2>1, <2>2, <2>3 DEF OwesAt
<1>6. op'[p] = op[p] /\ pc'[p] = pc[p] + 1 /\ sel'[p] = sel[p]
  BY <1>1, <1>5, GoOnType
<1> QED
  BY <1>4, <1>5, <1>6 DEF OwesAt

\* The events of a search deletion that is one chunk name all of it.
LEMMA OneChunk ==
    ASSUME TypeOK, NEW p \in Goroutines, sel[p] # {}, Cardinality(sel[p]) <= ChunkSize,
           NEW C \in LastChunks(sel[p])
    PROVE  C = sel[p]
<1>1. sel[p] \in SUBSET Ids
  BY DEF TypeOK
<1>2. IsFiniteSet(sel[p]) /\ Cardinality(sel[p]) \in Nat
  BY <1>1, IdsAssumption, FS_Subset, FS_CardinalityType
<1>3. Cardinality(sel[p]) # 0
  BY <1>2, FS_EmptySet
<1>4. (Cardinality(sel[p]) - 1) % ChunkSize = Cardinality(sel[p]) - 1
  <2> DEFINE c == Cardinality(sel[p]) - 1
  <2>1. c \in Nat /\ c < ChunkSize /\ ChunkSize \in Nat \ {0}
    BY <1>2, <1>3, LimitAssumption
  <2> HIDE DEF c
  <2>2. c % ChunkSize = c
    BY <2>1
  <2> QED
    BY <2>2 DEF c
<1>5. C \subseteq sel[p] /\ Cardinality(C) = Cardinality(sel[p])
  BY <1>2, <1>4 DEF LastChunks
<1> QED
  BY <1>2, <1>5, FS_Subset

\* The event of an operation tells what it owes.
LEMMA EventTells ==
    ASSUME SearchesAreTold, TypeOK, NEW p \in Goroutines, NEW m \in removed, OwesAt(p, m), Announce(p)
    PROVE  m \in announced'
<1>1. PICK T \in SUBSET Ids : Tells(p, T) /\ announced' = announced \union T
  BY DEF Announce
<1>2. op[p] \in {"DeleteMessages", "DeleteSearch", "Prune", "DeleteAll"} /\ pc[p] \in 1..Len(Program(op[p]))
  BY DEF OwesAt, TypeOK
<1>3. ~At(p, "announceNew")
  <2>1. CASE op[p] = "DeleteMessages"
    BY <2>1, ProgramOf, Absent, NotNowhere
  <2>2. CASE op[p] = "DeleteSearch"
    BY <2>2, ProgramOf, Absent, NotNowhere
  <2>3. CASE op[p] = "Prune"
    BY <2>3, ProgramOf, Absent, NotNowhere
  <2>4. CASE op[p] = "DeleteAll"
    BY <2>4, ProgramOf, Absent, NotNowhere
  <2> QED
    BY <1>2, <2>1, <2>2, <2>3, <2>4
<1>4. CASE At(p, "announceDelete")
  <2>1. op[p] \in {"DeleteMessages", "DeleteSearch"}
    BY <1>2, <1>4, ProgramOf, Endings DEF At, Nowhere, NamingEvents
  <2>2. T = sel[p]
    BY <1>1, <1>3, <1>4 DEF Tells, At
  <2> QED
    BY <1>1, <2>1, <2>2 DEF OwesAt
<1>5. CASE At(p, "announceSearch")
  <2>1. op[p] \in {"DeleteMessages", "DeleteSearch"}
    BY <1>2, <1>5, ProgramOf, Endings DEF At, Nowhere, NamingEvents
  <2>2. op[p] = "DeleteSearch"
    BY <1>5, <2>1, ProgramOf, Absent, NotNowhere
  <2>3. PICK C \in LastChunks(sel[p]) : T = IF Cardinality(C) > PruneThreshold THEN removed ELSE C
    BY <1>1, <1>3, <1>5 DEF Tells, At
  <2>4. m \in sel[p]
    BY <2>2 DEF OwesAt
  <2>5. C = sel[p] \/ Cardinality(C) > PruneThreshold
    BY <2>2, <2>3, <2>4, OneChunk DEF SearchesAreTold
  <2> QED
    BY <1>1, <2>3, <2>4, <2>5
<1>6. CASE At(p, "announcePrune") \/ At(p, "announceTruncate")
  <2>1. T = removed
    BY <1>1, <1>3, <1>6 DEF Tells, At
  <2> QED
    BY <1>1, <2>1
<1> QED
  BY <1>1, <1>3, <1>4, <1>5, <1>6 DEF Tells

\* Whoever owes an event owes it until it is told, the operation returns its error, or
\* the clients fetch the mailbox again.
LEMMA DebtsAreKept ==
    ASSUME SearchesAreTold, TypeOK, DiskInv, NEW p \in Goroutines, NEW m \in removed, OwesAt(p, m),
           [Next]_vars
    PROVE  OwesAt(p, m)' \/ m \in (announced \union unheard)'
<1>1. CASE UNCHANGED vars
  BY <1>1 DEF vars, local, OwesAt
<1>2. CASE Crash
  BY <1>2 DEF Crash
<1>3. ASSUME NEW q \in Goroutines, NEW o \in Ops, Start(q, o) PROVE OwesAt(p, m)'
  <2>1. q # p
    BY <1>3 DEF Start, OwesAt
  <2> QED
    BY <1>3, <2>1, StartDisk DEF OwesAt
<1>4. ASSUME NEW q \in Goroutines, q # p, Statement(q) \/ Fail(q) PROVE OwesAt(p, m)'
  BY <1>4, OthersStay DEF OwesAt
<1>5. pc[p] > 6 /\ op[p] # "Store"
  BY DEF OwesAt
<1>6. CASE Statement(p)
  <2>1. ~Select(p) /\ ~Count(p) /\ ~Begin(p) /\ ~Write(p) /\ ~Commit(p) /\ ~SetTags(p)
    <3>1. /\ ~At(p, "select") /\ ~At(p, "tryCount") /\ ~At(p, "begin") /\ ~At(p, "commit")
          /\ ~At(p, "tryCommit") /\ ~At(p, "setTags")
      BY <1>5, Position
    <3>2. /\ ~At(p, "insertMailbox") /\ ~At(p, "insertData") /\ ~At(p, "deleteMailbox")
          /\ ~At(p, "deleteData") /\ ~At(p, "deleteTags") /\ ~At(p, "emptyMailbox")
          /\ ~At(p, "emptyData") /\ ~At(p, "emptyTags")
      BY <1>5, Position
    <3> QED
      BY <3>1, <3>2 DEF Select, Count, Begin, Write, Commit, SetTags
  <2>2. CASE Housekeep(p)
    BY <2>2, CarriedOn DEF Housekeep, NamingEvents, ReloadEvents
  <2>3. CASE LogDeleted(p)
    BY <2>3, CarriedOn DEF LogDeleted, NamingEvents, ReloadEvents
  <2>4. CASE Announce(p)
    BY <2>4, EventTells
  <2> QED
    BY <1>6, <2>1, <2>2, <2>3, <2>4 DEF Statement
<1>7. CASE Fail(p)
  <2>1. CASE \E s \in TryStatements : At(p, s) /\ GoOn(p, sel[p])
    <3>1. PICK s \in TryStatements : At(p, s) /\ GoOn(p, sel[p])
      BY <2>1
    <3>2. s \notin NamingEvents \union ReloadEvents /\ s # "select"
      BY <3>1 DEF TryStatements, NamingEvents, ReloadEvents
    <3> QED
      BY <3>1, <3>2, CarriedOn
  <2>2. CASE /\ \A s \in TryStatements : ~At(p, s)
             /\ unheard' = IF At(p, "pruneTags") THEN unheard \union sel[p] ELSE unheard
    <3>1. PICK s \in TxStatements \union DbStatements : At(p, s)
      BY <1>7 DEF Fail
    <3>2. s \notin TryStatements
      BY <2>2, <3>1
    <3>3. s \in {"insertMailbox", "insertData", "deleteMailbox", "deleteData", "deleteTags",
                 "emptyMailbox", "emptyData", "emptyTags", "commit", "begin", "select", "setTags",
                 "pruneTags"}
      BY <3>1, <3>2 DEF TxStatements, DbStatements, TryStatements
    <3>4. At(p, "pruneTags")
      BY <1>5, <3>1, <3>3, Position
    <3>5. op[p] = "DeleteSearch"
      <4>1. op[p] # "DeleteMessages"
        BY <3>4, ProgramOf, Absent, NotNowhere
      <4>2. op[p] # "Prune"
        BY <3>4, ProgramOf, Absent, NotNowhere
      <4>3. op[p] # "DeleteAll"
        BY <3>4, ProgramOf, Absent, NotNowhere
      <4> QED
        BY <4>1, <4>2, <4>3 DEF OwesAt
    <3> QED
      BY <2>2, <3>4, <3>5 DEF OwesAt
  <2> QED
    BY <1>7, <2>1, <2>2 DEF Fail
<1> QED
  BY <1>1, <1>2, <1>3, <1>4, <1>6, <1>7 DEF Next, Ops

\* The commit of a deletion makes its operation owe what it has removed.
LEMMA CommitOwes ==
    ASSUME TypeOK, DiskInv, NEW p \in Goroutines, Commit(p), NEW m \in removed' \ removed
    PROVE  OwesAt(p, m)'
<1>1. TxState(p) /\ committed' = db /\ (At(p, "commit") \/ At(p, "tryCommit"))
  BY DEF Commit, DiskInv
<1>2. \/ op[p] = "Store" /\ pc[p] = 4
      \/ op[p] \in {"DeleteMessages", "DeleteSearch", "DeleteAll", "Prune"} /\ pc[p] = 6
  BY <1>1, Position
<1>3. op'[p] = op[p] /\ pc'[p] = pc[p] + 1 /\ sel'[p] = sel[p]
  BY CommitEffect
<1>4. m \in committed.mailbox /\ m \notin db.mailbox
  BY <1>1, CommitEffect
<1>5. op[p] # "Store"
  BY <1>1, <1>2, <1>4 DEF TxState
<1>6. op[p] \in {"DeleteMessages", "DeleteSearch", "Prune"} => m \in sel[p]
  BY <1>1, <1>2, <1>4 DEF TxState
<1> QED
  BY <1>2, <1>3, <1>5, <1>6 DEF OwesAt

\* removed only grows, and only by a commit.
LEMMA RemovedGrows ==
    ASSUME TypeOK, DiskInv, [Next]_vars
    PROVE  \/ removed' = removed
           \/ \E p \in Goroutines : Commit(p) /\ removed \subseteq removed'
<1>1. CASE UNCHANGED vars
  BY <1>1 DEF vars, history
<1>2. CASE Next
  BY <1>2, StatementDisk, StartDisk, FailDisk, CrashDisk, CommitEffect DEF Next, Ops
<1> QED
  BY <1>1, <1>2

\* A removal is told or somebody owes its event.
DebtInv ==
    \A m \in removed : m \in announced \union unheard \/ \E p \in Goroutines : OwesAt(p, m)

\* What has been told stays told.
LEMMA ToldStays ==
    ASSUME TypeOK, DiskInv, [Next]_vars, NEW m \in removed, m \in announced \union unheard
    PROVE  m \in (announced \union unheard)'
<1>1. CASE UNCHANGED vars
  BY <1>1 DEF vars, history
<1>2. CASE Crash
  BY <1>2 DEF Crash
<1>3. CASE \E q \in Goroutines, o \in Ops : Start(q, o)
  BY <1>3 DEF Start, history
<1>4. ASSUME NEW q \in Goroutines, Statement(q) \/ Fail(q) PROVE m \in (announced \union unheard)'
  <2>1. CASE Announce(q)
    BY <2>1 DEF Announce
  <2>2. CASE Fail(q)
    BY <2>2 DEF Fail
  <2>3. CASE Statement(q) /\ ~Announce(q)
    BY <2>3 DEF Statement, Select, Count, Begin, Write, Commit, SetTags, Housekeep, LogDeleted
  <2> QED
    BY <1>4, <2>1, <2>2, <2>3
<1> QED
  BY <1>1, <1>2, <1>3, <1>4 DEF Next, Ops

\* Every step keeps the debts.
LEMMA StepDebts == SearchesAreTold /\ TypeOK /\ DiskInv /\ DebtInv /\ [Next]_vars => DebtInv'
<1> SUFFICES ASSUME SearchesAreTold, TypeOK, DiskInv, DebtInv, [Next]_vars, NEW m \in removed'
             PROVE  m \in (announced \union unheard)' \/ \E p \in Goroutines : OwesAt(p, m)'
  BY DEF DebtInv
<1>1. CASE m \in removed
  <2>1. CASE m \in announced \union unheard
    BY <1>1, <2>1, ToldStays
  <2>2. CASE \E p \in Goroutines : OwesAt(p, m)
    BY <1>1, <2>2, DebtsAreKept
  <2> QED
    BY <1>1, <2>1, <2>2 DEF DebtInv
<1>2. CASE m \notin removed
  BY <1>2, RemovedGrows, CommitOwes
<1> QED
  BY <1>1, <1>2

\* No removal is forgotten: whatever fails, crashes and overlaps after the commit, somebody
\* is on his way to tell the clients, but for searches whose events name only a small last
\* chunk (search.go:185).
THEOREM NoRemovalIsForgotten == Spec /\ []SearchesAreTold => []RemovalsAreOnTheirWay
<1>1. Init => TypeOK /\ DiskInv /\ DebtInv
  BY InitType, InitDisk DEF Init, DebtInv
<1>2. SearchesAreTold /\ TypeOK /\ DiskInv /\ DebtInv /\ [Next]_vars => (TypeOK /\ DiskInv /\ DebtInv)'
  BY StepType, StepDisk, StepDebts
<1>3. TypeOK /\ DebtInv => RemovalsAreOnTheirWay
  BY OwesPositions DEF DebtInv, RemovalsAreOnTheirWay
<1> QED
  BY <1>1, <1>2, <1>3, PTL DEF Spec

\* So if an operation that owes an event comes to its end, the event has been told by
\* then: of RemovalsAreAnnounced nothing is left to the scheduler but that it returns.
THEOREM DebtsArePaid ==
    ASSUME NEW p \in Goroutines, NEW m \in Ids
    PROVE  Spec /\ []SearchesAreTold /\ (op[p] # "idle" ~> op[p] = "idle")
              => (m \in removed /\ Owes(p, m) ~> m \in announced \union unheard)
<1> DEFINE Owing == m \in removed /\ OwesAt(p, m)
           Told == m \in announced \union unheard
           Busy == op[p] # "idle"
           Idle == op[p] = "idle"
<1>1. Init => TypeOK /\ DiskInv
  BY InitType, InitDisk
<1>2. TypeOK /\ DiskInv /\ [Next]_vars => (TypeOK /\ DiskInv)'
  BY StepType, StepDisk
<1>3. SearchesAreTold /\ TypeOK /\ DiskInv /\ Owing /\ [Next]_vars => Owing' \/ Told'
  BY DebtsAreKept, RemovedGrows
<1>4. Owing => Busy /\ ~Idle
  BY DEF OwesAt
<1>5. TypeOK /\ m \in removed /\ Owes(p, m) => Owing
  BY OwesPositions
<1> HIDE DEF Owing, Told, Busy, Idle
<1>6. Spec /\ []SearchesAreTold /\ (Busy ~> Idle) => (m \in removed /\ Owes(p, m) ~> Told)
  BY <1>1, <1>2, <1>3, <1>4, <1>5, PTL DEF Spec
<1> QED
  BY <1>6 DEF Told, Busy, Idle

============================================================================
