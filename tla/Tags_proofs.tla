---------------------------- MODULE Tags_proofs ----------------------------
(***************************************************************************)
(* What holds of Tags for any messages, names and goroutines.              *)
(***************************************************************************)
EXTENDS Tags, TLAPS

\* What the locals w are good for: the names an operation still has to add were
\* asked for, and so was the name of the tag whose ID it has read, as long as
\* that tag is there.
Given(w) ==
    /\ w.stmt = "read" => w.msg \in Messages /\ w.want \subseteq asked[w.msg]
    /\ w.stmt \in {"insertTag", "selectTag", "countRows", "insertRow"} =>
          w.msg \in Messages /\ w.add \subseteq asked[w.msg]
    /\ w.stmt \in {"insertTag", "selectTag"} => w.name \in asked[w.msg]
    /\ w.stmt \in {"countRows", "insertRow"} =>
          /\ w.id \in TagIds
          /\ \A t \in tags : t.id = w.id => t.name \in asked[w.msg]
    /\ w.stmt \in {"findFrom", "findTo", "update"} => w.to \in Names
    /\ w.id <= lastId

\* No ID in use is newer than the last one AUTOINCREMENT gave.
IdsGiven ==
    /\ \A t \in tags : t.id <= lastId
    /\ \A r \in message_tags : r[2] <= lastId

\* The inductive invariant.
IInv ==
    /\ TypeOK
    /\ IdsGiven
    /\ ShownTagsWereGiven
    /\ \A p \in Workers : Given(work[p])

\* How a step may change the tables and the history: a tag is new, or was there
\* under a name that the same messages were given; a row is old, or is one of
\* a tag whose name its message was given.
TagsChange ==
    \A t \in tags' :
        \/ t.id > lastId
        \/ \E u \in tags :
              u.id = t.id /\ \A m \in Messages : u.name \in asked[m] => t.name \in asked'[m]
RowsChange ==
    \A r \in message_tags' :
        \/ r \in message_tags
        \/ r[2] <= lastId /\ \A t \in tags : t.id = r[2] => t.name \in asked[r[1]]
Change ==
    /\ \A m \in Messages : asked[m] \subseteq asked'[m]
    /\ lastId <= lastId'
    /\ \A t \in tags' : t.id <= lastId'
    /\ TagsChange
    /\ RowsChange

----------------------------------------------------------------------------
(* Locals                                                                  *)

\* One goroutine proceeds; the others keep their locals but for the history.
LEMMA ProceedLocals ==
    ASSUME TypeOK, NEW p \in Workers, NEW w \in Locals, Proceed(p, w)
    PROVE  /\ work' \in [Workers -> Locals]
           /\ work'[p] = w
           /\ \A q \in Workers : q # p => work'[q] = [work[q] EXCEPT !.alone = FALSE]
<1>1. \A q \in Workers : [work[q] EXCEPT !.alone = FALSE] \in Locals
  BY DEF TypeOK, Locals
<1> QED
  BY <1>1 DEF Proceed

\* An idle goroutine's locals are locals, and are good for nothing.
LEMMA IdleLocals ==
    ASSUME TypeOK
    PROVE  Idle \in Locals /\ Given(Idle)
BY DEF Idle, Locals, Given, TypeOK, Operations, Statements

\* What Continue leaves the goroutine with.
LEMMA ContinueLocals ==
    ASSUME TypeOK, NEW p \in Workers, NEW w \in Locals, Continue(p, w),
           w.msg \in Messages, w.add \subseteq asked[w.msg], w.id <= lastId
    PROVE  /\ \E v \in Locals : Proceed(p, v) /\ Given(v)
           /\ result' \in {"none", "ok"}
<1>1. asked[w.msg] \subseteq Names /\ 0 <= lastId
  BY DEF TypeOK
<1>2. ASSUME NEW n \in w.add,
             Go(p, [w EXCEPT !.stmt = "insertTag", !.add = @ \ {n}, !.name = n, !.id = 0])
      PROVE  /\ \E v \in Locals : Proceed(p, v) /\ Given(v)
             /\ result' = "none"
  <2> DEFINE v == [w EXCEPT !.stmt = "insertTag", !.add = @ \ {n}, !.name = n, !.id = 0]
  <2>1. v \in Locals
    BY <1>1 DEF Locals, Statements
  <2>2. Given(v)
    BY <1>1 DEF Given, Locals
  <2> QED
    BY <1>2, <2>1, <2>2 DEF Go
<1>3. ASSUME Go(p, [w EXCEPT !.stmt = "deleteRows", !.name = None, !.id = 0])
      PROVE  /\ \E v \in Locals : Proceed(p, v) /\ Given(v)
             /\ result' = "none"
  <2> DEFINE v == [w EXCEPT !.stmt = "deleteRows", !.name = None, !.id = 0]
  <2>1. v \in Locals
    BY DEF Locals, Statements
  <2>2. Given(v)
    BY <1>1 DEF Given, Locals
  <2> QED
    BY <1>3, <2>1, <2>2 DEF Go
<1>4. ASSUME Return(p, "ok")
      PROVE  /\ \E v \in Locals : Proceed(p, v) /\ Given(v)
             /\ result' = "ok"
  BY <1>4, IdleLocals DEF Return
<1> QED
  BY <1>2, <1>3, <1>4 DEF Continue

\* A change of the tables leaves locals as good as they were.
LEMMA GivenKept ==
    ASSUME TypeOK, IdsGiven, TypeOK', Change, NEW w \in Locals, Given(w)
    PROVE  Given(w)'
<1>1. w.id <= lastId'
  BY DEF Given, Change, TypeOK, Locals, TagIds
<1>2. ASSUME w.stmt \in {"countRows", "insertRow"}, NEW t \in tags', t.id = w.id
      PROVE  t.name \in asked'[w.msg]
  <2>1. w.msg \in Messages /\ w.id <= lastId /\ w.id \in TagIds
    BY <1>2 DEF Given
  <2>2. ~(t.id > lastId)
    BY <1>2, <2>1, BoundAssumption DEF TypeOK, TagIds
  <2>3. PICK u \in tags :
           u.id = t.id /\ \A m \in Messages : u.name \in asked[m] => t.name \in asked'[m]
    BY <2>2 DEF Change, TagsChange
  <2>4. u.name \in asked[w.msg]
    BY <1>2, <2>3 DEF Given
  <2> QED
    BY <2>1, <2>3, <2>4
<1> QED
  BY <1>1, <1>2 DEF Given, Change

\* A step of p that leaves it with good locals preserves the invariant.
LEMMA Preserved ==
    ASSUME IInv, TypeOK', Change, NEW p \in Workers, NEW v \in Locals, Proceed(p, v), Given(v)'
    PROVE  IInv'
<1>1. IdsGiven'
  <2>1. \A r \in message_tags' : r[2] <= lastId
    BY DEF IInv, IdsGiven, Change, RowsChange
  <2>2. \A r \in message_tags' : r[2] \in TagIds
    BY DEF TypeOK
  <2>3. lastId \in Nat /\ lastId' \in Nat /\ lastId <= lastId'
    BY BoundAssumption DEF IInv, TypeOK, Change
  <2> QED
    BY <2>1, <2>2, <2>3, BoundAssumption DEF IdsGiven, Change, TagIds
<1>2. ASSUME NEW m \in Messages, NEW t \in tags', <<m, t.id>> \in message_tags'
      PROVE  t.name \in asked'[m]
  <2>1. t.id <= lastId
    BY <1>2 DEF IInv, IdsGiven, Change, RowsChange
  <2>2. ~(t.id > lastId)
    BY <2>1, BoundAssumption DEF IInv, TypeOK, Tag, TagIds
  <2>3. PICK u \in tags :
           u.id = t.id /\ \A k \in Messages : u.name \in asked[k] => t.name \in asked'[k]
    BY <2>2 DEF Change, TagsChange
  <2>4. CASE <<m, t.id>> \in message_tags
    <3>1. u.name \in Shown(m)
      BY <2>3, <2>4 DEF Shown
    <3> QED
      BY <2>3, <3>1 DEF IInv, ShownTagsWereGiven
  <2>5. CASE <<m, t.id>> \notin message_tags
    <3>1. u.name \in asked[m]
      BY <1>2, <2>3, <2>5 DEF Change, RowsChange
    <3> QED
      BY <2>3, <3>1
  <2> QED
    BY <2>4, <2>5
<1>3. ShownTagsWereGiven'
  BY <1>2 DEF ShownTagsWereGiven, Shown
<1>4. ASSUME NEW q \in Workers PROVE Given(work[q])'
  <2>1. CASE q = p
    BY <2>1, ProceedLocals DEF IInv, Given
  <2>2. CASE q # p
    <3>1. work[q] \in Locals /\ Given(work[q])
      BY DEF IInv, TypeOK
    <3>2. PICK u \in Locals : u = work[q] /\ Given(u)
      BY <3>1
    <3>3. work'[q] = [u EXCEPT !.alone = FALSE]
      BY <2>2, <3>2, ProceedLocals DEF IInv
    <3>4. /\ work'[q].stmt = u.stmt /\ work'[q].msg = u.msg /\ work'[q].want = u.want
          /\ work'[q].add = u.add /\ work'[q].name = u.name /\ work'[q].to = u.to
          /\ work'[q].id = u.id
      BY <3>3 DEF Locals
    <3>5. Given(u)'
      BY <3>2, GivenKept DEF IInv
    <3> QED
      BY <3>4, <3>5 DEF Given
  <2> QED
    BY <2>1, <2>2
<1> QED
  BY <1>1, <1>3, <1>4 DEF IInv

\* Everything but the locals is well typed.
DataOK ==
    /\ mail \in [Messages -> {"new", "here", "gone"}]
    /\ tags \in SUBSET Tag
    /\ \A t, u \in tags : t.id = u.id \/ t.name = u.name => t = u
    /\ lastId \in 0..MaxTagId
    /\ message_tags \in SUBSET (Messages \X TagIds)
    /\ faults \in 0..MaxFaults
    /\ result \in {"none", "ok", "error"}
    /\ asked \in [Messages -> SUBSET Names]

\* A step of p to good locals preserves the invariant: the form every action has.
LEMMA GoodStep ==
    ASSUME IInv, DataOK', Change, NEW p \in Workers, NEW v \in Locals, Proceed(p, v),
           Given(v) \/ Given(v)'
    PROVE  IInv'
<1>1. TypeOK'
  BY ProceedLocals DEF IInv, TypeOK, DataOK
<1>2. Given(v)'
  BY <1>1, GivenKept DEF IInv
<1> QED
  BY <1>1, <1>2, Preserved

\* A step of p that adds no tag, no row and no name a message was given.
LEMMA ShrinkStep ==
    ASSUME IInv, tags' \subseteq tags, message_tags' \subseteq message_tags,
           UNCHANGED <<lastId, asked>>, mail' \in [Messages -> {"new", "here", "gone"}],
           NEW p \in Workers, \E v \in Locals : Proceed(p, v) /\ Given(v),
           faults' \in 0..MaxFaults, result' \in {"none", "ok", "error"}
    PROVE  IInv'
<1>1. PICK v \in Locals : Proceed(p, v) /\ Given(v)
  OBVIOUS
<1>2. DataOK'
  BY DEF IInv, TypeOK, DataOK
<1>3. Change
  <2>1. lastId \in Nat
    BY BoundAssumption DEF IInv, TypeOK
  <2>2. TagsChange
    BY DEF TagsChange
  <2>3. RowsChange
    BY DEF RowsChange
  <2> QED
    BY <2>1, <2>2, <2>3 DEF Change, IInv, IdsGiven
<1> QED
  BY <1>1, <1>2, <1>3, GoodStep

----------------------------------------------------------------------------
(* The initial state and the requests                                      *)

LEMMA InitIInv == Init => IInv
<1> SUFFICES ASSUME Init PROVE IInv
  OBVIOUS
<1>1. Idle \in Locals
  BY DEF Idle, Locals, Operations, Statements
<1>2. TypeOK
  BY <1>1, BoundAssumption DEF Init, TypeOK
<1>3. \A p \in Workers : Given(work[p])
  BY <1>2, IdleLocals DEF Init
<1>4. ShownTagsWereGiven /\ IdsGiven
  BY DEF Init, ShownTagsWereGiven, Shown, IdsGiven
<1> QED
  BY <1>2, <1>3, <1>4 DEF IInv

\* A request of SetMessageTags, by the client or by Store.
LEMMA SetStep ==
    ASSUME IInv, NEW p \in Workers, StartSet(p) \/ StartStore(p)
    PROVE  IInv'
<1>1. PICK m \in Messages, S \in SUBSET Names :
         /\ Start(p, SetLocals(m, S))
         /\ asked' = [asked EXCEPT ![m] = @ \union S]
         /\ mail' = mail \/ mail' = [mail EXCEPT ![m] = "here"]
  BY DEF StartSet, StartStore, tables
<1>2. UNCHANGED <<tags, lastId, message_tags, faults>>
  BY DEF StartSet, StartStore, tables
<1>3. \E v \in Locals : v.stmt = "read" /\ v.msg = m /\ v.want = S /\ v.id = 0 /\ Proceed(p, v)
  <2> DEFINE w == [SetLocals(m, S) EXCEPT !.alone = \A q \in Workers : At(q, "idle")]
  <2>1. w \in Locals /\ w.stmt = "read" /\ w.msg = m /\ w.want = S /\ w.id = 0
    BY DEF SetLocals, Idle, Locals, Operations, Statements
  <2>2. Proceed(p, w)
    BY <1>1 DEF Start, Go
  <2> QED
    BY <2>1, <2>2
<1>v. PICK v \in Locals :
         v.stmt = "read" /\ v.msg = m /\ v.want = S /\ v.id = 0 /\ Proceed(p, v)
  BY <1>3
<1>4. result' = "none"
  BY <1>1 DEF Start, Go
<1>5. asked' \in [Messages -> SUBSET Names] /\ S \subseteq asked'[m]
      /\ \A k \in Messages : asked[k] \subseteq asked'[k]
  BY <1>1 DEF IInv, TypeOK
<1>6. DataOK'
  BY <1>1, <1>2, <1>4, <1>5 DEF IInv, TypeOK, DataOK
<1>7. Change
  <2>1. lastId \in Nat
    BY BoundAssumption DEF IInv, TypeOK
  <2>2. TagsChange
    BY <1>2, <1>5 DEF TagsChange
  <2>3. RowsChange
    BY <1>2 DEF RowsChange
  <2> QED
    BY <1>2, <1>5, <2>1, <2>2, <2>3 DEF Change, IInv, IdsGiven
<1>8. 0 <= lastId'
  BY <1>2, BoundAssumption DEF IInv, TypeOK
<1>9. Given(v)'
  BY <1>v, <1>5, <1>8 DEF Given
<1> QED
  BY <1>v, <1>6, <1>7, <1>9, GoodStep

LEMMA RenameStep ==
    ASSUME IInv, NEW p \in Workers, StartRename(p) \/ StartDrop(p)
    PROVE  IInv'
<1>1. 0 <= lastId
  BY BoundAssumption DEF IInv, TypeOK
<1>2. ASSUME StartRename(p) PROVE \E v \in Locals : Proceed(p, v) /\ Given(v)
  <2>1. PICK from, to \in Names :
           Start(p, [Idle EXCEPT !.op = "rename", !.stmt = "findFrom", !.name = from, !.to = to])
    BY <1>2 DEF StartRename
  <2> DEFINE v == [Idle EXCEPT !.op = "rename", !.stmt = "findFrom", !.name = from, !.to = to,
                               !.alone = \A q \in Workers : At(q, "idle")]
  <2>2. v \in Locals
    BY DEF Idle, Locals, Operations, Statements
  <2>3. Given(v)
    BY <1>1 DEF Given, Idle
  <2>4. Proceed(p, v)
    BY <2>1 DEF Start, Go, Idle
  <2> QED
    BY <2>2, <2>3, <2>4
<1>3. ASSUME StartDrop(p) PROVE \E v \in Locals : Proceed(p, v) /\ Given(v)
  <2>1. PICK n \in Names : Start(p, [Idle EXCEPT !.op = "drop", !.stmt = "findTag", !.name = n])
    BY <1>3 DEF StartDrop
  <2> DEFINE v == [Idle EXCEPT !.op = "drop", !.stmt = "findTag", !.name = n,
                               !.alone = \A q \in Workers : At(q, "idle")]
  <2>2. v \in Locals
    BY DEF Idle, Locals, Operations, Statements
  <2>3. Given(v)
    BY <1>1 DEF Given, Idle
  <2>4. Proceed(p, v)
    BY <2>1 DEF Start, Go, Idle
  <2> QED
    BY <2>2, <2>3, <2>4
<1>4. result' = "none" /\ UNCHANGED <<tables, faults, asked>>
  BY DEF StartRename, StartDrop, Start, Go
<1> QED
  BY <1>2, <1>3, <1>4, ShrinkStep DEF IInv, TypeOK, tables

LEMMA DeleteStep ==
    ASSUME IInv, NEW p \in Workers, StartDelete(p)
    PROVE  IInv'
<1> DEFINE v == [Idle EXCEPT !.op = "prune", !.stmt = "findUnused",
                             !.alone = \A q \in Workers : At(q, "idle")]
<1>1. v \in Locals
  BY DEF Idle, Locals, Operations, Statements
<1>2. Given(v)
  BY BoundAssumption DEF Given, Idle, IInv, TypeOK
<1>3. Proceed(p, v) /\ result' = "none"
  BY DEF StartDelete, Start, Go, Idle
<1>4. mail' \in [Messages -> {"new", "here", "gone"}]
  BY DEF StartDelete, IInv, TypeOK
<1>5. message_tags' \subseteq message_tags /\ UNCHANGED <<tags, lastId, faults, asked>>
  BY DEF StartDelete
<1> HIDE DEF v
<1>6. \E u \in Locals : Proceed(p, u) /\ Given(u)
  BY <1>1, <1>2, <1>3
<1> QED
  BY <1>3, <1>4, <1>5, <1>6, ShrinkStep DEF IInv, TypeOK

\* Emptying both tables.
LEMMA DeleteAllStep ==
    ASSUME IInv, NEW p \in Workers, DeleteAll(p)
    PROVE  IInv'
<1>1. \E v \in Locals : Proceed(p, v) /\ Given(v)
  BY IdleLocals DEF DeleteAll, Return, IInv
<1>2. mail' \in [Messages -> {"new", "here", "gone"}]
  BY DEF DeleteAll, IInv, TypeOK
<1> QED
  BY <1>1, <1>2, ShrinkStep DEF DeleteAll, Return, IInv, TypeOK

----------------------------------------------------------------------------
(* The statements                                                          *)

\* The locals of p are typed and good.
LEMMA Mine ==
    ASSUME IInv, NEW p \in Workers
    PROVE  \E w \in Locals : w = work[p] /\ Given(w) /\ w.id <= lastId
BY DEF IInv, TypeOK, Given

\* A return leaves p with good locals.
LEMMA ReturnLocals ==
    ASSUME IInv, NEW p \in Workers, NEW r, Return(p, r)
    PROVE  \E v \in Locals : Proceed(p, v) /\ Given(v)
BY IdleLocals DEF Return, IInv

LEMMA ReadStep ==
    ASSUME IInv, NEW p \in Workers, ReadTags(p)
    PROVE  IInv'
<1>1. PICK w \in Locals : w = work[p] /\ Given(w) /\ w.id <= lastId
  BY Mine
<1> DEFINE v == [w EXCEPT !.add = w.want \ Shown(w.msg), !.drop = Shown(w.msg) \ w.want]
<1>2. Shown(w.msg) \subseteq Names
  BY DEF Shown, IInv, TypeOK, Tag
<1>3. v \in Locals /\ v.msg = w.msg /\ v.add \subseteq w.want /\ v.id = w.id
  BY <1>2 DEF Locals
<1>4. Continue(p, v)
  BY <1>1 DEF ReadTags
<1>5. w.msg \in Messages /\ w.want \subseteq asked[w.msg]
  BY <1>1 DEF ReadTags, At, Given
<1> HIDE DEF v
<1>6. /\ \E u \in Locals : Proceed(p, u) /\ Given(u)
      /\ result' \in {"none", "ok"}
  BY <1>1, <1>3, <1>4, <1>5, ContinueLocals DEF IInv
<1>7. UNCHANGED <<tables, faults, asked>>
  BY DEF ReadTags
<1> QED
  BY <1>6, <1>7, ShrinkStep DEF IInv, TypeOK, tables

\* Find, whose next statement is good for the ID it has read.
LEMMA FindStep ==
    ASSUME IInv, NEW p \in Workers, SelectTag(p) \/ FindFrom(p) \/ FindTag(p)
    PROVE  IInv'
<1>1. PICK w \in Locals : w = work[p] /\ Given(w) /\ w.id <= lastId
  BY Mine
<1>2. ASSUME NEW t \in tags, t.name = w.name, NEW s \in {"countRows", "findTo", "dropRows"},
             Go(p, [w EXCEPT !.id = t.id, !.stmt = s]),
             s = "countRows" => w.stmt = "selectTag",
             s = "findTo" => w.stmt = "findFrom"
      PROVE  \E v \in Locals : Proceed(p, v) /\ Given(v)
  <2> DEFINE v == [w EXCEPT !.id = t.id, !.stmt = s]
  <2>1. t.id \in TagIds /\ t.id <= lastId /\ \A u \in tags : u.id = t.id => u = t
    BY DEF IInv, TypeOK, Tag, IdsGiven
  <2>2. v \in Locals
    BY <2>1 DEF Locals, Statements
  <2>3. /\ v.stmt = s /\ v.id = t.id /\ v.msg = w.msg /\ v.add = w.add
        /\ v.to = w.to /\ v.name = w.name
    BY DEF Locals
  <2> HIDE DEF v
  <2>4. Given(v)
    BY <1>1, <1>2, <2>1, <2>3 DEF Given
  <2>5. Proceed(p, v)
    BY <1>2 DEF Go, v
  <2> QED
    BY <2>2, <2>4, <2>5
<1>3. ASSUME NEW s \in {"countRows", "findTo", "dropRows"}, NEW at, Find(p, at, s),
             s = "countRows" => w.stmt = "selectTag",
             s = "findTo" => w.stmt = "findFrom"
      PROVE  /\ \E v \in Locals : Proceed(p, v) /\ Given(v)
             /\ result' \in {"none", "error"} /\ UNCHANGED <<tables, faults, asked>>
  <2>1. CASE \E t \in tags : t.name = w.name /\ Go(p, [w EXCEPT !.id = t.id, !.stmt = s])
    BY <1>2, <1>3, <2>1 DEF Find, Go
  <2>2. CASE Return(p, "error")
    BY <1>3, <2>2, ReturnLocals DEF Find, Return
  <2> QED
    BY <1>1, <1>3, <2>1, <2>2 DEF Find
<1>4. /\ \E v \in Locals : Proceed(p, v) /\ Given(v)
      /\ result' \in {"none", "error"} /\ UNCHANGED <<tables, faults, asked>>
  <2>1. CASE SelectTag(p)
    <3>1. Find(p, "selectTag", "countRows") /\ w.stmt = "selectTag"
      BY <1>1, <2>1 DEF SelectTag, Find, At
    <3> QED
      BY <1>3, <3>1
  <2>2. CASE FindFrom(p)
    <3>1. Find(p, "findFrom", "findTo") /\ w.stmt = "findFrom"
      BY <1>1, <2>2 DEF FindFrom, Find, At
    <3> QED
      BY <1>3, <3>1
  <2>3. CASE FindTag(p)
    <3>1. Find(p, "findTag", "dropRows")
      BY <2>3 DEF FindTag
    <3> QED
      BY <1>3, <3>1
  <2> QED
    BY <2>1, <2>2, <2>3
<1> QED
  BY <1>4, ShrinkStep DEF IInv, TypeOK, tables

\* INSERT OR IGNORE: a new tag has an ID no row and no goroutine knows.
LEMMA InsertTagStep ==
    ASSUME IInv, NEW p \in Workers, InsertTag(p)
    PROVE  IInv'
<1>1. PICK w \in Locals : w = work[p] /\ Given(w) /\ w.id <= lastId
  BY Mine
<1>2. w.msg \in Messages /\ w.add \subseteq asked[w.msg] /\ w.name \in asked[w.msg]
      /\ w.name \in Names /\ lastId \in Nat
  BY <1>1, BoundAssumption DEF InsertTag, At, Given, IInv, TypeOK
<1>3. UNCHANGED <<mail, message_tags, faults, asked>>
  BY DEF InsertTag
<1>4. CASE Return(p, "error") /\ UNCHANGED <<tags, lastId>>
  <2>1. \E v \in Locals : Proceed(p, v) /\ Given(v)
    BY <1>4, ReturnLocals
  <2> QED
    BY <1>3, <1>4, <2>1, ShrinkStep DEF IInv, TypeOK, Return
<1>5. CASE AddTag(w.name) /\ Go(p, [w EXCEPT !.stmt = "selectTag"])
  <2> DEFINE v == [w EXCEPT !.stmt = "selectTag"]
  <2>1. v \in Locals /\ v.stmt = "selectTag" /\ v.msg = w.msg /\ v.add = w.add
        /\ v.name = w.name /\ v.id = w.id
    BY DEF Locals, Statements
  <2>2. Proceed(p, v) /\ result' = "none"
    BY <1>5 DEF Go
  <2> HIDE DEF v
  <2>3. Given(v)
    BY <1>1, <1>2, <2>1 DEF Given
  <2>4. CASE UNCHANGED <<tags, lastId>>
    BY <1>3, <2>1, <2>2, <2>3, <2>4, ShrinkStep DEF IInv, TypeOK
  <2>5. CASE /\ \A t \in tags : t.name # w.name
             /\ lastId + 1 \in TagIds
             /\ tags' = tags \union {[id |-> lastId + 1, name |-> w.name]}
             /\ lastId' = lastId + 1
    <3>1. \A t \in tags : t.id <= lastId
      BY DEF IInv, IdsGiven
    <3>2. DataOK'
      <4>1. tags' \in SUBSET Tag
        BY <1>2, <2>5 DEF IInv, TypeOK, Tag
      <4>2. \A t \in tags : t.id # lastId + 1
        BY <1>2, <3>1
      <4>3. \A t, u \in tags' : t.id = u.id \/ t.name = u.name => t = u
        BY <2>5, <4>2 DEF IInv, TypeOK
      <4>4. lastId' \in 0..MaxTagId
        BY <1>2, <2>5, BoundAssumption DEF TagIds
      <4> QED
        BY <1>3, <2>2, <4>1, <4>3, <4>4 DEF DataOK, IInv, TypeOK
    <3>3. Change
      <4>1. TagsChange
        BY <1>2, <1>3, <2>5 DEF TagsChange
      <4>2. RowsChange
        BY <1>3 DEF RowsChange
      <4>3. \A t \in tags : t.id <= lastId + 1
        BY <1>2, <3>1 DEF IInv, TypeOK, Tag, TagIds
      <4>4. \A t \in tags' : t.id <= lastId'
        BY <1>2, <2>5, <4>3
      <4> QED
        BY <1>2, <1>3, <2>5, <4>1, <4>2, <4>4 DEF Change
    <3> QED
      BY <2>1, <2>2, <2>3, <3>2, <3>3, GoodStep
  <2> QED
    BY <1>5, <2>4, <2>5 DEF AddTag, NextId
<1> QED
  BY <1>1, <1>4, <1>5 DEF InsertTag

LEMMA CountStep ==
    ASSUME IInv, NEW p \in Workers, CountRows(p)
    PROVE  IInv'
<1>1. PICK w \in Locals : w = work[p] /\ Given(w) /\ w.id <= lastId
  BY Mine
<1>2. w.stmt = "countRows" /\ UNCHANGED <<tables, faults, asked>>
  BY <1>1 DEF CountRows, At
<1>3. CASE Continue(p, w)
  <2>1. /\ \E v \in Locals : Proceed(p, v) /\ Given(v)
        /\ result' \in {"none", "ok"}
    BY <1>1, <1>2, <1>3, ContinueLocals DEF IInv, Given
  <2> QED
    BY <1>2, <2>1, ShrinkStep DEF IInv, TypeOK, tables
<1>4. CASE Go(p, [w EXCEPT !.stmt = "insertRow"])
  <2> DEFINE v == [w EXCEPT !.stmt = "insertRow"]
  <2>1. v \in Locals /\ v.stmt = "insertRow" /\ v.msg = w.msg /\ v.add = w.add /\ v.id = w.id
    BY DEF Locals, Statements
  <2>2. Proceed(p, v) /\ result' = "none"
    BY <1>4 DEF Go
  <2> HIDE DEF v
  <2>3. Given(v)
    BY <1>1, <1>2, <2>1 DEF Given
  <2> QED
    BY <1>2, <2>1, <2>2, <2>3, ShrinkStep DEF IInv, TypeOK, tables
<1> QED
  BY <1>1, <1>3, <1>4 DEF CountRows

\* The row inserted is one of the tag the name was read for, if it is there yet.
LEMMA InsertRowStep ==
    ASSUME IInv, NEW p \in Workers, InsertRow(p)
    PROVE  IInv'
<1>1. PICK w \in Locals : w = work[p] /\ Given(w) /\ w.id <= lastId
  BY Mine
<1>2. /\ w.stmt = "insertRow"
      /\ message_tags' = message_tags \union {<<w.msg, w.id>>}
      /\ Continue(p, w)
      /\ UNCHANGED <<mail, tags, lastId, faults, asked>>
  BY <1>1 DEF InsertRow, At
<1>3. /\ w.msg \in Messages /\ w.id \in TagIds /\ w.add \subseteq asked[w.msg]
      /\ \A t \in tags : t.id = w.id => t.name \in asked[w.msg]
  BY <1>1, <1>2 DEF Given
<1>4. PICK v \in Locals : Proceed(p, v) /\ Given(v)
  BY <1>1, <1>2, <1>3, ContinueLocals DEF IInv
<1>5. result' \in {"none", "ok"}
  BY <1>1, <1>2, <1>3, ContinueLocals DEF IInv
<1>6. DataOK'
  BY <1>2, <1>3, <1>5 DEF DataOK, IInv, TypeOK
<1>7. Change
  <2>1. TagsChange
    BY <1>2 DEF TagsChange
  <2>2. RowsChange
    BY <1>1, <1>2, <1>3 DEF RowsChange
  <2>3. lastId \in Nat
    BY BoundAssumption DEF IInv, TypeOK
  <2> QED
    BY <1>2, <2>1, <2>2, <2>3 DEF Change, IInv, IdsGiven
<1> QED
  BY <1>4, <1>6, <1>7, GoodStep

\* The locals of p but for the next statement, the names to take off and the
\* IDs to prune, with a statement that asks nothing of them.
LEMMA PlainLocals ==
    ASSUME IInv, NEW p \in Workers, NEW w \in Locals, w.id <= lastId,
           NEW s \in {"findUnused", "pruneTag", "dropTag"},
           NEW d \in SUBSET Names, NEW V \in SUBSET TagIds,
           Go(p, [w EXCEPT !.stmt = s, !.drop = d, !.victims = V])
    PROVE  \E v \in Locals : Proceed(p, v) /\ Given(v)
<1> DEFINE v == [w EXCEPT !.stmt = s, !.drop = d, !.victims = V]
<1>1. v.stmt = s /\ v.id = w.id
  BY DEF Locals
<1>2. v \in Locals
  <2>1. s \in Statements
    BY DEF Statements
  <2> QED
    BY <2>1 DEF Locals
<1>3. Proceed(p, v)
  BY DEF Go
<1> HIDE DEF v
<1> QED
  BY <1>1, <1>2, <1>3 DEF Given

\* Deleting rows, by SetMessageTags and by DeleteTag.
LEMMA DropRowsStep ==
    ASSUME IInv, NEW p \in Workers, DeleteRows(p) \/ DropRows(p)
    PROVE  IInv'
<1>1. PICK w \in Locals : w = work[p] /\ Given(w) /\ w.id <= lastId
  BY Mine
<1>2. CASE DeleteRows(p)
  <2>1. Go(p, [w EXCEPT !.stmt = "findUnused", !.drop = {}])
    BY <1>1, <1>2 DEF DeleteRows
  <2>2. [w EXCEPT !.stmt = "findUnused", !.drop = {}]
          = [w EXCEPT !.stmt = "findUnused", !.drop = {}, !.victims = w.victims]
    BY DEF Locals
  <2>3. Go(p, [w EXCEPT !.stmt = "findUnused", !.drop = {}, !.victims = w.victims])
    BY <2>1, <2>2
  <2>4. {} \in SUBSET Names /\ w.victims \in SUBSET TagIds
    BY DEF Locals
  <2>5. \E v \in Locals : Proceed(p, v) /\ Given(v)
    BY <1>1, <2>3, <2>4, PlainLocals
  <2> QED
    BY <1>2, <2>5, ShrinkStep DEF DeleteRows, Go, IInv, TypeOK
<1>3. CASE DropRows(p)
  <2>1. Go(p, [w EXCEPT !.stmt = "dropTag"])
    BY <1>1, <1>3 DEF DropRows
  <2>2. [w EXCEPT !.stmt = "dropTag"]
          = [w EXCEPT !.stmt = "dropTag", !.drop = w.drop, !.victims = w.victims]
    BY DEF Locals
  <2>3. Go(p, [w EXCEPT !.stmt = "dropTag", !.drop = w.drop, !.victims = w.victims])
    BY <2>1, <2>2
  <2>4. w.drop \in SUBSET Names /\ w.victims \in SUBSET TagIds
    BY DEF Locals
  <2>5. \E v \in Locals : Proceed(p, v) /\ Given(v)
    BY <1>1, <2>3, <2>4, PlainLocals
  <2> QED
    BY <1>3, <2>5, ShrinkStep DEF DropRows, Go, IInv, TypeOK
<1> QED
  BY <1>2, <1>3

LEMMA PruneStep ==
    ASSUME IInv, NEW p \in Workers, FindUnused(p) \/ PruneTag(p)
    PROVE  IInv'
<1>1. PICK w \in Locals : w = work[p] /\ Given(w) /\ w.id <= lastId
  BY Mine
<1>2. ASSUME NEW V \in SUBSET TagIds,
             \/ Return(p, "ok")
             \/ Go(p, [w EXCEPT !.stmt = "pruneTag", !.victims = V])
      PROVE  /\ \E v \in Locals : Proceed(p, v) /\ Given(v)
             /\ result' \in {"none", "ok"}
  <2>1. [w EXCEPT !.stmt = "pruneTag", !.victims = V]
          = [w EXCEPT !.stmt = "pruneTag", !.drop = w.drop, !.victims = V]
        /\ w.drop \in SUBSET Names
    BY DEF Locals
  <2>2. CASE Return(p, "ok")
    BY <2>2, ReturnLocals DEF Return
  <2>3. CASE Go(p, [w EXCEPT !.stmt = "pruneTag", !.victims = V])
    <3>1. \E v \in Locals : Proceed(p, v) /\ Given(v)
      BY <1>1, <2>1, <2>3, PlainLocals
    <3> QED
      BY <2>3, <3>1 DEF Go
  <2> QED
    BY <1>2, <2>2, <2>3
<1>3. CASE FindUnused(p)
  <2>1. Unused \subseteq TagIds
    BY DEF Unused, IInv, TypeOK, Tag
  <2>2. /\ \E v \in Locals : Proceed(p, v) /\ Given(v)
        /\ result' \in {"none", "ok"}
    BY <1>1, <1>2, <1>3, <2>1 DEF FindUnused
  <2> QED
    BY <1>3, <2>2, ShrinkStep DEF FindUnused, IInv, TypeOK, tables
<1>4. CASE PruneTag(p)
  <2>1. PICK i \in w.victims :
           /\ tags' = {t \in tags : t.id # i}
           /\ Return(p, "ok") \/ Go(p, [w EXCEPT !.victims = @ \ {i}])
    BY <1>1, <1>4 DEF PruneTag
  <2>2. [w EXCEPT !.victims = @ \ {i}] = [w EXCEPT !.stmt = "pruneTag", !.victims = w.victims \ {i}]
        /\ w.victims \ {i} \in SUBSET TagIds
    BY <1>1, <1>4 DEF Locals, PruneTag, At
  <2>3. /\ \E v \in Locals : Proceed(p, v) /\ Given(v)
        /\ result' \in {"none", "ok"}
    BY <1>2, <2>1, <2>2
  <2> QED
    BY <1>4, <2>1, <2>3, ShrinkStep DEF PruneTag, IInv, TypeOK
<1> QED
  BY <1>3, <1>4

LEMMA DropTagStep ==
    ASSUME IInv, NEW p \in Workers, DropTag(p)
    PROVE  IInv'
<1>1. \E v \in Locals : Proceed(p, v) /\ Given(v)
  BY ReturnLocals DEF DropTag
<1> QED
  BY <1>1, ShrinkStep DEF DropTag, Return, IInv, TypeOK

LEMMA FindToStep ==
    ASSUME IInv, NEW p \in Workers, FindTo(p)
    PROVE  IInv'
<1>1. PICK w \in Locals : w = work[p] /\ Given(w) /\ w.id <= lastId
  BY Mine
<1>2. w.stmt = "findTo" /\ w.to \in Names /\ UNCHANGED <<tables, faults, asked>>
  BY <1>1 DEF FindTo, At, Given
<1>3. CASE Return(p, "error")
  BY <1>2, <1>3, ReturnLocals, ShrinkStep DEF Return, IInv, TypeOK, tables
<1>4. CASE Go(p, [w EXCEPT !.stmt = "update"])
  <2> DEFINE v == [w EXCEPT !.stmt = "update"]
  <2>1. v \in Locals /\ v.stmt = "update" /\ v.to = w.to /\ v.id = w.id
    BY DEF Locals, Statements
  <2>2. Proceed(p, v) /\ result' = "none"
    BY <1>4 DEF Go
  <2> HIDE DEF v
  <2>3. Given(v)
    BY <1>1, <1>2, <2>1 DEF Given
  <2> QED
    BY <1>2, <2>1, <2>2, <2>3, ShrinkStep DEF IInv, TypeOK, tables
<1> QED
  BY <1>1, <1>3, <1>4 DEF FindTo

\* UPDATE tags SET Name, which the UNIQUE index refuses when the name is taken.
LEMMA UpdateStep ==
    ASSUME IInv, NEW p \in Workers, Update(p)
    PROVE  IInv'
<1>1. PICK w \in Locals : w = work[p] /\ Given(w) /\ w.id <= lastId
  BY Mine
<1>2. w.to \in Names /\ UNCHANGED <<mail, lastId, message_tags, faults>>
  BY <1>1 DEF Update, At, Given
<1>3. \E v \in Locals : Proceed(p, v) /\ Given(v)
  BY ReturnLocals DEF Update
<1>4. CASE UNCHANGED <<tags, asked>>
  BY <1>2, <1>3, <1>4, ShrinkStep DEF Update, Return, IInv, TypeOK
<1>5. CASE /\ ~Taken(p)
           /\ tags' = {IF t.id = w.id THEN [t EXCEPT !.name = w.to] ELSE t : t \in tags}
           /\ asked' = GivenWith(w.id, w.to)
  <2>1. result' \in {"ok", "error"}
    BY DEF Update, Return
  <2>2. \A t \in tags' :
           \E u \in tags : u.id = t.id /\ t.name = (IF u.id = w.id THEN w.to ELSE u.name)
                           /\ t \in Tag
    BY <1>2, <1>5 DEF IInv, TypeOK, Tag
  <2>3. \A t \in tags : t.name = w.to => t.id = w.id
    BY <1>1, <1>5 DEF Taken
  <2>4. asked' \in [Messages -> SUBSET Names]
        /\ \A m \in Messages : asked[m] \subseteq asked'[m]
    BY <1>2, <1>5 DEF GivenWith, IInv, TypeOK
  <2>5. DataOK'
    <3>1. tags' \in SUBSET Tag
      BY <2>2
    <3>2. ASSUME NEW t \in tags', NEW u \in tags', t.id = u.id \/ t.name = u.name
          PROVE  t = u
      <4>1. PICK a \in tags : a.id = t.id /\ t.name = IF a.id = w.id THEN w.to ELSE a.name
        BY <2>2
      <4>2. PICK b \in tags : b.id = u.id /\ u.name = IF b.id = w.id THEN w.to ELSE b.name
        BY <2>2
      <4>3. a = b
        BY <2>3, <3>2, <4>1, <4>2 DEF IInv, TypeOK
      <4> QED
        BY <3>1, <4>1, <4>2, <4>3 DEF Tag
    <3> QED
      BY <1>2, <2>1, <2>4, <3>1, <3>2 DEF DataOK, IInv, TypeOK
  <2>6. Change
    <3>1. ASSUME NEW t \in tags', NEW u \in tags, u.id = t.id,
                 t.name = IF u.id = w.id THEN w.to ELSE u.name,
                 NEW m \in Messages, u.name \in asked[m]
          PROVE  t.name \in asked'[m]
      <4>1. CASE u.id = w.id
        BY <1>5, <3>1, <4>1 DEF GivenWith
      <4>2. CASE u.id # w.id
        BY <2>4, <3>1, <4>2
      <4> QED
        BY <4>1, <4>2
    <3>2. TagsChange
      BY <2>2, <3>1 DEF TagsChange
    <3>3. RowsChange
      BY <1>2 DEF RowsChange
    <3>4. lastId \in Nat
      BY BoundAssumption DEF IInv, TypeOK
    <3>5. \A t \in tags' : t.id <= lastId'
      BY <1>2, <2>2 DEF IInv, IdsGiven
    <3> QED
      BY <1>2, <2>4, <3>2, <3>3, <3>4, <3>5 DEF Change
  <2> QED
    BY <1>3, <2>5, <2>6, GoodStep
<1> QED
  BY <1>1, <1>4, <1>5 DEF Update

LEMMA FailStep ==
    ASSUME IInv, NEW p \in Workers, Fail(p)
    PROVE  IInv'
<1>1. PICK w \in Locals : w = work[p] /\ Given(w) /\ w.id <= lastId
  BY Mine
<1>2. faults' \in 0..MaxFaults /\ UNCHANGED <<tables, asked>>
  BY BoundAssumption DEF Fail, IInv, TypeOK
<1>3. CASE Return(p, "error")
  BY <1>2, <1>3, ReturnLocals, ShrinkStep DEF Return, IInv, TypeOK, tables
<1>4. CASE w.stmt = "read" /\ Continue(p, [w EXCEPT !.add = w.want, !.alone = FALSE])
  <2> DEFINE v == [w EXCEPT !.add = w.want, !.alone = FALSE]
  <2>1. v \in Locals /\ v.msg = w.msg /\ v.add = w.want /\ v.id = w.id
    BY DEF Locals
  <2>2. w.msg \in Messages /\ w.want \subseteq asked[w.msg] /\ Continue(p, v)
    BY <1>1, <1>4 DEF Given
  <2> HIDE DEF v
  <2>3. /\ \E u \in Locals : Proceed(p, u) /\ Given(u)
        /\ result' \in {"none", "ok"}
    BY <1>1, <2>1, <2>2, ContinueLocals DEF IInv
  <2> QED
    BY <1>2, <2>3, ShrinkStep DEF IInv, TypeOK, tables
<1>5. CASE w.stmt = "findTo" /\ Go(p, [w EXCEPT !.stmt = "update", !.alone = FALSE])
  <2> DEFINE v == [w EXCEPT !.stmt = "update", !.alone = FALSE]
  <2>1. v \in Locals /\ v.stmt = "update" /\ v.to = w.to /\ v.id = w.id
    BY DEF Locals, Statements
  <2>2. Proceed(p, v) /\ result' = "none"
    BY <1>5 DEF Go
  <2> HIDE DEF v
  <2>3. Given(v)
    BY <1>1, <1>5, <2>1 DEF Given
  <2> QED
    BY <1>2, <2>1, <2>2, <2>3, ShrinkStep DEF IInv, TypeOK, tables
<1> QED
  BY <1>1, <1>3, <1>4, <1>5 DEF Fail, At

----------------------------------------------------------------------------
(* Theorems                                                                *)

LEMMA StepIInv == IInv /\ [Next]_vars => IInv'
<1> SUFFICES ASSUME IInv, [Next]_vars PROVE IInv'
  OBVIOUS
<1>1. ASSUME NEW p \in Workers, Request(p) PROVE IInv'
  BY <1>1, SetStep, RenameStep, DeleteStep, DeleteAllStep DEF Request
<1>2. ASSUME NEW p \in Workers, Statement(p) PROVE IInv'
  BY <1>2, ReadStep, FindStep, InsertTagStep, CountStep, InsertRowStep, DropRowsStep,
     PruneStep, FindToStep, UpdateStep, DropTagStep DEF Statement
<1>3. ASSUME NEW p \in Workers, Fail(p) PROVE IInv'
  BY <1>3, FailStep
<1>4. CASE UNCHANGED vars
  <2>1. TypeOK'
    BY <1>4 DEF IInv, TypeOK, vars, tables, history
  <2>2. IdsGiven' /\ ShownTagsWereGiven'
    BY <1>4 DEF IInv, IdsGiven, ShownTagsWereGiven, Shown, vars, tables, history
  <2>3. \A p \in Workers : Given(work[p])'
    BY <1>4 DEF IInv, Given, vars, tables, history
  <2> QED
    BY <2>1, <2>2, <2>3 DEF IInv
<1> QED
  BY <1>1, <1>2, <1>3, <1>4 DEF Next

\* Every reachable state satisfies the inductive invariant: IDs of tags are
\* never used twice, and what a request has read stays good for what it does.
THEOREM TagsInductive == Spec => []IInv
BY InitIInv, StepIInv, PTL DEF Spec

\* However requests overlap and statements fail, the table of tags keeps its
\* keys and the locals of SetMessageTags, RenameTag and DeleteTag their types.
THEOREM TypeCorrect == Spec => []TypeOK
<1>1. IInv => TypeOK
  BY DEF IInv
<1> QED
  BY <1>1, TagsInductive, PTL

\* A message shows only tags it was given by SetMessageTags or a rename, for
\* any number of messages, names and overlapping requests.
THEOREM TagsWereGiven == Spec => []ShownTagsWereGiven
<1>1. IInv => ShownTagsWereGiven
  BY DEF IInv
<1> QED
  BY <1>1, TagsInductive, PTL
============================================================================
