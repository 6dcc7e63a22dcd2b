-------------------------- MODULE TagsExact_proofs --------------------------
(***************************************************************************)
(* An operation of Tags that nobody disturbs does exactly what it says,    *)
(* for any messages, names and goroutines, and from whatever rows and tags *)
(* earlier races and failures have left.  A step of one goroutine ends the *)
(* quiet of all others, so each statement is shown to leave its own        *)
(* goroutine as far as Exact says, and the last one at the promise.        *)
(***************************************************************************)
EXTENDS Tags_proofs

\* Which statements an operation is made of.
Shape(w) ==
    /\ w.stmt = "idle" => w.op = "none"
    /\ w.stmt \in {"read", "insertTag", "selectTag", "countRows", "insertRow", "deleteRows"} =>
          w.op = "set"
    /\ w.stmt \in {"findUnused", "pruneTag"} => w.op \in {"set", "prune"}
    /\ w.stmt \in {"findFrom", "findTo", "update"} => w.op = "rename"
    /\ w.stmt \in {"findTag", "dropRows", "dropTag"} => w.op = "drop"
    /\ w.op = "set" => w.msg \in Messages

\* The names SetMessageTags still has to add, the one in hand included.
Todo(w) ==
    IF w.stmt \in {"insertTag", "selectTag", "countRows", "insertRow"}
    THEN w.add \union {w.name} ELSE w.add

\* How far an operation that nobody has disturbed has come.
Exact(w) ==
    /\ w.op = "set" /\ w.stmt # "read" => (Shown(w.msg) \union Todo(w)) \ w.drop = w.want
    /\ w.op = "set" /\ w.stmt \in {"deleteRows", "findUnused", "pruneTag"} => w.add = {}
    /\ w.op = "set" /\ w.stmt \in {"findUnused", "pruneTag"} => w.drop = {}
    /\ w.stmt \in {"countRows", "insertRow", "dropRows", "dropTag"} =>
          \E t \in tags : t.id = w.id /\ t.name = w.name
    /\ w.stmt = "pruneTag" => w.victims = Unused
    /\ w.stmt \in {"findTo", "update"} => \E t \in tags : t.id = w.id
    /\ w.stmt = "dropTag" => \A r \in message_tags : r[2] # w.id

ExactInv == \A p \in Workers : Shape(work[p]) /\ (work[p].alone => Exact(work[p]))

\* What an operation with the locals w promises for its end.
Promised(w) ==
    /\ w.op = "set" => \A m \in Messages : m = w.msg => Shown(m) = w.want
    /\ w.op = "rename" => \E t \in tags : t.id = w.id /\ t.name = w.to
    /\ w.op = "drop" =>
          /\ \A t \in tags : t.name # w.name
          /\ \A r \in message_tags : r[2] # w.id
    /\ w.op = "prune" => Unused = {}

\* What a step of p leaves it with, when its locals were w.
Outcome(p, w, v) ==
    /\ Proceed(p, v)
    /\ Shape(v)
    /\ v.alone => Exact(v)'
    /\ (w.stmt # "idle" /\ v.stmt = "idle" /\ result' = "ok" /\ faults' = faults /\ w.alone) => Promised(w)'

Progress(p) == \E w, v \in Locals : w = work[p] /\ Outcome(p, w, v)
----------------------------------------------------------------------------
(* What a change of the tables does to the names shown.                    *)

LEMMA NothingChanges ==
    ASSUME UNCHANGED <<tags, message_tags>>
    PROVE  /\ \A m : Shown(m)' = Shown(m)
           /\ Unused' = Unused
BY DEF Shown, Unused

\* A new tag has no rows yet.
LEMMA NewTagIsUnused ==
    ASSUME IInv, NEW n, AddTag(n), message_tags' = message_tags, NEW m \in Messages
    PROVE  Shown(m)' = Shown(m)
<1>1. CASE UNCHANGED tags
  BY <1>1, NothingChanges
<1>2. CASE tags' = tags \union {[id |-> lastId + 1, name |-> n]}
  <2>1. lastId \in Nat
    BY BoundAssumption DEF IInv, TypeOK
  <2>2. <<m, lastId + 1>> \notin message_tags
    <3>1. SUFFICES ASSUME <<m, lastId + 1>> \in message_tags PROVE FALSE
      OBVIOUS
    <3>2. <<m, lastId + 1>>[2] <= lastId
      BY <3>1 DEF IInv, IdsGiven
    <3>3. lastId + 1 <= lastId
      BY <3>2
    <3> QED
      BY <2>1, <3>3
  <2>3. \A t \in tags' : <<m, t.id>> \in message_tags => t \in tags
    BY <1>2, <2>2
  <2>4. tags \subseteq tags'
    BY <1>2
  <2> QED
    BY <2>3, <2>4 DEF Shown
<1> QED
  BY <1>1, <1>2 DEF AddTag, NextId

\* A row of tag t shows the name of t.
LEMMA NewRowShows ==
    ASSUME TypeOK, NEW m \in Messages, NEW t \in tags, tags' = tags,
           message_tags' = message_tags \union {<<m, t.id>>}
    PROVE  Shown(m)' = Shown(m) \union {t.name}
<1>1. ASSUME NEW u \in tags, <<m, u.id>> \in message_tags' PROVE <<m, u.id>> \in message_tags \/ u = t
  <2>1. <<m, u.id>> \in message_tags \/ u.id = t.id
    BY <1>1
  <2> QED
    BY <2>1 DEF TypeOK
<1>2. \A u \in tags : <<m, u.id>> \in message_tags => <<m, u.id>> \in message_tags'
  OBVIOUS
<1>3. <<m, t.id>> \in message_tags'
  OBVIOUS
<1> QED
  BY <1>1, <1>2, <1>3 DEF Shown

\* Without the rows of the names D a message shows what it showed, less D.
LEMMA FewerRowsShow ==
    ASSUME TypeOK, NEW m \in Messages, NEW D, tags' = tags,
           message_tags' = message_tags \ {<<m, t.id>> : t \in {u \in tags : u.name \in D}}
    PROVE  Shown(m)' = Shown(m) \ D
<1>1. ASSUME NEW u \in tags
      PROVE  <<m, u.id>> \in message_tags' <=> <<m, u.id>> \in message_tags /\ u.name \notin D
  <2>1. <<m, u.id>> \in {<<m, t.id>> : t \in {x \in tags : x.name \in D}} <=> u.name \in D
    BY DEF TypeOK
  <2> QED
    BY <2>1
<1>2. Shown(m)' = {t.name : t \in {u \in tags : <<m, u.id>> \in message_tags'}}
  BY DEF Shown
<1> QED
  BY <1>1, <1>2 DEF Shown

\* A tag without rows is no longer unused when it is gone, and nothing else changes.
LEMMA UnusedTagGoes ==
    ASSUME TypeOK, NEW i \in Unused, tags' = {t \in tags : t.id # i}, message_tags' = message_tags
    PROVE  /\ Unused' = Unused \ {i}
           /\ \A m \in Messages : Shown(m)' = Shown(m)
<1>1. \A m \in Messages : <<m, i>> \notin message_tags
  BY DEF Unused
<1>2. Unused' = Unused \ {i}
  BY DEF Unused
<1>3. ASSUME NEW m \in Messages PROVE Shown(m)' = Shown(m)
  BY <1>1 DEF Shown
<1> QED
  BY <1>2, <1>3
----------------------------------------------------------------------------
(* Control                                                                 *)

LEMMA IdleOutcome ==
    ASSUME TypeOK, NEW p \in Workers, NEW w, NEW r, Return(p, r),
           r = "ok" /\ faults' = faults /\ w.alone => Promised(w)'
    PROVE  Idle \in Locals /\ Outcome(p, w, Idle)
<1>1. Idle \in Locals
  BY IdleLocals
<1>2. Shape(Idle) /\ ~Idle.alone
  BY DEF Shape, Idle
<1> QED
  BY <1>1, <1>2 DEF Outcome, Return

\* The loops of SetMessageTags go on when what is to be added and taken off makes up
\* the difference.
LEMMA ContinueExact ==
    ASSUME TypeOK, NEW p \in Workers, NEW w \in Locals, NEW c \in Locals, Continue(p, c),
           w.op = "set", c.op = "set", c.msg = w.msg, c.want = w.want, w.msg \in Messages,
           c.add \subseteq Names,
           faults' = faults /\ w.alone => c.alone,
           c.alone => (Shown(c.msg)' \union c.add) \ c.drop = c.want
    PROVE  \E v \in Locals : Outcome(p, w, v)
<1>1. ASSUME NEW n \in c.add,
             Go(p, [c EXCEPT !.stmt = "insertTag", !.add = @ \ {n}, !.name = n, !.id = 0])
      PROVE  \E v \in Locals : Outcome(p, w, v)
  <2> DEFINE v == [c EXCEPT !.stmt = "insertTag", !.add = @ \ {n}, !.name = n, !.id = 0]
  <2>1. v \in Locals
    BY DEF Locals, Statements
  <2>2. /\ v.stmt = "insertTag" /\ v.add = c.add \ {n} /\ v.name = n /\ v.op = "set"
        /\ v.msg = c.msg /\ v.want = c.want /\ v.drop = c.drop /\ v.alone = c.alone
    BY DEF Locals
  <2>3. Proceed(p, v)
    BY <1>1 DEF Go
  <2> HIDE DEF v
  <2>4. Shape(v)
    BY <2>2 DEF Shape
  <2>5. Todo(v) = c.add
    BY <2>2 DEF Todo
  <2>6. v.alone => Exact(v)'
    BY <2>2, <2>5 DEF Exact, Todo
  <2>7. Outcome(p, w, v)
    BY <2>2, <2>3, <2>4, <2>6 DEF Outcome
  <2> QED
    BY <2>1, <2>7
<1>2. ASSUME c.add = {}, Go(p, [c EXCEPT !.stmt = "deleteRows", !.name = None, !.id = 0])
      PROVE  \E v \in Locals : Outcome(p, w, v)
  <2> DEFINE v == [c EXCEPT !.stmt = "deleteRows", !.name = None, !.id = 0]
  <2>1. v \in Locals
    BY DEF Locals, Statements
  <2>2. /\ v.stmt = "deleteRows" /\ v.add = {} /\ v.op = "set"
        /\ v.msg = c.msg /\ v.want = c.want /\ v.drop = c.drop /\ v.alone = c.alone
    BY <1>2 DEF Locals
  <2>3. Proceed(p, v)
    BY <1>2 DEF Go
  <2> HIDE DEF v
  <2>4. Shape(v)
    BY <2>2 DEF Shape
  <2>6. v.alone => Exact(v)'
    BY <1>2, <2>2 DEF Exact, Todo
  <2>7. Outcome(p, w, v)
    BY <2>2, <2>3, <2>4, <2>6 DEF Outcome
  <2> QED
    BY <2>1, <2>7
<1>3. ASSUME c.add = {}, c.drop = {}, Return(p, "ok")
      PROVE  \E v \in Locals : Outcome(p, w, v)
  <2>1. faults' = faults /\ w.alone => Shown(w.msg)' = w.want
    BY <1>3
  <2>2. faults' = faults /\ w.alone => Promised(w)'
    BY <2>1 DEF Promised
  <2> QED
    BY <1>3, <2>2, IdleOutcome
<1> QED
  BY <1>1, <1>2, <1>3 DEF Continue

\* A statement that leads to the locals v of the same operation.
LEMMA GoOutcome ==
    ASSUME NEW p \in Workers, NEW w, NEW v \in Locals, Go(p, v), Shape(v),
           v.stmt # "idle", v.alone => Exact(v)'
    PROVE  \E u \in Locals : Outcome(p, w, u)
<1>1. Outcome(p, w, v)
  BY DEF Outcome, Go
<1> QED
  BY <1>1
----------------------------------------------------------------------------
(* The statements                                                          *)

\* The locals of p are of the right shape, and exact when nobody has disturbed p.
LEMMA MineExact ==
    ASSUME IInv, ExactInv, NEW p \in Workers
    PROVE  \E w \in Locals : w = work[p] /\ Given(w) /\ Shape(w) /\ (w.alone => Exact(w))
BY DEF IInv, TypeOK, ExactInv

LEMMA ReadExact ==
    ASSUME IInv, ExactInv, NEW p \in Workers, ReadTags(p)
    PROVE  Progress(p)
<1>1. PICK w \in Locals : w = work[p] /\ Given(w) /\ Shape(w) /\ (w.alone => Exact(w))
  BY MineExact
<1>2. w.stmt = "read" /\ w.op = "set" /\ w.msg \in Messages
  BY <1>1 DEF ReadTags, At, Shape
<1>3. Shown(w.msg) \subseteq Names
  BY DEF Shown, IInv, TypeOK, Tag
<1>4. PICK S \in SUBSET Names : S = Shown(w.msg)
  BY <1>3
<1> DEFINE c == [w EXCEPT !.add = w.want \ S, !.drop = S \ w.want]
<1>5. UNCHANGED <<tags, message_tags>> /\ Continue(p, c) /\ Shown(w.msg)' = S
  BY <1>1, <1>4, NothingChanges DEF ReadTags, tables
<1>6. c \in Locals
  BY DEF Locals
<1>7. /\ c.op = "set" /\ c.msg = w.msg /\ c.want = w.want /\ c.alone = w.alone
      /\ c.add = w.want \ S /\ c.drop = S \ w.want /\ w.want \subseteq Names
  BY <1>2 DEF Locals
<1> HIDE DEF c
<1>8. (S \union c.add) \ c.drop = c.want
  BY <1>7
<1>9. (Shown(c.msg)' \union c.add) \ c.drop = c.want
  BY <1>5, <1>7, <1>8
<1>10. \E v \in Locals : Outcome(p, w, v)
  BY <1>2, <1>5, <1>6, <1>7, <1>9, ContinueExact DEF IInv
<1> QED
  BY <1>1, <1>10 DEF Progress

LEMMA InsertTagExact ==
    ASSUME IInv, ExactInv, NEW p \in Workers, InsertTag(p)
    PROVE  Progress(p)
<1>1. PICK w \in Locals : w = work[p] /\ Given(w) /\ Shape(w) /\ (w.alone => Exact(w))
  BY MineExact
<1>2. w.stmt = "insertTag" /\ w.op = "set" /\ w.msg \in Messages /\ message_tags' = message_tags
  BY <1>1 DEF InsertTag, At, Shape
<1>3. CASE AddTag(w.name) /\ Go(p, [w EXCEPT !.stmt = "selectTag"])
  <2> DEFINE v == [w EXCEPT !.stmt = "selectTag"]
  <2>1. v \in Locals
    BY DEF Locals, Statements
  <2>2. /\ v.stmt = "selectTag" /\ v.add = w.add /\ v.name = w.name /\ v.op = w.op
        /\ v.msg = w.msg /\ v.want = w.want /\ v.drop = w.drop /\ v.alone = w.alone
    BY DEF Locals
  <2>3. Go(p, v)
    BY <1>3
  <2> HIDE DEF v
  <2>4. Shown(w.msg)' = Shown(w.msg)
    BY <1>2, <1>3, NewTagIsUnused
  <2>5. v.alone => Exact(v)'
    BY <1>1, <1>2, <2>2, <2>4 DEF Exact, Todo
  <2>6. Shape(v)
    BY <1>2, <2>2 DEF Shape
  <2>7. \E u \in Locals : Outcome(p, w, u)
    BY <2>1, <2>2, <2>3, <2>5, <2>6, GoOutcome
  <2> QED
    BY <1>1, <2>7 DEF Progress
<1>4. CASE Return(p, "error")
  <2>1. Idle \in Locals /\ Outcome(p, w, Idle)
    BY <1>4, IdleOutcome DEF IInv
  <2> QED
    BY <1>1, <2>1 DEF Progress
<1> QED
  BY <1>1, <1>3, <1>4 DEF InsertTag

\* The three queries for the ID of a name.
LEMMA FindExact ==
    ASSUME IInv, ExactInv, NEW p \in Workers, SelectTag(p) \/ FindFrom(p) \/ FindTag(p)
    PROVE  Progress(p)
<1>1. PICK w \in Locals : w = work[p] /\ Given(w) /\ Shape(w) /\ (w.alone => Exact(w))
  BY MineExact
<1>2. PICK next \in {"countRows", "findTo", "dropRows"} :
         /\ \/ w.stmt = "selectTag" /\ next = "countRows"
            \/ w.stmt = "findFrom" /\ next = "findTo"
            \/ w.stmt = "findTag" /\ next = "dropRows"
         /\ \/ \E t \in tags :
                  t.name = w.name /\ Go(p, [w EXCEPT !.id = t.id, !.stmt = next])
            \/ Return(p, "error")
         /\ UNCHANGED <<tags, message_tags>>
  BY <1>1 DEF SelectTag, FindFrom, FindTag, Find, At, tables
<1>3. ASSUME NEW t \in tags, t.name = w.name, Go(p, [w EXCEPT !.id = t.id, !.stmt = next])
      PROVE  Progress(p)
  <2> DEFINE v == [w EXCEPT !.id = t.id, !.stmt = next]
  <2>1. v \in Locals
    BY DEF Locals, Statements, IInv, TypeOK, Tag
  <2>2. /\ v.stmt = next /\ v.id = t.id /\ v.add = w.add /\ v.name = w.name /\ v.op = w.op
        /\ v.msg = w.msg /\ v.want = w.want /\ v.drop = w.drop /\ v.alone = w.alone
    BY DEF Locals
  <2>3. Go(p, v)
    BY <1>3
  <2> HIDE DEF v
  <2>4. \A m : Shown(m)' = Shown(m)
    BY <1>2, NothingChanges
  <2>5. v.alone => Exact(v)'
    <3>1. \E u \in tags' : u.id = v.id /\ u.name = v.name
      BY <1>2, <1>3, <2>2
    <3>2. CASE next = "countRows"
      <4>1. w.stmt = "selectTag" /\ w.op = "set"
        BY <1>1, <1>2, <3>2 DEF Shape
      <4>2. Todo(v) = Todo(w)
        BY <2>2, <3>2, <4>1 DEF Todo
      <4>3. w.alone => (Shown(v.msg)' \union Todo(v)) \ v.drop = v.want
        BY <1>1, <2>2, <2>4, <4>1, <4>2 DEF Exact
      <4> QED
        BY <2>2, <3>1, <3>2, <4>3 DEF Exact, Todo
    <3>3. CASE next \in {"findTo", "dropRows"}
      <4>1. w.op \in {"rename", "drop"}
        BY <1>1, <1>2, <3>3 DEF Shape
      <4> QED
        BY <2>2, <3>1, <3>3, <4>1 DEF Exact
    <3> QED
      BY <3>2, <3>3
  <2>6. Shape(v)
    BY <1>1, <1>2, <2>2 DEF Shape
  <2>7. \E u \in Locals : Outcome(p, w, u)
    BY <1>2, <2>1, <2>2, <2>3, <2>5, <2>6, GoOutcome
  <2> QED
    BY <1>1, <2>7 DEF Progress
<1>4. CASE Return(p, "error")
  <2>1. Idle \in Locals /\ Outcome(p, w, Idle)
    BY <1>4, IdleOutcome DEF IInv
  <2> QED
    BY <1>1, <2>1 DEF Progress
<1> QED
  BY <1>2, <1>3, <1>4

LEMMA CountExact ==
    ASSUME IInv, ExactInv, NEW p \in Workers, CountRows(p)
    PROVE  Progress(p)
<1>1. PICK w \in Locals : w = work[p] /\ Given(w) /\ Shape(w) /\ (w.alone => Exact(w))
  BY MineExact
<1>2. /\ w.stmt = "countRows" /\ w.op = "set" /\ w.msg \in Messages
      /\ UNCHANGED <<tags, message_tags>>
  BY <1>1 DEF CountRows, At, Shape, tables
<1>3. Shown(w.msg)' = Shown(w.msg)
  BY <1>2, NothingChanges
<1>4. CASE <<w.msg, w.id>> \in message_tags /\ Continue(p, w)
  <2>1. w.alone => w.name \in Shown(w.msg)
    BY <1>1, <1>2, <1>4 DEF Exact, Shown
  <2>2. w.alone => (Shown(w.msg)' \union w.add) \ w.drop = w.want
    BY <1>1, <1>2, <1>3, <2>1 DEF Exact, Todo
  <2>3. w.add \subseteq Names
    BY DEF Locals
  <2>4. \E v \in Locals : Outcome(p, w, v)
    BY <1>2, <1>4, <2>2, <2>3, ContinueExact DEF IInv
  <2> QED
    BY <1>1, <2>4 DEF Progress
<1>5. CASE Go(p, [w EXCEPT !.stmt = "insertRow"])
  <2> DEFINE v == [w EXCEPT !.stmt = "insertRow"]
  <2>1. v \in Locals
    BY DEF Locals, Statements
  <2>2. /\ v.stmt = "insertRow" /\ v.id = w.id /\ v.add = w.add /\ v.name = w.name /\ v.op = w.op
        /\ v.msg = w.msg /\ v.want = w.want /\ v.drop = w.drop /\ v.alone = w.alone
    BY DEF Locals
  <2>3. Go(p, v)
    BY <1>5
  <2> HIDE DEF v
  <2>4. v.alone => Exact(v)'
    BY <1>1, <1>2, <1>3, <2>2 DEF Exact, Todo
  <2>5. Shape(v)
    BY <1>2, <2>2 DEF Shape
  <2>6. \E u \in Locals : Outcome(p, w, u)
    BY <2>1, <2>2, <2>3, <2>4, <2>5, GoOutcome
  <2> QED
    BY <1>1, <2>6 DEF Progress
<1> QED
  BY <1>1, <1>4, <1>5 DEF CountRows

LEMMA InsertRowExact ==
    ASSUME IInv, ExactInv, NEW p \in Workers, InsertRow(p)
    PROVE  Progress(p)
<1>1. PICK w \in Locals : w = work[p] /\ Given(w) /\ Shape(w) /\ (w.alone => Exact(w))
  BY MineExact
<1>2. /\ w.stmt = "insertRow" /\ w.op = "set" /\ w.msg \in Messages /\ tags' = tags
      /\ message_tags' = message_tags \union {<<w.msg, w.id>>} /\ Continue(p, w)
  BY <1>1 DEF InsertRow, At, Shape
<1>3. ASSUME w.alone PROVE Shown(w.msg)' = Shown(w.msg) \union {w.name}
  <2>1. PICK t \in tags : t.id = w.id /\ t.name = w.name
    BY <1>1, <1>2, <1>3 DEF Exact
  <2> QED
    BY <1>2, <2>1, NewRowShows DEF IInv
<1>4. w.alone => (Shown(w.msg)' \union w.add) \ w.drop = w.want
  BY <1>1, <1>2, <1>3 DEF Exact, Todo
<1>5. w.add \subseteq Names
  BY DEF Locals
<1>6. \E v \in Locals : Outcome(p, w, v)
  BY <1>2, <1>4, <1>5, ContinueExact DEF IInv
<1> QED
  BY <1>1, <1>6 DEF Progress

LEMMA DeleteRowsExact ==
    ASSUME IInv, ExactInv, NEW p \in Workers, DeleteRows(p)
    PROVE  Progress(p)
<1>1. PICK w \in Locals : w = work[p] /\ Given(w) /\ Shape(w) /\ (w.alone => Exact(w))
  BY MineExact
<1>2. /\ w.stmt = "deleteRows" /\ w.op = "set" /\ w.msg \in Messages /\ tags' = tags
      /\ message_tags' = message_tags \ {<<w.msg, t.id>> : t \in {u \in tags : u.name \in w.drop}}
  BY <1>1 DEF DeleteRows, At, Shape
<1>3. Shown(w.msg)' = Shown(w.msg) \ w.drop
  BY <1>2, FewerRowsShow DEF IInv
<1> DEFINE v == [w EXCEPT !.stmt = "findUnused", !.drop = {}]
<1>4. v \in Locals
  BY DEF Locals, Statements
<1>5. /\ v.stmt = "findUnused" /\ v.add = w.add /\ v.op = w.op
      /\ v.msg = w.msg /\ v.want = w.want /\ v.drop = {} /\ v.alone = w.alone
  BY DEF Locals
<1>6. Go(p, v)
  BY <1>1 DEF DeleteRows
<1> HIDE DEF v
<1>7. v.alone => Exact(v)'
  BY <1>1, <1>2, <1>3, <1>5 DEF Exact, Todo
<1>8. Shape(v)
  BY <1>2, <1>5 DEF Shape
<1>9. \E u \in Locals : Outcome(p, w, u)
  BY <1>4, <1>5, <1>6, <1>7, <1>8, GoOutcome
<1> QED
  BY <1>1, <1>9 DEF Progress

LEMMA FindUnusedExact ==
    ASSUME IInv, ExactInv, NEW p \in Workers, FindUnused(p)
    PROVE  Progress(p)
<1>1. PICK w \in Locals : w = work[p] /\ Given(w) /\ Shape(w) /\ (w.alone => Exact(w))
  BY MineExact
<1>2. w.stmt = "findUnused" /\ w.op \in {"set", "prune"} /\ UNCHANGED <<tags, message_tags>>
  BY <1>1 DEF FindUnused, At, Shape, tables
<1>3. (\A m : Shown(m)' = Shown(m)) /\ Unused' = Unused
  BY <1>2, NothingChanges
<1>4. w.alone /\ w.op = "set" => Shown(w.msg) = w.want
  BY <1>1, <1>2 DEF Exact, Todo
<1>5. CASE Unused = {} /\ Return(p, "ok")
  <2>1. w.alone => Promised(w)'
    BY <1>2, <1>3, <1>4, <1>5 DEF Promised
  <2> QED
    BY <1>1, <1>5, <2>1, IdleOutcome DEF Progress, IInv
<1>6. CASE Go(p, [w EXCEPT !.stmt = "pruneTag", !.victims = Unused])
  <2>u. Unused \in SUBSET TagIds
    BY DEF Unused, IInv, TypeOK, Tag
  <2>U. PICK U \in SUBSET TagIds : U = Unused
    BY <2>u
  <2> DEFINE v == [w EXCEPT !.stmt = "pruneTag", !.victims = U]
  <2>1. v \in Locals
    BY DEF Locals, Statements
  <2>2. /\ v.stmt = "pruneTag" /\ v.victims = U /\ v.add = w.add /\ v.op = w.op
        /\ v.msg = w.msg /\ v.want = w.want /\ v.drop = w.drop /\ v.alone = w.alone
    BY DEF Locals
  <2>3. Go(p, v)
    BY <1>6, <2>U
  <2> HIDE DEF v
  <2>4. v.alone => Exact(v)'
    BY <1>1, <1>2, <1>3, <2>U, <2>2 DEF Exact, Todo
  <2>5. Shape(v)
    BY <1>1, <1>2, <2>2 DEF Shape
  <2>6. \E u \in Locals : Outcome(p, w, u)
    BY <2>1, <2>2, <2>3, <2>4, <2>5, GoOutcome
  <2> QED
    BY <1>1, <2>6 DEF Progress
<1> QED
  BY <1>1, <1>5, <1>6 DEF FindUnused

LEMMA PruneTagExact ==
    ASSUME IInv, ExactInv, NEW p \in Workers, PruneTag(p)
    PROVE  Progress(p)
<1>1. PICK w \in Locals : w = work[p] /\ Given(w) /\ Shape(w) /\ (w.alone => Exact(w))
  BY MineExact
<1>2. PICK i \in w.victims :
         /\ tags' = {t \in tags : t.id # i}
         /\ \/ w.victims = {i} /\ Return(p, "ok")
            \/ Go(p, [w EXCEPT !.victims = @ \ {i}])
  BY <1>1 DEF PruneTag
<1>3. w.stmt = "pruneTag" /\ w.op \in {"set", "prune"} /\ message_tags' = message_tags
  BY <1>1 DEF PruneTag, At, Shape
<1>4. ASSUME w.alone
      PROVE  /\ w.victims = Unused /\ Unused' = w.victims \ {i}
             /\ w.op = "set" => /\ Shown(w.msg)' = w.want /\ w.msg \in Messages
                                /\ w.add = {} /\ w.drop = {}
  <2>1. w.victims = Unused
    BY <1>1, <1>3, <1>4 DEF Exact
  <2>2. Unused' = Unused \ {i} /\ \A m \in Messages : Shown(m)' = Shown(m)
    BY <1>2, <1>3, <2>1, UnusedTagGoes DEF IInv
  <2>3. w.op = "set" => Shown(w.msg) = w.want /\ w.add = {} /\ w.drop = {}
    BY <1>1, <1>3, <1>4 DEF Exact, Todo
  <2>4. w.op = "set" => w.msg \in Messages
    BY <1>1 DEF Shape
  <2> QED
    BY <2>1, <2>2, <2>3, <2>4
<1>5. CASE w.victims = {i} /\ Return(p, "ok")
  <2>1. w.alone => Promised(w)'
    BY <1>3, <1>4, <1>5 DEF Promised
  <2> QED
    BY <1>1, <1>5, <2>1, IdleOutcome DEF Progress, IInv
<1>6. CASE Go(p, [w EXCEPT !.victims = @ \ {i}])
  <2> DEFINE v == [w EXCEPT !.victims = @ \ {i}]
  <2>1. v \in Locals
    BY DEF Locals
  <2>2. /\ v.stmt = "pruneTag" /\ v.victims = w.victims \ {i} /\ v.add = w.add /\ v.op = w.op
        /\ v.msg = w.msg /\ v.want = w.want /\ v.drop = w.drop /\ v.alone = w.alone
    BY <1>3 DEF Locals
  <2>3. Go(p, v)
    BY <1>6
  <2> HIDE DEF v
  <2>4. v.alone => Exact(v)'
    BY <1>3, <1>4, <2>2 DEF Exact, Todo
  <2>5. Shape(v)
    BY <1>1, <1>3, <2>2 DEF Shape
  <2>6. \E u \in Locals : Outcome(p, w, u)
    BY <2>1, <2>2, <2>3, <2>4, <2>5, GoOutcome
  <2> QED
    BY <1>1, <2>6 DEF Progress
<1> QED
  BY <1>2, <1>5, <1>6

LEMMA FindToExact ==
    ASSUME IInv, ExactInv, NEW p \in Workers, FindTo(p)
    PROVE  Progress(p)
<1>1. PICK w \in Locals : w = work[p] /\ Given(w) /\ Shape(w) /\ (w.alone => Exact(w))
  BY MineExact
<1>2. w.stmt = "findTo" /\ w.op = "rename" /\ UNCHANGED <<tags, message_tags>>
  BY <1>1 DEF FindTo, At, Shape, tables
<1>3. CASE Return(p, "error")
  <2>1. Idle \in Locals /\ Outcome(p, w, Idle)
    BY <1>3, IdleOutcome DEF IInv
  <2> QED
    BY <1>1, <2>1 DEF Progress
<1>4. CASE Go(p, [w EXCEPT !.stmt = "update"])
  <2> DEFINE v == [w EXCEPT !.stmt = "update"]
  <2>1. v \in Locals
    BY DEF Locals, Statements
  <2>2. v.stmt = "update" /\ v.op = "rename" /\ v.id = w.id /\ v.alone = w.alone
    BY <1>2 DEF Locals
  <2>3. Go(p, v)
    BY <1>4
  <2> HIDE DEF v
  <2>4. v.alone => Exact(v)'
    BY <1>1, <1>2, <2>2 DEF Exact
  <2>5. Shape(v)
    BY <2>2 DEF Shape
  <2>6. \E u \in Locals : Outcome(p, w, u)
    BY <2>1, <2>2, <2>3, <2>4, <2>5, GoOutcome
  <2> QED
    BY <1>1, <2>6 DEF Progress
<1> QED
  BY <1>1, <1>3, <1>4 DEF FindTo

LEMMA UpdateExact ==
    ASSUME IInv, ExactInv, NEW p \in Workers, Update(p)
    PROVE  Progress(p)
<1>1. PICK w \in Locals : w = work[p] /\ Given(w) /\ Shape(w) /\ (w.alone => Exact(w))
  BY MineExact
<1>2. w.stmt = "update" /\ w.op = "rename"
  BY <1>1 DEF Update, At, Shape
<1>3. CASE Return(p, "error")
  <2>1. Idle \in Locals /\ Outcome(p, w, Idle)
    BY <1>3, IdleOutcome DEF IInv
  <2> QED
    BY <1>1, <2>1 DEF Progress
<1>4. CASE /\ tags' = {IF t.id = w.id THEN [t EXCEPT !.name = w.to] ELSE t : t \in tags}
           /\ Return(p, "ok")
  <2>1. ASSUME w.alone PROVE Promised(w)'
    <3>1. PICK t \in tags : t.id = w.id
      BY <1>1, <1>2, <2>1 DEF Exact
    <3>2. [t EXCEPT !.name = w.to] \in tags'
      BY <1>4, <3>1
    <3>3. [t EXCEPT !.name = w.to].id = w.id /\ [t EXCEPT !.name = w.to].name = w.to
      BY <3>1 DEF IInv, TypeOK, Tag
    <3> QED
      BY <1>2, <3>2, <3>3 DEF Promised
  <2> QED
    BY <1>1, <1>4, <2>1, IdleOutcome DEF Progress, IInv
<1> QED
  BY <1>1, <1>3, <1>4 DEF Update

LEMMA DropRowsExact ==
    ASSUME IInv, ExactInv, NEW p \in Workers, DropRows(p)
    PROVE  Progress(p)
<1>1. PICK w \in Locals : w = work[p] /\ Given(w) /\ Shape(w) /\ (w.alone => Exact(w))
  BY MineExact
<1>2. /\ w.stmt = "dropRows" /\ w.op = "drop" /\ tags' = tags
      /\ message_tags' = {r \in message_tags : r[2] # w.id}
  BY <1>1 DEF DropRows, At, Shape
<1> DEFINE v == [w EXCEPT !.stmt = "dropTag"]
<1>3. v \in Locals
  BY DEF Locals, Statements
<1>4. v.stmt = "dropTag" /\ v.op = "drop" /\ v.id = w.id /\ v.name = w.name /\ v.alone = w.alone
  BY <1>2 DEF Locals
<1>5. Go(p, v)
  BY <1>1 DEF DropRows
<1> HIDE DEF v
<1>6. v.alone => Exact(v)'
  BY <1>1, <1>2, <1>4 DEF Exact
<1>7. Shape(v)
  BY <1>4 DEF Shape
<1>8. \E u \in Locals : Outcome(p, w, u)
  BY <1>3, <1>4, <1>5, <1>6, <1>7, GoOutcome
<1> QED
  BY <1>1, <1>8 DEF Progress

LEMMA DropTagExact ==
    ASSUME IInv, ExactInv, NEW p \in Workers, DropTag(p)
    PROVE  Progress(p)
<1>1. PICK w \in Locals : w = work[p] /\ Given(w) /\ Shape(w) /\ (w.alone => Exact(w))
  BY MineExact
<1>2. /\ w.stmt = "dropTag" /\ w.op = "drop" /\ message_tags' = message_tags
      /\ tags' = {t \in tags : t.id # w.id} /\ Return(p, "ok")
  BY <1>1 DEF DropTag, At, Shape
<1>3. ASSUME w.alone PROVE Promised(w)'
  <2>1. PICK t \in tags : t.id = w.id /\ t.name = w.name
    BY <1>1, <1>2, <1>3 DEF Exact
  <2>2. \A u \in tags' : u.name # w.name
    BY <1>2, <2>1 DEF IInv, TypeOK
  <2>3. \A r \in message_tags' : r[2] # w.id
    BY <1>1, <1>2, <1>3 DEF Exact
  <2> QED
    BY <1>2, <2>2, <2>3 DEF Promised
<1> QED
  BY <1>1, <1>2, <1>3, IdleOutcome DEF Progress, IInv

\* A failure ends the quiet, if not the operation.
LEMMA FailExact ==
    ASSUME IInv, ExactInv, NEW p \in Workers, Fail(p)
    PROVE  Progress(p)
<1>1. PICK w \in Locals : w = work[p] /\ Given(w) /\ Shape(w) /\ (w.alone => Exact(w))
  BY MineExact
<1>2. faults' # faults
  BY BoundAssumption DEF Fail, IInv, TypeOK
<1>3. CASE Return(p, "error")
  <2>1. Idle \in Locals /\ Outcome(p, w, Idle)
    BY <1>3, IdleOutcome DEF IInv
  <2> QED
    BY <1>1, <2>1 DEF Progress
<1>4. CASE w.stmt = "read" /\ Continue(p, [w EXCEPT !.add = w.want, !.alone = FALSE])
  <2> DEFINE c == [w EXCEPT !.add = w.want, !.alone = FALSE]
  <2>1. c \in Locals
    BY DEF Locals
  <2>2. /\ c.op = w.op /\ c.msg = w.msg /\ c.want = w.want /\ c.add = w.want /\ ~c.alone
        /\ w.want \subseteq Names
    BY DEF Locals
  <2>3. Continue(p, c) /\ w.op = "set" /\ w.msg \in Messages
    BY <1>1, <1>4 DEF Shape
  <2> HIDE DEF c
  <2>4. \E v \in Locals : Outcome(p, w, v)
    BY <1>2, <2>1, <2>2, <2>3, ContinueExact DEF IInv
  <2> QED
    BY <1>1, <2>4 DEF Progress
<1>5. CASE w.stmt = "findTo" /\ Go(p, [w EXCEPT !.stmt = "update", !.alone = FALSE])
  <2> DEFINE v == [w EXCEPT !.stmt = "update", !.alone = FALSE]
  <2>1. v \in Locals
    BY DEF Locals, Statements
  <2>2. v.stmt = "update" /\ v.op = w.op /\ ~v.alone
    BY DEF Locals
  <2>3. Go(p, v) /\ w.op = "rename"
    BY <1>1, <1>5 DEF Shape
  <2> HIDE DEF v
  <2>4. Shape(v)
    BY <2>2, <2>3 DEF Shape
  <2>5. \E u \in Locals : Outcome(p, w, u)
    BY <2>1, <2>2, <2>3, <2>4, GoOutcome
  <2> QED
    BY <1>1, <2>5 DEF Progress
<1> QED
  BY <1>1, <1>3, <1>4, <1>5 DEF Fail, At
----------------------------------------------------------------------------
(* The requests                                                            *)

\* A request begins with nothing done.
LEMMA StartOutcome ==
    ASSUME IInv, NEW p \in Workers, NEW w \in Locals, Start(p, w), Shape(w), Shape([w EXCEPT !.alone = TRUE]),
           w.stmt \in {"read", "findFrom", "findTag", "findUnused"},
           w.stmt = "findUnused" => w.op = "prune"
    PROVE  Progress(p)
<1> DEFINE v == [w EXCEPT !.alone = \A q \in Workers : At(q, "idle")]
<1>1. PICK b \in BOOLEAN : b = \A q \in Workers : At(q, "idle")
  OBVIOUS
<1> DEFINE u == [w EXCEPT !.alone = b]
<1>2. u \in Locals
  BY DEF Locals
<1>3. u.stmt = w.stmt /\ u.op = w.op /\ u.msg = w.msg
  BY DEF Locals
<1>4. Go(p, u)
  BY <1>1 DEF Start
<1> HIDE DEF u
<1>5. Shape(u) /\ Exact(u)'
  BY <1>3 DEF Shape, Exact
<1>6. PICK l \in Locals : l = work[p]
  BY DEF IInv, TypeOK
<1>7. \E x \in Locals : Outcome(p, l, x)
  BY <1>2, <1>3, <1>4, <1>5, GoOutcome
<1> QED
  BY <1>6, <1>7 DEF Progress

LEMMA RequestExact ==
    ASSUME IInv, NEW p \in Workers, Request(p)
    PROVE  Progress(p)
<1>1. ASSUME NEW m \in Messages, NEW S \in SUBSET Names, Start(p, SetLocals(m, S))
      PROVE  Progress(p)
  <2> DEFINE w == SetLocals(m, S)
  <2>1. w \in Locals /\ w.op = "set" /\ w.stmt = "read" /\ w.msg = m
    BY DEF SetLocals, Idle, Locals, Operations, Statements
  <2> HIDE DEF w
  <2>2. Shape(w) /\ Shape([w EXCEPT !.alone = TRUE])
    BY <2>1 DEF Shape, Locals
  <2> QED
    BY <1>1, <2>1, <2>2, StartOutcome DEF w
<1>2. ASSUME NEW from \in Names, NEW to \in Names,
             Start(p, [Idle EXCEPT !.op = "rename", !.stmt = "findFrom", !.name = from, !.to = to])
      PROVE  Progress(p)
  <2> DEFINE w == [Idle EXCEPT !.op = "rename", !.stmt = "findFrom", !.name = from, !.to = to]
  <2>1. w \in Locals /\ w.op = "rename" /\ w.stmt = "findFrom"
    BY DEF Idle, Locals, Operations, Statements
  <2>2. Start(p, w)
    BY <1>2
  <2> HIDE DEF w
  <2>3. Shape(w) /\ Shape([w EXCEPT !.alone = TRUE])
    BY <2>1 DEF Shape, Locals
  <2> QED
    BY <2>1, <2>2, <2>3, StartOutcome
<1>3. ASSUME NEW n \in Names, Start(p, [Idle EXCEPT !.op = "drop", !.stmt = "findTag", !.name = n])
      PROVE  Progress(p)
  <2> DEFINE w == [Idle EXCEPT !.op = "drop", !.stmt = "findTag", !.name = n]
  <2>1. w \in Locals /\ w.op = "drop" /\ w.stmt = "findTag"
    BY DEF Idle, Locals, Operations, Statements
  <2>2. Start(p, w)
    BY <1>3
  <2> HIDE DEF w
  <2>3. Shape(w) /\ Shape([w EXCEPT !.alone = TRUE])
    BY <2>1 DEF Shape, Locals
  <2> QED
    BY <2>1, <2>2, <2>3, StartOutcome
<1>4. ASSUME Start(p, [Idle EXCEPT !.op = "prune", !.stmt = "findUnused"])
      PROVE  Progress(p)
  <2> DEFINE w == [Idle EXCEPT !.op = "prune", !.stmt = "findUnused"]
  <2>1. w \in Locals /\ w.op = "prune" /\ w.stmt = "findUnused"
    BY DEF Idle, Locals, Operations, Statements
  <2>2. Start(p, w)
    BY <1>4
  <2> HIDE DEF w
  <2>3. Shape(w) /\ Shape([w EXCEPT !.alone = TRUE])
    BY <2>1 DEF Shape, Locals
  <2> QED
    BY <2>1, <2>2, <2>3, StartOutcome
<1>5. ASSUME DeleteAll(p) PROVE Progress(p)
  <2>1. PICK w \in Locals : w = work[p]
    BY DEF IInv, TypeOK
  <2>2. w.stmt = "idle" /\ Proceed(p, Idle)
    BY <1>5, <2>1 DEF DeleteAll, At, Return
  <2>3. Idle \in Locals /\ Shape(Idle) /\ ~Idle.alone
    BY DEF Idle, Locals, Operations, Statements, Shape
  <2> QED
    BY <2>1, <2>2, <2>3 DEF Progress, Outcome
<1> QED
  BY <1>1, <1>2, <1>3, <1>4, <1>5
     DEF Request, StartSet, StartStore, StartRename, StartDrop, StartDelete
----------------------------------------------------------------------------
(* The theorem                                                             *)

\* Every step is the progress of one goroutine.
LEMMA EveryStep ==
    ASSUME IInv, ExactInv, Next
    PROVE  \E p \in Workers : Progress(p) /\ (Request(p) => At(p, "idle"))
<1>1. ASSUME NEW p \in Workers, Statement(p) PROVE Progress(p)
  BY <1>1, ReadExact, InsertTagExact, FindExact, CountExact, InsertRowExact, DeleteRowsExact,
     FindUnusedExact, PruneTagExact, FindToExact, UpdateExact, DropRowsExact, DropTagExact
     DEF Statement
<1>2. \A p \in Workers : Request(p) => At(p, "idle")
  BY DEF Request, StartSet, StartStore, StartRename, StartDrop, StartDelete, DeleteAll, Start
<1> QED
  BY <1>1, <1>2, RequestExact, FailExact DEF Next

LEMMA ProgressKeeps ==
    ASSUME IInv, ExactInv, NEW p \in Workers, Progress(p) PROVE ExactInv'
<1>1. PICK w, v \in Locals : w = work[p] /\ Outcome(p, w, v)
  BY DEF Progress
<1>2. work'[p] = v /\ \A q \in Workers : q # p => work'[q] = [work[q] EXCEPT !.alone = FALSE]
  BY <1>1, ProceedLocals DEF Outcome, IInv
<1>3. Shape(work'[p]) /\ (work'[p].alone => Exact(work[p])')
  BY <1>1, <1>2 DEF Outcome, Exact, Todo
<1>4. ASSUME NEW q \in Workers, q # p PROVE Shape(work'[q]) /\ ~work'[q].alone
  <2>1. work[q] \in Locals /\ Shape(work[q])
    BY DEF IInv, TypeOK, ExactInv
  <2>2. /\ work'[q].op = work[q].op /\ work'[q].stmt = work[q].stmt /\ work'[q].msg = work[q].msg
        /\ ~work'[q].alone
    BY <1>2, <1>4, <2>1 DEF Locals
  <2> QED
    BY <2>1, <2>2 DEF Shape
<1>5. \A q \in Workers : Shape(work[q])'
  BY <1>3, <1>4 DEF Shape
<1> QED
  BY <1>3, <1>4, <1>5 DEF ExactInv

LEMMA StepExact ==
    ASSUME IInv, ExactInv, [Next]_vars PROVE ExactInv'
<1>1. CASE UNCHANGED vars
  <2>1. UNCHANGED <<work, tags, message_tags>>
    BY <1>1 DEF vars, tables
  <2>2. Unused' = Unused /\ \A m : Shown(m)' = Shown(m)
    BY <2>1 DEF Unused, Shown
  <2>3. ASSUME NEW p \in Workers
        PROVE  Shape(work[p])' /\ (work[p].alone => Exact(work[p]))'
    <3>1. Shape(work[p]) /\ (work[p].alone => Exact(work[p]))
      BY DEF ExactInv
    <3>2. Shape(work[p])'
      BY <2>1, <3>1 DEF Shape
    <3>3. work[p].alone => Exact(work[p])'
      BY <2>1, <2>2, <3>1 DEF Exact, Todo
    <3> QED
      BY <2>1, <3>2, <3>3
  <2> QED
    BY <2>3 DEF ExactInv
<1>2. CASE Next
  <2>1. PICK p \in Workers : Progress(p)
    BY <1>2, EveryStep
  <2> QED
    BY <2>1, ProgressKeeps
<1> QED
  BY <1>1, <1>2

LEMMA InitExact == Init => ExactInv
BY DEF Init, ExactInv, Shape, Idle

\* The progress that ends an operation nobody has disturbed keeps its promise.
LEMMA ProgressKeepsPromises ==
    ASSUME IInv, ExactInv, NEW p \in Workers, Progress(p),
           NEW q \in Workers, Succeeds(q), work[q].alone
    PROVE  \E w \in Locals : w = work[q] /\ Promised(w)'
<1>1. PICK w, v \in Locals : w = work[p] /\ Outcome(p, w, v)
  BY DEF Progress
<1>2. work'[p] = v /\ \A r \in Workers : r # p => work'[r] = [work[r] EXCEPT !.alone = FALSE]
  BY <1>1, ProceedLocals DEF Outcome, IInv
<1>3. q = p
  <2>1. q # p => work'[q].stmt = work[q].stmt
    BY <1>2 DEF IInv, TypeOK, Locals
  <2> QED
    BY <2>1 DEF Succeeds, At
<1>4. Promised(w)'
  BY <1>1, <1>2, <1>3 DEF Outcome, Succeeds, At
<1> QED
  BY <1>1, <1>3, <1>4

\* When a step keeps the promise made for the locals of q, the operation of q has
\* left the rows that the property asks for.
LEMMA PromiseIsProperty ==
    ASSUME NEW q \in Workers, NEW w \in Locals, w = work[q], Promised(w)'
    PROVE  /\ work[q].op = "set" =>
                \A m \in Messages : m = work[q].msg => Shown(m)' = work[q].want
           /\ work[q].op = "rename" =>
                \E t \in tags' : t.id = work[q].id /\ t.name = work[q].to
           /\ work[q].op = "drop" =>
                /\ \A t \in tags' : t.name # work[q].name
                /\ \A r \in message_tags' : r[2] # work[q].id
           /\ work[q].op = "prune" => Unused' = {}
BY DEF Promised

\* An operation that ends well and that neither another goroutine nor a failure has
\* disturbed has done what it says: set exactly the tags wanted, renamed the tag,
\* deleted it with its rows, or pruned every unused tag.
THEOREM OperationsAreExact == Spec => UndisturbedOperationsAreExact
<1>1. Init => ExactInv
  BY InitExact
<1>2. IInv /\ ExactInv /\ [Next]_vars => ExactInv'
  BY StepExact
<1>3. IInv /\ ExactInv /\ [Next]_vars =>
        [\A p \in Workers : Succeeds(p) /\ work[p].alone =>
          /\ work[p].op = "set" =>
                \A m \in Messages : m = work[p].msg => Shown(m)' = work[p].want
          /\ work[p].op = "rename" =>
                \E t \in tags' : t.id = work[p].id /\ t.name = work[p].to
          /\ work[p].op = "drop" =>
                /\ \A t \in tags' : t.name # work[p].name
                /\ \A r \in message_tags' : r[2] # work[p].id
          /\ work[p].op = "prune" => Unused' = {}]_vars
  <2> SUFFICES ASSUME IInv, ExactInv, Next, NEW p \in Workers, Succeeds(p), work[p].alone
               PROVE  /\ work[p].op = "set" =>
                           \A m \in Messages : m = work[p].msg => Shown(m)' = work[p].want
                      /\ work[p].op = "rename" =>
                           \E t \in tags' : t.id = work[p].id /\ t.name = work[p].to
                      /\ work[p].op = "drop" =>
                           /\ \A t \in tags' : t.name # work[p].name
                           /\ \A r \in message_tags' : r[2] # work[p].id
                      /\ work[p].op = "prune" => Unused' = {}
    OBVIOUS
  <2>1. PICK q \in Workers : Progress(q)
    BY EveryStep
  <2>2. PICK w \in Locals : w = work[p] /\ Promised(w)'
    BY <2>1, ProgressKeepsPromises
  <2> QED
    BY <2>2, PromiseIsProperty
<1> QED
  BY <1>1, <1>2, <1>3, TagsInductive, PTL DEF Spec, UndisturbedOperationsAreExact
=============================================================================
