--------------------------- MODULE Delivery_proofs ---------------------------
(***************************************************************************)
(* What holds of Delivery for any connections, messages and settings.      *)
(* AcceptLoop and Intake share no variable: the invariant of each is       *)
(* proved over the steps of its own, which leave the other's alone.        *)
(***************************************************************************)
EXTENDS Delivery, FiniteSetTheorems, TLAPS

\* What the loop holds between its steps, and when it may have let a session in late.
LoopHolds ==
    /\ loop = "acquire" => current \in Conns /\ link[current] = "held"
    /\ loop = "start" => current \in Conns /\ link[current] = "named"
    /\ late # {} => inShutdown /\ loop \in {"check", "returned"}

\* The inductive invariant of AcceptLoop.
LoopInv ==
    /\ LoopTypeOK
    /\ LoopHolds
    /\ SlotsAreAccounted
    /\ CloseLetsOneIn

\* What Delivery adds to the steps of AcceptLoop.
LoopNext == LoopStep \/ (\E c \in Conns : HangUp(c)) \/ UNCHANGED loopVars

LEMMA ConnsAreFinite ==
    ASSUME NEW S \in SUBSET Conns
    PROVE  IsFiniteSet(S) /\ Cardinality(S) \in Nat
<1>1. IsFiniteSet(S)
  BY ConnsAssumption, FS_Subset
<1> QED
  BY <1>1, FS_CardinalityType

LEMMA LoopInitInv == LoopInit => LoopInv
<1> SUFFICES ASSUME LoopInit PROVE LoopInv
  OBVIOUS
<1>1. LoopTypeOK
  <2>1. link \in [Conns -> Stages]
    BY DEF LoopInit, Stages
  <2>2. delay \in 0..MaxDelay
    BY LimitsAssumption DEF LoopInit
  <2> QED
    BY <2>1, <2>2 DEF LoopInit, LoopTypeOK
<1>2. Holding = {} /\ Serving = {}
  BY DEF LoopInit, Holding, Serving
<1>3. SlotsAreAccounted
  BY <1>2, FS_EmptySet, LimitsAssumption DEF LoopInit, SlotsAreAccounted
<1>4. LoopHolds /\ CloseLetsOneIn
  BY FS_EmptySet DEF LoopInit, LoopHolds, CloseLetsOneIn
<1> QED
  BY <1>1, <1>3, <1>4 DEF LoopInv

\* Backoff.Wait never waits longer than its limit.
LEMMA DelaysAreBounded ==
    ASSUME NEW d \in 0..MaxDelay
    PROVE  NextDelay(d) \in 0..MaxDelay
BY LimitsAssumption DEF NextDelay

\* A connection that passes from one stage to another enters or leaves at most the sets
\* that these stages belong to.
LEMMA Passing ==
    ASSUME LoopTypeOK, NEW c \in Conns, NEW s \in Stages, Pass(c, s)
    PROVE  /\ link' \in [Conns -> Stages]
           /\ Holding' = IF s \in {"named", "served", "hungup", "left"}
                         THEN Holding \union {c} ELSE Holding \ {c}
           /\ Serving' = IF s \in {"served", "hungup"}
                         THEN Serving \union {c} ELSE Serving \ {c}
           /\ link'[c] = s
BY DEF LoopTypeOK, Pass, Holding, Serving

LEMMA LoopStepInv == LoopInv /\ LoopNext => LoopInv'
<1> SUFFICES ASSUME LoopInv, LoopNext PROVE LoopInv'
  OBVIOUS
<1> USE LimitsAssumption
<1>a. LoopTypeOK /\ LoopHolds /\ SlotsAreAccounted /\ CloseLetsOneIn
  BY DEF LoopInv
<1>f. /\ IsFiniteSet(Holding) /\ Cardinality(Holding) \in Nat
      /\ IsFiniteSet(Serving) /\ Cardinality(Serving) \in Nat
  BY ConnsAreFinite DEF Holding, Serving
<1>s. ASSUME slots' = slots, openSessions' = openSessions, Holding' = Holding, Serving' = Serving
      PROVE  SlotsAreAccounted'
  BY <1>a, <1>s DEF SlotsAreAccounted
<1>l. ASSUME late' = late PROVE CloseLetsOneIn'
  BY <1>a, <1>l DEF CloseLetsOneIn
<1>r. ASSUME ReturnFromServe
      PROVE  link' \in [Conns -> Stages] /\ Holding' = Holding /\ Serving' = Serving
  BY <1>a, <1>r DEF ReturnFromServe, LoopTypeOK, Holding, Serving, Stages
<1>1. CASE CheckShutdown
  <2>1. Holding' = Holding /\ Serving' = Serving /\ link' \in [Conns -> Stages]
    BY <1>1, <1>a, <1>r DEF CheckShutdown, LoopTypeOK, Holding, Serving
  <2>2. LoopTypeOK' /\ LoopHolds'
    BY <1>1, <1>a, <2>1 DEF CheckShutdown, ReturnFromServe, LoopTypeOK, LoopHolds
  <2> QED
    BY <1>1, <1>s, <1>l, <2>1, <2>2 DEF CheckShutdown, LoopInv
<1>2. CASE AcceptFails
  <2>1. Holding' = Holding /\ Serving' = Serving /\ link' \in [Conns -> Stages]
    BY <1>2, <1>a, <1>r DEF AcceptFails, LoopTypeOK, Holding, Serving
  <2>2. LoopTypeOK' /\ LoopHolds'
    BY <1>2, <1>a, <2>1, DelaysAreBounded DEF AcceptFails, ReturnFromServe, LoopTypeOK, LoopHolds
  <2> QED
    BY <1>2, <1>s, <1>l, <2>1, <2>2 DEF AcceptFails, LoopInv
<1>3. CASE Waited
  <2>1. Holding' = Holding /\ Serving' = Serving /\ LoopTypeOK' /\ LoopHolds'
    BY <1>3, <1>a DEF Waited, LoopTypeOK, LoopHolds, Holding, Serving
  <2> QED
    BY <1>3, <1>s, <1>l, <2>1 DEF Waited, LoopInv
<1>4. CASE Acquire
  <2>1. current \in Conns /\ link[current] = "held" /\ current \notin Holding
    BY <1>4, <1>a DEF Acquire, LoopHolds, Holding
  <2>2. CASE Full
    <3>1. Pass(current, "refused")
      BY <1>4, <2>2 DEF Acquire
    <3>2. link' \in [Conns -> Stages] /\ Holding' = Holding /\ Serving' = Serving
      BY <3>1, <2>1, <1>a, Passing DEF Holding, Serving, Stages
    <3>3. LoopTypeOK' /\ LoopHolds'
      BY <1>4, <1>a, <2>2, <3>2 DEF Acquire, LoopTypeOK, LoopHolds
    <3> QED
      BY <1>4, <2>2, <1>s, <1>l, <3>2, <3>3 DEF Acquire, LoopInv
  <2>3. CASE ~Full
    <3>1. Pass(current, "named") /\ slots' = slots + 1 /\ openSessions' = openSessions
      BY <1>4, <2>3 DEF Acquire
    <3>2. /\ link' \in [Conns -> Stages] /\ link'[current] = "named"
          /\ Holding' = Holding \union {current} /\ Serving' = Serving
      BY <3>1, <2>1, <1>a, Passing DEF Serving, Stages
    <3>3. Cardinality(Holding') = Cardinality(Holding) + 1
      BY <3>2, <2>1, <1>f, FS_AddElement
    <3>4. SlotsAreAccounted'
      BY <3>1, <3>2, <3>3, <1>a, <1>f, <2>3 DEF SlotsAreAccounted, Full
    <3>5. LoopTypeOK' /\ LoopHolds'
      BY <1>4, <1>a, <2>1, <2>3, <3>1, <3>2 DEF Acquire, LoopTypeOK, LoopHolds
    <3> QED
      BY <1>4, <1>l, <3>4, <3>5 DEF Acquire, LoopInv
  <2> QED
    BY <2>2, <2>3
<1>5. CASE StartSession
  <2>1. current \in Conns /\ link[current] = "named" /\ current \in Holding /\ current \notin Serving
    BY <1>5, <1>a DEF StartSession, LoopHolds, Holding, Serving
  <2>2. /\ link' \in [Conns -> Stages]
        /\ Holding' = Holding /\ Serving' = Serving \union {current}
    BY <1>5, <2>1, <1>a, Passing DEF StartSession, Stages
  <2>3. Cardinality(Serving') = Cardinality(Serving) + 1
    BY <2>1, <2>2, <1>f, FS_AddElement
  <2>4. SlotsAreAccounted'
    BY <1>5, <2>2, <2>3, <1>a, <1>f DEF StartSession, SlotsAreAccounted
  <2>5. late = {} /\ late' \in {{}, {current}}
    BY <1>5, <1>a DEF StartSession, LoopHolds
  <2>6. Cardinality(late') \in {0, 1}
    BY <2>5, FS_EmptySet, FS_Singleton
  <2>8. CloseLetsOneIn'
    BY <2>6 DEF CloseLetsOneIn
  <2>7. LoopTypeOK' /\ LoopHolds'
    BY <1>5, <1>a, <2>1, <2>2, <2>5 DEF StartSession, LoopTypeOK, LoopHolds
  <2> QED
    BY <2>4, <2>7, <2>8 DEF LoopInv
<1>6. CASE CloseServer
  <2>1. Holding' = Holding /\ Serving' = Serving /\ LoopTypeOK' /\ LoopHolds'
    BY <1>6, <1>a DEF CloseServer, LoopTypeOK, LoopHolds, Holding, Serving
  <2> QED
    BY <1>6, <1>s, <1>l, <2>1 DEF CloseServer, LoopInv
<1>7. ASSUME NEW c \in Conns, Dial(c) PROVE LoopInv'
  <2>1. link' \in [Conns -> Stages] /\ Holding' = Holding /\ Serving' = Serving
    BY <1>7, <1>a, Passing DEF Dial, Holding, Serving, Stages
  <2>2. LoopTypeOK' /\ LoopHolds'
    BY <1>7, <1>a, <2>1 DEF Dial, Pass, LoopTypeOK, LoopHolds
  <2> QED
    BY <1>7, <1>s, <1>l, <2>1, <2>2 DEF Dial, LoopInv
<1>8. ASSUME NEW c \in Conns, Accept(c) PROVE LoopInv'
  <2>1. /\ link' \in [Conns -> Stages] /\ link'[c] = "held"
        /\ Holding' = Holding /\ Serving' = Serving
    BY <1>8, <1>a, Passing DEF Accept, Holding, Serving, Stages
  <2>2. LoopTypeOK' /\ LoopHolds'
    BY <1>8, <1>a, <2>1 DEF Accept, LoopTypeOK, LoopHolds
  <2> QED
    BY <1>8, <1>s, <1>l, <2>1, <2>2 DEF Accept, LoopInv
<1>9. ASSUME NEW c \in Conns, HangUp(c) PROVE LoopInv'
  <2>1. link' \in [Conns -> Stages] /\ Holding' = Holding /\ Serving' = Serving
    BY <1>9, <1>a, Passing DEF HangUp, Holding, Serving, Stages
  <2>2. LoopTypeOK' /\ LoopHolds'
    BY <1>9, <1>a, <2>1 DEF HangUp, Pass, LoopTypeOK, LoopHolds
  <2> QED
    BY <1>9, <1>s, <1>l, <2>1, <2>2 DEF HangUp, LoopInv
<1>10. ASSUME NEW c \in Conns, Discount(c) PROVE LoopInv'
  <2>1. /\ link' \in [Conns -> Stages]
        /\ Holding' = Holding /\ Serving' = Serving \ {c} /\ c \in Serving
    BY <1>10, <1>a, Passing DEF Discount, Holding, Serving, Stages
  <2>2. Cardinality(Serving') = Cardinality(Serving) - 1
    BY <2>1, <1>f, FS_RemoveElement
  <2>5. Cardinality(Serving') \in Nat
    BY ConnsAreFinite DEF Serving
  <2>3. SlotsAreAccounted' /\ openSessions' \in Nat
    BY <1>10, <2>1, <2>2, <2>5, <1>a, <1>f DEF Discount, SlotsAreAccounted
  <2>4. LoopTypeOK' /\ LoopHolds'
    BY <1>10, <1>a, <2>1, <2>3 DEF Discount, Pass, LoopTypeOK, LoopHolds
  <2> QED
    BY <1>10, <1>l, <2>3, <2>4 DEF Discount, LoopInv
<1>11. ASSUME NEW c \in Conns, Release(c) PROVE LoopInv'
  <2>1. /\ link' \in [Conns -> Stages]
        /\ Serving' = Serving /\ Holding' = Holding \ {c} /\ c \in Holding
    BY <1>11, <1>a, Passing DEF Release, Holding, Serving, Stages
  <2>2. Cardinality(Holding') = Cardinality(Holding) - 1
    BY <2>1, <1>f, FS_RemoveElement
  <2>5. Cardinality(Holding') \in Nat
    BY ConnsAreFinite DEF Holding
  <2>3. SlotsAreAccounted' /\ slots' \in Nat
    BY <1>11, <2>1, <2>2, <2>5, <1>a, <1>f DEF Release, SlotsAreAccounted
  <2>4. LoopTypeOK' /\ LoopHolds'
    BY <1>11, <1>a, <2>1, <2>3 DEF Release, Pass, LoopTypeOK, LoopHolds
  <2> QED
    BY <1>11, <1>l, <2>3, <2>4 DEF Release, LoopInv
<1>12. CASE UNCHANGED loopVars
  <2>1. Holding' = Holding /\ Serving' = Serving /\ LoopTypeOK' /\ LoopHolds'
    BY <1>12, <1>a DEF loopVars, LoopTypeOK, LoopHolds, Holding, Serving
  <2> QED
    BY <1>12, <1>s, <1>l, <2>1 DEF loopVars, LoopInv
<1> QED
  BY <1>1, <1>2, <1>3, <1>4, <1>5, <1>6, <1>7, <1>8, <1>9, <1>10, <1>11, <1>12
     DEF LoopNext, LoopStep
----------------------------------------------------------------------------
(* Intake                                                                  *)

\* What the step of an attempt says of it, and of the attempts acknowledged before it.
StepFacts(a) ==
    /\ reply[a] # "none" <=> step[a] = "done"
    /\ a \in bounced \union ignored \union passed => step[a] = "done"
    /\ a \in stored => step[a] \in {"tags", "done"} /\ a \notin bounced \union ignored \union passed
    /\ step[a] = "tags" => a \in stored
    /\ step[a] \in {"idle", "rules", "dup", "relay"} => sent[a] = {}
    /\ step[a] \in {"idle", "rules", "dup", "relay", "forward"} => a \notin forwarded
    /\ a \in bounced \union ignored => a \notin forwarded /\ sent[a] = {}
    /\ reply[a] = "2xx" => a \in stored \union ignored \union passed \/ msg[a].form = "odd"
    /\ \A b \in before[a] : step[b] = "done"

\* An attempt that finds an acknowledged copy goes no further than the query for it.
StopsAtDuplicates(a) ==
    config.ignoreDuplicateIDs =>
        \A b \in before[a] \intersect kept :
            msg[a].id = msg[b].id /\ msg[a].id # NoId /\ a \notin unsure =>
                /\ step[a] \in {"idle", "rules", "dup", "done"}
                /\ a \notin stored /\ a \notin forwarded /\ sent[a] = {}

\* What is behind an attempt that has come past the relay, and past the forwarding.
PastRelay(a) == step[a] \in {"forward", "store", "tags"} \/ a \in Accepted
PastForward(a) == step[a] \in {"store", "tags"} \/ a \in Accepted

Recipient(a) ==
    /\ sent[a] \subseteq LetThrough(a)
    /\ a \in Conns => to[a] \subseteq config.allowed
    /\ PastRelay(a) /\ config.relayErrors => sent[a] = LetThrough(a)
    /\ PastForward(a) /\ config.forward /\ config.forwardErrors => a \in forwarded

AttemptInv(a) == StepFacts(a) /\ StopsAtDuplicates(a) /\ Recipient(a)

\* Nothing was refused before its attempt began.
RefusedHasBegun == \A p \in refused : step[p[1]] # "idle"

\* The inductive invariant of Intake.
IntakeInv ==
    /\ IntakeTypeOK
    /\ \A a \in Attempts : AttemptInv(a)
    /\ RefusedHasBegun
    /\ TallyAgrees

LEMMA AttemptsAreFinite ==
    ASSUME NEW S \in SUBSET Attempts
    PROVE  IsFiniteSet(S) /\ Cardinality(S) \in Nat
<1>1. IsFiniteSet(S)
  BY AttemptsAssumption, FS_Subset
<1> QED
  BY <1>1, FS_CardinalityType

LEMMA RecipientsAreFinite ==
    ASSUME NEW S \in SUBSET Recipients
    PROVE  IsFiniteSet(S) /\ Cardinality(S) \in Nat
<1>1. IsFiniteSet(S)
  BY AttemptsAssumption, FS_Subset
<1> QED
  BY <1>1, FS_CardinalityType

LEMMA RefusalsAreFinite ==
    ASSUME NEW S \in SUBSET (Attempts \X Recipients)
    PROVE  IsFiniteSet(S) /\ Cardinality(S) \in Nat
<1>1. IsFiniteSet(Attempts \X Recipients)
  BY AttemptsAssumption, FS_Product
<1>2. IsFiniteSet(S)
  BY <1>1, FS_Subset
<1> QED
  BY <1>2, FS_CardinalityType

\* Every message has a verdict.
LEMMA VerdictType ==
    ASSUME IntakeTypeOK, NEW a \in Attempts
    PROVE  Verdict(msg[a]) \in {"none", "4xx", "5xx"}
<1>1. msg[a] \in Messages /\ msg[a].form \in Forms
  BY MessagesAssumption DEF IntakeTypeOK
<1>2. bounce[msg[a]] \in {"none", "4xx", "5xx"}
  BY <1>1 DEF IntakeTypeOK
<1> QED
  BY <1>1, <1>2 DEF Verdict, Forms

\* The counters are right when one attempt at most joins the sets they count.
LEMMA Counting ==
    ASSUME IntakeInv, IntakeTypeOK', refused' = refused,
           NEW a \in Attempts,
           \/ Accepted' = Accepted /\ tally'.accepted = tally.accepted
           \/ /\ a \notin Accepted /\ Accepted' = Accepted \union {a}
              /\ tally'.accepted = tally.accepted + 1,
           \/ bounced' = bounced /\ tally'.rejected = tally.rejected
           \/ /\ a \notin bounced /\ bounced' = bounced \union {a}
              /\ tally'.rejected = tally.rejected + 1,
           \/ ignored' = ignored /\ tally'.ignored = tally.ignored
           \/ /\ a \notin ignored /\ ignored' = ignored \union {a}
              /\ tally'.ignored = tally.ignored + 1
    PROVE  TallyAgrees'
<1>1. IntakeTypeOK /\ TallyAgrees
  BY DEF IntakeInv
<1>2. /\ IsFiniteSet(Accepted) /\ Cardinality(Accepted) \in Nat
      /\ IsFiniteSet(bounced) /\ Cardinality(bounced) \in Nat
      /\ IsFiniteSet(ignored) /\ Cardinality(ignored) \in Nat
      /\ Cardinality(refused) \in Nat
  BY <1>1, AttemptsAreFinite, RefusalsAreFinite DEF IntakeTypeOK, Accepted
<1>3. tally'.accepted = Cardinality(Accepted')
  <2>1. tally.accepted = Cardinality(Accepted)
    BY <1>1 DEF TallyAgrees, Accepted
  <2>2. a \notin Accepted => Cardinality(Accepted \union {a}) = Cardinality(Accepted) + 1
    BY <1>2, FS_AddElement
  <2> QED
    BY <2>1, <2>2
<1>4. tally'.rejected = Cardinality(bounced') + Cardinality(refused')
  <2>1. tally.rejected = Cardinality(bounced) + Cardinality(refused)
    BY <1>1 DEF TallyAgrees
  <2>2. a \notin bounced => Cardinality(bounced \union {a}) = Cardinality(bounced) + 1
    BY <1>2, FS_AddElement
  <2>3. Cardinality(refused') = Cardinality(refused)
    OBVIOUS
  <2>4. CASE bounced' = bounced /\ tally'.rejected = tally.rejected
    BY <2>1, <2>3, <2>4
  <2>5. CASE /\ a \notin bounced /\ bounced' = bounced \union {a}
             /\ tally'.rejected = tally.rejected + 1
    <3>1. Cardinality(bounced') = Cardinality(bounced) + 1
      BY <2>2, <2>5
    <3> QED
      BY <1>2, <2>1, <2>3, <2>5, <3>1
  <2> QED
    BY <2>4, <2>5
<1>5. tally'.ignored = Cardinality(ignored')
  <2>1. tally.ignored = Cardinality(ignored)
    BY <1>1 DEF TallyAgrees
  <2> QED
    BY <1>2, <2>1, FS_AddElement
<1> QED
  BY <1>3, <1>4, <1>5 DEF TallyAgrees, Accepted

LEMMA IntakeInitInv == IntakeInit => IntakeInv
<1> SUFFICES ASSUME IntakeInit PROVE IntakeInv
  OBVIOUS
<1>1. IntakeTypeOK
  <2>1. tally \in [accepted : Nat, rejected : Nat, ignored : Nat]
    BY DEF IntakeInit
  <2>2. /\ reply \in [Attempts -> Codes \union {"none"}]
        /\ before \in [Attempts -> SUBSET Attempts]
    BY DEF IntakeInit
  <2> QED
    BY <2>1, <2>2 DEF IntakeInit, IntakeTypeOK
<1>2. ASSUME NEW a \in Attempts PROVE AttemptInv(a)
  BY DEF IntakeInit, AttemptInv, StepFacts, StopsAtDuplicates, Recipient, PastRelay,
         PastForward, Accepted, LetThrough
<1>3. Accepted = {} /\ bounced = {} /\ refused = {} /\ ignored = {}
  BY DEF IntakeInit, Accepted
<1>4. TallyAgrees
  <2>1. tally.accepted = 0 /\ tally.rejected = 0 /\ tally.ignored = 0
    BY DEF IntakeInit
  <2>2. /\ Cardinality(Accepted) = 0 /\ Cardinality(bounced) = 0
        /\ Cardinality(refused) = 0 /\ Cardinality(ignored) = 0
    BY <1>3, FS_EmptySet
  <2> QED
    BY <2>1, <2>2 DEF TallyAgrees, Accepted
<1> QED
  BY <1>1, <1>2, <1>3, <1>4 DEF IntakeInv, RefusedHasBegun

LEMMA RulesInv ==
    ASSUME IntakeInv, NEW a \in Attempts, Rules(a) PROVE IntakeInv'
<1>a. IntakeTypeOK /\ (\A x \in Attempts : AttemptInv(x)) /\ RefusedHasBegun
  BY DEF IntakeInv
<1>v. Verdict(msg[a]) \in {"none", "4xx", "5xx"}
  BY <1>a, VerdictType
<1>1. IntakeTypeOK'
  BY <1>a, <1>v DEF Rules, IntakeTypeOK, Go, Answer, Codes
<1>2. ASSUME NEW x \in Attempts PROVE AttemptInv(x)'
  <2>1. StepFacts(x)'
    BY <1>a, <1>v DEF Rules, IntakeTypeOK, Go, Answer, AttemptInv, StepFacts
  <2>2. StopsAtDuplicates(x)'
    BY <1>a DEF Rules, IntakeTypeOK, Go, Answer, AttemptInv, StopsAtDuplicates
  <2>3. Recipient(x)'
    BY <1>a, <1>v DEF Rules, IntakeTypeOK, Go, Answer, AttemptInv, StepFacts, Recipient,
       PastRelay, PastForward, Accepted, LetThrough
  <2> QED
    BY <2>1, <2>2, <2>3 DEF AttemptInv
<1>3. RefusedHasBegun'
  BY <1>a DEF Rules, RefusedHasBegun, IntakeTypeOK, Go, Answer
<1>4. a \notin bounced /\ Accepted' = Accepted
  BY <1>a, <1>v DEF Rules, IntakeTypeOK, AttemptInv, StepFacts, Accepted, Answer
<1>5. \/ bounced' = bounced /\ tally' = tally
      \/ bounced' = bounced \union {a} /\ tally' = [tally EXCEPT !.rejected = @ + 1]
  BY DEF Rules
<1>6. TallyAgrees'
  BY <1>a, <1>1, <1>4, <1>5, Counting DEF Rules, IntakeTypeOK
<1> QED
  BY <1>1, <1>2, <1>3, <1>6 DEF IntakeInv

\* The facts of an attempt, for the proofs below.
LEMMA Facts ==
    ASSUME IntakeInv
    PROVE  /\ IntakeTypeOK /\ RefusedHasBegun
           /\ \A x \in Attempts : StepFacts(x) /\ StopsAtDuplicates(x) /\ Recipient(x)
BY DEF IntakeInv, AttemptInv

LEMMA DuplicatesInv ==
    ASSUME IntakeInv, NEW a \in Attempts, Duplicates(a) PROVE IntakeInv'
<1>a. /\ IntakeTypeOK /\ RefusedHasBegun
      /\ \A x \in Attempts : StepFacts(x) /\ StopsAtDuplicates(x) /\ Recipient(x)
  BY Facts
<1>1. IntakeTypeOK'
  BY <1>a DEF Duplicates, IntakeTypeOK, Go, Answer, Codes
<1>2. ASSUME NEW x \in Attempts PROVE AttemptInv(x)'
  <2>1. StepFacts(x)'
    BY <1>a DEF Duplicates, IntakeTypeOK, Go, Answer, StepFacts
  <2>2. StopsAtDuplicates(x)'
    <3>1. CASE x # a
      BY <1>a, <3>1 DEF Duplicates, IntakeTypeOK, Go, Answer, StopsAtDuplicates
    <3>2. CASE x = a
      <4>1. a \notin stored /\ a \notin forwarded /\ sent[a] = {}
        BY <1>a DEF Duplicates, StepFacts
      <4>2. \/ config.ignoreDuplicateIDs /\ msg[a].id # NoId => ~IdExists(msg[a].id)
            \/ a \in unsure'
            \/ step'[a] = "done"
        BY <1>a DEF Duplicates, Answer, Go, IntakeTypeOK
      <4>3. ~IdExists(msg[a].id) => \A b \in kept : msg[b].id # msg[a].id
        BY DEF IdExists
      <4> QED
        BY <3>2, <4>1, <4>2, <4>3 DEF Duplicates, StopsAtDuplicates
    <3> QED
      BY <3>1, <3>2
  <2>3. Recipient(x)'
    BY <1>a DEF Duplicates, IntakeTypeOK, Go, Answer, StepFacts, Recipient,
       PastRelay, PastForward, Accepted, LetThrough
  <2> QED
    BY <2>1, <2>2, <2>3 DEF AttemptInv
<1>3. RefusedHasBegun'
  BY <1>a DEF Duplicates, RefusedHasBegun, IntakeTypeOK, Go, Answer
<1>4. a \notin ignored /\ Accepted' = Accepted
  BY <1>a DEF Duplicates, IntakeTypeOK, StepFacts, Accepted, Answer
<1>5. \/ ignored' = ignored /\ tally' = tally
      \/ ignored' = ignored \union {a} /\ tally' = [tally EXCEPT !.ignored = @ + 1]
  BY DEF Duplicates
<1>6. TallyAgrees'
  BY <1>a, <1>1, <1>4, <1>5, Counting DEF Duplicates, IntakeTypeOK
<1> QED
  BY <1>1, <1>2, <1>3, <1>6 DEF IntakeInv

LEMMA RelayInv ==
    ASSUME IntakeInv, NEW a \in Attempts, NEW overHTTP \in BOOLEAN, Relay(a, overHTTP)
    PROVE  IntakeInv'
<1>a. /\ IntakeTypeOK /\ RefusedHasBegun
      /\ \A x \in Attempts : StepFacts(x) /\ StopsAtDuplicates(x) /\ Recipient(x)
  BY Facts
<1>s. /\ sent' \in [Attempts -> SUBSET Recipients]
      /\ \A x \in Attempts : x # a => sent'[x] = sent[x]
      /\ sent'[a] \subseteq LetThrough(a)
      /\ step'[a] # "done" /\ config.relayErrors => sent'[a] = LetThrough(a)
  BY <1>a DEF Relay, Targets, IntakeTypeOK, StepFacts, LetThrough, Go, PassOn, Answer
<1>p. \/ reply' = reply /\ passed' = passed /\ step'[a] # "done"
      \/ \E code \in Codes : PassOn(a, code, overHTTP)
  BY <1>a DEF Relay, Go, IntakeTypeOK
<1>g. \E next \in {"forward", "done"}, r \in Codes :
         /\ step' = [step EXCEPT ![a] = next]
         /\ \/ next = "forward" /\ reply' = reply /\ passed' = passed
            \/ /\ next = "done" /\ reply' = [reply EXCEPT ![a] = r]
               /\ passed' = passed \union {a}
  BY <1>a DEF Relay, Go, PassOn, Answer, Codes
<1>1. IntakeTypeOK'
  BY <1>a, <1>s DEF Relay, IntakeTypeOK, Go, Answer, PassOn, Codes
<1>2. ASSUME NEW x \in Attempts PROVE AttemptInv(x)'
  <2>1. StepFacts(x)'
    <3>1. CASE x # a
      BY <1>a, <1>g, <3>1 DEF Relay, IntakeTypeOK, StepFacts
    <3>2. CASE x = a
      <4>1. step[a] = "relay" /\ reply[a] = "none" /\ a \notin stored
        BY <1>a DEF Relay, StepFacts, IntakeTypeOK, Codes
      <4>2. /\ a \notin bounced \union ignored
            /\ \A b \in before[a] : step[b] = "done" /\ b # a /\ b \in Attempts
        BY <1>a, <4>1 DEF StepFacts, IntakeTypeOK
      <4>3. \A b \in before[a] : step'[b] = "done"
        BY <1>g, <4>2, <1>a DEF IntakeTypeOK
      <4>4. /\ a \notin stored' /\ a \notin bounced' \union ignored'
            /\ \A b \in before'[a] : step'[b] = "done"
        BY <4>1, <4>2, <4>3 DEF Relay
      <4>5. CASE step'[a] = "forward" /\ reply' = reply /\ passed' = passed
        BY <1>a, <3>2, <4>1, <4>4, <4>5 DEF Relay, StepFacts
      <4>6. CASE step'[a] = "done" /\ reply'[a] \in Codes /\ a \in passed'
        BY <1>a, <3>2, <4>1, <4>4, <4>6 DEF Relay, StepFacts, Codes
      <4> QED
        BY <1>g, <4>5, <4>6, <1>a DEF IntakeTypeOK
    <3> QED
      BY <3>1, <3>2
  <2>2. StopsAtDuplicates(x)'
    BY <1>a DEF Relay, IntakeTypeOK, Go, Answer, PassOn, StopsAtDuplicates
  <2>3. Recipient(x)'
    <3>1. CASE x # a
      BY <1>a, <1>g, <1>s, <3>1 DEF Relay, IntakeTypeOK, Recipient,
         PastRelay, PastForward, Accepted, LetThrough
    <3>2. CASE x = a
      <4>1. step[a] = "relay" /\ reply[a] = "none"
        BY <1>a DEF Relay, StepFacts, IntakeTypeOK, Codes
      <4>2. /\ LetThrough(a)' = LetThrough(a) /\ UNCHANGED <<config, to>>
            /\ step'[a] = "forward" \/ step'[a] = "done"
            /\ step'[a] = "forward" => reply'[a] = "none"
            /\ step'[a] = "done" => a \in passed'
        BY <1>a, <1>g, <4>1 DEF Relay, IntakeTypeOK, LetThrough
      <4> QED
        BY <1>a, <1>s, <3>2, <4>2 DEF Recipient, PastRelay, PastForward, Accepted
    <3> QED
      BY <3>1, <3>2
  <2> QED
    BY <2>1, <2>2, <2>3 DEF AttemptInv
<1>3. RefusedHasBegun'
  BY <1>a DEF Relay, RefusedHasBegun, IntakeTypeOK, Go, Answer, PassOn
<1>4. Accepted' = Accepted
  BY <1>a, <1>p DEF Relay, IntakeTypeOK, StepFacts, Accepted, PassOn, Answer
<1>6. TallyAgrees'
  BY <1>a, <1>1, <1>4, Counting DEF Relay, IntakeTypeOK
<1> QED
  BY <1>1, <1>2, <1>3, <1>6 DEF IntakeInv

LEMMA ForwardInv ==
    ASSUME IntakeInv, NEW a \in Attempts, NEW overHTTP \in BOOLEAN, Forward(a, overHTTP)
    PROVE  IntakeInv'
<1>a. /\ IntakeTypeOK /\ RefusedHasBegun
      /\ \A x \in Attempts : StepFacts(x) /\ StopsAtDuplicates(x) /\ Recipient(x)
  BY Facts
<1>s. forwarded' \in SUBSET Attempts
  BY <1>a DEF Forward, IntakeTypeOK
<1>p. \/ reply' = reply /\ passed' = passed /\ step'[a] # "done"
      \/ \E code \in Codes : PassOn(a, code, overHTTP)
  BY <1>a DEF Forward, Go, IntakeTypeOK
<1>g. \E next \in {"store", "done"}, r \in Codes :
         /\ step' = [step EXCEPT ![a] = next]
         /\ \/ next = "store" /\ reply' = reply /\ passed' = passed
            \/ /\ next = "done" /\ reply' = [reply EXCEPT ![a] = r]
               /\ passed' = passed \union {a}
  BY <1>a DEF Forward, Go, PassOn, Answer, Codes
<1>1. IntakeTypeOK'
  BY <1>a, <1>s DEF Forward, IntakeTypeOK, Go, Answer, PassOn, Codes
<1>2. ASSUME NEW x \in Attempts PROVE AttemptInv(x)'
  <2>1. StepFacts(x)'
    <3>1. CASE x # a
      BY <1>a, <1>g, <3>1 DEF Forward, IntakeTypeOK, StepFacts
    <3>2. CASE x = a
      <4>1. step[a] = "forward" /\ reply[a] = "none" /\ a \notin stored
        BY <1>a DEF Forward, StepFacts, IntakeTypeOK, Codes
      <4>2. /\ a \notin bounced \union ignored
            /\ \A b \in before[a] : step[b] = "done" /\ b # a /\ b \in Attempts
        BY <1>a, <4>1 DEF StepFacts, IntakeTypeOK
      <4>3. \A b \in before[a] : step'[b] = "done"
        BY <1>g, <4>2, <1>a DEF IntakeTypeOK
      <4>4. /\ a \notin stored' /\ a \notin bounced' \union ignored'
            /\ \A b \in before'[a] : step'[b] = "done"
        BY <4>1, <4>2, <4>3 DEF Forward
      <4>5. CASE step'[a] = "store" /\ reply' = reply /\ passed' = passed
        BY <1>a, <3>2, <4>1, <4>4, <4>5 DEF Forward, StepFacts
      <4>6. CASE step'[a] = "done" /\ reply'[a] \in Codes /\ a \in passed'
        BY <1>a, <3>2, <4>1, <4>4, <4>6 DEF Forward, StepFacts, Codes
      <4> QED
        BY <1>g, <4>5, <4>6, <1>a DEF IntakeTypeOK
    <3> QED
      BY <3>1, <3>2
  <2>2. StopsAtDuplicates(x)'
    BY <1>a DEF Forward, IntakeTypeOK, Go, Answer, PassOn, StopsAtDuplicates
  <2>3. Recipient(x)'
    <3>1. CASE x # a
      BY <1>a, <1>g, <3>1 DEF Forward, IntakeTypeOK, Recipient,
         PastRelay, PastForward, Accepted, LetThrough
    <3>2. CASE x = a
      <4>1. step[a] = "forward" /\ reply[a] = "none" /\ PastRelay(a)
        BY <1>a DEF Forward, StepFacts, IntakeTypeOK, Codes, PastRelay
      <4>2. /\ LetThrough(a)' = LetThrough(a) /\ UNCHANGED <<config, to, sent>>
            /\ step'[a] = "store" \/ step'[a] = "done"
            /\ step'[a] = "store" => reply'[a] = "none"
            /\ step'[a] = "done" => a \in passed'
        BY <1>a, <1>g, <4>1 DEF Forward, IntakeTypeOK, LetThrough
      <4>3. step'[a] = "store" /\ config.forward /\ config.forwardErrors => a \in forwarded'
        BY <1>a DEF Forward, IntakeTypeOK, PassOn, Answer, Go
      <4> QED
        BY <1>a, <3>2, <4>1, <4>2, <4>3 DEF Recipient, PastRelay, PastForward, Accepted
    <3> QED
      BY <3>1, <3>2
  <2> QED
    BY <2>1, <2>2, <2>3 DEF AttemptInv
<1>3. RefusedHasBegun'
  BY <1>a DEF Forward, RefusedHasBegun, IntakeTypeOK, Go, Answer, PassOn
<1>4. Accepted' = Accepted
  BY <1>a, <1>p DEF Forward, IntakeTypeOK, StepFacts, Accepted, PassOn, Answer
<1>6. TallyAgrees'
  BY <1>a, <1>1, <1>4, Counting DEF Forward, IntakeTypeOK
<1> QED
  BY <1>1, <1>2, <1>3, <1>6 DEF IntakeInv

LEMMA StoreInv ==
    ASSUME IntakeInv, NEW a \in Attempts, Store(a) PROVE IntakeInv'
<1>a. /\ IntakeTypeOK /\ RefusedHasBegun
      /\ \A x \in Attempts : StepFacts(x) /\ StopsAtDuplicates(x) /\ Recipient(x)
  BY Facts
<1>s. /\ step[a] = "store" /\ reply[a] = "none" /\ a \notin stored
      /\ a \notin bounced \union ignored \union passed
  BY <1>a DEF Store, StepFacts, IntakeTypeOK, Codes
<1>1. IntakeTypeOK'
  BY <1>a DEF Store, IntakeTypeOK, Go, Answer, Codes
<1>2. ASSUME NEW x \in Attempts PROVE AttemptInv(x)'
  <2>1. StepFacts(x)'
    BY <1>a, <1>s DEF Store, IntakeTypeOK, Go, Answer, StepFacts
  <2>2. StopsAtDuplicates(x)'
    <3>1. a \notin before[x]
      BY <1>a, <1>s DEF StepFacts
    <3>2. before[x] \intersect kept' = before[x] \intersect kept
      BY <3>1 DEF Store
    <3> QED
      BY <1>a, <1>s, <3>2 DEF Store, IntakeTypeOK, Go, Answer, StopsAtDuplicates
  <2>3. Recipient(x)'
    BY <1>a, <1>s DEF Store, IntakeTypeOK, Go, Answer, Recipient,
       PastRelay, PastForward, Accepted, LetThrough
  <2> QED
    BY <2>1, <2>2, <2>3 DEF AttemptInv
<1>3. RefusedHasBegun'
  BY <1>a DEF Store, RefusedHasBegun, IntakeTypeOK, Go, Answer
<1>4. a \notin Accepted
  BY <1>s DEF Accepted
<1>5. \/ Accepted' = Accepted /\ tally' = tally
      \/ Accepted' = Accepted \union {a} /\ tally' = [tally EXCEPT !.accepted = @ + 1]
  BY <1>a, <1>s DEF Store, IntakeTypeOK, Accepted, Answer
<1>6. TallyAgrees'
  BY <1>a, <1>1, <1>4, <1>5, Counting DEF Store, IntakeTypeOK
<1> QED
  BY <1>1, <1>2, <1>3, <1>6 DEF IntakeInv

LEMMA TagsInv ==
    ASSUME IntakeInv, NEW a \in Attempts, Tags(a) PROVE IntakeInv'
<1>a. /\ IntakeTypeOK /\ RefusedHasBegun
      /\ \A x \in Attempts : StepFacts(x) /\ StopsAtDuplicates(x) /\ Recipient(x)
  BY Facts
<1>s. /\ step[a] = "tags" /\ reply[a] = "none" /\ a \in stored
      /\ a \notin bounced \union ignored \union passed
  BY <1>a DEF Tags, StepFacts, IntakeTypeOK, Codes
<1>1. IntakeTypeOK'
  BY <1>a DEF Tags, IntakeTypeOK, outcomeVars, Go, Answer, Codes
<1>2. ASSUME NEW x \in Attempts PROVE AttemptInv(x)'
  <2>1. StepFacts(x)'
    BY <1>a, <1>s DEF Tags, IntakeTypeOK, outcomeVars, Go, Answer, StepFacts
  <2>2. StopsAtDuplicates(x)'
    BY <1>a DEF Tags, IntakeTypeOK, outcomeVars, Go, Answer, StopsAtDuplicates
  <2>3. Recipient(x)'
    BY <1>a, <1>s DEF Tags, IntakeTypeOK, outcomeVars, Go, Answer, Recipient,
       PastRelay, PastForward, Accepted, LetThrough
  <2> QED
    BY <2>1, <2>2, <2>3 DEF AttemptInv
<1>3. RefusedHasBegun'
  BY <1>a DEF Tags, RefusedHasBegun, outcomeVars, IntakeTypeOK, Go, Answer
<1>4. a \notin Accepted
  BY <1>s DEF Accepted
<1>5. \/ Accepted' = Accepted /\ tally' = tally
      \/ Accepted' = Accepted \union {a} /\ tally' = [tally EXCEPT !.accepted = @ + 1]
  BY <1>a, <1>s DEF Tags, IntakeTypeOK, outcomeVars, Accepted, Answer
<1>6. TallyAgrees'
  BY <1>a, <1>1, <1>4, <1>5, Counting DEF Tags, outcomeVars, IntakeTypeOK
<1> QED
  BY <1>1, <1>2, <1>3, <1>6 DEF IntakeInv

\* The beginning of an attempt, in SMTP or in the send API.
LEMMA BeginFacts ==
    ASSUME IntakeInv, NEW a \in Attempts, NEW R \in SUBSET Recipients, Begin(a, R),
           a \in Conns => R \subseteq config.allowed,
           UNCHANGED <<config, bounce, msg, reply, kept, sent, forwarded,
                       bounced, ignored, unsure, passed, stored>>
    PROVE  /\ step' \in [Attempts -> {"idle", "rules", "dup", "relay", "forward",
                                      "store", "tags", "done"}]
           /\ to' \in [Attempts -> SUBSET Recipients]
           /\ before' \in [Attempts -> SUBSET Attempts]
           /\ \A x \in Attempts : AttemptInv(x)'
           /\ Accepted' = Accepted
<1>a. /\ IntakeTypeOK /\ RefusedHasBegun
      /\ \A x \in Attempts : StepFacts(x) /\ StopsAtDuplicates(x) /\ Recipient(x)
  BY Facts
<1>1. /\ step' \in [Attempts -> {"idle", "rules", "dup", "relay", "forward",
                                 "store", "tags", "done"}]
      /\ to' \in [Attempts -> SUBSET Recipients]
      /\ before' \in [Attempts -> SUBSET Attempts]
  BY <1>a DEF Begin, Go, IntakeTypeOK
<1>s. step[a] = "idle" /\ sent[a] = {} /\ a \notin forwarded /\ a \notin stored
  BY <1>a DEF Begin, StepFacts
<1>b. \A b \in before'[a] : b \in stored /\ step[b] = "done"
  BY <1>a DEF Begin, StepFacts, IntakeTypeOK
<1>2. ASSUME NEW x \in Attempts PROVE AttemptInv(x)'
  <2>1. CASE x # a
    <3>1. StepFacts(x)'
      BY <1>a, <1>s, <2>1 DEF Begin, Go, IntakeTypeOK, StepFacts
    <3>2. StopsAtDuplicates(x)'
      BY <1>a, <2>1 DEF Begin, Go, IntakeTypeOK, StopsAtDuplicates
    <3>3. Recipient(x)'
      BY <1>a, <2>1 DEF Begin, Go, IntakeTypeOK, Recipient,
         PastRelay, PastForward, Accepted, LetThrough
    <3> QED
      BY <3>1, <3>2, <3>3 DEF AttemptInv
  <2>2. CASE x = a
    <3>0. step'[a] = "rules" /\ to'[a] = R
      BY <1>a DEF Begin, Go, IntakeTypeOK
    <3>1. \A b \in before'[a] : step'[b] = "done"
      BY <1>a, <1>b, <1>s DEF Begin, Go, IntakeTypeOK
    <3>2. StepFacts(a)'
      BY <1>a, <1>s, <3>0, <3>1 DEF StepFacts
    <3>3. StopsAtDuplicates(a)'
      BY <1>s, <3>0 DEF StopsAtDuplicates
    <3>4. Recipient(a)'
      <4>1. reply'[a] = "none" /\ UNCHANGED <<sent, config>>
        BY <1>a, <1>s DEF Begin, StepFacts, IntakeTypeOK, Codes
      <4> QED
        BY <1>s, <3>0, <4>1 DEF Recipient, PastRelay, PastForward, Accepted, LetThrough
    <3> QED
      BY <2>2, <3>2, <3>3, <3>4 DEF AttemptInv
  <2> QED
    BY <2>1, <2>2
<1>3. Accepted' = Accepted
  BY DEF Accepted
<1> QED
  BY <1>1, <1>2, <1>3

LEMMA PostInv ==
    ASSUME IntakeInv, NEW a \in Attempts \ Conns, Post(a) PROVE IntakeInv'
<1>a. IntakeTypeOK /\ RefusedHasBegun
  BY Facts
<1>1. PICK R \in SUBSET Recipients : Begin(a, R)
  BY DEF Post
<1>2. /\ step' \in [Attempts -> {"idle", "rules", "dup", "relay", "forward",
                                 "store", "tags", "done"}]
      /\ to' \in [Attempts -> SUBSET Recipients]
      /\ before' \in [Attempts -> SUBSET Attempts]
      /\ \A x \in Attempts : AttemptInv(x)'
      /\ Accepted' = Accepted
  BY <1>1, BeginFacts DEF Post
<1>3. IntakeTypeOK'
  BY <1>a, <1>2 DEF Post, IntakeTypeOK
<1>4. RefusedHasBegun'
  BY <1>a, <1>1 DEF Post, Begin, Go, RefusedHasBegun, IntakeTypeOK
<1>5. TallyAgrees'
  BY <1>2, <1>3, Counting DEF Post
<1> QED
  BY <1>2, <1>3, <1>4, <1>5 DEF IntakeInv

LEMMA EnvelopeInv ==
    ASSUME IntakeInv, NEW a \in Attempts, Envelope(a) PROVE IntakeInv'
<1>a. IntakeTypeOK /\ RefusedHasBegun /\ TallyAgrees
  BY DEF IntakeInv
<1>1. PICK asked \in SUBSET Recipients :
         /\ Begin(a, asked \intersect config.allowed)
         /\ refused' = refused \union ({a} \X (asked \ config.allowed))
         /\ tally' = [tally EXCEPT !.rejected = @ + Cardinality(asked \ config.allowed)]
  BY DEF Envelope
<1> DEFINE R == asked \intersect config.allowed
           out == asked \ config.allowed
           new == {a} \X out
<1>r. R \in SUBSET Recipients /\ R \subseteq config.allowed /\ out \in SUBSET Recipients
  OBVIOUS
<1>c. IsFiniteSet(out) /\ Cardinality(out) \in Nat
  BY <1>r, RecipientsAreFinite
<1>2. /\ step' \in [Attempts -> {"idle", "rules", "dup", "relay", "forward",
                                 "store", "tags", "done"}]
      /\ to' \in [Attempts -> SUBSET Recipients]
      /\ before' \in [Attempts -> SUBSET Attempts]
      /\ \A x \in Attempts : AttemptInv(x)'
      /\ Accepted' = Accepted
  BY <1>1, <1>r, BeginFacts DEF Envelope
<1>n. new \in SUBSET (Attempts \X Recipients)
  BY <1>r
<1>t. /\ tally' \in [accepted : Nat, rejected : Nat, ignored : Nat]
      /\ tally'.accepted = tally.accepted /\ tally'.ignored = tally.ignored
      /\ tally'.rejected = tally.rejected + Cardinality(out)
  BY <1>a, <1>1, <1>c DEF IntakeTypeOK
<1>3. IntakeTypeOK'
  BY <1>a, <1>1, <1>2, <1>n, <1>t DEF Envelope, IntakeTypeOK
<1>4. RefusedHasBegun'
  BY <1>a, <1>1 DEF Begin, Go, RefusedHasBegun, IntakeTypeOK
<1>5. Cardinality(new) = Cardinality(out)
  <2>1. IsFiniteSet({a}) /\ Cardinality({a}) = 1
    BY FS_Singleton
  <2>2. Cardinality(new) = Cardinality({a}) * Cardinality(out)
    BY <2>1, <1>c, FS_Product
  <2> QED
    BY <1>c, <2>1, <2>2
<1>6. refused \intersect new = {}
  BY <1>a, <1>1 DEF RefusedHasBegun, Begin
<1>7. Cardinality(refused') = Cardinality(refused) + Cardinality(out)
  <2>1. /\ IsFiniteSet(refused) /\ Cardinality(refused) \in Nat
        /\ IsFiniteSet(new) /\ Cardinality(new) \in Nat
    BY <1>a, <1>n, RefusalsAreFinite DEF IntakeTypeOK
  <2>2. Cardinality(refused \union new) =
           Cardinality(refused) + Cardinality(new) - Cardinality(refused \intersect new)
    BY <2>1, FS_Union
  <2>3. Cardinality(refused \intersect new) = 0
    BY <1>6, FS_EmptySet
  <2>4. refused' = refused \union new
    BY <1>1
  <2> HIDE DEF new
  <2> QED
    BY <1>5, <2>1, <2>2, <2>3, <2>4
<1>8. TallyAgrees'
  <2>1. /\ Cardinality(bounced) \in Nat /\ Cardinality(refused) \in Nat
        /\ bounced' = bounced /\ ignored' = ignored
    BY <1>a, AttemptsAreFinite, RefusalsAreFinite DEF IntakeTypeOK, Envelope
  <2>2. /\ tally.accepted = Cardinality(Accepted)
        /\ tally.rejected = Cardinality(bounced) + Cardinality(refused)
        /\ tally.ignored = Cardinality(ignored)
    BY <1>a DEF TallyAgrees, Accepted
  <2>3. /\ tally'.accepted = Cardinality(Accepted')
        /\ tally'.rejected = Cardinality(bounced') + Cardinality(refused')
        /\ tally'.ignored = Cardinality(ignored')
    BY <1>2, <1>7, <1>t, <1>c, <2>1, <2>2
  <2> QED
    BY <2>3 DEF TallyAgrees, Accepted
<1> QED
  BY <1>2, <1>3, <1>4, <1>8 DEF IntakeInv

LEMMA RemoveInv ==
    ASSUME IntakeInv, NEW a \in Attempts, Remove(a) PROVE IntakeInv'
<1>a. /\ IntakeTypeOK /\ RefusedHasBegun
      /\ \A x \in Attempts : StepFacts(x) /\ StopsAtDuplicates(x) /\ Recipient(x)
  BY Facts
<1>1. IntakeTypeOK'
  BY <1>a DEF Remove, outcomeVars, IntakeTypeOK
<1>2. ASSUME NEW x \in Attempts PROVE AttemptInv(x)'
  BY <1>a DEF Remove, outcomeVars, AttemptInv, StepFacts, StopsAtDuplicates, Recipient,
         PastRelay, PastForward, Accepted, LetThrough
<1>3. RefusedHasBegun' /\ Accepted' = Accepted
  BY <1>a DEF Remove, outcomeVars, RefusedHasBegun, Accepted
<1>4. TallyAgrees'
  BY <1>1, <1>3, Counting DEF Remove, outcomeVars
<1> QED
  BY <1>1, <1>2, <1>3, <1>4 DEF IntakeInv

LEMMA ChangeRulesInv ==
    ASSUME IntakeInv, NEW r \in RuleRequests, ChangeRules(r) PROVE IntakeInv'
<1>a. /\ IntakeTypeOK /\ RefusedHasBegun /\ TallyAgrees
      /\ \A x \in Attempts : StepFacts(x) /\ StopsAtDuplicates(x) /\ Recipient(x)
  BY Facts DEF IntakeInv
<1>1. IntakeTypeOK'
  BY <1>a DEF ChangeRules, RuleRequests, outcomeVars, IntakeTypeOK
<1>2. ASSUME NEW x \in Attempts PROVE AttemptInv(x)'
  BY <1>a DEF ChangeRules, outcomeVars, AttemptInv, StepFacts, StopsAtDuplicates, Recipient,
         PastRelay, PastForward, Accepted, LetThrough
<1>3. RefusedHasBegun' /\ TallyAgrees'
  BY <1>a DEF ChangeRules, outcomeVars, RefusedHasBegun, TallyAgrees, Accepted
<1> QED
  BY <1>1, <1>2, <1>3 DEF IntakeInv
----------------------------------------------------------------------------
(* Delivery                                                                *)

IInv == LoopInv /\ IntakeInv

LEMMA IntakeStutters ==
    ASSUME IntakeInv, UNCHANGED intakeVars PROVE IntakeInv'
<1> USE DEF intakeVars, outcomeVars
<1>1. /\ IntakeTypeOK /\ RefusedHasBegun /\ TallyAgrees
      /\ \A x \in Attempts : StepFacts(x) /\ StopsAtDuplicates(x) /\ Recipient(x)
  BY Facts DEF IntakeInv
<1>2. IntakeTypeOK' /\ RefusedHasBegun' /\ TallyAgrees'
  BY <1>1 DEF IntakeTypeOK, RefusedHasBegun, TallyAgrees, Accepted
<1>3. ASSUME NEW x \in Attempts PROVE AttemptInv(x)'
  BY <1>1 DEF AttemptInv, StepFacts, StopsAtDuplicates, Recipient,
         PastRelay, PastForward, Accepted, LetThrough
<1> QED
  BY <1>2, <1>3 DEF IntakeInv

LEMMA StepIInv == IInv /\ [Next]_vars => IInv'
<1> SUFFICES ASSUME IInv, [Next]_vars PROVE IInv'
  OBVIOUS
<1>i. LoopInv /\ IntakeInv
  BY DEF IInv
<1>l. ASSUME LoopNext PROVE LoopInv'
  BY <1>i, <1>l, LoopStepInv
<1>u. ASSUME UNCHANGED loopVars PROVE LoopInv'
  BY <1>l, <1>u DEF LoopNext
<1>1. CASE LoopStep /\ UNCHANGED intakeVars
  BY <1>1, <1>i, <1>l, IntakeStutters DEF LoopNext, IInv
<1>2. ASSUME NEW c \in Conns, SmtpAttempt(c) PROVE IInv'
  <2>1. c \in Attempts
    BY ConnsAreAttempts
  <2> QED
    BY <1>2, <2>1, <1>i, <1>u, EnvelopeInv DEF SmtpAttempt, IInv
<1>3. ASSUME NEW c \in Conns, EndSession(c) PROVE IInv'
  BY <1>3, <1>i, <1>l, IntakeStutters DEF EndSession, LoopNext, IInv
<1>4. ASSUME NEW a \in Attempts, ApiAttempt(a) PROVE IInv'
  BY <1>4, <1>i, <1>u, PostInv DEF ApiAttempt, IInv
<1>5. ASSUME NEW a \in Attempts, Handle(a, a \notin Conns), UNCHANGED loopVars PROVE IInv'
  <2>1. (a \notin Conns) \in BOOLEAN
    OBVIOUS
  <2>2. IntakeInv'
    BY <1>5, <1>i, <2>1, RulesInv, DuplicatesInv, RelayInv, ForwardInv, StoreInv, TagsInv
       DEF Handle
  <2> QED
    BY <1>5, <1>u, <2>2 DEF IInv
<1>6. ASSUME NEW a \in Attempts, Remove(a), UNCHANGED loopVars PROVE IInv'
  BY <1>6, <1>i, <1>u, RemoveInv DEF IInv
<1>7. ASSUME NEW r \in RuleRequests, ChangeRules(r), UNCHANGED loopVars PROVE IInv'
  BY <1>7, <1>i, <1>u, ChangeRulesInv DEF IInv
<1>8. CASE UNCHANGED vars
  BY <1>8, <1>i, <1>u, IntakeStutters DEF vars, IInv
<1>9. CASE Rest
  BY <1>8, <1>9 DEF Rest
<1> QED
  BY <1>1, <1>2, <1>3, <1>4, <1>5, <1>6, <1>7, <1>8, <1>9 DEF Next

LEMMA Invariance == Spec => []IInv
<1>1. Init => IInv
  BY LoopInitInv, IntakeInitInv DEF Init, IInv
<1> QED
  BY <1>1, StepIInv, PTL DEF Spec

\* Every variable of Delivery keeps its type: the loop of Serve and all the attempts.
THEOREM TypeIsOK == Spec => []TypeOK
<1>1. IInv => TypeOK
  BY DEF IInv, LoopInv, IntakeInv, TypeOK
<1> QED
  BY <1>1, Invariance, PTL

\* Serve's semaphore and openSessions count the connections they are for, whatever the
\* limit and however connections end: no slot is lost or given back twice.
THEOREM SlotsAreExact == Spec => []SlotsAreAccounted
<1>1. IInv => SlotsAreAccounted
  BY DEF IInv, LoopInv
<1> QED
  BY <1>1, Invariance, PTL

\* Close stops Serve's loop: one session at most begins after it.
THEOREM CloseStopsTheLoop == Spec => []CloseLetsOneIn
<1>1. IInv => CloseLetsOneIn
  BY DEF IInv, LoopInv
<1> QED
  BY <1>1, Invariance, PTL

\* SaveToDatabase answers 2xx only to what it stored, knew, could not parse, or to what
\* another server answered 2xx.
THEOREM PromisesAreKept == Spec => []AcknowledgedIsKept
<1>1. IInv => AcknowledgedIsKept
  BY DEF IInv, IntakeInv, AttemptInv, StepFacts, AcknowledgedIsKept
<1> QED
  BY <1>1, Invariance, PTL

\* What SaveToDatabase refuses or ignores is neither relayed, forwarded nor stored, and
\* what another server refused is not stored.
THEOREM RefusalsAreFinal == Spec => []RefusedGoesNowhere
<1>1. ASSUME IInv PROVE RefusedGoesNowhere
  <2>1. IntakeTypeOK /\ \A a \in Attempts : StepFacts(a)
    BY <1>1, Facts DEF IInv
  <2>2. stored \subseteq Attempts /\ bounced \subseteq Attempts /\ ignored \subseteq Attempts
    BY <2>1 DEF IntakeTypeOK
  <2> QED
    BY <2>1, <2>2 DEF StepFacts, RefusedGoesNowhere
<1> QED
  BY <1>1, Invariance, PTL

\* IgnoreDuplicateIDs holds for every copy that begins after one was acknowledged.
THEOREM DuplicatesAreIgnored == Spec => []LaterDuplicatesAreIgnored
<1>1. IInv => LaterDuplicatesAreIgnored
  BY DEF IInv, IntakeInv, AttemptInv, StopsAtDuplicates, LaterDuplicatesAreIgnored
<1> QED
  BY <1>1, Invariance, PTL

\* The counters of stats.go agree with the answers, for any number of clients.
THEOREM CountersAgree == Spec => []TallyAgrees
<1>1. IInv => TallyAgrees
  BY DEF IInv, IntakeInv
<1> QED
  BY <1>1, Invariance, PTL

\* Only recipients of the envelope that the relay's lists let through are relayed to, and
\* where errors are passed on an accepted message has gone to all of them.
THEOREM RecipientsAreHonoured == Spec => []RecipientsAreRespected
<1>1. IInv => RecipientsAreRespected
  BY DEF IInv, IntakeInv, AttemptInv, Recipient, PastRelay, PastForward,
     RecipientsAreRespected
<1> QED
  BY <1>1, Invariance, PTL
----------------------------------------------------------------------------
(* The refinement of MessageStore                                          *)

promiseVars == <<kept, stored \ kept, Promised>>

\* An attempt that is answered otherwise than by a promise, or not at all, promises nothing.
LEMMA SamePromises ==
    ASSUME IntakeInv, NEW a \in Attempts, msg' = msg,
           ignored \subseteq ignored', passed \subseteq passed',
           ignored' \union passed' \subseteq ignored \union passed \union {a},
           a \notin Promised, a \notin Promised',
           \A b \in Attempts \ {a} : reply'[b] = reply[b]
    PROVE  Promised' = Promised
BY DEF Promised

LEMMA HandlePromises ==
    ASSUME IntakeInv, NEW a \in Attempts, NEW overHTTP, Handle(a, overHTTP)
    PROVE  [Promise!Next]_promiseVars
<1>1. IntakeTypeOK /\ StepFacts(a)
  BY Facts
<1>2. msg' = msg
  BY DEF Handle, Rules, Duplicates, Relay, Forward, Store, Tags
<1>3. step[a] # "done" /\ reply[a] = "none" /\ a \notin ignored \union passed /\ a \notin Promised
  BY <1>1 DEF Handle, Rules, Duplicates, Relay, Forward, Store, Tags, StepFacts, Promised
<1>4. \A b \in Attempts \ {a} : reply'[b] = reply[b]
  BY <1>1 DEF Handle, Rules, Duplicates, Relay, Forward, Store, Tags, Answer, PassOn, IntakeTypeOK
<1>5. CASE Rules(a)
  <2>1. reply' = reply \/ reply'[a] \in {"4xx", "5xx"}
    BY <1>1, <1>5, VerdictType DEF Rules, Answer, IntakeTypeOK
  <2>2. UNCHANGED <<kept, stored, ignored, passed>>
    BY <1>5 DEF Rules
  <2>3. a \notin Promised'
    BY <1>3, <2>1 DEF Promised
  <2> QED
    BY <1>2, <1>3, <1>4, <2>2, <2>3, SamePromises DEF promiseVars
<1>6. CASE Duplicates(a)
  <2>1. UNCHANGED <<kept, stored, passed>> /\ (reply' = reply \/ a \in ignored')
    BY <1>6 DEF Duplicates
  <2>2. ignored' = ignored \/ ignored' = ignored \union {a}
    BY <1>6 DEF Duplicates
  <2>3. a \notin Promised'
    BY <1>3, <2>1 DEF Promised
  <2> QED
    BY <1>2, <1>3, <1>4, <2>1, <2>2, <2>3, SamePromises DEF promiseVars
<1>7. CASE Relay(a, overHTTP) \/ Forward(a, overHTTP)
  <2>1. UNCHANGED <<kept, stored, ignored>> /\ (reply' = reply \/ a \in passed')
    BY <1>7 DEF Relay, Forward, PassOn
  <2>2. passed' = passed \/ passed' = passed \union {a}
    BY <1>7 DEF Relay, Forward, PassOn
  <2>3. a \notin Promised'
    BY <1>3, <2>1 DEF Promised
  <2> QED
    BY <1>2, <1>3, <1>4, <2>1, <2>2, <2>3, SamePromises DEF promiseVars
<1>8. CASE Store(a)
  <2>1. UNCHANGED <<ignored, passed>> /\ a \notin stored
    BY <1>1, <1>8 DEF Store, StepFacts
  <2>2. reply' = reply \/ reply'[a] = "4xx" \/ msg[a].form = "odd"
    BY <1>1, <1>8 DEF Store, Answer, IntakeTypeOK
  <2>3. a \notin Promised'
    BY <1>2, <1>3, <2>2 DEF Promised
  <2>4. Promised' = Promised
    BY <1>2, <1>3, <1>4, <2>1, <2>3, SamePromises
  <2>5. CASE UNCHANGED <<kept, stored>>
    BY <2>4, <2>5 DEF promiseVars
  <2>6. CASE kept' = kept \union {a} /\ stored' = stored \union {a}
    <3>1. kept \subseteq stored
      BY <1>1 DEF IntakeTypeOK
    <3>2. a \notin kept \union (stored \ kept) /\ stored' \ kept' = stored \ kept
      BY <2>1, <2>6, <3>1
    <3> QED
      BY <2>4, <2>6, <3>2 DEF Promise!Next, Promise!Add
  <2> QED
    BY <1>8, <2>5, <2>6 DEF Store
<1>9. CASE Tags(a)
  <2>1. UNCHANGED <<kept, stored, ignored, passed>> /\ a \in stored
    BY <1>1, <1>9 DEF Tags, outcomeVars, StepFacts
  <2>2. reply'[a] \in {"2xx", "4xx"}
    BY <1>1, <1>9 DEF Tags, Answer, IntakeTypeOK
  <2>3. Promised' = Promised \/ Promised' = Promised \union {a}
    <3>1. \A b \in Attempts \ {a} : b \in Promised' <=> b \in Promised
      BY <1>2, <1>4, <2>1 DEF Promised
    <3>2. Promised' \subseteq Attempts /\ Promised \subseteq Attempts
      BY DEF Promised
    <3> QED
      BY <1>3, <3>1, <3>2
  <2>4. a \in kept \union (stored \ kept) /\ stored' \ kept' = stored \ kept
    BY <2>1
  <2>5. CASE Promised' = Promised
    BY <2>1, <2>5 DEF promiseVars
  <2>6. CASE Promised' = Promised \union {a}
    <3>1. Promise!Acknowledge(a)
      BY <2>1, <2>4, <2>6 DEF Promise!Acknowledge
    <3> QED
      BY <3>1 DEF Promise!Next
  <2> QED
    BY <2>3, <2>5, <2>6
<1> QED
  BY <1>5, <1>6, <1>7, <1>8, <1>9 DEF Handle

LEMMA StepPromises ==
    ASSUME IInv, [Next]_vars PROVE [Promise!Next]_promiseVars
<1>1. IntakeInv /\ IntakeTypeOK
  BY Facts DEF IInv
<1>2. CASE UNCHANGED <<kept, stored, reply, ignored, passed, msg>>
  BY <1>2 DEF promiseVars, Promised
<1>3. CASE UNCHANGED vars \/ UNCHANGED intakeVars
  BY <1>2, <1>3 DEF vars, intakeVars, outcomeVars
<1>4. ASSUME NEW a \in Attempts, Envelope(a) \/ Post(a) PROVE [Promise!Next]_promiseVars
  BY <1>2, <1>4 DEF Envelope, Post
<1>5. ASSUME NEW a \in Attempts, Handle(a, a \notin Conns) PROVE [Promise!Next]_promiseVars
  BY <1>1, <1>5, HandlePromises
<1>6. ASSUME NEW a \in Attempts, Remove(a) PROVE [Promise!Next]_promiseVars
  <2>1. UNCHANGED <<reply, ignored, passed, msg, stored>> /\ a \in kept /\ kept' = kept \ {a}
    BY <1>6 DEF Remove, outcomeVars
  <2>2. Promised' = Promised
    BY <2>1 DEF Promised
  <2>3. stored' \ kept' = (stored \ kept) \union {a}
    BY <1>1, <2>1 DEF IntakeTypeOK
  <2>4. Promise!Remove({a})
    BY <2>1, <2>2, <2>3 DEF Promise!Remove
  <2> QED
    BY <2>1, <2>4 DEF Promise!Next
<1>7. ASSUME NEW r \in RuleRequests, ChangeRules(r) PROVE [Promise!Next]_promiseVars
  BY <1>2, <1>7 DEF ChangeRules, outcomeVars
<1>8. CASE Rest
  BY <1>3, <1>8 DEF Rest
<1>9. ASSUME NEW c \in Conns, SmtpAttempt(c) \/ EndSession(c) PROVE [Promise!Next]_promiseVars
  <2>1. c \in Attempts
    BY ConnsAreAttempts
  <2> QED
    BY <1>3, <1>4, <1>9, <2>1 DEF SmtpAttempt, EndSession
<1> QED
  BY <1>3, <1>4, <1>5, <1>6, <1>7, <1>8, <1>9 DEF Next, ApiAttempt

\* What Mailbox promises to SaveToDatabase the server promises to its clients: whatever
\* attempts overlap, fail, are relayed or repeated, its 2xx is a MessageStore's acknowledgement.
THEOREM ServerKeepsThePromise == Spec => ImplementsMessageStore
<1>1. Init => Promise!Init
  BY DEF Init, IntakeInit, Promise!Init, Promised
<1>2. IInv /\ [Next]_vars => [Promise!Next]_promiseVars
  BY StepPromises
<1>3. promiseVars = Promise!vars
  BY DEF promiseVars, Promise!vars
<1> QED
  BY <1>1, <1>2, <1>3, Invariance, PTL
  DEF Spec, ImplementsMessageStore, Promise!StoreSpec, Promise!vars, promiseVars
============================================================================
