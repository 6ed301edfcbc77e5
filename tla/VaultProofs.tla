----------------------------- MODULE VaultProofs -----------------------------
(***************************************************************************)
(* Proofs about the vault handlers, for any keys, any number of requests   *)
(* and of uploads.  The invariant says of each request what its calls so   *)
(* far have made true of the places it works on; a request that nobody     *)
(* disturbed finds those places as it left them.                           *)
(***************************************************************************)
EXTENDS Vault, TLAPS

Source(r) == bucket[InVault(op[r].key)]
Moves(r) == op[r].kind \in {"copy", "rename"}

\* How far an undisturbed copy or rename has come.
MoveOf(r) ==
    Undisturbed(r) /\ seen[r] # Absent /\ Moves(r) =>
        /\ step[r] = "found" => Source(r) = seen[r]
        /\ step[r] = "copied" =>
             /\ Source(r) = seen[r]
             /\ bucket[op[r].to] = seen[r]
        /\ ~Running(r) =>
             /\ seen[r] \in {Source(r), bucket[op[r].to]}
             /\ op[r].kind = "rename" /\ answer[r].status = 200 =>
                    Source(r) = Absent /\ bucket[op[r].to] = seen[r]

StepOf(r) ==
    /\ step[r] = "new" =>
         r \notin disturbed /\ answer[r].status = 0 /\ seen[r] = Absent
    /\ Running(r) =>
         /\ Source(r) \in held[r]
         /\ seen[r] \in held[r]
         /\ answer[r].status = 0
    /\ step[r] = "found" => seen[r] # Absent
    /\ step[r] = "absent" => seen[r] = Absent
    /\ step[r] = "copied" =>
         /\ op[r].kind = "rename"
         /\ seen[r] # Absent
         /\ answer[r].object \in held[r] \ {Absent}
         /\ op[r].to # InVault(op[r].key)

VInv ==
    /\ TypeOK
    /\ \A r \in Requests : StepOf(r) /\ AnswerWasTrue(r) /\ MoveOf(r)

-----------------------------------------------------------------------------

LEMMA OpTypes ==
    ASSUME TypeOK, NEW r \in Requests
    PROVE  /\ op[r].kind \in {"preview", "delete", "copy", "rename"}
           /\ op[r].key \in Keys
           /\ InVault(op[r].key) \in Places
           /\ Moves(r) => op[r].to \in Places
           /\ InVault(op[r].key) \in WorksOn(r)
           /\ Moves(r) => op[r].to \in WorksOn(r)
  BY DEF TypeOK, Ops, InVault, Places, Buckets, Moves, WorksOn

\* What a write does to its place, and to those who work there.
LEMMA WriteEffect ==
    ASSUME TypeOK, NEW p \in Places, NEW v \in 0..MaxVersion, NEW writers,
           Write(p, v, writers)
    PROVE  /\ bucket' \in [Places -> 0..MaxVersion]
           /\ disturbed' \subseteq Requests
           /\ held' \in [Requests -> SUBSET (0..MaxVersion)]
           /\ bucket'[p] = v
           /\ \A o \in Places : o # p => bucket'[o] = bucket[o]
           /\ \A q \in Requests :
                /\ held[q] \subseteq held'[q]
                /\ ~Running(q) => held'[q] = held[q]
                /\ q \notin disturbed' =>
                     /\ q \notin disturbed
                     /\ q \in writers \/ step[q] = "new" \/ p \notin WorksOn(q)
                /\ step[q] = "new" => q \in disturbed' <=> q \in disturbed
                /\ Running(q) /\ q \notin writers /\ p = InVault(op[q].key) =>
                     v \in held'[q]
  BY DEF TypeOK, Write

\* A request that neither writes nor takes a step keeps its part.
LEMMA OthersKept ==
    ASSUME VInv, NEW p \in Places, NEW v \in 0..MaxVersion, NEW writers,
           Write(p, v, writers), NEW q \in Requests, q \notin writers,
           op' = op, step'[q] = step[q], seen'[q] = seen[q],
           answer'[q] = answer[q]
    PROVE  StepOf(q)' /\ AnswerWasTrue(q)' /\ MoveOf(q)'
<1>1. TypeOK /\ StepOf(q) /\ AnswerWasTrue(q) /\ MoveOf(q)
  BY DEF VInv
<1>2. /\ InVault(op[q].key) \in Places
      /\ Moves(q) => op[q].to \in Places
      /\ InVault(op[q].key) \in WorksOn(q)
      /\ Moves(q) => op[q].to \in WorksOn(q)
  BY <1>1, OpTypes
<1>3. /\ bucket'[p] = v
      /\ \A o \in Places : o # p => bucket'[o] = bucket[o]
      /\ held[q] \subseteq held'[q]
      /\ q \notin disturbed' =>
           q \notin disturbed /\ (step[q] = "new" \/ p \notin WorksOn(q))
      /\ step[q] = "new" => q \in disturbed' <=> q \in disturbed
      /\ Running(q) /\ p = InVault(op[q].key) => v \in held'[q]
  BY <1>1, WriteEffect
<1>4. InVault(op[q].key)' = InVault(op[q].key)
  BY DEF InVault
<1>5. StepOf(q)'
  BY <1>1, <1>2, <1>3, <1>4 DEF StepOf, Source, Running
<1>6. AnswerWasTrue(q)'
  BY <1>1, <1>3 DEF AnswerWasTrue
<1>7. MoveOf(q)'
  BY <1>1, <1>2, <1>3, <1>4 DEF MoveOf, Source, Running, Undisturbed, Moves
<1> QED
  BY <1>5, <1>6, <1>7

-----------------------------------------------------------------------------
(* Steps that write nothing change one request, or stop the running ones.  *)

ReqInv(r) == StepOf(r) /\ AnswerWasTrue(r) /\ MoveOf(r)

\* A request of which nothing changes, in a bucket that stays as it is.
LEMMA Kept ==
    ASSUME VInv, NEW q \in Requests, bucket' = bucket, op' = op,
           disturbed' = disturbed, held'[q] = held[q], step'[q] = step[q],
           seen'[q] = seen[q], answer'[q] = answer[q]
    PROVE  ReqInv(q)'
<1>1. InVault(op[q].key)' = InVault(op[q].key)
  BY DEF InVault
<1> QED
  BY <1>1 DEF VInv, ReqInv, StepOf, AnswerWasTrue, MoveOf, Source, Running,
              Undisturbed, Moves

\* head() begins a request's time.
LEMMA HeadStep ==
    ASSUME VInv, NEW r \in Requests, HeadFinds(r)
    PROVE  VInv'
<1> DEFINE v == Source(r)
<1>1. TypeOK /\ StepOf(r) /\ AnswerWasTrue(r)
  BY DEF VInv
<1>2. /\ v \in 0..MaxVersion
      /\ step[r] = "new"
      /\ seen' = [seen EXCEPT ![r] = v]
      /\ held' = [held EXCEPT ![r] = {v}]
      /\ step' = [step EXCEPT ![r] = IF v = Absent THEN "absent" ELSE "found"]
      /\ bucket' = bucket /\ uploaded' = uploaded /\ op' = op
      /\ answer' = answer /\ disturbed' = disturbed
  BY <1>1, OpTypes DEF HeadFinds, Source, TypeOK, providerVars
<1>3. InVault(op[r].key)' = InVault(op[r].key)
  BY <1>2 DEF InVault
<1> HIDE DEF v
<1>4. TypeOK'
  BY <1>1, <1>2 DEF TypeOK, Steps
<1>5. ReqInv(r)'
  <2>1. /\ Source(r)' = v
        /\ seen'[r] = v /\ held'[r] = {v} /\ answer'[r].status = 0
        /\ step'[r] = IF v = Absent THEN "absent" ELSE "found"
    BY <1>1, <1>2, <1>3 DEF StepOf, Source, TypeOK, v
  <2> QED
    BY <2>1 DEF ReqInv, StepOf, AnswerWasTrue, MoveOf, Running, Absent
<1>6. ASSUME NEW q \in Requests, q # r PROVE ReqInv(q)'
  BY <1>1, <1>2, <1>6, Kept DEF TypeOK
<1> QED
  BY <1>4, <1>5, <1>6 DEF VInv, ReqInv

\* An answer that writes nothing.
Quiet(r, c, s, o) ==
    /\ step' = [step EXCEPT ![r] = s]
    /\ answer' = [answer EXCEPT ![r] = Reply(c, o, FALSE)]
    /\ UNCHANGED <<providerVars, op, seen, historyVars>>

LEMMA QuietFinish ==
    ASSUME VInv, NEW r \in Requests, NEW c \in {404, 413, 200, 502},
           NEW s \in {"done", "failed"}, NEW o \in 0..MaxVersion,
           step[r] = "new" \/ Running(r),
           step[r] = "new" => c = 502,
           Quiet(r, c, s, o),
           c = 404 => Absent \in held[r],
           c = 413 => \E v \in held[r] : v # Absent /\ TooLarge(v),
           c = 200 => o \in held[r] \ {Absent} /\ op[r].kind = "preview"
    PROVE  VInv'
<1>1. TypeOK /\ StepOf(r) /\ MoveOf(r)
  BY DEF VInv
<1>2. /\ bucket' = bucket /\ uploaded' = uploaded /\ op' = op
      /\ seen' = seen /\ disturbed' = disturbed /\ held' = held
      /\ step' = [step EXCEPT ![r] = s] /\ step'[r] = s
      /\ answer' = [answer EXCEPT ![r] = Reply(c, o, FALSE)]
      /\ answer'[r].status = c /\ answer'[r].object = o
      /\ Reply(c, o, FALSE) \in Answers
  BY <1>1 DEF Quiet, providerVars, historyVars, Reply, Answers, TypeOK
<1>3. InVault(op[r].key)' = InVault(op[r].key)
  BY <1>2 DEF InVault
<1>4. TypeOK'
  BY <1>1, <1>2 DEF TypeOK, Steps
<1>5. ReqInv(r)'
  <2>1. StepOf(r)'
    BY <1>2 DEF StepOf, Running
  <2>2. AnswerWasTrue(r)'
    <3>1. /\ answer'[r].status = c /\ answer'[r].object = o
          /\ held'[r] = held[r] /\ op'[r] = op[r]
      BY <1>2
    <3>2. /\ c = 404 => Absent \in held'[r]
          /\ c = 413 => \E v \in held'[r] : v # Absent /\ TooLarge(v)
          /\ c = 200 => o \in held'[r] \ {Absent}
          /\ c = 200 => op'[r].kind # "delete"
      BY <3>1
    <3> HIDE DEF Absent
    <3> QED
      BY ONLY <3>1, <3>2 DEF AnswerWasTrue
  <2>3. MoveOf(r)'
    <3>1. /\ Source(r)' = Source(r)
          /\ bucket'[op'[r].to] = bucket[op[r].to]
          /\ op'[r] = op[r] /\ seen'[r] = seen[r]
          /\ r \in disturbed' <=> r \in disturbed
          /\ ~Running(r)' /\ step'[r] # "found" /\ step'[r] # "copied"
      BY <1>2, <1>3 DEF Source, Running
    <3>2. answer'[r].status = 200 => op[r].kind # "rename"
      BY <1>2
    <3>3. seen[r] # Absent => step[r] \in {"found", "copied"}
      BY <1>1 DEF StepOf, Running
    <3> QED
      BY <1>1, <3>1, <3>2, <3>3 DEF MoveOf, Undisturbed, Moves
  <2> QED
    BY <2>1, <2>2, <2>3 DEF ReqInv
<1>6. ASSUME NEW q \in Requests, q # r PROVE ReqInv(q)'
  <2>1. /\ step'[q] = step[q] /\ answer'[q] = answer[q]
        /\ held'[q] = held[q] /\ seen'[q] = seen[q]
    BY <1>2, <1>6
  <2> QED
    BY ONLY VInv, <1>2, <1>6, <2>1, Kept
<1> QED
  BY <1>4, <1>5, <1>6 DEF VInv, ReqInv

\* A crash ends the running requests where they are.
LEMMA CrashStep == ASSUME VInv, Crash PROVE VInv'
<1>1. TypeOK
  BY DEF VInv
<1>2. /\ bucket' = bucket /\ uploaded' = uploaded /\ op' = op
      /\ seen' = seen /\ disturbed' = disturbed /\ held' = held
      /\ answer' = answer
      /\ step' = [r \in Requests |->
                    IF Running(r) THEN "crashed" ELSE step[r]]
  BY DEF Crash, providerVars, historyVars
<1>3. TypeOK'
  BY <1>1, <1>2 DEF TypeOK, Steps
<1>4. ASSUME NEW q \in Requests PROVE ReqInv(q)'
  <2>1. CASE ~Running(q)
    BY <1>2, <2>1, Kept
  <2>2. CASE Running(q)
    <3>1. step'[q] = "crashed" /\ StepOf(q) /\ MoveOf(q) /\ AnswerWasTrue(q)
      BY <1>2, <2>2 DEF VInv
    <3>2. InVault(op[q].key)' = InVault(op[q].key)
      BY <1>2 DEF InVault
    <3> QED
      BY <1>2, <2>2, <3>1, <3>2
         DEF ReqInv, StepOf, AnswerWasTrue, MoveOf, Running, Source,
             Undisturbed, Moves
  <2> QED
    BY <2>1, <2>2
<1> QED
  BY <1>3, <1>4 DEF VInv, ReqInv

-----------------------------------------------------------------------------
(* Steps that write.                                                       *)

\* A write that finishes or advances r: everybody else keeps his part.
LEMMA WriterStep ==
    ASSUME VInv, NEW r \in Requests, NEW p \in Places,
           NEW v \in 0..MaxVersion, Write(p, v, {r}),
           NEW s \in Steps, NEW a \in Answers,
           step' = [step EXCEPT ![r] = s],
           answer' = [answer EXCEPT ![r] = a],
           uploaded' = uploaded, op' = op, seen' = seen,
           ReqInv(r)'
    PROVE  VInv'
<1>1. TypeOK
  BY DEF VInv
<1>2. TypeOK'
  <2>1. /\ bucket' \in [Places -> 0..MaxVersion]
        /\ disturbed' \subseteq Requests
        /\ held' \in [Requests -> SUBSET (0..MaxVersion)]
    BY <1>1, WriteEffect
  <2> QED
    BY <1>1, <2>1 DEF TypeOK
<1>3. ASSUME NEW q \in Requests, q # r PROVE ReqInv(q)'
  <2>1. /\ step'[q] = step[q] /\ answer'[q] = answer[q]
        /\ seen'[q] = seen[q] /\ q \notin {r}
    BY <1>1, <1>3 DEF TypeOK
  <2> QED
    BY ONLY VInv, Write(p, v, {r}), p \in Places, v \in 0..MaxVersion,
            op' = op, <1>3, <2>1, OthersKept DEF ReqInv
<1> QED
  BY <1>2, <1>3 DEF VInv, ReqInv

LEMMA UploadStep == ASSUME VInv, NEW k \in Keys, Upload(k) PROVE VInv'
<1>1. TypeOK /\ uploaded' \in 0..MaxVersion
  BY MaxVersionAssumption DEF VInv, Upload, TypeOK
<1>2. /\ InVault(k) \in Places
      /\ Write(InVault(k), uploaded', {})
      /\ op' = op /\ step' = step /\ seen' = seen /\ answer' = answer
  BY DEF Upload, InVault, Places, Buckets, requestVars
<1>3. TypeOK'
  <2>1. /\ bucket' \in [Places -> 0..MaxVersion]
        /\ disturbed' \subseteq Requests
        /\ held' \in [Requests -> SUBSET (0..MaxVersion)]
    BY <1>1, <1>2, WriteEffect
  <2> QED
    BY <1>1, <1>2, <2>1 DEF TypeOK
<1>4. ASSUME NEW q \in Requests PROVE ReqInv(q)'
  BY <1>1, <1>2, OthersKept DEF ReqInv
<1> QED
  BY <1>3, <1>4 DEF VInv, ReqInv

LEMMA DeleteStep == ASSUME VInv, NEW r \in Requests, DeleteOne(r) PROVE VInv'
<1> DEFINE a == Reply(200, Absent, Warned(r))
<1>1. TypeOK /\ StepOf(r) /\ Running(r)
  BY DEF VInv, DeleteOne, Running
<1>2. /\ InVault(op[r].key) \in Places
      /\ Absent \in 0..MaxVersion
      /\ a \in Answers /\ a.status = 200 /\ a.warned = (seen[r] = Absent)
  BY <1>1, OpTypes, MaxVersionAssumption
     DEF Reply, Answers, Warned, Absent
<1>3. /\ op[r].kind = "delete"
      /\ Write(InVault(op[r].key), Absent, {r})
      /\ step' = [step EXCEPT ![r] = "done"]
      /\ answer' = [answer EXCEPT ![r] = a]
      /\ uploaded' = uploaded /\ op' = op /\ seen' = seen
  BY DEF DeleteOne, Finish
<1> HIDE DEF a
<1>4. held[r] \subseteq held'[r]
  BY <1>1, <1>2, <1>3, WriteEffect
<1>5. /\ step'[r] = "done" /\ answer'[r] = a /\ op'[r] = op[r]
      /\ seen[r] \in held'[r]
  BY <1>1, <1>3, <1>4 DEF StepOf, TypeOK
<1>6. ReqInv(r)'
  <2>1. StepOf(r)'
    BY <1>5 DEF StepOf, Running
  <2>2. AnswerWasTrue(r)'
    BY ONLY <1>2, <1>3, <1>5 DEF AnswerWasTrue
  <2>3. MoveOf(r)'
    BY <1>3, <1>5 DEF MoveOf, Moves
  <2> QED
    BY <2>1, <2>2, <2>3 DEF ReqInv
<1> QED
  BY ONLY VInv, r \in Requests, <1>2, <1>3, <1>6, WriterStep DEF Steps

LEMMA CopyStep == ASSUME VInv, NEW r \in Requests, CopyLands(r) PROVE VInv'
<1> DEFINE v == Source(r)
           s == IF op[r].kind = "rename" THEN "copied" ELSE "done"
           a == IF op[r].kind = "rename"
                THEN [status |-> 0, object |-> v, warned |-> answer[r].warned]
                ELSE Reply(200, v, FALSE)
<1>1. TypeOK /\ StepOf(r) /\ MoveOf(r) /\ Running(r)
  BY DEF VInv, CopyLands, Running
<1>2. /\ InVault(op[r].key) \in Places
      /\ op[r].to \in Places
      /\ v \in 0..MaxVersion
      /\ a \in Answers /\ a.object = v
      /\ op[r].kind = "copy" => a.status = 200
      /\ op[r].kind = "rename" => a.status = 0
      /\ s \in Steps
  <2>1. InVault(op[r].key) \in Places /\ op[r].to \in Places
    BY <1>1, OpTypes DEF CopyLands, Moves
  <2>2. v \in 0..MaxVersion
    BY <1>1, <2>1 DEF Source, TypeOK
  <2>3. answer[r] \in Answers /\ answer[r].status = 0
    BY <1>1 DEF TypeOK, StepOf
  <2>4. answer[r].warned \in BOOLEAN
    BY <2>3 DEF Answers
  <2> QED
    BY <2>1, <2>2, <2>4 DEF Answers, Steps, Reply
<1>3. /\ op[r].kind \in {"copy", "rename"}
      /\ step[r] = "found" /\ op[r].to # InVault(op[r].key) /\ v # Absent
      /\ Write(op[r].to, v, {r})
      /\ step' = [step EXCEPT ![r] = s]
      /\ uploaded' = uploaded /\ op' = op /\ seen' = seen
  BY DEF CopyLands, Finish, Source
<1>4. answer' = [answer EXCEPT ![r] = a]
  <2>1. answer[r] \in Answers /\ answer[r].status = 0
    BY <1>1 DEF TypeOK, StepOf
  <2>2. CASE op[r].kind = "rename"
    <3>1. answer' = [answer EXCEPT ![r].object = v]
      BY <2>2 DEF CopyLands, Source
    <3>2. [answer[r] EXCEPT !.object = v] = a
      BY <2>1, <2>2 DEF Answers
    <3> QED
      BY <3>1, <3>2
  <2>3. CASE op[r].kind = "copy"
    BY <2>3 DEF CopyLands, Source, Finish
  <2> QED
    BY <1>3, <2>2, <2>3
<1> HIDE DEF a
<1>5. /\ step'[r] = s /\ answer'[r] = a /\ op'[r] = op[r]
      /\ seen'[r] = seen[r]
      /\ InVault(op[r].key)' = InVault(op[r].key)
      /\ Source(r)' = v /\ bucket'[op[r].to] = v
      /\ v \in held'[r] /\ seen[r] \in held'[r]
      /\ r \notin disturbed' => r \notin disturbed
  <2>1. /\ bucket'[op[r].to] = v
        /\ \A o \in Places : o # op[r].to => bucket'[o] = bucket[o]
        /\ held[r] \subseteq held'[r]
        /\ r \notin disturbed' => r \notin disturbed
    BY <1>1, <1>2, <1>3, WriteEffect
  <2>2. InVault(op[r].key)' = InVault(op[r].key)
    BY <1>3 DEF InVault
  <2>3. Source(r)' = v
    BY <1>2, <1>3, <2>1, <2>2 DEF Source
  <2>4. step'[r] = s /\ answer'[r] = a /\ op'[r] = op[r] /\ seen'[r] = seen[r]
    BY <1>1, <1>3, <1>4 DEF TypeOK
  <2>5. v \in held[r] /\ seen[r] \in held[r]
    BY <1>1 DEF StepOf
  <2> QED
    BY <2>1, <2>2, <2>3, <2>4, <2>5
<1> HIDE DEF v
<1>6. ReqInv(r)'
  <2>1. StepOf(r)'
    BY <1>1, <1>2, <1>3, <1>5 DEF StepOf, Running
  <2>2. AnswerWasTrue(r)'
    BY <1>2, <1>3, <1>5 DEF AnswerWasTrue
  <2>3. MoveOf(r)'
    <3>1. r \notin disturbed' /\ seen[r] # Absent => v = seen[r]
      BY <1>1, <1>3, <1>5 DEF MoveOf, Undisturbed, Moves, v
    <3> QED
      BY <1>2, <1>3, <1>5, <3>1 DEF MoveOf, Undisturbed, Moves, Running
  <2> QED
    BY <2>1, <2>2, <2>3 DEF ReqInv
<1> HIDE DEF s
<1> QED
  BY ONLY VInv, r \in Requests, <1>2, <1>3, <1>4, <1>6, WriterStep

LEMMA DeleteSourceStep ==
    ASSUME VInv, NEW r \in Requests, DeleteSource(r) PROVE VInv'
<1> DEFINE a == Reply(200, answer[r].object, FALSE)
           p == InVault(op[r].key)
<1>1. TypeOK /\ StepOf(r) /\ MoveOf(r) /\ Running(r)
  BY DEF VInv, DeleteSource, Running
<1>2. /\ op[r].kind = "rename" /\ step[r] = "copied"
      /\ Write(p, Absent, {r})
      /\ step' = [step EXCEPT ![r] = "done"]
      /\ answer' = [answer EXCEPT ![r] = a]
      /\ uploaded' = uploaded /\ op' = op /\ seen' = seen
  BY DEF DeleteSource, Finish
<1>3. /\ p \in Places /\ op[r].to \in Places /\ op[r].to # p
      /\ Absent \in 0..MaxVersion
      /\ a \in Answers /\ a.status = 200
      /\ a.object \in held[r] \ {Absent}
  <2>1. p \in Places /\ op[r].to \in Places
    BY <1>1, <1>2, OpTypes DEF Moves
  <2>2. op[r].to # p /\ answer[r].object \in held[r] \ {Absent}
    BY <1>1, <1>2 DEF StepOf
  <2>3. answer[r].object \in 0..MaxVersion
    BY <1>1 DEF TypeOK, Answers
  <2>4. Absent \in 0..MaxVersion
    BY MaxVersionAssumption DEF Absent
  <2> QED
    BY <2>1, <2>2, <2>3, <2>4 DEF Reply, Answers
<1> HIDE DEF a
<1>4. /\ step'[r] = "done" /\ answer'[r] = a /\ op'[r] = op[r]
      /\ seen'[r] = seen[r]
      /\ Source(r)' = Absent /\ bucket'[op[r].to] = bucket[op[r].to]
      /\ held[r] \subseteq held'[r]
      /\ r \notin disturbed' => r \notin disturbed
  <2>1. /\ bucket'[p] = Absent
        /\ \A o \in Places : o # p => bucket'[o] = bucket[o]
        /\ held[r] \subseteq held'[r]
        /\ r \notin disturbed' => r \notin disturbed
    BY <1>1, <1>2, <1>3, WriteEffect
  <2>2. InVault(op[r].key)' = p
    BY <1>2 DEF InVault
  <2>3. Source(r)' = Absent
    BY <2>1, <2>2 DEF Source
  <2>4. step'[r] = "done" /\ answer'[r] = a /\ op'[r] = op[r]
        /\ seen'[r] = seen[r]
    BY <1>1, <1>2 DEF TypeOK
  <2> QED
    BY <1>3, <2>1, <2>3, <2>4
<1>5. ReqInv(r)'
  <2>1. StepOf(r)'
    BY <1>4 DEF StepOf, Running
  <2>2. AnswerWasTrue(r)'
    BY <1>2, <1>3, <1>4 DEF AnswerWasTrue
  <2>3. MoveOf(r)'
    <3>1. r \notin disturbed' /\ seen[r] # Absent => bucket[op[r].to] = seen[r]
      BY <1>1, <1>2, <1>4 DEF MoveOf, Undisturbed, Moves
    <3> QED
      BY <1>2, <1>4, <3>1 DEF MoveOf, Undisturbed, Moves, Running
  <2> QED
    BY <2>1, <2>2, <2>3 DEF ReqInv
<1>6. "done" \in Steps
  BY DEF Steps
<1> HIDE DEF p
<1> QED
  BY ONLY VInv, r \in Requests, <1>2, <1>3, <1>5, <1>6, WriterStep

-----------------------------------------------------------------------------
(* The steps together.                                                     *)

LEMMA InitVInv == Init => VInv
<1> SUFFICES ASSUME Init PROVE VInv
  OBVIOUS
<1>1. TypeOK
  BY MaxVersionAssumption
     DEF Init, TypeOK, Steps, Answers, NoAnswer, Absent
<1>2. ASSUME NEW r \in Requests PROVE ReqInv(r)
  BY DEF Init, ReqInv, StepOf, AnswerWasTrue, MoveOf, Running, Undisturbed,
         NoAnswer
<1> QED
  BY <1>1, <1>2 DEF VInv, ReqInv

LEMMA QuietSteps ==
    ASSUME VInv, NEW r \in Requests,
           \/ AnswersNotFound(r) \/ ProviderFails(r)
           \/ PreviewRefuses(r) \/ PreviewDownloads(r) \/ CopyFindsNothing(r)
    PROVE  VInv'
<1>1. TypeOK /\ StepOf(r)
  BY DEF VInv
<1>2. Absent \in 0..MaxVersion
  BY MaxVersionAssumption DEF Absent
<1>3. CASE AnswersNotFound(r)
  <2>1. Running(r) /\ Absent \in held[r] /\ step[r] # "new"
    BY <1>1, <1>3 DEF AnswersNotFound, Running, StepOf
  <2>2. Quiet(r, 404, "done", Absent)
    BY <1>3 DEF AnswersNotFound, Finish, Quiet
  <2> QED
    BY ONLY VInv, r \in Requests, <1>2, <2>1, <2>2, QuietFinish
<1>4. CASE ProviderFails(r)
  <2>1. Quiet(r, 502, "failed", Absent) /\ (step[r] = "new" \/ Running(r))
    BY <1>4 DEF ProviderFails, Quiet
  <2> QED
    BY ONLY VInv, r \in Requests, <1>2, <2>1, QuietFinish
<1>5. CASE PreviewRefuses(r)
  <2>1. /\ Running(r) /\ step[r] # "new"
        /\ \E v \in held[r] : v # Absent /\ TooLarge(v)
    BY <1>1, <1>5 DEF PreviewRefuses, Running, StepOf
  <2>2. Quiet(r, 413, "done", Absent)
    BY <1>5 DEF PreviewRefuses, Finish, Quiet
  <2> QED
    BY ONLY VInv, r \in Requests, <1>2, <2>1, <2>2, QuietFinish
<1>6. CASE PreviewDownloads(r)
  <2> DEFINE v == Source(r)
  <2>1. Running(r) /\ step[r] # "new" /\ v \in held[r] /\ v \in 0..MaxVersion
    BY <1>1, <1>6, OpTypes
       DEF PreviewDownloads, Running, StepOf, TypeOK, Source
  <2>2. CASE v = Absent
    <3>1. Quiet(r, 404, "done", Absent)
      BY <1>6, <2>2 DEF PreviewDownloads, Finish, Source, Quiet
    <3> HIDE DEF v
    <3> QED
      BY ONLY VInv, r \in Requests, <1>2, <2>1, <2>2, <3>1, QuietFinish
  <2>3. CASE v # Absent
    <3>1. Quiet(r, 200, "done", v) /\ op[r].kind = "preview"
      BY <1>6, <2>3 DEF PreviewDownloads, Finish, Source, Quiet
    <3> HIDE DEF v
    <3> QED
      BY ONLY VInv, r \in Requests, <2>1, <2>3, <3>1, QuietFinish
  <2> QED
    BY <2>2, <2>3
<1>7. CASE CopyFindsNothing(r)
  <2>1. Running(r) /\ Absent \in held[r] /\ step[r] # "new"
    BY <1>1, <1>7 DEF CopyFindsNothing, Running, StepOf, Source
  <2>2. Quiet(r, 404, "done", Absent)
    BY <1>7 DEF CopyFindsNothing, Finish, Quiet
  <2> QED
    BY ONLY VInv, r \in Requests, <1>2, <2>1, <2>2, QuietFinish
<1> QED
  BY <1>3, <1>4, <1>5, <1>6, <1>7

LEMMA NextVInv == VInv /\ [Next]_vars => VInv'
<1> SUFFICES ASSUME VInv, [Next]_vars PROVE VInv'
  OBVIOUS
<1>1. ASSUME NEW k \in Keys, Upload(k) PROVE VInv'
  BY <1>1, UploadStep
<1>2. ASSUME NEW r \in Requests, HeadFinds(r) PROVE VInv'
  BY <1>2, HeadStep
<1>3. ASSUME NEW r \in Requests,
             \/ AnswersNotFound(r) \/ ProviderFails(r) \/ PreviewRefuses(r)
             \/ PreviewDownloads(r) \/ CopyFindsNothing(r)
      PROVE  VInv'
  BY <1>3, QuietSteps
<1>4. ASSUME NEW r \in Requests, DeleteOne(r) PROVE VInv'
  BY <1>4, DeleteStep
<1>5. ASSUME NEW r \in Requests, CopyLands(r) PROVE VInv'
  BY <1>5, CopyStep
<1>6. ASSUME NEW r \in Requests, DeleteSource(r) PROVE VInv'
  BY <1>6, DeleteSourceStep
<1>7. CASE Crash
  BY <1>7, CrashStep
<1>8. CASE UNCHANGED vars
  <2>1. /\ bucket' = bucket /\ uploaded' = uploaded /\ op' = op /\ step' = step
        /\ seen' = seen /\ answer' = answer /\ disturbed' = disturbed
        /\ held' = held
    BY <1>8 DEF vars, providerVars, requestVars, historyVars
  <2>2. TypeOK'
    BY <2>1 DEF VInv, TypeOK
  <2>3. ASSUME NEW q \in Requests PROVE ReqInv(q)'
    BY <2>1, Kept
  <2> QED
    BY <2>2, <2>3 DEF VInv, ReqInv
<1> QED
  BY <1>1, <1>2, <1>3, <1>4, <1>5, <1>6, <1>7, <1>8 DEF Next

LEMMA VaultInvariant == Spec => []VInv
  BY InitVInv, NextVInv, PTL DEF Spec

-----------------------------------------------------------------------------

\* The variables of the vault keep their types.
THEOREM VaultTypeCorrect == Spec => []TypeOK
<1>1. VInv => TypeOK
  BY DEF VInv
<1> QED
  BY <1>1, VaultInvariant, PTL

\* Whatever the requests, the uploads and their interleaving, what a handler
\* of vault.service.ts answers was true of its key in the request's own time.
THEOREM AnswersAreTrue == Spec => []AnswersWereTrue
<1>1. VInv => AnswersWereTrue
  BY DEF VInv, AnswersWereTrue
<1> QED
  BY <1>1, VaultInvariant, PTL

\* copy() with deleteSource moves the object, or leaves it at the source or at
\* both places when the provider fails or the process dies in the middle.
THEOREM RenameIsSafe == Spec => []RenameMovesOrKeeps
<1>1. ASSUME VInv PROVE RenameMovesOrKeeps
  <2>1. SUFFICES ASSUME NEW r \in Requests, Undisturbed(r), seen[r] # Absent,
                        op[r].kind \in {"copy", "rename"}
                 PROVE  /\ seen[r] \in {Source(r), bucket[op[r].to]}
                        /\ op[r].kind = "rename" /\ answer[r].status = 200 =>
                             Source(r) = Absent /\ bucket[op[r].to] = seen[r]
    BY DEF RenameMovesOrKeeps, Source
  <2>2. StepOf(r) /\ MoveOf(r) /\ Moves(r)
    BY <1>1, <2>1 DEF VInv, Moves
  <2>3. CASE Running(r)
    BY <2>1, <2>2, <2>3 DEF StepOf, MoveOf, Running
  <2>4. CASE ~Running(r)
    BY <2>1, <2>2, <2>4 DEF MoveOf
  <2> QED
    BY <2>3, <2>4
<1> QED
  BY <1>1, VaultInvariant, PTL

=============================================================================
