--------------------------- MODULE AiCreditsProofs ---------------------------
(***************************************************************************)
(* Theorems about AiCredits for every number of concurrent generations,    *)
(* packs, credits, months and administration calls.                        *)
(***************************************************************************)
EXTENDS AiCredits, FiniteSetTheorems, TLAPS

(***************************************************************************)
(* Types                                                                   *)
(***************************************************************************)

GenType == [pc : GenPc, month : MonthIds, seen : Nat, excess : Nat,
            fund : {"NONE", "PLAN", "PACK"}, from : 0..NumPacks,
            todo : SUBSET Packs, then : GenPc]

\* A generation with no work under way is well typed.
LEMMA GenIdleType == GenIdle \in GenType
BY CreditsAssumption DEF GenIdle, GenType, GenPc, Resting, MonthIds, Packs

\* Updating one field keeps a record well typed.
LEMMA FieldTypes ==
  ASSUME NEW r \in GenType
  PROVE  /\ \A x \in GenPc : [r EXCEPT !.pc = x] \in GenType
         /\ \A x \in GenPc : [r EXCEPT !.then = x] \in GenType
         /\ \A x \in MonthIds : [r EXCEPT !.month = x] \in GenType
         /\ \A x \in Nat : [r EXCEPT !.seen = x] \in GenType
         /\ \A x \in Nat : [r EXCEPT !.excess = x] \in GenType
         /\ \A x \in {"NONE", "PLAN", "PACK"} : [r EXCEPT !.fund = x] \in GenType
         /\ \A x \in 0..NumPacks : [r EXCEPT !.from = x] \in GenType
         /\ \A x \in SUBSET Packs : [r EXCEPT !.todo = x] \in GenType
BY DEF GenType

\* add() moves one month's counter and the calling generation's record.
LEMMA AddToType ==
  ASSUME TypeOK, NEW g \in Gens, NEW m \in MonthIds, NEW d \in Int, NEW next \in GenType,
         AddTo(g, m, d, next)
  PROVE  counter' \in [MonthIds -> Int] /\ gen' \in [Gens -> GenType]
<1>1. counter' \in [MonthIds -> Int]
  BY DEF TypeOK, AddTo
<1>2. next.pc \in GenPc /\ "clamp" \in GenPc
  BY DEF GenType, GenPc
<1>3. [next EXCEPT !.pc = "clamp", !.then = next.pc, !.month = m] \in GenType
  BY <1>2, FieldTypes
<1>4. gen \in [Gens -> GenType]
  BY DEF TypeOK, GenType
<1> QED BY <1>1, <1>3, <1>4 DEF AddTo, Become

\* A generation's step preserves the types.
LEMMA GenStepType ==
  ASSUME TypeOK, NEW g \in Gens, GenStep(g)
  PROVE  TypeOK'
<1> DEFINE Frame == UNCHANGED <<month, counter, ledger, pack, job, adm, adminOps, planDrafts, packDrafts>>
<1>a. gen \in [Gens -> GenType] /\ gen[g] \in GenType /\ GenIdle \in GenType
  BY GenIdleType DEF TypeOK, GenType
<1>b. /\ gen[g].month \in MonthIds /\ gen[g].seen \in Nat /\ gen[g].excess \in Nat
      /\ gen[g].from \in 0..NumPacks /\ gen[g].todo \in SUBSET Packs
      /\ gen[g].then \in GenPc /\ gen[g].pc \in GenPc
      /\ month \in MonthIds
  BY <1>a DEF GenType, TypeOK
<1>c. {"idle", "refused", "counted", "heal", "reserve", "undo", "packs", "draw",
       "setup", "running", "release", "clamp"} \subseteq GenPc
  BY DEF GenPc, Resting
<1>d. ASSUME NEW rec \in GenType, Become(g, rec) PROVE gen' \in [Gens -> GenType]
  BY <1>a, <1>d DEF Become
<1>e. ASSUME Frame, gen' \in [Gens -> GenType] PROVE TypeOK'
  BY <1>e DEF TypeOK, GenType
<1>f. ASSUME gen' \in [Gens -> GenType], counter' \in [MonthIds -> Int],
             UNCHANGED <<month, ledger, pack, job, adm, adminOps, planDrafts, packDrafts>>
      PROVE  TypeOK'
  BY <1>f DEF TypeOK, GenType
<1>1. CASE CountLedger(g)
  <2>1. ledger[month] \in Nat
    BY <1>b DEF TypeOK
  <2>2. [GenIdle EXCEPT !.pc = "counted", !.month = month, !.seen = ledger[month]] \in GenType
    BY <1>a, <1>b, <1>c, <2>1, FieldTypes
  <2> QED BY <1>1, <1>d, <1>e, <2>2 DEF CountLedger
<1>2. CASE ReadCounter(g)
  <2> DEFINE excess == AtLeastZero(counter[gen[g].month]) - gen[g].seen
  <2>1. counter[gen[g].month] \in Int
    BY <1>b DEF TypeOK
  <2>2. excess > 0 => excess \in Nat
    BY <1>b, <2>1 DEF AtLeastZero
  <2>3. To(g, "heal") \in GenType /\ To(g, "reserve") \in GenType
    BY <1>a, <1>c, FieldTypes DEF To
  <2>4. excess > 0 => [To(g, "heal") EXCEPT !.excess = excess] \in GenType
    BY <2>2, <2>3, FieldTypes
  <2>5. gen' \in [Gens -> GenType]
    <3>1. Become(g, IF excess > 0 THEN [To(g, "heal") EXCEPT !.excess = excess]
                                  ELSE To(g, "reserve"))
      BY <1>2 DEF ReadCounter
    <3> HIDE DEF excess
    <3> QED BY <1>d, <2>3, <2>4, <3>1
  <2> QED BY <1>2, <1>e, <2>5 DEF ReadCounter
<1>3. CASE Heal(g)
  <2>1. To(g, "reserve") \in GenType
    BY <1>a, <1>c, FieldTypes DEF To
  <2>2. [To(g, "reserve") EXCEPT !.excess = 0] \in GenType
    BY <2>1, FieldTypes
  <2>3. - gen[g].excess \in Int
    BY <1>b
  <2> QED BY <1>3, <1>b, <1>f, <2>2, <2>3, AddToType DEF Heal
<1>4. CASE ReservePlan(g)
  <2>1. [GenIdle EXCEPT !.pc = "setup", !.fund = "PLAN"] \in GenType
    BY <1>a, <1>c, FieldTypes
  <2>2. [GenIdle EXCEPT !.pc = "undo", !.month = month] \in GenType
    BY <1>a, <1>b, <1>c, FieldTypes
  <2> DEFINE next == IF counter[month] + 1 <= Limit
                     THEN [GenIdle EXCEPT !.pc = "setup", !.fund = "PLAN"]
                     ELSE [GenIdle EXCEPT !.pc = "undo", !.month = month]
  <2>3. next \in GenType
    BY <2>1, <2>2
  <2>4. AddTo(g, month, 1, next)
    BY <1>4 DEF ReservePlan
  <2>5. counter' \in [MonthIds -> Int] /\ gen' \in [Gens -> GenType]
    <3> HIDE DEF next
    <3> QED BY <1>b, <2>3, <2>4, AddToType
  <2> QED BY <1>4, <1>f, <2>5 DEF ReservePlan
<1>5. CASE UndoPlan(g)
  <2>1. To(g, "packs") \in GenType
    BY <1>a, <1>c, FieldTypes DEF To
  <2> QED BY <1>5, <1>b, <1>f, <2>1, AddToType DEF UndoPlan
<1>6. CASE ListPacks(g)
  <2>1. [GenIdle EXCEPT !.pc = "draw", !.todo = {p \in Packs : pack[p].status = "ACTIVE"}] \in GenType
    BY <1>a, <1>c, FieldTypes
  <2> QED BY <1>6, <1>d, <1>e, <2>1 DEF ListPacks
<1>7. CASE DrawPack(g)
  <2>1. PICK p \in gen[g].todo :
          \/ /\ CanReserve(p)
             /\ pack' = [pack EXCEPT ![p] = Reserved(p)]
             /\ Become(g, [GenIdle EXCEPT !.pc = "setup", !.fund = "PACK", !.from = p])
          \/ /\ pack' = pack
             /\ Become(g, [gen[g] EXCEPT !.todo = @ \ {p}])
    BY <1>7 DEF DrawPack
  <2>2. p \in Packs /\ p \in 0..NumPacks
    BY <1>b DEF Packs
  <2>3. [GenIdle EXCEPT !.pc = "setup", !.fund = "PACK", !.from = p] \in GenType
    BY <1>a, <1>c, <2>2, FieldTypes
  <2>4. [gen[g] EXCEPT !.todo = @ \ {p}] \in GenType
    <3>1. gen[g].todo \ {p} \in SUBSET Packs
      BY <1>b
    <3> QED BY <1>a, <3>1, FieldTypes
  <2>5. gen' \in [Gens -> GenType]
    BY <1>d, <2>1, <2>3, <2>4
  <2>6. pack' \in [Packs -> [used : Nat, status : PackStatus]]
    BY <2>1, <2>2 DEF Reserved, PackStatus, TypeOK
  <2> QED BY <1>7, <2>5, <2>6 DEF DrawPack, TypeOK, GenType
<1>8. CASE NoCredit(g)
  BY <1>8, <1>a, <1>c, <1>d, <1>e, FieldTypes DEF NoCredit, To
<1>9. CASE StoreDraft(g) \/ GenerationFails(g)
  BY <1>9, <1>a, <1>c, <1>d, <1>e, FieldTypes DEF StoreDraft, GenerationFails, To
<1>10. CASE SupersedeFails(g) \/ Crash(g)
  BY <1>10, <1>a, <1>d, <1>e DEF SupersedeFails, Crash
<1>11. CASE Bill(g) \/ BillFails(g)
  <2>1. gen' \in [Gens -> GenType]
    BY <1>11, <1>a, <1>d DEF Bill, BillFails
  <2>2. packDrafts' \in [Packs -> Nat]
    BY <1>11 DEF Bill, BillFails, PackPays, TypeOK
  <2>3. ledger' \in [MonthIds -> Nat] /\ planDrafts' \in [MonthIds -> Nat]
    BY <1>11, <1>b DEF Bill, BillFails, TypeOK
  <2> QED BY <1>11, <2>1, <2>2, <2>3 DEF Bill, BillFails, TypeOK, GenType
<1>12. CASE Release(g)
  <2>1. CASE gen[g].fund = "PLAN"
    BY <1>12, <1>a, <1>b, <1>f, <2>1, AddToType DEF Release
  <2>2. CASE gen[g].fund = "PACK"
    <3>1. pack' \in [Packs -> [used : Nat, status : PackStatus]]
      BY <1>12, <2>2 DEF Release, Released, AtLeastZero, PackStatus, TypeOK
    <3>2. gen' \in [Gens -> GenType]
      BY <1>12, <1>a, <1>d, <2>2 DEF Release
    <3> QED BY <1>12, <2>2, <3>1, <3>2 DEF Release, TypeOK, GenType
  <2>3. CASE gen[g].fund = "NONE"
    BY <1>12, <1>a, <1>d, <1>e, <2>3 DEF Release
  <2> QED BY <1>12, <2>1, <2>2, <2>3 DEF Release
<1>13. CASE Clamp(g)
  <2>1. To(g, gen[g].then) \in GenType
    BY <1>a, <1>b, FieldTypes DEF To
  <2>2. [To(g, gen[g].then) EXCEPT !.then = "idle"] \in GenType
    BY <1>c, <2>1, FieldTypes
  <2>3. counter' \in [MonthIds -> Int]
    BY <1>13, <1>b DEF Clamp, TypeOK
  <2> QED BY <1>13, <1>d, <1>f, <2>2, <2>3 DEF Clamp
<1> QED
  BY <1>1, <1>2, <1>3, <1>4, <1>5, <1>6, <1>7, <1>8, <1>9, <1>10, <1>11, <1>12, <1>13 DEF GenStep

\* Types are preserved by every step, so they hold in every reachable state.
THEOREM TypeCorrect == Spec => []TypeOK
<1>1. Init => TypeOK
  BY CreditsAssumption, GenIdleType
     DEF Init, TypeOK, GenType, GenPc, Resting, MonthIds, JobIdle, AdmIdle, PackStatus
<1>2. TypeOK /\ [Next]_vars => TypeOK'
  <2> SUFFICES ASSUME TypeOK, [Next]_vars PROVE TypeOK'
    OBVIOUS
  <2>1. CASE \E g \in Gens : GenStep(g)
    BY <2>1, GenStepType
  <2>2. CASE JobStep
    <3> DEFINE JobType == [pc : {"idle", "listed", "clamp", "write"}, month : MonthIds,
                           used : Nat, target : Int]
    <3>1. JobIdle \in JobType /\ job \in JobType
      BY CreditsAssumption DEF JobIdle, MonthIds, TypeOK
    <3>2. counter[month] \in Int /\ counter[job.month] \in Int /\ ledger[job.month] \in Int
      BY <3>1 DEF TypeOK
    <3>3. job' \in JobType
      <4>1. CASE JobList
        BY <3>2, <4>1 DEF JobList, AtLeastZero, TypeOK
      <4>2. CASE JobCount
        BY <3>1, <3>2, <4>2 DEF JobCount
      <4>3. CASE JobReadCurrent
        BY <3>1, <3>2, <4>3 DEF JobReadCurrent, Lesser
      <4> QED BY <2>2, <3>1, <4>1, <4>2, <4>3 DEF JobStep, JobWrite, JobCrash
    <3>4. counter' \in [MonthIds -> Int]
      BY <2>2, <3>1 DEF JobStep, JobList, JobCount, JobReadCurrent, JobWrite, JobCrash, TypeOK
    <3> QED BY <2>2, <3>3, <3>4 DEF JobStep, JobList, JobCount, JobReadCurrent, JobWrite,
                                    JobCrash, TypeOK
  <2>3. ASSUME NEW a \in Admins, AdminWrite(a) PROVE TypeOK'
    BY <2>3 DEF TypeOK, AdminWrite, AdmIdle, PackStatus
  <2>4. ASSUME NEW a \in Admins, NEW op \in PackStatus, NEW p \in Packs, AdminRead(a, op, p)
        PROVE  TypeOK'
    BY <2>4 DEF TypeOK, AdminRead, AdmIdle, PackStatus
  <2>5. CASE NewMonth
    <3>1. month' \in MonthIds
      BY <2>5, CreditsAssumption DEF TypeOK, NewMonth, MonthIds
    <3> QED BY <2>5, <3>1 DEF TypeOK, NewMonth
  <2>6. CASE UNCHANGED vars
    BY <2>6 DEF TypeOK, vars
  <2> QED BY <2>1, <2>2, <2>3, <2>4, <2>5, <2>6 DEF Next
<1> QED BY <1>1, <1>2, PTL DEF Spec

(***************************************************************************)
(* Pack rows                                                               *)
(***************************************************************************)

\* What an administration call read stays a legal row to write back: it was
\* taken from an ACTIVE or SUSPENDED pack when it suspends or reactivates.
AdminShape ==
  \A a \in Admins : adm[a] # AdmIdle =>
    /\ adm[a].used <= Credits[adm[a].pack]
    /\ adm[a].op \in {"ACTIVE", "SUSPENDED"} => adm[a].used < Credits[adm[a].pack]
    /\ adm[a].op # "EXHAUSTED"

RowShape(row, p) ==
  /\ row.used <= Credits[p]
  /\ row.status \in {"ACTIVE", "SUSPENDED"} => row.used < Credits[p]
  /\ row.status = "EXHAUSTED" => row.used = Credits[p]

\* reserve() and release() keep a row in shape.
LEMMA RowShapeKept ==
  ASSUME TypeOK, NEW p \in Packs, RowShape(pack[p], p)
  PROVE  /\ CanReserve(p) => RowShape(Reserved(p), p)
         /\ RowShape(Released(p), p)
BY CreditsAssumption
   DEF RowShape, CanReserve, Reserved, Released, AtLeastZero, PackStatus, TypeOK

\* A generation's step leaves every pack row in shape.
LEMMA GenStepShape ==
  ASSUME TypeOK, PackShape, NEW g \in Gens, GenStep(g)
  PROVE  PackShape'
<1>1. \A p \in Packs : RowShape(pack[p], p)
  BY DEF PackShape, RowShape
<1>2. SUFFICES \A p \in Packs : RowShape(pack'[p], p)
  BY DEF PackShape, RowShape
<1>3. CASE DrawPack(g)
  BY <1>1, <1>3, RowShapeKept DEF DrawPack, TypeOK
<1>4. CASE Release(g)
  BY <1>1, <1>4, RowShapeKept DEF Release, TypeOK
<1>5. CASE pack' = pack
  BY <1>1, <1>5
<1> QED
  BY <1>3, <1>4, <1>5 DEF GenStep, CountLedger, ReadCounter, Heal, ReservePlan, UndoPlan, ListPacks,
     NoCredit, StoreDraft, GenerationFails, SupersedeFails, Bill, BillFails, Clamp, Crash

\* Pack rows agree with themselves in every reachable state, although refunds,
\* suspensions and reactivations write back rows they read earlier.
THEOREM PacksKeepShape == Spec => []PackShape
<1> DEFINE Inv == PackShape /\ AdminShape
<1>1. Init => Inv
  BY CreditsAssumption DEF Init, PackShape, AdminShape
<1>2. TypeOK /\ Inv /\ [Next]_vars => Inv'
  <2> SUFFICES ASSUME TypeOK, Inv, [Next]_vars PROVE Inv'
    OBVIOUS
  <2>1. ASSUME NEW g \in Gens, GenStep(g) PROVE Inv'
    <3>1. adm' = adm
      BY <2>1 DEF GenStep, CountLedger, ReadCounter, Heal, ReservePlan, UndoPlan, ListPacks, DrawPack,
         NoCredit, StoreDraft, GenerationFails, SupersedeFails, Bill, BillFails, Release, Clamp, Crash
    <3> QED BY <2>1, <3>1, GenStepShape DEF AdminShape
  <2>2. ASSUME NEW a \in Admins, AdminWrite(a) PROVE Inv'
    <3>1. /\ pack' = [pack EXCEPT ![adm[a].pack] = [used |-> adm[a].used, status |-> adm[a].op]]
          /\ adm' = [adm EXCEPT ![a] = AdmIdle]
          /\ adm[a] # AdmIdle
      BY <2>2 DEF AdminWrite
    <3>2. adm[a] \in [op : PackStatus, pack : Packs, used : Nat]
      BY <3>1 DEF TypeOK
    <3>3. PackShape'
      BY <3>1, <3>2 DEF PackShape, AdminShape, TypeOK, PackStatus
    <3>4. AdminShape'
      BY <3>1 DEF AdminShape, TypeOK
    <3> QED BY <3>3, <3>4
  <2>3. ASSUME NEW a \in Admins, NEW op \in PackStatus, NEW p \in Packs, AdminRead(a, op, p)
        PROVE  Inv'
    <3>1. adm' = [adm EXCEPT ![a] = [op |-> op, pack |-> p, used |-> pack[p].used]]
      BY <2>3 DEF AdminRead
    <3>2. /\ op # "EXHAUSTED"
          /\ pack[p].used <= Credits[p]
          /\ op \in {"ACTIVE", "SUSPENDED"} => pack[p].used < Credits[p]
      BY <2>3 DEF AdminRead, MayDo, MayRefund, MaySuspend, MayReactivate, PackShape
    <3>3. AdminShape'
      BY <3>1, <3>2 DEF AdminShape, TypeOK
    <3>4. PackShape'
      BY <2>3 DEF AdminRead, PackShape
    <3> QED BY <3>3, <3>4
  <2>4. CASE JobStep \/ NewMonth \/ UNCHANGED vars
    BY <2>4 DEF JobStep, JobList, JobCount, JobReadCurrent, JobWrite, JobCrash, NewMonth, vars,
                PackShape, AdminShape
  <2> QED BY <2>1, <2>2, <2>3, <2>4 DEF Next
<1>3. QED BY <1>1, <1>2, TypeCorrect, PTL DEF Spec

(***************************************************************************)
(* Top-up packs                                                            *)
(***************************************************************************)

\* Counting sets of generations.
LEMMA GenCounts ==
  ASSUME NEW S \in SUBSET Gens
  PROVE  /\ Cardinality(S) \in Nat
         /\ \A T \in SUBSET S : Cardinality(T) \in Nat /\ Cardinality(T) <= Cardinality(S)
         /\ \A g \in S : Cardinality(S \ {g}) = Cardinality(S) - 1
         /\ \A g \in Gens : Cardinality(S \cup {g}) <= Cardinality(S) + 1
<1>1. IsFiniteSet(S)
  BY CreditsAssumption, FS_Subset
<1> QED BY <1>1, FS_CardinalityType, FS_Subset, FS_AddElement, FS_RemoveElement

\* The accounts of a top-up pack: what it paid for and what is held never
\* exceed its credits; unless it is refunded they are covered by `used`.
TopUpAccounts ==
  \A p \in Packs \ Standing :
    /\ packDrafts[p] + Cardinality(Holders(p)) <= Credits[p]
    /\ pack[p].status # "REFUNDED" => packDrafts[p] + Cardinality(Holders(p)) <= pack[p].used
    /\ pack[p].status # "SUSPENDED"
    /\ \A a \in Admins : adm[a] # AdmIdle /\ adm[a].pack = p => adm[a].op = "REFUNDED"

\* Steps of a generation that leave the packs and what they paid for alone.
Quiet(g) ==
  \/ CountLedger(g) \/ ReadCounter(g) \/ Heal(g) \/ ReservePlan(g) \/ UndoPlan(g)
  \/ ListPacks(g) \/ NoCredit(g) \/ StoreDraft(g) \/ GenerationFails(g)
  \/ SupersedeFails(g) \/ Clamp(g) \/ Crash(g)

\* What a step writes into the record of the generation that takes it.
LEMMA BecomeSets ==
  ASSUME TypeOK, NEW g \in Gens, NEW rec, Become(g, rec)
  PROVE  gen'[g] = rec /\ \A h \in Gens \ {g} : gen'[h] = gen[h]
BY DEF TypeOK, Become

\* add() keeps the funding fields of the record it is given.
LEMMA AddToSets ==
  ASSUME TypeOK, NEW g \in Gens, NEW m, NEW d, NEW next \in GenType, AddTo(g, m, d, next)
  PROVE  /\ gen'[g].fund = next.fund /\ gen'[g].from = next.from /\ gen'[g].seen = next.seen
         /\ \/ gen'[g].pc = next.pc
            \/ gen'[g].pc = "clamp" /\ gen'[g].then = next.pc
         /\ \A h \in Gens \ {g} : gen'[h] = gen[h]
<1>1. \/ gen'[g] = [next EXCEPT !.pc = "clamp", !.then = next.pc, !.month = m]
      \/ gen'[g] = next
  BY BecomeSets DEF AddTo
<1>2. \A h \in Gens \ {g} : gen'[h] = gen[h]
  BY DEF TypeOK, AddTo, Become
<1>3. CASE gen'[g] = next
  BY <1>2, <1>3
<1>4. CASE gen'[g] = [next EXCEPT !.pc = "clamp", !.then = next.pc, !.month = m]
  <2>1. DOMAIN next = {"pc", "month", "seen", "excess", "fund", "from", "todo", "then"}
    BY DEF GenType
  <2> QED BY <1>2, <1>4, <2>1
<1> QED BY <1>1, <1>3, <1>4

\* In those steps nobody comes to hold a pack credit.
LEMMA QuietHolders ==
  ASSUME TypeOK, NEW g \in Gens, Quiet(g), NEW p \in Packs
  PROVE  Holders(p)' \subseteq Holders(p) /\ UNCHANGED <<pack, packDrafts, adm>>
<1>1. gen[g] \in GenType /\ gen \in [Gens -> GenType]
  BY DEF TypeOK, GenType
<1>2. UNCHANGED <<pack, packDrafts, adm>>
  BY DEF Quiet, CountLedger, ReadCounter, Heal, ReservePlan, UndoPlan, ListPacks, NoCredit,
         StoreDraft, GenerationFails, SupersedeFails, Clamp, Crash
<1>3. gen'[g].fund = "PACK" => gen[g].fund = "PACK" /\ gen'[g].from = gen[g].from
  <2>1. CASE CountLedger(g) \/ ListPacks(g) \/ SupersedeFails(g) \/ Crash(g)
    <3>1. CASE CountLedger(g)
      <4>1. gen'[g] = [GenIdle EXCEPT !.pc = "counted", !.month = month, !.seen = ledger[month]]
        BY <3>1, BecomeSets DEF CountLedger
      <4> QED BY <4>1 DEF GenIdle
    <3>2. CASE ListPacks(g)
      <4>1. \E S : gen'[g] = [GenIdle EXCEPT !.pc = "draw", !.todo = S]
        BY <3>2, BecomeSets DEF ListPacks
      <4> QED BY <4>1 DEF GenIdle
    <3>3. CASE SupersedeFails(g) \/ Crash(g)
      <4>1. gen'[g] = GenIdle
        BY <3>3, BecomeSets DEF SupersedeFails, Crash
      <4> QED BY <4>1 DEF GenIdle
    <3> QED BY <2>1, <3>1, <3>2, <3>3
  <2>2. CASE ReadCounter(g)
    <3>1. \/ gen'[g] = To(g, "reserve")
          \/ \E excess : gen'[g] = [To(g, "heal") EXCEPT !.excess = excess]
      BY <2>2, BecomeSets DEF ReadCounter
    <3> QED BY <1>1, <3>1 DEF To, GenType
  <2>3. CASE Heal(g)
    <3>1. [To(g, "reserve") EXCEPT !.excess = 0] \in GenType
      BY <1>1, FieldTypes DEF To, GenPc
    <3>2. gen'[g].fund = [To(g, "reserve") EXCEPT !.excess = 0].fund
          /\ gen'[g].from = [To(g, "reserve") EXCEPT !.excess = 0].from
      BY <2>3, <3>1, AddToSets DEF Heal
    <3> QED BY <1>1, <3>2 DEF To, GenType
  <2>4. CASE UndoPlan(g)
    <3>1. To(g, "packs") \in GenType
      BY <1>1, FieldTypes DEF To, GenPc
    <3>2. gen'[g].fund = To(g, "packs").fund /\ gen'[g].from = To(g, "packs").from
      BY <2>4, <3>1, AddToSets DEF UndoPlan
    <3> QED BY <1>1, <3>2 DEF To, GenType
  <2>5. CASE ReservePlan(g)
    <3> DEFINE next == IF counter[month] + 1 <= Limit
                       THEN [GenIdle EXCEPT !.pc = "setup", !.fund = "PLAN"]
                       ELSE [GenIdle EXCEPT !.pc = "undo", !.month = month]
    <3>1. next \in GenType /\ next.fund # "PACK"
      <4>1. [GenIdle EXCEPT !.pc = "setup", !.fund = "PLAN"] \in GenType
        BY GenIdleType, FieldTypes DEF GenPc
      <4>2. [GenIdle EXCEPT !.pc = "undo", !.month = month] \in GenType
        BY GenIdleType, FieldTypes DEF GenPc, TypeOK
      <4> QED BY <4>1, <4>2 DEF GenIdle
    <3>2. AddTo(g, month, 1, next)
      BY <2>5 DEF ReservePlan
    <3> HIDE DEF next
    <3> QED BY <3>1, <3>2, AddToSets
  <2>6. CASE NoCredit(g) \/ StoreDraft(g) \/ GenerationFails(g)
    <3>1. \E x : gen'[g] = To(g, x)
      BY <2>6, BecomeSets DEF NoCredit, StoreDraft, GenerationFails
    <3> QED BY <1>1, <3>1 DEF To, GenType
  <2>7. CASE Clamp(g)
    <3>1. gen'[g] = [To(g, gen[g].then) EXCEPT !.then = "idle"]
      BY <2>7, BecomeSets DEF Clamp
    <3> QED BY <1>1, <3>1 DEF To, GenType
  <2> QED BY <2>1, <2>2, <2>3, <2>4, <2>5, <2>6, <2>7 DEF Quiet
<1>4. \A h \in Gens \ {g} : gen'[h] = gen[h]
  BY <1>1 DEF Quiet, CountLedger, ReadCounter, Heal, ReservePlan, UndoPlan, ListPacks, NoCredit,
         StoreDraft, GenerationFails, SupersedeFails, Clamp, Crash, AddTo, Become
<1> QED BY <1>2, <1>3, <1>4 DEF Holders

\* Each kind of generation step keeps the accounts of top-up pack p.
LEMMA GenStepAccounts ==
  ASSUME TypeOK, TopUpAccounts, NEW g \in Gens, GenStep(g)
  PROVE  TopUpAccounts'
<1>0. adm' = adm
  BY DEF GenStep, CountLedger, ReadCounter, Heal, ReservePlan, UndoPlan, ListPacks, DrawPack,
     NoCredit, StoreDraft, GenerationFails, SupersedeFails, Bill, BillFails, Release, Clamp, Crash
<1>1. SUFFICES ASSUME NEW p \in Packs \ Standing
               PROVE  /\ packDrafts'[p] + Cardinality(Holders(p)') <= Credits[p]
                      /\ pack'[p].status # "REFUNDED" =>
                           packDrafts'[p] + Cardinality(Holders(p)') <= pack'[p].used
                      /\ pack'[p].status # "SUSPENDED"
  BY <1>0 DEF TopUpAccounts
<1> DEFINE H == Cardinality(Holders(p))
           K == Cardinality(Holders(p)')
<1>. SUFFICES /\ packDrafts'[p] + K <= Credits[p]
              /\ pack'[p].status # "REFUNDED" => packDrafts'[p] + K <= pack'[p].used
              /\ pack'[p].status # "SUSPENDED"
  OBVIOUS
<1>2. /\ packDrafts[p] \in Nat /\ Credits[p] \in Nat /\ pack[p].used \in Nat
      /\ pack[p].status \in PackStatus
      /\ pack \in [Packs -> [used : Nat, status : PackStatus]] /\ packDrafts \in [Packs -> Nat]
      /\ gen \in [Gens -> GenType]
  BY CreditsAssumption DEF TypeOK, GenType
<1>3. /\ packDrafts[p] + H <= Credits[p]
      /\ pack[p].status # "REFUNDED" => packDrafts[p] + H <= pack[p].used
      /\ pack[p].status # "SUSPENDED"
  BY DEF TopUpAccounts
<1>4. Holders(p) \in SUBSET Gens /\ H \in Nat
  BY GenCounts DEF Holders
<1>5. CASE Quiet(g)
  <2>1. K \in Nat /\ K <= H
    BY <1>4, <1>5, QuietHolders, GenCounts
  <2>2. pack' = pack /\ packDrafts' = packDrafts
    BY <1>5, QuietHolders
  <2> HIDE DEF H, K
  <2> QED BY <1>2, <1>3, <1>4, <2>1, <2>2
<1>6. CASE DrawPack(g)
  <2>1. PICK q \in gen[g].todo :
          \/ /\ CanReserve(q)
             /\ pack' = [pack EXCEPT ![q] = Reserved(q)]
             /\ Become(g, [GenIdle EXCEPT !.pc = "setup", !.fund = "PACK", !.from = q])
          \/ /\ pack' = pack
             /\ Become(g, [gen[g] EXCEPT !.todo = @ \ {q}])
    BY <1>6 DEF DrawPack
  <2>2. packDrafts' = packDrafts
    BY <1>6 DEF DrawPack
  <2>3. CASE Holders(p)' \subseteq Holders(p) /\ pack'[p] = pack[p]
    <3>1. K \in Nat /\ K <= H
      BY <1>4, <2>3, GenCounts
    <3> HIDE DEF H, K
    <3> QED BY <1>2, <1>3, <1>4, <2>2, <2>3, <3>1
  <2>4. CASE CanReserve(q) /\ q = p /\ pack' = [pack EXCEPT ![q] = Reserved(q)]
           /\ Become(g, [GenIdle EXCEPT !.pc = "setup", !.fund = "PACK", !.from = q])
    <3>1. Holders(p)' \subseteq Holders(p) \cup {g}
      BY <1>2, <2>4 DEF Holders, Become
    <3>2. K \in Nat /\ K <= H + 1
      <4>1. Holders(p) \cup {g} \in SUBSET Gens
        BY <1>4
      <4>2. /\ Cardinality(Holders(p) \cup {g}) \in Nat
            /\ Cardinality(Holders(p) \cup {g}) <= H + 1
        BY <1>4, <4>1, GenCounts
      <4>3. K \in Nat /\ K <= Cardinality(Holders(p) \cup {g})
        BY <3>1, <4>1, GenCounts
      <4> QED BY <1>4, <4>2, <4>3
    <3>3. /\ pack[p].status = "ACTIVE" /\ pack[p].used + 1 <= Credits[p]
          /\ pack'[p].used = pack[p].used + 1 /\ pack'[p].status \in {"ACTIVE", "EXHAUSTED"}
      BY <1>2, <2>4 DEF CanReserve, Reserved
    <3> HIDE DEF H, K
    <3> QED BY <1>2, <1>3, <1>4, <2>2, <3>2, <3>3
  <2>5. CASE q # p /\ pack' = [pack EXCEPT ![q] = Reserved(q)]
           /\ Become(g, [GenIdle EXCEPT !.pc = "setup", !.fund = "PACK", !.from = q])
    <3>1. gen'[g] = [GenIdle EXCEPT !.pc = "setup", !.fund = "PACK", !.from = q]
      BY <2>5, BecomeSets
    <3>2. gen'[g].from # p
      BY <2>5, <3>1 DEF GenIdle
    <3>3. Holders(p)' \subseteq Holders(p)
      BY <2>5, <3>2, BecomeSets DEF Holders
    <3> QED BY <1>2, <2>3, <2>5, <3>3
  <2>6. CASE pack' = pack /\ Become(g, [gen[g] EXCEPT !.todo = @ \ {q}])
    <3>1. gen'[g] = [gen[g] EXCEPT !.todo = @ \ {q}]
      BY <2>6, BecomeSets
    <3>2. gen'[g].fund = gen[g].fund /\ gen'[g].from = gen[g].from
      BY <1>2, <3>1 DEF GenType
    <3>3. Holders(p)' \subseteq Holders(p)
      BY <2>6, <3>2, BecomeSets DEF Holders
    <3> QED BY <2>3, <2>6, <3>3
  <2> QED BY <2>1, <2>4, <2>5, <2>6
<1>7. CASE gen[g].fund = "PACK" /\ gen[g].from = p /\ (Bill(g) \/ BillFails(g) \/ Release(g))
  <2>1. Holders(p)' \subseteq Holders(p) \ {g}
    BY <1>2, <1>7 DEF Bill, BillFails, Release, Become, GenIdle, Holders
  <2>2. K \in Nat /\ K <= H - 1
    <3>1. g \in Holders(p)
      BY <1>7 DEF Holders
    <3>2. Cardinality(Holders(p) \ {g}) = H - 1
      BY <1>4, <3>1, GenCounts
    <3> QED BY <1>4, <2>1, <3>2, GenCounts
  <2>3. \/ pack' = pack /\ packDrafts'[p] = packDrafts[p] + 1
        \/ /\ packDrafts' = packDrafts
           /\ pack'[p].used >= pack[p].used - 1
           /\ pack'[p].used \in Nat
           /\ pack'[p].status # "REFUNDED" => pack[p].status # "REFUNDED"
           /\ pack'[p].status # "SUSPENDED"
    <3>1. CASE Bill(g) \/ BillFails(g)
      BY <1>2, <1>7, <3>1 DEF Bill, BillFails, PackPays
    <3>2. CASE Release(g)
      BY <1>2, <1>3, <1>7, <3>2 DEF Release, Released, AtLeastZero, PackStatus
    <3> QED BY <1>7, <3>1, <3>2
  <2> HIDE DEF H, K
  <2> QED BY <1>2, <1>3, <1>4, <2>2, <2>3
<1>8. CASE (gen[g].fund # "PACK" \/ gen[g].from # p) /\ (Bill(g) \/ BillFails(g) \/ Release(g))
  <2>1. Holders(p)' \subseteq Holders(p)
    <3>1. gen'[g].fund = "NONE"
      <4>1. CASE Bill(g) \/ BillFails(g)
        BY <4>1, BecomeSets DEF Bill, BillFails, GenIdle
      <4>2. CASE Release(g)
        BY <4>2, BecomeSets, AddToSets, GenIdleType DEF Release, GenIdle
      <4> QED BY <1>8, <4>1, <4>2
    <3>2. \A h \in Gens \ {g} : gen'[h] = gen[h]
      BY <1>8, <1>2 DEF Bill, BillFails, Release, AddTo, Become
    <3> QED BY <3>1, <3>2 DEF Holders
  <2>2. pack'[p] = pack[p] /\ packDrafts'[p] = packDrafts[p]
    BY <1>2, <1>8 DEF Bill, BillFails, Release, PackPays
  <2>3. K \in Nat /\ K <= H
    BY <1>4, <2>1, GenCounts
  <2> HIDE DEF H, K
  <2> QED BY <1>2, <1>3, <1>4, <2>2, <2>3
<1> QED BY <1>5, <1>6, <1>7, <1>8 DEF GenStep, Quiet

\* No top-up pack is ever oversold, however draws, releases, crashes and
\* refunds interleave and however many run at once.
THEOREM TopUpsNeverOversold == Spec => []TopUpNeverOversold
<1>1. Init => TopUpAccounts
  <2> SUFFICES ASSUME Init PROVE TopUpAccounts
    OBVIOUS
  <2>1. \A p \in Packs : Holders(p) = {}
    BY DEF Init, Holders, GenIdle
  <2>2. ASSUME NEW p \in Packs
        PROVE  packDrafts[p] = 0 /\ pack[p].used = 0 /\ pack[p].status = "ACTIVE"
               /\ Cardinality(Holders(p)) = 0 /\ Credits[p] \in Nat
    BY <2>1, CreditsAssumption, FS_EmptySet DEF Init
  <2>3. \A a \in Admins : adm[a] = AdmIdle
    BY DEF Init
  <2> QED BY <2>2, <2>3 DEF TopUpAccounts
<1>2. TypeOK /\ TopUpAccounts /\ [Next]_vars => TopUpAccounts'
  <2> SUFFICES ASSUME TypeOK, TopUpAccounts, [Next]_vars PROVE TopUpAccounts'
    OBVIOUS
  <2>1. ASSUME NEW g \in Gens, GenStep(g) PROVE TopUpAccounts'
    BY <2>1, GenStepAccounts
  <2>2. ASSUME gen' = gen, packDrafts' = packDrafts
        PROVE  \A p \in Packs : Holders(p)' = Holders(p) /\ packDrafts'[p] = packDrafts[p]
    BY <2>2 DEF Holders
  <2>3. ASSUME NEW a \in Admins, AdminWrite(a) PROVE TopUpAccounts'
    <3>1. /\ pack' = [pack EXCEPT ![adm[a].pack] = [used |-> adm[a].used, status |-> adm[a].op]]
          /\ adm' = [adm EXCEPT ![a] = AdmIdle]
          /\ adm[a] # AdmIdle /\ gen' = gen /\ packDrafts' = packDrafts
      BY <2>3 DEF AdminWrite
    <3>2. ASSUME NEW p \in Packs \ Standing
          PROVE  pack'[p] = pack[p] \/ pack'[p].status = "REFUNDED"
      BY <3>1 DEF TopUpAccounts, TypeOK
    <3> QED BY <2>2, <3>1, <3>2 DEF TopUpAccounts, TypeOK
  <2>4. ASSUME NEW a \in Admins, NEW op \in PackStatus, NEW p \in Packs, AdminRead(a, op, p)
        PROVE  TopUpAccounts'
    <3>1. adm' = [adm EXCEPT ![a] = [op |-> op, pack |-> p, used |-> pack[p].used]]
      BY <2>4 DEF AdminRead
    <3>2. p \notin Standing => op = "REFUNDED"
      BY <2>4 DEF AdminRead, MayDo, MayRefund, MaySuspend, MayReactivate
    <3>3. UNCHANGED <<gen, pack, packDrafts>>
      BY <2>4 DEF AdminRead
    <3> QED BY <2>2, <3>1, <3>2, <3>3 DEF TopUpAccounts, TypeOK
  <2>5. CASE JobStep \/ NewMonth \/ UNCHANGED vars
    <3>1. UNCHANGED <<gen, pack, packDrafts, adm>>
      BY <2>5 DEF JobStep, JobList, JobCount, JobReadCurrent, JobWrite, JobCrash, NewMonth, vars
    <3> QED BY <2>2, <3>1 DEF TopUpAccounts
  <2> QED BY <2>1, <2>3, <2>4, <2>5 DEF Next
<1>3. TopUpAccounts => TopUpNeverOversold
  BY DEF TopUpAccounts, TopUpNeverOversold
<1> QED BY <1>1, <1>2, <1>3, TypeCorrect, PTL DEF Spec

(***************************************************************************)
(* The plan quota                                                          *)
(***************************************************************************)

\* Still deciding whether the plan pays, after having read the ledger.
Deciding(r) == \/ r.pc \in {"counted", "heal", "reserve"}
               \/ r.pc = "clamp" /\ r.then \in {"counted", "heal", "reserve"}

\* May yet bill a draft to the plan: holds a plan credit, or read a ledger
\* below the limit and has not decided.
MayBillPlan(r) == r.fund = "PLAN" \/ (Deciding(r) /\ r.seen < Limit)
InFlight == {g \in Gens : MayBillPlan(gen[g])}

\* Drafts billed this month plus drafts that may yet be billed stay within the
\* bound; past months are closed and later ones are empty.
PlanAccounts ==
  /\ \A m \in MonthIds : /\ planDrafts[m] <= ledger[m]
                         /\ m > month => planDrafts[m] = 0
                         /\ planDrafts[m] <= Limit - 1 + Cardinality(Gens)
  /\ planDrafts[month] + Cardinality(InFlight) <= Limit - 1 + Cardinality(Gens)
  /\ \A g \in Gens : gen[g].fund = "PLAN" => Limit >= 1

\* Steps of a generation other than its start and its billing.
Middle(g) ==
  \/ ReadCounter(g) \/ Heal(g) \/ ReservePlan(g) \/ UndoPlan(g) \/ ListPacks(g)
  \/ DrawPack(g) \/ NoCredit(g) \/ StoreDraft(g) \/ GenerationFails(g)
  \/ SupersedeFails(g) \/ BillFails(g) \/ Release(g) \/ Clamp(g) \/ Crash(g)

\* In those steps no generation newly becomes one that may bill the plan.
LEMMA MiddleInFlight ==
  ASSUME TypeOK, NEW g \in Gens, Middle(g)
  PROVE  /\ InFlight' \subseteq InFlight
         /\ gen'[g].fund = "PLAN" => gen[g].fund = "PLAN" \/ Limit >= 1
         /\ \A h \in Gens \ {g} : gen'[h] = gen[h]
<1>1. gen[g] \in GenType /\ gen \in [Gens -> GenType]
  BY DEF TypeOK, GenType
<1>2. \A h \in Gens \ {g} : gen'[h] = gen[h]
  BY <1>1 DEF Middle, ReadCounter, Heal, ReservePlan, UndoPlan, ListPacks, DrawPack, NoCredit,
         StoreDraft, GenerationFails, SupersedeFails, BillFails, Release, Clamp, Crash, AddTo, Become
<1>3. /\ MayBillPlan(gen'[g]) => MayBillPlan(gen[g])
      /\ gen'[g].fund = "PLAN" => gen[g].fund = "PLAN" \/ Limit >= 1
  <2>1. CASE ReadCounter(g)
    <3>1. gen[g].pc = "counted" /\ gen'[g].fund = gen[g].fund /\ gen'[g].seen = gen[g].seen
      <4>1. \/ gen'[g] = To(g, "reserve")
            \/ \E excess : gen'[g] = [To(g, "heal") EXCEPT !.excess = excess]
        BY <2>1, BecomeSets DEF ReadCounter
      <4>2. gen[g].pc = "counted"
        BY <2>1 DEF ReadCounter
      <4> QED BY <1>1, <4>1, <4>2 DEF To, GenType
    <3> QED BY <3>1 DEF MayBillPlan, Deciding
  <2>2. CASE Heal(g)
    <3>1. [To(g, "reserve") EXCEPT !.excess = 0] \in GenType
      BY <1>1, FieldTypes DEF To, GenPc
    <3>2. gen'[g].fund = [To(g, "reserve") EXCEPT !.excess = 0].fund
          /\ gen'[g].seen = [To(g, "reserve") EXCEPT !.excess = 0].seen
      BY <2>2, <3>1, AddToSets DEF Heal
    <3>3. gen'[g].fund = gen[g].fund /\ gen'[g].seen = gen[g].seen /\ gen[g].pc = "heal"
      BY <1>1, <2>2, <3>2 DEF To, GenType, Heal
    <3> QED BY <3>3 DEF MayBillPlan, Deciding
  <2>3. CASE ReservePlan(g)
    <3>1. gen[g].pc = "reserve" /\ gen[g].seen < Limit /\ gen[g].seen \in Nat
      BY <1>1, <2>3 DEF ReservePlan, GenType
    <3> QED BY <3>1, CreditsAssumption DEF MayBillPlan, Deciding
  <2>4. CASE UndoPlan(g)
    <3>1. To(g, "packs") \in GenType
      BY <1>1, FieldTypes DEF To, GenPc
    <3>2. /\ gen'[g].fund = To(g, "packs").fund
          /\ \/ gen'[g].pc = To(g, "packs").pc
             \/ gen'[g].pc = "clamp" /\ gen'[g].then = To(g, "packs").pc
      BY <2>4, <3>1, AddToSets DEF UndoPlan
    <3>3. To(g, "packs").fund = gen[g].fund /\ To(g, "packs").pc = "packs"
      BY <1>1 DEF To, GenType
    <3> QED BY <3>2, <3>3 DEF MayBillPlan, Deciding
  <2>5. CASE ListPacks(g)
    <3>1. \E S : gen'[g] = [GenIdle EXCEPT !.pc = "draw", !.todo = S]
      BY <2>5, BecomeSets DEF ListPacks
    <3> QED BY <3>1 DEF GenIdle, MayBillPlan, Deciding
  <2>6. CASE DrawPack(g)
    <3>1. gen[g].pc = "draw"
      BY <2>6 DEF DrawPack
    <3>2. \/ \E p : gen'[g] = [GenIdle EXCEPT !.pc = "setup", !.fund = "PACK", !.from = p]
          \/ \E S : gen'[g] = [gen[g] EXCEPT !.todo = S]
      BY <2>6, BecomeSets DEF DrawPack
    <3>3. \/ gen'[g].fund = "PACK" /\ gen'[g].pc = "setup"
          \/ gen'[g].fund = gen[g].fund /\ gen'[g].pc = "draw"
      BY <1>1, <3>1, <3>2 DEF GenIdle, GenType
    <3> QED BY <3>3 DEF MayBillPlan, Deciding
  <2>7. CASE NoCredit(g) \/ StoreDraft(g) \/ GenerationFails(g)
    <3>1. \E x \in {"setup", "refused", "running", "release"} : gen'[g] = To(g, x)
      BY <2>7, BecomeSets DEF NoCredit, StoreDraft, GenerationFails
    <3>2. gen'[g].fund = gen[g].fund /\ gen'[g].pc \in {"setup", "refused", "running", "release"}
      BY <1>1, <3>1 DEF To, GenType
    <3> QED BY <3>2 DEF MayBillPlan, Deciding
  <2>8. CASE SupersedeFails(g) \/ BillFails(g) \/ Crash(g)
    <3>1. gen'[g] = GenIdle
      BY <2>8, BecomeSets DEF SupersedeFails, BillFails, Crash
    <3> QED BY <3>1 DEF GenIdle, MayBillPlan, Deciding
  <2>9. CASE Release(g)
    <3>1. \/ Become(g, GenIdle)
          \/ AddTo(g, month, -1, GenIdle)
      BY <2>9 DEF Release
    <3>2. /\ gen'[g].fund = GenIdle.fund
          /\ \/ gen'[g].pc = GenIdle.pc
             \/ gen'[g].pc = "clamp" /\ gen'[g].then = GenIdle.pc
      BY <3>1, BecomeSets, AddToSets, GenIdleType
    <3> QED BY <3>2 DEF GenIdle, MayBillPlan, Deciding
  <2>10. CASE Clamp(g)
    <3>1. gen'[g] = [To(g, gen[g].then) EXCEPT !.then = "idle"] /\ gen[g].pc = "clamp"
      BY <2>10, BecomeSets DEF Clamp
    <3>2. /\ gen'[g].fund = gen[g].fund /\ gen'[g].seen = gen[g].seen
          /\ gen'[g].pc = gen[g].then /\ gen'[g].then = "idle"
      BY <1>1, <3>1 DEF To, GenType
    <3>3. Deciding(gen'[g]) => gen[g].then \in {"counted", "heal", "reserve"}
      BY <3>2 DEF Deciding
    <3> QED BY <3>1, <3>2, <3>3 DEF MayBillPlan, Deciding
  <2> QED BY <2>1, <2>2, <2>3, <2>4, <2>5, <2>6, <2>7, <2>8, <2>9, <2>10 DEF Middle
<1> QED BY <1>2, <1>3 DEF InFlight

\* A generation's step keeps the plan accounts.
LEMMA GenStepPlan ==
  ASSUME TypeOK, PlanAccounts, NEW g \in Gens, GenStep(g)
  PROVE  PlanAccounts'
<1> DEFINE N == Cardinality(Gens)
           F == Cardinality(InFlight)
           G == Cardinality(InFlight')
<1>1. /\ N \in Nat /\ F \in Nat /\ InFlight \in SUBSET Gens /\ Limit \in Nat
      /\ month \in MonthIds
      /\ \A m \in MonthIds : planDrafts[m] \in Nat /\ ledger[m] \in Nat
      /\ planDrafts \in [MonthIds -> Nat] /\ ledger \in [MonthIds -> Nat]
  BY CreditsAssumption, GenCounts, FS_CardinalityType DEF TypeOK, InFlight
<1>2. gen[g] \in GenType /\ gen \in [Gens -> GenType]
  BY DEF TypeOK, GenType
<1>3. CASE Middle(g)
  <2>1. UNCHANGED <<month, ledger, planDrafts>>
    BY <1>3 DEF Middle, ReadCounter, Heal, ReservePlan, UndoPlan, ListPacks, DrawPack, NoCredit,
       StoreDraft, GenerationFails, SupersedeFails, BillFails, Release, Clamp, Crash
  <2>2. G \in Nat /\ G <= F
    BY <1>1, <1>3, MiddleInFlight, GenCounts
  <2>3. \A h \in Gens : gen'[h].fund = "PLAN" => Limit >= 1
    BY <1>3, MiddleInFlight DEF PlanAccounts
  <2>4. planDrafts[month] + F <= Limit - 1 + N
    BY DEF PlanAccounts
  <2>5. planDrafts'[month'] + G <= Limit - 1 + N
    <3> HIDE DEF F, G, N
    <3> QED BY <1>1, <2>1, <2>2, <2>4
  <2> QED BY <2>1, <2>3, <2>5 DEF PlanAccounts
<1>4. CASE CountLedger(g)
  <2>1. UNCHANGED <<month, ledger, planDrafts>>
    BY <1>4 DEF CountLedger
  <2>2. gen'[g] = [GenIdle EXCEPT !.pc = "counted", !.month = month, !.seen = ledger[month]]
        /\ \A h \in Gens \ {g} : gen'[h] = gen[h]
    BY <1>4, BecomeSets DEF CountLedger
  <2>3. gen'[g].fund = "NONE" /\ gen'[g].seen = ledger[month]
    BY <2>2 DEF GenIdle
  <2>4. G \in Nat /\ G <= N
    <3>1. InFlight' \in SUBSET Gens
      BY DEF InFlight
    <3> QED BY <3>1, GenCounts
  <2>5. planDrafts'[month'] + G <= Limit - 1 + N
    <3>1. CASE ledger[month] < Limit
      <4>1. planDrafts[month] <= ledger[month]
        BY <1>1 DEF PlanAccounts
      <4> HIDE DEF F, G, N
      <4> QED BY <1>1, <2>1, <2>4, <3>1, <4>1
    <3>2. CASE ~ (ledger[month] < Limit)
      <4>1. InFlight' \subseteq InFlight
        BY <2>2, <2>3, <3>2 DEF InFlight, MayBillPlan
      <4>2. G <= F
        BY <1>1, <4>1, GenCounts
      <4>3. planDrafts[month] + F <= Limit - 1 + N
        BY DEF PlanAccounts
      <4> HIDE DEF F, G, N
      <4> QED BY <1>1, <2>1, <2>4, <4>2, <4>3
    <3> QED BY <3>1, <3>2
  <2> QED BY <2>1, <2>2, <2>3, <2>5 DEF PlanAccounts
<1>5. CASE Bill(g)
  <2>1. gen'[g] = GenIdle /\ \A h \in Gens \ {g} : gen'[h] = gen[h]
    BY <1>5, BecomeSets DEF Bill
  <2>2. ~ MayBillPlan(gen'[g]) /\ gen'[g].fund = "NONE"
    BY <2>1 DEF MayBillPlan, Deciding, GenIdle
  <2>3. InFlight' \subseteq InFlight \ {g}
    BY <2>1, <2>2 DEF InFlight
  <2>4. /\ month' = month
        /\ ledger' = [ledger EXCEPT ![month] = @ + 1]
        /\ planDrafts' = IF gen[g].fund = "PLAN"
                         THEN [planDrafts EXCEPT ![month] = @ + 1] ELSE planDrafts
    BY <1>5 DEF Bill
  <2>5. planDrafts[month] + F <= Limit - 1 + N
    BY DEF PlanAccounts
  <2>6. planDrafts'[month] + G <= Limit - 1 + N /\ G \in Nat
    <3>1. CASE gen[g].fund = "PLAN"
      <4>1. g \in InFlight
        BY <3>1 DEF InFlight, MayBillPlan
      <4>2. Cardinality(InFlight \ {g}) = F - 1
        BY <1>1, <4>1, GenCounts
      <4>3. G \in Nat /\ G <= F - 1
        BY <1>1, <2>3, <4>2, GenCounts
      <4>4. planDrafts'[month] = planDrafts[month] + 1
        BY <1>1, <2>4, <3>1
      <4> HIDE DEF F, G, N
      <4> QED BY <1>1, <2>5, <4>3, <4>4
    <3>2. CASE gen[g].fund # "PLAN"
      <4>1. G \in Nat /\ G <= F
        BY <1>1, <2>3, GenCounts
      <4> HIDE DEF F, G, N
      <4> QED BY <1>1, <2>4, <2>5, <3>2, <4>1
    <3> QED BY <3>1, <3>2
  <2>7. ASSUME NEW m \in MonthIds
        PROVE  /\ planDrafts'[m] <= ledger'[m]
               /\ m > month => planDrafts'[m] = 0
               /\ planDrafts'[m] <= Limit - 1 + N
    <3>1. CASE m = month
      <4>1. planDrafts'[m] <= ledger'[m]
        BY <1>1, <2>4, <3>1 DEF PlanAccounts
      <4>2. m \in Nat
        BY DEF MonthIds
      <4>3. planDrafts'[m] \in Nat
        BY <1>1, <2>4
      <4> HIDE DEF F, G, N
      <4> QED BY <1>1, <2>6, <3>1, <4>1, <4>2, <4>3
    <3>2. CASE m # month
      <4>1. planDrafts'[m] = planDrafts[m] /\ ledger'[m] = ledger[m]
        BY <1>1, <2>4, <3>2
      <4> QED BY <4>1 DEF PlanAccounts
    <3> QED BY <3>1, <3>2
  <2> QED BY <2>1, <2>2, <2>4, <2>6, <2>7 DEF PlanAccounts
<1> QED BY <1>3, <1>4, <1>5 DEF GenStep, Middle

\* However the self-heal and the stale-release job race with reservations, the
\* plan pays for fewer than Cardinality(Gens) drafts beyond the limit a month.
THEOREM PlanOvershootIsBounded == Spec => []PlanOvershootBounded
<1> DEFINE N == Cardinality(Gens)
<1>1. N \in Nat \ {0} /\ Limit \in Nat
  BY CreditsAssumption, FS_CardinalityType, FS_EmptySet
<1>2. Init => PlanAccounts
  <2> SUFFICES ASSUME Init PROVE PlanAccounts
    OBVIOUS
  <2>1. Cardinality(InFlight) = 0
    <3>1. InFlight = {}
      BY DEF Init, InFlight, MayBillPlan, Deciding, GenIdle
    <3> QED BY <3>1, FS_EmptySet
  <2>2. /\ \A m \in MonthIds : planDrafts[m] = 0 /\ ledger[m] = 0
        /\ month \in MonthIds
        /\ \A g \in Gens : gen[g].fund = "NONE"
    BY CreditsAssumption DEF Init, GenIdle, MonthIds
  <2> HIDE DEF N
  <2> QED BY <1>1, <2>1, <2>2 DEF PlanAccounts, N
<1>3. TypeOK /\ PlanAccounts /\ [Next]_vars => PlanAccounts'
  <2> SUFFICES ASSUME TypeOK, PlanAccounts, [Next]_vars PROVE PlanAccounts'
    OBVIOUS
  <2>1. ASSUME NEW g \in Gens, GenStep(g) PROVE PlanAccounts'
    BY <2>1, GenStepPlan
  <2>2. CASE NewMonth
    <3>1. month' = month + 1 /\ UNCHANGED <<ledger, planDrafts, gen>>
      BY <2>2 DEF NewMonth
    <3>2. InFlight' = InFlight
      BY <3>1 DEF InFlight
    <3>3. month' \in MonthIds /\ month \in Nat
      BY <2>2, CreditsAssumption DEF NewMonth, MonthIds, TypeOK
    <3>4. planDrafts'[month'] = 0
      BY <3>1, <3>3 DEF PlanAccounts
    <3>5. 0 + Cardinality(InFlight) <= Limit - 1 + N
      <4>1. CASE InFlight = {}
        BY <1>1, <4>1, FS_EmptySet
      <4>2. CASE InFlight # {}
        <5>1. PICK g \in Gens : MayBillPlan(gen[g])
          BY <4>2 DEF InFlight
        <5>2. gen[g].seen \in Nat
          BY DEF TypeOK
        <5>3. Limit >= 1
          BY <1>1, <5>1, <5>2 DEF MayBillPlan, PlanAccounts
        <5>4. Cardinality(InFlight) \in Nat /\ Cardinality(InFlight) <= N
          <6>1. InFlight \in SUBSET Gens
            BY DEF InFlight
          <6> QED BY <6>1, GenCounts
        <5> HIDE DEF N
        <5> QED BY <1>1, <5>3, <5>4
      <4> QED BY <4>1, <4>2
    <3>6. \A m \in MonthIds : m > month' => m > month
      BY <3>1, <3>3 DEF MonthIds
    <3> QED BY <3>1, <3>2, <3>4, <3>5, <3>6 DEF PlanAccounts
  <2>3. CASE UNCHANGED <<month, ledger, planDrafts, gen>>
    <3>1. InFlight' = InFlight
      BY <2>3 DEF InFlight
    <3> QED BY <2>3, <3>1 DEF PlanAccounts
  <2>4. JobStep \/ (\E a \in Admins : AdminWrite(a)
                     \/ \E op \in PackStatus, p \in Packs : AdminRead(a, op, p))
        \/ UNCHANGED vars => UNCHANGED <<month, ledger, planDrafts, gen>>
    BY DEF JobStep, JobList, JobCount, JobReadCurrent, JobWrite, JobCrash, AdminWrite, AdminRead, vars
  <2> QED BY <2>1, <2>2, <2>3, <2>4 DEF Next
<1>4. PlanAccounts => PlanOvershootBounded
  BY DEF PlanAccounts, PlanOvershootBounded
<1> QED BY <1>2, <1>3, <1>4, TypeCorrect, PTL DEF Spec

(***************************************************************************)
(* Nobody is locked out                                                    *)
(***************************************************************************)

\* Months to come are untouched, and what the job is about to write is covered
\* by the ledger.
Books ==
  /\ job.month <= month
  /\ job.pc \in {"clamp", "write"} => job.target <= ledger[job.month]
  /\ \A g \in Gens : gen[g].month <= month
  /\ \A m \in MonthIds : m > month => counter[m] = 0

\* What add() leaves in the counter and in the record of its caller.
LEMMA AddToCounts ==
  ASSUME TypeOK, NEW g \in Gens, NEW m \in MonthIds, NEW d \in Int, NEW next \in GenType,
         AddTo(g, m, d, next)
  PROVE  /\ counter'[m] = counter[m] + d
         /\ \A n \in MonthIds \ {m} : counter'[n] = counter[n]
         /\ \/ gen'[g] = next
            \/ /\ gen'[g].pc = "clamp" /\ gen'[g].then = next.pc
               /\ gen'[g].month = m /\ gen'[g].seen = next.seen
         /\ \A h \in Gens \ {g} : gen'[h] = gen[h]
<1>1. \/ gen'[g] = [next EXCEPT !.pc = "clamp", !.then = next.pc, !.month = m]
      \/ gen'[g] = next
  BY BecomeSets DEF AddTo
<1>2. DOMAIN next = {"pc", "month", "seen", "excess", "fund", "from", "todo", "then"}
  BY DEF GenType
<1>3. gen'[g] = [next EXCEPT !.pc = "clamp", !.then = next.pc, !.month = m]
      => /\ gen'[g].pc = "clamp" /\ gen'[g].then = next.pc
         /\ gen'[g].month = m /\ gen'[g].seen = next.seen
  BY <1>2
<1>4. \A h \in Gens \ {g} : gen'[h] = gen[h]
  BY AddToSets
<1>5. counter'[m] = counter[m] + d /\ \A n \in MonthIds \ {m} : counter'[n] = counter[n]
  BY DEF AddTo, TypeOK
<1> QED BY <1>1, <1>3, <1>4, <1>5

\* Which month a step of a generation works on: one that is not to come.
InMonth(g) ==
  /\ gen'[g].month <= month
  /\ \A m \in MonthIds : m > month => counter'[m] = counter[m]
  /\ \A h \in Gens \ {g} : gen'[h] = gen[h]

LEMMA MonthTypes ==
  ASSUME TypeOK
  PROVE  /\ month \in MonthIds /\ month \in Nat /\ 1 <= month
         /\ \A m \in MonthIds : m \in Nat /\ counter[m] \in Int /\ ledger[m] \in Nat
         /\ counter \in [MonthIds -> Int] /\ ledger \in [MonthIds -> Nat]
         /\ gen \in [Gens -> GenType]
         /\ job.month \in MonthIds /\ job.target \in Int /\ job.used \in Nat
<1>1. \A m \in MonthIds : m \in Nat /\ 1 <= m
  BY CreditsAssumption DEF MonthIds
<1>2. month \in MonthIds /\ counter \in [MonthIds -> Int] /\ ledger \in [MonthIds -> Nat]
      /\ gen \in [Gens -> GenType]
  BY DEF TypeOK, GenType
<1>3. job.month \in MonthIds /\ job.target \in Int /\ job.used \in Nat
  BY DEF TypeOK
<1> QED BY <1>1, <1>2, <1>3

LEMMA AddToInMonth ==
  ASSUME TypeOK, NEW g \in Gens, NEW m \in MonthIds, m <= month, NEW d \in Int,
         NEW next \in GenType, next.month <= month, AddTo(g, m, d, next)
  PROVE  InMonth(g)
<1>1. gen'[g].month = next.month \/ gen'[g].month = m
  BY AddToCounts
<1>2. \A n \in MonthIds : n > month => n # m
  BY MonthTypes
<1> QED BY <1>1, <1>2, AddToCounts DEF InMonth

LEMMA BecomeInMonth ==
  ASSUME TypeOK, NEW g \in Gens, NEW next, next.month <= month, Become(g, next), counter' = counter
  PROVE  InMonth(g)
BY BecomeSets DEF InMonth

LEMMA LedgerGrows ==
  ASSUME TypeOK, NEW g \in Gens, GenStep(g)
  PROVE  /\ month' = month /\ job' = job
         /\ \A m \in MonthIds : ledger'[m] >= ledger[m] /\ ledger'[m] \in Nat
<1>1. CASE Bill(g)
  <2>1. ledger' = [ledger EXCEPT ![month] = @ + 1] /\ month' = month /\ job' = job
    BY <1>1 DEF Bill
  <2> QED BY <2>1, MonthTypes
<1>2. CASE ~ Bill(g)
  <2>1. ledger' = ledger /\ month' = month /\ job' = job
    BY <1>2 DEF GenStep, CountLedger, ReadCounter, Heal, ReservePlan, UndoPlan, ListPacks, DrawPack,
       NoCredit, StoreDraft, GenerationFails, SupersedeFails, BillFails, Release, Clamp, Crash
  <2> QED BY <2>1, MonthTypes
<1> QED BY <1>1, <1>2

LEMMA GenStepMonths ==
  ASSUME TypeOK, Books, NEW g \in Gens, GenStep(g)
  PROVE  InMonth(g)
<1>a. /\ gen[g] \in GenType /\ GenIdle \in GenType /\ month \in MonthIds /\ 1 <= month /\ month <= month
      /\ gen[g].month \in MonthIds /\ gen[g].month <= month /\ gen[g].excess \in Nat
      /\ - gen[g].excess \in Int /\ gen[g].then \in GenPc
  <2>1. gen[g] \in GenType
    BY MonthTypes
  <2> QED BY <2>1, MonthTypes, GenIdleType DEF Books, GenType
<1>b. GenIdle.month = 1 /\ GenIdle.month <= month
  BY <1>a DEF GenIdle
<1>c. \A x \in GenPc : To(g, x) \in GenType /\ To(g, x).month = gen[g].month
  BY <1>a, FieldTypes DEF To, GenType
<1>3. CASE CountLedger(g)
  <2>1. [GenIdle EXCEPT !.pc = "counted", !.month = month, !.seen = ledger[month]].month <= month
    BY <1>a DEF GenIdle
  <2> QED BY BecomeInMonth, <1>3, <2>1 DEF CountLedger
<1>4. CASE ReadCounter(g)
  <2> DEFINE excess == AtLeastZero(counter[gen[g].month]) - gen[g].seen
             next == IF excess > 0 THEN [To(g, "heal") EXCEPT !.excess = excess] ELSE To(g, "reserve")
  <2>1. next.month = gen[g].month
    BY <1>a, <1>c DEF GenType, To, GenPc
  <2>2. Become(g, next) /\ counter' = counter
    BY <1>4 DEF ReadCounter
  <2> HIDE DEF next
  <2> QED BY BecomeInMonth, <1>a, <2>1, <2>2
<1>5. CASE Heal(g)
  <2>0. To(g, "reserve") \in GenType /\ To(g, "reserve").month = gen[g].month
    BY <1>c DEF GenPc
  <2>1. [To(g, "reserve") EXCEPT !.excess = 0] \in GenType
        /\ [To(g, "reserve") EXCEPT !.excess = 0].month = gen[g].month
    BY <2>0, FieldTypes DEF GenType
  <2> QED BY AddToInMonth, <1>5, <1>a, <2>1 DEF Heal
<1>6. CASE ReservePlan(g)
  <2> DEFINE next == IF counter[month] + 1 <= Limit
                     THEN [GenIdle EXCEPT !.pc = "setup", !.fund = "PLAN"]
                     ELSE [GenIdle EXCEPT !.pc = "undo", !.month = month]
  <2>1. /\ [GenIdle EXCEPT !.pc = "setup", !.fund = "PLAN"] \in GenType
        /\ [GenIdle EXCEPT !.pc = "undo", !.month = month] \in GenType
    BY <1>a, FieldTypes DEF GenPc
  <2>2. next \in GenType /\ next.month <= month
    BY <1>a, <2>1 DEF GenIdle
  <2>3. AddTo(g, month, 1, next)
    BY <1>6 DEF ReservePlan
  <2> HIDE DEF next
  <2> QED BY AddToInMonth, <1>a, <2>2, <2>3
<1>7. CASE UndoPlan(g)
  BY AddToInMonth, <1>7, <1>a, <1>c DEF UndoPlan, GenPc
<1>8. CASE ListPacks(g)
  <2>1. \A S : [GenIdle EXCEPT !.pc = "draw", !.todo = S].month = 1
    BY DEF GenIdle
  <2> QED BY BecomeInMonth, <1>8, <1>a, <2>1 DEF ListPacks
<1>9. CASE DrawPack(g)
  <2>1. \A q : [GenIdle EXCEPT !.pc = "setup", !.fund = "PACK", !.from = q].month = 1
    BY DEF GenIdle
  <2>2. \A S : [gen[g] EXCEPT !.todo = S].month = gen[g].month
    BY <1>a DEF GenType
  <2>3. \/ \E q : Become(g, [GenIdle EXCEPT !.pc = "setup", !.fund = "PACK", !.from = q])
        \/ \E S : Become(g, [gen[g] EXCEPT !.todo = S])
    BY <1>9 DEF DrawPack
  <2>4. counter' = counter
    BY <1>9 DEF DrawPack
  <2> QED BY BecomeInMonth, <1>a, <2>1, <2>2, <2>3, <2>4
<1>10. CASE NoCredit(g) \/ StoreDraft(g) \/ GenerationFails(g)
  <2>1. \E x \in GenPc : Become(g, To(g, x)) /\ counter' = counter
    BY <1>10 DEF NoCredit, StoreDraft, GenerationFails, GenPc, Resting
  <2> QED BY BecomeInMonth, <1>a, <1>c, <2>1
<1>11. CASE SupersedeFails(g) \/ Bill(g) \/ BillFails(g) \/ Crash(g)
  BY BecomeInMonth, <1>11, <1>a, <1>b DEF SupersedeFails, Bill, BillFails, Crash
<1>12. CASE Release(g)
  <2>1. \/ AddTo(g, month, -1, GenIdle)
        \/ Become(g, GenIdle) /\ counter' = counter
    BY <1>12 DEF Release
  <2> QED BY AddToInMonth, BecomeInMonth, <1>a, <1>b, <2>1
<1>13. CASE Clamp(g)
  <2>1. [To(g, gen[g].then) EXCEPT !.then = "idle"].month = gen[g].month
    BY <1>a, <1>c DEF GenType
  <2>2. gen'[g].month = gen[g].month /\ \A h \in Gens \ {g} : gen'[h] = gen[h]
    BY <1>13, <2>1, BecomeSets DEF Clamp
  <2>3. \A m \in MonthIds : m > month => counter'[m] = counter[m]
    BY <1>13, <1>a, MonthTypes DEF Clamp
  <2> QED BY <1>a, <2>2, <2>3 DEF InMonth
<1> QED BY <1>3, <1>4, <1>5, <1>6, <1>7, <1>8, <1>9, <1>10, <1>11, <1>12, <1>13 DEF GenStep

\* What the job leaves in the counter.
LEMMA JobStepCounts ==
  ASSUME TypeOK, Books, JobStep
  PROVE  /\ UNCHANGED <<month, ledger, gen>>
         /\ job'.month <= month
         /\ job'.pc \in {"clamp", "write"} => job'.target <= ledger[job'.month]
         /\ \A m \in MonthIds : counter'[m] = counter[m] \/ (m <= month /\ counter'[m] <= ledger[m])
<1>a. /\ job.month \in MonthIds /\ job.month <= month /\ month \in MonthIds /\ 1 <= month
      /\ \A m \in MonthIds : m \in Nat /\ counter[m] \in Int /\ ledger[m] \in Nat
      /\ job.target \in Int /\ month \in Nat
  BY MonthTypes DEF Books
<1>1. CASE JobList
  BY <1>1, <1>a DEF JobList
<1>2. CASE JobCount
  BY <1>2, <1>a DEF JobCount, JobIdle, TypeOK
<1>3. CASE JobReadCurrent
  <2>1. /\ job.pc = "clamp" /\ job'.month = job.month
        /\ job'.target = Lesser(job.target, counter[job.month])
        /\ UNCHANGED <<month, ledger, gen, counter>>
    BY <1>3 DEF JobReadCurrent, TypeOK
  <2>2. job'.target <= ledger[job.month]
    <3>1. job.target <= ledger[job.month] /\ counter[job.month] \in Int /\ ledger[job.month] \in Nat
      BY <1>a, <2>1 DEF Books
    <3> QED BY <1>a, <2>1, <3>1 DEF Lesser
  <2> QED BY <1>a, <2>1, <2>2
<1>4. CASE JobWrite
  <2>1. job.target <= ledger[job.month] /\ job'.month = 1 /\ job'.pc = "idle"
    BY <1>4 DEF JobWrite, Books, JobIdle
  <2> QED BY <1>4, <1>a, <2>1 DEF JobWrite, TypeOK
<1>5. CASE JobCrash
  BY <1>5, <1>a DEF JobCrash, JobIdle
<1> QED BY <1>1, <1>2, <1>3, <1>4, <1>5 DEF JobStep

\* Steps that no generation takes.
LEMMA OtherSteps ==
  ASSUME [Next]_vars
  PROVE  \/ \E g \in Gens : GenStep(g)
         \/ JobStep \/ NewMonth
         \/ UNCHANGED <<month, counter, ledger, gen, job>>
<1>1. CASE \E a \in Admins : AdminWrite(a) \/ \E op \in PackStatus, p \in Packs : AdminRead(a, op, p)
  BY <1>1 DEF AdminWrite, AdminRead
<1>2. CASE UNCHANGED vars
  BY <1>2 DEF vars
<1> QED BY <1>1, <1>2 DEF Next

LEMMA BooksStep ==
  ASSUME TypeOK, Books, [Next]_vars
  PROVE  Books'
<1>1. ASSUME NEW g \in Gens, GenStep(g) PROVE Books'
  <2>1. /\ gen'[g].month <= month /\ \A h \in Gens \ {g} : gen'[h] = gen[h]
        /\ \A m \in MonthIds : m > month => counter'[m] = counter[m]
    BY <1>1, GenStepMonths DEF InMonth
  <2>2. month' = month /\ job' = job /\ \A m \in MonthIds : ledger'[m] >= ledger[m] /\ ledger'[m] \in Nat
    BY <1>1, LedgerGrows
  <2>3. job.pc \in {"clamp", "write"} => job.target <= ledger'[job.month]
    BY <2>2, MonthTypes DEF Books
  <2> QED BY <2>1, <2>2, <2>3 DEF Books
<1>2. CASE JobStep
  <2>1. \A m \in MonthIds : m > month => ~ (m <= month)
    BY MonthTypes
  <2> QED BY <1>2, <2>1, JobStepCounts DEF Books
<1>3. CASE NewMonth
  <2>1. month' = month + 1 /\ UNCHANGED <<counter, ledger, gen, job>>
    BY <1>3 DEF NewMonth
  <2>2. \A m \in MonthIds : (m <= month => m <= month') /\ (m > month' => m > month)
    BY <2>1, MonthTypes
  <2>3. \A g \in Gens : gen[g].month \in MonthIds
    BY DEF TypeOK
  <2> QED BY <2>1, <2>2, <2>3, MonthTypes DEF Books
<1>4. CASE UNCHANGED <<month, counter, ledger, gen, job>>
  BY <1>4 DEF Books
<1> QED BY <1>1, <1>2, <1>3, <1>4, OtherSteps

LEMMA BooksInit == Init => Books
<1> SUFFICES ASSUME Init PROVE Books
  OBVIOUS
<1>1. /\ month = 1 /\ job = JobIdle /\ gen = [g \in Gens |-> GenIdle]
      /\ \A m \in MonthIds : m > month => counter[m] = 0
  BY DEF Init, MonthIds
<1> QED BY <1>1 DEF Books, JobIdle, GenIdle

THEOREM BooksAreKept == Spec => [](TypeOK /\ Books)
<1>1. TypeOK /\ Books /\ [Next]_vars => Books'
  BY BooksStep
<1> QED BY <1>1, BooksInit, TypeCorrect, PTL DEF Spec

\* A generation that is being served, or rests: the plan has a credit for it
\* when it comes to reserve one, whatever earlier generations have leaked.
Fine == OneAtATime /\ ledger[month] < Limit
Served(r) ==
  /\ r.pc \notin {"undo", "packs", "draw"}
  /\ r.pc = "clamp" => r.then \in {"idle", "reserve", "setup"}
  /\ Deciding(r) => r.seen < Limit /\ (r.month < month => counter[month] <= ledger[month])
  /\ r.pc = "counted" => r.seen <= ledger[r.month]
  /\ r.pc = "heal" => counter[r.month] <= ledger[r.month] + r.excess
  /\ r.pc = "reserve" => counter[r.month] <= ledger[r.month]
AllServed == \A g \in Gens : Served(gen[g])

\* Those that have their answer, or wait for none, are served.
LEMMA ServedAtRest ==
  ASSUME NEW g \in Gens, gen'[g].pc \in Resting \cup {"setup", "running", "release"}
  PROVE  Served(gen[g])'
BY DEF Served, Deciding, Resting

\* A generation that is served and goes on is not refused, and stays served.
LEMMA ServedStep ==
  ASSUME TypeOK, Books, NEW g \in Gens, GenStep(g), ledger[month] < Limit, Served(gen[g])
  PROVE  Served(gen[g])'
<1>a. /\ gen[g] \in GenType /\ gen[g].month \in MonthIds /\ gen[g].month <= month
      /\ gen[g].seen \in Nat /\ gen[g].excess \in Nat /\ - gen[g].excess \in Int
      /\ gen[g].month \in Nat
  <2>1. gen[g] \in GenType
    BY MonthTypes
  <2> QED BY <2>1, MonthTypes DEF Books, GenType
<1>b. \A m \in MonthIds : counter[m] \in Int /\ ledger[m] \in Nat /\ m \in Nat
  BY MonthTypes
<1>l. Limit \in Nat /\ month \in MonthIds /\ month \in Nat
  BY CreditsAssumption, MonthTypes
<1>c. \A x \in GenPc : /\ To(g, x) \in GenType /\ To(g, x).pc = x
                       /\ To(g, x).month = gen[g].month /\ To(g, x).seen = gen[g].seen
  BY <1>a, FieldTypes DEF To, GenType
<1>1. CASE CountLedger(g)
  <2>1. gen'[g] = [GenIdle EXCEPT !.pc = "counted", !.month = month, !.seen = ledger[month]]
        /\ UNCHANGED <<month, counter, ledger>>
    BY <1>1, BecomeSets DEF CountLedger
  <2>2. gen'[g].pc = "counted" /\ gen'[g].month = month /\ gen'[g].seen = ledger[month]
    BY <2>1 DEF GenIdle
  <2> QED BY <1>b, <1>l, <2>1, <2>2 DEF Served, Deciding
<1>2. CASE ReadCounter(g)
  <2> DEFINE m == gen[g].month
             excess == AtLeastZero(counter[m]) - gen[g].seen
  <2>1. /\ gen[g].pc = "counted" /\ UNCHANGED <<month, counter, ledger>>
        /\ gen'[g] = IF excess > 0 THEN [To(g, "heal") EXCEPT !.excess = excess] ELSE To(g, "reserve")
    BY <1>2, BecomeSets DEF ReadCounter
  <2>2. /\ gen[g].seen < Limit /\ gen[g].seen <= ledger[m]
        /\ m < month => counter[month] <= ledger[month]
    BY <2>1 DEF Served, Deciding
  <2>3. excess \in Int /\ counter[m] <= gen[g].seen + excess /\ counter[m] \in Int /\ ledger[m] \in Nat
    BY <1>a, <1>b DEF AtLeastZero
  <2>4. CASE excess > 0
    <3>1. /\ gen'[g].pc = "heal" /\ gen'[g].excess = excess
          /\ gen'[g].month = m /\ gen'[g].seen = gen[g].seen
      <4>1. To(g, "heal") \in GenType /\ To(g, "heal").pc = "heal" /\ To(g, "heal").month = m
            /\ To(g, "heal").seen = gen[g].seen
        BY <1>c DEF GenPc
      <4>2. gen'[g] = [To(g, "heal") EXCEPT !.excess = excess]
        BY <2>1, <2>4
      <4> HIDE DEF excess, m
      <4> QED BY <4>1, <4>2 DEF GenType
    <3>2. counter[m] <= ledger[m] + excess
      <4> HIDE DEF excess, m
      <4> QED BY <1>a, <2>2, <2>3
    <3> HIDE DEF excess, m
    <3> QED BY <2>1, <2>2, <3>1, <3>2 DEF Served, Deciding
  <2>5. CASE ~ (excess > 0)
    <3>1. gen'[g].pc = "reserve" /\ gen'[g].month = m /\ gen'[g].seen = gen[g].seen
      <4>1. gen'[g] = To(g, "reserve")
        BY <2>1, <2>5
      <4> HIDE DEF excess
      <4> QED BY <1>c, <4>1 DEF GenPc
    <3>2. counter[m] <= ledger[m]
      <4> HIDE DEF excess, m
      <4> QED BY <1>a, <2>2, <2>3, <2>5
    <3> HIDE DEF excess, m
    <3> QED BY <2>1, <2>2, <3>1, <3>2 DEF Served, Deciding
  <2> QED BY <2>4, <2>5
<1>3. CASE Heal(g)
  <2> DEFINE m == gen[g].month
             next == [To(g, "reserve") EXCEPT !.excess = 0]
  <2>1. /\ next \in GenType /\ next.pc = "reserve" /\ next.month = m /\ next.seen = gen[g].seen
    <3>1. To(g, "reserve") \in GenType /\ To(g, "reserve").pc = "reserve" /\ To(g, "reserve").month = m
          /\ To(g, "reserve").seen = gen[g].seen
      BY <1>c DEF GenPc
    <3>2. next \in GenType
      BY <3>1, FieldTypes
    <3> QED BY <3>1, <3>2 DEF GenType
  <2>2. AddTo(g, m, - gen[g].excess, next) /\ gen[g].pc = "heal" /\ UNCHANGED <<month, ledger>>
    BY <1>3 DEF Heal
  <2>3. /\ counter'[m] = counter[m] - gen[g].excess
        /\ \A n \in MonthIds \ {m} : counter'[n] = counter[n]
        /\ \/ gen'[g] = next
           \/ /\ gen'[g].pc = "clamp" /\ gen'[g].then = "reserve"
              /\ gen'[g].month = m /\ gen'[g].seen = gen[g].seen
    <3> HIDE DEF next, m
    <3>1. /\ counter'[m] = counter[m] + (- gen[g].excess)
          /\ \A n \in MonthIds \ {m} : counter'[n] = counter[n]
          /\ \/ gen'[g] = next
             \/ /\ gen'[g].pc = "clamp" /\ gen'[g].then = next.pc
                /\ gen'[g].month = m /\ gen'[g].seen = next.seen
      <4>1. m \in MonthIds
        BY <1>a DEF m
      <4> QED BY <1>a, <2>1, <2>2, <4>1, AddToCounts
    <3>2. counter[m] + (- gen[g].excess) = counter[m] - gen[g].excess
      BY <1>a, <1>b DEF m
    <3> QED BY <2>1, <3>1, <3>2
  <2>4. /\ gen[g].seen < Limit /\ counter[m] <= ledger[m] + gen[g].excess
        /\ m < month => counter[month] <= ledger[month]
    BY <2>2 DEF Served, Deciding
  <2>5. counter'[m] <= ledger[m]
    <3>1. counter[m] \in Int /\ ledger[m] \in Nat
      BY <1>a, <1>b
    <3> HIDE DEF next, m
    <3> QED BY <1>a, <2>3, <2>4, <3>1
  <2>6. m < month => counter'[month] <= ledger[month]
    <3>1. m < month => m # month
      BY <1>a, <1>l
    <3> HIDE DEF m, next
    <3> QED BY <1>l, <2>3, <2>4, <3>1
  <2>7. /\ gen'[g].seen = gen[g].seen /\ gen'[g].month = m
        /\ gen'[g].pc = "reserve" \/ (gen'[g].pc = "clamp" /\ gen'[g].then = "reserve")
    BY <2>1, <2>3
  <2> HIDE DEF m, next
  <2> QED BY <2>2, <2>4, <2>5, <2>6, <2>7 DEF Served, Deciding
<1>4. CASE ReservePlan(g)
  <2>1. gen[g].pc = "reserve" /\ AddTo(g, month, 1, IF counter[month] + 1 <= Limit
                        THEN [GenIdle EXCEPT !.pc = "setup", !.fund = "PLAN"]
                        ELSE [GenIdle EXCEPT !.pc = "undo", !.month = month])
    BY <1>4 DEF ReservePlan
  <2>2. counter[month] <= ledger[month]
    <3>1. gen[g].month = month \/ gen[g].month < month
      BY <1>a, <1>l
    <3> QED BY <2>1, <3>1 DEF Served, Deciding
  <2>3. counter[month] + 1 <= Limit
    BY <1>b, <1>l, <2>2
  <2> DEFINE next == [GenIdle EXCEPT !.pc = "setup", !.fund = "PLAN"]
  <2>4. next \in GenType /\ next.pc = "setup"
    BY GenIdleType, FieldTypes DEF GenPc, GenIdle
  <2>5. AddTo(g, month, 1, next)
    BY <2>1, <2>3
  <2>6. gen'[g].pc = "setup" \/ (gen'[g].pc = "clamp" /\ gen'[g].then = "setup")
    <3> HIDE DEF next
    <3> QED BY <1>l, <2>4, <2>5, AddToCounts
  <2> QED BY <2>6 DEF Served, Deciding
<1>5. CASE UndoPlan(g) \/ ListPacks(g) \/ DrawPack(g) \/ NoCredit(g)
  <2>1. \/ gen[g].pc \in {"undo", "packs", "draw"}
        \/ gen[g].pc = "reserve" /\ gen[g].seen >= Limit
    BY <1>5 DEF UndoPlan, ListPacks, DrawPack, NoCredit
  <2>2. gen[g].pc \notin {"undo", "packs", "draw"} /\ (gen[g].pc = "reserve" => gen[g].seen < Limit)
    BY DEF Served, Deciding
  <2> QED BY <1>a, <1>l, <2>1, <2>2
<1>6. CASE StoreDraft(g) \/ GenerationFails(g)
  <2>1. \E x \in {"running", "release"} : gen'[g] = To(g, x)
    BY <1>6, BecomeSets DEF StoreDraft, GenerationFails
  <2>2. gen'[g].pc \in {"running", "release"}
    BY <1>c, <2>1 DEF GenPc
  <2> QED BY <2>2, ServedAtRest
<1>7. CASE SupersedeFails(g) \/ Bill(g) \/ BillFails(g) \/ Crash(g)
  <2>1. gen'[g] = GenIdle
    BY <1>7, BecomeSets DEF SupersedeFails, Bill, BillFails, Crash
  <2> QED BY <2>1, ServedAtRest DEF GenIdle, Resting
<1>8. CASE Release(g)
  <2>1. \/ AddTo(g, month, -1, GenIdle)
        \/ Become(g, GenIdle)
    BY <1>8 DEF Release
  <2>2. gen'[g] = GenIdle \/ (gen'[g].pc = "clamp" /\ gen'[g].then = "idle")
    BY <1>l, <2>1, AddToCounts, BecomeSets, GenIdleType DEF GenIdle
  <2> QED BY <2>2 DEF Served, Deciding, GenIdle
<1>9. CASE Clamp(g)
  <2> DEFINE m == gen[g].month
  <2>1. /\ gen'[g] = [To(g, gen[g].then) EXCEPT !.then = "idle"] /\ gen[g].pc = "clamp"
        /\ counter' = [counter EXCEPT ![m] = 0] /\ UNCHANGED <<month, ledger>>
    BY <1>9, BecomeSets DEF Clamp
  <2>2. gen[g].then \in {"idle", "reserve", "setup"}
    BY <2>1 DEF Served
  <2>3. gen'[g].pc = gen[g].then /\ gen'[g].month = m /\ gen'[g].seen = gen[g].seen
    BY <1>a, <2>1 DEF To, GenType
  <2>4. CASE gen[g].then = "reserve"
    <3>1. /\ gen[g].seen < Limit
          /\ m < month => counter[month] <= ledger[month]
      BY <2>1, <2>4 DEF Served, Deciding
    <3>2. counter'[m] = 0 /\ (m < month => counter'[month] = counter[month])
      BY <1>a, <1>l, <2>1, MonthTypes
    <3>3. counter'[m] <= ledger[m]
      BY <1>a, <1>b, <3>2
    <3> HIDE DEF m
    <3> QED BY <2>1, <2>3, <2>4, <3>1, <3>2, <3>3 DEF Served, Deciding
  <2>5. CASE gen[g].then # "reserve"
    BY <2>2, <2>3, <2>5, ServedAtRest DEF Resting
  <2> QED BY <2>4, <2>5
<1> QED BY <1>1, <1>2, <1>3, <1>4, <1>5, <1>6, <1>7, <1>8, <1>9 DEF GenStep

\* What the job writes and the turn of the month take nobody's credit away.
LEMMA ServedMeanwhile ==
  ASSUME TypeOK, TypeOK', Books, NEW g \in Gens, Served(gen[g]),
         JobStep \/ NewMonth \/ UNCHANGED <<month, counter, ledger, gen, job>>
  PROVE  Served(gen[g])'
<1>a. gen[g].month \in MonthIds /\ gen[g].month <= month /\ gen[g].excess \in Nat /\ gen[g].month \in Nat
  <2>1. gen[g] \in GenType
    BY MonthTypes
  <2> QED BY <2>1, MonthTypes DEF Books, GenType
<1>b. /\ \A m \in MonthIds : counter[m] \in Int /\ ledger[m] \in Nat /\ m \in Nat
      /\ month \in MonthIds /\ month \in Nat
  BY MonthTypes
<1>1. CASE JobStep
  <2>1. /\ UNCHANGED <<month, ledger, gen>>
        /\ \A m \in MonthIds : counter'[m] = counter[m] \/ counter'[m] <= ledger[m]
    BY <1>1, JobStepCounts
  <2>2. counter[gen[g].month] <= ledger[gen[g].month] + gen[g].excess
        => counter'[gen[g].month] <= ledger[gen[g].month] + gen[g].excess
    <3>1. ledger[gen[g].month] <= ledger[gen[g].month] + gen[g].excess
      BY <1>a, <1>b
    <3>2. CASE counter'[gen[g].month] = counter[gen[g].month]
      BY <3>2
    <3>3. CASE counter'[gen[g].month] # counter[gen[g].month]
      <4>1. counter'[gen[g].month] <= ledger[gen[g].month]
        BY <1>a, <2>1, <3>3
      <4>2. counter'[gen[g].month] \in Int
        BY <1>a DEF TypeOK
      <4> QED BY <1>a, <1>b, <4>1, <4>2
    <3> QED BY <3>2, <3>3
  <2>3. /\ counter[month] <= ledger[month] => counter'[month] <= ledger[month]
        /\ counter[gen[g].month] <= ledger[gen[g].month]
           => counter'[gen[g].month] <= ledger[gen[g].month]
    BY <1>a, <1>b, <2>1
  <2> QED BY <2>1, <2>2, <2>3 DEF Served, Deciding
<1>2. CASE NewMonth
  <2>1. month' = month + 1 /\ month < Months /\ UNCHANGED <<counter, ledger, gen>>
    BY <1>2 DEF NewMonth
  <2>2. month' \in MonthIds /\ month' > month
    BY <1>b, <2>1, CreditsAssumption DEF MonthIds
  <2>3. counter[month'] <= ledger[month']
    <3>1. counter[month'] = 0
      BY <2>2 DEF Books
    <3>2. ledger[month'] \in Nat
      BY <1>b, <2>2
    <3> QED BY <3>1, <3>2
  <2> QED BY <2>1, <2>3 DEF Served, Deciding
<1>3. CASE UNCHANGED <<month, counter, ledger, gen, job>>
  BY <1>3 DEF Served, Deciding
<1> QED BY <1>1, <1>2, <1>3

\* While generations take turns, the next one starts only when all others rest.
LEMMA AllServedStep ==
  ASSUME TypeOK, TypeOK', Books, AllServed, Fine, Fine', [Next]_vars
  PROVE  AllServed'
<1>1. ASSUME NEW h \in Gens, GenStep(h) PROVE AllServed'
  <2>1. Served(gen[h])'
    BY <1>1, ServedStep DEF AllServed, Fine
  <2>2. \A g \in Gens \ {h} : gen'[g] = gen[g]
    BY <1>1, GenStepMonths DEF InMonth
  <2>3. \A g \in Gens \ {h} : gen'[g].pc \in Resting
    <3>1. CASE gen[h].pc \notin Resting
      BY <2>2, <3>1 DEF Fine, OneAtATime
    <3>2. CASE gen[h].pc \in Resting
      <4>1. CountLedger(h)
        BY <1>1, <3>2 DEF GenStep, Resting, ReadCounter, Heal, ReservePlan, UndoPlan, ListPacks,
           DrawPack, NoCredit, StoreDraft, GenerationFails, SupersedeFails, Bill, BillFails, Release,
           Clamp, Crash
      <4>2. gen'[h] = [GenIdle EXCEPT !.pc = "counted", !.month = month, !.seen = ledger[month]]
        BY <4>1, BecomeSets DEF CountLedger
      <4>3. gen'[h].pc \notin Resting
        BY <4>2 DEF GenIdle, Resting
      <4> QED BY <4>3 DEF Fine, OneAtATime
    <3> QED BY <3>1, <3>2
  <2>4. \A g \in Gens \ {h} : Served(gen[g])'
    BY <2>3, ServedAtRest
  <2> QED BY <2>1, <2>4 DEF AllServed
<1>2. CASE JobStep \/ NewMonth \/ UNCHANGED <<month, counter, ledger, gen, job>>
  BY <1>2, ServedMeanwhile DEF AllServed
<1> QED BY <1>1, <1>2, OtherSteps

\* One refusal clears the table: whoever comes next counts afresh.
LEMMA ServedAfterRefusal ==
  ASSUME TypeOK, Fine, NEW g \in Gens, NoCredit(g)
  PROVE  AllServed'
<1>1. gen[g].pc = "draw" /\ \E x \in {"setup", "refused"} : Become(g, To(g, x))
  BY DEF NoCredit
<1>2. gen[g] \in GenType
  BY MonthTypes
<1>3. gen'[g].pc \in {"setup", "refused"} /\ \A h \in Gens \ {g} : gen'[h] = gen[h]
  BY <1>1, <1>2, BecomeSets DEF To, GenType
<1>4. \A h \in Gens \ {g} : gen'[h].pc \in Resting
  BY <1>1, <1>3 DEF Fine, OneAtATime, Resting
<1>5. \A h \in Gens : gen'[h].pc \in Resting \cup {"setup", "running", "release"}
  BY <1>3, <1>4 DEF Resting
<1> QED BY <1>5, ServedAtRest DEF AllServed

\* Whatever a polluted counter, crashes and leaks have left behind, once the
\* ledger has room and generations take turns, at most one more is refused.
THEOREM NeverLockedOut == Spec => NotLockedOut
<1>1. TypeOK /\ TypeOK' /\ Books /\ AllServed /\ Fine /\ Fine' /\ [Next]_vars => AllServed'
  BY AllServedStep
<1>2. TypeOK /\ Fine /\ ~ [\A g \in Gens : ~ NoCredit(g)]_vars => AllServed'
  BY ServedAfterRefusal
<1>3. AllServed => [\A g \in Gens : ~ NoCredit(g)]_vars
  BY DEF AllServed, Served, NoCredit
<1>4. NotLockedOut <=> (<>[]Fine => <>[][\A g \in Gens : ~ NoCredit(g)]_vars)
  BY DEF NotLockedOut, Fine
<1> QED BY <1>1, <1>2, <1>3, <1>4, BooksAreKept, PTL DEF Spec

(***************************************************************************)
(* What leaked is given back                                               *)
(***************************************************************************)

Rest    == \A g \in Gens : gen[g].pc \in Resting
Settled == counter[month] <= ledger[month]

\* The hourly job gets to its end: there was nothing to release, or it has
\* written.  That it does so again and again is what its schedule is for.
JobCompletes == JobWrite \/ (JobCount /\ job' = JobIdle)

\* What the job is working on was read from this month's counter at rest.
Fresh ==
  \/ job.pc = "idle"
  \/ job.pc = "listed" /\ job.month = month /\ job.used = AtLeastZero(counter[month])
  \/ job.pc \in {"clamp", "write"} /\ job.month = month

\* At rest nobody but the job touches the counter.
LEMMA AtRest ==
  ASSUME TypeOK, Rest, Rest', [Next]_vars
  PROVE  \/ JobStep \/ NewMonth
         \/ UNCHANGED <<month, counter, ledger, gen, job>>
<1>1. ASSUME NEW h \in Gens, GenStep(h) PROVE FALSE
  <2>1. gen[h].pc \in Resting
    BY DEF Rest
  <2>2. CountLedger(h)
    BY <1>1, <2>1 DEF GenStep, Resting, ReadCounter, Heal, ReservePlan, UndoPlan, ListPacks,
       DrawPack, NoCredit, StoreDraft, GenerationFails, SupersedeFails, Bill, BillFails, Release,
       Clamp, Crash
  <2>3. gen'[h] = [GenIdle EXCEPT !.pc = "counted", !.month = month, !.seen = ledger[month]]
    BY <2>2, BecomeSets DEF CountLedger
  <2>4. gen'[h].pc \notin Resting
    BY <2>3 DEF GenIdle, Resting
  <2> QED BY <2>4 DEF Rest
<1> QED BY <1>1, OtherSteps

LEMMA NewMonthSettles ==
  ASSUME TypeOK, Books, NewMonth
  PROVE  Settled'
<1>1. month' = month + 1 /\ month < Months /\ UNCHANGED <<counter, ledger, gen, job>>
  BY DEF NewMonth
<1>2. month' \in MonthIds /\ month' > month
  <2>1. month \in MonthIds /\ month \in Nat
    BY MonthTypes
  <2> QED BY <1>1, <2>1, CreditsAssumption DEF MonthIds
<1>3. counter[month'] = 0
  BY <1>2 DEF Books
<1>4. ledger[month'] \in Nat
  BY <1>2, MonthTypes
<1> QED BY <1>1, <1>3, <1>4 DEF Settled

LEMMA StaysSettled ==
  ASSUME TypeOK, Books, Rest, Rest', [Next]_vars, Settled
  PROVE  Settled'
<1>1. CASE JobStep
  <2>1. UNCHANGED <<month, ledger, gen>> /\ (counter'[month] = counter[month] \/ counter'[month] <= ledger[month])
    BY <1>1, JobStepCounts, MonthTypes
  <2> QED BY <2>1 DEF Settled
<1>2. CASE UNCHANGED <<month, counter, ledger, gen, job>>
  BY <1>2 DEF Settled
<1> QED BY <1>1, <1>2, AtRest, NewMonthSettles

LEMMA StaysFresh ==
  ASSUME TypeOK, Books, Rest, Rest', [Next]_vars, Fresh
  PROVE  Fresh' \/ Settled'
<1>1. CASE JobStep
  <2>1. CASE JobList
    BY <2>1 DEF JobList, Fresh
  <2>2. CASE JobCount
    BY <2>2 DEF JobCount, Fresh, JobIdle, TypeOK
  <2>3. CASE JobReadCurrent
    BY <2>3 DEF JobReadCurrent, Fresh, TypeOK
  <2>4. CASE JobWrite \/ JobCrash
    BY <2>4 DEF JobWrite, JobCrash, Fresh, JobIdle
  <2> QED BY <1>1, <2>1, <2>2, <2>3, <2>4 DEF JobStep
<1>2. CASE UNCHANGED <<month, counter, ledger, gen, job>>
  BY <1>2 DEF Fresh
<1> QED BY <1>1, <1>2, AtRest, NewMonthSettles

\* A run of the job that began at rest leaves no leak behind.
LEMMA FreshRunSettles ==
  ASSUME TypeOK, Books, Fresh, JobCompletes
  PROVE  Settled'
<1>1. CASE JobWrite
  <2>1. /\ job.pc = "write" /\ counter' = [counter EXCEPT ![job.month] = job.target]
        /\ UNCHANGED <<month, ledger>>
    BY <1>1 DEF JobWrite
  <2>2. job.month = month /\ job.target <= ledger[month]
    BY <2>1 DEF Fresh, Books
  <2> QED BY <2>1, <2>2, MonthTypes DEF Settled
<1>2. CASE JobCount /\ job' = JobIdle
  <2>1. job.pc = "listed" /\ UNCHANGED <<month, counter, ledger>>
    BY <1>2 DEF JobCount
  <2>2. job.month = month /\ job.used = AtLeastZero(counter[month])
    BY <2>1 DEF Fresh
  <2>3. job.used <= ledger[month]
    <3>1. [job EXCEPT !.pc = "clamp", !.used = 0, !.target = ledger[job.month]].pc = "clamp"
      BY DEF TypeOK
    <3>2. job'.pc = "idle"
      BY <1>2 DEF JobIdle
    <3>3. job' = IF job.used <= ledger[job.month] THEN JobIdle
                 ELSE [job EXCEPT !.pc = "clamp", !.used = 0, !.target = ledger[job.month]]
      BY <1>2 DEF JobCount
    <3>4. job.used <= ledger[job.month]
      BY <3>1, <3>2, <3>3
    <3> QED BY <2>2, <3>4
  <2>4. counter[month] <= ledger[month]
    BY <2>2, <2>3, MonthTypes DEF AtLeastZero
  <2> QED BY <2>1, <2>4 DEF Settled
<1> QED BY <1>1, <1>2 DEF JobCompletes

\* If the hourly job completes again and again, reservations that crashes and
\* failures have leaked do not outlast the generations.
THEOREM LeaksAreHealed == Spec /\ []<><<JobCompletes>>_vars => LeaksHealed
<1>1. TypeOK /\ Books /\ Rest /\ Rest' /\ [Next]_vars /\ Settled => Settled'
  BY StaysSettled
<1>2. TypeOK /\ Books /\ Rest /\ Rest' /\ [Next]_vars /\ Fresh => Fresh' \/ Settled'
  BY StaysFresh
<1>3. <<JobCompletes>>_vars => Fresh'
  BY DEF JobCompletes, JobWrite, Fresh, JobIdle
<1>4. TypeOK /\ Books /\ Fresh /\ <<JobCompletes>>_vars => Settled'
  BY FreshRunSettles
<1>5. LeaksHealed <=> (<>[]Rest => <>[]Settled)
  BY DEF LeaksHealed, Rest, Settled
<1> QED BY <1>1, <1>2, <1>3, <1>4, <1>5, BooksAreKept, PTL DEF Spec
=============================================================================
