------------------------- MODULE ChargeSessionProofs -------------------------
(***************************************************************************)
(* Proofs about ChargeSession, for any ports and any bounds: an id is      *)
(* registered only while its port charges, a registered row is open, and a *)
(* finished row stays as it is.                                            *)
(*                                                                         *)
(* The inductive invariant says who may still touch a row: the session     *)
(* that registered it, the callback that will hand it over, or one pending *)
(* write -- never two of them.                                             *)
(***************************************************************************)
EXTENDS ChargeSession, FiniteSetTheorems, SequenceTheorems, TLAPS

JobSet == [op : {"start", "end", "delete", "point"}, port : Ports, arg : Int]
RowSet == [state : {"open", "closed", "gone"}, port : Ports, points : BOOLEAN]

Types ==
    /\ charging \in [Ports -> BOOLEAN]
    /\ enough \in [Ports -> BOOLEAN]
    /\ active \in [Ports -> Int]
    /\ standIns \in Nat
    /\ jobs \in Seq(JobSet)
    /\ answers \subseteq [port : Ports, tag : Int, row : Int]
    /\ rows \in Seq(RowSet)

WriteOps == {"end", "delete"}

RegisteredRows ==
    \A p \in Ports : IsRow(active[p]) =>
        active[p] \in OpenRows /\ rows[active[p]].port = p

AnswerRows ==
    \A a \in answers :
        /\ a.row \in OpenRows
        /\ rows[a.row].port = a.port
        /\ \A p \in Ports : active[p] # a.row
        /\ \A b \in answers : b.row = a.row => b = a

WriteRows ==
    \A i \in DOMAIN jobs : jobs[i].op \in WriteOps =>
        /\ jobs[i].arg \in OpenRows
        /\ \A p \in Ports : active[p] # jobs[i].arg
        /\ \A a \in answers : a.row # jobs[i].arg
        /\ \A j \in DOMAIN jobs :
              jobs[j].op \in WriteOps /\ jobs[j].arg = jobs[i].arg => j = i

PointRows == \A i \in DOMAIN jobs : jobs[i].op = "point" => jobs[i].arg \in RowIds

(* A row is asked for under a stand-in id or none, never under a row's id. *)
Tags ==
    /\ \A i \in DOMAIN jobs : jobs[i].op = "start" => jobs[i].arg <= 0
    /\ \A a \in answers : a.tag <= 0

Inv ==
    /\ Types
    /\ SidOnlyWhileCharging
    /\ RegisteredRows
    /\ AnswerRows
    /\ WriteRows
    /\ PointRows
    /\ Tags
    /\ OpenRowsAccounted

(* What a step leaves of the finished rows. *)
FinishedStay ==
    \A r \in RowIds : rows[r].state # "open" => rows'[r].state = rows[r].state

-----------------------------------------------------------------------------
(* Lemmas about the queue of jobs. *)

(* Append adds one job at the end. *)
LEMMA Appended ==
  ASSUME jobs \in Seq(JobSet), NEW j \in JobSet, jobs' = Append(jobs, j)
  PROVE  /\ jobs' \in Seq(JobSet)
         /\ \A k \in DOMAIN jobs' : \/ k \in DOMAIN jobs /\ jobs'[k] = jobs[k]
                                    \/ k = Len(jobs) + 1 /\ jobs'[k] = j
         /\ Len(jobs) + 1 \notin DOMAIN jobs
  OBVIOUS

(* RemoveAt leaves the other jobs, each at one new place. *)
LEMMA Removed ==
  ASSUME jobs \in Seq(JobSet), NEW i \in DOMAIN jobs, jobs' = RemoveAt(jobs, i)
  PROVE  /\ jobs' \in Seq(JobSet)
         /\ \A k \in DOMAIN jobs' :
               LET old == IF k < i THEN k ELSE k + 1
               IN  k \in Int /\ old \in DOMAIN jobs \ {i} /\ jobs'[k] = jobs[old]
         /\ \A k \in DOMAIN jobs \ {i} :
               \E now \in DOMAIN jobs' : jobs'[now] = jobs[k]
<1> DEFINE s == SubSeq(jobs, 1, i - 1)
           t == SubSeq(jobs, i + 1, Len(jobs))
<1>1. i \in 1 .. Len(jobs) /\ Len(jobs) \in Nat /\ DOMAIN jobs = 1 .. Len(jobs)
  OBVIOUS
<1>2. /\ s \in Seq(JobSet)
      /\ Len(s) = i - 1
      /\ \A k \in 1 .. i - 1 : s[k] = jobs[k]
  <2>1. \A k \in 1 .. i - 1 : jobs[k] \in JobSet
    BY <1>1
  <2> QED
    BY <1>1, <2>1, SubSeqProperties
<1>3. /\ t \in Seq(JobSet)
      /\ Len(t) = Len(jobs) - i
      /\ \A k \in 1 .. Len(jobs) - i : t[k] = jobs[i + k]
  <2>1. \A k \in i + 1 .. Len(jobs) : jobs[k] \in JobSet
    BY <1>1
  <2>2. /\ t \in Seq(JobSet)
        /\ Len(t) = IF i + 1 <= Len(jobs) THEN Len(jobs) - (i + 1) + 1 ELSE 0
        /\ \A k \in 1 .. Len(jobs) - (i + 1) + 1 : t[k] = jobs[(i + 1) + k - 1]
    BY <1>1, <2>1, SubSeqProperties, i + 1 \in Int, Len(jobs) \in Int
  <2>3. Len(t) = Len(jobs) - i
    BY <1>1, <2>2
  <2>4. ASSUME NEW k \in 1 .. Len(jobs) - i PROVE t[k] = jobs[i + k]
    <3>1. k \in 1 .. Len(jobs) - (i + 1) + 1 /\ (i + 1) + k - 1 = i + k
      BY <1>1
    <3> QED
      BY <2>2, <3>1
  <2> QED
    BY <2>2, <2>3, <2>4
<1>4. jobs' = s \o t
  BY DEF RemoveAt
<1> HIDE DEF s, t
<1>5. /\ jobs' \in Seq(JobSet)
      /\ Len(jobs') = Len(jobs) - 1
      /\ \A k \in 1 .. Len(jobs) - 1 :
            jobs'[k] = IF k <= i - 1 THEN s[k] ELSE t[k - (i - 1)]
  <2>1. /\ s \o t \in Seq(JobSet)
        /\ Len(s \o t) = Len(s) + Len(t)
        /\ \A k \in 1 .. Len(s) + Len(t) :
              (s \o t)[k] = IF k <= Len(s) THEN s[k] ELSE t[k - Len(s)]
    BY <1>2, <1>3, ConcatProperties
  <2>2. Len(s) + Len(t) = Len(jobs) - 1
    BY <1>1, <1>2, <1>3
  <2> QED
    BY <1>2, <1>4, <2>1, <2>2
<1>6. DOMAIN jobs' = 1 .. Len(jobs) - 1
  BY <1>5
<1>7. \A k \in 1 .. Len(jobs) - 1 :
         jobs'[k] = IF k < i THEN jobs[k] ELSE jobs[k + 1]
  <2> TAKE k \in 1 .. Len(jobs) - 1
  <2>1. CASE k < i
    <3>1. k \in 1 .. i - 1 /\ k <= i - 1
      BY <1>1, <2>1
    <3>2. s[k] = jobs[k]
      BY <1>2, <3>1
    <3> QED
      BY <1>5, <2>1, <3>1, <3>2
  <2>2. CASE k >= i
    <3>1. k - (i - 1) \in 1 .. Len(jobs) - i /\ i + (k - (i - 1)) = k + 1
      BY <1>1, <2>2
    <3>2. t[k - (i - 1)] = jobs[i + (k - (i - 1))]
      BY <1>3, <3>1
    <3> QED
      BY <1>1, <1>5, <2>2, <3>1, <3>2
  <2> QED
    BY <1>1, <2>1, <2>2
<1>8. ASSUME NEW k \in DOMAIN jobs \ {i}
      PROVE  \E now \in DOMAIN jobs' : jobs'[now] = jobs[k]
  <2>1. CASE k < i
    BY <1>1, <1>6, <1>7, <2>1
  <2>2. CASE k > i
    <3>1. k - 1 \in DOMAIN jobs' /\ ~(k - 1 < i) /\ (k - 1) + 1 = k
      BY <1>1, <1>6, <2>2
    <3> QED
      BY <1>6, <1>7, <3>1
  <2> QED
    BY <1>1, <2>1, <2>2
<1> QED
  BY <1>1, <1>5, <1>6, <1>7, <1>8

(* SetToSeq lists a finite set. *)
LEMMA Listed ==
  ASSUME NEW S, IsFiniteSet(S)
  PROVE  SetToSeq(S) \in Seq(S)
<1>1. PICK f : IsInjective(f) /\ f \in [1 .. Cardinality(S) -> S]
  BY FS_NatBijection, FS_CardinalityType
     DEF ExistsBijection, Bijection, Injection, IsInjective
<1>2. SetToSeq(S) \in [1 .. Cardinality(S) -> S]
  BY <1>1 DEF SetToSeq
<1> QED
  BY <1>2, FS_CardinalityType

(* Nothing is under way at first. *)
LEMMA InitInv == Init => Inv
<1> SUFFICES ASSUME Init PROVE Inv
  OBVIOUS
<1>1. Types
  BY DEF Init, Types, None
<1>2. SidOnlyWhileCharging /\ RegisteredRows
  BY DEF Init, SidOnlyWhileCharging, RegisteredRows, IsRow, None
<1>3. AnswerRows
  BY DEF Init, AnswerRows
<1>4. WriteRows /\ PointRows /\ Tags
  BY DEF Init, WriteRows, PointRows, Tags
<1>5. OpenRowsAccounted
  BY DEF Init, OpenRowsAccounted, OpenRows, RowIds
<1> QED
  BY <1>1, <1>2, <1>3, <1>4, <1>5 DEF Inv

-----------------------------------------------------------------------------
(* The steps that add at most requests for rows and points, and change no  *)
(* registered row. *)

LEMMA Asked ==
  ASSUME Inv, Types', rows' = rows, answers' = answers, LeftOpen' = LeftOpen,
         \A p \in Ports : active'[p] = active[p] \/ (active[p] <= 0 /\ active'[p] <= 0),
         \A k \in DOMAIN jobs : k \in DOMAIN jobs' /\ jobs'[k] = jobs[k],
         \A k \in DOMAIN jobs' \ DOMAIN jobs :
            \/ jobs'[k].op = "start" /\ jobs'[k].arg <= 0
            \/ jobs'[k].op = "point" /\ jobs'[k].arg \in RowIds
  PROVE  /\ RegisteredRows' /\ AnswerRows' /\ WriteRows' /\ PointRows' /\ Tags'
         /\ OpenRowsAccounted'
         /\ FinishedStay
<1>1. /\ RowIds' = RowIds /\ OpenRows' = OpenRows
      /\ OpenRows \subseteq RowIds
      /\ \A r \in RowIds : r \in Int /\ r > 0
  BY DEF Inv, Types, RowIds, OpenRows
<1>2. RegisteredRows'
  BY <1>1 DEF Inv, Types, RegisteredRows, IsRow
<1>3. AnswerRows'
  BY <1>1 DEF Inv, Types, AnswerRows
<1>4. WriteRows'
  <2> SUFFICES ASSUME NEW i \in DOMAIN jobs', jobs'[i].op \in WriteOps
               PROVE  /\ jobs'[i].arg \in OpenRows'
                      /\ \A p \in Ports : active'[p] # jobs'[i].arg
                      /\ \A a \in answers' : a.row # jobs'[i].arg
                      /\ \A j \in DOMAIN jobs' :
                            jobs'[j].op \in WriteOps /\ jobs'[j].arg = jobs'[i].arg => j = i
    BY DEF WriteRows
  <2>1. \A j \in DOMAIN jobs' : jobs'[j].op \in WriteOps =>
            j \in DOMAIN jobs /\ jobs'[j] = jobs[j]
    BY DEF WriteOps
  <2>2. i \in DOMAIN jobs /\ jobs'[i] = jobs[i]
    BY <2>1
  <2>3. jobs[i].arg \in OpenRows /\ \A p \in Ports : active[p] # jobs[i].arg
    BY <2>2 DEF Inv, WriteRows
  <2>4. \A p \in Ports : active'[p] # jobs'[i].arg
    BY <1>1, <2>2, <2>3 DEF Inv, Types
  <2> QED
    BY <1>1, <2>1, <2>2, <2>3, <2>4 DEF Inv, WriteRows
<1>5. PointRows'
  BY <1>1 DEF Inv, PointRows
<1>6. OpenRowsAccounted'
  <2> SUFFICES ASSUME NEW r \in OpenRows, r \notin LeftOpen
               PROVE  Settling(r)'
    BY <1>1 DEF OpenRowsAccounted
  <2>1. Settling(r)
    BY DEF Inv, OpenRowsAccounted
  <2>2. CASE \E p \in Ports : active[p] = r
    BY <1>1, <2>2 DEF Settling, Inv, Types
  <2>3. CASE \E a \in answers : a.row = r
    BY <2>3 DEF Settling
  <2>4. CASE \E i \in DOMAIN jobs : jobs[i].op \in {"end", "delete"} /\ jobs[i].arg = r
    BY <2>4 DEF Settling
  <2> QED
    BY <2>1, <2>2, <2>3, <2>4 DEF Settling
<1>7. Tags'
  BY DEF Inv, Tags
<1> QED
  BY <1>2, <1>3, <1>4, <1>5, <1>6, <1>7 DEF FinishedStay

(* A charge starts: its row is asked for, or it takes a stand-in id. *)
LEMMA StartChargeStep ==
  ASSUME Inv, NEW p \in Ports, StartCharge(p)
  PROVE  Inv' /\ FinishedStay
<1> DEFINE j == Job("start", p, None)
<1>1. j \in JobSet /\ j.op = "start" /\ j.arg <= 0
  BY DEF Job, JobSet, None
<1>2. active[p] = None
  BY DEF StartCharge, Inv, SidOnlyWhileCharging
<1>3. /\ Types'
      /\ \A k \in DOMAIN jobs : k \in DOMAIN jobs' /\ jobs'[k] = jobs[k]
      /\ \A k \in DOMAIN jobs' \ DOMAIN jobs :
            jobs'[k].op = "start" /\ jobs'[k].arg <= 0
      /\ \A q \in Ports : active'[q] = active[q] \/ (active[q] <= 0 /\ active'[q] <= 0)
      /\ SidOnlyWhileCharging'
  <2>1. CASE record
    <3>1. jobs' = Append(jobs, j) /\ UNCHANGED <<active, standIns>>
      BY <2>1 DEF StartCharge
    <3> HIDE DEF j
    <3> QED
      BY <1>1, <3>1, Appended DEF StartCharge, Inv, Types, SidOnlyWhileCharging
  <2>2. CASE ~record
    <3>1. /\ UNCHANGED jobs
          /\ standIns' = standIns + 1
          /\ active' = [active EXCEPT ![p] = -standIns']
      BY <2>2 DEF StartCharge
    <3> QED
      BY <1>2, <3>1 DEF StartCharge, Inv, Types, SidOnlyWhileCharging, None
  <2> QED
    BY <2>1, <2>2
<1>4. rows' = rows /\ answers' = answers /\ LeftOpen' = LeftOpen
  BY DEF StartCharge, exceptions, LeftOpen
<1> QED
  BY <1>3, <1>4, Asked DEF Inv

(* A sample may add a point to a row that is registered. *)
LEMMA SampleStep ==
  ASSUME Inv, NEW p \in Ports, Sample(p)
  PROVE  Inv' /\ FinishedStay
<1> DEFINE j == Job("point", p, active[p])
<1>1. /\ Types'
      /\ \A k \in DOMAIN jobs : k \in DOMAIN jobs' /\ jobs'[k] = jobs[k]
      /\ \A k \in DOMAIN jobs' \ DOMAIN jobs :
            jobs'[k].op = "point" /\ jobs'[k].arg \in RowIds
  <2>1. CASE UNCHANGED jobs
    BY <2>1 DEF Sample, Inv, Types
  <2>2. CASE IsRow(active[p]) /\ jobs' = Append(jobs, j)
    <3>1. j \in JobSet /\ j.op = "point" /\ j.arg \in RowIds
      BY <2>2 DEF Job, JobSet, Inv, Types, RegisteredRows, OpenRows
    <3> HIDE DEF j
    <3> QED
      BY <2>2, <3>1, Appended DEF Sample, Inv, Types
  <2> QED
    BY <2>1, <2>2 DEF Sample, RecordChargePoint
<1> QED
  BY <1>1, Asked
     DEF Sample, Inv, Types, SidOnlyWhileCharging, exceptions, LeftOpen

(* SetToSeq lists the jobs the switch asks for. *)
LEMMA ResumeJobsListed ==
  ResumeJobs \in Seq({Job("start", p, active[p]) : p \in Resumed})
<1> DEFINE T == {Job("start", p, active[p]) : p \in Resumed}
           f == [p \in Resumed |-> Job("start", p, active[p])]
<1>1. IsFiniteSet(Resumed)
  BY SessionAssumption, FS_Subset DEF Resumed
<1>2. f \in Surjection(Resumed, T)
  BY DEF Surjection
<1>3. IsFiniteSet(T)
  BY <1>1, <1>2, FS_Surjection
<1> QED
  BY <1>3, Listed DEF ResumeJobs

(* Switching recording on asks for rows only. *)
LEMMA SwitchOnStep ==
  ASSUME Inv, SwitchOn
  PROVE  Inv' /\ FinishedStay
<1> DEFINE J == {j \in JobSet : j.op = "start" /\ j.arg <= 0}
<1>1. ResumeJobs \in Seq(J)
  <2>1. \A p \in Resumed : Job("start", p, active[p]) \in J
    BY DEF Job, JobSet, Resumed, Inv, Types
  <2> QED
    BY <2>1, ResumeJobsListed, SeqMonotonic
<1>2. /\ jobs' \in Seq(JobSet)
      /\ \A k \in DOMAIN jobs : k \in DOMAIN jobs' /\ jobs'[k] = jobs[k]
      /\ \A k \in DOMAIN jobs' \ DOMAIN jobs :
            jobs'[k].op = "start" /\ jobs'[k].arg <= 0
  <2>1. jobs' = jobs \o ResumeJobs /\ jobs \in Seq(JobSet)
    BY DEF SwitchOn, Inv, Types
  <2>2. \A k \in DOMAIN ResumeJobs : ResumeJobs[k] \in J
    BY <1>1
  <2>3. ResumeJobs \in Seq(JobSet)
    BY <1>1, SeqMonotonic
  <2> HIDE DEF J
  <2>4. /\ jobs' \in Seq(JobSet)
        /\ Len(jobs') = Len(jobs) + Len(ResumeJobs)
        /\ \A k \in 1 .. Len(jobs) + Len(ResumeJobs) :
              jobs'[k] = IF k <= Len(jobs) THEN jobs[k]
                         ELSE ResumeJobs[k - Len(jobs)]
    BY <2>1, <2>3, ConcatProperties
  <2>5. /\ DOMAIN jobs = 1 .. Len(jobs) /\ Len(jobs) \in Nat
        /\ DOMAIN ResumeJobs = 1 .. Len(ResumeJobs) /\ Len(ResumeJobs) \in Nat
        /\ DOMAIN jobs' = 1 .. Len(jobs) + Len(ResumeJobs)
    BY <2>1, <2>3, <2>4
  <2>6. ASSUME NEW k \in DOMAIN jobs' \ DOMAIN jobs
        PROVE  jobs'[k].op = "start" /\ jobs'[k].arg <= 0
    <3>1. k - Len(jobs) \in DOMAIN ResumeJobs
      BY <2>5
    <3>2. jobs'[k] = ResumeJobs[k - Len(jobs)]
      BY <2>4, <2>5
    <3> QED
      BY <2>2, <3>1, <3>2 DEF J
  <2> QED
    BY <2>4, <2>5, <2>6
<1>3. Types'
  BY <1>2 DEF SwitchOn, Inv, Types
<1> QED
  BY <1>2, <1>3, Asked
     DEF SwitchOn, Inv, Types, SidOnlyWhileCharging, exceptions, LeftOpen

(* Steps that touch none of this. *)
LEMMA QuietStep ==
  ASSUME Inv, UNCHANGED <<sessions, database, LeftOpen>>
  PROVE  Inv' /\ FinishedStay
  BY DEF sessions, database, Inv, Types, SidOnlyWhileCharging, RegisteredRows,
         AnswerRows, WriteRows, PointRows, Tags, OpenRowsAccounted, Settling,
         OpenRows,
         RowIds, FinishedStay

-----------------------------------------------------------------------------
(* The steps that end a session or hand over a row. *)

(* A session ends: its row gets a write, is abandoned, or it had none. *)
LEMMA CloseStep ==
  ASSUME Inv, NEW p \in Ports, Close(p)
  PROVE  Inv' /\ FinishedStay
<1> DEFINE sid == active[p]
           written == IsRow(sid) /\ record
           j == Job(IF enough[p] THEN "end" ELSE "delete", p, sid)
<1>1. /\ active' = [active EXCEPT ![p] = None]
      /\ charging' = [charging EXCEPT ![p] = FALSE]
      /\ UNCHANGED <<rows, answers, enough, standIns>>
      /\ RowIds' = RowIds /\ OpenRows' = OpenRows
      /\ \A r \in RowIds : r \in Int /\ r > 0
  BY DEF Close, Unregister, Inv, Types, RowIds, OpenRows
<1>2. j \in JobSet /\ j.op \in WriteOps /\ j.arg = sid
  BY DEF Job, JobSet, WriteOps, Inv, Types
<1> HIDE DEF j
<1>3. CASE written
  <2>1. jobs' = Append(jobs, j) /\ LeftOpen' = LeftOpen
    BY <1>3 DEF Close, j, LeftOpen
  <2>2. /\ jobs' \in Seq(JobSet)
        /\ \A k \in DOMAIN jobs' : \/ k \in DOMAIN jobs /\ jobs'[k] = jobs[k]
                                   \/ k = Len(jobs) + 1 /\ jobs'[k] = j
        /\ \A k \in DOMAIN jobs : k \in DOMAIN jobs' /\ jobs'[k] = jobs[k]
        /\ Len(jobs) + 1 \in DOMAIN jobs' /\ jobs'[Len(jobs) + 1] = j
        /\ Len(jobs) + 1 \notin DOMAIN jobs
    BY <1>2, <2>1 DEF Inv, Types
  <2>3. Types'
    BY <1>1, <2>2 DEF Inv, Types, None
  <2>4. /\ sid \in OpenRows /\ sid > 0 /\ rows[sid].port = p
        /\ \A q \in Ports : active[q] = sid => q = p
        /\ \A a \in answers : a.row # sid
        /\ \A k \in DOMAIN jobs : jobs[k].op \in WriteOps => jobs[k].arg # sid
    BY <1>3 DEF Inv, Types, RegisteredRows, AnswerRows, WriteRows, IsRow
  <2>5. \A q \in Ports : active'[q] # sid
    BY <1>1, <2>4 DEF Inv, Types, None
  <2>6. SidOnlyWhileCharging' /\ RegisteredRows'
    BY <1>1 DEF Inv, Types, SidOnlyWhileCharging, RegisteredRows, IsRow, None
  <2>7. AnswerRows'
    BY <1>1 DEF Inv, Types, AnswerRows, OpenRows, None
  <2>8. WriteRows'
    <3> SUFFICES ASSUME NEW i \in DOMAIN jobs', jobs'[i].op \in WriteOps
                 PROVE  /\ jobs'[i].arg \in OpenRows'
                        /\ \A q \in Ports : active'[q] # jobs'[i].arg
                        /\ \A a \in answers' : a.row # jobs'[i].arg
                        /\ \A k \in DOMAIN jobs' :
                              jobs'[k].op \in WriteOps /\ jobs'[k].arg = jobs'[i].arg => k = i
      BY DEF WriteRows
    <3>1. CASE i = Len(jobs) + 1
      <4>1. jobs'[i].arg = sid
        BY <1>2, <2>2, <3>1
      <4>2. \A k \in DOMAIN jobs' :
               jobs'[k].op \in WriteOps /\ jobs'[k].arg = sid => k = i
        BY <2>2, <2>4, <3>1
      <4> QED
        BY <1>1, <2>4, <2>5, <4>1, <4>2
    <3>2. CASE i \in DOMAIN jobs
      <4>1. /\ jobs'[i] = jobs[i] /\ jobs[i].arg \in OpenRows
            /\ jobs[i].arg # sid /\ jobs[i].arg \in RowIds
            /\ \A q \in Ports : active[q] # jobs[i].arg
            /\ \A a \in answers : a.row # jobs[i].arg
            /\ \A k \in DOMAIN jobs :
                  jobs[k].op \in WriteOps /\ jobs[k].arg = jobs[i].arg => k = i
        BY <2>2, <2>4, <3>2 DEF Inv, WriteRows, OpenRows
      <4>2. \A q \in Ports : active'[q] # jobs[i].arg
        BY <1>1, <4>1 DEF Inv, Types, None
      <4>3. \A k \in DOMAIN jobs' :
               jobs'[k].op \in WriteOps /\ jobs'[k].arg = jobs[i].arg => k = i
        BY <1>2, <2>2, <4>1
      <4> QED
        BY <1>1, <4>1, <4>2, <4>3
    <3> QED
      BY <2>2, <3>1, <3>2
  <2>9. PointRows' /\ Tags'
    BY <1>1, <1>2, <2>2 DEF Inv, PointRows, Tags, WriteOps
  <2>10. OpenRowsAccounted'
    <3> SUFFICES ASSUME NEW r \in OpenRows, r \notin LeftOpen
                 PROVE  Settling(r)'
      BY <1>1, <2>1 DEF OpenRowsAccounted
    <3>1. Settling(r)
      BY DEF Inv, OpenRowsAccounted
    <3>2. CASE \E q \in Ports : active[q] = r
      <4>1. r # sid => \E q \in Ports : active'[q] = r
        BY <1>1, <3>2 DEF Inv, Types
      <4> QED
        BY <1>2, <2>2, <4>1 DEF Settling, WriteOps
    <3>3. CASE \E a \in answers : a.row = r
      BY <1>1, <3>3 DEF Settling
    <3>4. CASE \E i \in DOMAIN jobs : jobs[i].op \in {"end", "delete"} /\ jobs[i].arg = r
      BY <2>2, <3>4 DEF Settling
    <3> QED
      BY <3>1, <3>2, <3>3, <3>4 DEF Settling
  <2> QED
    BY <1>1, <2>3, <2>6, <2>7, <2>8, <2>9, <2>10 DEF Inv, FinishedStay
<1>4. CASE ~written
  <2>1. /\ jobs' = jobs
        /\ LeftOpen' = LeftOpen \cup {r \in {active[p]} : IsRow(r)}
    BY <1>4 DEF Close, LeftOpen
  <2>2. Types'
    BY <1>1, <2>1 DEF Inv, Types, None
  <2>3. SidOnlyWhileCharging' /\ RegisteredRows'
    BY <1>1 DEF Inv, Types, SidOnlyWhileCharging, RegisteredRows, IsRow, None
  <2>4. AnswerRows'
    BY <1>1 DEF Inv, Types, AnswerRows, OpenRows, None
  <2>5. WriteRows'
    BY <1>1, <2>1 DEF Inv, Types, WriteRows, OpenRows, None
  <2>6. PointRows' /\ Tags'
    BY <1>1, <2>1 DEF Inv, PointRows, Tags
  <2>7. OpenRowsAccounted'
    <3> SUFFICES ASSUME NEW r \in OpenRows, r \notin LeftOpen'
                 PROVE  Settling(r)'
      BY <1>1 DEF OpenRowsAccounted
    <3>1. Settling(r) /\ r # sid
      BY <1>1, <2>1 DEF Inv, OpenRowsAccounted, IsRow, OpenRows
    <3> QED
      BY <1>1, <2>1, <3>1 DEF Settling, Inv, Types
  <2> QED
    BY <1>1, <2>2, <2>3, <2>4, <2>5, <2>6, <2>7 DEF Inv, FinishedStay
<1> QED
  BY <1>3, <1>4

(* A row's id is handed to the session that asked for it. *)
LEMMA HandOverStep ==
  ASSUME Inv, NEW a \in answers, Wanted(a),
         active' = [active EXCEPT ![a.port] = a.row],
         answers' = answers \ {a},
         UNCHANGED <<charging, enough, standIns, jobs, rows, LeftOpen>>
  PROVE  Inv' /\ FinishedStay
<1>1. /\ a.port \in Ports /\ a.row \in OpenRows /\ rows[a.row].port = a.port
      /\ a.row \in Int /\ a.row > 0
      /\ active[a.port] <= 0 /\ charging[a.port]
      /\ \A p \in Ports : active[p] # a.row
      /\ RowIds' = RowIds /\ OpenRows' = OpenRows
      /\ \A r \in RowIds : r \in Int /\ r > 0
  BY DEF Inv, Types, AnswerRows, Wanted, Tags, RowIds, OpenRows
<1>2. \A p \in Ports : active'[p] = IF p = a.port THEN a.row ELSE active[p]
  BY <1>1 DEF Inv, Types
<1>3. Types'
  BY <1>1 DEF Inv, Types
<1>4. SidOnlyWhileCharging' /\ RegisteredRows'
  BY <1>1, <1>2 DEF Inv, SidOnlyWhileCharging, RegisteredRows
<1>5. AnswerRows'
  BY <1>1, <1>2 DEF Inv, AnswerRows
<1>6. WriteRows'
  BY <1>1, <1>2 DEF Inv, WriteRows
<1>7. PointRows' /\ Tags'
  BY <1>1 DEF Inv, PointRows, Tags
<1>8. OpenRowsAccounted'
  <2> SUFFICES ASSUME NEW r \in OpenRows, r \notin LeftOpen
               PROVE  Settling(r)'
    BY <1>1 DEF OpenRowsAccounted
  <2>1. Settling(r) /\ r \in Int /\ r > 0
    BY <1>1 DEF Inv, OpenRowsAccounted, OpenRows
  <2>2. CASE \E p \in Ports : active[p] = r
    BY <1>1, <1>2, <2>1, <2>2 DEF Settling
  <2>3. CASE \E b \in answers : b.row = r
    <3>1. CASE r = a.row
      BY <1>1, <1>2, <3>1 DEF Settling
    <3>2. CASE r # a.row
      BY <2>3, <3>2 DEF Settling
    <3> QED
      BY <3>1, <3>2
  <2>4. CASE \E i \in DOMAIN jobs : jobs[i].op \in {"end", "delete"} /\ jobs[i].arg = r
    BY <2>4 DEF Settling
  <2> QED
    BY <2>1, <2>2, <2>3, <2>4 DEF Settling
<1> QED
  BY <1>1, <1>3, <1>4, <1>5, <1>6, <1>7, <1>8 DEF Inv, FinishedStay

(* A row whose session has gone is deleted. *)
LEMMA OrphanStep ==
  ASSUME Inv, NEW a \in answers,
         jobs' = Append(jobs, Job("delete", a.port, a.row)),
         answers' = answers \ {a},
         UNCHANGED <<charging, active, enough, standIns, rows, LeftOpen>>
  PROVE  Inv' /\ FinishedStay
<1> DEFINE j == Job("delete", a.port, a.row)
<1>1. /\ a.row \in OpenRows /\ a.row \in Int
      /\ \A p \in Ports : active[p] # a.row
      /\ \A b \in answers : b.row = a.row => b = a
      /\ \A k \in DOMAIN jobs : jobs[k].op \in WriteOps => jobs[k].arg # a.row
      /\ RowIds' = RowIds /\ OpenRows' = OpenRows
  BY DEF Inv, Types, AnswerRows, WriteRows, RowIds, OpenRows
<1>2. j \in JobSet /\ j.op = "delete" /\ j.arg = a.row /\ j.op \in WriteOps
  BY DEF Job, JobSet, WriteOps, Inv, Types
<1> HIDE DEF j
<1>3. /\ jobs' \in Seq(JobSet)
      /\ \A k \in DOMAIN jobs' : \/ k \in DOMAIN jobs /\ jobs'[k] = jobs[k]
                                 \/ k = Len(jobs) + 1 /\ jobs'[k] = j
      /\ \A k \in DOMAIN jobs : k \in DOMAIN jobs' /\ jobs'[k] = jobs[k]
      /\ Len(jobs) + 1 \in DOMAIN jobs' /\ jobs'[Len(jobs) + 1] = j
  <2>1. jobs' = Append(jobs, j)
    BY DEF j
  <2> QED
    BY <1>2, <2>1 DEF Inv, Types
<1>4. Types'
  BY <1>3 DEF Inv, Types
<1>5. SidOnlyWhileCharging' /\ RegisteredRows'
  BY <1>1 DEF Inv, SidOnlyWhileCharging, RegisteredRows
<1>6. AnswerRows'
  BY <1>1 DEF Inv, AnswerRows
<1>7. WriteRows'
  <2> SUFFICES ASSUME NEW i \in DOMAIN jobs', jobs'[i].op \in WriteOps
               PROVE  /\ jobs'[i].arg \in OpenRows'
                      /\ \A q \in Ports : active'[q] # jobs'[i].arg
                      /\ \A b \in answers' : b.row # jobs'[i].arg
                      /\ \A k \in DOMAIN jobs' :
                            jobs'[k].op \in WriteOps /\ jobs'[k].arg = jobs'[i].arg => k = i
    BY DEF WriteRows
  <2>1. CASE i \in DOMAIN jobs
    BY <1>1, <1>2, <1>3, <2>1 DEF Inv, WriteRows
  <2>2. CASE i = Len(jobs) + 1
    BY <1>1, <1>2, <1>3, <2>2
  <2> QED
    BY <1>3, <2>1, <2>2
<1>8. PointRows' /\ Tags'
  BY <1>1, <1>2, <1>3 DEF Inv, PointRows, Tags
<1>9. OpenRowsAccounted'
  <2> SUFFICES ASSUME NEW r \in OpenRows, r \notin LeftOpen
               PROVE  Settling(r)'
    BY <1>1 DEF OpenRowsAccounted
  <2>1. Settling(r)
    BY DEF Inv, OpenRowsAccounted
  <2>2. CASE r = a.row
    BY <1>2, <1>3, <2>2 DEF Settling
  <2>3. CASE r # a.row
    BY <1>3, <2>1, <2>3 DEF Settling
  <2> QED
    BY <2>2, <2>3
<1> QED
  BY <1>1, <1>4, <1>5, <1>6, <1>7, <1>8, <1>9 DEF Inv, FinishedStay

(* The answer's two outcomes. *)
LEMMA AnswerStep ==
  ASSUME Inv, NEW r, Answer(r)
  PROVE  Inv' /\ FinishedStay
<1>1. PICK a \in answers :
         /\ a.row = r
         /\ answers' = answers \ {a}
         /\ IF Wanted(a)
            THEN active' = [active EXCEPT ![a.port] = r] /\ UNCHANGED jobs
            ELSE CloseOrphan(a) /\ UNCHANGED active
         /\ UNCHANGED <<charging, enough, standIns, rows, LeftOpen>>
  BY DEF Answer, exceptions, LeftOpen
<1>2. CASE Wanted(a)
  BY <1>1, <1>2, HandOverStep
<1>3. CASE ~Wanted(a)
  BY <1>1, <1>3, OrphanStep DEF CloseOrphan
<1> QED
  BY <1>2, <1>3

-----------------------------------------------------------------------------
(* The executor's jobs. *)

(* Taking one job out leaves the others and their writes to different rows. *)
LEMMA Ran ==
  ASSUME Inv, NEW i \in DOMAIN jobs, jobs' = RemoveAt(jobs, i)
  PROVE  /\ jobs' \in Seq(JobSet)
         /\ \A k \in DOMAIN jobs' : \E old \in DOMAIN jobs \ {i} : jobs'[k] = jobs[old]
         /\ \A k \in DOMAIN jobs \ {i} : \E now \in DOMAIN jobs' : jobs'[now] = jobs[k]
         /\ \A k, l \in DOMAIN jobs' :
               jobs'[k].op \in WriteOps /\ jobs'[l].op \in WriteOps
                  /\ jobs'[k].arg = jobs'[l].arg => k = l
<1> DEFINE Old(k) == IF k < i THEN k ELSE k + 1
<1>1. /\ jobs' \in Seq(JobSet)
      /\ \A k \in DOMAIN jobs' :
            k \in Int /\ Old(k) \in DOMAIN jobs \ {i} /\ jobs'[k] = jobs[Old(k)]
      /\ \A k \in DOMAIN jobs \ {i} : \E now \in DOMAIN jobs' : jobs'[now] = jobs[k]
  BY Removed DEF Inv, Types
<1>2. ASSUME NEW k \in DOMAIN jobs', NEW l \in DOMAIN jobs',
             jobs'[k].op \in WriteOps, jobs'[l].op \in WriteOps,
             jobs'[k].arg = jobs'[l].arg
      PROVE  k = l
  <2>1. Old(k) = Old(l)
    <3> HIDE DEF Old
    <3> QED
      BY <1>1, <1>2 DEF Inv, WriteRows
  <2>2. i \in Int
    BY DEF Inv, Types
  <2> QED
    BY <1>1, <2>1, <2>2
<1>3. \A k \in DOMAIN jobs' : \E old \in DOMAIN jobs \ {i} : jobs'[k] = jobs[old]
  BY <1>1
<1> HIDE DEF Old
<1> QED
  BY <1>1, <1>2, <1>3

(* A row is inserted; its id is on its way back. *)
LEMMA InsertStep ==
  ASSUME Inv, NEW i \in DOMAIN jobs, jobs[i].op = "start", Insert(jobs[i]),
         jobs' = RemoveAt(jobs, i), UNCHANGED <<sessions, LeftOpen>>
  PROVE  Inv' /\ FinishedStay
<1> DEFINE new == Len(rows) + 1
           row == [state |-> "open", port |-> jobs[i].port, points |-> FALSE]
           b == [port |-> jobs[i].port, tag |-> jobs[i].arg, row |-> new]
<1>1. jobs[i] \in JobSet /\ jobs[i].port \in Ports /\ jobs[i].arg \in Int
      /\ jobs[i].arg <= 0
  <2>1. jobs[i] \in JobSet
    BY DEF Inv, Types
  <2> QED
    BY <2>1 DEF JobSet, Inv, Tags
<1>2. row \in RowSet /\ row.state = "open" /\ row.port = jobs[i].port
  BY <1>1 DEF RowSet
<1>3. /\ UNCHANGED <<charging, enough, active, standIns, LeftOpen>>
      /\ rows' = Append(rows, row)
  BY DEF Insert, sessions
<1> HIDE DEF row
<1>4. /\ rows' \in Seq(RowSet) /\ Len(rows') = new
      /\ RowIds = 1 .. Len(rows) /\ RowIds' = RowIds \cup {new} /\ new \notin RowIds
      /\ new \in Int /\ new > 0
      /\ \A r \in RowIds : rows'[r] = rows[r]
      /\ rows'[new] = row
  BY <1>2, <1>3 DEF Inv, Types, RowIds
<1>5. answers' = answers \cup {b}
  BY <1>4 DEF Insert
<1>6. OpenRows' = OpenRows \cup {new} /\ OpenRows \subseteq RowIds
  BY <1>2, <1>4 DEF OpenRows
<1>7. /\ \A p \in Ports : active[p] # new
      /\ \A a \in answers : a.row # new
      /\ \A k \in DOMAIN jobs : jobs[k].op \in WriteOps => jobs[k].arg # new
  BY <1>4, <1>6 DEF Inv, RegisteredRows, AnswerRows, WriteRows, IsRow
<1>8. /\ b \in [port : Ports, tag : Int, row : Int]
      /\ b.port = jobs[i].port /\ b.tag = jobs[i].arg /\ b.row = new
  BY <1>1, <1>4
<1> HIDE DEF b, new
<1>9. Types'
  BY <1>3, <1>4, <1>5, <1>8, Ran DEF Inv, Types
<1>10. SidOnlyWhileCharging'
  BY <1>3 DEF Inv, SidOnlyWhileCharging
<1>11. RegisteredRows'
  BY <1>3, <1>4, <1>6 DEF Inv, RegisteredRows
<1>12. AnswerRows'
  <2> SUFFICES ASSUME NEW a \in answers'
               PROVE  /\ a.row \in OpenRows'
                      /\ rows'[a.row].port = a.port
                      /\ \A p \in Ports : active'[p] # a.row
                      /\ \A c \in answers' : c.row = a.row => c = a
    BY DEF AnswerRows
  <2>1. CASE a = b
    BY <1>2, <1>3, <1>4, <1>5, <1>6, <1>7, <1>8, <2>1
  <2>2. CASE a \in answers
    <3>1. /\ a.row \in OpenRows /\ a.row \in RowIds /\ a.row # new
          /\ rows[a.row].port = a.port
          /\ \A p \in Ports : active[p] # a.row
          /\ \A c \in answers : c.row = a.row => c = a
      BY <1>6, <1>7, <2>2 DEF Inv, AnswerRows
    <3> QED
      BY <1>3, <1>4, <1>5, <1>6, <1>8, <3>1
  <2> QED
    BY <1>5, <2>1, <2>2
<1>13. WriteRows'
  BY <1>3, <1>5, <1>6, <1>7, <1>8, Ran DEF Inv, WriteRows
<1>14. PointRows'
  BY <1>4, Ran DEF Inv, PointRows
<1>15. Tags'
  BY <1>1, <1>5, <1>8, Ran DEF Inv, Tags
<1>16. OpenRowsAccounted'
  <2> SUFFICES ASSUME NEW r \in OpenRows', r \notin LeftOpen
               PROVE  Settling(r)'
    BY <1>3 DEF OpenRowsAccounted
  <2>1. CASE r = new
    BY <1>5, <1>8, <2>1 DEF Settling
  <2>2. CASE r \in OpenRows
    <3>1. Settling(r)
      BY <2>2 DEF Inv, OpenRowsAccounted
    <3>2. \A k \in DOMAIN jobs : jobs[k].op \in {"end", "delete"} =>
             \E now \in DOMAIN jobs' : jobs'[now] = jobs[k]
      BY Ran
    <3> QED
      BY <1>3, <1>5, <3>1, <3>2 DEF Settling
  <2> QED
    BY <1>6, <2>1, <2>2
<1>17. FinishedStay
  BY <1>4 DEF FinishedStay
<1> QED
  BY <1>9, <1>10, <1>11, <1>12, <1>13, <1>14, <1>15, <1>16, <1>17 DEF Inv

(* A failed insert and a point: no row changes its state. *)
LEMMA PointStep ==
  ASSUME Inv, NEW i \in DOMAIN jobs, jobs[i].op \notin WriteOps,
         jobs' = RemoveAt(jobs, i), UNCHANGED <<sessions, answers, LeftOpen>>,
         rows' \in Seq(RowSet), RowIds' = RowIds,
         \A r \in RowIds : rows'[r].state = rows[r].state /\ rows'[r].port = rows[r].port
  PROVE  Inv' /\ FinishedStay
<1>1. UNCHANGED <<charging, enough, active, standIns, answers, LeftOpen>>
  BY DEF sessions
<1>2. OpenRows' = OpenRows /\ OpenRows \subseteq RowIds
  BY DEF OpenRows
<1>3. Types'
  BY <1>1, Ran DEF Inv, Types
<1>4. SidOnlyWhileCharging' /\ RegisteredRows' /\ AnswerRows'
  BY <1>1, <1>2 DEF Inv, SidOnlyWhileCharging, RegisteredRows, AnswerRows
<1>5. WriteRows' /\ PointRows' /\ Tags'
  BY <1>1, <1>2, Ran DEF Inv, WriteRows, PointRows, Tags
<1>6. OpenRowsAccounted'
  <2> SUFFICES ASSUME NEW r \in OpenRows, r \notin LeftOpen
               PROVE  Settling(r)'
    BY <1>1, <1>2 DEF OpenRowsAccounted
  <2>1. Settling(r)
    BY DEF Inv, OpenRowsAccounted
  <2>2. \A k \in DOMAIN jobs : jobs[k].op \in {"end", "delete"} =>
           \E now \in DOMAIN jobs' : jobs'[now] = jobs[k]
    BY Ran DEF WriteOps
  <2> QED
    BY <1>1, <2>1, <2>2 DEF Settling
<1> QED
  BY <1>3, <1>4, <1>5, <1>6 DEF Inv, FinishedStay

(* A row is ended or deleted, or that fails: nobody else holds it. *)
LEMMA WriteStep ==
  ASSUME Inv, NEW i \in DOMAIN jobs, jobs[i].op \in WriteOps,
         jobs' = RemoveAt(jobs, i), UNCHANGED <<sessions, answers>>,
         rows' \in Seq(RowSet), RowIds' = RowIds, LeftOpen \subseteq LeftOpen',
         rows'[jobs[i].arg].state # "open" \/ jobs[i].arg \in LeftOpen',
         \A r \in RowIds : r # jobs[i].arg => rows'[r] = rows[r]
  PROVE  Inv' /\ FinishedStay
<1>1. UNCHANGED <<charging, enough, active, standIns, answers>>
  BY DEF sessions
<1>2. /\ jobs[i].arg \in OpenRows
      /\ \A p \in Ports : active[p] # jobs[i].arg
      /\ \A a \in answers : a.row # jobs[i].arg
      /\ \A k \in DOMAIN jobs \ {i} : jobs[k].op \in WriteOps => jobs[k].arg # jobs[i].arg
  BY DEF Inv, WriteRows
<1>3. /\ OpenRows' \subseteq OpenRows /\ OpenRows \subseteq RowIds
      /\ \A r \in OpenRows : r # jobs[i].arg => r \in OpenRows'
      /\ jobs[i].arg \in OpenRows' => jobs[i].arg \in LeftOpen'
      /\ rows[jobs[i].arg].state = "open"
  BY <1>2 DEF OpenRows
<1>4. Types'
  BY <1>1, Ran DEF Inv, Types
<1>5. SidOnlyWhileCharging' /\ RegisteredRows' /\ AnswerRows'
  BY <1>1, <1>2, <1>3 DEF Inv, SidOnlyWhileCharging, RegisteredRows, AnswerRows
<1>6. WriteRows' /\ PointRows' /\ Tags'
  BY <1>1, <1>2, <1>3, Ran DEF Inv, WriteRows, PointRows, Tags
<1>7. OpenRowsAccounted'
  <2> SUFFICES ASSUME NEW r \in OpenRows, r # jobs[i].arg, r \notin LeftOpen
               PROVE  Settling(r)'
    BY <1>1, <1>3 DEF OpenRowsAccounted
  <2>1. Settling(r)
    BY DEF Inv, OpenRowsAccounted
  <2>2. \A k \in DOMAIN jobs : jobs[k].arg = r =>
           \E now \in DOMAIN jobs' : jobs'[now] = jobs[k]
    BY Ran
  <2> QED
    BY <1>1, <2>1, <2>2 DEF Settling
<1> QED
  BY <1>3, <1>4, <1>5, <1>6, <1>7 DEF Inv, FinishedStay

(* Changing one row leaves the others. *)
LEMMA RowChanged ==
  ASSUME Inv, NEW r \in RowIds, NEW e \in RowSet, rows' = [rows EXCEPT ![r] = e]
  PROVE  /\ rows' \in Seq(RowSet) /\ RowIds' = RowIds
         /\ rows'[r] = e
         /\ \A q \in RowIds : q # r => rows'[q] = rows[q]
<1>1. rows \in Seq(RowSet) /\ RowIds = 1 .. Len(rows)
  BY DEF Inv, Types, RowIds
<1>2. /\ rows' \in Seq(RowSet) /\ Len(rows') = Len(rows)
      /\ \A q \in 1 .. Len(rows) : rows'[q] = IF q = r THEN e ELSE rows[q]
  BY <1>1, ExceptSeq
<1>3. RowIds' = 1 .. Len(rows')
  BY <1>2 DEF RowIds
<1> QED
  BY <1>1, <1>2, <1>3

(* Each kind of job. *)
LEMMA RunJobStep ==
  ASSUME Inv, NEW i \in DOMAIN jobs, RunJob(i)
  PROVE  Inv' /\ FinishedStay
<1>1. /\ jobs' = RemoveAt(jobs, i) /\ UNCHANGED sessions
      /\ unwritten' = unwritten => LeftOpen' = LeftOpen
      /\ \A r : unwritten' = unwritten \cup {r} => LeftOpen' = LeftOpen \cup {r}
  BY DEF RunJob, LeftOpen
<1>2. CASE jobs[i].op = "start" /\ Insert(jobs[i])
  BY <1>1, <1>2, InsertStep DEF Insert
<1>3. CASE jobs[i].op = "start" /\ InsertFails
  <2>1. rows' = rows /\ answers' = answers /\ RowIds' = RowIds /\ LeftOpen' = LeftOpen
    BY <1>1, <1>3 DEF InsertFails, RowIds
  <2> QED
    BY <1>1, <1>3, <2>1, PointStep DEF Inv, Types, WriteOps
<1>4. CASE jobs[i].op = "end" /\ EndRow(jobs[i].arg)
  <2>1. jobs[i].arg \in OpenRows /\ jobs[i].op \in WriteOps
    BY <1>4 DEF Inv, WriteRows, WriteOps
  <2> DEFINE row == [rows[jobs[i].arg] EXCEPT !.state = "closed"]
  <2>2. /\ answers' = answers /\ LeftOpen' = LeftOpen
        /\ rows' = [rows EXCEPT ![jobs[i].arg] = row]
    BY <1>1, <1>4, <2>1 DEF EndRow, OpenRows
  <2>3. /\ rows' \in Seq(RowSet) /\ RowIds' = RowIds
        /\ rows'[jobs[i].arg].state # "open"
        /\ \A r \in RowIds : r # jobs[i].arg => rows'[r] = rows[r]
    <3>1. rows[jobs[i].arg] \in RowSet
      BY <2>1 DEF Inv, Types, RowIds, OpenRows
    <3>2. row \in RowSet /\ row.state # "open"
      BY <3>1 DEF RowSet
    <3> HIDE DEF row
    <3> QED
      BY <2>1, <2>2, <3>2, RowChanged DEF OpenRows
  <2> QED
    BY <1>1, <2>1, <2>2, <2>3, WriteStep
<1>5. CASE jobs[i].op = "delete" /\ DeleteRow(jobs[i].arg)
  <2>1. jobs[i].arg \in OpenRows /\ jobs[i].op \in WriteOps
    BY <1>5 DEF Inv, WriteRows, WriteOps
  <2> DEFINE row == [rows[jobs[i].arg] EXCEPT !.state = "gone", !.points = FALSE]
  <2>2. /\ answers' = answers /\ LeftOpen' = LeftOpen
        /\ rows' = [rows EXCEPT ![jobs[i].arg] = row]
    BY <1>1, <1>5, <2>1 DEF DeleteRow, OpenRows, Inv, Types, RowIds, RowSet
  <2>3. /\ rows' \in Seq(RowSet) /\ RowIds' = RowIds
        /\ rows'[jobs[i].arg].state # "open"
        /\ \A r \in RowIds : r # jobs[i].arg => rows'[r] = rows[r]
    <3>1. rows[jobs[i].arg] \in RowSet
      BY <2>1 DEF Inv, Types, RowIds, OpenRows
    <3>2. row \in RowSet /\ row.state # "open"
      BY <3>1 DEF RowSet
    <3> HIDE DEF row
    <3> QED
      BY <2>1, <2>2, <3>2, RowChanged DEF OpenRows
  <2> QED
    BY <1>1, <2>1, <2>2, <2>3, WriteStep
<1>6. CASE jobs[i].op = "point" /\ AddPoint(jobs[i].arg)
  <2>1. jobs[i].arg \in RowIds
    BY <1>6 DEF Inv, PointRows
  <2> DEFINE row == [rows[jobs[i].arg] EXCEPT !.points = TRUE]
  <2>2. /\ answers' = answers /\ LeftOpen' = LeftOpen
        /\ rows' = [rows EXCEPT ![jobs[i].arg] = row]
    BY <1>1, <1>6 DEF AddPoint
  <2>3. /\ rows' \in Seq(RowSet) /\ RowIds' = RowIds
        /\ \A r \in RowIds : rows'[r].state = rows[r].state /\ rows'[r].port = rows[r].port
    <3>1. rows[jobs[i].arg] \in RowSet
      BY <2>1 DEF Inv, Types, RowIds
    <3>2. /\ row \in RowSet /\ row.state = rows[jobs[i].arg].state
          /\ row.port = rows[jobs[i].arg].port
      BY <3>1 DEF RowSet
    <3> HIDE DEF row
    <3> QED
      BY <2>1, <2>2, <3>2, RowChanged
  <2> QED
    BY <1>1, <1>6, <2>2, <2>3, PointStep DEF WriteOps
<1>7. CASE jobs[i].op = "end" /\ EndFails(jobs[i].arg)
  <2>1. /\ jobs[i].op \in WriteOps
        /\ answers' = answers /\ rows' = rows /\ RowIds' = RowIds
        /\ LeftOpen' = LeftOpen \cup {jobs[i].arg}
    BY <1>1, <1>7 DEF EndFails, WriteOps, RowIds
  <2> QED
    BY <1>1, <2>1, WriteStep DEF Inv, Types
<1>8. CASE jobs[i].op = "delete" /\ DeleteFails(jobs[i].arg)
  <2>1. jobs[i].arg \in OpenRows /\ jobs[i].op \in WriteOps
    BY <1>8 DEF Inv, WriteRows, WriteOps
  <2>2. PICK points \in {rows[jobs[i].arg].points, FALSE} :
           rows' = [rows EXCEPT ![jobs[i].arg].points = points]
    BY <1>8 DEF DeleteFails
  <2> DEFINE row == [rows[jobs[i].arg] EXCEPT !.points = points]
  <2>3. /\ answers' = answers /\ LeftOpen' = LeftOpen \cup {jobs[i].arg}
        /\ rows' = [rows EXCEPT ![jobs[i].arg] = row]
    BY <1>1, <1>8, <2>2 DEF DeleteFails
  <2>4. /\ rows' \in Seq(RowSet) /\ RowIds' = RowIds
        /\ \A r \in RowIds : r # jobs[i].arg => rows'[r] = rows[r]
    <3>1. rows[jobs[i].arg] \in RowSet
      BY <2>1 DEF Inv, Types, RowIds, OpenRows
    <3>2. row \in RowSet
      BY <3>1 DEF RowSet
    <3> HIDE DEF row
    <3> QED
      BY <2>1, <2>3, <3>2, RowChanged DEF OpenRows
  <2> QED
    BY <1>1, <2>1, <2>3, <2>4, WriteStep
<1> QED
  BY <1>2, <1>3, <1>4, <1>5, <1>6, <1>7, <1>8 DEF RunJob

-----------------------------------------------------------------------------
(* The steps over all ports. *)

(* Rows built one by one from the old ones. *)
LEMMA RowsRebuilt ==
  ASSUME Inv, rows' \in [RowIds -> RowSet]
  PROVE  rows' \in Seq(RowSet) /\ RowIds' = RowIds
<1>1. RowIds = 1 .. Len(rows) /\ Len(rows) \in Nat
  BY DEF Inv, Types, RowIds
<1> QED
  BY <1>1, SeqDef DEF RowIds

(* All sessions end: their rows are ended, fail to be, or are abandoned. *)
LEMMA CloseAllStep ==
  ASSUME Inv, CloseAll
  PROVE  Inv' /\ FinishedStay
<1> DEFINE closing == {p \in Ports : charging[p]}
           kept == {p \in closing : IsRow(active[p]) /\ enough[p] /\ record}
<1>0. PICK failing \in SUBSET kept :
         /\ rows' = [r \in RowIds |->
                        IF \E p \in kept \ failing : active[p] = r
                        THEN [rows[r] EXCEPT !.state = "closed"] ELSE rows[r]]
         /\ unwritten' = unwritten \cup {active[p] : p \in failing}
  BY DEF CloseAll
<1> DEFINE closed(r) == \E p \in kept \ failing : active[p] = r
<1>1. /\ active' = [p \in Ports |-> IF p \in closing THEN None ELSE active[p]]
      /\ charging' = [p \in Ports |-> FALSE]
      /\ rows' = [r \in RowIds |->
                     IF closed(r) THEN [rows[r] EXCEPT !.state = "closed"] ELSE rows[r]]
      /\ LeftOpen' = LeftOpen \cup {active[p] : p \in failing} \cup
            {active[p] : p \in {q \in closing \ kept : IsRow(active[q])}}
      /\ UNCHANGED <<enough, standIns, jobs, answers>>
  BY <1>0 DEF CloseAll, LeftOpen
<1>2. \A p \in Ports : active'[p] = None
  BY <1>1 DEF Inv, Types, SidOnlyWhileCharging
<1>3. \A r \in RowIds : rows[r] \in RowSet /\ r \in Int /\ r > 0
  BY DEF Inv, Types, RowIds
<1>4. /\ rows' \in Seq(RowSet) /\ RowIds' = RowIds
      /\ \A r \in RowIds : closed(r) => rows'[r].state = "closed"
      /\ \A r \in RowIds : ~closed(r) => rows'[r] = rows[r]
      /\ \A r \in RowIds : rows'[r].port = rows[r].port
  <2> HIDE DEF closed
  <2>1. \A r \in RowIds : [rows[r] EXCEPT !.state = "closed"] \in RowSet
    BY <1>3 DEF RowSet
  <2>2. rows' \in [RowIds -> RowSet]
    BY <1>1, <1>3, <2>1
  <2>3. rows' \in Seq(RowSet) /\ RowIds' = RowIds
    BY <2>2, RowsRebuilt
  <2> QED
    BY <1>1, <1>3, <2>3 DEF RowSet
<1>5. \A r \in RowIds : closed(r) => /\ \E p \in Ports : active[p] = r
                                     /\ \A a \in answers : a.row # r
                                     /\ \A i \in DOMAIN jobs :
                                           jobs[i].op \in WriteOps => jobs[i].arg # r
  BY DEF Inv, AnswerRows, WriteRows
<1>6. \A r \in RowIds : closed(r) => rows[r].state = "open"
  BY DEF Inv, RegisteredRows, OpenRows
<1>7. /\ OpenRows' = {r \in OpenRows : ~closed(r)} /\ OpenRows \subseteq RowIds
      /\ None \notin OpenRows
  BY <1>3, <1>4 DEF OpenRows, None
<1>8. Types' /\ SidOnlyWhileCharging' /\ RegisteredRows'
  BY <1>1, <1>2, <1>4 DEF Inv, Types, SidOnlyWhileCharging, RegisteredRows, IsRow, None
<1>9. AnswerRows'
  <2> HIDE DEF closed
  <2> QED
    BY <1>1, <1>2, <1>4, <1>5, <1>7 DEF Inv, AnswerRows
<1>10. WriteRows'
  <2> HIDE DEF closed
  <2> QED
    BY <1>1, <1>2, <1>4, <1>5, <1>7 DEF Inv, WriteRows
<1>11. PointRows' /\ Tags'
  BY <1>1, <1>4 DEF Inv, PointRows, Tags
<1>12. OpenRowsAccounted'
  <2> SUFFICES ASSUME NEW r \in OpenRows, ~closed(r), r \notin LeftOpen'
               PROVE  Settling(r)'
    BY <1>7 DEF OpenRowsAccounted
  <2>1. Settling(r) /\ r > 0
    BY <1>1, <1>3, <1>7 DEF Inv, OpenRowsAccounted
  <2>2. \A p \in Ports : active[p] # r
    <3> SUFFICES ASSUME NEW p \in Ports, active[p] = r
                 PROVE  FALSE
      OBVIOUS
    <3>1. p \in closing /\ IsRow(active[p])
      BY <2>1 DEF Inv, SidOnlyWhileCharging, IsRow, None
    <3> QED
      BY <1>1, <3>1
  <2> QED
    BY <1>1, <2>1, <2>2 DEF Settling
<1>13. FinishedStay
  BY <1>4, <1>6 DEF FinishedStay
<1> QED
  BY <1>8, <1>9, <1>10, <1>11, <1>12, <1>13 DEF Inv

(* After a restart only rows that could not be cleaned up are open. *)
LEMMA CrashStep ==
  ASSUME Inv, CrashRestart
  PROVE  Inv' /\ FinishedStay
<1>1. PICK fate \in [OpenRows -> {"closed", "gone", "open"}],
           points \in [OpenRows -> BOOLEAN] : Cleaned(fate, points)
  BY DEF CrashRestart
<1>2. /\ charging' = [p \in Ports |-> FALSE] /\ enough' = [p \in Ports |-> FALSE]
      /\ active' = [p \in Ports |-> None] /\ standIns' = 0
      /\ jobs' = <<>> /\ answers' = {}
  BY DEF CrashRestart
<1>3. /\ rows' = [r \in RowIds |->
                     IF r \in OpenRows
                     THEN [rows[r] EXCEPT !.state = fate[r], !.points = points[r]]
                     ELSE rows[r]]
      /\ LeftOpen' = {r \in OpenRows : fate[r] = "open"}
  BY <1>1 DEF Cleaned, CrashRestart, LeftOpen
<1>4. /\ \A r \in RowIds : rows[r] \in RowSet
      /\ OpenRows \subseteq RowIds
  BY DEF Inv, Types, RowIds, OpenRows
<1>5. rows' \in Seq(RowSet) /\ RowIds' = RowIds
  <2>1. rows' \in [RowIds -> RowSet]
    BY <1>3, <1>4 DEF RowSet
  <2> QED
    BY <2>1, RowsRebuilt
<1>6. OpenRows' \subseteq LeftOpen'
  BY <1>3, <1>4, <1>5 DEF OpenRows, RowSet
<1>7. FinishedStay
  BY <1>3 DEF FinishedStay, OpenRows
<1>8. Types'
  BY <1>2, <1>5 DEF Types, None
<1>9. SidOnlyWhileCharging' /\ RegisteredRows' /\ AnswerRows'
  BY <1>2 DEF SidOnlyWhileCharging, RegisteredRows, AnswerRows, IsRow, None
<1>10. WriteRows' /\ PointRows' /\ Tags'
  BY <1>2 DEF WriteRows, PointRows, Tags
<1>11. OpenRowsAccounted'
  BY <1>6 DEF OpenRowsAccounted
<1> QED
  BY <1>7, <1>8, <1>9, <1>10, <1>11 DEF Inv

-----------------------------------------------------------------------------
(* The theorems. *)

(* Every step keeps the invariant, and with it the finished rows. *)
LEMMA StepInv == Inv /\ [Next]_vars => Inv' /\ FinishedStay
<1> SUFFICES ASSUME Inv, [Next]_vars
             PROVE  Inv' /\ FinishedStay
  OBVIOUS
<1>1. CASE \E p \in Ports : StartCharge(p)
  BY <1>1, StartChargeStep
<1>2. CASE \E p \in Ports : Sample(p)
  BY <1>2, SampleStep
<1>3. CASE \E p \in Ports : Close(p)
  BY <1>3, CloseStep
<1>4. CASE CloseAll
  BY <1>4, CloseAllStep
<1>5. CASE SwitchOff \/ UNCHANGED vars
  BY <1>5, QuietStep DEF SwitchOff, vars, exceptions, LeftOpen
<1>6. CASE SwitchOn
  BY <1>6, SwitchOnStep
<1>7. CASE \E r \in 1 .. MaxRows : Answer(r)
  BY <1>7, AnswerStep
<1>8. CASE \E i \in DOMAIN jobs : RunJob(i)
  BY <1>8, RunJobStep
<1>9. CASE CrashRestart
  BY <1>9, CrashStep
<1> QED
  BY <1>1, <1>2, <1>3, <1>4, <1>5, <1>6, <1>7, <1>8, <1>9 DEF Next

(* The inductive invariant, for any ports and bounds. *)
THEOREM Ledger == Spec => []Inv
<1> QED
  BY InitInv, StepInv, PTL DEF Spec

(* An id stays registered only while its port charges: no late callback
   registers a row for a session that has ended (_on_session_start,
   _on_upgrade). *)
THEOREM RegisteredWhileCharging == Spec => []SidOnlyWhileCharging
<1>1. Inv => SidOnlyWhileCharging
  BY DEF Inv
<1> QED
  BY <1>1, Ledger, PTL

(* The row of a running session is open, its own, and under no pending end
   or delete, whatever the order of executor jobs, callbacks and restarts. *)
THEOREM RegisteredRowIsOpen == Spec => []ActiveRowIsOpen
<1>1. Inv => ActiveRowIsOpen
  BY DEF Inv, RegisteredRows, WriteRows, WriteOps, ActiveRowIsOpen
<1> QED
  BY <1>1, Ledger, PTL

(* No interleaving forgets an open row: a session, a callback or a pending
   write will settle it, unless its session ended unrecorded or its one write
   has failed. *)
THEOREM NoRowForgotten == Spec => []OpenRowsAccounted
<1>1. Inv => OpenRowsAccounted
  BY DEF Inv
<1> QED
  BY <1>1, Ledger, PTL

(* No late job, callback or restart changes a row that is ended or deleted. *)
THEOREM FinishedRowsAreHistory == Spec => FinishedRowsStay
<1>1. Inv /\ [Next]_vars =>
         [\A r \in RowIds : rows[r].state # "open" => rows'[r].state = rows[r].state]_vars
  BY StepInv DEF FinishedStay
<1> QED
  BY <1>1, Ledger, PTL DEF Spec, FinishedRowsStay

-----------------------------------------------------------------------------
(* The bounds, the events and the requests for rows. *)

(* Ids and numbers keep within what was asked for: a stand-in was given to a
   charge, and no more rows are asked for than there is room for. *)
Numbers ==
    /\ record \in BOOLEAN
    /\ charges \in 0 .. MaxCharges
    /\ failures \in 0 .. MaxFailures
    /\ charge \in [Ports -> 0 .. MaxCharges]
    /\ standIns <= charges
    /\ \A p \in Ports : -charges <= active[p]
    /\ \A i \in DOMAIN jobs : jobs[i].op = "start" => -charges <= jobs[i].arg
    /\ \A a \in answers : -charges <= a.tag
    /\ Len(rows) + Cardinality(StartJobs) <= MaxRows
    /\ LeftOpen \subseteq RowIds

(* A charge has its number for itself, and as long as it runs nothing has been
   published under it. *)
Announced ==
    /\ \A p \in Ports : charge[p] <= charges
    /\ \A p, q \in Ports : charge[p] = charge[q] => p = q \/ charge[p] = 0
    /\ events \in Seq(1 .. MaxCharges)
    /\ \A i \in DOMAIN events : events[i] <= charges
    /\ \A p \in Ports : charging[p] =>
          charge[p] >= 1 /\ \A i \in DOMAIN events : events[i] # charge[p]
    /\ OneEventPerCharge

Book == Numbers /\ Announced /\ RecordIsComing

(* SetToSeq lists every element of a finite set, and each one once. *)
LEMMA ListedOnce ==
  ASSUME NEW S, IsFiniteSet(S)
  PROVE  /\ SetToSeq(S) \in Seq(S)
         /\ Len(SetToSeq(S)) = Cardinality(S) /\ Cardinality(S) \in Nat
         /\ \A i, j \in 1 .. Cardinality(S) : SetToSeq(S)[i] = SetToSeq(S)[j] => i = j
         /\ \A x \in S : \E i \in 1 .. Cardinality(S) : SetToSeq(S)[i] = x
<1> DEFINE n == Cardinality(S)
           f == SetToSeq(S)
<1>1. n \in Nat
  BY FS_CardinalityType
<1>2. PICK g : IsInjective(g) /\ g \in [1 .. n -> S]
  BY FS_NatBijection, FS_CardinalityType
     DEF ExistsBijection, Bijection, Injection, IsInjective
<1>3. IsInjective(f) /\ f \in [1 .. n -> S]
  BY <1>2 DEF SetToSeq
<1> HIDE DEF f, n
<1>4. \A i, j \in 1 .. n : f[i] = f[j] => i = j
  BY <1>3 DEF IsInjective
<1>5. \A x \in S : \E i \in 1 .. n : f[i] = x
  <2>1. f \in Injection(1 .. n, S)
    BY <1>3, <1>4 DEF Injection, IsInjective
  <2>2. IsFiniteSet(1 .. n) /\ Cardinality(1 .. n) = n
    BY <1>1, FS_Interval
  <2>3. f \in Surjection(1 .. n, S)
    BY <2>1, <2>2, FS_Injection DEF n
  <2> QED
    BY <2>3 DEF Surjection
<1>6. f \in Seq(S) /\ Len(f) = n
  BY <1>1, <1>3
<1> QED
  BY <1>1, <1>4, <1>5, <1>6 DEF f, n

(* The number of rows that are asked for. *)
LEMMA Starts ==
  ASSUME jobs \in Seq(JobSet)
  PROVE  IsFiniteSet(StartJobs) /\ Cardinality(StartJobs) \in Nat
<1>1. Len(jobs) \in Int /\ 1 \in Int /\ StartJobs \in SUBSET (1 .. Len(jobs))
  BY DEF StartJobs
<1>2. IsFiniteSet(1 .. Len(jobs))
  BY <1>1, FS_Interval
<1>3. IsFiniteSet(StartJobs)
  BY <1>1, <1>2, FS_Subset
<1> QED
  BY <1>3, FS_CardinalityType

LEMMA StartsAppended ==
  ASSUME jobs \in Seq(JobSet), NEW j \in JobSet, jobs' = Append(jobs, j)
  PROVE  /\ j.op = "start" => Cardinality(StartJobs') = Cardinality(StartJobs) + 1
         /\ j.op # "start" => StartJobs' = StartJobs
<1>1. /\ \A k \in DOMAIN jobs : k \in DOMAIN jobs' /\ jobs'[k] = jobs[k]
      /\ Len(jobs) + 1 \in DOMAIN jobs' /\ jobs'[Len(jobs) + 1] = j
      /\ Len(jobs) + 1 \notin DOMAIN jobs
      /\ \A k \in DOMAIN jobs' : k \in DOMAIN jobs \/ k = Len(jobs) + 1
  OBVIOUS
<1>2. CASE j.op = "start"
  <2>1. StartJobs' = StartJobs \cup {Len(jobs) + 1} /\ Len(jobs) + 1 \notin StartJobs
    BY <1>1, <1>2 DEF StartJobs
  <2> QED
    BY <1>2, <2>1, Starts, FS_AddElement
<1>3. CASE j.op # "start"
  BY <1>1, <1>3 DEF StartJobs
<1> QED
  BY <1>2, <1>3

LEMMA StartsRemoved ==
  ASSUME jobs \in Seq(JobSet), NEW i \in DOMAIN jobs, jobs' = RemoveAt(jobs, i)
  PROVE  /\ Cardinality(StartJobs') <= Cardinality(StartJobs)
         /\ jobs[i].op = "start" => Cardinality(StartJobs') + 1 <= Cardinality(StartJobs)
         /\ Cardinality(StartJobs') \in Nat
<1> DEFINE Old(k) == IF k < i THEN k ELSE k + 1
           f == [k \in StartJobs' |-> Old(k)]
<1>1. /\ jobs' \in Seq(JobSet) /\ i \in Int
      /\ \A k \in DOMAIN jobs' :
            k \in Int /\ Old(k) \in DOMAIN jobs \ {i} /\ jobs'[k] = jobs[Old(k)]
  BY Removed
<1>2. \A k \in StartJobs' : k \in Int /\ Old(k) \in StartJobs \ {i}
  <2> HIDE DEF Old
  <2> QED
    BY <1>1 DEF StartJobs
<1>3. f \in Injection(StartJobs', StartJobs \ {i})
  <2>1. \A k, l \in StartJobs' : Old(k) = Old(l) => k = l
    BY <1>1, <1>2
  <2> HIDE DEF Old
  <2> QED
    BY <1>2, <2>1 DEF Injection, IsInjective
<1>4. /\ IsFiniteSet(StartJobs \ {i})
      /\ Cardinality(StartJobs \ {i}) =
            IF i \in StartJobs THEN Cardinality(StartJobs) - 1 ELSE Cardinality(StartJobs)
  BY Starts, FS_RemoveElement
<1>5. Cardinality(StartJobs') <= Cardinality(StartJobs \ {i})
      /\ Cardinality(StartJobs') \in Nat
  BY <1>3, <1>4, FS_Injection, FS_CardinalityType
<1>6. jobs[i].op = "start" => i \in StartJobs
  BY DEF StartJobs
<1> QED
  BY <1>4, <1>5, <1>6, Starts

LEMMA StartsResumed ==
  ASSUME jobs \in Seq(JobSet), ResumeJobs \in Seq(JobSet), jobs' = jobs \o ResumeJobs
  PROVE  /\ Cardinality(StartJobs') <= Cardinality(StartJobs) + Cardinality(Resumed)
         /\ Cardinality(Resumed) \in Nat /\ Cardinality(StartJobs') \in Nat
<1> DEFINE T == {Job("start", p, active[p]) : p \in Resumed}
           f == [p \in Resumed |-> Job("start", p, active[p])]
           m == Len(jobs)
           n == Len(ResumeJobs)
<1>1. IsFiniteSet(Resumed) /\ Cardinality(Resumed) \in Nat
  BY SessionAssumption, FS_Subset, FS_CardinalityType DEF Resumed
<1>2. f \in Surjection(Resumed, T)
  BY DEF Surjection
<1>3. IsFiniteSet(T) /\ Cardinality(T) <= Cardinality(Resumed)
  BY <1>1, <1>2, FS_Surjection
<1>4. n = Cardinality(T) /\ n \in Nat
  BY <1>3, ListedOnce DEF ResumeJobs
<1> HIDE DEF T
<1>5. m \in Nat /\ m = Len(jobs) /\ n = Len(ResumeJobs)
  OBVIOUS
<1> HIDE DEF m, n
<1> DEFINE new == m + 1 .. m + n
<1>6. /\ jobs' \in Seq(JobSet) /\ Len(jobs') = m + n
      /\ \A k \in 1 .. m : jobs'[k] = jobs[k]
  <2>1. /\ jobs \o ResumeJobs \in Seq(JobSet)
        /\ Len(jobs \o ResumeJobs) = m + n
        /\ \A k \in 1 .. m + n : (jobs \o ResumeJobs)[k] =
              IF k <= m THEN jobs[k] ELSE ResumeJobs[k - m]
    BY <1>5, ConcatProperties
  <2>2. \A k \in 1 .. m : k \in 1 .. m + n /\ k <= m
    BY <1>4, <1>5
  <2> QED
    BY <2>1, <2>2
<1>7. StartJobs' \subseteq StartJobs \cup new
  <2> SUFFICES ASSUME NEW k \in StartJobs', k \notin new
               PROVE  k \in StartJobs
    OBVIOUS
  <2>1. k \in 1 .. m + n /\ jobs'[k].op = "start"
    BY <1>6 DEF StartJobs
  <2>2. k \in 1 .. m
    BY <1>4, <1>5, <2>1
  <2> QED
    BY <1>5, <1>6, <2>1, <2>2 DEF StartJobs
<1>8. IsFiniteSet(new) /\ Cardinality(new) = n
  <2>1. m + 1 \in Int /\ m + n \in Int /\ (m + 1 > m + n => n = 0)
        /\ (m + n) - (m + 1) + 1 = n
    BY <1>4, <1>5
  <2>2. /\ IsFiniteSet(new)
        /\ Cardinality(new) = IF m + 1 > m + n THEN 0 ELSE (m + n) - (m + 1) + 1
    BY <2>1, FS_Interval
  <2> QED
    BY <2>1, <2>2
<1> HIDE DEF new
<1>9. IsFiniteSet(StartJobs) /\ Cardinality(StartJobs) \in Nat
  BY Starts
<1>10. /\ IsFiniteSet(StartJobs \cup new)
       /\ Cardinality(StartJobs \cup new) <= Cardinality(StartJobs) + n
  <2>1. IsFiniteSet(StartJobs \cap new) /\ Cardinality(StartJobs \cap new) \in Nat
    BY <1>9, FS_Subset, FS_CardinalityType
  <2>2. /\ IsFiniteSet(StartJobs \cup new)
        /\ Cardinality(StartJobs \cup new) =
              Cardinality(StartJobs) + Cardinality(new) - Cardinality(StartJobs \cap new)
    BY <1>8, <1>9, FS_Union
  <2> QED
    BY <1>4, <1>8, <1>9, <2>1, <2>2
<1>11. /\ Cardinality(StartJobs') <= Cardinality(StartJobs \cup new)
       /\ Cardinality(StartJobs') \in Nat
       /\ Cardinality(StartJobs \cup new) \in Nat
  BY <1>7, <1>10, FS_Subset, FS_CardinalityType
<1> QED
  BY <1>1, <1>3, <1>4, <1>9, <1>10, <1>11

-----------------------------------------------------------------------------
(* The book is kept, step by step.  What Inv says of the state after a step is
   known by now (StepInv). *)

LEMMA BookInit == Init => Book
<1> SUFFICES ASSUME Init PROVE Book
  OBVIOUS
<1>1. StartJobs = {} /\ Cardinality(StartJobs) = 0
  BY FS_EmptySet DEF Init, StartJobs
<1>2. {MaxCharges, MaxRows, MaxFailures} \subseteq Nat
  BY SessionAssumption
<1>3. Numbers
  BY <1>1, <1>2 DEF Init, Numbers, None, LeftOpen
<1>4. Announced
  BY DEF Init, Announced, OneEventPerCharge, IsInjective
<1>5. RecordIsComing
  BY DEF Init, RecordIsComing
<1> QED
  BY <1>3, <1>4, <1>5 DEF Book

(* As long as nothing starts and nothing is published, the events are right. *)
LEMMA AnnouncedFrame ==
  ASSUME Announced, UNCHANGED ghosts, \A p \in Ports : charging'[p] => charging[p]
  PROVE  Announced'
  BY DEF Announced, ghosts, OneEventPerCharge

(* No request for a row is lost, and no session that needs one is added. *)
LEMMA ComingFrame ==
  ASSUME RecordIsComing, failures' = 0 => failures = 0,
         \A k \in DOMAIN jobs : jobs[k].op = "start" =>
            \E now \in DOMAIN jobs' : jobs'[now] = jobs[k],
         answers \subseteq answers',
         \A p \in Ports :
            charging'[p] /\ (active'[p] = None \/ (record' /\ active'[p] < 0)) =>
               /\ charging[p] /\ active'[p] = active[p]
               /\ active[p] = None \/ record
  PROVE  RecordIsComing'
<1> SUFFICES ASSUME NEW p \in Ports, charging'[p], failures' = 0,
                    active'[p] = None \/ (record' /\ active'[p] < 0)
             PROVE  \/ \E i \in StartJobs' : jobs'[i].port = p /\ jobs'[i].arg = active'[p]
                    \/ \E a \in answers' : a.port = p /\ a.tag = active'[p]
  BY DEF RecordIsComing
<1>1. /\ charging[p] /\ active'[p] = active[p]
      /\ active[p] = None \/ (record /\ active[p] < 0)
  OBVIOUS
<1>2. CASE \E i \in StartJobs : jobs[i].port = p /\ jobs[i].arg = active[p]
  <2>1. PICK i \in StartJobs : jobs[i].port = p /\ jobs[i].arg = active[p]
    BY <1>2
  <2>2. PICK now \in DOMAIN jobs' : jobs'[now] = jobs[i]
    BY DEF StartJobs
  <2>3. now \in StartJobs'
    BY <2>1, <2>2 DEF StartJobs
  <2> QED
    BY <1>1, <2>1, <2>2, <2>3
<1>3. CASE \E a \in answers : a.port = p /\ a.tag = active[p]
  BY <1>1, <1>3
<1> QED
  BY <1>1, <1>2, <1>3 DEF RecordIsComing

(* A charge that starts gets a number of its own. *)
LEMMA AnnouncedStart ==
  ASSUME Inv, Numbers, Announced, NEW p \in Ports,
         charges' = charges + 1, charge' = [charge EXCEPT ![p] = charges'],
         charging' = [charging EXCEPT ![p] = TRUE], events' = events
  PROVE  Announced'
<1>1. /\ charges \in Nat /\ \A q \in Ports : charge[q] \in Nat /\ charge[q] <= charges
      /\ \A q \in Ports : charge'[q] = IF q = p THEN charges + 1 ELSE charge[q]
  BY SessionAssumption DEF Numbers, Announced
<1>2. \A i \in DOMAIN events : events[i] \in Int /\ events[i] <= charges
  <2>1. events \in Seq(1 .. MaxCharges) /\ DOMAIN events = 1 .. Len(events)
    BY DEF Announced
  <2>2. \A i \in DOMAIN events : events[i] \in 1 .. MaxCharges
    BY <2>1, ElementOfSeq
  <2> QED
    BY <2>2 DEF Announced
<1>3. \A q \in Ports : charge'[q] <= charges'
  BY <1>1
<1>4. \A q, s \in Ports : charge'[q] = charge'[s] => q = s \/ charge'[q] = 0
  <2> TAKE q, s \in Ports
  <2>1. CASE q # p /\ s # p
    BY <1>1, <2>1 DEF Announced
  <2> QED
    BY <1>1, <2>1
<1>5. \A i \in DOMAIN events' : events'[i] <= charges'
  BY <1>1, <1>2
<1>6. ASSUME NEW q \in Ports, charging'[q]
      PROVE  charge'[q] >= 1 /\ \A i \in DOMAIN events' : events'[i] # charge'[q]
  <2>1. CASE q = p
    BY <1>1, <1>2, <2>1
  <2>2. CASE q # p
    <3>1. charging[q]
      BY <1>6, <2>2 DEF Inv, Types
    <3> QED
      BY <1>1, <2>2, <3>1 DEF Announced
  <2> QED
    BY <2>1, <2>2
<1> QED
  BY <1>3, <1>4, <1>5, <1>6 DEF Announced, OneEventPerCharge

(* What the ids are. *)
LEMMA Ids ==
  ASSUME Inv, Numbers
  PROVE  /\ \A q \in Ports : active[q] \in Int /\ -charges <= active[q]
         /\ \A k \in DOMAIN jobs :
               jobs[k].arg \in Int /\ (jobs[k].op = "start" => -charges <= jobs[k].arg)
         /\ \A a \in answers : a.tag \in Int /\ -charges <= a.tag
         /\ standIns \in Nat /\ standIns <= charges
<1>1. \A k \in DOMAIN jobs : jobs[k] \in JobSet
  BY ElementOfSeq DEF Inv, Types
<1>2. \A k \in DOMAIN jobs : jobs[k].arg \in Int
  BY <1>1 DEF JobSet
<1>3. \A q \in Ports : active[q] \in Int
  BY DEF Inv, Types
<1>4. \A a \in answers : a.tag \in Int
  BY DEF Inv, Types
<1>5. standIns \in Nat
  BY DEF Inv, Types
<1> QED
  BY <1>2, <1>3, <1>4, <1>5 DEF Numbers

LEMMA StartChargeBook ==
  ASSUME Inv, Book, NEW p \in Ports, StartCharge(p)
  PROVE  Book'
<1> USE DEF Book
<1> DEFINE j == Job("start", p, None)
<1>1. j \in JobSet /\ j.op = "start" /\ j.arg = 0 /\ j.port = p
  BY DEF Job, JobSet, None
<1>2. active[p] = None /\ ~charging[p]
  BY DEF StartCharge, Inv, SidOnlyWhileCharging
<1>3. /\ charges' = charges + 1 /\ charges' \in 0 .. MaxCharges /\ charges \in Nat
      /\ charge' = [charge EXCEPT ![p] = charges']
      /\ charging' = [charging EXCEPT ![p] = TRUE]
      /\ UNCHANGED <<record, answers, rows, LeftOpen, events, failures>>
  BY SessionAssumption DEF StartCharge, Numbers, exceptions, LeftOpen
<1>4. Len(rows) + Cardinality(StartJobs) + 1 <= MaxRows
      /\ Len(rows) \in Nat /\ Cardinality(StartJobs) \in Nat /\ MaxRows \in Nat
  BY Starts, SessionAssumption DEF StartCharge, Room, Inv, Types
<1>5. Announced'
  BY <1>3, AnnouncedStart
<1>6. /\ \A q \in Ports : active[q] \in Int /\ -charges <= active[q]
      /\ \A k \in DOMAIN jobs :
            jobs[k].arg \in Int /\ (jobs[k].op = "start" => -charges <= jobs[k].arg)
      /\ \A a \in answers : a.tag \in Int /\ -charges <= a.tag
      /\ standIns \in Nat /\ standIns <= charges
  BY Ids
<1>7. charge' \in [Ports -> 0 .. MaxCharges]
  BY <1>3 DEF Numbers
<1>8. CASE record
  <2>1. jobs' = Append(jobs, j) /\ UNCHANGED <<active, standIns>>
    BY <1>8 DEF StartCharge
  <2> HIDE DEF j
  <2>2. /\ \A k \in DOMAIN jobs : k \in DOMAIN jobs' /\ jobs'[k] = jobs[k]
        /\ \A k \in DOMAIN jobs' : k \in DOMAIN jobs \/ jobs'[k] = j
        /\ Len(jobs) + 1 \in DOMAIN jobs' /\ jobs'[Len(jobs) + 1] = j
    BY <1>1, <2>1 DEF Inv, Types
  <2>3. Cardinality(StartJobs') = Cardinality(StartJobs) + 1
    BY <1>1, <2>1, StartsAppended DEF Inv, Types
  <2>4. ASSUME NEW k \in DOMAIN jobs', jobs'[k].op = "start"
        PROVE  -charges' <= jobs'[k].arg
    <3>1. CASE k \in DOMAIN jobs
      BY <1>3, <1>6, <2>2, <2>4, <3>1
    <3>2. CASE jobs'[k] = j
      BY <1>1, <1>3, <3>2
    <3> QED
      BY <2>2, <3>1, <3>2
  <2>5. /\ standIns' <= charges'
        /\ \A q \in Ports : -charges' <= active'[q]
        /\ \A a \in answers' : -charges' <= a.tag
    BY <1>3, <1>6, <2>1
  <2>6. RecordIsComing'
    <3> SUFFICES ASSUME NEW q \in Ports, charging'[q], failures' = 0,
                        active'[q] = None \/ (record' /\ active'[q] < 0)
                 PROVE  \/ \E i \in StartJobs' : jobs'[i].port = q /\ jobs'[i].arg = active'[q]
                        \/ \E a \in answers' : a.port = q /\ a.tag = active'[q]
      BY DEF RecordIsComing
    <3>1. CASE q = p
      <4>1. Len(jobs) + 1 \in StartJobs'
        BY <1>1, <2>2 DEF StartJobs
      <4> QED
        BY <1>1, <1>2, <2>1, <2>2, <3>1, <4>1, SMTT(30) DEF None
    <3>2. CASE q # p
      <4>1. charging[q]
        BY <1>3, <3>2 DEF Inv, Types
      <4>2. \A k \in StartJobs : k \in StartJobs' /\ jobs'[k] = jobs[k]
        BY <2>2 DEF StartJobs
      <4>3. /\ active'[q] = active[q] /\ failures = 0
            /\ active[q] = None \/ (record /\ active[q] < 0)
        BY <1>3, <2>1
      <4>4. \/ \E i \in StartJobs : jobs[i].port = q /\ jobs[i].arg = active[q]
            \/ \E a \in answers : a.port = q /\ a.tag = active[q]
        BY <4>1, <4>3 DEF RecordIsComing
      <4>5. answers' = answers
        BY <1>3
      <4>6. \A i \in StartJobs : jobs[i].port = q /\ jobs[i].arg = active[q]
               => i \in StartJobs' /\ jobs'[i].port = q /\ jobs'[i].arg = active'[q]
        BY <4>2, <4>3
      <4> QED
        BY <4>3, <4>4, <4>5, <4>6, ZenonT(40)
    <3> QED
      BY <3>1, <3>2
  <2>7. Numbers'
    BY <1>3, <1>4, <1>7, <2>3, <2>4, <2>5 DEF Numbers, RowIds
  <2> QED
    BY <1>5, <2>6, <2>7
<1>9. CASE ~record
  <2>1. /\ UNCHANGED jobs
        /\ standIns' = standIns + 1
        /\ active' = [active EXCEPT ![p] = -standIns']
    BY <1>9 DEF StartCharge
  <2>2. \A q \in Ports : active'[q] = IF q = p THEN -standIns' ELSE active[q]
    BY <2>1 DEF Inv, Types
  <2>3. /\ standIns' <= charges' /\ standIns' \in Nat /\ standIns' > 0
        /\ \A q \in Ports : -charges' <= active'[q]
    <3>1. standIns' <= charges' /\ standIns' \in Nat /\ standIns' > 0
      BY <1>3, <1>6, <2>1
    <3> QED
      BY <1>3, <1>6, <2>2, <3>1
  <2>4. /\ \A k \in DOMAIN jobs' : jobs'[k].op = "start" => -charges' <= jobs'[k].arg
        /\ \A a \in answers' : -charges' <= a.tag
    BY <1>3, <1>6, <2>1
  <2>5. StartJobs' = StartJobs
    BY <2>1 DEF StartJobs
  <2>6. Numbers'
    BY <1>3, <1>4, <1>7, <2>3, <2>4, <2>5 DEF Numbers, RowIds
  <2>7. \A q \in Ports :
            charging'[q] /\ (active'[q] = None \/ (record' /\ active'[q] < 0)) =>
               /\ charging[q] /\ active'[q] = active[q]
               /\ active[q] = None \/ record
    <3> TAKE q \in Ports
    <3>1. CASE q = p
      BY <1>3, <1>9, <2>2, <2>3, <3>1 DEF None
    <3>2. CASE q # p
      BY <1>3, <1>9, <2>2, <3>2 DEF Inv, Types
    <3> QED
      BY <3>1, <3>2
  <2>8. RecordIsComing'
    BY <1>3, <2>1, <2>7, ComingFrame
  <2> QED
    BY <1>5, <2>6, <2>8
<1> QED
  BY <1>8, <1>9

-----------------------------------------------------------------------------
(* The other steps give out no number and, most of them, ask for no row. *)

(* The numbers are kept by a step that brings in no id of its own. *)
LEMMA NumbersKept ==
  ASSUME Inv, Inv', Numbers,
         UNCHANGED <<charge, charges, failures>>, record' \in BOOLEAN,
         standIns' <= standIns,
         \A p \in Ports : active'[p] = active[p] \/ active'[p] >= 0,
         \A k \in DOMAIN jobs' : jobs'[k].op = "start" => -charges <= jobs'[k].arg,
         answers' \subseteq answers, RowIds' = RowIds, LeftOpen' \subseteq RowIds,
         Len(rows) + Cardinality(StartJobs') <= MaxRows
  PROVE  Numbers'
<1>1. Len(rows') = Len(rows)
  BY DEF RowIds, Inv, Types
<1>2. charges \in Nat /\ standIns \in Nat /\ standIns' \in Nat
  BY SessionAssumption DEF Numbers, Inv, Types
<1>3. \A p \in Ports : active[p] \in Int /\ active'[p] \in Int
  BY DEF Inv, Types
<1>4. \A p \in Ports : -charges' <= active'[p]
  BY <1>2, <1>3 DEF Numbers
<1>5. standIns' <= charges'
  BY <1>2 DEF Numbers
<1> QED
  BY <1>1, <1>4, <1>5 DEF Numbers

(* A job that asks for no row may be added. *)
LEMMA OtherJob ==
  ASSUME Inv, Numbers, NEW j \in JobSet, j.op # "start",
         UNCHANGED jobs \/ jobs' = Append(jobs, j)
  PROVE  /\ StartJobs' = StartJobs
         /\ \A k \in DOMAIN jobs : k \in DOMAIN jobs' /\ jobs'[k] = jobs[k]
         /\ \A k \in DOMAIN jobs' : jobs'[k].op = "start" => -charges <= jobs'[k].arg
         /\ Len(rows) + Cardinality(StartJobs') <= MaxRows
<1>1. jobs \in Seq(JobSet)
  BY DEF Inv, Types
<1>2. StartJobs' = StartJobs
  BY <1>1, StartsAppended DEF StartJobs
<1>3. \A k \in DOMAIN jobs : k \in DOMAIN jobs' /\ jobs'[k] = jobs[k]
  BY <1>1, Appended
<1>4. \A k \in DOMAIN jobs' : \/ k \in DOMAIN jobs /\ jobs'[k] = jobs[k]
                              \/ jobs'[k] = j
  BY <1>1, Appended
<1> QED
  BY <1>2, <1>3, <1>4 DEF Numbers

(* Nothing asked for is lost when jobs are only added. *)
LEMMA StillComing ==
  ASSUME RecordIsComing, failures' = 0 => failures = 0,
         \A k \in DOMAIN jobs : k \in DOMAIN jobs' /\ jobs'[k] = jobs[k],
         answers \subseteq answers',
         \A p \in Ports :
            charging'[p] /\ (active'[p] = None \/ (record' /\ active'[p] < 0)) =>
               /\ charging[p] /\ active'[p] = active[p]
               /\ active[p] = None \/ record
  PROVE  RecordIsComing'
  BY ComingFrame

LEMMA SampleBook ==
  ASSUME Inv, Inv', Book, NEW p \in Ports, Sample(p)
  PROVE  Book'
<1> USE DEF Book
<1> DEFINE j == Job("point", p, active[p])
<1>1. j \in JobSet /\ j.op # "start"
  BY DEF Job, JobSet, Inv, Types
<1>2. /\ UNCHANGED jobs \/ jobs' = Append(jobs, j)
      /\ UNCHANGED <<record, charging, active, standIns, answers, rows,
                     LeftOpen, ghosts, failures>>
  BY DEF Sample, RecordChargePoint, exceptions, LeftOpen
<1> HIDE DEF j
<1>3. /\ \A k \in DOMAIN jobs : k \in DOMAIN jobs' /\ jobs'[k] = jobs[k]
      /\ \A k \in DOMAIN jobs' : jobs'[k].op = "start" => -charges <= jobs'[k].arg
      /\ Len(rows) + Cardinality(StartJobs') <= MaxRows
  BY <1>1, <1>2, OtherJob
<1>4. Announced'
  BY <1>2, AnnouncedFrame
<1>5. RecordIsComing'
  BY <1>2, <1>3, StillComing
<1>6. Numbers'
  <2>1. /\ standIns' <= standIns /\ record' \in BOOLEAN
        /\ RowIds' = RowIds /\ LeftOpen' \subseteq RowIds
        /\ UNCHANGED <<charge, charges, failures>>
    BY <1>2 DEF Numbers, RowIds, ghosts, Inv, Types
  <2> QED
    BY <1>2, <1>3, <2>1, NumbersKept
<1> QED
  BY <1>4, <1>5, <1>6

(* Publishing the end of a charge that runs: nothing was published of it. *)
LEMMA Published ==
  ASSUME Inv, Announced, NEW p \in Ports, charging[p],
         charge[p] \in 1 .. MaxCharges, UNCHANGED <<charge, charges>>,
         charging' = [charging EXCEPT ![p] = FALSE],
         events' = Append(events, charge[p]) \/ UNCHANGED events
  PROVE  Announced'
<1>1. \A q \in Ports : charging'[q] => charging[q] /\ q # p
  BY DEF Inv, Types
<1>2. CASE UNCHANGED events
  BY <1>1, <1>2 DEF Announced, OneEventPerCharge
<1>3. CASE events' = Append(events, charge[p])
  <2> DEFINE n == Len(events) + 1
  <2>1. /\ events' \in Seq(1 .. MaxCharges) /\ n \notin DOMAIN events
        /\ \A i \in DOMAIN events' : \/ i \in DOMAIN events /\ events'[i] = events[i]
                                     \/ i = n /\ events'[i] = charge[p]
    <3>1. /\ events \in Seq(1 .. MaxCharges) /\ Len(events) \in Nat
          /\ DOMAIN events = 1 .. Len(events)
      BY DEF Announced
    <3>2. /\ events' \in Seq(1 .. MaxCharges) /\ Len(events') = Len(events) + 1
          /\ \A i \in 1 .. Len(events) : events'[i] = events[i]
          /\ events'[Len(events) + 1] = charge[p]
      BY <1>3, <3>1, AppendProperties
    <3>3. DOMAIN events' = 1 .. Len(events) + 1
      BY <3>2
    <3>4. /\ Len(events) + 1 \notin DOMAIN events
          /\ \A i \in 1 .. Len(events) + 1 : i \in 1 .. Len(events) \/ i = Len(events) + 1
      BY <3>1
    <3>5. \A i \in DOMAIN events' : \/ i \in DOMAIN events /\ events'[i] = events[i]
                                    \/ i = Len(events) + 1 /\ events'[i] = charge[p]
      BY <3>1, <3>2, <3>3, <3>4, Zenon
    <3> QED
      BY <3>2, <3>4, <3>5, Zenon
  <2>2. \A i \in DOMAIN events : events[i] # charge[p]
    BY DEF Announced
  <2> HIDE DEF n
  <2>3. OneEventPerCharge'
    BY <2>1, <2>2 DEF Announced, OneEventPerCharge, IsInjective
  <2>4. \A i \in DOMAIN events' : events'[i] <= charges'
    BY <2>1 DEF Announced
  <2>5. ASSUME NEW q \in Ports, charging'[q]
        PROVE  charge'[q] >= 1 /\ \A i \in DOMAIN events' : events'[i] # charge'[q]
    <3>1. charge[q] >= 1 /\ charging[q] /\ q # p
      BY <1>1, <2>5 DEF Announced
    <3>2. charge[p] # charge[q]
      BY <3>1 DEF Announced
    <3> QED
      BY <2>1, <3>1, <3>2 DEF Announced
  <2> QED
    BY <2>1, <2>3, <2>4, <2>5 DEF Announced
<1> QED
  BY <1>2, <1>3

LEMMA CloseBook ==
  ASSUME Inv, Inv', Book, NEW p \in Ports, Close(p)
  PROVE  Book'
<1> USE DEF Book
<1> DEFINE j == Job(IF enough[p] THEN "end" ELSE "delete", p, active[p])
<1>1. j \in JobSet /\ j.op # "start"
  BY DEF Job, JobSet, Inv, Types
<1>2. /\ UNCHANGED jobs \/ jobs' = Append(jobs, j)
      /\ active' = [active EXCEPT ![p] = None]
      /\ charging' = [charging EXCEPT ![p] = FALSE]
      /\ events' = Append(events, charge[p]) \/ UNCHANGED events
      /\ LeftOpen' \subseteq LeftOpen \cup {r \in {active[p]} : IsRow(r)}
      /\ UNCHANGED <<record, standIns, answers, rows, charge, charges, failures>>
  BY DEF Close, Unregister, LeftOpen
<1> HIDE DEF j
<1>3. /\ \A k \in DOMAIN jobs : k \in DOMAIN jobs' /\ jobs'[k] = jobs[k]
      /\ \A k \in DOMAIN jobs' : jobs'[k].op = "start" => -charges <= jobs'[k].arg
      /\ Len(rows) + Cardinality(StartJobs') <= MaxRows
  BY <1>1, <1>2, OtherJob
<1>4. \A q \in Ports : active'[q] = IF q = p THEN None ELSE active[q]
  BY <1>2 DEF Inv, Types
<1>5. \A q \in Ports : charging'[q] => charging[q] /\ q # p
  BY <1>2 DEF Inv, Types
<1>6. Announced'
  <2>1. charging[p]
    BY DEF Close, Inv, SidOnlyWhileCharging
  <2>2. charge[p] \in 1 .. MaxCharges
    BY <2>1 DEF Numbers, Announced
  <2> QED
    BY <1>2, <2>1, <2>2, Published
<1>7. RecordIsComing'
  BY <1>2, <1>3, <1>4, <1>5, StillComing
<1>8. Numbers'
  <2>1. LeftOpen' \subseteq RowIds
    BY <1>2 DEF Numbers, Inv, RegisteredRows, OpenRows
  <2>2. standIns' <= standIns /\ record' \in BOOLEAN /\ RowIds' = RowIds
    BY <1>2 DEF Numbers, RowIds, Inv, Types
  <2>3. \A q \in Ports : active'[q] = active[q] \/ active'[q] >= 0
    BY <1>4 DEF None
  <2> QED
    BY <1>2, <1>3, <2>1, <2>2, <2>3, NumbersKept
<1> QED
  BY <1>6, <1>7, <1>8

(* All running charges are published together, each under its own number. *)
LEMMA CloseAllBook ==
  ASSUME Inv, Inv', Book, CloseAll
  PROVE  Book'
<1> USE DEF Book
<1> DEFINE ended == {p \in Ports : charging[p] /\ enough[p]}
           S == {charge[p] : p \in ended}
           L == SetToSeq(S)
<1>1. /\ charging' = [p \in Ports |-> FALSE]
      /\ events' = events \o L
      /\ UNCHANGED <<record, standIns, jobs, answers, charge, charges, failures>>
  <2>1. {charge[p] : p \in {q \in {p \in Ports : charging[p]} : enough[q]}} = S
    OBVIOUS
  <2> QED
    BY <2>1 DEF CloseAll
<1>2. \A p \in Ports : active'[p] = None /\ ~charging'[p]
  BY <1>1 DEF Inv, SidOnlyWhileCharging
<1>3. /\ L \in Seq(S) /\ Len(L) \in Nat
      /\ \A i, k \in 1 .. Len(L) : L[i] = L[k] => i = k
  <2>1. IsFiniteSet(ended)
    BY SessionAssumption, FS_Subset
  <2>2. [p \in ended |-> charge[p]] \in Surjection(ended, S)
    BY DEF Surjection
  <2>3. IsFiniteSet(S)
    BY <2>1, <2>2, FS_Surjection
  <2> HIDE DEF S
  <2> QED
    BY <2>3, ListedOnce
<1>4. S \subseteq 1 .. MaxCharges
  BY DEF Numbers, Announced
<1>5. L \in Seq(1 .. MaxCharges)
  BY <1>3, <1>4, SeqMonotonic
<1>6. \A x \in S : x <= charges /\ \A i \in DOMAIN events : events[i] # x
  BY DEF Announced
<1>7. \A k \in 1 .. Len(L) : L[k] \in S
  BY <1>3, ElementOfSeq
<1> HIDE DEF L, S
<1> DEFINE m == Len(events)
           n == Len(L)
<1>8. /\ events \in Seq(1 .. MaxCharges) /\ DOMAIN events = 1 .. m
      /\ m \in Nat /\ n \in Nat
  BY <1>3 DEF Announced
<1>9. /\ events' \in Seq(1 .. MaxCharges) /\ DOMAIN events' = 1 .. m + n
      /\ \A i \in 1 .. m + n : events'[i] = IF i <= m THEN events[i] ELSE L[i - m]
  BY <1>1, <1>5, <1>8, ConcatProperties
<1> HIDE DEF m, n
<1>10. \A i \in DOMAIN events' :
          \/ i \in 1 .. m /\ events'[i] = events[i]
          \/ i \in Int /\ i > m /\ i - m \in 1 .. n /\ events'[i] = L[i - m]
  BY <1>8, <1>9
<1>11. OneEventPerCharge'
  <2> SUFFICES ASSUME NEW i \in DOMAIN events', NEW k \in DOMAIN events',
                      events'[i] = events'[k]
               PROVE  i = k
    BY DEF OneEventPerCharge, IsInjective
  <2>1. CASE i \in 1 .. m /\ events'[i] = events[i]
    <3>1. k \in 1 .. m /\ events'[k] = events[k]
      BY <1>6, <1>7, <1>8, <1>10, <2>1 DEF n
    <3> QED
      BY <1>8, <2>1, <3>1 DEF Announced, OneEventPerCharge, IsInjective
  <2>2. CASE i \in Int /\ i > m /\ i - m \in 1 .. n /\ events'[i] = L[i - m]
    <3>1. k \in Int /\ k > m /\ k - m \in 1 .. n /\ events'[k] = L[k - m]
      BY <1>6, <1>7, <1>8, <1>10, <2>2 DEF n
    <3>2. i - m = k - m
      BY <1>3, <2>2, <3>1 DEF n
    <3> QED
      BY <1>8, <2>2, <3>1, <3>2
  <2> QED
    BY <1>10, <2>1, <2>2
<1>12. \A i \in DOMAIN events' : events'[i] <= charges
  BY <1>6, <1>7, <1>8, <1>10 DEF n, Announced
<1>13. Announced'
  BY <1>1, <1>2, <1>9, <1>11, <1>12 DEF Announced
<1>14. RecordIsComing'
  BY <1>2 DEF RecordIsComing
<1>15. Numbers'
  <2>1. RowIds' = RowIds
    BY DEF CloseAll, RowIds
  <2>2. LeftOpen' \subseteq RowIds
    BY DEF CloseAll, Numbers, LeftOpen, Inv, RegisteredRows, OpenRows
  <2>3. /\ \A k \in DOMAIN jobs' : jobs'[k].op = "start" => -charges <= jobs'[k].arg
        /\ Len(rows) + Cardinality(StartJobs') <= MaxRows
    BY <1>1 DEF Numbers, StartJobs
  <2>4. standIns' <= standIns /\ record' \in BOOLEAN
    BY <1>1 DEF Numbers, Inv, Types
  <2>5. \A q \in Ports : active'[q] = active[q] \/ active'[q] >= 0
    BY <1>2 DEF None
  <2> QED
    BY <1>1, <2>1, <2>2, <2>3, <2>4, <2>5, NumbersKept
<1> QED
  BY <1>13, <1>14, <1>15

(* The switch: off asks for nothing, on asks for the rows of all stand-ins. *)
LEMMA SwitchOffBook ==
  ASSUME Inv, Inv', Book, SwitchOff \/ UNCHANGED vars
  PROVE  Book'
<1>1. /\ record' \in BOOLEAN /\ (record' => record)
      /\ UNCHANGED <<charging, active, standIns, jobs, answers, rows, LeftOpen,
                     charge, charges, events, failures>>
  <2>1. CASE SwitchOff
    BY <2>1 DEF SwitchOff, sessions, database, ghosts, exceptions, LeftOpen
  <2>2. CASE UNCHANGED vars
    <3>1. record \in BOOLEAN
      BY DEF Book, Numbers
    <3>2. record' = record
      BY <2>2 DEF vars
    <3>3. UNCHANGED <<charging, active, standIns, jobs, answers, rows, LeftOpen,
                      charge, charges, events, failures>>
      BY <2>2 DEF vars, sessions, database, ghosts, exceptions, LeftOpen
    <3> QED
      BY <3>1, <3>2, <3>3, Zenon
  <2> QED
    BY <2>1, <2>2
<1>2. Announced'
  BY <1>1 DEF Book, Announced, OneEventPerCharge
<1>3. StartJobs' = StartJobs /\ RowIds' = RowIds
  BY <1>1 DEF StartJobs, RowIds
<1>4. Numbers'
  BY <1>1, <1>3 DEF Book, Numbers
<1>5. RecordIsComing'
  BY <1>1, <1>3 DEF Book, RecordIsComing
<1> QED
  BY <1>2, <1>4, <1>5 DEF Book

LEMMA SwitchOnBook ==
  ASSUME Inv, Inv', Book, SwitchOn
  PROVE  Book'
<1> USE DEF Book
<1> DEFINE T == {Job("start", p, active[p]) : p \in Resumed}
           m == Len(jobs)
           n == Len(ResumeJobs)
<1>1. /\ jobs' = jobs \o ResumeJobs
      /\ Len(rows) + Cardinality(StartJobs) + Cardinality(Resumed) <= MaxRows
      /\ UNCHANGED <<charging, active, standIns, answers, rows, LeftOpen,
                     charge, charges, events, failures>>
      /\ record' = TRUE
  BY DEF SwitchOn, Room, ghosts, exceptions, LeftOpen
<1>2. IsFiniteSet(T)
  <2>1. IsFiniteSet(Resumed)
    BY SessionAssumption, FS_Subset DEF Resumed
  <2>2. [p \in Resumed |-> Job("start", p, active[p])] \in Surjection(Resumed, T)
    BY DEF Surjection
  <2> QED
    BY <2>1, <2>2, FS_Surjection
<1>3. T \subseteq JobSet
  <2>1. \A p \in Resumed : Job("start", p, active[p]) \in JobSet
    BY DEF Job, JobSet, Resumed, Inv, Types
  <2> QED
    BY <2>1
<1>4. \A j \in T : j.op = "start" /\ -charges <= j.arg
  <2> SUFFICES ASSUME NEW p \in Resumed
               PROVE  /\ Job("start", p, active[p]).op = "start"
                      /\ -charges <= Job("start", p, active[p]).arg
    OBVIOUS
  <2>1. -charges <= active[p]
    BY DEF Resumed, Numbers
  <2>2. /\ Job("start", p, active[p]).op = "start"
        /\ Job("start", p, active[p]).arg = active[p]
    BY DEF Job
  <2> QED
    BY <2>1, <2>2, Zenon
<1>5. \A p \in Resumed : \E j \in T : j.op = "start" /\ j.port = p /\ j.arg = active[p]
  <2> TAKE p \in Resumed
  <2> WITNESS Job("start", p, active[p]) \in T
  <2> QED
    BY DEF Job
<1>6. ResumeJobs = SetToSeq(T)
  BY DEF ResumeJobs
<1> HIDE DEF T
<1>7. /\ ResumeJobs \in Seq(T) /\ n \in Nat
      /\ \A k \in 1 .. n : ResumeJobs[k] \in T
      /\ \A x \in T : \E k \in 1 .. n : ResumeJobs[k] = x
  BY <1>2, <1>6, ListedOnce, ElementOfSeq
<1>8. ResumeJobs \in Seq(JobSet) /\ jobs \in Seq(JobSet)
  BY <1>3, <1>7, SeqMonotonic DEF Inv, Types
<1>9. m \in Nat /\ DOMAIN jobs = 1 .. m
  BY <1>8
<1>10. /\ DOMAIN jobs' = 1 .. m + n
       /\ \A k \in 1 .. m + n : jobs'[k] = IF k <= m THEN jobs[k] ELSE ResumeJobs[k - m]
  BY <1>1, <1>8, <1>9, ConcatProperties
<1> HIDE DEF m, n
<1>11. \A k \in DOMAIN jobs : k \in DOMAIN jobs' /\ jobs'[k] = jobs[k]
  BY <1>7, <1>9, <1>10
<1>12. \A k \in 1 .. n : k + m \in DOMAIN jobs' /\ jobs'[k + m] = ResumeJobs[k]
  <2> TAKE k \in 1 .. n
  <2>1. k + m \in 1 .. m + n /\ ~(k + m <= m) /\ (k + m) - m = k
    BY <1>7, <1>9
  <2> QED
    BY <1>10, <2>1
<1>13. \A k \in DOMAIN jobs' : \/ k \in DOMAIN jobs /\ jobs'[k] = jobs[k]
                               \/ jobs'[k] \in T
  <2> TAKE k \in DOMAIN jobs'
  <2>1. CASE k \in 1 .. m
    BY <1>9, <1>11, <2>1
  <2>2. CASE k \notin 1 .. m
    <3>1. k - m \in 1 .. n /\ k \in 1 .. m + n /\ ~(k <= m)
      BY <1>7, <1>9, <1>10, <2>2
    <3> QED
      BY <1>7, <1>10, <3>1
  <2> QED
    BY <2>1, <2>2
<1>14. Announced'
  BY <1>1, AnnouncedFrame DEF ghosts
<1>15. Numbers'
  <2>1. /\ Cardinality(StartJobs') <= Cardinality(StartJobs) + Cardinality(Resumed)
        /\ Cardinality(Resumed) \in Nat /\ Cardinality(StartJobs') \in Nat
    BY <1>1, <1>8, StartsResumed
  <2>2. Len(rows) \in Nat /\ Cardinality(StartJobs) \in Nat /\ MaxRows \in Nat
    BY <1>8, Starts, SessionAssumption DEF Inv, Types
  <2>3. Len(rows) + Cardinality(StartJobs') <= MaxRows
    BY <1>1, <2>1, <2>2
  <2>4. \A k \in DOMAIN jobs' : jobs'[k].op = "start" => -charges <= jobs'[k].arg
    BY <1>4, <1>13 DEF Numbers
  <2>5. RowIds' = RowIds /\ LeftOpen' \subseteq RowIds
        /\ standIns' <= standIns /\ record' \in BOOLEAN
    BY <1>1 DEF RowIds, Numbers, Inv, Types
  <2> QED
    BY <1>1, <2>3, <2>4, <2>5, NumbersKept
<1>16. RecordIsComing'
  <2> SUFFICES ASSUME NEW p \in Ports, charging[p], failures = 0,
                      active[p] = None \/ active[p] < 0
               PROVE  \/ \E i \in StartJobs' : jobs'[i].port = p /\ jobs'[i].arg = active[p]
                      \/ \E a \in answers : a.port = p /\ a.tag = active[p]
    BY <1>1 DEF RecordIsComing
  <2>1. CASE active[p] = None
    <3>1. \/ \E i \in StartJobs : jobs[i].port = p /\ jobs[i].arg = active[p]
          \/ \E a \in answers : a.port = p /\ a.tag = active[p]
      BY <2>1 DEF RecordIsComing
    <3>2. \A i \in StartJobs : i \in StartJobs' /\ jobs'[i] = jobs[i]
      BY <1>11 DEF StartJobs
    <3> QED
      BY <3>1, <3>2
  <2>2. CASE active[p] < 0
    <3>1. PICK j \in T : j.op = "start" /\ j.port = p /\ j.arg = active[p]
      BY <1>5, <2>2 DEF Resumed
    <3>2. PICK k \in 1 .. n : ResumeJobs[k] = j
      BY <1>7
    <3>3. k + m \in StartJobs' /\ jobs'[k + m] = j
      BY <1>12, <3>1, <3>2 DEF StartJobs
    <3> QED
      BY <3>1, <3>3
  <2> QED
    BY <2>1, <2>2
<1> QED
  BY <1>14, <1>15, <1>16

(* An answer the session still wants becomes its row; another is deleted. *)
LEMMA AnswerBook ==
  ASSUME Inv, Inv', Book, NEW r, Answer(r)
  PROVE  Book'
<1> USE DEF Book
<1>1. PICK a \in answers :
         /\ a.row = r
         /\ answers' = answers \ {a}
         /\ IF Wanted(a)
            THEN active' = [active EXCEPT ![a.port] = r] /\ UNCHANGED jobs
            ELSE CloseOrphan(a) /\ UNCHANGED active
         /\ UNCHANGED <<record, charging, enough, standIns, rows, LeftOpen,
                        ghosts, failures>>
  BY DEF Answer, exceptions, LeftOpen
<1> DEFINE j == Job("delete", a.port, a.row)
<1>2. a.row \in Int /\ a.row > 0 /\ a.port \in Ports
  BY DEF Inv, Types, AnswerRows, OpenRows, RowIds
<1>3. j \in JobSet /\ j.op # "start"
  BY <1>2 DEF Job, JobSet
<1>4. UNCHANGED jobs \/ jobs' = Append(jobs, j)
  BY <1>1 DEF CloseOrphan
<1> HIDE DEF j
<1>5. /\ StartJobs' = StartJobs
      /\ \A k \in DOMAIN jobs : k \in DOMAIN jobs' /\ jobs'[k] = jobs[k]
      /\ \A k \in DOMAIN jobs' : jobs'[k].op = "start" => -charges <= jobs'[k].arg
      /\ Len(rows) + Cardinality(StartJobs') <= MaxRows
  BY <1>3, <1>4, OtherJob
<1>6. Announced'
  BY <1>1, AnnouncedFrame
<1>7. \A p \in Ports : active'[p] = active[p] \/ (p = a.port /\ active'[p] > 0)
  BY <1>1, <1>2 DEF Inv, Types
<1>8. \A p \in Ports : active'[p] \in Int
  BY DEF Inv, Types
<1>9. Numbers'
  <2>1. /\ RowIds' = RowIds /\ LeftOpen' \subseteq RowIds /\ standIns' <= standIns
        /\ record' \in BOOLEAN /\ UNCHANGED <<charge, charges, failures>>
    BY <1>1 DEF RowIds, Numbers, Inv, Types, ghosts
  <2>2. \A p \in Ports : active'[p] = active[p] \/ active'[p] >= 0
    BY <1>7, <1>8
  <2> QED
    BY <1>1, <1>5, <2>1, <2>2, NumbersKept
<1>10. RecordIsComing'
  <2> SUFFICES ASSUME NEW p \in Ports, charging[p], failures = 0,
                      active'[p] = None \/ (record /\ active'[p] < 0)
               PROVE  \/ \E i \in StartJobs' : jobs'[i].port = p /\ jobs'[i].arg = active'[p]
                      \/ \E b \in answers' : b.port = p /\ b.tag = active'[p]
    BY <1>1 DEF RecordIsComing
  <2>1. active'[p] = active[p]
    BY <1>7, <1>8 DEF None
  <2>2. \/ \E i \in StartJobs : jobs[i].port = p /\ jobs[i].arg = active[p]
        \/ \E b \in answers : b.port = p /\ b.tag = active[p]
    BY <2>1 DEF RecordIsComing
  <2>3. CASE \E i \in StartJobs : jobs[i].port = p /\ jobs[i].arg = active[p]
    BY <1>5, <2>1, <2>3 DEF StartJobs
  <2>4. CASE \E b \in answers : b.port = p /\ b.tag = active[p]
    <3>1. PICK b \in answers : b.port = p /\ b.tag = active[p]
      BY <2>4
    <3>2. ASSUME b = a PROVE FALSE
      <4>1. Wanted(a) /\ a.port = p
        BY <3>1, <3>2 DEF Wanted
      <4>2. active'[p] = r
        BY <1>1, <4>1 DEF Inv, Types
      <4> QED
        BY <1>1, <1>2, <4>2 DEF None
    <3> QED
      BY <1>1, <2>1, <3>1, <3>2
  <2> QED
    BY <2>2, <2>3, <2>4
<1> QED
  BY <1>6, <1>9, <1>10

(* A job that has run asks for nothing any more.  An insert turns the request *)
(* into an answer, and only a failed one leaves a session without.            *)
LEMMA RunJobBook ==
  ASSUME Inv, Inv', Book, NEW i \in DOMAIN jobs, RunJob(i)
  PROVE  Book'
<1> USE DEF Book
<1>1. /\ jobs' = RemoveAt(jobs, i)
      /\ UNCHANGED <<record, charging, active, standIns, abandoned, ghosts>>
  BY DEF RunJob, sessions
<1>2. jobs \in Seq(JobSet)
  BY DEF Inv, Types
<1>3. /\ \A k \in DOMAIN jobs' : \E old \in DOMAIN jobs \ {i} : jobs'[k] = jobs[old]
      /\ \A k \in DOMAIN jobs \ {i} : \E now \in DOMAIN jobs' : jobs'[now] = jobs[k]
  BY <1>1, Ran
<1>4. \A k \in DOMAIN jobs' : jobs'[k].op = "start" => -charges <= jobs'[k].arg
  BY <1>3 DEF Numbers
<1>5. /\ Cardinality(StartJobs') <= Cardinality(StartJobs)
      /\ jobs[i].op = "start" => Cardinality(StartJobs') + 1 <= Cardinality(StartJobs)
      /\ Cardinality(StartJobs') \in Nat /\ Cardinality(StartJobs) \in Nat
      /\ Len(rows) \in Nat /\ MaxRows \in Nat
  BY <1>1, <1>2, Starts, StartsRemoved, SessionAssumption DEF Inv, Types
<1>6. Len(rows) + Cardinality(StartJobs') <= MaxRows
  BY <1>5 DEF Numbers
<1>7. Announced'
  BY <1>1, AnnouncedFrame
<1>8. CASE jobs[i].op # "start"
  <2>1. UNCHANGED <<answers, failures>>
    BY <1>8 DEF RunJob, EndRow, EndFails, DeleteRow, DeleteFails, AddPoint
  <2>2. RowIds' = RowIds
    BY <1>8 DEF RunJob, EndRow, EndFails, DeleteRow, DeleteFails, AddPoint,
                   RowIds
  <2>3. Numbers'
    <3>1. standIns' <= standIns /\ record' \in BOOLEAN
      BY <1>1 DEF Numbers, Inv, Types
    <3>2. jobs[i].op \in WriteOps => jobs[i].arg \in RowIds
      BY DEF Inv, WriteRows, OpenRows
    <3>3. unwritten' \subseteq unwritten \cup RowIds
      BY <1>8, <3>2 DEF RunJob, EndRow, EndFails, DeleteRow, DeleteFails,
                        AddPoint, WriteOps
    <3>4. LeftOpen' \subseteq RowIds
      BY <1>1, <3>3 DEF Numbers, LeftOpen
    <3> QED
      BY <1>1, <1>4, <1>6, <2>1, <2>2, <3>1, <3>4, NumbersKept DEF ghosts
  <2>4. \A k \in DOMAIN jobs : jobs[k].op = "start" =>
           \E now \in DOMAIN jobs' : jobs'[now] = jobs[k]
    BY <1>3, <1>8
  <2>5. RecordIsComing'
    BY <1>1, <2>1, <2>4, ComingFrame
  <2> QED
    BY <1>7, <2>3, <2>5
<1>9. CASE jobs[i].op = "start" /\ InsertFails
  <2>1. /\ failures' \in 0 .. MaxFailures /\ failures' # 0
        /\ UNCHANGED <<rows, answers, LeftOpen>>
    BY <1>1, <1>9, SessionAssumption DEF InsertFails, Numbers, LeftOpen
  <2>2. Numbers'
    BY <1>1, <1>4, <1>6, <2>1 DEF Numbers, RowIds, ghosts
  <2>3. RecordIsComing'
    BY <2>1 DEF RecordIsComing
  <2> QED
    BY <1>7, <2>2, <2>3
<1>10. CASE jobs[i].op = "start" /\ Insert(jobs[i])
  <2> DEFINE b == [port |-> jobs[i].port, tag |-> jobs[i].arg, row |-> Len(rows')]
  <2>1. /\ answers' = answers \cup {b} /\ UNCHANGED <<failures, LeftOpen>>
        /\ Len(rows') = Len(rows) + 1 /\ RowIds \subseteq RowIds'
    <3>1. rows' = Append(rows, [state |-> "open", port |-> jobs[i].port,
                                points |-> FALSE])
      BY <1>10 DEF Insert
    <3> QED
      BY <1>1, <1>10, <3>1 DEF Insert, LeftOpen, RowIds, Inv, Types
  <2>2. b.port = jobs[i].port /\ b.tag = jobs[i].arg
    OBVIOUS
  <2> HIDE DEF b
  <2>3. Len(rows') + Cardinality(StartJobs') <= MaxRows
    BY <1>5, <1>10, <2>1 DEF Numbers
  <2>4. \A a \in answers' : -charges <= a.tag
    BY <1>10, <2>1, <2>2 DEF Numbers
  <2>5. Numbers'
    BY <1>1, <1>4, <2>1, <2>3, <2>4 DEF Numbers, ghosts
  <2>6. RecordIsComing'
    <3> SUFFICES ASSUME NEW p \in Ports, charging[p], failures = 0,
                        active[p] = None \/ (record /\ active[p] < 0)
                 PROVE  \/ \E k \in StartJobs' : jobs'[k].port = p /\ jobs'[k].arg = active[p]
                        \/ \E a \in answers' : a.port = p /\ a.tag = active[p]
      BY <1>1, <2>1 DEF RecordIsComing
    <3>1. \/ \E k \in StartJobs : jobs[k].port = p /\ jobs[k].arg = active[p]
          \/ \E a \in answers : a.port = p /\ a.tag = active[p]
      BY DEF RecordIsComing
    <3>2. CASE \E a \in answers : a.port = p /\ a.tag = active[p]
      BY <2>1, <3>2
    <3>3. CASE \E k \in StartJobs : jobs[k].port = p /\ jobs[k].arg = active[p]
      <4>1. PICK k \in StartJobs : jobs[k].port = p /\ jobs[k].arg = active[p]
        BY <3>3
      <4>2. CASE k = i
        BY <2>1, <2>2, <4>1, <4>2
      <4>3. CASE k # i
        <5>1. PICK now \in DOMAIN jobs' : jobs'[now] = jobs[k]
          BY <1>3, <4>3 DEF StartJobs
        <5>2. now \in StartJobs'
          BY <5>1 DEF StartJobs
        <5> QED
          BY <4>1, <5>1, <5>2
      <4> QED
        BY <4>2, <4>3
    <3> QED
      BY <3>1, <3>2, <3>3
  <2> QED
    BY <1>7, <2>5, <2>6
<1> QED
  BY <1>8, <1>9, <1>10 DEF RunJob

LEMMA CrashBook ==
  ASSUME Inv, Inv', Book, CrashRestart
  PROVE  Book'
<1> USE DEF Book
<1>1. /\ \A p \in Ports : charging'[p] = FALSE /\ active'[p] = 0
      /\ jobs' = <<>> /\ answers' = {} /\ standIns' = 0
      /\ LeftOpen' \subseteq RowIds
      /\ UNCHANGED <<record, ghosts, failures>>
  BY DEF CrashRestart, Cleaned, LeftOpen, OpenRows, None
<1>2. RowIds' = RowIds
  BY DEF CrashRestart, Cleaned, RowIds
<1>3. StartJobs' = {} /\ Cardinality(StartJobs') = 0
  BY <1>1, FS_EmptySet DEF StartJobs
<1>4. Announced'
  BY <1>1, AnnouncedFrame
<1>5. RecordIsComing'
  BY <1>1 DEF RecordIsComing
<1>6. Numbers'
  <2>1. Len(rows) + Cardinality(StartJobs') <= MaxRows
    BY <1>3, Starts, SessionAssumption DEF Numbers, Inv, Types
  <2>2. standIns' <= standIns /\ record' \in BOOLEAN
    BY <1>1 DEF Numbers, Inv, Types
  <2> QED
    BY <1>1, <1>2, <2>1, <2>2, NumbersKept DEF ghosts
<1> QED
  BY <1>4, <1>5, <1>6

(* Every step keeps the book. *)
LEMMA StepBook == Inv /\ Book /\ [Next]_vars => Book'
<1> SUFFICES ASSUME Inv, Book, [Next]_vars
             PROVE  Book'
  OBVIOUS
<1>1. Inv'
  BY StepInv
<1>2. CASE \E p \in Ports : StartCharge(p)
  BY <1>2, StartChargeBook
<1>3. CASE \E p \in Ports : Sample(p)
  BY <1>1, <1>3, SampleBook
<1>4. CASE \E p \in Ports : Close(p)
  BY <1>1, <1>4, CloseBook
<1>5. CASE CloseAll
  BY <1>1, <1>5, CloseAllBook
<1>6. CASE SwitchOff \/ UNCHANGED vars
  BY <1>1, <1>6, SwitchOffBook
<1>7. CASE SwitchOn
  BY <1>1, <1>7, SwitchOnBook
<1>8. CASE \E r \in 1 .. MaxRows : Answer(r)
  BY <1>1, <1>8, AnswerBook
<1>9. CASE \E i \in DOMAIN jobs : RunJob(i)
  BY <1>1, <1>9, RunJobBook
<1>10. CASE CrashRestart
  BY <1>1, <1>10, CrashBook
<1> QED
  BY <1>2, <1>3, <1>4, <1>5, <1>6, <1>7, <1>8, <1>9, <1>10 DEF Next

(* The two invariants give every bound of the type invariant. *)
LEMMA BookTypes == Inv /\ Book => TypeOK
<1> SUFFICES ASSUME Inv, Book PROVE TypeOK
  OBVIOUS
<1> USE DEF Book
<1>1. /\ charges \in 0 .. MaxCharges /\ Len(rows) \in Nat /\ RowIds = 1 .. Len(rows)
      /\ Cardinality(StartJobs) \in Nat
      /\ {MaxCharges, MaxRows, MaxFailures} \subseteq Nat
  BY Starts, SessionAssumption DEF Numbers, Inv, Types, RowIds
<1>2. Len(rows) <= MaxRows /\ RowIds \subseteq 1 .. MaxRows
  BY <1>1 DEF Numbers
<1>3. standIns \in 0 .. MaxCharges
  BY <1>1, Ids
<1>4. active \in [Ports -> -MaxCharges .. MaxRows]
  <2>1. ASSUME NEW p \in Ports
        PROVE  active[p] \in -MaxCharges .. MaxRows
    <3>1. active[p] \in Int /\ -charges <= active[p]
      BY Ids
    <3>2. active[p] > 0 => active[p] \in 1 .. MaxRows
      BY <1>2 DEF Inv, RegisteredRows, OpenRows, IsRow
    <3> QED
      BY <1>1, <3>1, <3>2
  <2> QED
    BY <2>1 DEF Inv, Types
<1>5. jobs \in Seq([op : {"start", "end", "delete", "point"}, port : Ports,
                    arg : -MaxCharges .. MaxRows])
  <2> DEFINE J == [op : {"start", "end", "delete", "point"}, port : Ports,
                   arg : -MaxCharges .. MaxRows]
  <2>1. ASSUME NEW k \in DOMAIN jobs
        PROVE  jobs[k] \in J
    <3>1. jobs[k] \in JobSet
      BY ElementOfSeq DEF Inv, Types
    <3>2. CASE jobs[k].op = "start"
      <4>1. jobs[k].arg \in Int /\ -charges <= jobs[k].arg /\ jobs[k].arg <= 0
        BY <3>2, Ids DEF Inv, Tags
      <4>2. jobs[k].arg \in -MaxCharges .. MaxRows
        BY <1>1, <4>1
      <4> QED
        BY <3>1, <4>2 DEF JobSet
    <3>3. CASE jobs[k].op # "start"
      <4>1. jobs[k].arg \in RowIds
        BY <3>1, <3>3 DEF JobSet, Inv, WriteRows, WriteOps, PointRows, OpenRows
      <4>2. jobs[k].arg \in -MaxCharges .. MaxRows
        BY <1>1, <1>2, <4>1
      <4> QED
        BY <3>1, <4>2 DEF JobSet
    <3> QED
      BY <3>2, <3>3
  <2> HIDE DEF J
  <2>2. jobs \in Seq(J)
    <3>1. jobs \in [1 .. Len(jobs) -> J] /\ Len(jobs) \in Nat
      BY <2>1 DEF Inv, Types
    <3> QED
      BY <3>1, SeqDef
  <2> QED
    BY <2>2 DEF J
<1>6. answers \subseteq [port : Ports, tag : -MaxCharges .. None, row : 1 .. MaxRows]
  <2> SUFFICES ASSUME NEW a \in answers
               PROVE  a \in [port : Ports, tag : -MaxCharges .. None, row : 1 .. MaxRows]
    OBVIOUS
  <2>1. a \in [port : Ports, tag : Int, row : Int]
    BY DEF Inv, Types
  <2>2. a.tag \in Int /\ -charges <= a.tag /\ a.tag <= 0
    BY Ids DEF Inv, Tags
  <2>3. a.tag \in -MaxCharges .. None
    BY <1>1, <2>2 DEF None
  <2>4. a.row \in 1 .. MaxRows
    BY <1>2 DEF Inv, AnswerRows, OpenRows
  <2> QED
    BY <2>1, <2>3, <2>4
<1>7. /\ charging \in [Ports -> BOOLEAN] /\ enough \in [Ports -> BOOLEAN]
      /\ rows \in Seq([state : {"open", "closed", "gone"}, port : Ports,
                       points : BOOLEAN])
  BY DEF Inv, Types, RowSet
<1> QED
  BY <1>2, <1>3, <1>4, <1>5, <1>6, <1>7 DEF TypeOK, Numbers, Announced, LeftOpen

(* Ids, numbers and rows keep within the bounds: more rows are never inserted
   than there was room for when they were asked for. *)
THEOREM SessionTypes == Spec => []TypeOK
<1>1. Init => Book
  BY BookInit
<1>2. Inv /\ Inv' /\ Book /\ [Next]_vars => Book'
  BY StepBook
<1>3. Spec => []Book
  BY <1>1, <1>2, Ledger, PTL DEF Spec
<1> QED
  BY <1>3, BookTypes, Ledger, PTL

(* Whatever closes a charge first -- the frame, the timer, a lost link, a stop
   -- its end is published once; and a charge that is to be recorded has its row
   or will get it, unless an insert failed. *)
THEOREM EventsAndRows == Spec => []EventAndRow
<1>1. Init => Book
  BY BookInit
<1>2. Inv /\ Inv' /\ Book /\ [Next]_vars => Book'
  BY StepBook
<1>3. Spec => []Book
  BY <1>1, <1>2, Ledger, PTL DEF Spec
<1>4. Book => EventAndRow
  BY DEF Book, Announced, EventAndRow
<1> QED
  BY <1>3, <1>4, PTL
=============================================================================
