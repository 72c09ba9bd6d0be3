------------------------- MODULE CpuSchedulerProofs -------------------------
(***************************************************************************)
(* Proofs about the abstract scheduler, for all values of its constants:   *)
(* whatever is created, dispatched, preempted, blocked and woken, every    *)
(* process is in one place.  OsSimSchedulerProofs carries this over to the *)
(* threads of the simulator.                                               *)
(***************************************************************************)
EXTENDS CpuScheduler, SequenceTheorems, TLAPS

(***************************************************************************)
(* The elements of a queue after an append, a removal and a Tail.          *)
(***************************************************************************)
LEMMA AppendElements ==
  ASSUME NEW S, NEW s \in Seq(S), NEW e \in S
  PROVE  /\ Append(s, e) \in Seq(S)
         /\ DOMAIN s = 1 .. Len(s) /\ Len(s) \in Nat
         /\ DOMAIN Append(s, e) = 1 .. Len(s) + 1
         /\ Append(s, e)[Len(s) + 1] = e
         /\ \A i \in DOMAIN s : i \in DOMAIN Append(s, e) /\ Append(s, e)[i] = s[i]
         /\ \A i \in DOMAIN Append(s, e) : i \in DOMAIN s \/ i = Len(s) + 1
         /\ ToSet(Append(s, e)) = ToSet(s) \cup {e}
<1>1. /\ Append(s, e) \in Seq(S)
      /\ DOMAIN s = 1 .. Len(s) /\ Len(s) \in Nat
      /\ DOMAIN Append(s, e) = 1 .. Len(s) + 1
      /\ Append(s, e)[Len(s) + 1] = e
      /\ \A i \in DOMAIN s : i \in DOMAIN Append(s, e) /\ Append(s, e)[i] = s[i]
      /\ \A i \in DOMAIN Append(s, e) : i \in DOMAIN s \/ i = Len(s) + 1
  BY AppendProperties
<1>2. Len(s) + 1 \in DOMAIN Append(s, e)
  BY <1>1
<1>3. ToSet(Append(s, e)) = ToSet(s) \cup {e}
  BY <1>1, <1>2 DEF ToSet
<1> QED
  BY <1>1, <1>3

LEMMA Element ==
  ASSUME NEW S, NEW s \in Seq(S), NEW i \in DOMAIN s
  PROVE  s[i] \in S
  OBVIOUS

(* The index in s of the j-th element of s without its i-th. *)
Shift(i, j) == IF j < i THEN j ELSE j + 1

LEMMA RemoveElements ==
  ASSUME NEW S, NEW s \in Seq(S), NEW i \in DOMAIN s
  PROVE  /\ RemoveAt(s, i) \in Seq(S)
         /\ \A j \in DOMAIN RemoveAt(s, i) :
              /\ Shift(i, j) \in DOMAIN s \ {i}
              /\ RemoveAt(s, i)[j] = s[Shift(i, j)]
         /\ \A k \in DOMAIN s \ {i} :
              \E j \in DOMAIN RemoveAt(s, i) : Shift(i, j) = k
         /\ \A j, k \in DOMAIN RemoveAt(s, i) : Shift(i, j) = Shift(i, k) => j = k
<1> DEFINE a == SubSeq(s, 1, i - 1)
           b == SubSeq(s, i + 1, Len(s))
<1>1. /\ Len(s) \in Nat /\ DOMAIN s = 1 .. Len(s)
      /\ i \in 1 .. Len(s)
  OBVIOUS
<1>2. /\ a \in Seq(S) /\ Len(a) = i - 1
      /\ \A j \in 1 .. i - 1 : a[j] = s[j]
  <2>1. /\ 1 \in Int /\ i - 1 \in Int
        /\ \A j \in 1 .. i - 1 : s[j] \in S
    BY <1>1
  <2> QED
    BY <1>1, <2>1, SubSeqProperties
<1>3. /\ b \in Seq(S) /\ Len(b) = Len(s) - i
      /\ \A j \in 1 .. Len(s) - i : b[j] = s[i + j]
  <2>1. /\ i + 1 \in Int /\ Len(s) \in Int
        /\ \A j \in i + 1 .. Len(s) : s[j] \in S
    BY <1>1
  <2> QED
    BY <1>1, <2>1, SubSeqProperties
<1> HIDE DEF a, b
<1>4. /\ a \o b \in Seq(S) /\ Len(a \o b) = Len(s) - 1
      /\ \A j \in 1 .. Len(s) - 1 : (a \o b)[j] = IF j <= i - 1 THEN a[j] ELSE b[j - (i - 1)]
  <2>1. /\ a \o b \in Seq(S) /\ Len(a \o b) = Len(a) + Len(b)
        /\ \A j \in 1 .. Len(a) + Len(b) :
             (a \o b)[j] = IF j <= Len(a) THEN a[j] ELSE b[j - Len(a)]
    BY <1>2, <1>3, ConcatProperties
  <2>2. Len(a) + Len(b) = Len(s) - 1
    BY <1>1, <1>2, <1>3
  <2> QED
    BY <1>2, <2>1, <2>2
<1>5. RemoveAt(s, i) = a \o b
  BY DEF RemoveAt, a, b
<1>6. DOMAIN (a \o b) = 1 .. Len(s) - 1
  BY <1>4
<1>7. \A j \in 1 .. Len(s) - 1 :
        /\ Shift(i, j) \in DOMAIN s \ {i}
        /\ (a \o b)[j] = s[Shift(i, j)]
  <2> TAKE j \in 1 .. Len(s) - 1
  <2>1. CASE j < i
    BY <1>1, <1>2, <1>4, <2>1 DEF Shift
  <2>2. CASE ~(j < i)
    <3>1. j - (i - 1) \in 1 .. Len(s) - i /\ i + (j - (i - 1)) = j + 1
      BY <1>1, <2>2
    <3>2. b[j - (i - 1)] = s[j + 1]
      BY <1>3, <3>1
    <3> QED
      BY <1>1, <1>4, <2>2, <3>2 DEF Shift
  <2> QED
    BY <2>1, <2>2
<1>8. \A k \in DOMAIN s \ {i} : \E j \in 1 .. Len(s) - 1 : Shift(i, j) = k
  <2> TAKE k \in DOMAIN s \ {i}
  <2>1. CASE k < i
    BY <1>1, <2>1 DEF Shift
  <2>2. CASE k > i
    <3>1. k - 1 \in 1 .. Len(s) - 1 /\ Shift(i, k - 1) = k
      BY <1>1, <2>2 DEF Shift
    <3> QED
      BY <3>1
  <2> QED
    BY <1>1, <2>1, <2>2
<1>9. \A j, k \in 1 .. Len(s) - 1 : Shift(i, j) = Shift(i, k) => j = k
  BY <1>1 DEF Shift
<1> QED
  BY <1>4, <1>5, <1>6, <1>7, <1>8, <1>9

LEMMA RemoveFrom ==
  ASSUME NEW S, NEW s \in Seq(S), NEW i \in DOMAIN s,
         \A j, k \in DOMAIN s : s[j] = s[k] => j = k
  PROVE  /\ ToSet(RemoveAt(s, i)) = ToSet(s) \ {s[i]}
         /\ \A j, k \in DOMAIN RemoveAt(s, i) :
              RemoveAt(s, i)[j] = RemoveAt(s, i)[k] => j = k
<1> DEFINE r == RemoveAt(s, i)
<1>1. /\ \A j \in DOMAIN r : Shift(i, j) \in DOMAIN s \ {i} /\ r[j] = s[Shift(i, j)]
      /\ \A k \in DOMAIN s \ {i} : \E j \in DOMAIN r : Shift(i, j) = k
      /\ \A j, k \in DOMAIN r : Shift(i, j) = Shift(i, k) => j = k
  BY RemoveElements
<1> HIDE DEF r
<1>2. ToSet(r) = ToSet(s) \ {s[i]}
  BY <1>1 DEF ToSet
<1>3. \A j, k \in DOMAIN r : r[j] = r[k] => j = k
  BY <1>1
<1> QED
  BY <1>2, <1>3 DEF r

LEMMA TailElements ==
  ASSUME NEW S, NEW s \in Seq(S), s # <<>>
  PROVE  /\ Tail(s) \in Seq(S)
         /\ 1 \in DOMAIN s /\ Head(s) = s[1] /\ Head(s) \in S
         /\ \A i \in DOMAIN Tail(s) : i + 1 \in DOMAIN s \ {1} /\ Tail(s)[i] = s[i + 1]
         /\ \A k \in DOMAIN s \ {1} : k - 1 \in DOMAIN Tail(s) /\ Tail(s)[k - 1] = s[k]
         /\ \A i, j \in DOMAIN Tail(s) : i + 1 = j + 1 => i = j
<1>1. /\ Tail(s) \in Seq(S) /\ Len(Tail(s)) = Len(s) - 1
      /\ \A i \in 1 .. Len(Tail(s)) : Tail(s)[i] = s[i + 1]
      /\ 1 \in DOMAIN s /\ Head(s) = s[1] /\ Head(s) \in S
      /\ Len(s) \in Nat /\ DOMAIN s = 1 .. Len(s)
  BY HeadTailProperties
<1>2. DOMAIN Tail(s) = 1 .. Len(s) - 1
  BY <1>1
<1>3. \A i \in DOMAIN Tail(s) : i + 1 \in DOMAIN s \ {1} /\ Tail(s)[i] = s[i + 1]
  BY <1>1, <1>2
<1>4. \A k \in DOMAIN s \ {1} : k - 1 \in DOMAIN Tail(s) /\ Tail(s)[k - 1] = s[k]
  BY <1>1, <1>2
<1>5. \A i, j \in DOMAIN Tail(s) : i + 1 = j + 1 => i = j
  BY <1>2
<1> QED
  BY <1>1, <1>3, <1>4, <1>5

-----------------------------------------------------------------------------
(***************************************************************************)
(* What the actions do to the sets of OnePlace.                            *)
(***************************************************************************)
LEMMA RequestType ==
  ASSUME TypeOK, NEW i \in DOMAIN io
  PROVE  io[i] \in [pcb : Procs, time : Nat] /\ io[i].pcb \in Procs /\ io[i].time \in Nat
<1>0. io \in Seq([pcb : Procs, time : Nat])
  BY DEF TypeOK
<1>1. io[i] \in [pcb : Procs, time : Nat]
  BY <1>0, Element
<1> QED
  BY <1>1

LEMMA FreeEffect ==
  ASSUME TypeOK, OnePlace, Alternating, NEW c \in Cpus, running[c] # Null, Free(c)
  PROVE  /\ Taken' = Taken \ {running[c]}
         /\ \A d, e \in Cpus : running'[d] = running'[e] => d = e \/ running'[d] = Null
  BY DEF Free, Taken, TypeOK, OnePlace, Alternating

LEMMA NextOpEffect ==
  ASSUME TypeOK, OpsInPlace, Alternating, NEW p \in Procs, NEW type \in {"io", "terminate"},
         NextOp(p, type)
  PROVE  /\ p \notin Done /\ p \notin Waiting
         /\ op[p] + 1 \in DOMAIN Program[p]
         /\ op' \in [Procs -> Nat \ {0}] /\ left' \in [Procs -> Nat]
         /\ \A q \in Procs \ {p} : op'[q] = op[q]
         /\ op'[p] = op[p] + 1 /\ Program[p][op'[p]].type = type
         /\ Done' = IF type = "io" THEN Done ELSE Done \cup {p}
<1>1. /\ op[p] \in DOMAIN Program[p] /\ op[p] \in Nat \ {0}
      /\ Program[p][op[p]].type = "cpu" /\ Program[p][op[p] + 1].type = type
      /\ op' = [op EXCEPT ![p] = @ + 1]
      /\ left' = [left EXCEPT ![p] = Program[p][op[p] + 1].time]
  BY DEF NextOp, OpsInPlace, TypeOK
<1>2. op[p] + 1 \in DOMAIN Program[p] /\ Program[p][op[p] + 1].time \in Nat
  BY <1>1 DEF Alternating
<1>3. /\ op' \in [Procs -> Nat \ {0}] /\ left' \in [Procs -> Nat]
      /\ \A q \in Procs \ {p} : op'[q] = op[q]
      /\ op'[p] = op[p] + 1 /\ Program[p][op'[p]].type = type
  BY <1>1, <1>2 DEF TypeOK
<1>4. p \notin Done /\ p \notin Waiting
  BY <1>1 DEF Done, OpsInPlace
<1>5. Done' = IF type = "io" THEN Done ELSE Done \cup {p}
  BY <1>3, <1>4 DEF Done
<1> QED
  BY <1>2, <1>3, <1>4, <1>5

LEMMA CompleteEffect ==
  ASSUME TypeOK, OpsInPlace, OnePlace, Alternating, Complete
  PROVE  /\ Head(io).pcb \in Waiting
         /\ io' \in Seq([pcb : Procs, time : Nat])
         /\ Waiting' = Waiting \ {Head(io).pcb}
         /\ \A i, j \in DOMAIN io' : io'[i].pcb = io'[j].pcb => i = j
         /\ op' \in [Procs -> Nat \ {0}] /\ left' \in [Procs -> Nat]
         /\ \A p \in Procs : op'[p] \in DOMAIN Program[p]
         /\ \A p \in Procs \ {Head(io).pcb} : op'[p] = op[p]
         /\ Done' = Done
<1> DEFINE p == Head(io).pcb
<1>1. /\ io # <<>> /\ io' = Tail(io)
      /\ op' = [op EXCEPT ![p] = @ + 1]
      /\ left' = [left EXCEPT ![p] = Program[p][op[p] + 1].time]
  BY DEF Complete
<1>2. /\ io \in Seq([pcb : Procs, time : Nat])
      /\ \A i, j \in DOMAIN io : io[i].pcb = io[j].pcb => i = j
  BY DEF TypeOK, OnePlace
<1>3. /\ io' \in Seq([pcb : Procs, time : Nat])
      /\ 1 \in DOMAIN io /\ Head(io) = io[1]
      /\ \A i \in DOMAIN io' : i + 1 \in DOMAIN io \ {1} /\ io'[i] = io[i + 1]
      /\ \A k \in DOMAIN io \ {1} : k - 1 \in DOMAIN io' /\ io'[k - 1] = io[k]
      /\ \A i, j \in DOMAIN io' : i + 1 = j + 1 => i = j
  BY <1>1, <1>2, TailElements
<1>4. p \in Procs /\ p \in Waiting
  BY <1>3, RequestType DEF Waiting
<1>5. Waiting' = Waiting \ {p}
  BY <1>2, <1>3 DEF Waiting
<1>6. \A i, j \in DOMAIN io' : io'[i].pcb = io'[j].pcb => i = j
  <2> TAKE i, j \in DOMAIN io'
  <2>1. i + 1 \in DOMAIN io /\ j + 1 \in DOMAIN io /\ io'[i] = io[i + 1] /\ io'[j] = io[j + 1]
    BY <1>3
  <2> QED
    BY <1>2, <1>3, <2>1
<1>7. /\ op[p] \in DOMAIN Program[p] /\ op[p] \in Nat \ {0} /\ Program[p][op[p]].type = "io"
  BY <1>4 DEF OpsInPlace, TypeOK
<1>8. /\ op[p] + 1 \in DOMAIN Program[p] /\ op[p] + 1 \in Nat \ {0}
      /\ Program[p][op[p] + 1].type = "cpu" /\ Program[p][op[p] + 1].time \in Nat
  BY <1>4, <1>7 DEF Alternating
<1>9. /\ op' \in [Procs -> Nat \ {0}] /\ left' \in [Procs -> Nat]
      /\ \A q \in Procs : op'[q] = IF q = p THEN op[p] + 1 ELSE op[q]
  BY <1>1, <1>4, <1>8 DEF TypeOK
<1>10. \A q \in Procs : op'[q] \in DOMAIN Program[q]
  BY <1>8, <1>9 DEF OpsInPlace
<1>11. Done' = Done
  BY <1>4, <1>7, <1>8, <1>9 DEF Done
<1> QED
  BY <1>3, <1>4, <1>5, <1>6, <1>9, <1>10, <1>11

-----------------------------------------------------------------------------
(***************************************************************************)
(* The inductive step, one action at a time.                               *)
(***************************************************************************)
(* The elements of a queue that holds nothing twice, one more appended. *)
LEMMA AppendOnce ==
  ASSUME NEW S, NEW s \in Seq(S), NEW e \in S, e \notin ToSet(s),
         \A i, j \in DOMAIN s : s[i] = s[j] => i = j
  PROVE  \A i, j \in DOMAIN Append(s, e) :
           Append(s, e)[i] = Append(s, e)[j] => i = j
<1> DEFINE t == Append(s, e)
<1>1. /\ \A i \in DOMAIN t : i \in DOMAIN s \/ i = Len(s) + 1
      /\ \A i \in DOMAIN s : t[i] = s[i] /\ t[i] # e
      /\ t[Len(s) + 1] = e
  BY AppendElements DEF ToSet
<1> HIDE DEF t
<1>2. \A i, j \in DOMAIN t : t[i] = t[j] => i = j
  BY <1>1
<1> QED
  BY <1>2 DEF t

LEMMA BlockEffect ==
  ASSUME IInv, Alternating, NEW c \in Cpus, Block(c)
  PROVE  /\ running[c] \in Procs /\ running[c] \notin Waiting
         /\ io' \in Seq([pcb : Procs, time : Nat])
         /\ Waiting' = Waiting \cup {running[c]}
         /\ \A i, j \in DOMAIN io' : io'[i].pcb = io'[j].pcb => i = j
<1> DEFINE p == running[c]
           r == [pcb |-> p, time |-> left'[p]]
<1>1. p \in Procs /\ NextOp(p, "io") /\ io' = Append(io, r)
  BY DEF Block, IInv, TypeOK
<1>2. p \notin Waiting /\ left' \in [Procs -> Nat]
  BY <1>1, NextOpEffect DEF IInv
<1>3. r \in [pcb : Procs, time : Nat] /\ r.pcb = p
  BY <1>1, <1>2
<1>4. /\ io \in Seq([pcb : Procs, time : Nat])
      /\ \A i, j \in DOMAIN io : io[i].pcb = io[j].pcb => i = j
  BY DEF IInv, TypeOK, OnePlace
<1> HIDE DEF r
<1>5. /\ io' \in Seq([pcb : Procs, time : Nat])
      /\ Len(io) + 1 \in DOMAIN io' /\ io'[Len(io) + 1] = r
      /\ \A i \in DOMAIN io : i \in DOMAIN io' /\ io'[i] = io[i]
      /\ \A i \in DOMAIN io' : i \in DOMAIN io \/ i = Len(io) + 1
  <2>1. Len(io) + 1 \in 1 .. Len(io) + 1
    BY <1>4
  <2> QED
    BY <1>1, <1>3, <1>4, <2>1, AppendElements
<1>6. Waiting' = Waiting \cup {p}
  BY <1>3, <1>5 DEF Waiting
<1>7. \A i \in DOMAIN io : io[i].pcb # p
  BY <1>2 DEF Waiting
<1>8. \A i, j \in DOMAIN io' : io'[i].pcb = io'[j].pcb => i = j
  BY <1>3, <1>4, <1>5, <1>7
<1> QED
  BY <1>1, <1>2, <1>5, <1>6, <1>8

LEMMA ServeEffect ==
  ASSUME IInv, Serve
  PROVE  /\ io' \in Seq([pcb : Procs, time : Nat])
         /\ Waiting' = Waiting
         /\ \A i, j \in DOMAIN io' : io'[i].pcb = io'[j].pcb => i = j
<1>1. /\ io \in Seq([pcb : Procs, time : Nat]) /\ io # <<>>
      /\ 1 \in DOMAIN io /\ Head(io) = io[1] /\ io[1].time > 0
      /\ io' = [io EXCEPT ![1].time = @ - 1]
  BY DEF Serve, IInv, TypeOK
<1>2. io[1].time \in Nat /\ io[1] \in [pcb : Procs, time : Nat]
  BY <1>1, RequestType DEF IInv
<1>3. [io[1] EXCEPT !.time = @ - 1] \in [pcb : Procs, time : Nat]
  BY <1>1, <1>2
<1>4. io' \in Seq([pcb : Procs, time : Nat])
  BY <1>1, <1>3
<1>5. DOMAIN io' = DOMAIN io /\ \A i \in DOMAIN io : io'[i].pcb = io[i].pcb
  BY <1>1, <1>2
<1> QED
  BY <1>4, <1>5 DEF Waiting, IInv, OnePlace

LEMMA TypeStep ==
  ASSUME IInv, Alternating, [Next]_vars
  PROVE  TypeOK' /\ OpsInPlace'
<1> USE DEF TypeOK
<1>0. TypeOK /\ OpsInPlace /\ OnePlace
  BY DEF IInv
<1>1. ASSUME NEW p \in Procs, Create(p) \/ Ready(p)
      PROVE  TypeOK' /\ OpsInPlace'
  <2>1. ready' = ready \/ ready' = Append(ready, p)
    BY <1>1 DEF Create, Ready
  <2>2. Append(ready, p) \in Seq(Procs)
    BY <1>0, AppendElements
  <2>3. ready' \in Seq(Procs)
    BY <1>0, <2>1, <2>2
  <2> QED
    BY <1>0, <1>1, <2>3 DEF Create, Ready, OpsInPlace, Waiting
<1>2. ASSUME NEW c \in Cpus, NEW i \in DOMAIN ready, Dispatch(c, i)
      PROVE  TypeOK' /\ OpsInPlace'
  <2>1. ready' \in Seq(Procs) /\ ready[i] \in Procs
    BY <1>0, <1>2, RemoveElements, Element DEF Dispatch
  <2> QED
    BY <1>0, <1>2, <2>1 DEF Dispatch, OpsInPlace, Waiting
<1>3. ASSUME NEW c \in Cpus, Run(c)
      PROVE  TypeOK' /\ OpsInPlace'
  <2>1. running[c] \in Procs
    BY <1>0, <1>3 DEF Run
  <2>2. left' \in [Procs -> Nat]
    BY <1>0, <1>3, <2>1 DEF Run
  <2>3. quantum' \in [Cpus -> Int]
    BY <1>0, <1>3 DEF Run
  <2> QED
    BY <1>0, <1>3, <2>2, <2>3 DEF Run, OpsInPlace, Waiting
<1>4. ASSUME NEW c \in Cpus, Preempt(c)
      PROVE  TypeOK' /\ OpsInPlace'
  <2>1. running[c] \in Procs
    BY <1>0, <1>4 DEF Preempt
  <2>2. ready' \in Seq(Procs)
    BY <1>0, <1>4, <2>1, AppendElements DEF Preempt
  <2> QED
    BY <1>0, <1>4, <2>2 DEF Preempt, Free, OpsInPlace, Waiting, Alternating
<1>5. ASSUME NEW c \in Cpus, Block(c)
      PROVE  TypeOK' /\ OpsInPlace'
  <2> DEFINE p == running[c]
  <2>1. p \in Procs /\ NextOp(p, "io")
    BY <1>0, <1>5 DEF Block
  <2>2. /\ io' \in Seq([pcb : Procs, time : Nat]) /\ Waiting' = Waiting \cup {p}
    BY <1>5, BlockEffect
  <2>3. TypeOK'
    BY <1>0, <1>5, <2>1, <2>2, NextOpEffect DEF Block, Free, Alternating
  <2>4. \A q \in Waiting : q \in Procs
    BY <1>0, RequestType DEF Waiting
  <2>5. OpsInPlace'
    BY <1>0, <2>1, <2>2, <2>4, NextOpEffect DEF OpsInPlace
  <2> QED
    BY <2>3, <2>5
<1>6. ASSUME NEW c \in Cpus, Finish(c)
      PROVE  TypeOK' /\ OpsInPlace'
  <2> DEFINE p == running[c]
  <2>1. p \in Procs /\ NextOp(p, "terminate") /\ UNCHANGED io
    BY <1>0, <1>6 DEF Finish
  <2>2. TypeOK'
    BY <1>0, <1>6, <2>1, NextOpEffect DEF Finish, Free, Alternating
  <2>3. Waiting' = Waiting /\ \A q \in Waiting : q \in Procs
    BY <1>0, <2>1, RequestType DEF Waiting
  <2>4. OpsInPlace'
    BY <1>0, <2>1, <2>3, NextOpEffect DEF OpsInPlace
  <2> QED
    BY <2>2, <2>4
<1>7. CASE Serve
  <2>1. io' \in Seq([pcb : Procs, time : Nat]) /\ Waiting' = Waiting
    BY <1>7, ServeEffect
  <2> QED
    BY <1>0, <1>7, <2>1 DEF Serve, OpsInPlace
<1>8. CASE Complete
  <2>1. Head(io).pcb \in Procs /\ \A q \in Waiting : q \in Procs
    BY <1>0, <1>8, CompleteEffect, RequestType DEF Waiting
  <2>2. TypeOK'
    BY <1>0, <1>8, <2>1, CompleteEffect DEF Complete
  <2>3. OpsInPlace'
    BY <1>0, <1>8, <2>1, CompleteEffect DEF OpsInPlace
  <2> QED
    BY <2>2, <2>3
<1>9. CASE UNCHANGED vars
  BY <1>0, <1>9 DEF vars, OpsInPlace, Waiting
<1> QED
  BY <1>1, <1>2, <1>3, <1>4, <1>5, <1>6, <1>7, <1>8, <1>9 DEF Next

LEMMA PlaceStep ==
  ASSUME IInv, Alternating, [Next]_vars
  PROVE  OnePlace'
<1>0. TypeOK /\ OpsInPlace /\ OnePlace
  BY DEF IInv
<1>t. /\ unborn \in SUBSET Procs /\ waking \in SUBSET Procs /\ ready \in Seq(Procs)
      /\ running \in [Cpus -> Procs \cup {Null}] /\ Null \notin Procs
      /\ \A i, j \in DOMAIN ready : ready[i] = ready[j] => i = j
      /\ \A i, j \in DOMAIN io : io[i].pcb = io[j].pcb => i = j
      /\ \A c, d \in Cpus : running[c] = running[d] => c = d \/ running[c] = Null
  BY <1>0 DEF TypeOK, OnePlace, Alternating
<1> DEFINE Here(p) == One(p \in unborn) + One(p \in waking) + One(p \in ToSet(ready))
                        + One(p \in Taken) + One(p \in Waiting) + One(p \in Done) = 1
<1>h. \A p \in Procs : Here(p)
  BY <1>0 DEF OnePlace
<1> USE DEF One
<1>1. ASSUME NEW p \in Procs, Create(p)
      PROVE  OnePlace'
  <2>1. /\ p \in unborn /\ unborn' = unborn \ {p} /\ waking' = waking \cup {p}
        /\ UNCHANGED <<ready, running, io, op>>
    BY <1>1 DEF Create
  <2>2. ToSet(ready)' = ToSet(ready) /\ Taken' = Taken /\ Waiting' = Waiting /\ Done' = Done
    BY <2>1 DEF Taken, Waiting, Done
  <2>3. \A q \in Procs : Here(q)'
    BY <1>h, <2>1, <2>2
  <2> QED
    BY <1>t, <2>1, <2>3 DEF OnePlace
<1>2. ASSUME NEW p \in Procs, Ready(p)
      PROVE  OnePlace'
  <2>1. /\ p \in waking /\ waking' = waking \ {p} /\ ready' = Append(ready, p)
        /\ UNCHANGED <<unborn, running, io, op>>
    BY <1>2 DEF Ready
  <2>2. ToSet(ready)' = ToSet(ready) \cup {p}
    BY <1>t, <2>1, AppendElements
  <2>3. Taken' = Taken /\ Waiting' = Waiting /\ Done' = Done
    BY <2>1 DEF Taken, Waiting, Done
  <2>4. \A q \in Procs : Here(q)'
    BY <1>h, <2>1, <2>2, <2>3
  <2>5. \A i, j \in DOMAIN ready' : ready'[i] = ready'[j] => i = j
    BY <1>t, <1>h, <2>1, AppendOnce
  <2> QED
    BY <1>t, <2>1, <2>4, <2>5 DEF OnePlace
<1>3. ASSUME NEW c \in Cpus, NEW i \in DOMAIN ready, Dispatch(c, i)
      PROVE  OnePlace'
  <2> DEFINE p == ready[i]
  <2>1. /\ running[c] = Null /\ running' = [running EXCEPT ![c] = p]
        /\ ready' = RemoveAt(ready, i) /\ p \in Procs /\ p \in ToSet(ready)
        /\ UNCHANGED <<unborn, waking, io, op>>
    BY <1>t, <1>3, Element DEF Dispatch, ToSet
  <2>2. /\ ToSet(ready)' = ToSet(ready) \ {p}
        /\ \A j, k \in DOMAIN ready' : ready'[j] = ready'[k] => j = k
    BY <1>t, <2>1, RemoveFrom
  <2> HIDE DEF p
  <2>3. Taken' = Taken \cup {p} /\ Waiting' = Waiting /\ Done' = Done
    BY <1>t, <2>1 DEF Taken, Waiting, Done
  <2>4. \A q \in Procs : Here(q)'
    BY <1>h, <2>1, <2>2, <2>3
  <2>5. p \notin Taken
    BY <1>h, <2>1
  <2>6. \A d, e \in Cpus : running'[d] = running'[e] => d = e \/ running'[d] = Null
    BY <1>t, <2>1, <2>5 DEF Taken
  <2> QED
    BY <1>t, <2>1, <2>2, <2>4, <2>6 DEF OnePlace
<1>4. ASSUME NEW c \in Cpus, Run(c)
      PROVE  OnePlace'
  BY <1>0, <1>4 DEF Run, OnePlace, Taken, Waiting, Done
<1>5. ASSUME NEW c \in Cpus, Preempt(c)
      PROVE  OnePlace'
  <2> DEFINE p == running[c]
  <2>1. /\ p \in Procs /\ p \in Taken /\ ready' = Append(ready, p) /\ Free(c)
        /\ UNCHANGED <<unborn, waking, io, op>>
    BY <1>t, <1>5 DEF Preempt, Taken
  <2>2. ToSet(ready)' = ToSet(ready) \cup {p}
    BY <1>t, <2>1, AppendElements
  <2>3. /\ Taken' = Taken \ {p}
        /\ \A d, e \in Cpus : running'[d] = running'[e] => d = e \/ running'[d] = Null
    BY <1>0, <1>t, <2>1, FreeEffect
  <2>4. Waiting' = Waiting /\ Done' = Done
    BY <2>1 DEF Waiting, Done
  <2>5. \A q \in Procs : Here(q)'
    BY <1>h, <2>1, <2>2, <2>3, <2>4
  <2>6. \A i, j \in DOMAIN ready' : ready'[i] = ready'[j] => i = j
    BY <1>t, <1>h, <2>1, AppendOnce
  <2> QED
    BY <1>t, <2>1, <2>3, <2>5, <2>6 DEF OnePlace
<1>6. ASSUME NEW c \in Cpus, Block(c)
      PROVE  OnePlace'
  <2> DEFINE p == running[c]
  <2>1. /\ p \in Procs /\ p \in Taken /\ NextOp(p, "io") /\ Free(c)
        /\ UNCHANGED <<unborn, waking, ready>>
    BY <1>t, <1>6 DEF Block, Taken
  <2>2. /\ Waiting' = Waiting \cup {p}
        /\ \A i, j \in DOMAIN io' : io'[i].pcb = io'[j].pcb => i = j
    BY <1>6, BlockEffect
  <2>3. /\ Taken' = Taken \ {p}
        /\ \A d, e \in Cpus : running'[d] = running'[e] => d = e \/ running'[d] = Null
    BY <1>0, <1>t, <2>1, FreeEffect
  <2>4. Done' = Done
    BY <1>0, <2>1, NextOpEffect
  <2>5. \A q \in Procs : Here(q)'
    BY <1>h, <2>1, <2>2, <2>3, <2>4
  <2> QED
    BY <1>t, <2>1, <2>2, <2>3, <2>5 DEF OnePlace
<1>7. ASSUME NEW c \in Cpus, Finish(c)
      PROVE  OnePlace'
  <2> DEFINE p == running[c]
  <2>1. /\ p \in Procs /\ p \in Taken /\ NextOp(p, "terminate") /\ Free(c)
        /\ UNCHANGED <<unborn, waking, ready, io>>
    BY <1>t, <1>7 DEF Finish, Taken
  <2>2. Done' = Done \cup {p}
    BY <1>0, <2>1, NextOpEffect
  <2>3. /\ Taken' = Taken \ {p}
        /\ \A d, e \in Cpus : running'[d] = running'[e] => d = e \/ running'[d] = Null
    BY <1>0, <1>t, <2>1, FreeEffect
  <2>4. Waiting' = Waiting
    BY <2>1 DEF Waiting
  <2>5. \A q \in Procs : Here(q)'
    BY <1>h, <2>1, <2>2, <2>3, <2>4
  <2> QED
    BY <1>t, <2>1, <2>3, <2>5 DEF OnePlace
<1>8. CASE Serve
  <2>1. /\ Waiting' = Waiting
        /\ \A i, j \in DOMAIN io' : io'[i].pcb = io'[j].pcb => i = j
    BY <1>8, ServeEffect
  <2>2. /\ UNCHANGED <<unborn, waking, ready, running, op>> /\ Taken' = Taken /\ Done' = Done
    BY <1>8 DEF Serve, Taken, Done
  <2>3. \A q \in Procs : Here(q)'
    BY <1>h, <2>1, <2>2
  <2> QED
    BY <1>t, <2>1, <2>2, <2>3 DEF OnePlace
<1>9. CASE Complete
  <2> DEFINE p == Head(io).pcb
  <2>1. /\ waking' = waking \cup {p}
        /\ UNCHANGED <<unborn, ready, running>> /\ Taken' = Taken
    BY <1>9 DEF Complete, Taken
  <2>2. /\ p \in Waiting /\ Waiting' = Waiting \ {p} /\ Done' = Done
        /\ \A i, j \in DOMAIN io' : io'[i].pcb = io'[j].pcb => i = j
    BY <1>0, <1>9, CompleteEffect
  <2> HIDE DEF p
  <2>3. \A q \in Procs : Here(q)'
    BY <1>h, <2>1, <2>2
  <2> QED
    BY <1>t, <2>1, <2>2, <2>3 DEF OnePlace
<1>10. CASE UNCHANGED vars
  BY <1>0, <1>10 DEF vars, OnePlace, Taken, Waiting, Done
<1> QED
  BY <1>1, <1>2, <1>3, <1>4, <1>5, <1>6, <1>7, <1>8, <1>9, <1>10 DEF Next

LEMMA InitInv ==
  ASSUME Alternating, Init
  PROVE  IInv
<1> USE DEF Init, Alternating
<1>1. TypeOK
  BY DEF TypeOK
<1>2. /\ ToSet(ready) = {} /\ Waiting = {} /\ Taken = {} /\ Done = {}
  BY DEF ToSet, Waiting, Taken, Done
<1>3. OpsInPlace
  BY <1>2 DEF OpsInPlace
<1>4. OnePlace
  BY <1>2 DEF OnePlace, One
<1> QED
  BY <1>1, <1>3, <1>4 DEF IInv

(***************************************************************************)
(* In every execution of the abstract scheduler every process is in        *)
(* exactly one place.                                                      *)
(***************************************************************************)
THEOREM Invariance ==
  ASSUME Alternating
  PROVE  Spec => []OnePlace
<1>1. Init => IInv
  BY InitInv
<1>2. IInv /\ [Next]_vars => IInv'
  BY TypeStep, PlaceStep DEF IInv
<1>3. IInv => OnePlace
  BY DEF IInv
<1> QED
  BY <1>1, <1>2, <1>3, PTL DEF Spec

=============================================================================
