--------------------------- MODULE MiniSchedProofs ---------------------------
(***************************************************************************)
(* Proofs about MiniSched: all six policies, for any number of CPUs and    *)
(* tasks, any affinity and any weights.                                    *)
(*                                                                         *)
(* MiniSched has no variable that says where a task is; the invariant says *)
(* that such a function exists (Placed) and each action that moves a task  *)
(* is shown to keep one.  The order of the queue rests on it: the key of a *)
(* queued task does not change because the task is nowhere else.  The      *)
(* lottery needs one predicate more, of a CPU that walks the queue while   *)
(* others add and take tasks (Walk).                                       *)
(***************************************************************************)
EXTENDS MiniSched, SequenceTheorems, FiniteSetTheorems, TLAPS

-----------------------------------------------------------------------------
(* Queues.                                                                 *)

\* Removing one element of a sequence leaves the others, in their order.
LEMMA RemoveAtProperties ==
    ASSUME NEW S, NEW s \in Seq(S), NEW i \in 1..Len(s)
    PROVE  /\ RemoveAt(s, i) \in Seq(S)
           /\ Len(RemoveAt(s, i)) = Len(s) - 1
           /\ \A j \in 1..(Len(s) - 1) :
                 RemoveAt(s, i)[j] = IF j < i THEN s[j] ELSE s[j + 1]
<1> DEFINE a == SubSeq(s, 1, i - 1)
           b == SubSeq(s, i + 1, Len(s))
<1>1. Len(s) \in Nat /\ \A j \in 1..Len(s) : s[j] \in S
  BY ElementOfSeq, LenProperties
<1>2. /\ a \in Seq(S) /\ Len(a) = i - 1
      /\ \A j \in 1..(i - 1) : a[j] = s[j]
  BY <1>1, SubSeqProperties
<1>3. /\ b \in Seq(S) /\ Len(b) = Len(s) - i
      /\ \A j \in 1..(Len(s) - i) : b[j] = s[i + j]
  BY <1>1, SubSeqProperties
<1>a. RemoveAt(s, i) = a \o b
  BY DEF RemoveAt
<1> HIDE DEF a, b
<1>b. /\ a \o b \in Seq(S)
      /\ Len(a \o b) = Len(a) + Len(b)
      /\ \A j \in 1..(Len(a) + Len(b)) :
            (a \o b)[j] = IF j <= Len(a) THEN a[j] ELSE b[j - Len(a)]
  BY <1>2, <1>3, ConcatProperties
<1>c. Len(a) + Len(b) = Len(s) - 1
  BY <1>1, <1>2, <1>3
<1>4. /\ a \o b \in Seq(S)
      /\ Len(a \o b) = Len(s) - 1
      /\ \A j \in 1..(Len(s) - 1) :
            (a \o b)[j] = IF j <= i - 1 THEN a[j] ELSE b[j - (i - 1)]
  BY <1>b, <1>c, <1>2
<1>5. \A j \in 1..(Len(s) - 1) :
         (a \o b)[j] = IF j < i THEN s[j] ELSE s[j + 1]
  <2> TAKE j \in 1..(Len(s) - 1)
  <2>1. CASE j < i
    BY <2>1, <1>2, <1>4
  <2>2. CASE ~(j < i)
    <3>1. j - (i - 1) \in 1..(Len(s) - i) /\ i + (j - (i - 1)) = j + 1
      BY <2>2, <1>1
    <3> QED BY <2>2, <3>1, <1>3, <1>4
  <2> QED BY <2>1, <2>2
<1> QED BY <1>a, <1>4, <1>5

\* Sequence r is s with e inserted at position k.
Gains(s, k, e, r) ==
    /\ Len(r) = Len(s) + 1
    /\ \A j \in 1..(Len(s) + 1) :
          r[j] = IF j < k THEN s[j] ELSE IF j = k THEN e ELSE s[j - 1]

LEMMA AppendGains ==
    ASSUME NEW S, NEW s \in Seq(S), NEW e \in S
    PROVE  /\ Append(s, e) \in Seq(S)
           /\ Gains(s, Len(s) + 1, e, Append(s, e))
  BY AppendProperties, LenProperties DEF Gains

LEMMA InsertGains ==
    ASSUME NEW S, NEW s \in Seq(S), NEW e \in S, NEW k \in 1..(Len(s) + 1)
    PROVE  InsertAt(s, k, e) \in Seq(S) /\ Gains(s, k, e, InsertAt(s, k, e))
<1> DEFINE a == SubSeq(s, 1, k - 1)
           b == SubSeq(s, k, Len(s))
           m == <<e>>
<1>1. Len(s) \in Nat /\ \A j \in 1..Len(s) : s[j] \in S
  BY ElementOfSeq, LenProperties
<1>2. /\ a \in Seq(S) /\ Len(a) = k - 1
      /\ \A j \in 1..(k - 1) : a[j] = s[j]
  BY <1>1, SubSeqProperties
<1>3. /\ b \in Seq(S) /\ Len(b) = Len(s) - k + 1
      /\ \A j \in 1..(Len(s) - k + 1) : b[j] = s[k + j - 1]
  BY <1>1, SubSeqProperties
<1>4. m \in Seq(S) /\ Len(m) = 1 /\ m[1] = e
  OBVIOUS
<1>5. InsertAt(s, k, e) = (a \o m) \o b
  BY DEF InsertAt
<1> HIDE DEF a, b, m
<1>a. /\ a \o m \in Seq(S) /\ Len(a \o m) = Len(a) + Len(m)
      /\ \A j \in 1..(Len(a) + Len(m)) :
            (a \o m)[j] = IF j <= Len(a) THEN a[j] ELSE m[j - Len(a)]
  BY <1>2, <1>4, ConcatProperties
<1>b. Len(a) = k - 1 /\ Len(m) = 1 /\ Len(a) + Len(m) = k
  BY <1>1, <1>2, <1>4
<1>6. /\ a \o m \in Seq(S) /\ Len(a \o m) = k
      /\ \A j \in 1..k : (a \o m)[j] = IF j <= k - 1 THEN a[j] ELSE m[j - (k - 1)]
  BY <1>a, <1>b
<1>7. /\ (a \o m) \o b \in Seq(S)
      /\ Len((a \o m) \o b) = Len(a \o m) + Len(b)
      /\ \A j \in 1..(Len(a \o m) + Len(b)) :
            ((a \o m) \o b)[j] = IF j <= Len(a \o m) THEN (a \o m)[j]
                                 ELSE b[j - Len(a \o m)]
  <2>1. a \o m \in Seq(S) /\ b \in Seq(S)
    BY <1>3, <1>6
  <2> QED BY <2>1, ConcatProperties
<1>8. Len(a \o m) + Len(b) = Len(s) + 1
  BY <1>1, <1>3, <1>6
<1>c. \A j \in 1..(Len(s) + 1) :
         ((a \o m) \o b)[j] = IF j <= k THEN (a \o m)[j] ELSE b[j - k]
  BY <1>6, <1>7, <1>8
<1>d. \A j \in 1..k : (a \o m)[j] = IF j < k THEN s[j] ELSE e
  <2> TAKE j \in 1..k
  <2>1. CASE j < k
    <3>1. j \in 1..(k - 1) /\ j <= k - 1
      BY <1>1, <2>1
    <3> QED BY <3>1, <2>1, <1>2, <1>6
  <2>2. CASE ~(j < k)
    <3>1. ~(j <= k - 1) /\ j - (k - 1) = 1
      BY <1>1, <2>2
    <3> QED BY <3>1, <2>2, <1>4, <1>6
  <2> QED BY <2>1, <2>2
<1>9. ASSUME NEW j \in 1..(Len(s) + 1)
      PROVE  ((a \o m) \o b)[j]
                = IF j < k THEN s[j] ELSE IF j = k THEN e ELSE s[j - 1]
  <2>1. CASE j <= k
    <3>1. j \in 1..k /\ (~(j < k) => j = k)
      BY <1>1, <2>1
    <3> QED BY <3>1, <2>1, <1>c, <1>d
  <2>2. CASE ~(j <= k)
    <3>1. /\ j - k \in 1..(Len(s) - k + 1) /\ k + (j - k) - 1 = j - 1
          /\ ~(j < k) /\ j # k
      BY <1>1, <2>2
    <3>2. ((a \o m) \o b)[j] = b[j - k]
      BY <1>c, <2>2
    <3>3. b[j - k] = s[k + (j - k) - 1]
      BY <1>3, <3>1
    <3> QED BY <3>1, <3>2, <3>3
  <2> QED BY <2>1, <2>2
<1> QED BY <1>5, <1>7, <1>8, <1>9 DEF Gains

\* The elements of such a sequence.
LEMMA GainsElements ==
    ASSUME NEW S, NEW s \in Seq(S), NEW e \in S, NEW k \in 1..(Len(s) + 1),
           NEW r \in Seq(S), Gains(s, k, e, r)
    PROVE  /\ \A i \in 1..Len(r) : i # k => \E j \in 1..Len(s) : r[i] = s[j]
           /\ \A j \in 1..Len(s) : \E i \in 1..Len(r) : r[i] = s[j] /\ i # k
           /\ k \in 1..Len(r) /\ r[k] = e
           /\ Len(r) = Len(s) + 1
<1>1. Len(s) \in Nat /\ Len(r) = Len(s) + 1
  BY LenProperties DEF Gains
<1>2. ASSUME NEW i \in 1..Len(r), i # k PROVE \E j \in 1..Len(s) : r[i] = s[j]
  <2>1. CASE i < k
    BY <1>1, <2>1 DEF Gains
  <2>2. CASE i > k
    <3>1. i - 1 \in 1..Len(s) /\ r[i] = s[i - 1]
      BY <1>1, <2>2 DEF Gains
    <3> QED BY <3>1
  <2> QED BY <1>2, <2>1, <2>2
<1>3. ASSUME NEW j \in 1..Len(s) PROVE \E i \in 1..Len(r) : r[i] = s[j] /\ i # k
  <2>1. CASE j < k
    <3>1. j \in 1..Len(r) /\ r[j] = s[j] /\ j # k
      BY <1>1, <2>1 DEF Gains
    <3> QED BY <3>1
  <2>2. CASE j >= k
    <3>1. j + 1 \in 1..Len(r) /\ r[j + 1] = s[j] /\ j + 1 # k
      BY <1>1, <2>2 DEF Gains
    <3> QED BY <3>1
  <2> QED BY <2>1, <2>2
<1> QED BY <1>1, <1>2, <1>3 DEF Gains

LEMMA RemoveElements ==
    ASSUME NEW S, NEW s \in Seq(S), NEW k \in 1..Len(s)
    PROVE  \A i \in 1..Len(RemoveAt(s, k)) :
              \E j \in 1..Len(s) : j # k /\ RemoveAt(s, k)[i] = s[j]
  BY RemoveAtProperties, LenProperties
-----------------------------------------------------------------------------
(* The invariant.                                                          *)

InDsq        == <<"dsq">>
InLocal(c)   == <<"local", c>>
OnCpu(c)     == <<"cpu", c>>
InHandler(c) == <<"enqueue", c>>
Nowhere      == <<"nowhere">>

Places == {InDsq, Nowhere} \cup {InLocal(c) : c \in Cpus}
            \cup {OnCpu(c) : c \in Cpus} \cup {InHandler(c) : c \in Cpus}

LEMMA PlacesDiffer ==
    /\ InDsq # Nowhere
    /\ \A c \in Cpus :
          /\ InDsq # InLocal(c) /\ InDsq # OnCpu(c) /\ InDsq # InHandler(c)
          /\ Nowhere # InLocal(c) /\ Nowhere # OnCpu(c) /\ Nowhere # InHandler(c)
    /\ \A c, e \in Cpus :
          /\ InLocal(c) = InLocal(e) => c = e
          /\ OnCpu(c) = OnCpu(e) => c = e
          /\ InHandler(c) = InHandler(e) => c = e
          /\ InLocal(c) # OnCpu(e) /\ InLocal(c) # InHandler(e)
          /\ OnCpu(c) # InHandler(e)
  BY DEF InDsq, InLocal, OnCpu, InHandler, Nowhere

\* What TypeOK says of the variables the proofs need.
Types ==
    /\ kind \in Policies \cup {"none"}
    /\ state \in [Tasks -> {"absent", "asleep", "runnable"}]
    /\ dsq \in Seq(Tasks)
    /\ local \in [Cpus -> Seq(Tasks)]
    /\ running \in [Cpus -> Tasks \cup {NoTask}]
    /\ vtime \in [Tasks -> Int]
    /\ pc \in [Cpus -> {"cpu", "enqueue", "dispatch", "sum", "iterate", "visit",
                        "move", "pick"}]
    /\ frame \in [Cpus -> [task : Tasks \cup {NoTask}, iter : SUBSET Tasks]]

\* Sequence s holds the tasks whose place is the queue, once each.
Holds(pl, s) ==
    /\ \A i \in 1..Len(s) : pl[s[i]] = InDsq
    /\ \A t \in Tasks : pl[t] = InDsq => \E i \in 1..Len(s) : s[i] = t
    /\ \A i, j \in 1..Len(s) : s[i] = s[j] => i = j

Handling(c, t) == pc[c] = "enqueue" /\ frame[c].task = t /\ running[c] # t

\* pl tells for each task the place it is in.
Placed(pl) ==
    /\ pl \in [Tasks -> Places]
    /\ Holds(pl, dsq)
    /\ \A t \in Tasks, c \in Cpus : pl[t] = InLocal(c) <=> local[c] = <<t>>
    /\ \A t \in Tasks, c \in Cpus : pl[t] = OnCpu(c) <=> running[c] = t
    /\ \A t \in Tasks, c \in Cpus : pl[t] = InHandler(c) <=> Handling(c, t)
    /\ \A t \in Tasks : pl[t] = Nowhere <=> state[t] # "runnable"

\* A CPU holds at most one task for itself, and looks for one only when it
\* holds none; the one it lets go is enqueued before it picks the next.
CpuOK ==
    \A c \in Cpus :
        /\ local[c] = <<>> \/ \E t \in Tasks : local[c] = <<t>>
        /\ local[c] # <<>> => pc[c] \notin {"dispatch", "sum", "iterate", "visit", "move"}
        /\ pc[c] = "pick" => running[c] = NoTask
        /\ pc[c] = "enqueue" => frame[c].task \in Tasks
        /\ pc[c] \in {"sum", "iterate", "visit", "move"} => kind \in Lotteries
        /\ pc[c] = "sum" => kind = "lottery_prio"

\* Nothing happens before a scheduler is registered.
KindOK ==
    kind = "none" =>
        /\ dsq = <<>>
        /\ \A c \in Cpus : pc[c] = "cpu" /\ running[c] = NoTask /\ local[c] = <<>>

\* A lottery checks the affinity of a task before it moves it.
AllowedOK ==
    \A c \in Cpus, t \in Tasks :
        local[c] = <<t>> \/ (pc[c] = "move" /\ frame[c].task = t) => c \in Allowed[t]

\* The queue is sorted, and its keys are those of the tasks.
KeysOK ==
    /\ kind \in {"prio", "vtime"} =>
          \A i, j \in 1..Len(dsq) : i < j => vtime[dsq[i]] <= vtime[dsq[j]]
    /\ kind = "prio" => \A i \in 1..Len(dsq) : vtime[dsq[i]] = PrioKey(dsq[i])

\* isSmaller is never true, so the clock of vtime.bpf.c does not move.
ClockOK == vtime_now = 0

IInv ==
    /\ Types /\ CpuOK /\ KindOK /\ AllowedOK /\ KeysOK /\ ClockOK
    /\ \E pl : Placed(pl)

LEMMA InitIInv == Init => IInv
<1> SUFFICES ASSUME Init PROVE IInv
  OBVIOUS
<1>1. Types
  BY EmptySeq DEF Init, Types, NoFrame, About
<1>2. Placed([t \in Tasks |-> Nowhere])
  <2> DEFINE pl == [t \in Tasks |-> Nowhere]
  <2>1. pl \in [Tasks -> Places]
    BY DEF Places
  <2>2. Holds(pl, dsq)
    BY EmptySeq, PlacesDiffer DEF Init, Holds
  <2>3. \A t \in Tasks, c \in Cpus : local[c] # <<t>> /\ running[c] # t /\ ~Handling(c, t)
    BY MiniAssumption DEF Init, Handling
  <2> QED BY <2>1, <2>2, <2>3, PlacesDiffer DEF Init, Placed
<1>3. CpuOK /\ KindOK /\ AllowedOK
  BY DEF Init, CpuOK, KindOK, AllowedOK
<1>4. KeysOK /\ ClockOK
  BY DEF Init, KeysOK, ClockOK
<1> QED BY <1>1, <1>2, <1>3, <1>4 DEF IInv
-----------------------------------------------------------------------------
(* Types.                                                                  *)

LEMMA QueueElements ==
    ASSUME Types
    PROVE  Len(dsq) \in Nat /\ \A i \in 1..Len(dsq) : dsq[i] \in Tasks
  BY ElementOfSeq, LenProperties DEF Types

LEMMA KeyTypes ==
    ASSUME Types, vtime_now = 0, NEW t \in Tasks
    PROVE  KeyOf(t) \in Int /\ PrioKey(t) \in Int
<1>1. vtime[t] \in Int /\ Weight[t] \in Int
  BY MiniAssumption DEF Types
<1>2. U32 \in Nat \ {0} /\ U64 \in Nat \ {0} /\ SLICE \in Int /\ NiceZero \in Int
  BY MiniAssumption
<1>3. \A a, b \in Int : (a - b) % U32 \in Int /\ (a - b) % U64 \in Int
  BY <1>2
<1>4. PrioKey(t) \in Int /\ (vtime_now - SLICE) % U64 \in Int
  BY <1>1, <1>2, <1>3 DEF PrioKey
<1> QED BY <1>1, <1>4 DEF KeyOf, VtimeKey

LEMMA StoppingTypes ==
    ASSUME Types, NEW t \in Tasks, NEW n \in Nat, Stopping(t, n)
    PROVE  /\ vtime' \in [Tasks -> Int]
           /\ \A u \in Tasks \ {t} : vtime'[u] = vtime[u]
           /\ kind # "vtime" => vtime' = vtime
<1>1. vtime[t] \in Int /\ Weight[t] \in Nat \ {0} /\ NiceZero \in Nat
  BY MiniAssumption DEF Types
<1>2. n * NiceZero \in Nat
  BY <1>1
<1>3. (n * NiceZero) \div Weight[t] \in Int
  BY <1>1, <1>2
<1>4. Charge(t, n) \in Int
  BY <1>1, <1>3 DEF Charge
<1> QED BY <1>4 DEF Stopping, Types

LEMMA NeverSmaller == \A a, b \in Int : ~IsSmaller(a, b)
<1>1. U64 \in Nat \ {0}
  BY MiniAssumption
<1>2. ASSUME NEW a \in Int, NEW b \in Int PROVE ~IsSmaller(a, b)
  <2>1. (a - b) % U64 \in Nat
    BY <1>1
  <2>2. \A n \in Nat : ~(n < 0)
    OBVIOUS
  <2> QED BY <2>1, <2>2 DEF IsSmaller
<1> QED BY <1>2
-----------------------------------------------------------------------------
(* Steps that move no task: a CPU goes from one callback to the next, and  *)
(* the task it executes may be charged.                                    *)

Pcs == {"cpu", "enqueue", "dispatch", "sum", "iterate", "visit", "move", "pick"}
Frames == [task : Tasks \cup {NoTask}, iter : SUBSET Tasks]

LEMMA QuietStep ==
    ASSUME IInv, NEW c \in Cpus, kind # "none",
           UNCHANGED <<kind, dsq, core, vtime_now>>,
           NEW p \in Pcs, pc' = [pc EXCEPT ![c] = p], pc[c] # "enqueue",
           NEW f \in Frames, frame' = [frame EXCEPT ![c] = f],
           p = "enqueue" => running[c] \in Tasks /\ f.task = running[c],
           p = "pick" => running[c] = NoTask,
           p \in {"dispatch", "sum", "iterate", "visit", "move"} => local[c] = <<>>,
           p \in {"sum", "iterate", "visit", "move"} => kind \in Lotteries,
           p = "sum" => kind = "lottery_prio",
           p = "move" /\ f.task \in Tasks => c \in Allowed[f.task],
           vtime' \in [Tasks -> Int], kind # "vtime" => vtime' = vtime,
           \A t \in Tasks : running[c] # t => vtime'[t] = vtime[t]
    PROVE  IInv'
<1>1. /\ pc'[c] = p /\ frame'[c] = f
      /\ \A e \in Cpus \ {c} : pc'[e] = pc[e] /\ frame'[e] = frame[e]
  BY DEF IInv, Types
<1>2. Types'
  <2>1. pc' \in [Cpus -> Pcs] /\ frame' \in [Cpus -> Frames]
    BY DEF IInv, Types, Pcs, Frames
  <2> QED BY <2>1 DEF IInv, Types, core, Pcs, Frames
<1>3. CpuOK'
  BY <1>1 DEF IInv, CpuOK, core
<1>4. KindOK'
  BY DEF KindOK
<1>5. AllowedOK'
  <2> SUFFICES ASSUME NEW e \in Cpus, NEW t \in Tasks,
                      local[e] = <<t>> \/ (pc'[e] = "move" /\ frame'[e].task = t)
               PROVE  e \in Allowed[t]
    BY DEF AllowedOK, core
  <2>1. CASE e = c
    BY <1>1, <2>1 DEF IInv, AllowedOK
  <2>2. CASE e # c
    BY <1>1, <2>2 DEF IInv, AllowedOK
  <2> QED BY <2>1, <2>2
<1>6. PICK pl : Placed(pl)
  BY DEF IInv
<1>7. \A e \in Cpus, t \in Tasks : Handling(e, t)' <=> Handling(e, t)
  <2> TAKE e \in Cpus, t \in Tasks
  <2>1. CASE e = c
    BY <1>1, <2>1 DEF Handling, core
  <2>2. CASE e # c
    BY <1>1, <2>2 DEF Handling, core
  <2> QED BY <2>1, <2>2
<1>8. Placed(pl)'
  BY <1>6, <1>7 DEF Placed, Holds, core
<1>9. \A i \in 1..Len(dsq) : vtime'[dsq[i]] = vtime[dsq[i]]
  <2> TAKE i \in 1..Len(dsq)
  <2>1. dsq[i] \in Tasks /\ pl[dsq[i]] = InDsq
    BY <1>6, QueueElements DEF IInv, Placed, Holds
  <2>2. running[c] # dsq[i]
    BY <1>6, <2>1, PlacesDiffer DEF Placed
  <2> QED BY <2>1, <2>2
<1>10. KeysOK' /\ ClockOK'
  BY <1>9 DEF IInv, KeysOK, PrioKey, ClockOK
<1> QED BY <1>2, <1>3, <1>4, <1>5, <1>8, <1>10 DEF IInv

\* The end of a round, where no task was taken.
LEMMA EndRoundQuiet ==
    ASSUME IInv, NEW c \in Cpus, EndRound(c), kind # "none",
           UNCHANGED <<kind, dsq, core, vtime_now>>, pc[c] \notin {"enqueue", "pick"}
    PROVE  IInv'
<1>1. CASE running[c] = NoTask
  <2>1. /\ pc' = [pc EXCEPT ![c] = "pick"]
        /\ frame' = [frame EXCEPT ![c] = NoFrame]
        /\ vtime' = vtime
    BY <1>1 DEF EndRound
  <2>2. NoFrame \in Frames /\ "pick" \in Pcs /\ vtime \in [Tasks -> Int]
    BY DEF NoFrame, About, Frames, Pcs, IInv, Types
  <2> QED BY <1>1, <2>1, <2>2, QuietStep
<1>2. CASE running[c] # NoTask
  <2>1. running[c] \in Tasks
    BY <1>2 DEF IInv, Types
  <2>2. /\ pc' = [pc EXCEPT ![c] = "enqueue"]
        /\ frame' = [frame EXCEPT ![c] = About(running[c])]
        /\ Stopping(running[c], SLICE)
    BY <1>2 DEF EndRound
  <2>3. /\ vtime' \in [Tasks -> Int]
        /\ \A t \in Tasks : running[c] # t => vtime'[t] = vtime[t]
        /\ kind # "vtime" => vtime' = vtime
    BY <2>1, <2>2, StoppingTypes, MiniAssumption DEF IInv
  <2>4. About(running[c]) \in Frames /\ About(running[c]).task = running[c]
        /\ "enqueue" \in Pcs
    BY <2>1 DEF About, Frames, Pcs
  <2> QED BY <2>1, <2>2, <2>3, <2>4, QuietStep
<1> QED BY <1>1, <1>2

\* Steps that change neither a task's place nor its key.
LEMMA QuietPc ==
    ASSUME IInv, NEW c \in Cpus, kind # "none",
           UNCHANGED <<kind, dsq, core, clock>>, pc[c] # "enqueue",
           NEW p \in Pcs \ {"enqueue"}, pc' = [pc EXCEPT ![c] = p],
           NEW f \in Frames, frame' = [frame EXCEPT ![c] = f],
           p = "pick" => running[c] = NoTask,
           p \in {"dispatch", "sum", "iterate", "visit", "move"} => local[c] = <<>>,
           p \in {"sum", "iterate", "visit", "move"} => kind \in Lotteries,
           p = "sum" => kind = "lottery_prio",
           p = "move" /\ f.task \in Tasks => c \in Allowed[f.task]
    PROVE  IInv'
<1>1. vtime' = vtime /\ vtime_now' = vtime_now /\ vtime' \in [Tasks -> Int]
  BY DEF clock, IInv, Types
<1> QED BY <1>1, QuietStep

LEMMA FrameStays ==
    ASSUME Types, NEW c \in Cpus, UNCHANGED frame
    PROVE  frame[c] \in Frames /\ frame' = [frame EXCEPT ![c] = frame[c]]
  BY DEF Types, Frames

\* A CPU returns from a callback, or begins to dispatch.
LEMMA QuietTurn ==
    ASSUME IInv, NEW c \in Cpus, kind # "none",
           UNCHANGED <<kind, dsq, core, clock, frame>>, pc[c] # "enqueue",
           NEW p \in {"cpu", "dispatch"}, pc' = [pc EXCEPT ![c] = p],
           p = "dispatch" => local[c] = <<>>
    PROVE  IInv'
<1>1. p \in Pcs \ {"enqueue"} /\ p \notin {"pick", "sum", "iterate", "visit", "move"}
  BY DEF Pcs
<1>2. p \in {"dispatch", "sum", "iterate", "visit", "move"} => local[c] = <<>>
  BY <1>1
<1>3. PICK f \in Frames : frame' = [frame EXCEPT ![c] = f]
  BY FrameStays DEF IInv
<1> HIDE DEF Pcs
<1> QED BY <1>1, <1>2, <1>3, QuietPc

\* A callback runs only once a scheduler is registered.
LEMMA Registered == ASSUME IInv, NEW c \in Cpus, pc[c] # "cpu" \/ running[c] # NoTask
                    PROVE  kind # "none"
  BY DEF IInv, KindOK

LEMMA TickIInv == ASSUME IInv, NEW c \in Cpus, Tick(c) PROVE IInv'
<1>1. /\ pc[c] = "cpu" /\ kind # "none"
      /\ UNCHANGED <<kind, dsq, core, vtime_now>>
  BY Registered DEF Tick
<1>2. CASE local[c] = <<>>
  <2>1. pc' = [pc EXCEPT ![c] = "dispatch"] /\ UNCHANGED <<vtime, frame>>
    BY <1>2 DEF Tick
  <2>2. UNCHANGED <<kind, dsq, core, clock, frame>>
    BY <1>1, <2>1 DEF clock
  <2> QED BY <1>1, <1>2, <2>1, <2>2, QuietTurn
<1>3. CASE local[c] # <<>>
  BY <1>1, <1>3, EndRoundQuiet DEF Tick
<1> QED BY <1>2, <1>3

LEMMA ReschedIInv == ASSUME IInv, NEW c \in Cpus, Resched(c) PROVE IInv'
<1>1. PICK p \in {"dispatch", "pick"} :
          /\ pc' = [pc EXCEPT ![c] = p]
          /\ p = "dispatch" => local[c] = <<>>
  BY DEF Resched
<1>2. p \in Pcs \ {"enqueue"}
  BY DEF Pcs
<1>3. /\ kind # "none" /\ pc[c] = "cpu" /\ running[c] = NoTask
      /\ UNCHANGED <<kind, dsq, core, clock, frame>>
  BY DEF Resched
<1> QED BY <1>1, <1>2, <1>3, FrameStays, QuietPc DEF IInv

LEMMA QueuedTasks == ASSUME Types PROVE Queued \in SUBSET Tasks
  BY QueueElements DEF Queued

LEMMA StartSumIInv == ASSUME IInv, NEW c \in Cpus, StartSum(c) PROVE IInv'
<1> DEFINE f == [task |-> NoTask, iter |-> Queued]
<1>1. /\ pc[c] = "dispatch" /\ pc' = [pc EXCEPT ![c] = "sum"]
      /\ frame' = [frame EXCEPT ![c] = f]
      /\ kind = "lottery_prio"
      /\ UNCHANGED <<kind, dsq, core, clock>>
  BY DEF StartSum
<1>2. "sum" \in Pcs \ {"enqueue"} /\ kind # "none" /\ local[c] = <<>>
      /\ kind \in Lotteries
  BY <1>1 DEF Pcs, IInv, CpuOK, Lotteries
<1>3. f \in Frames
  BY QueuedTasks DEF Frames, IInv
<1> HIDE DEF f
<1> QED BY <1>1, <1>2, <1>3, QuietPc

LEMMA AddWeightIInv == ASSUME IInv, NEW c \in Cpus, AddWeight(c) PROVE IInv'
<1>1. PICK i \in 1..Len(dsq) :
          frame' = [frame EXCEPT ![c] = [task |-> NoTask, iter |-> @.iter \ {dsq[i]}]]
  BY DEF AddWeight
<1> DEFINE f == [task |-> NoTask, iter |-> frame[c].iter \ {dsq[i]}]
<1>2. f \in Frames /\ frame' = [frame EXCEPT ![c] = f]
  BY <1>1 DEF Frames, IInv, Types
<1> HIDE DEF f
<1>3. /\ pc[c] = "sum" /\ pc' = [pc EXCEPT ![c] = "sum"]
      /\ UNCHANGED <<kind, dsq, core, clock>>
  BY DEF AddWeight, IInv, Types
<1>4. "sum" \in Pcs \ {"enqueue"} /\ kind # "none" /\ local[c] = <<>>
      /\ kind \in Lotteries /\ kind = "lottery_prio"
  BY <1>3, Registered DEF Pcs, IInv, CpuOK
<1> QED BY <1>2, <1>3, <1>4, QuietPc

LEMMA DrawIInv == ASSUME IInv, NEW c \in Cpus, Draw(c) PROVE IInv'
<1>1. /\ pc[c] \in {"dispatch", "sum"} /\ kind \in Lotteries
      /\ pc' = [pc EXCEPT ![c] = "iterate"]
      /\ UNCHANGED <<kind, dsq, core, clock, frame>>
  BY DEF Draw, DrawBelow, IInv, CpuOK, Lotteries
<1>2. "iterate" \in Pcs \ {"enqueue"} /\ kind # "none" /\ local[c] = <<>>
  BY <1>1, Registered DEF Pcs, IInv, CpuOK
<1>3. PICK f \in Frames : frame' = [frame EXCEPT ![c] = f]
  BY <1>1, FrameStays DEF IInv
<1>4. PICK p \in Pcs \ {"enqueue"} :
          pc' = [pc EXCEPT ![c] = p] /\ p # "pick" /\ p # "move" /\ p # "sum"
  BY <1>1, <1>2
<1> QED BY <1>1, <1>2, <1>3, <1>4, QuietPc

LEMMA IterateIInv == ASSUME IInv, NEW c \in Cpus, Iterate(c) PROVE IInv'
<1> DEFINE f == [task |-> NoTask, iter |-> Queued]
<1>1. /\ pc[c] = "iterate" /\ pc' = [pc EXCEPT ![c] = "visit"]
      /\ frame' = [frame EXCEPT ![c] = f]
      /\ UNCHANGED <<kind, dsq, core, clock>>
  BY DEF Iterate
<1>2. "visit" \in Pcs \ {"enqueue"} /\ kind # "none" /\ local[c] = <<>>
      /\ kind \in Lotteries
  BY <1>1, Registered DEF Pcs, IInv, CpuOK
<1>3. f \in Frames
  BY QueuedTasks DEF Frames, IInv
<1> HIDE DEF f
<1> QED BY <1>1, <1>2, <1>3, QuietPc

LEMMA VisitIInv == ASSUME IInv, NEW c \in Cpus, Visit(c) PROVE IInv'
<1>1. pc[c] = "visit" /\ UNCHANGED <<kind, dsq, core, vtime_now>>
  BY DEF Visit
<1>2. kind # "none" /\ local[c] = <<>> /\ kind \in Lotteries
  BY <1>1, Registered DEF IInv, CpuOK
<1>3. CASE EndRound(c)
  BY <1>1, <1>2, <1>3, EndRoundQuiet
<1>4. ASSUME NEW i \in 1..Len(dsq), VisitNext(c, dsq[i]), UNCHANGED vtime PROVE IInv'
  <2> DEFINE t == dsq[i]
             won == Wins(lot[c].random, t) /\ MayRun(c, t)
             f == [task |-> IF won THEN t ELSE NoTask, iter |-> frame[c].iter \ {t}]
             p == IF won THEN "move" ELSE "visit"
  <2>1. frame' = [frame EXCEPT ![c] = f] /\ pc' = [pc EXCEPT ![c] = p]
    BY <1>4 DEF VisitNext
  <2>2. f \in Frames
    <3>1. frame[c] \in Frames /\ t \in Tasks
      BY QueueElements DEF IInv, Types, Frames
    <3> QED BY <3>1 DEF Frames
  <2>3. p \in Pcs \ {"enqueue"} /\ p # "pick" /\ p # "sum"
    BY DEF Pcs
  <2>4. p = "move" /\ f.task \in Tasks => c \in Allowed[f.task]
    BY DEF MayRun
  <2> HIDE DEF f, p
  <2> QED BY <1>1, <1>2, <1>4, <2>1, <2>2, <2>3, <2>4, QuietPc DEF clock
<1> QED BY <1>3, <1>4 DEF Visit
-----------------------------------------------------------------------------
(* Steps that move a task.                                                 *)

LEMMA HoldsOther ==
    ASSUME NEW pl \in [Tasks -> Places], NEW s \in Seq(Tasks), Holds(pl, s),
           NEW t \in Tasks, pl[t] # InDsq, NEW v \in Places, v # InDsq
    PROVE  Holds([pl EXCEPT ![t] = v], s)
<1>1. \A i \in 1..Len(s) : s[i] \in Tasks
  BY ElementOfSeq
<1> QED BY <1>1 DEF Holds

LEMMA HoldsGain ==
    ASSUME NEW pl \in [Tasks -> Places], NEW s \in Seq(Tasks), Holds(pl, s),
           NEW t \in Tasks, pl[t] # InDsq, NEW k \in 1..(Len(s) + 1),
           NEW r \in Seq(Tasks), Gains(s, k, t, r)
    PROVE  Holds([pl EXCEPT ![t] = InDsq], r)
<1> DEFINE q == [pl EXCEPT ![t] = InDsq]
<1>1. /\ \A i \in 1..Len(r) : i # k => \E j \in 1..Len(s) : r[i] = s[j]
      /\ \A j \in 1..Len(s) : \E i \in 1..Len(r) : r[i] = s[j] /\ i # k
      /\ k \in 1..Len(r) /\ r[k] = t
  BY GainsElements
<1>2. \A i \in 1..Len(s) : s[i] \in Tasks /\ s[i] # t
  BY ElementOfSeq DEF Holds
<1>3. \A u \in Tasks : q[u] = IF u = t THEN InDsq ELSE pl[u]
  OBVIOUS
<1> HIDE DEF q
<1>4. \A i \in 1..Len(r) : q[r[i]] = InDsq
  <2> TAKE i \in 1..Len(r)
  <2>1. CASE i = k
    BY <1>1, <1>3, <2>1
  <2>2. CASE i # k
    <3>1. PICK j \in 1..Len(s) : r[i] = s[j]
      BY <1>1, <2>2
    <3> QED BY <1>2, <1>3, <3>1 DEF Holds
  <2> QED BY <2>1, <2>2
<1>5. \A u \in Tasks : q[u] = InDsq => \E i \in 1..Len(r) : r[i] = u
  <2> SUFFICES ASSUME NEW u \in Tasks, q[u] = InDsq, u # t
               PROVE  \E i \in 1..Len(r) : r[i] = u
    BY <1>1
  <2>1. PICK j \in 1..Len(s) : s[j] = u
    BY <1>3 DEF Holds
  <2> QED BY <1>1, <2>1
<1>6. \A i, j \in 1..Len(r) : r[i] = r[j] => i = j
  <2> SUFFICES ASSUME NEW i \in 1..Len(r), NEW j \in 1..Len(r), r[i] = r[j] PROVE i = j
    OBVIOUS
  <2>1. (i = k) <=> (j = k)
    BY ZenonT(60), <1>1, <1>2
  <2>2. CASE i # k /\ j # k
    <3>1. Len(s) \in Nat /\ Len(r) = Len(s) + 1
      BY LenProperties DEF Gains
    <3>2. PICK a \in 1..Len(s) : r[i] = s[a] /\ a = IF i < k THEN i ELSE i - 1
      BY <2>2, <3>1 DEF Gains
    <3>3. PICK b \in 1..Len(s) : r[j] = s[b] /\ b = IF j < k THEN j ELSE j - 1
      BY <2>2, <3>1 DEF Gains
    <3>4. a = b
      BY ZenonT(60), <3>2, <3>3 DEF Holds
    <3> QED BY <2>2, <3>1, <3>2, <3>3, <3>4
  <2> QED BY <2>1, <2>2
<1> QED BY <1>4, <1>5, <1>6 DEF Holds, q

LEMMA HoldsLose ==
    ASSUME NEW pl \in [Tasks -> Places], NEW s \in Seq(Tasks), Holds(pl, s),
           NEW k \in 1..Len(s), NEW v \in Places, v # InDsq
    PROVE  Holds([pl EXCEPT ![s[k]] = v], RemoveAt(s, k))
<1> DEFINE q == [pl EXCEPT ![s[k]] = v]
           r == RemoveAt(s, k)
<1>1. Len(s) \in Nat /\ \A i \in 1..Len(s) : s[i] \in Tasks
  BY ElementOfSeq, LenProperties
<1>2. /\ Len(r) = Len(s) - 1
      /\ \A j \in 1..(Len(s) - 1) : r[j] = IF j < k THEN s[j] ELSE s[j + 1]
  BY RemoveAtProperties
<1>3. \A u \in Tasks : q[u] = IF u = s[k] THEN v ELSE pl[u]
  BY <1>1
<1> HIDE DEF q, r
<1>4. ASSUME NEW i \in 1..Len(r)
      PROVE  \E j \in 1..Len(s) : /\ r[i] = s[j] /\ j # k
                                  /\ j = IF i < k THEN i ELSE i + 1
  BY <1>1, <1>2
<1>5. \A i \in 1..Len(r) : q[r[i]] = InDsq
  <2> TAKE i \in 1..Len(r)
  <2>1. PICK j \in 1..Len(s) : r[i] = s[j] /\ j # k
    BY <1>4
  <2>2. s[j] # s[k]
    BY <2>1 DEF Holds
  <2> QED BY <1>1, <1>3, <2>1, <2>2 DEF Holds
<1>6. \A u \in Tasks : q[u] = InDsq => \E i \in 1..Len(r) : r[i] = u
  <2> SUFFICES ASSUME NEW u \in Tasks, q[u] = InDsq PROVE \E i \in 1..Len(r) : r[i] = u
    OBVIOUS
  <2>1. u # s[k] /\ pl[u] = InDsq
    BY <1>3
  <2>2. PICK j \in 1..Len(s) : s[j] = u
    BY <2>1 DEF Holds
  <2>3. CASE j < k
    <3>1. j \in 1..Len(r) /\ r[j] = s[j]
      BY <1>1, <1>2, <2>3
    <3> QED BY <2>2, <3>1
  <2>4. CASE j > k
    <3>1. j - 1 \in 1..Len(r) /\ r[j - 1] = s[j]
      BY <1>1, <1>2, <2>4
    <3> QED BY <2>2, <3>1
  <2>5. j < k \/ j > k
    BY <1>1, <2>1, <2>2
  <2> QED BY <2>3, <2>4, <2>5
<1>7. \A i, j \in 1..Len(r) : r[i] = r[j] => i = j
  <2> SUFFICES ASSUME NEW i \in 1..Len(r), NEW j \in 1..Len(r), r[i] = r[j] PROVE i = j
    OBVIOUS
  <2>1. PICK a \in 1..Len(s) : r[i] = s[a] /\ a = IF i < k THEN i ELSE i + 1
    BY <1>4
  <2>2. PICK b \in 1..Len(s) : r[j] = s[b] /\ b = IF j < k THEN j ELSE j + 1
    BY <1>4
  <2>3. a = b
    BY ZenonT(60), <2>1, <2>2 DEF Holds
  <2> QED BY <1>1, <1>2, <2>1, <2>2, <2>3
<1> QED BY <1>5, <1>6, <1>7 DEF Holds, q, r

\* A step that moves task t to v, and leaves the others where they are.
LEMMA PlacedMoves ==
    ASSUME NEW pl, Placed(pl), NEW t \in Tasks, NEW v \in Places,
           Holds([pl EXCEPT ![t] = v], dsq'),
           \A c \in Cpus : /\ v = InLocal(c) <=> local'[c] = <<t>>
                           /\ v = OnCpu(c) <=> running'[c] = t
                           /\ v = InHandler(c) <=> Handling(c, t)',
           v = Nowhere <=> state'[t] # "runnable",
           \A u \in Tasks \ {t}, c \in Cpus :
              /\ local'[c] = <<u>> <=> local[c] = <<u>>
              /\ running'[c] = u <=> running[c] = u
              /\ Handling(c, u)' <=> Handling(c, u),
           \A u \in Tasks \ {t} : state'[u] = state[u]
    PROVE  Placed([pl EXCEPT ![t] = v])'
<1> DEFINE q == [pl EXCEPT ![t] = v]
<1>1. \A u \in Tasks : q[u] = IF u = t THEN v ELSE pl[u]
  BY DEF Placed
<1>2. q \in [Tasks -> Places] /\ q' = q
  BY DEF Placed
<1> HIDE DEF q
<1>3. \A u \in Tasks, c \in Cpus : q[u] = InLocal(c) <=> local'[c] = <<u>>
  BY <1>1 DEF Placed
<1>4. \A u \in Tasks, c \in Cpus : q[u] = OnCpu(c) <=> running'[c] = u
  BY <1>1 DEF Placed
<1>5. \A u \in Tasks, c \in Cpus : q[u] = InHandler(c) <=> Handling(c, u)'
  BY <1>1 DEF Placed
<1>6. \A u \in Tasks : q[u] = Nowhere <=> state'[u] # "runnable"
  BY <1>1 DEF Placed
<1>7. Holds(q, dsq')
  BY DEF q
<1>8. Placed(q)'
  BY <1>2, <1>3, <1>4, <1>5, <1>6, <1>7
     DEF Placed, Holds, InDsq, InLocal, OnCpu, InHandler, Nowhere, Places
<1> QED BY <1>8 DEF q
-----------------------------------------------------------------------------
(* Registration, and tasks that come and go while asleep.                  *)

LEMMA SchedInitIInv == ASSUME IInv, SchedInit PROVE IInv'
<1>1. kind' \in Policies /\ kind = "none"
  BY MiniAssumption DEF SchedInit
<1>2. Types'
  BY <1>1 DEF IInv, Types, SchedInit, core, clock
<1>3. CpuOK' /\ AllowedOK' /\ KindOK' /\ ClockOK'
  <2>1. \A c \in Cpus : pc[c] = "cpu"
    BY <1>1 DEF IInv, KindOK
  <2> QED BY <1>1, <2>1
          DEF IInv, CpuOK, AllowedOK, KindOK, ClockOK, SchedInit, core, clock, Policies
<1>4. KeysOK'
  <2>1. dsq' = <<>>
    BY <1>1 DEF IInv, KindOK, SchedInit
  <2> QED BY <2>1, EmptySeq DEF KeysOK
<1>5. PICK pl : Placed(pl)
  BY DEF IInv
<1>6. Placed(pl)'
  BY <1>5 DEF Placed, Holds, Handling, SchedInit, core, clock
<1> QED BY <1>2, <1>3, <1>4, <1>6 DEF IInv

\* A task that is not runnable is not in the queue: its key may change.
LEMMA AsleepIInv ==
    ASSUME IInv, NEW t \in Tasks, state[t] # "runnable",
           NEW s \in {"absent", "asleep"}, state' = [state EXCEPT ![t] = s],
           NEW k \in Int, vtime' = [vtime EXCEPT ![t] = k],
           UNCHANGED <<kind, dsq, local, running, vtime_now, pc, frame>>
    PROVE  IInv'
<1>1. Types'
  BY DEF IInv, Types
<1>2. CpuOK' /\ AllowedOK' /\ KindOK' /\ ClockOK'
  BY DEF IInv, CpuOK, AllowedOK, KindOK, ClockOK
<1>3. PICK pl : Placed(pl)
  BY DEF IInv
<1>4. Placed(pl)'
  <2>1. \A u \in Tasks : state'[u] # "runnable" <=> state[u] # "runnable"
    BY DEF IInv, Types
  <2>2. \A u \in Tasks : pl[u] = Nowhere <=> state'[u] # "runnable"
    BY <1>3, <2>1 DEF Placed
  <2> QED BY <1>3, <2>2 DEF Placed, Holds, Handling
<1>5. \A i \in 1..Len(dsq) : vtime'[dsq[i]] = vtime[dsq[i]]
  <2> TAKE i \in 1..Len(dsq)
  <2>1. dsq[i] \in Tasks /\ pl[dsq[i]] = InDsq
    BY <1>3, QueueElements DEF IInv, Placed, Holds
  <2>2. dsq[i] # t
    BY <1>3, <2>1, PlacesDiffer DEF Placed
  <2> QED BY <2>1, <2>2 DEF IInv, Types
<1>6. KeysOK'
  BY <1>5 DEF IInv, KeysOK, PrioKey
<1> QED BY <1>1, <1>2, <1>4, <1>6 DEF IInv

LEMMA SchedEnableIInv == ASSUME IInv, NEW t \in Tasks, SchedEnable(t) PROVE IInv'
<1> DEFINE k == IF kind = "vtime" THEN vtime_now ELSE 0
<1>1. k \in Int /\ vtime' = [vtime EXCEPT ![t] = k]
  BY DEF SchedEnable, IInv, ClockOK
<1> HIDE DEF k
<1>2. /\ state[t] # "runnable" /\ state' = [state EXCEPT ![t] = "asleep"]
      /\ UNCHANGED <<kind, dsq, local, running, vtime_now, pc, frame>>
  BY DEF SchedEnable
<1> QED BY <1>1, <1>2, AsleepIInv

LEMMA ReapIInv == ASSUME IInv, NEW t \in Tasks, Reap(t) PROVE IInv'
<1>1. /\ state[t] # "runnable" /\ state' = [state EXCEPT ![t] = "absent"]
      /\ UNCHANGED <<kind, dsq, local, running, vtime_now, pc, frame>>
  BY DEF Reap
<1>2. vtime' = [vtime EXCEPT ![t] = 0] /\ 0 \in Int
  BY DEF Reap
<1>3. PICK k \in Int : vtime' = [vtime EXCEPT ![t] = k]
  BY <1>2
<1> QED BY <1>1, <1>3, AsleepIInv

LEMMA WakeIInv == ASSUME IInv, NEW c \in Cpus, NEW t \in Tasks, Wake(c, t) PROVE IInv'
<1>1. PICK pl : Placed(pl)
  BY DEF IInv
<1>2. /\ kind # "none" /\ pc[c] = "cpu" /\ state[t] = "asleep"
      /\ pc'[c] = "enqueue" /\ frame'[c].task = t
      /\ \A e \in Cpus \ {c} : pc'[e] = pc[e] /\ frame'[e] = frame[e]
      /\ UNCHANGED <<kind, dsq, local, running, vtime, vtime_now>>
  BY DEF Wake, About, IInv, Types, clock
<1>3. Types'
  <2>1. About(t) \in [task : Tasks \cup {NoTask}, iter : SUBSET Tasks]
    BY DEF About
  <2> QED BY <2>1 DEF Wake, IInv, Types, clock
<1>4. CpuOK' /\ KindOK' /\ ClockOK'
  BY <1>2 DEF IInv, CpuOK, KindOK, ClockOK
<1>5. AllowedOK'
  BY <1>2 DEF IInv, AllowedOK
<1>6. KeysOK'
  BY <1>2 DEF IInv, KeysOK, PrioKey
<1>7. pl[t] = Nowhere /\ running[c] # t
  BY <1>1, <1>2, PlacesDiffer DEF Placed
<1>8. Placed([pl EXCEPT ![t] = InHandler(c)])'
  <2>1. InHandler(c) \in Places
    BY DEF Places
  <2>2. Holds([pl EXCEPT ![t] = InHandler(c)], dsq')
    <3>1. /\ pl \in [Tasks -> Places] /\ dsq \in Seq(Tasks) /\ Holds(pl, dsq)
          /\ pl[t] # InDsq /\ InHandler(c) # InDsq /\ dsq' = dsq
      BY <1>1, <1>2, <1>7, PlacesDiffer DEF Placed, IInv, Types
    <3> QED BY <2>1, <3>1, HoldsOther
  <2>3. \A e \in Cpus : /\ local'[e] # <<t>> /\ running'[e] # t
                        /\ Handling(e, t)' <=> e = c
    <3>1. \A e \in Cpus : local[e] # <<t>> /\ running[e] # t /\ ~Handling(e, t)
      BY <1>1, <1>7, PlacesDiffer DEF Placed
    <3> QED BY <1>2, <3>1 DEF Handling
  <2>4. \A u \in Tasks \ {t}, e \in Cpus : Handling(e, u)' <=> Handling(e, u)
    BY <1>2 DEF Handling
  <2>5. /\ state'[t] = "runnable"
        /\ \A u \in Tasks \ {t} : state'[u] = state[u]
    BY DEF Wake, IInv, Types
  <2>6. \A e \in Cpus : /\ InHandler(c) = InLocal(e) <=> local'[e] = <<t>>
                        /\ InHandler(c) = OnCpu(e) <=> running'[e] = t
                        /\ InHandler(c) = InHandler(e) <=> Handling(e, t)'
    BY <2>3, PlacesDiffer
  <2>7. InHandler(c) = Nowhere <=> state'[t] # "runnable"
    BY <2>5, PlacesDiffer
  <2>8. \A u \in Tasks \ {t}, e \in Cpus :
           /\ local'[e] = <<u>> <=> local[e] = <<u>>
           /\ running'[e] = u <=> running[e] = u
           /\ Handling(e, u)' <=> Handling(e, u)
    BY <1>2, <2>4
  <2> QED BY <1>1, <2>1, <2>2, <2>5, <2>6, <2>7, <2>8, PlacedMoves
<1> QED BY <1>3, <1>4, <1>5, <1>6, <1>8 DEF IInv

\* The sequences of at most one element.
LEMMA Singles ==
    /\ \A t, u : <<t>> = <<u>> => t = u
    /\ \A t : <<t>> # <<>> /\ Head(<<t>>) = t /\ Tail(<<t>>) = <<>>
    /\ \A t \in Tasks : Append(<<>>, t) = <<t>> /\ <<t>> \in Seq(Tasks)
    /\ <<>> \in Seq(Tasks)
<1>1. \A t, u : <<t>> = <<u>> => t = u
  OBVIOUS
<1>2. \A t : <<t>> # <<>> /\ Head(<<t>>) = t /\ Tail(<<t>>) = <<>>
  OBVIOUS
<1>3. \A t \in Tasks : Append(<<>>, t) = <<t>> /\ <<t>> \in Seq(Tasks)
  OBVIOUS
<1> QED BY <1>1, <1>2, <1>3

LEMMA WakeToIdleIInv ==
    ASSUME IInv, NEW c \in Cpus, NEW t \in Tasks, WakeToIdle(c, t) PROVE IInv'
<1>1. PICK pl : Placed(pl)
  BY DEF IInv
<1>2. /\ kind # "none" /\ pc[c] = "cpu" /\ state[t] = "asleep" /\ c \in Allowed[t]
      /\ running[c] = NoTask /\ local[c] = <<>> /\ local'[c] = <<t>>
      /\ \A e \in Cpus \ {c} : local'[e] = local[e]
      /\ UNCHANGED <<kind, dsq, running, vtime, vtime_now, pc, frame>>
  BY DEF WakeToIdle, IInv, Types, clock
<1>3. Types'
  BY Singles DEF WakeToIdle, IInv, Types, clock
<1>4. CpuOK' /\ KindOK' /\ ClockOK'
  BY <1>2, Singles DEF IInv, CpuOK, KindOK, ClockOK
<1>5. AllowedOK'
  BY <1>2, Singles DEF IInv, AllowedOK
<1>6. KeysOK'
  BY <1>2 DEF IInv, KeysOK, PrioKey
<1>7. pl[t] = Nowhere
  BY <1>1, <1>2 DEF Placed
<1>8. Placed([pl EXCEPT ![t] = InLocal(c)])'
  <2>1. InLocal(c) \in Places
    BY DEF Places
  <2>2. Holds([pl EXCEPT ![t] = InLocal(c)], dsq')
    <3>1. /\ pl \in [Tasks -> Places] /\ dsq \in Seq(Tasks) /\ Holds(pl, dsq)
          /\ pl[t] # InDsq /\ InLocal(c) # InDsq /\ dsq' = dsq
      BY <1>1, <1>2, <1>7, PlacesDiffer DEF Placed, IInv, Types
    <3> QED BY <2>1, <3>1, HoldsOther
  <2>3. \A e \in Cpus : /\ running'[e] # t /\ ~Handling(e, t)'
                        /\ local'[e] = <<t>> <=> e = c
    <3>1. \A e \in Cpus : local[e] # <<t>> /\ running[e] # t /\ ~Handling(e, t)
      BY <1>1, <1>7, PlacesDiffer DEF Placed
    <3> QED BY <1>2, <3>1 DEF Handling
  <2>4. \A u \in Tasks \ {t}, e \in Cpus :
            /\ Handling(e, u)' <=> Handling(e, u)
            /\ local'[e] = <<u>> <=> local[e] = <<u>>
    BY <1>2, Singles DEF Handling
  <2>5. /\ state'[t] = "runnable"
        /\ \A u \in Tasks \ {t} : state'[u] = state[u]
    BY DEF WakeToIdle, IInv, Types
  <2> QED BY <1>1, <1>2, <2>1, <2>2, <2>3, <2>4, <2>5, PlacedMoves, PlacesDiffer
<1> QED BY <1>3, <1>4, <1>5, <1>6, <1>8 DEF IInv

LEMMA SleepIInv == ASSUME IInv, NEW c \in Cpus, Sleep(c) PROVE IInv'
<1>1. PICK pl : Placed(pl)
  BY DEF IInv
<1>t. PICK t \in Tasks : t = running[c]
  BY DEF Sleep, IInv, Types
<1>2. t \in Tasks /\ kind # "none"
  BY <1>t, Registered, MiniAssumption
<1>3. PICK n \in 0..SLICE : Stopping(t, n)
  BY <1>t DEF Sleep
<1>4. /\ vtime' \in [Tasks -> Int]
      /\ \A u \in Tasks \ {t} : vtime'[u] = vtime[u]
      /\ kind # "vtime" => vtime' = vtime
  BY <1>2, <1>3, StoppingTypes, MiniAssumption DEF IInv
<1>5. /\ pc[c] = "cpu" /\ running'[c] = NoTask
      /\ pc'[c] = IF local[c] = <<>> THEN "dispatch" ELSE "pick"
      /\ \A e \in Cpus \ {c} : running'[e] = running[e] /\ pc'[e] = pc[e]
      /\ state'[t] = "asleep"
      /\ \A u \in Tasks \ {t} : state'[u] = state[u]
      /\ UNCHANGED <<kind, dsq, local, vtime_now, frame>>
  BY <1>t DEF Sleep, IInv, Types
<1>6. Types'
  <2>1. /\ state' \in [Tasks -> {"absent", "asleep", "runnable"}]
        /\ running' \in [Cpus -> Tasks \cup {NoTask}]
        /\ pc' \in [Cpus -> Pcs]
    BY <1>t DEF Sleep, IInv, Types, Pcs
  <2> QED BY <1>4, <1>5, <2>1 DEF IInv, Types, Pcs
<1>7. CpuOK' /\ KindOK' /\ ClockOK'
  BY <1>2, <1>5 DEF IInv, CpuOK, KindOK, ClockOK
<1>8. AllowedOK'
  BY <1>5 DEF IInv, AllowedOK
<1>9. pl[t] = OnCpu(c)
  BY <1>1, <1>t DEF Placed
<1>10. \A i \in 1..Len(dsq) : vtime'[dsq[i]] = vtime[dsq[i]]
  <2> TAKE i \in 1..Len(dsq)
  <2>1. dsq[i] \in Tasks /\ pl[dsq[i]] = InDsq
    BY <1>1, QueueElements DEF IInv, Placed, Holds
  <2>2. dsq[i] # t
    BY <1>9, <2>1, PlacesDiffer
  <2> QED BY <1>4, <2>1, <2>2
<1>11. KeysOK'
  BY <1>5, <1>10 DEF IInv, KeysOK, PrioKey
<1>12. Placed([pl EXCEPT ![t] = Nowhere])'
  <2>1. Nowhere \in Places
    BY DEF Places
  <2>2. Holds([pl EXCEPT ![t] = Nowhere], dsq')
    <3>1. /\ pl \in [Tasks -> Places] /\ dsq \in Seq(Tasks) /\ Holds(pl, dsq)
          /\ pl[t] # InDsq /\ Nowhere # InDsq /\ dsq' = dsq
      BY <1>1, <1>5, <1>9, PlacesDiffer DEF Placed, IInv, Types
    <3> QED BY <1>2, <2>1, <3>1, HoldsOther
  <2>3. \A e \in Cpus : local'[e] # <<t>> /\ running'[e] # t /\ ~Handling(e, t)'
    <3>1. \A e \in Cpus : local[e] # <<t>> /\ (running[e] = t => e = c) /\ ~Handling(e, t)
      BY <1>1, <1>2, <1>9, PlacesDiffer DEF Placed
    <3>2. NoTask # t
      BY <1>2, MiniAssumption
    <3>3. \A e \in Cpus : running'[e] # t
      BY <1>5, <3>1, <3>2
    <3>4. \A e \in Cpus : ~Handling(e, t)'
      <4> TAKE e \in Cpus
      <4>1. CASE e = c
        <5>1. pc'[c] # "enqueue"
          BY <1>5
        <5> QED BY <4>1, <5>1 DEF Handling
      <4>2. CASE e # c
        <5>1. pc'[e] = pc[e] /\ frame'[e] = frame[e] /\ running'[e] = running[e]
          BY <1>5, <4>2
        <5>2. ~Handling(e, t)
          BY <3>1
        <5> QED BY <5>1, <5>2 DEF Handling
      <4> QED BY <4>1, <4>2
    <3> QED BY <1>5, <3>1, <3>3, <3>4
  <2>4. \A u \in Tasks \ {t}, e \in Cpus :
            /\ local'[e] = <<u>> <=> local[e] = <<u>>
            /\ running'[e] = u <=> running[e] = u
            /\ Handling(e, u)' <=> Handling(e, u)
    <3>1. NoTask \notin Tasks /\ running[c] = t
      BY <1>t, MiniAssumption
    <3> QED BY <1>5, <3>1 DEF Handling
  <2>5. /\ \A e \in Cpus :
              /\ Nowhere = InLocal(e) <=> local'[e] = <<t>>
              /\ Nowhere = OnCpu(e) <=> running'[e] = t
              /\ Nowhere = InHandler(e) <=> Handling(e, t)'
    BY <1>5, <2>3, PlacesDiffer
  <2>6. Nowhere = Nowhere <=> state'[t] # "runnable"
    BY <1>5
  <2>7. \A u \in Tasks \ {t} : state'[u] = state[u]
    BY <1>5
  <2> QED BY <1>1, <1>2, <2>1, <2>2, <2>4, <2>5, <2>6, <2>7, PlacedMoves
<1> QED BY <1>6, <1>7, <1>8, <1>11, <1>12 DEF IInv

LEMMA PickIInv == ASSUME IInv, NEW c \in Cpus, Pick(c) PROVE IInv'
<1>1. /\ pc[c] = "pick" /\ kind # "none" /\ running[c] = NoTask
      /\ pc' = [pc EXCEPT ![c] = "cpu"]
      /\ UNCHANGED <<kind, state, dsq, endless, vtime, frame>>
  BY Registered DEF Pick, IInv, CpuOK
<1>2. CASE local[c] = <<>>
  <2>1. pc' = [pc EXCEPT ![c] = "cpu"] /\ UNCHANGED <<kind, dsq, core, clock, frame>>
    BY <1>1, <1>2 DEF Pick, core, clock
  <2> QED BY <1>1, <2>1, QuietTurn
<1>3. CASE local[c] # <<>>
  <2>1. PICK t \in Tasks : local[c] = <<t>>
    BY <1>3 DEF IInv, CpuOK
  <2>2. /\ running' = [running EXCEPT ![c] = t]
        /\ local' = [local EXCEPT ![c] = <<>>]
    BY <1>3, <2>1, Singles DEF Pick
  <2>3. vtime_now' = vtime_now
    <3>1. vtime_now \in Int /\ vtime[t] \in Int
      BY DEF IInv, Types, ClockOK
    <3> QED BY <1>3, <2>1, <3>1, NeverSmaller, Singles DEF Pick
  <2>4. /\ running'[c] = t /\ local'[c] = <<>> /\ pc'[c] = "cpu"
        /\ \A e \in Cpus \ {c} :
              running'[e] = running[e] /\ local'[e] = local[e] /\ pc'[e] = pc[e]
    BY <1>1, <2>2 DEF IInv, Types
  <2>5. Types'
    <3>1. /\ pc' \in [Cpus -> Pcs] /\ local' \in [Cpus -> Seq(Tasks)]
          /\ running' \in [Cpus -> Tasks \cup {NoTask}]
      BY <1>1, <2>2, Singles DEF IInv, Types, Pcs
    <3> QED BY <1>1, <3>1 DEF IInv, Types, Pcs
  <2>6. CpuOK' /\ KindOK' /\ ClockOK'
    BY <1>1, <2>3, <2>4 DEF IInv, CpuOK, KindOK, ClockOK
  <2>7. AllowedOK'
    BY <1>1, <2>4, Singles DEF IInv, AllowedOK
  <2>8. KeysOK'
    BY <1>1 DEF IInv, KeysOK, PrioKey
  <2>9. PICK pl : Placed(pl)
    BY DEF IInv
  <2>10. pl[t] = InLocal(c)
    BY <2>1, <2>9 DEF Placed
  <2>11. Placed([pl EXCEPT ![t] = OnCpu(c)])'
    <3>1. OnCpu(c) \in Places
      BY DEF Places
    <3>2. Holds([pl EXCEPT ![t] = OnCpu(c)], dsq')
      <4>1. /\ pl \in [Tasks -> Places] /\ dsq \in Seq(Tasks) /\ Holds(pl, dsq)
            /\ pl[t] # InDsq /\ OnCpu(c) # InDsq /\ dsq' = dsq
        BY <1>1, <2>9, <2>10, PlacesDiffer DEF Placed, IInv, Types
      <4> QED BY <3>1, <4>1, HoldsOther
    <3>3. \A e \in Cpus : /\ local'[e] # <<t>> /\ ~Handling(e, t)'
                          /\ running'[e] = t <=> e = c
      <4>1. \A e \in Cpus : /\ local[e] = <<t>> <=> e = c
                            /\ running[e] # t /\ ~Handling(e, t)
        BY <2>9, <2>10, PlacesDiffer DEF Placed
      <4> QED BY <1>1, <2>4, <4>1, Singles DEF Handling
    <3>4. \A u \in Tasks \ {t}, e \in Cpus :
              /\ Handling(e, u)' <=> Handling(e, u)
              /\ running'[e] = u <=> running[e] = u
              /\ local'[e] = <<u>> <=> local[e] = <<u>>
      BY <1>1, <2>1, <2>4, Singles, MiniAssumption DEF Handling
    <3>5. state[t] = "runnable" /\ state' = state
      BY <1>1, <2>9, <2>10, PlacesDiffer DEF Placed
    <3> QED BY SMTT(30), <2>9, <3>1, <3>2, <3>3, <3>4, <3>5, PlacedMoves, PlacesDiffer
  <2> QED BY <2>5, <2>6, <2>7, <2>8, <2>11 DEF IInv
<1> QED BY <1>2, <1>3
-----------------------------------------------------------------------------
(* The queue stays sorted.                                                 *)

Sorted(s, K) == \A i, j \in 1..Len(s) : i < j => K[s[i]] <= K[s[j]]

\* The keys before position k are not larger than that of e, the others are.
KeysAround(s, K, k, e, L) ==
    /\ \A i \in 1..Len(s) : L[s[i]] = K[s[i]]
    /\ \A i \in 1..(k - 1) : K[s[i]] <= L[e]
    /\ \A i \in k..Len(s) : K[s[i]] > L[e]

LEMMA GainSorted ==
    ASSUME NEW S, NEW s \in Seq(S), NEW e \in S, NEW r, NEW k \in 1..(Len(s) + 1),
           Gains(s, k, e, r), NEW K \in [S -> Int], NEW L \in [S -> Int], Sorted(s, K),
           KeysAround(s, K, k, e, L)
    PROVE  Sorted(r, L)
<1>1. Len(s) \in Nat /\ Len(r) = Len(s) + 1 /\ k \in Nat
      /\ \A i \in 1..Len(s) : s[i] \in S
  BY ElementOfSeq, LenProperties DEF Gains
<1>2. SUFFICES ASSUME NEW i \in 1..Len(r), NEW j \in 1..Len(r), i < j
               PROVE  L[r[i]] <= L[r[j]]
  BY DEF Sorted
<1>3. CASE i = k
  <2>1. j - 1 \in k..Len(s) /\ j - 1 \in 1..Len(s) /\ r[i] = e /\ r[j] = s[j - 1]
    BY SMTT(30), <1>1, <1>2, <1>3 DEF Gains
  <2>2. K[s[j - 1]] > L[e] /\ L[s[j - 1]] = K[s[j - 1]] /\ s[j - 1] \in S
    BY <1>1, <2>1 DEF KeysAround
  <2>3. K[s[j - 1]] \in Int /\ L[e] \in Int
    BY <2>2
  <2> QED BY <2>1, <2>2, <2>3
<1>4. CASE j = k
  <2>1. i \in 1..(k - 1) /\ i \in 1..Len(s) /\ r[i] = s[i] /\ r[j] = e
    BY <1>1, <1>2, <1>4 DEF Gains
  <2> QED BY <2>1 DEF KeysAround
<1>5. ASSUME NEW m \in 1..Len(r), m # k
      PROVE  \E a \in 1..Len(s) : r[m] = s[a] /\ a = IF m < k THEN m ELSE m - 1
  <2>1. CASE m < k
    <3>1. m \in 1..Len(s) /\ r[m] = s[m]
      BY <1>1, <2>1 DEF Gains
    <3> QED BY <2>1, <3>1
  <2>2. CASE ~(m < k)
    <3>1. m - 1 \in 1..Len(s) /\ r[m] = s[m - 1]
      BY <1>1, <1>5, <2>2 DEF Gains
    <3> QED BY <2>2, <3>1
  <2> QED BY <2>1, <2>2
<1>6. CASE i # k /\ j # k
  <2>1. PICK a \in 1..Len(s) : r[i] = s[a] /\ a = IF i < k THEN i ELSE i - 1
    BY <1>5, <1>6
  <2>2. PICK b \in 1..Len(s) : r[j] = s[b] /\ b = IF j < k THEN j ELSE j - 1
    BY <1>5, <1>6
  <2>3. a < b
    BY <1>1, <1>2, <1>6, <2>1, <2>2
  <2>4. s[a] \in S /\ s[b] \in S /\ K[s[a]] <= K[s[b]]
    BY <1>1, <2>3 DEF Sorted
  <2> QED BY <2>1, <2>2, <2>4 DEF KeysAround
<1> QED BY <1>3, <1>4, <1>6

LEMMA RemoveSorted ==
    ASSUME NEW S, NEW s \in Seq(S), NEW k \in 1..Len(s), NEW K, NEW L, Sorted(s, K),
           \A i \in 1..Len(s) : i # k => L[s[i]] = K[s[i]]
    PROVE  Sorted(RemoveAt(s, k), L)
<1> DEFINE r == RemoveAt(s, k)
<1>1. /\ Len(s) \in Nat /\ Len(r) = Len(s) - 1
      /\ \A j \in 1..(Len(s) - 1) : r[j] = IF j < k THEN s[j] ELSE s[j + 1]
  BY RemoveAtProperties, LenProperties
<1> HIDE DEF r
<1>2. SUFFICES ASSUME NEW i \in 1..Len(r), NEW j \in 1..Len(r), i < j
               PROVE  L[r[i]] <= L[r[j]]
  BY DEF Sorted, r
<1>3. PICK a \in 1..Len(s) : r[i] = s[a] /\ a = IF i < k THEN i ELSE i + 1
  BY <1>1
<1>4. PICK b \in 1..Len(s) : r[j] = s[b] /\ b = IF j < k THEN j ELSE j + 1
  BY <1>1
<1>5. a < b /\ a # k /\ b # k
  BY <1>1, <1>2, <1>3, <1>4
<1> QED BY <1>3, <1>4, <1>5 DEF Sorted

\* What sched_enqueue does to the queue and to the key of the task.
LEMMA Enqueues ==
    ASSUME IInv, NEW t \in Tasks, NEW r \in Inserted(t, KeyOf(t))
    PROVE  \E k \in 1..(Len(dsq) + 1) :
              /\ r \in Seq(Tasks) /\ Gains(dsq, k, t, r)
              /\ kind \in {"prio", "vtime"} => k \in Between(KeyOf(t))
<1>1. dsq \in Seq(Tasks) /\ Len(dsq) \in Nat
  BY LenProperties DEF IInv, Types
<1>2. CASE kind \in {"prio", "vtime"}
  <2>1. PICK k \in Between(KeyOf(t)) : r = InsertAt(dsq, k, t)
    BY <1>2 DEF Inserted
  <2>2. k \in 1..(Len(dsq) + 1)
    BY <2>1 DEF Between
  <2> QED BY <1>1, <2>1, <2>2, InsertGains
<1>3. CASE kind \notin {"prio", "vtime"}
  <2>1. r = Append(dsq, t) /\ Len(dsq) + 1 \in 1..(Len(dsq) + 1)
    BY <1>1, <1>3 DEF Inserted
  <2> QED BY <1>1, <1>3, <2>1, AppendGains
<1> QED BY <1>2, <1>3

LEMMA SchedEnqueueIInv == ASSUME IInv, NEW c \in Cpus, SchedEnqueue(c) PROVE IInv'
<1>1. PICK pl : Placed(pl)
  BY DEF IInv
<1>2. PICK t \in Tasks : t = frame[c].task
  BY DEF SchedEnqueue, IInv, CpuOK
<1>3. pc[c] = "enqueue" /\ kind # "none"
  BY Registered DEF SchedEnqueue
<1>4. KeyOf(t) \in Int
  BY KeyTypes DEF IInv, ClockOK
<1>5. PICK k \in 1..(Len(dsq) + 1) :
          /\ dsq' \in Seq(Tasks) /\ Gains(dsq, k, t, dsq')
          /\ kind \in {"prio", "vtime"} => k \in Between(KeyOf(t))
  BY <1>2, Enqueues DEF SchedEnqueue
<1>6. /\ vtime' = [vtime EXCEPT ![t] = KeyOf(t)]
      /\ running' = [running EXCEPT ![c] = IF running[c] = t THEN NoTask ELSE running[c]]
      /\ pc' = [pc EXCEPT ![c] = IF running[c] = t THEN "pick" ELSE "cpu"]
      /\ frame' = [frame EXCEPT ![c] = NoFrame]
      /\ UNCHANGED <<kind, state, local, vtime_now>>
  BY <1>2 DEF SchedEnqueue
<1>7. /\ pc'[c] \in {"pick", "cpu"} /\ running'[c] # t
      /\ pc'[c] = "pick" => running'[c] = NoTask
      /\ \A u \in Tasks \ {t} : running'[c] = u <=> running[c] = u
      /\ \A e \in Cpus \ {c} :
            running'[e] = running[e] /\ pc'[e] = pc[e] /\ frame'[e] = frame[e]
  BY <1>6, MiniAssumption DEF IInv, Types
<1>8. Types'
  <2>1. NoFrame \in Frames
    BY DEF NoFrame, About, Frames
  <2>2. /\ vtime' \in [Tasks -> Int]
        /\ running' \in [Cpus -> Tasks \cup {NoTask}]
        /\ pc' \in [Cpus -> Pcs]
        /\ frame' \in [Cpus -> Frames]
    BY <1>4, <1>6, <2>1 DEF IInv, Types, Pcs, Frames
  <2> QED BY <1>5, <1>6, <2>2 DEF IInv, Types, Pcs, Frames
<1>9. CpuOK' /\ KindOK' /\ ClockOK'
  BY <1>3, <1>6, <1>7 DEF IInv, CpuOK, KindOK, ClockOK
<1>10. AllowedOK'
  BY <1>6, <1>7 DEF IInv, AllowedOK
<1>11. /\ pl[t] # InDsq
       /\ \A e \in Cpus : local[e] # <<t>> /\ (running[e] = t => e = c)
                          /\ (Handling(e, t) => e = c)
       /\ state[t] = "runnable"
  <2>1. CASE running[c] = t
    <3>1. pl[t] = OnCpu(c)
      BY <1>1, <2>1 DEF Placed
    <3> QED BY <1>1, <3>1, PlacesDiffer DEF Placed
  <2>2. CASE running[c] # t
    <3>1. pl[t] = InHandler(c)
      BY <1>1, <1>2, <1>3, <2>2 DEF Placed, Handling
    <3> QED BY <1>1, <3>1, PlacesDiffer DEF Placed
  <2> QED BY <2>1, <2>2
<1>12. \A i \in 1..Len(dsq) : dsq[i] \in Tasks /\ dsq[i] # t /\ vtime'[dsq[i]] = vtime[dsq[i]]
  <2> TAKE i \in 1..Len(dsq)
  <2>1. dsq[i] \in Tasks /\ dsq[i] # t
    BY <1>1, <1>11, QueueElements DEF IInv, Placed, Holds
  <2> QED BY <1>6, <2>1 DEF IInv, Types
<1>13. KeysOK'
  <2>1. vtime'[t] = KeyOf(t) /\ dsq \in Seq(Tasks)
        /\ vtime \in [Tasks -> Int] /\ vtime' \in [Tasks -> Int]
    BY <1>4, <1>6 DEF IInv, Types
  <2>2. CASE kind \in {"prio", "vtime"}
    <3>1. Sorted(dsq, vtime)
      BY <2>2 DEF IInv, KeysOK, Sorted
    <3>2. /\ \A i \in 1..(k - 1) : vtime[dsq[i]] <= vtime'[t]
          /\ \A i \in k..Len(dsq) : vtime[dsq[i]] > vtime'[t]
      BY <1>5, <2>1, <2>2 DEF Between
    <3>3. Sorted(dsq', vtime')
      <4> DEFINE r == dsq'
                 L == vtime'
      <4>1. /\ KeysAround(dsq, vtime, k, t, L)
            /\ Gains(dsq, k, t, r) /\ L \in [Tasks -> Int]
        BY <1>5, <1>12, <2>1, <3>2 DEF KeysAround
      <4> HIDE DEF r, L
      <4>2. Sorted(r, L)
        BY <2>1, <3>1, <4>1, GainSorted
      <4> QED BY <4>2 DEF r, L
    <3>4. kind = "prio" => \A i \in 1..Len(dsq') : vtime'[dsq'[i]] = PrioKey(dsq'[i])
      <4> SUFFICES ASSUME kind = "prio", NEW i \in 1..Len(dsq')
                   PROVE  vtime'[dsq'[i]] = PrioKey(dsq'[i])
        OBVIOUS
      <4>1. CASE i = k
        <5>1. dsq'[i] = t
          BY <1>5, <2>1, <4>1, GainsElements
        <5> QED BY <2>1, <5>1 DEF KeyOf
      <4>2. CASE i # k
        <5>1. PICK j \in 1..Len(dsq) : dsq'[i] = dsq[j]
          BY <1>5, <2>1, <4>2, GainsElements
        <5>2. vtime[dsq[j]] = PrioKey(dsq[j])
          BY DEF IInv, KeysOK
        <5> QED BY <1>12, <5>1, <5>2
      <4> QED BY <4>1, <4>2
    <3> QED BY <1>6, <3>3, <3>4 DEF KeysOK, Sorted, PrioKey
  <2> QED BY <1>6, <2>2 DEF KeysOK
<1>14. Placed([pl EXCEPT ![t] = InDsq])'
  <2>1. InDsq \in Places
    BY DEF Places
  <2>2. Holds([pl EXCEPT ![t] = InDsq], dsq')
    <3>1. pl \in [Tasks -> Places] /\ dsq \in Seq(Tasks) /\ Holds(pl, dsq)
      BY <1>1 DEF Placed, IInv, Types
    <3> QED BY <1>5, <1>11, <3>1, HoldsGain
  <2>3. \A e \in Cpus : local'[e] # <<t>> /\ running'[e] # t /\ ~Handling(e, t)'
    <3> TAKE e \in Cpus
    <3>1. local'[e] # <<t>>
      BY <1>6, <1>11
    <3>2. CASE e = c
      BY <1>7, <3>1, <3>2 DEF Handling
    <3>3. CASE e # c
      BY <1>7, <1>11, <3>1, <3>3 DEF Handling
    <3> QED BY <3>2, <3>3
  <2>4. \A u \in Tasks \ {t}, e \in Cpus :
            /\ local'[e] = <<u>> <=> local[e] = <<u>>
            /\ running'[e] = u <=> running[e] = u
            /\ Handling(e, u)' <=> Handling(e, u)
    <3> TAKE u \in Tasks \ {t}, e \in Cpus
    <3>1. local'[e] = <<u>> <=> local[e] = <<u>>
      BY <1>6
    <3>2. running'[e] = u <=> running[e] = u
      BY <1>7
    <3>3. Handling(e, u)' <=> Handling(e, u)
      <4>1. CASE e = c
        BY <1>2, <1>7, <4>1 DEF Handling
      <4>2. CASE e # c
        BY <1>7, <4>2 DEF Handling
      <4> QED BY <4>1, <4>2
    <3> QED BY <3>1, <3>2, <3>3
  <2>5. /\ \A e \in Cpus :
              /\ InDsq = InLocal(e) <=> local'[e] = <<t>>
              /\ InDsq = OnCpu(e) <=> running'[e] = t
              /\ InDsq = InHandler(e) <=> Handling(e, t)'
        /\ InDsq = Nowhere <=> state'[t] # "runnable"
        /\ \A u \in Tasks \ {t} : state'[u] = state[u]
    BY <1>6, <1>11, <2>3, PlacesDiffer
  <2> QED BY <1>1, <2>1, <2>2, <2>4, <2>5, PlacedMoves
<1> QED BY <1>8, <1>9, <1>10, <1>13, <1>14 DEF IInv

\* The round of a CPU ends with a task it may run.
LEMMA TakeIInv ==
    ASSUME IInv, NEW c \in Cpus, NEW i \in 1..Len(dsq), TakeAndReturn(c, i),
           pc[c] \in {"dispatch", "move"}, c \in Allowed[dsq[i]]
    PROVE  IInv'
<1>1. PICK pl : Placed(pl)
  BY DEF IInv
<1>2. PICK t \in Tasks : t = dsq[i]
  BY QueueElements DEF IInv
<1>3. /\ kind # "none" /\ local[c] = <<>> /\ dsq \in Seq(Tasks)
      /\ \A j \in 1..Len(dsq) : dsq[j] \in Tasks
  BY Registered, QueueElements DEF IInv, CpuOK, Types
<1>4. /\ dsq' = RemoveAt(dsq, i) /\ dsq' \in Seq(Tasks)
      /\ UNCHANGED <<kind, state, running, vtime_now>>
  BY <1>3, RemoveAtProperties DEF TakeAndReturn
<1>5. local' = [local EXCEPT ![c] = <<t>>]
  BY <1>2, <1>3, Singles DEF TakeAndReturn, IInv, Types
<1>6. local'[c] = <<t>> /\ \A e \in Cpus \ {c} : local'[e] = local[e]
  BY <1>5 DEF IInv, Types
<1>7. PICK p \in {"pick", "enqueue"}, f \in Frames :
          /\ pc' = [pc EXCEPT ![c] = p]
          /\ frame' = [Forget(t) EXCEPT ![c] = f]
          /\ p = "pick" => running[c] = NoTask
          /\ p = "enqueue" => running[c] \in Tasks /\ f.task = running[c]
  <2>1. CASE running[c] = NoTask
    <3>1. /\ pc' = [pc EXCEPT ![c] = "pick"]
          /\ frame' = [Forget(t) EXCEPT ![c] = NoFrame]
      BY <1>2, <2>1 DEF TakeAndReturn
    <3>2. NoFrame \in Frames
      BY DEF NoFrame, About, Frames
    <3> QED BY <2>1, <3>1, <3>2
  <2>2. CASE running[c] # NoTask
    <3>1. /\ pc' = [pc EXCEPT ![c] = "enqueue"]
          /\ frame' = [Forget(t) EXCEPT ![c] = About(running[c])]
      BY <1>2, <2>2 DEF TakeAndReturn
    <3>2. running[c] \in Tasks
      BY <2>2 DEF IInv, Types
    <3>3. About(running[c]) \in Frames /\ About(running[c]).task = running[c]
      BY <3>2 DEF About, Frames
    <3> QED BY <2>2, <3>1, <3>2, <3>3
  <2> QED BY <2>1, <2>2
<1>8. /\ vtime' \in [Tasks -> Int]
      /\ \A u \in Tasks : running[c] # u => vtime'[u] = vtime[u]
      /\ kind # "vtime" => vtime' = vtime
  <2>1. CASE running[c] = NoTask
    BY <2>1 DEF TakeAndReturn, IInv, Types
  <2>2. CASE running[c] # NoTask
    <3>1. running[c] \in Tasks /\ Stopping(running[c], SLICE) /\ SLICE \in Nat
      BY <2>2, MiniAssumption DEF TakeAndReturn, IInv, Types
    <3> QED BY <3>1, StoppingTypes DEF IInv
  <2> QED BY <2>1, <2>2
<1>9. \A e \in Cpus :
          /\ Forget(t)[e] \in Frames
          /\ Forget(t)[e].task \in {frame[e].task, NoTask}
          /\ pc[e] # "move" => Forget(t)[e].task = frame[e].task
  <2> TAKE e \in Cpus
  <2>1. frame[e] \in Frames
    BY DEF IInv, Types, Frames
  <2> QED BY <2>1 DEF Forget, Frames
<1>10. /\ pc'[c] = p /\ frame'[c] = f
       /\ \A e \in Cpus \ {c} : pc'[e] = pc[e] /\ frame'[e] = Forget(t)[e]
  BY <1>7 DEF IInv, Types, Forget
<1>11. Types'
  <2>1. /\ pc' \in [Cpus -> Pcs] /\ local' \in [Cpus -> Seq(Tasks)]
    BY <1>5, <1>7, Singles DEF IInv, Types, Pcs
  <2>2. frame' \in [Cpus -> Frames]
    BY <1>7, <1>9 DEF Forget
  <2> QED BY <1>4, <1>8, <2>1, <2>2 DEF IInv, Types, Pcs, Frames
<1>12. CpuOK'
  <2> SUFFICES ASSUME NEW e \in Cpus
               PROVE  /\ local'[e] = <<>> \/ \E u \in Tasks : local'[e] = <<u>>
                      /\ local'[e] # <<>> => pc'[e] \notin {"dispatch", "sum", "iterate", "visit", "move"}
                      /\ pc'[e] = "pick" => running'[e] = NoTask
                      /\ pc'[e] = "enqueue" => frame'[e].task \in Tasks
                      /\ pc'[e] \in {"sum", "iterate", "visit", "move"} => kind' \in Lotteries
                      /\ pc'[e] = "sum" => kind' = "lottery_prio"
    BY DEF CpuOK
  <2>1. CASE e = c
    BY <1>4, <1>6, <1>7, <1>10, <2>1
  <2>2. CASE e # c
    BY <1>4, <1>6, <1>9, <1>10, <2>2 DEF IInv, CpuOK
  <2> QED BY <2>1, <2>2
<1>13. KindOK' /\ ClockOK'
  BY <1>3, <1>4 DEF IInv, KindOK, ClockOK
<1>14. AllowedOK'
  <2> SUFFICES ASSUME NEW e \in Cpus, NEW u \in Tasks,
                      local'[e] = <<u>> \/ (pc'[e] = "move" /\ frame'[e].task = u)
               PROVE  e \in Allowed[u]
    BY DEF AllowedOK
  <2>1. CASE e = c
    BY <1>2, <1>6, <1>7, <1>10, <2>1, Singles
  <2>2. CASE e # c
    <3>1. local[e] = <<u>> \/ (pc[e] = "move" /\ frame[e].task = u)
      BY <1>6, <1>9, <1>10, <2>2, MiniAssumption
    <3> QED BY <3>1 DEF IInv, AllowedOK
  <2> QED BY <2>1, <2>2
<1>15. pl[t] = InDsq
  BY <1>1, <1>2 DEF Placed, Holds
<1>16. \A j \in 1..Len(dsq) : vtime'[dsq[j]] = vtime[dsq[j]]
  <2> TAKE j \in 1..Len(dsq)
  <2>1. dsq[j] \in Tasks /\ pl[dsq[j]] = InDsq
    BY <1>1, <1>3 DEF Placed, Holds
  <2>2. running[c] # dsq[j]
    BY <1>1, <2>1, PlacesDiffer DEF Placed
  <2> QED BY <1>8, <2>1, <2>2
<1>17. KeysOK'
  <2>1. ASSUME kind \in {"prio", "vtime"} PROVE Sorted(dsq', vtime')
    <3>1. Sorted(dsq, vtime)
      BY <2>1 DEF IInv, KeysOK, Sorted
    <3> DEFINE L == vtime'
    <3>2. \A j \in 1..Len(dsq) : j # i => L[dsq[j]] = vtime[dsq[j]]
      BY <1>16
    <3> HIDE DEF L
    <3>3. Sorted(RemoveAt(dsq, i), L)
      BY <1>3, <3>1, <3>2, RemoveSorted
    <3> QED BY <1>4, <3>3 DEF L
  <2>2. ASSUME kind = "prio", NEW j \in 1..Len(dsq')
        PROVE  vtime'[dsq'[j]] = PrioKey(dsq'[j])
    <3>1. PICK k \in 1..Len(dsq) : dsq'[j] = dsq[k]
      BY <1>3, <1>4, RemoveElements
    <3>2. vtime[dsq[k]] = PrioKey(dsq[k])
      BY <2>2 DEF IInv, KeysOK
    <3> QED BY <1>16, <3>1, <3>2
  <2> QED BY <1>4, <2>1, <2>2 DEF KeysOK, Sorted, PrioKey
<1>18. Placed([pl EXCEPT ![t] = InLocal(c)])'
  <2>1. InLocal(c) \in Places
    BY DEF Places
  <2>2. Holds([pl EXCEPT ![t] = InLocal(c)], dsq')
    <3>1. pl \in [Tasks -> Places] /\ Holds(pl, dsq) /\ InLocal(c) # InDsq
      BY <1>1, PlacesDiffer DEF Placed
    <3> QED BY <1>2, <1>3, <1>4, <2>1, <3>1, HoldsLose
  <2>3. \A u \in Tasks, e \in Cpus : Handling(e, u)' <=> Handling(e, u)
    <3> TAKE u \in Tasks, e \in Cpus
    <3>1. CASE e = c
      BY <1>4, <1>7, <1>10, <3>1 DEF Handling
    <3>2. CASE e # c
      BY <1>4, <1>9, <1>10, <3>2 DEF Handling
    <3> QED BY <3>1, <3>2
  <2>4. \A e \in Cpus : local[e] # <<t>> /\ running[e] # t /\ ~Handling(e, t)
    BY <1>1, <1>15, PlacesDiffer DEF Placed
  <2>5. \A e \in Cpus : local'[e] = <<t>> <=> e = c
    BY <1>6, <2>4
  <2>6. /\ \A e \in Cpus :
              /\ InLocal(c) = InLocal(e) <=> local'[e] = <<t>>
              /\ InLocal(c) = OnCpu(e) <=> running'[e] = t
              /\ InLocal(c) = InHandler(e) <=> Handling(e, t)'
        /\ InLocal(c) = Nowhere <=> state'[t] # "runnable"
        /\ \A u \in Tasks \ {t} : state'[u] = state[u]
    <3>1. state[t] = "runnable"
      BY <1>1, <1>15, PlacesDiffer DEF Placed
    <3> QED BY <1>4, <2>3, <2>4, <2>5, <3>1, PlacesDiffer
  <2>7. \A u \in Tasks \ {t}, e \in Cpus :
            /\ local'[e] = <<u>> <=> local[e] = <<u>>
            /\ running'[e] = u <=> running[e] = u
            /\ Handling(e, u)' <=> Handling(e, u)
    BY <1>3, <1>4, <1>6, <2>3, Singles
  <2> QED BY <1>1, <2>1, <2>2, <2>6, <2>7, PlacedMoves
<1> QED BY <1>11, <1>12, <1>13, <1>14, <1>17, <1>18 DEF IInv

LEMMA SchedDispatchIInv == ASSUME IInv, NEW c \in Cpus, SchedDispatch(c) PROVE IInv'
<1>1. CASE \E i \in 1..Len(dsq) : FirstAllowed(c, i) /\ TakeAndReturn(c, i)
  BY <1>1, TakeIInv DEF SchedDispatch, FirstAllowed
<1>2. CASE EndRound(c) /\ UNCHANGED <<kind, dsq, core, vtime_now>>
  <2>1. pc[c] = "dispatch" /\ kind # "none"
    BY Registered DEF SchedDispatch
  <2> QED BY <1>2, <2>1, EndRoundQuiet
<1> QED BY <1>1, <1>2 DEF SchedDispatch

LEMMA MoveIInv == ASSUME IInv, NEW c \in Cpus, Move(c) PROVE IInv'
<1>1. pc[c] = "move" /\ kind # "none" /\ local[c] = <<>> /\ kind \in Lotteries
  BY Registered DEF Move, IInv, CpuOK
<1>2. CASE \E i \in 1..Len(dsq) : dsq[i] = frame[c].task /\ TakeAndReturn(c, i)
  <2>1. PICK i \in 1..Len(dsq) : dsq[i] = frame[c].task /\ TakeAndReturn(c, i)
    BY <1>2
  <2>2. c \in Allowed[dsq[i]]
    BY <1>1, <2>1, QueueElements DEF IInv, AllowedOK
  <2> QED BY <1>1, <2>1, <2>2, TakeIInv
<1>3. CASE /\ pc' = [pc EXCEPT ![c] = "visit"]
           /\ UNCHANGED <<kind, dsq, core, clock, frame, lot>>
  <2>1. PICK p \in Pcs \ {"enqueue"} :
            pc' = [pc EXCEPT ![c] = p] /\ p # "pick" /\ p # "move" /\ p # "sum"
    <3>1. /\ "visit" \in Pcs \ {"enqueue"}
          /\ "visit" # "pick" /\ "visit" # "move" /\ "visit" # "sum"
      BY DEF Pcs
    <3> QED BY <1>3, <3>1
  <2>2. PICK f \in Frames : frame' = [frame EXCEPT ![c] = f]
    BY <1>3, FrameStays DEF IInv
  <2> QED BY <1>1, <1>3, <2>1, <2>2, QuietPc
<1> QED BY <1>2, <1>3 DEF Move

LEMMA NextIInv == IInv /\ [Next]_vars => IInv'
<1> SUFFICES ASSUME IInv, [Next]_vars PROVE IInv'
  OBVIOUS
<1>1. CASE UNCHANGED vars
  <2>1. PICK pl : Placed(pl)
    BY DEF IInv
  <2>2. Placed(pl)'
    BY <1>1, <2>1 DEF Placed, Holds, Handling, vars, core, clock
  <2> QED BY <1>1, <2>2
          DEF IInv, Types, CpuOK, KindOK, AllowedOK, KeysOK, PrioKey, ClockOK,
              vars, core, clock
<1>2. CASE SchedInit
  BY <1>2, SchedInitIInv
<1>3. ASSUME NEW t \in Tasks, SchedEnable(t) \/ Reap(t) PROVE IInv'
  BY <1>3, SchedEnableIInv, ReapIInv
<1>4. ASSUME NEW c \in Cpus, NEW t \in Tasks, Wake(c, t) \/ WakeToIdle(c, t) PROVE IInv'
  BY <1>4, WakeIInv, WakeToIdleIInv
<1>5. ASSUME NEW c \in Cpus, CpuStep(c) PROVE IInv'
  BY <1>5, SchedEnqueueIInv, SchedDispatchIInv, PickIInv, StartSumIInv,
     AddWeightIInv, DrawIInv, IterateIInv, VisitIInv, MoveIInv DEF CpuStep
<1>6. ASSUME NEW c \in Cpus, Tick(c) \/ Resched(c) \/ Sleep(c) PROVE IInv'
  BY <1>6, TickIInv, ReschedIInv, SleepIInv
<1> QED BY <1>1, <1>2, <1>3, <1>4, <1>5, <1>6 DEF Next

LEMMA Invariance == Spec => []IInv
  BY InitIInv, NextIInv, PTL DEF Spec
-----------------------------------------------------------------------------
(* One place.                                                              *)

LEMMA LocalContains ==
    ASSUME IInv, NEW c \in Cpus, NEW t \in Tasks
    PROVE  Contains(local[c], t) <=> local[c] = <<t>>
<1>1. CASE local[c] = <<>>
  BY <1>1, EmptySeq DEF Contains
<1>2. ASSUME NEW u \in Tasks, local[c] = <<u>>
      PROVE  Contains(local[c], t) <=> local[c] = <<t>>
  <2>1. Len(<<u>>) = 1 /\ <<u>>[1] = u /\ 1..1 = {1}
    OBVIOUS
  <2> QED BY <1>2, <2>1, Singles DEF Contains
<1> QED BY <1>1, <1>2 DEF IInv, CpuOK

LEMMA OnePosition == IInv => OnePlace
<1> SUFFICES ASSUME IInv, NEW t \in Tasks
             PROVE  Cardinality(Positions(t)) = IF state[t] = "runnable" THEN 1 ELSE 0
  BY DEF OnePlace
<1>1. PICK pl : Placed(pl)
  BY DEF IInv
<1> DEFINE D == {<<"dsq", i>> : i \in {i \in 1..Len(dsq) : dsq[i] = t}}
           L == {<<"local", c>> : c \in {c \in Cpus : Contains(local[c], t)}}
           R == {<<"cpu", c>> : c \in {c \in Cpus : running[c] = t}}
           H == {<<"enqueue", c>> : c \in {c \in Cpus : /\ pc[c] = "enqueue"
                                                       /\ frame[c].task = t
                                                       /\ running[c] # t}}
<1>2. Positions(t) = D \cup L \cup R \cup H
  BY DEF Positions
<1>3. /\ \A c \in Cpus : Contains(local[c], t) <=> pl[t] = InLocal(c)
      /\ \A c \in Cpus : running[c] = t <=> pl[t] = OnCpu(c)
      /\ \A c \in Cpus : (/\ pc[c] = "enqueue"
                          /\ frame[c].task = t
                          /\ running[c] # t) <=> pl[t] = InHandler(c)
      /\ state[t] = "runnable" <=> pl[t] # Nowhere
  BY <1>1, LocalContains DEF Placed, Handling
<1>4. pl[t] # InDsq => D = {}
  BY <1>1 DEF Placed, Holds
<1>5. /\ (\A c \in Cpus : pl[t] # InLocal(c)) => L = {}
      /\ (\A c \in Cpus : pl[t] # OnCpu(c)) => R = {}
      /\ (\A c \in Cpus : pl[t] # InHandler(c)) => H = {}
  BY <1>3
<1>6. CASE pl[t] = Nowhere
  <2>1. Positions(t) = {}
    BY <1>2, <1>4, <1>5, <1>6, PlacesDiffer
  <2> QED BY <1>3, <1>6, <2>1, FS_EmptySet
<1>7. ASSUME pl[t] # Nowhere PROVE \E p : Positions(t) = {p}
  <2>1. CASE pl[t] = InDsq
    <3>1. L = {} /\ R = {} /\ H = {}
      BY <1>5, <2>1, PlacesDiffer
    <3>2. PICK k \in 1..Len(dsq) : dsq[k] = t
      BY <1>1, <2>1 DEF Placed, Holds
    <3>3. {i \in 1..Len(dsq) : dsq[i] = t} = {k}
      BY <1>1, <3>2 DEF Placed, Holds
    <3>4. D = {<<"dsq", k>>}
      BY <3>3
    <3> QED BY <1>2, <3>1, <3>4
  <2>2. ASSUME NEW c \in Cpus, pl[t] = InLocal(c) PROVE \E p : Positions(t) = {p}
    <3>1. D = {} /\ R = {} /\ H = {}
      BY <1>4, <1>5, <2>2, PlacesDiffer
    <3>2. {e \in Cpus : Contains(local[e], t)} = {c}
      BY <1>3, <2>2, PlacesDiffer
    <3>3. L = {<<"local", c>>}
      BY <3>2
    <3> QED BY <1>2, <3>1, <3>3
  <2>3. ASSUME NEW c \in Cpus, pl[t] = OnCpu(c) PROVE \E p : Positions(t) = {p}
    <3>1. D = {} /\ L = {} /\ H = {}
      BY <1>4, <1>5, <2>3, PlacesDiffer
    <3>2. {e \in Cpus : running[e] = t} = {c}
      BY <1>3, <2>3, PlacesDiffer
    <3>3. R = {<<"cpu", c>>}
      BY <3>2
    <3> QED BY <1>2, <3>1, <3>3
  <2>4. ASSUME NEW c \in Cpus, pl[t] = InHandler(c) PROVE \E p : Positions(t) = {p}
    <3>1. D = {} /\ L = {} /\ R = {}
      BY <1>4, <1>5, <2>4, PlacesDiffer
    <3>2. {e \in Cpus : /\ pc[e] = "enqueue"
                        /\ frame[e].task = t
                        /\ running[e] # t} = {c}
      BY <1>3, <2>4, PlacesDiffer
    <3>3. H = {<<"enqueue", c>>}
      BY <3>2
    <3> QED BY <1>2, <3>1, <3>3
  <2>5. pl[t] \in Places
    BY <1>1 DEF Placed
  <2> QED BY <1>7, <2>1, <2>2, <2>3, <2>4, <2>5 DEF Places
<1>8. CASE pl[t] # Nowhere
  <2>1. PICK p : Positions(t) = {p}
    BY <1>7, <1>8
  <2> QED BY <1>3, <1>8, <2>1, FS_Singleton
<1> QED BY <1>6, <1>8

\* No interleaving of wakeups, expired slices and the unlocked walks of the
\* lotteries loses a task, or has two CPUs take one.
THEOREM PlacesStayOne == Spec => []OnePlace
  BY Invariance, OnePosition, PTL
-----------------------------------------------------------------------------
(* The order the sorted queue is served in.                                *)

LEMMA TakesLeast ==
    ASSUME IInv, Next, kind \in {"prio", "vtime"},
           NEW c \in Cpus, NEW t \in Tasks, NEW u \in Tasks, TakesBefore(c, t, u)
    PROVE  /\ vtime[t] <= vtime[u]
           /\ kind = "prio" => vtime[t] = PrioKey(t) /\ vtime[u] = PrioKey(u)
<1>1. PICK pl : Placed(pl)
  BY DEF IInv
<1>2. PICK m \in 1..Len(dsq) : dsq[m] = t
  BY DEF TakesBefore, Contains
<1>3. PICK n \in 1..Len(dsq) : dsq[n] = u
  BY DEF TakesBefore, Contains
<1>4. c \in Allowed[u] /\ Contains(local'[c], t)
  BY DEF TakesBefore
<1>5. pl[t] = InDsq /\ state[t] = "runnable" /\ ~Contains(local[c], t)
  BY <1>1, <1>2, LocalContains, PlacesDiffer DEF Placed, Holds
<1>6. ~Contains(<<>>, t)
  BY EmptySeq DEF Contains
<1>7. ASSUME NEW e \in Cpus, NEW s \in Tasks, WakeToIdle(e, s) PROVE FALSE
  <2>1. local'[c] \in {local[c], <<s>>} /\ s # t
    BY <1>5, <1>7 DEF WakeToIdle, IInv, Types
  <2>2. ~Contains(<<s>>, t)
    <3>1. Len(<<s>>) = 1 /\ <<s>>[1] = s /\ 1..1 = {1}
      OBVIOUS
    <3> QED BY <2>1, <3>1 DEF Contains
  <2> QED BY <1>4, <1>5, <2>1, <2>2
<1>8. ASSUME NEW e \in Cpus, Pick(e) PROVE FALSE
  <2>1. local'[c] \in {local[c], <<>>}
    <3>1. PICK s \in Tasks : local[e] \in {<<>>, <<s>>}
      BY <1>8 DEF IInv, CpuOK
    <3>2. local[e] = <<>> => local' = local
      BY <1>8 DEF Pick
    <3>3. local[e] = <<s>> => local' = [local EXCEPT ![e] = <<>>]
      BY <1>8, Singles DEF Pick
    <3>4. local \in [Cpus -> Seq(Tasks)]
      BY DEF IInv, Types
    <3> QED BY <3>1, <3>2, <3>3, <3>4
  <2> QED BY <1>4, <1>5, <1>6, <2>1
<1>9. ASSUME NEW e \in Cpus, SchedDispatch(e) PROVE vtime[t] <= vtime[u]
  <2>1. PICK i \in 1..Len(dsq) : FirstAllowed(e, i) /\ TakeAndReturn(e, i)
    BY <1>4, <1>5, <1>9 DEF SchedDispatch, core
  <2>2. local[e] = <<>> /\ dsq[i] \in Tasks
    BY <1>9, QueueElements DEF SchedDispatch, IInv, CpuOK
  <2>3. local' = [local EXCEPT ![e] = <<dsq[i]>>]
    BY <2>1, <2>2, Singles DEF TakeAndReturn, IInv, Types
  <2>4. e = c /\ dsq[i] = t
    <3>1. e = c /\ local'[c] = <<dsq[i]>>
      BY <1>4, <1>5, <2>3 DEF IInv, Types
    <3>2. Len(<<dsq[i]>>) = 1 /\ <<dsq[i]>>[1] = dsq[i] /\ 1..1 = {1}
      OBVIOUS
    <3> QED BY <1>4, <3>1, <3>2 DEF Contains
  <2>5. i <= n /\ i \in Int /\ n \in Int
    <3>1. Len(dsq) \in Nat
      BY QueueElements DEF IInv
    <3> QED BY <1>3, <1>4, <2>1, <2>4, <3>1 DEF FirstAllowed
  <2>6. CASE i = n
    <3>1. vtime[t] \in Int
      BY DEF IInv, Types
    <3> QED BY <1>3, <2>4, <2>6, <3>1
  <2>7. CASE i < n
    BY <1>3, <2>4, <2>7 DEF IInv, KeysOK
  <2> QED BY <2>5, <2>6, <2>7
<1>10. ASSUME NEW e \in Cpus, Move(e) PROVE FALSE
  BY <1>10 DEF Move, IInv, CpuOK, Lotteries
<1>11. CASE UNCHANGED local
  BY <1>4, <1>5, <1>11
<1>12. vtime[t] <= vtime[u]
  BY <1>7, <1>8, <1>9, <1>10, <1>11
     DEF Next, CpuStep, SchedInit, SchedEnable, Reap, Wake, SchedEnqueue, StartSum,
         AddWeight, Draw, DrawBelow, Iterate, Visit, Tick, Resched, Sleep, core
<1> QED BY <1>2, <1>3, <1>12 DEF IInv, KeysOK

\* vtime.bpf.c serves the task that was charged least.
THEOREM LeastCharged == Spec => LeastChargedFirst
<1>1. IInv /\ [Next]_vars =>
        [\A c \in Cpus, t, u \in Tasks :
            kind = "vtime" /\ TakesBefore(c, t, u) => vtime[t] <= vtime[u]]_vars
  BY TakesLeast
<1> QED BY <1>1, Invariance, PTL DEF Spec, LeastChargedFirst

\* prio.bpf.c serves the heavier task first, up to the weight of nice 0.
THEOREM Heaviest == Spec => HeaviestFirst
<1>1. ASSUME IInv, Next, NEW c \in Cpus, NEW t \in Tasks, NEW u \in Tasks,
             kind = "prio", TakesBefore(c, t, u),
             Weight[t] <= NiceZero, Weight[u] <= NiceZero
      PROVE  Weight[u] <= Weight[t]
  <2>1. PrioKey(t) <= PrioKey(u)
    BY <1>1, TakesLeast
  <2>2. \A w \in 0..NiceZero : (NiceZero - w) % U32 = NiceZero - w
    <3>1. NiceZero \in Nat /\ U32 \in Nat /\ NiceZero < U32
      BY MiniAssumption
    <3>2. \A n \in 0..(U32 - 1) : n % U32 = n
      BY <3>1
    <3>3. \A w \in 0..NiceZero : NiceZero - w \in 0..(U32 - 1)
      BY <3>1
    <3> QED BY <3>2, <3>3
  <2>3. Weight[t] \in 0..NiceZero /\ Weight[u] \in 0..NiceZero /\ NiceZero \in Nat
    BY <1>1, MiniAssumption
  <2>4. PrioKey(t) = NiceZero - Weight[t] /\ PrioKey(u) = NiceZero - Weight[u]
    BY <2>2, <2>3 DEF PrioKey
  <2> QED BY <2>1, <2>3, <2>4
<1>2. IInv /\ [Next]_vars =>
        [\A c \in Cpus, t, u \in Tasks :
            /\ kind = "prio" /\ TakesBefore(c, t, u)
            /\ Weight[t] <= NiceZero /\ Weight[u] <= NiceZero
            => Weight[u] <= Weight[t]]_vars
  BY <1>1
<1> QED BY <1>2, Invariance, PTL DEF Spec, HeaviestFirst
-----------------------------------------------------------------------------
(* The policies implement TaskLifecycle.                                   *)

status == [t \in Tasks |-> Status(t)]

\* The status of a task on a CPU, and of one on none.
StatusOn(t) ==
    \A c \in Cpus : running[c] = t => Status(t) = <<"cpu", c>> /\ state[t] = "runnable"

StatusOff(t) ==
    (\A c \in Cpus : running[c] # t) =>
        Status(t) = IF state[t] = "runnable" THEN <<"ready">> ELSE <<"asleep">>

LEMMA StatusIs == IInv => \A t \in Tasks : StatusOn(t) /\ StatusOff(t)
<1> SUFFICES ASSUME IInv, NEW t \in Tasks PROVE StatusOn(t) /\ StatusOff(t)
  OBVIOUS
<1>1. PICK pl : Placed(pl)
  BY DEF IInv
<1>2. ASSUME NEW c \in Cpus, running[c] = t
      PROVE  Status(t) = <<"cpu", c>> /\ state[t] = "runnable"
  <2>1. pl[t] = OnCpu(c)
    BY <1>1, <1>2 DEF Placed
  <2>2. \A e \in Cpus : running[e] = t <=> e = c
    BY <1>1, <2>1, PlacesDiffer DEF Placed
  <2>3. (CHOOSE e \in Cpus : running[e] = t) = c
    BY <2>2
  <2> QED BY <1>1, <1>2, <2>1, <2>3, PlacesDiffer DEF Status, Placed
<1> QED BY <1>2 DEF Status, StatusOn, StatusOff

LEMMA StatusIsNext == (IInv => \A t \in Tasks : StatusOn(t) /\ StatusOff(t))'
  BY StatusIs, PTL

LEMMA StatusStays ==
    ASSUME IInv, running' = running,
           \A t \in Tasks : state'[t] = "runnable" <=> state[t] = "runnable"
    PROVE  UNCHANGED status
  BY DEF status, Status

LEMMA StatusMoves ==
    ASSUME NEW t \in Tasks, NEW v, Status(t)' = v,
           \A u \in Tasks \ {t} : Status(u)' = Status(u)
    PROVE  status' = [status EXCEPT ![t] = v]
<1>1. \A u \in Tasks : Status(u)' = IF u = t THEN v ELSE Status(u)
  OBVIOUS
<1> QED BY <1>1 DEF status

\* Task t alone is concerned when only its state and its CPU change.
LEMMA StatusOthers ==
    ASSUME IInv, NEW t \in Tasks,
           \A u \in Tasks \ {t}, c \in Cpus : running'[c] = u <=> running[c] = u,
           \A u \in Tasks \ {t} : state'[u] = state[u]
    PROVE  \A u \in Tasks \ {t} : Status(u)' = Status(u)
<1> SUFFICES ASSUME NEW u \in Tasks \ {t} PROVE Status(u)' = Status(u)
  OBVIOUS
<1>1. (CHOOSE c \in Cpus : running'[c] = u) = (CHOOSE c \in Cpus : running[c] = u)
  BY Zenon
<1>2. (\E c \in Cpus : running'[c] = u) <=> (\E c \in Cpus : running[c] = u)
  OBVIOUS
<1> QED BY <1>1, <1>2 DEF Status

USE DEF Lifecycle!SleepingS, Lifecycle!ReadyS, Lifecycle!On, Lifecycle!Become

LEMMA WakesUp ==
    ASSUME IInv, IInv', NEW t \in Tasks, state[t] = "asleep",
           state' = [state EXCEPT ![t] = "runnable"], running' = running
    PROVE  Lifecycle!Next
<1>1. \A c \in Cpus : running[c] # t
  BY StatusIs DEF StatusOn
<1>2. /\ state'[t] = "runnable"
      /\ \A u \in Tasks \ {t} : state'[u] = state[u]
  BY DEF IInv, Types
<1>3. Status(t) = <<"asleep">>
  BY <1>1, StatusIs DEF StatusOff
<1>4. Status(t)' = <<"ready">>
  BY <1>1, <1>2, StatusIsNext DEF StatusOff
<1>5. status' = [status EXCEPT ![t] = <<"ready">>]
  BY <1>2, <1>4, StatusOthers, StatusMoves
<1>6. Lifecycle!WakeUp(t)
  BY <1>3, <1>5 DEF Lifecycle!WakeUp, status
<1> QED BY <1>6 DEF Lifecycle!Next

LEMMA LeavesCpu ==
    ASSUME IInv, IInv', NEW c \in Cpus, NEW t \in Tasks, running[c] = t,
           running' = [running EXCEPT ![c] = NoTask],
           \A u \in Tasks \ {t} : state'[u] = state[u]
    PROVE  Lifecycle!Next
<1>1. Status(t) = <<"cpu", c>>
  BY StatusIs DEF StatusOn
<1>2. \A e \in Cpus : running[e] = t => e = c
  <2>1. \A e \in Cpus : running[e] = t => Status(t) = <<"cpu", e>>
    BY StatusIs DEF StatusOn
  <2> QED BY <1>1, <2>1
<1>3. NoTask \notin Tasks
  BY MiniAssumption
<1>4. \A e \in Cpus : running'[e] # t
  BY <1>2, <1>3 DEF IInv, Types
<1>5. \A u \in Tasks \ {t}, e \in Cpus : running'[e] = u <=> running[e] = u
  BY <1>3 DEF IInv, Types
<1>6. Status(t)' \in {<<"ready">>, <<"asleep">>}
  BY <1>4, StatusIsNext DEF StatusOff
<1>7. PICK v \in {<<"ready">>, <<"asleep">>} : status' = [status EXCEPT ![t] = v]
  BY <1>5, <1>6, StatusOthers, StatusMoves
<1>8. Lifecycle!Preempt(t) \/ Lifecycle!Block(t)
  BY <1>1, <1>7 DEF Lifecycle!Preempt, Lifecycle!Block, status
<1> QED BY <1>8 DEF Lifecycle!Next

LEMMA GoesOnCpu ==
    ASSUME IInv, IInv', NEW c \in Cpus, NEW t \in Tasks, local[c] = <<t>>,
           running[c] = NoTask, running' = [running EXCEPT ![c] = t], state' = state
    PROVE  Lifecycle!Next
<1>1. PICK pl : Placed(pl)
  BY DEF IInv
<1>2. pl[t] = InLocal(c)
  BY <1>1 DEF Placed
<1>3. state[t] = "runnable" /\ \A e \in Cpus : running[e] # t
  BY <1>1, <1>2, PlacesDiffer DEF Placed
<1>4. Status(t) = <<"ready">>
  BY <1>3, StatusIs DEF StatusOff
<1>5. running'[c] = t /\ \A e \in Cpus \ {c} : running'[e] = running[e]
  BY DEF IInv, Types
<1>6. Status(t)' = <<"cpu", c>>
  BY <1>5, StatusIsNext DEF StatusOn
<1>7. \A u \in Tasks \ {t}, e \in Cpus : running'[e] = u <=> running[e] = u
  BY <1>5, MiniAssumption
<1>8. status' = [status EXCEPT ![t] = <<"cpu", c>>]
  BY <1>6, <1>7, StatusOthers, StatusMoves
<1>9. c \in Allowed[t]
  BY DEF IInv, AllowedOK
<1>10. ASSUME NEW u \in Tasks, Status(u) = <<"cpu", c>> PROVE FALSE
  <2>1. running[c] # u
    BY MiniAssumption
  <2>2. CASE \E e \in Cpus : running[e] = u
    <3>1. PICK e \in Cpus : running[e] = u
      BY <2>2
    <3>2. Status(u) = <<"cpu", e>>
      BY <3>1, StatusIs DEF StatusOn
    <3> QED BY <1>10, <2>1, <3>1, <3>2
  <2>3. CASE \A e \in Cpus : running[e] # u
    <3>1. Status(u) \in {<<"ready">>, <<"asleep">>}
      BY <2>3, StatusIs DEF StatusOff
    <3> QED BY <1>10, <3>1
  <2> QED BY <2>2, <2>3
<1>11. Lifecycle!Run(t, c)
  BY <1>4, <1>8, <1>9, <1>10 DEF Lifecycle!Run, status
<1> QED BY <1>11 DEF Lifecycle!Next

LEMMA StepRefines == IInv /\ IInv' /\ [Next]_vars => [Lifecycle!Next]_status
<1> SUFFICES ASSUME IInv, IInv', [Next]_vars PROVE [Lifecycle!Next]_status
  OBVIOUS
<1>1. CASE running' = running /\ state' = state
  BY <1>1, StatusStays
<1>2. ASSUME NEW t \in Tasks, SchedEnable(t) \/ Reap(t) PROVE UNCHANGED status
  <2>1. /\ running' = running
        /\ \A u \in Tasks : state'[u] = "runnable" <=> state[u] = "runnable"
    BY <1>2 DEF SchedEnable, Reap, IInv, Types
  <2> QED BY <2>1, StatusStays
<1>3. ASSUME NEW c \in Cpus, NEW t \in Tasks, Wake(c, t) \/ WakeToIdle(c, t)
      PROVE  Lifecycle!Next
  BY <1>3, WakesUp DEF Wake, WakeToIdle
<1>4. ASSUME NEW c \in Cpus, SchedEnqueue(c) PROVE [Lifecycle!Next]_status
  <2>1. PICK t \in Tasks : t = frame[c].task
    BY <1>4 DEF SchedEnqueue, IInv, CpuOK
  <2>2. /\ running' = [running EXCEPT ![c] = IF running[c] = t THEN NoTask ELSE running[c]]
        /\ state' = state
    BY <1>4, <2>1 DEF SchedEnqueue
  <2>3. CASE running[c] = t
    BY <2>2, <2>3, LeavesCpu
  <2>4. CASE running[c] # t
    <3>1. running' = running
      BY <2>2, <2>4 DEF IInv, Types
    <3> QED BY <2>2, <3>1, StatusStays
  <2> QED BY <2>3, <2>4
<1>5. ASSUME NEW c \in Cpus, Sleep(c) PROVE Lifecycle!Next
  <2>1. PICK t \in Tasks : running[c] = t
    BY <1>5 DEF Sleep, IInv, Types
  <2>2. /\ running' = [running EXCEPT ![c] = NoTask]
        /\ \A u \in Tasks \ {t} : state'[u] = state[u]
    BY <1>5, <2>1 DEF Sleep, IInv, Types
  <2> QED BY <2>1, <2>2, LeavesCpu
<1>6. ASSUME NEW c \in Cpus, Pick(c) PROVE [Lifecycle!Next]_status
  <2>1. running[c] = NoTask /\ state' = state
    BY <1>6 DEF Pick, IInv, CpuOK
  <2>2. CASE local[c] = <<>>
    <3>1. running' = running
      BY <1>6, <2>2 DEF Pick
    <3> QED BY <2>1, <3>1, StatusStays
  <2>3. CASE local[c] # <<>>
    <3>1. PICK t \in Tasks : local[c] = <<t>>
      BY <2>3 DEF IInv, CpuOK
    <3>2. running' = [running EXCEPT ![c] = t]
      BY <1>6, <2>3, <3>1, Singles DEF Pick
    <3> QED BY <2>1, <3>1, <3>2, GoesOnCpu
  <2> QED BY <2>2, <2>3
<1>7. ASSUME NEW c \in Cpus, NEW i \in 1..Len(dsq), TakeAndReturn(c, i)
      PROVE  running' = running /\ state' = state
  BY <1>7 DEF TakeAndReturn
<1> QED BY <1>1, <1>2, <1>3, <1>4, <1>5, <1>6, <1>7
        DEF Next, CpuStep, SchedInit, SchedDispatch, StartSum, AddWeight, Draw,
            DrawBelow, Iterate, Visit, Move, Tick, Resched, vars, core

\* Each of the six policies is a scheduler: no task runs on two CPUs, on one it
\* may not use, or stops being ready without having run.
THEOREM Implements == Spec => ImplementsLifecycle
<1>1. Init => Lifecycle!Init
  <2> SUFFICES ASSUME Init PROVE Lifecycle!Init
    OBVIOUS
  <2>1. \A t \in Tasks : Status(t) = <<"asleep">>
    BY MiniAssumption DEF Init, Status
  <2> QED BY <2>1 DEF Lifecycle!Init
<1>2. IInv /\ IInv' /\ [Next]_vars => [Lifecycle!Next]_[t \in Tasks |-> Status(t)]
  BY StepRefines DEF status
<1> QED BY <1>1, <1>2, Invariance, PTL DEF Spec, ImplementsLifecycle, Lifecycle!Spec
-----------------------------------------------------------------------------
(* Types: what TypeOK says beyond Types.                                   *)

\* The keys a task may have under the registered policy.
Keys == IF kind = "prio" THEN 0..(U32 - 1) ELSE 0..MaxVtime

\* Only prio.bpf.c and vtime.bpf.c give a task a key other than 0.
KeyRange ==
    /\ vtime \in [Tasks -> Keys]
    /\ kind \notin {"prio", "vtime"} => \A t \in Tasks : vtime[t] = 0

\* A task whose slice ended can be charged all of it when the round ends: what
\* other CPUs do meanwhile does not charge it.
CanCharge ==
    \A c \in Cpus :
        pc[c] = "dispatch" /\ running[c] \in Tasks => WithinBound(running[c], SLICE)

RestOK ==
    /\ kind \in Kinds \cup {"none"}
    /\ endless \subseteq Tasks
    /\ lot \in [Cpus -> [random : Int, n : Nat]]

TypeInv == IInv /\ KeyRange /\ CanCharge /\ RestOK

LEMMA ZeroIsKey == 0 \in 0..(U32 - 1) /\ 0 \in 0..MaxVtime /\ 0 \in Keys
  BY MiniAssumption DEF Keys

\* The key a task gets when it is enqueued.
LEMMA EnqueuedKey ==
    ASSUME IInv, KeyRange, NEW t \in Tasks
    PROVE  /\ KeyOf(t) \in Keys
           /\ kind \notin {"prio", "vtime"} => KeyOf(t) = 0
<1>1. CASE kind = "prio"
  <2>1. U32 \in Nat \ {0} /\ NiceZero - Weight[t] \in Int
    BY MiniAssumption
  <2>2. \A a \in Int : a % U32 \in 0..(U32 - 1)
    BY <2>1
  <2> QED BY <1>1, <2>1, <2>2 DEF KeyOf, PrioKey, Keys
<1>2. CASE kind = "vtime"
  <2>1. vtime[t] \in Int /\ (vtime_now - SLICE) % U64 \in Int
    <3>1. U64 \in Nat \ {0} /\ vtime_now - SLICE \in Int
      BY MiniAssumption DEF IInv, ClockOK
    <3> QED BY <3>1 DEF IInv, Types
  <2>2. VtimeKey(t) = vtime[t]
    BY <2>1, NeverSmaller DEF VtimeKey
  <2> QED BY <1>2, <2>2 DEF KeyOf, KeyRange
<1>3. CASE kind \notin {"prio", "vtime"}
  BY <1>3 DEF KeyOf, KeyRange
<1> QED BY <1>1, <1>2, <1>3

\* The keys after a task was charged for what it used.
LEMMA ChargedKeys ==
    ASSUME IInv, KeyRange, NEW t \in Tasks, NEW n \in Nat, Stopping(t, n),
           WithinBound(t, n), kind' = kind
    PROVE  KeyRange'
<1>1. CASE kind # "vtime"
  BY <1>1 DEF Stopping, KeyRange, Keys
<1>2. CASE kind = "vtime"
  <2>1. vtime[t] \in Nat /\ NiceZero \in Nat /\ Weight[t] \in Nat \ {0}
    BY <1>2, MiniAssumption DEF KeyRange, Keys
  <2>2. n * NiceZero \in Nat
    BY <2>1
  <2>3. (n * NiceZero) \div Weight[t] \in Nat
    <3>1. \A a \in Nat, b \in Nat \ {0} : a \div b \in Nat
      OBVIOUS
    <3> QED BY <2>1, <2>2, <3>1
  <2>4. Charge(t, n) \in Nat /\ Charge(t, n) <= MaxVtime
    BY <1>2, <2>1, <2>3 DEF Charge, WithinBound
  <2>5. vtime' = [vtime EXCEPT ![t] = Charge(t, n)] /\ MaxVtime \in Nat
    BY <1>2, MiniAssumption DEF Stopping
  <2> HIDE DEF Charge
  <2> QED BY <1>2, <2>4, <2>5 DEF KeyRange, Keys
<1> QED BY <1>1, <1>2

\* A task that is not executed by CPU c keeps its key when c charges.
LEMMA ChargesOwn ==
    ASSUME IInv, NEW c \in Cpus, NEW t \in Tasks, running[c] = t, NEW n \in Nat,
           Stopping(t, n), NEW e \in Cpus \ {c}, running[e] \in Tasks
    PROVE  vtime'[running[e]] = vtime[running[e]]
<1>1. PICK pl : Placed(pl)
  BY DEF IInv
<1>2. running[e] # t
  BY <1>1, PlacesDiffer DEF Placed
<1> QED BY <1>2, StoppingTypes DEF IInv

\* A step of CPU e that keeps the other CPUs' rounds.
LEMMA CanChargeNext ==
    ASSUME CanCharge, kind' = kind, NEW e \in Cpus,
           \A c \in Cpus \ {e} : /\ pc'[c] = pc[c] /\ running'[c] = running[c]
                                 /\ running[c] \in Tasks =>
                                       vtime'[running[c]] = vtime[running[c]],
           pc'[e] = "dispatch" /\ running'[e] \in Tasks =>
              /\ running'[e] = running[e] /\ vtime' = vtime
              /\ WithinBound(running[e], SLICE)
    PROVE  CanCharge'
<1> SUFFICES ASSUME NEW c \in Cpus, pc'[c] = "dispatch", running'[c] \in Tasks
             PROVE  WithinBound(running[c], SLICE)' /\ running'[c] = running[c]
  BY DEF CanCharge, WithinBound, Charge
<1>1. /\ running'[c] = running[c] /\ vtime'[running[c]] = vtime[running[c]]
      /\ WithinBound(running[c], SLICE)
  <2>1. CASE c = e
    BY <2>1
  <2>2. CASE c # e
    BY <2>2 DEF CanCharge
  <2> QED BY <2>1, <2>2
<1> QED BY <1>1 DEF WithinBound, Charge

\* Rounds end on a CPU whose task can be charged.
LEMMA RoundEndCharges ==
    ASSUME TypeInv, NEW c \in Cpus, kind' = kind, running' = running,
           \/ EndRound(c) \/ \E i \in 1..Len(dsq) : TakeAndReturn(c, i),
           pc[c] # "enqueue",
           running[c] \in Tasks => WithinBound(running[c], SLICE)
    PROVE  KeyRange' /\ CanCharge'
<1> USE DEF TypeInv
<1>1. /\ \A e \in Cpus \ {c} : pc'[e] = pc[e]
      /\ pc'[c] # "dispatch"
  BY DEF EndRound, TakeAndReturn, IInv, Types
<1>2. CASE running[c] = NoTask
  <2>1. vtime' = vtime
    BY <1>2 DEF EndRound, TakeAndReturn
  <2>2. KeyRange'
    BY <2>1 DEF KeyRange, Keys
  <2> QED BY <1>1, <2>1, <2>2, CanChargeNext
<1>3. CASE running[c] \in Tasks
  <2>1. Stopping(running[c], SLICE) /\ SLICE \in Nat
    BY <1>3, MiniAssumption DEF EndRound, TakeAndReturn
  <2>2. KeyRange'
    BY <1>3, <2>1, ChargedKeys
  <2>3. \A e \in Cpus \ {c} : running[e] \in Tasks => vtime'[running[e]] = vtime[running[e]]
    BY <1>3, <2>1, ChargesOwn
  <2> QED BY <1>1, <2>2, <2>3, CanChargeNext
<1>4. running[c] = NoTask \/ running[c] \in Tasks
  BY DEF IInv, Types
<1> QED BY <1>2, <1>3, <1>4

\* Only vtime.bpf.c charges.
LEMMA LotteriesFree ==
    ASSUME kind # "vtime", NEW t PROVE WithinBound(t, SLICE)
  BY DEF WithinBound

LEMMA KeysSleeping ==
    ASSUME TypeInv, NEW t \in Tasks, state[t] # "runnable",
           vtime' = [vtime EXCEPT ![t] = 0], UNCHANGED <<kind, running, pc>>
    PROVE  KeyRange' /\ CanCharge'
<1>1. KeyRange'
  BY ZeroIsKey DEF TypeInv, KeyRange, Keys
<1>2. PICK pl : Placed(pl)
  BY DEF TypeInv, IInv
<1>3. \A c \in Cpus : running[c] # t
  BY <1>2, PlacesDiffer DEF Placed
<1>4. \A c \in Cpus : running[c] \in Tasks => vtime'[running[c]] = vtime[running[c]]
  BY <1>3 DEF TypeInv, IInv, Types
<1> QED BY <1>1, <1>4 DEF TypeInv, CanCharge, WithinBound, Charge

LEMMA SchedEnqueueKeys ==
    ASSUME TypeInv, NEW c \in Cpus, SchedEnqueue(c) PROVE KeyRange' /\ CanCharge'
<1> USE DEF TypeInv
<1>1. PICK t \in Tasks : t = frame[c].task
  BY DEF SchedEnqueue, IInv, CpuOK
<1>2. /\ vtime' = [vtime EXCEPT ![t] = KeyOf(t)] /\ kind' = kind
      /\ \A e \in Cpus \ {c} : running'[e] = running[e] /\ pc'[e] = pc[e]
      /\ pc'[c] # "dispatch" /\ pc[c] = "enqueue"
  BY <1>1 DEF SchedEnqueue, IInv, Types
<1>3. KeyRange'
  <2>1. KeyOf(t) \in Keys /\ (kind \notin {"prio", "vtime"} => KeyOf(t) = 0)
    BY EnqueuedKey
  <2> HIDE DEF KeyOf
  <2> QED BY <1>2, <2>1 DEF KeyRange, Keys
<1>4. PICK pl : Placed(pl)
  BY DEF IInv
<1>5. \A e \in Cpus \ {c} : running[e] # t
  <2>1. CASE running[c] = t
    BY <1>4, <2>1, PlacesDiffer DEF Placed
  <2>2. CASE running[c] # t
    <3>1. pl[t] = InHandler(c)
      BY <1>1, <1>2, <1>4, <2>2 DEF Placed, Handling
    <3> QED BY <1>4, <3>1, PlacesDiffer DEF Placed
  <2> QED BY <2>1, <2>2
<1>6. \A e \in Cpus \ {c} : running[e] \in Tasks => vtime'[running[e]] = vtime[running[e]]
  BY <1>2, <1>5 DEF IInv, Types
<1> QED BY <1>2, <1>3, <1>6, CanChargeNext

LEMMA SleepKeys ==
    ASSUME TypeInv, NEW c \in Cpus, Sleep(c) PROVE KeyRange' /\ CanCharge'
<1> USE DEF TypeInv
<1>1. PICK t \in Tasks : t = running[c]
  BY DEF Sleep, IInv, Types
<1>2. PICK n \in 0..SLICE : WithinBound(t, n) /\ Stopping(t, n)
  BY <1>1 DEF Sleep
<1>3. n \in Nat /\ kind' = kind
  BY MiniAssumption DEF Sleep
<1>4. /\ \A e \in Cpus \ {c} : running'[e] = running[e] /\ pc'[e] = pc[e]
      /\ running'[c] \notin Tasks
  BY MiniAssumption DEF Sleep, IInv, Types
<1>5. KeyRange'
  BY <1>2, <1>3, ChargedKeys
<1>6. \A e \in Cpus \ {c} : running[e] \in Tasks => vtime'[running[e]] = vtime[running[e]]
  BY <1>1, <1>2, <1>3, ChargesOwn
<1> QED BY <1>3, <1>4, <1>5, <1>6, CanChargeNext

\* Steps that change no key and leave no task where one was not.
LEMMA KeysStay ==
    ASSUME TypeInv, UNCHANGED <<kind, vtime>>, NEW c \in Cpus,
           \A e \in Cpus \ {c} : pc'[e] = pc[e] /\ running'[e] = running[e],
           pc'[c] = "dispatch" /\ running'[c] \in Tasks =>
              running'[c] = running[c] /\ WithinBound(running[c], SLICE)
    PROVE  KeyRange' /\ CanCharge'
<1>1. KeyRange'
  BY DEF TypeInv, KeyRange, Keys
<1> QED BY <1>1, CanChargeNext DEF TypeInv

LEMMA NextKeys ==
    ASSUME TypeInv, [Next]_vars PROVE KeyRange' /\ CanCharge'
<1> USE DEF TypeInv
<1>1. CASE SchedInit
  <2>1. kind = "none" /\ UNCHANGED <<vtime, pc, running>>
    BY <1>1 DEF SchedInit, core, clock
  <2>2. KeyRange'
    <3>1. \A t \in Tasks : vtime[t] = 0
      BY <2>1 DEF KeyRange
    <3>2. vtime \in [Tasks -> 0..(U32 - 1)] /\ vtime \in [Tasks -> 0..MaxVtime]
      BY <3>1, ZeroIsKey DEF IInv, Types
    <3> QED BY <2>1, <3>1, <3>2 DEF KeyRange, Keys
  <2>3. \A c \in Cpus : pc[c] = "cpu"
    BY <2>1 DEF IInv, KindOK
  <2> QED BY <2>1, <2>2, <2>3 DEF CanCharge
<1>2. ASSUME NEW t \in Tasks, SchedEnable(t) \/ Reap(t) PROVE KeyRange' /\ CanCharge'
  BY <1>2, KeysSleeping DEF SchedEnable, Reap, IInv, ClockOK
<1>3. ASSUME NEW c \in Cpus, NEW t \in Tasks, Wake(c, t) \/ WakeToIdle(c, t)
      PROVE  KeyRange' /\ CanCharge'
  BY <1>3, KeysStay DEF Wake, WakeToIdle, clock, IInv, Types
<1>4. ASSUME NEW c \in Cpus, SchedEnqueue(c) PROVE KeyRange' /\ CanCharge'
  BY <1>4, SchedEnqueueKeys
<1>5. ASSUME NEW c \in Cpus, SchedDispatch(c) PROVE KeyRange' /\ CanCharge'
  <2>1. /\ kind' = kind /\ running' = running /\ pc[c] = "dispatch"
        /\ EndRound(c) \/ \E i \in 1..Len(dsq) : TakeAndReturn(c, i)
    BY <1>5 DEF SchedDispatch, TakeAndReturn, core
  <2> QED BY <2>1, RoundEndCharges DEF CanCharge
<1>6. ASSUME NEW c \in Cpus, Visit(c) \/ Move(c) PROVE KeyRange' /\ CanCharge'
  <2>1. /\ kind' = kind /\ running' = running /\ pc[c] # "enqueue" /\ kind # "vtime"
    BY <1>6 DEF Visit, Move, TakeAndReturn, core, IInv, CpuOK, Lotteries
  <2>2. CASE EndRound(c) \/ \E i \in 1..Len(dsq) : TakeAndReturn(c, i)
    BY <2>1, <2>2, RoundEndCharges, LotteriesFree
  <2>3. CASE /\ vtime' = vtime
             /\ \E p \in {"visit", "move"} : pc' = [pc EXCEPT ![c] = p]
    <3>1. /\ \A e \in Cpus \ {c} : pc'[e] = pc[e]
          /\ pc'[c] # "dispatch"
      BY <2>3 DEF IInv, Types
    <3> QED BY <2>1, <2>3, <3>1, KeysStay
  <2> QED BY <1>6, <2>2, <2>3 DEF Visit, VisitNext, Move, clock
<1>7. ASSUME NEW c \in Cpus,
             Pick(c) \/ StartSum(c) \/ AddWeight(c) \/ Draw(c) \/ Iterate(c)
      PROVE  KeyRange' /\ CanCharge'
  <2>1. /\ UNCHANGED <<kind, vtime>> /\ pc'[c] # "dispatch"
        /\ \A e \in Cpus \ {c} : pc'[e] = pc[e] /\ running'[e] = running[e]
    BY <1>7 DEF Pick, StartSum, AddWeight, Draw, DrawBelow, Iterate, core, clock,
            IInv, Types
  <2> QED BY <2>1, KeysStay
<1>8. ASSUME NEW c \in Cpus, Tick(c) PROVE KeyRange' /\ CanCharge'
  <2>1. /\ UNCHANGED <<kind, running>> /\ pc[c] = "cpu"
        /\ WithinBound(running[c], SLICE)
    BY <1>8 DEF Tick, core
  <2>2. CASE EndRound(c)
    BY <2>1, <2>2, RoundEndCharges
  <2>3. CASE pc' = [pc EXCEPT ![c] = "dispatch"] /\ UNCHANGED vtime
    <3>1. \A e \in Cpus \ {c} : pc'[e] = pc[e]
      BY <2>3 DEF IInv, Types
    <3> QED BY <2>1, <2>3, <3>1, KeysStay
  <2> QED BY <1>8, <2>2, <2>3 DEF Tick
<1>9. ASSUME NEW c \in Cpus, Resched(c) PROVE KeyRange' /\ CanCharge'
  <2>1. /\ UNCHANGED <<kind, vtime, running>> /\ running[c] \notin Tasks
        /\ \A e \in Cpus \ {c} : pc'[e] = pc[e]
    BY <1>9, MiniAssumption DEF Resched, core, clock, IInv, Types
  <2> QED BY <2>1, KeysStay
<1>10. ASSUME NEW c \in Cpus, Sleep(c) PROVE KeyRange' /\ CanCharge'
  BY <1>10, SleepKeys
<1>11. CASE UNCHANGED vars
  BY <1>11 DEF vars, core, clock, KeyRange, Keys, CanCharge, WithinBound, Charge
<1>12. ASSUME NEW c \in Cpus, CpuStep(c) PROVE KeyRange' /\ CanCharge'
  BY <1>4, <1>5, <1>6, <1>7, <1>12 DEF CpuStep
<1> DEFINE Kept == KeyRange' /\ CanCharge'
<1>13. /\ SchedInit => Kept
       /\ UNCHANGED vars => Kept
       /\ \A t \in Tasks : SchedEnable(t) \/ Reap(t) => Kept
       /\ \A c \in Cpus, t \in Tasks : Wake(c, t) \/ WakeToIdle(c, t) => Kept
       /\ \A c \in Cpus : CpuStep(c) \/ Tick(c) \/ Resched(c) \/ Sleep(c) => Kept
  BY Zenon, <1>1, <1>2, <1>3, <1>8, <1>9, <1>10, <1>11, <1>12
<1> HIDE DEF Kept
<1>14. Kept
  BY <1>13 DEF Next
<1> QED BY <1>14 DEF Kept

\* One policy is registered, once.
LEMMA KindStays == [Next]_vars => SchedInit \/ kind' = kind
<1>1. ASSUME NEW c \in Cpus, CpuStep(c) PROVE kind' = kind
  <2>1. SchedEnqueue(c) \/ SchedDispatch(c) \/ Pick(c) => kind' = kind
    BY DEF SchedEnqueue, SchedDispatch, TakeAndReturn, Pick
  <2>2. StartSum(c) \/ AddWeight(c) \/ Draw(c) \/ Iterate(c) => kind' = kind
    BY DEF StartSum, AddWeight, Draw, DrawBelow, Iterate
  <2>3. Visit(c) \/ Move(c) => kind' = kind
    BY DEF Visit, Move, TakeAndReturn
  <2> QED BY <1>1, <2>1, <2>2, <2>3 DEF CpuStep
<1>2. ASSUME NEW c \in Cpus, Tick(c) \/ Resched(c) \/ Sleep(c) PROVE kind' = kind
  BY <1>2 DEF Tick, Resched, Sleep
<1>3. ASSUME NEW t \in Tasks, SchedEnable(t) \/ Reap(t) PROVE kind' = kind
  BY <1>3 DEF SchedEnable, Reap
<1>4. ASSUME NEW c \in Cpus, NEW t \in Tasks, Wake(c, t) \/ WakeToIdle(c, t)
      PROVE  kind' = kind
  BY <1>4 DEF Wake, WakeToIdle
<1>5. UNCHANGED vars => kind' = kind
  BY DEF vars
<1> QED BY <1>1, <1>2, <1>3, <1>4, <1>5 DEF Next

LEMMA NextRest == TypeInv /\ [Next]_vars => RestOK'
<1> SUFFICES ASSUME TypeInv, [Next]_vars PROVE RestOK'
  OBVIOUS
<1>1. kind' \in Kinds \cup {"none"}
  BY KindStays DEF TypeInv, RestOK, SchedInit
<1>2. endless' \subseteq Tasks
  <2> USE DEF TypeInv, RestOK
  <2>1. ASSUME NEW c \in Cpus, CpuStep(c) PROVE endless' \subseteq Tasks
    <3>1. SchedEnqueue(c) => endless' \subseteq Tasks
      BY DEF SchedEnqueue, IInv, CpuOK
    <3>2. SchedDispatch(c) \/ Pick(c) => endless' = endless
      BY DEF SchedDispatch, TakeAndReturn, Pick, core
    <3>3. StartSum(c) \/ AddWeight(c) \/ Draw(c) \/ Iterate(c) => endless' = endless
      BY DEF StartSum, AddWeight, Draw, DrawBelow, Iterate, core
    <3>4. Visit(c) \/ Move(c) => endless' = endless
      BY DEF Visit, Move, TakeAndReturn, core
    <3> QED BY <2>1, <3>1, <3>2, <3>3, <3>4 DEF CpuStep
  <2>2. ASSUME NEW c \in Cpus, Tick(c) \/ Resched(c) \/ Sleep(c)
        PROVE  endless' \subseteq Tasks
    BY <2>2 DEF Tick, Resched, Sleep, core
  <2>3. ASSUME NEW c \in Cpus, NEW t \in Tasks, Wake(c, t) \/ WakeToIdle(c, t)
        PROVE  endless' \subseteq Tasks
    BY <2>3 DEF Wake, WakeToIdle
  <2>4. ASSUME NEW t \in Tasks, SchedEnable(t) \/ Reap(t) PROVE endless' \subseteq Tasks
    BY <2>4 DEF SchedEnable, Reap
  <2>5. SchedInit \/ UNCHANGED vars => endless' \subseteq Tasks
    BY DEF SchedInit, vars, core
  <2> HIDE DEF TypeInv, RestOK
  <2> QED BY <2>1, <2>2, <2>3, <2>4, <2>5 DEF Next
<1>3. lot' \in [Cpus -> [random : Int, n : Nat]]
  <2> DEFINE Lot == [random : Int, n : Nat]
  <2>1. lot \in [Cpus -> Lot] /\ Len(dsq) \in Nat
    BY QueueElements DEF TypeInv, RestOK, IInv
  <2>2. NoLot \in Lot
    BY DEF NoLot
  <2>3. ASSUME NEW c \in Cpus, Draw(c) PROVE lot' \in [Cpus -> Lot]
    <3>1. PICK n \in Nat : DrawBelow(c, n)
      BY <2>1, <2>3 DEF Draw
    <3>2. PICK r \in IF n = 0 THEN {-1, (U32 \div 2) - 1} ELSE 0..(n - 1) :
             lot' = [lot EXCEPT ![c] = [random |-> r,
                                        n |-> IF kind = "lottery" THEN n ELSE 0]]
      BY <3>1 DEF DrawBelow
    <3>3. r \in Int
      BY <3>2, MiniAssumption
    <3> QED BY <2>1, <3>2, <3>3
  <2>4. ASSUME NEW c \in Cpus, Visit(c), ~EndRound(c) PROVE lot' \in [Cpus -> Lot]
    <3>1. PICK i \in 1..Len(dsq) : VisitNext(c, dsq[i])
      BY <2>4 DEF Visit
    <3>2. dsq[i] \in Tasks
      BY QueueElements DEF TypeInv, IInv
    <3>3. Tickets(dsq[i]) \in Int
      BY <3>2, MiniAssumption DEF Tickets
    <3>4. PICK r \in Int : r = lot[c].random - Tickets(dsq[i])
      BY <2>1, <3>3
    <3>5. lot' = [lot EXCEPT ![c].random = r]
      BY <3>1, <3>4 DEF VisitNext
    <3> QED BY <2>1, <3>5
  <2>5. CASE \E c \in Cpus : lot' = [lot EXCEPT ![c] = NoLot]
    BY <2>1, <2>2, <2>5
  <2>a. ASSUME NEW c \in Cpus, AddWeight(c) PROVE lot' \in [Cpus -> Lot]
    <3>1. PICK i \in 1..Len(dsq) : lot' = [lot EXCEPT ![c].n = @ + Weight[dsq[i]]]
      BY <2>a DEF AddWeight
    <3>2. Weight[dsq[i]] \in Nat
      BY QueueElements, MiniAssumption DEF TypeInv, IInv
    <3>3. PICK n \in Nat : n = lot[c].n + Weight[dsq[i]]
      BY <2>1, <3>2
    <3>4. lot' = [lot EXCEPT ![c].n = n]
      BY <3>1, <3>3
    <3> QED BY <2>1, <3>4
  <2>6. CASE lot' = lot
    BY <2>1, <2>6
  <2>7. ASSUME NEW c \in Cpus, EndRound(c) PROVE lot' \in [Cpus -> Lot]
    BY <2>5, <2>7 DEF EndRound
  <2>8. ASSUME NEW c \in Cpus, NEW i \in 1..Len(dsq), TakeAndReturn(c, i)
        PROVE  lot' \in [Cpus -> Lot]
    BY <2>5, <2>8 DEF TakeAndReturn
  <2>9. ASSUME NEW c \in Cpus, CpuStep(c) PROVE lot' \in [Cpus -> Lot]
    <3>1. CASE SchedEnqueue(c) \/ Pick(c) \/ Iterate(c)
      BY <2>6, <3>1 DEF SchedEnqueue, Pick, Iterate
    <3>2. CASE SchedDispatch(c)
      BY <2>7, <2>8, <3>2 DEF SchedDispatch
    <3>3. CASE Draw(c)
      BY <2>3, <3>3
    <3>4. CASE Visit(c)
      BY <2>4, <2>7, <3>4
    <3>5. CASE Move(c)
      BY <2>6, <2>8, <3>5 DEF Move
    <3>6. CASE StartSum(c)
      BY <2>5, <3>6 DEF StartSum
    <3>7. CASE AddWeight(c)
      BY <2>a, <3>7
    <3> QED BY <2>9, <3>1, <3>2, <3>3, <3>4, <3>5, <3>6, <3>7 DEF CpuStep
  <2>10. ASSUME NEW c \in Cpus, Tick(c) \/ Resched(c) \/ Sleep(c)
         PROVE  lot' \in [Cpus -> Lot]
    BY <2>6, <2>7, <2>10 DEF Tick, Resched, Sleep
  <2>11. CASE UNCHANGED vars \/ SchedInit
              \/ (\E t \in Tasks : SchedEnable(t) \/ Reap(t))
              \/ (\E c \in Cpus, t \in Tasks : Wake(c, t) \/ WakeToIdle(c, t))
    BY <2>6, <2>11 DEF vars, SchedInit, SchedEnable, Reap, Wake, WakeToIdle
  <2> QED BY <2>9, <2>10, <2>11 DEF Next
<1> QED BY <1>1, <1>2, <1>3 DEF RestOK

LEMMA InitTypeInv == Init => TypeInv
<1> SUFFICES ASSUME Init PROVE TypeInv
  OBVIOUS
<1>1. IInv
  BY InitIInv
<1>2. KeyRange /\ CanCharge /\ RestOK
  BY ZeroIsKey DEF Init, KeyRange, CanCharge, RestOK, NoLot
<1> QED BY <1>1, <1>2 DEF TypeInv

LEMMA NextTypeInv == TypeInv /\ [Next]_vars => TypeInv'
<1> SUFFICES ASSUME TypeInv, [Next]_vars PROVE TypeInv'
  OBVIOUS
<1>1. IInv'
  BY NextIInv DEF TypeInv
<1> QED BY <1>1, NextKeys, NextRest DEF TypeInv

\* Under each of the six policies every variable keeps its type: keys of
\* prio.bpf.c are 32-bit words, those of vtime.bpf.c are within the bound of the
\* model, though a task is charged some steps after it was found to be below it,
\* and the other policies leave the key alone.
THEOREM MiniTypes == Spec => []TypeOK
<1>1. TypeInv => TypeOK
  <2> SUFFICES ASSUME TypeInv PROVE TypeOK
    OBVIOUS
  <2>1. vtime \in [Tasks -> IF kind = "prio" THEN 0..(U32 - 1) ELSE 0..MaxVtime]
    BY DEF TypeInv, KeyRange, Keys
  <2>2. vtime_now \in 0..MaxVtime
    BY ZeroIsKey DEF TypeInv, IInv, ClockOK
  <2> QED BY <2>1, <2>2 DEF TypeInv, RestOK, IInv, Types, TypeOK
<1> QED BY <1>1, InitTypeInv, NextTypeInv, PTL DEF Spec
-----------------------------------------------------------------------------
(* The walk of lottery.bpf.c.                                              *)

Unique(s) == \A i, j \in 1..Len(s) : s[i] = s[j] => i = j

\* What CPU c has still to visit in queue s (I) or won (the rest of P), when r
\* is left of the number it drew for n tasks.  The tasks to visit stand side by
\* side, behind the winner; as many as were queued stand before the first of
\* them at most as r leaves; and no task that lost, which CPU c may run, was the
\* last but one or the last of the n.
Walk(s, I, P, r, n, c) ==
    /\ I \subseteq P
    /\ \A t \in P : \E i \in 1..Len(s) : s[i] = t
    /\ \A i, j, k \in 1..Len(s) : i < j /\ j < k /\ s[i] \in I /\ s[k] \in I => s[j] \in I
    /\ \A i, k \in 1..Len(s) : s[i] \in P \ I /\ s[k] \in I => i < k
    /\ n >= 1 => \A i \in 1..Len(s) :
          s[i] \in I /\ (\A j \in 1..(i - 1) : s[j] \notin I) => r <= n - i
    /\ n >= 1 => \A i, p \in 1..Len(s) :
          p < i /\ s[i] \in P /\ s[p] \notin P /\ c \in Allowed[s[p]] => p <= n - 2

LEMMA WalkAppend ==
    ASSUME NEW s \in Seq(Tasks), NEW t \in Tasks, \A i \in 1..Len(s) : s[i] # t,
           NEW I, NEW P, NEW r \in Int, NEW n \in Nat, NEW c, Walk(s, I, P, r, n, c)
    PROVE  Walk(Append(s, t), I, P, r, n, c)
<1> DEFINE q == Append(s, t)
<1>1. /\ Len(s) \in Nat /\ Len(q) = Len(s) + 1 /\ q[Len(s) + 1] = t
      /\ \A i \in 1..Len(s) : q[i] = s[i]
  BY AppendProperties, LenProperties
<1> HIDE DEF q
<1>2. t \notin P /\ I \subseteq P
  BY DEF Walk
<1>3. \A i \in 1..Len(q) : q[i] \in P => i \in 1..Len(s)
  BY <1>1, <1>2
<1>4. \A u \in P : \E i \in 1..Len(q) : q[i] = u
  <2> SUFFICES ASSUME NEW u \in P PROVE \E i \in 1..Len(q) : q[i] = u
    OBVIOUS
  <2>1. PICK i \in 1..Len(s) : s[i] = u
    BY DEF Walk
  <2>2. i \in 1..Len(q) /\ q[i] = u
    BY <1>1, <2>1
  <2> QED BY <2>2
<1>5. ASSUME NEW i \in 1..Len(q), NEW j \in 1..Len(q), NEW k \in 1..Len(q),
             i < j, j < k, q[i] \in I, q[k] \in I
      PROVE  q[j] \in I
  <2>1. i \in 1..Len(s) /\ k \in 1..Len(s) /\ j \in 1..Len(s)
    BY <1>1, <1>2, <1>3, <1>5
  <2>2. s[i] \in I /\ s[k] \in I
    BY <1>1, <1>5, <2>1
  <2>3. s[j] \in I
    BY <1>5, <2>1, <2>2 DEF Walk
  <2> QED BY <1>1, <2>1, <2>3
<1>6. ASSUME NEW i \in 1..Len(q), NEW k \in 1..Len(q), q[i] \in P \ I, q[k] \in I
      PROVE  i < k
  <2>1. i \in 1..Len(s) /\ k \in 1..Len(s)
    BY <1>2, <1>3, <1>6
  <2> QED BY <1>1, <1>6, <2>1 DEF Walk
<1>7. ASSUME n >= 1, NEW i \in 1..Len(q), q[i] \in I, \A j \in 1..(i - 1) : q[j] \notin I
      PROVE  r <= n - i
  <2>1. i \in 1..Len(s) /\ s[i] \in I
    BY <1>1, <1>2, <1>3, <1>7
  <2>2. \A j \in 1..(i - 1) : s[j] \notin I
    BY <1>1, <1>7, <2>1
  <2> QED BY <1>7, <2>1, <2>2 DEF Walk
<1>8. ASSUME n >= 1, NEW i \in 1..Len(q), NEW p \in 1..Len(q),
             p < i, q[i] \in P, q[p] \notin P, c \in Allowed[q[p]]
      PROVE  p <= n - 2
  <2>1. i \in 1..Len(s) /\ p \in 1..Len(s)
    BY <1>1, <1>3, <1>8
  <2>2. q[p] = s[p] /\ q[i] = s[i]
    BY <1>1, <2>1
  <2> QED BY <1>8, <2>1, <2>2 DEF Walk
<1> HIDE DEF Walk
<1>9. Walk(q, I, P, r, n, c)
  BY <1>2, <1>4, <1>5, <1>6, <1>7, <1>8 DEF Walk
<1> QED BY <1>9 DEF q

LEMMA WalkRemove ==
    ASSUME NEW s \in Seq(Tasks), Unique(s), NEW k \in 1..Len(s),
           NEW I, NEW P, NEW r \in Int, NEW n \in Nat, NEW c, Walk(s, I, P, r, n, c)
    PROVE  Walk(RemoveAt(s, k), I \ {s[k]}, P \ {s[k]}, r, n, c)
<1> DEFINE q == RemoveAt(s, k)
           m(i) == IF i < k THEN i ELSE i + 1
           J == I \ {s[k]}
           Q == P \ {s[k]}
<1>1. /\ Len(s) \in Nat /\ Len(q) = Len(s) - 1
      /\ \A j \in 1..(Len(s) - 1) : q[j] = IF j < k THEN s[j] ELSE s[j + 1]
  BY RemoveAtProperties, LenProperties
<1> HIDE DEF q
<1>2. \A i \in 1..Len(q) : /\ m(i) \in 1..Len(s) /\ m(i) # k /\ q[i] = s[m(i)]
                           /\ i <= m(i)
  BY <1>1
<1>3. \A i, j \in 1..Len(q) : i < j <=> m(i) < m(j)
  BY <1>1
<1>4. \A j \in 1..Len(s) : j # k => \E i \in 1..Len(q) : m(i) = j
  <2> SUFFICES ASSUME NEW j \in 1..Len(s), j # k PROVE \E i \in 1..Len(q) : m(i) = j
    OBVIOUS
  <2>1. CASE j < k
    <3>1. j \in 1..Len(q) /\ m(j) = j
      BY <1>1, <2>1
    <3> QED BY <3>1
  <2>2. CASE j > k
    <3>1. j - 1 \in 1..Len(q) /\ m(j - 1) = j
      BY <1>1, <2>2
    <3> QED BY <3>1
  <2> QED BY <2>1, <2>2
<1>5. \A i \in 1..Len(q) : i < k => m(i) = i
  OBVIOUS
<1>6. \A i \in 1..Len(q) : ~(i < k) => m(i) = i + 1
  OBVIOUS
<1> HIDE DEF m
<1>7. \A i \in 1..Len(q) : q[i] # s[k]
  BY <1>2 DEF Unique
<1>8. /\ \A i \in 1..Len(q) : q[i] \in J <=> s[m(i)] \in I
      /\ \A i \in 1..Len(q) : q[i] \in Q <=> s[m(i)] \in P
  BY <1>2, <1>7
<1>9. J \subseteq Q /\ \A u \in Q : \E i \in 1..Len(q) : q[i] = u
  <2> SUFFICES ASSUME NEW u \in Q PROVE \E i \in 1..Len(q) : q[i] = u
    BY DEF Walk
  <2>1. PICK j \in 1..Len(s) : s[j] = u
    BY DEF Walk
  <2>2. PICK i \in 1..Len(q) : m(i) = j
    BY <1>4, <2>1
  <2> QED BY <1>2, <2>1, <2>2
<1> HIDE DEF J, Q
<1>10. ASSUME NEW i \in 1..Len(q), NEW j \in 1..Len(q), NEW l \in 1..Len(q),
              i < j, j < l, q[i] \in J, q[l] \in J
       PROVE  q[j] \in J
  <2>1. m(i) < m(j) /\ m(j) < m(l) /\ s[m(i)] \in I /\ s[m(l)] \in I
    BY <1>3, <1>8, <1>10
  <2>2. s[m(j)] \in I
    BY <1>2, <2>1 DEF Walk
  <2> QED BY <1>8, <2>2
<1>11. ASSUME NEW i \in 1..Len(q), NEW l \in 1..Len(q), q[i] \in Q \ J, q[l] \in J
       PROVE  i < l
  <2>1. s[m(i)] \in P \ I /\ s[m(l)] \in I
    BY <1>8, <1>11
  <2>2. m(i) < m(l)
    BY <1>2, <2>1 DEF Walk
  <2> QED BY <1>3, <2>2
<1>12. ASSUME n >= 1, NEW i \in 1..Len(q), q[i] \in J, \A j \in 1..(i - 1) : q[j] \notin J
       PROVE  r <= n - i
  <2>1. m(i) \in 1..Len(s) /\ s[m(i)] \in I /\ i <= m(i)
    BY <1>2, <1>8, <1>12
  <2>2. \A j \in 1..(m(i) - 1) : s[j] \in I => j = k
    <3> SUFFICES ASSUME NEW j \in 1..(m(i) - 1), s[j] \in I, j # k PROVE FALSE
      OBVIOUS
    <3>1. j \in 1..Len(s) /\ j < m(i)
      BY <1>1, <2>1
    <3>2. PICK a \in 1..Len(q) : m(a) = j
      BY <1>4, <3>1
    <3>3. a < i /\ q[a] \in J
      BY <1>3, <1>8, <3>1, <3>2
    <3>4. a \in 1..(i - 1)
      BY <3>3
    <3> QED BY <1>12, <3>3, <3>4
  <2>3. CASE \A j \in 1..(m(i) - 1) : s[j] \notin I
    <3>1. r <= n - m(i)
      BY <1>12, <2>1, <2>3 DEF Walk
    <3> QED BY <2>1, <3>1
  <2>4. CASE \E j \in 1..(m(i) - 1) : s[j] \in I
    <3>1. k \in 1..(m(i) - 1) /\ s[k] \in I
      BY <2>2, <2>4
    <3>2. \A j \in 1..(k - 1) : s[j] \notin I
      BY <2>1, <2>2, <3>1
    <3>3. r <= n - k
      BY <1>12, <3>1, <3>2 DEF Walk
    <3>4. m(i) = i + 1 /\ k <= i
      <4>1. ~(i < k)
        BY <1>5, <3>1
      <4> QED BY <1>6, <4>1, <3>1
    <3>5. ~(k < i)
      <4> SUFFICES ASSUME k < i PROVE FALSE
        OBVIOUS
      <4>1. i \in 1..Len(s) /\ i < m(i) /\ i \in 1..(m(i) - 1) /\ i # k
        BY <1>1, <2>1, <3>4
      <4>2. s[i] \in I
        BY <2>1, <3>1, <4>1 DEF Walk
      <4> QED BY <2>2, <4>1, <4>2
    <3>6. k = i
      BY <3>4, <3>5
    <3> QED BY <3>3, <3>6
  <2> QED BY <2>3, <2>4
<1>13. ASSUME n >= 1, NEW i \in 1..Len(q), NEW p \in 1..Len(q),
              p < i, q[i] \in Q, q[p] \notin Q, c \in Allowed[q[p]]
       PROVE  p <= n - 2
  <2>1. m(p) < m(i) /\ s[m(i)] \in P /\ s[m(p)] \notin P /\ c \in Allowed[s[m(p)]]
    BY <1>2, <1>3, <1>8, <1>13
  <2>2. m(p) <= n - 2
    BY <1>2, <1>13, <2>1 DEF Walk
  <2>3. m(p) \in Int /\ p <= m(p)
    BY <1>2
  <2> QED BY <2>2, <2>3
<1>14. Walk(q, J, Q, r, n, c)
  BY <1>9, <1>10, <1>11, <1>12, <1>13 DEF Walk
<1> QED BY <1>14 DEF q, J, Q

LEMMA WalkStart ==
    ASSUME NEW s \in Seq(Tasks), NEW r \in Int, NEW n \in Nat, NEW c,
           n >= 1 => r <= n - 1
    PROVE  LET I == {s[i] : i \in 1..Len(s)} IN Walk(s, I, I, r, n, c)
<1> DEFINE I == {s[i] : i \in 1..Len(s)}
<1>1. Len(s) \in Nat /\ \A i \in 1..Len(s) : s[i] \in I
  BY LenProperties
<1>2. \A t \in I : \E i \in 1..Len(s) : s[i] = t
  OBVIOUS
<1> HIDE DEF I
<1>3. ASSUME n >= 1, NEW i \in 1..Len(s), \A j \in 1..(i - 1) : s[j] \notin I
      PROVE  r <= n - i
  <2>1. CASE i = 1
    BY <1>3, <2>1
  <2>2. CASE i # 1
    <3>1. 1 \in 1..(i - 1) /\ 1 \in 1..Len(s)
      BY <1>1, <2>2
    <3> QED BY <1>1, <1>3, <3>1
  <2> QED BY <2>1, <2>2
<1>4. Walk(s, I, I, r, n, c)
  BY <1>1, <1>2, <1>3 DEF Walk
<1> QED BY <1>4 DEF I

\* The next task is visited: it wins, or is not waited for any longer.
LEMMA WalkVisit ==
    ASSUME NEW s \in Seq(Tasks), Unique(s), NEW I, NEW r \in Int, NEW n \in Nat,
           NEW c, Walk(s, I, I, r, n, c),
           NEW i \in 1..Len(s), s[i] \in I, \A j \in 1..(i - 1) : s[j] \notin I,
           NEW Q, \/ Q = I
                  \/ Q = I \ {s[i]} /\ (r - 1 > 0 \/ c \notin Allowed[s[i]])
    PROVE  Walk(s, I \ {s[i]}, Q, r - 1, n, c)
<1> DEFINE J == I \ {s[i]}
<1>1. Len(s) \in Nat /\ \A j \in 1..Len(s) : s[j] \in J <=> s[j] \in I /\ j # i
  BY LenProperties DEF Unique
<1>2. J \subseteq Q /\ Q \subseteq I /\ Q \ J \subseteq {s[i]}
  OBVIOUS
<1> HIDE DEF J
<1>3. \A j \in 1..Len(s) : s[j] \in I => i <= j
  <2> SUFFICES ASSUME NEW j \in 1..Len(s), s[j] \in I, j < i PROVE FALSE
    OBVIOUS
  <2>1. j \in 1..(i - 1)
    OBVIOUS
  <2> QED BY <2>1
<1>4. \A t \in Q : \E j \in 1..Len(s) : s[j] = t
  BY <1>2 DEF Walk
<1>5. ASSUME NEW a \in 1..Len(s), NEW j \in 1..Len(s), NEW b \in 1..Len(s),
             a < j, j < b, s[a] \in J, s[b] \in J
      PROVE  s[j] \in J
  <2>1. s[a] \in I /\ s[b] \in I /\ s[j] \in I
    BY <1>1, <1>5 DEF Walk
  <2>2. i <= a
    BY <1>3, <2>1
  <2>3. j # i
    BY <1>5, <2>2
  <2> QED BY <1>1, <2>1, <2>3
<1>6. ASSUME NEW a \in 1..Len(s), NEW b \in 1..Len(s), s[a] \in Q \ J, s[b] \in J
      PROVE  a < b
  <2>1. a = i
    BY <1>2, <1>6 DEF Unique
  <2>2. i <= b /\ b # i
    BY <1>1, <1>3, <1>6
  <2> QED BY <2>1, <2>2
<1>7. ASSUME n >= 1, NEW j \in 1..Len(s), s[j] \in J, \A l \in 1..(j - 1) : s[l] \notin J
      PROVE  r - 1 <= n - j
  <2>1. r <= n - i
    BY <1>7 DEF Walk
  <2>2. s[j] \in I /\ i < j
    <3>1. s[j] \in I /\ j # i /\ i <= j
      BY <1>1, <1>3, <1>7
    <3> QED BY <3>1
  <2>3. ~(i + 1 < j)
    <3> SUFFICES ASSUME i + 1 < j PROVE FALSE
      OBVIOUS
    <3>1. i + 1 \in 1..Len(s) /\ i < i + 1 /\ i + 1 # i /\ i + 1 \in 1..(j - 1)
      BY <1>1
    <3>2. s[i + 1] \in I
      BY <2>2, <3>1 DEF Walk
    <3> QED BY <1>1, <1>7, <3>1, <3>2
  <2>4. j = i + 1
    BY <2>2, <2>3
  <2> QED BY <2>1, <2>4
<1>8. ASSUME n >= 1, NEW j \in 1..Len(s), NEW p \in 1..Len(s),
             p < j, s[j] \in Q, s[p] \notin Q, c \in Allowed[s[p]]
      PROVE  p <= n - 2
  <2>1. s[j] \in I
    BY <1>2, <1>8
  <2>2. CASE s[p] \notin I
    BY <1>8, <2>1, <2>2 DEF Walk
  <2>3. CASE s[p] \in I
    <3>1. s[p] = s[i] /\ Q = I \ {s[i]}
      BY <1>8, <2>3
    <3>2. p = i /\ r - 1 > 0
      <4>1. p = i
        BY <3>1 DEF Unique
      <4>2. Q # I
        BY <3>1
      <4> QED BY <1>8, <3>1, <4>1, <4>2
    <3>3. r <= n - i
      BY <1>8 DEF Walk
    <3> QED BY <3>2, <3>3
  <2> QED BY <2>2, <2>3
<1>9. Walk(s, J, Q, r - 1, n, c)
  BY <1>2, <1>4, <1>5, <1>6, <1>7, <1>8 DEF Walk
<1> QED BY <1>9 DEF J
-----------------------------------------------------------------------------
(* The walks of all CPUs, interleaved.                                     *)

\* The tasks CPU c may still move: those to visit and the one that won.
Pending(c) ==
    frame[c].iter \cup (IF pc[c] = "move" THEN {frame[c].task} \ {NoTask} ELSE {})

WalkOK(c) ==
    /\ pc[c] = "iterate" /\ lot[c].n >= 1 => lot[c].random <= lot[c].n - 1
    /\ pc[c] = "move" => frame[c].task \notin frame[c].iter
    /\ pc[c] \in {"visit", "move"} =>
          Walk(dsq, frame[c].iter, Pending(c), lot[c].random, lot[c].n, c)

LotteryOK == kind = "lottery" => \A c \in Cpus : WalkOK(c)

LEMMA WalkNext ==
    ASSUME NEW c \in Cpus, NEW I, NEW P, NEW r, NEW n,
           Walk(dsq', I, P, r, n, c),
           frame'[c].iter = I, Pending(c)' = P, lot'[c].random = r, lot'[c].n = n,
           pc'[c] # "iterate", pc'[c] = "move" => frame'[c].task \notin I
    PROVE  WalkOK(c)'
<1>1. Walk(dsq, frame[c].iter, Pending(c), lot[c].random, lot[c].n, c)'
  BY DEF Walk
<1> QED BY <1>1 DEF WalkOK

LEMMA WalkStays ==
    ASSUME NEW c \in Cpus, WalkOK(c), dsq' = dsq,
           pc'[c] = pc[c], frame'[c] = frame[c], lot'[c] = lot[c]
    PROVE  WalkOK(c)'
  BY DEF WalkOK, Pending, Walk

LEMMA NoWalk ==
    ASSUME NEW c \in Cpus, pc'[c] \notin {"iterate", "visit", "move"}
    PROVE  WalkOK(c)'
  BY DEF WalkOK

\* A step in which only CPU c walks.
LEMMA OtherWalks ==
    ASSUME NEW c \in Cpus, \A e \in Cpus \ {c} : WalkOK(e), dsq' = dsq,
           \A e \in Cpus \ {c} : pc'[e] = pc[e] /\ frame'[e] = frame[e] /\ lot'[e] = lot[e],
           WalkOK(c)'
    PROVE  \A e \in Cpus : WalkOK(e)'
<1> TAKE e \in Cpus
<1>1. CASE e = c
  BY <1>1
<1>2. CASE e # c
  BY <1>2, WalkStays
<1> QED BY <1>1, <1>2

LEMMA WalkTypes ==
    ASSUME TypeInv, NEW c \in Cpus
    PROVE  /\ frame[c].iter \in SUBSET Tasks /\ frame[c].task \in Tasks \cup {NoTask}
           /\ lot[c] \in [random : Int, n : Nat]
           /\ lot[c].random \in Int /\ lot[c].n \in Nat
           /\ dsq \in Seq(Tasks) /\ Unique(dsq)
<1>1. PICK pl : Placed(pl)
  BY DEF TypeInv, IInv
<1>2. Unique(dsq)
  BY <1>1 DEF Placed, Holds, Unique
<1> QED BY <1>2 DEF TypeInv, IInv, Types, RestOK

LEMMA DrawWalk ==
    ASSUME TypeInv, kind = "lottery", NEW c \in Cpus, Draw(c) PROVE WalkOK(c)'
<1>1. DrawBelow(c, Len(dsq)) /\ Len(dsq) \in Nat
  BY QueueElements DEF Draw, TypeInv, IInv, CpuOK
<1>2. PICK r \in IF Len(dsq) = 0 THEN {-1, (U32 \div 2) - 1} ELSE 0..(Len(dsq) - 1) :
         lot' = [lot EXCEPT ![c] = [random |-> r, n |-> Len(dsq)]]
  BY <1>1 DEF DrawBelow
<1>3. pc'[c] = "iterate" /\ lot'[c].random = r /\ lot'[c].n = Len(dsq)
  BY <1>1, <1>2 DEF DrawBelow, TypeInv, IInv, Types, RestOK
<1>4. Len(dsq) >= 1 => r <= Len(dsq) - 1
  BY <1>1, <1>2
<1> QED BY <1>3, <1>4 DEF WalkOK

LEMMA IterateWalk ==
    ASSUME TypeInv, NEW c \in Cpus, WalkOK(c), Iterate(c) PROVE WalkOK(c)'
<1> DEFINE I == Queued
<1>1. /\ pc[c] = "iterate" /\ pc'[c] = "visit" /\ lot'[c] = lot[c] /\ dsq' = dsq
      /\ frame'[c] = [task |-> NoTask, iter |-> I]
  BY DEF Iterate, TypeInv, IInv, Types
<1>2. lot[c].n >= 1 => lot[c].random <= lot[c].n - 1
  BY <1>1 DEF WalkOK
<1>3. Walk(dsq, I, I, lot[c].random, lot[c].n, c)
  BY <1>2, WalkTypes, WalkStart DEF Queued
<1> HIDE DEF I
<1>4. frame'[c].iter = I /\ Pending(c)' = I
  BY <1>1 DEF Pending
<1> QED BY <1>1, <1>3, <1>4, WalkNext

LEMMA VisitWalk ==
    ASSUME TypeInv, kind = "lottery", NEW c \in Cpus, WalkOK(c), pc[c] = "visit",
           dsq' = dsq, NEW i \in 1..Len(dsq), FirstUnvisited(c, i), VisitNext(c, dsq[i])
    PROVE  WalkOK(c)'
<1> DEFINE t == dsq[i]
           won == Wins(lot[c].random, t) /\ MayRun(c, t)
           I == frame[c].iter
           J == I \ {t}
           r == lot[c].random
           n == lot[c].n
<1>1. t \in Tasks /\ t \in I /\ \A j \in 1..(i - 1) : dsq[j] \notin I
  BY QueueElements DEF FirstUnvisited, TypeInv, IInv
<1>2. Walk(dsq, I, I, r, n, c)
  <2>1. Pending(c) = I
    BY DEF Pending
  <2> QED BY <2>1 DEF WalkOK
<1>3. /\ frame'[c] = [task |-> IF won THEN t ELSE NoTask, iter |-> J]
      /\ pc'[c] = IF won THEN "move" ELSE "visit"
      /\ lot'[c] = [lot[c] EXCEPT !.random = r - 1]
  BY DEF VisitNext, TypeInv, IInv, Types, RestOK, Tickets
<1>4. lot'[c].random = r - 1 /\ lot'[c].n = n
  BY <1>3, WalkTypes
<1>5. won <=> r - 1 <= 0 /\ c \in Allowed[t]
  BY DEF Wins, MayRun, Tickets
<1>6. t # NoTask
  BY <1>1, MiniAssumption
<1>7. r \in Int /\ n \in Nat /\ dsq \in Seq(Tasks) /\ Unique(dsq)
  BY WalkTypes
<1> HIDE DEF won, r, n, I
<1>8. CASE won
  <2>1. Walk(dsq, J, I, r - 1, n, c)
    BY <1>1, <1>2, <1>7, WalkVisit
  <2>2. frame'[c].iter = J /\ frame'[c].task = t /\ pc'[c] = "move"
    BY <1>3, <1>8
  <2>3. Pending(c)' = I
    BY <1>1, <1>6, <2>2 DEF Pending
  <2> QED BY <1>4, <2>1, <2>2, <2>3, WalkNext
<1>9. CASE ~won
  <2>1. r - 1 > 0 \/ c \notin Allowed[t]
    BY <1>5, <1>7, <1>9
  <2>2. Walk(dsq, J, J, r - 1, n, c)
    BY <1>1, <1>2, <1>7, <2>1, WalkVisit
  <2>3. frame'[c].iter = J /\ pc'[c] = "visit"
    BY <1>3, <1>9
  <2>4. Pending(c)' = J
    BY <2>3 DEF Pending
  <2> QED BY <1>4, <2>2, <2>3, <2>4, WalkNext
<1> QED BY <1>8, <1>9

\* Another CPU takes a task out of the queue.
LEMMA TakeWalk ==
    ASSUME TypeInv, NEW c \in Cpus, NEW i \in 1..Len(dsq), TakeAndReturn(c, i),
           NEW e \in Cpus \ {c}, WalkOK(e)
    PROVE  WalkOK(e)'
<1> DEFINE t == dsq[i]
           I == frame[e].iter
           P == Pending(e)
<1>1. /\ dsq' = RemoveAt(dsq, i) /\ pc'[e] = pc[e] /\ lot'[e] = lot[e]
      /\ frame'[e] = [task |-> IF frame[e].task = t /\ pc[e] = "move"
                               THEN NoTask ELSE frame[e].task,
                      iter |-> I \ {t}]
  BY DEF TakeAndReturn, Forget, TypeInv, IInv, Types, RestOK
<1>2. CASE pc[e] \in {"visit", "move"}
  <2>1. Walk(dsq, I, P, lot[e].random, lot[e].n, e)
    BY <1>2 DEF WalkOK
  <2>2. Walk(RemoveAt(dsq, i), I \ {t}, P \ {t}, lot[e].random, lot[e].n, e)
    <3> HIDE DEF I, P
    <3> QED BY <2>1, WalkTypes, WalkRemove
  <2>3. frame'[e].iter = I \ {t}
    BY <1>1
  <2>4. Pending(e)' = P \ {t}
    BY <1>1 DEF Pending
  <2>5. pc[e] = "move" => frame'[e].task \notin I
    <3>1. NoTask \notin I
      BY WalkTypes, MiniAssumption
    <3> QED BY <1>1, <3>1 DEF WalkOK
  <2> QED BY <1>1, <1>2, <2>2, <2>3, <2>4, <2>5, WalkNext
<1>3. CASE pc[e] \notin {"visit", "move"}
  BY <1>1, <1>3 DEF WalkOK
<1> QED BY <1>2, <1>3

\* A task is put at the tail while CPU e walks.
LEMMA AppendWalk ==
    ASSUME TypeInv, NEW t \in Tasks, \A i \in 1..Len(dsq) : dsq[i] # t,
           dsq' = Append(dsq, t), NEW e \in Cpus, WalkOK(e),
           pc'[e] = pc[e], frame'[e] = frame[e], lot'[e] = lot[e]
    PROVE  WalkOK(e)'
<1> DEFINE I == frame[e].iter
           P == Pending(e)
<1>1. CASE pc[e] \in {"visit", "move"}
  <2>1. Walk(dsq, I, P, lot[e].random, lot[e].n, e)
    BY <1>1 DEF WalkOK
  <2>2. Walk(Append(dsq, t), I, P, lot[e].random, lot[e].n, e)
    <3> HIDE DEF I, P
    <3> QED BY <2>1, WalkTypes, WalkAppend
  <2>3. Pending(e)' = P
    BY DEF Pending
  <2>4. pc[e] = "move" => frame[e].task \notin I
    BY DEF WalkOK
  <2> QED BY <1>1, <2>2, <2>3, <2>4, WalkNext
<1>2. CASE pc[e] \notin {"visit", "move"}
  BY <1>2 DEF WalkOK
<1> QED BY <1>1, <1>2

LEMMA SchedEnqueueWalk ==
    ASSUME TypeInv, kind = "lottery", \A e \in Cpus : WalkOK(e),
           NEW c \in Cpus, SchedEnqueue(c)
    PROVE  \A e \in Cpus : WalkOK(e)'
<1>1. PICK t \in Tasks : t = frame[c].task
  BY DEF SchedEnqueue, TypeInv, IInv, CpuOK
<1>2. /\ pc[c] = "enqueue" /\ dsq' = Append(dsq, t)
      /\ pc'[c] \in {"pick", "cpu"} /\ lot' = lot
      /\ \A e \in Cpus \ {c} : pc'[e] = pc[e] /\ frame'[e] = frame[e]
  BY <1>1 DEF SchedEnqueue, Inserted, TypeInv, IInv, Types
<1>3. \A i \in 1..Len(dsq) : dsq[i] # t
  <2>1. PICK pl : Placed(pl)
    BY DEF TypeInv, IInv
  <2>2. pl[t] # InDsq
    <3>1. CASE running[c] = t
      BY <2>1, <3>1, PlacesDiffer DEF Placed
    <3>2. CASE running[c] # t
      <4>1. pl[t] = InHandler(c)
        BY <1>1, <1>2, <2>1, <3>2 DEF Placed, Handling
      <4> QED BY <4>1, PlacesDiffer
    <3> QED BY <3>1, <3>2
  <2> QED BY <2>1, <2>2 DEF Placed, Holds
<1>4. WalkOK(c)'
  BY <1>2, NoWalk
<1>5. ASSUME NEW e \in Cpus \ {c} PROVE WalkOK(e)'
  BY <1>2, <1>3, AppendWalk
<1> QED BY <1>4, <1>5

LEMMA NextWalk ==
    ASSUME TypeInv, LotteryOK, [Next]_vars PROVE LotteryOK'
<1>1. SUFFICES ASSUME kind' = "lottery" PROVE \A e \in Cpus : WalkOK(e)'
  BY DEF LotteryOK
<1>2. CASE SchedInit
  <2>1. \A e \in Cpus : pc'[e] = "cpu"
    BY <1>2 DEF SchedInit, TypeInv, IInv, KindOK
  <2> QED BY <2>1, NoWalk
<1>3. CASE kind' = kind
  <2>1. \A e \in Cpus : WalkOK(e)
    BY <1>1, <1>3 DEF LotteryOK
  <2>2. CASE UNCHANGED <<dsq, pc, frame, lot>>
    BY <2>1, <2>2, WalkStays
  <2>3. ASSUME NEW c \in Cpus, dsq' = dsq,
               NEW p \in Pcs, pc' = [pc EXCEPT ![c] = p], p \notin {"iterate", "visit", "move"},
               \A e \in Cpus \ {c} : frame'[e] = frame[e] /\ lot'[e] = lot[e]
        PROVE  \A e \in Cpus : WalkOK(e)'
    <3>1. pc'[c] = p /\ \A e \in Cpus \ {c} : pc'[e] = pc[e]
      BY <2>3 DEF TypeInv, IInv, Types
    <3> QED BY <2>1, <2>3, <3>1, NoWalk, OtherWalks
  <2>4. ASSUME NEW c \in Cpus, dsq' = dsq, EndRound(c) PROVE \A e \in Cpus : WalkOK(e)'
    <3>1. PICK p \in {"pick", "enqueue"} : pc' = [pc EXCEPT ![c] = p]
      BY <2>4 DEF EndRound
    <3>2. \A e \in Cpus \ {c} : frame'[e] = frame[e] /\ lot'[e] = lot[e]
      BY <2>4 DEF EndRound, TypeInv, IInv, Types, RestOK
    <3>3. p \in Pcs /\ p \notin {"iterate", "visit", "move"}
      BY DEF Pcs
    <3> QED BY <2>3, <2>4, <3>1, <3>2, <3>3
  <2>5. ASSUME NEW c \in Cpus, NEW i \in 1..Len(dsq), TakeAndReturn(c, i)
        PROVE  \A e \in Cpus : WalkOK(e)'
    <3>1. pc'[c] \in {"pick", "enqueue"}
      BY <2>5 DEF TakeAndReturn, TypeInv, IInv, Types
    <3>2. WalkOK(c)'
      BY <3>1, NoWalk
    <3>3. ASSUME NEW e \in Cpus \ {c} PROVE WalkOK(e)'
      BY <2>1, <2>5, TakeWalk
    <3> QED BY <3>2, <3>3
  <2>6. ASSUME NEW c \in Cpus, NEW t \in Tasks, Wake(c, t) PROVE \A e \in Cpus : WalkOK(e)'
    <3>1. /\ pc' = [pc EXCEPT ![c] = "enqueue"] /\ dsq' = dsq /\ lot' = lot
          /\ \A e \in Cpus \ {c} : frame'[e] = frame[e]
      BY <2>6 DEF Wake, TypeInv, IInv, Types
    <3> QED BY <2>3, <3>1 DEF Pcs
  <2>7. ASSUME NEW c \in Cpus, Pick(c) \/ Tick(c) \/ Resched(c) \/ Sleep(c)
        PROVE  \A e \in Cpus : WalkOK(e)'
    <3>1. CASE EndRound(c)
      BY <2>4, <2>7, <3>1 DEF Pick, Tick, Resched, Sleep
    <3>2. CASE /\ UNCHANGED <<dsq, frame, lot>>
               /\ \E p \in {"cpu", "dispatch", "pick"} : pc' = [pc EXCEPT ![c] = p]
      <4>1. PICK p \in {"cpu", "dispatch", "pick"} : pc' = [pc EXCEPT ![c] = p]
        BY <3>2
      <4>2. p \in Pcs /\ p \notin {"iterate", "visit", "move"}
        BY DEF Pcs
      <4> QED BY <2>3, <3>2, <4>1, <4>2
    <3> QED BY <2>7, <3>1, <3>2 DEF Pick, Tick, Resched, Sleep
  <2>8. ASSUME NEW c \in Cpus, Draw(c) \/ Iterate(c) PROVE \A e \in Cpus : WalkOK(e)'
    <3>1. WalkOK(c)'
      BY <1>1, <1>3, <2>1, <2>8, DrawWalk, IterateWalk
    <3>2. /\ dsq' = dsq
          /\ \A e \in Cpus \ {c} : pc'[e] = pc[e] /\ frame'[e] = frame[e] /\ lot'[e] = lot[e]
      BY <2>8 DEF Draw, DrawBelow, Iterate, TypeInv, IInv, Types, RestOK
    <3> QED BY <2>1, <3>1, <3>2, OtherWalks
  <2>9. ASSUME NEW c \in Cpus, Visit(c) PROVE \A e \in Cpus : WalkOK(e)'
    <3>1. pc[c] = "visit" /\ dsq' = dsq
      BY <2>9 DEF Visit
    <3>2. CASE EndRound(c)
      BY <2>4, <3>1, <3>2
    <3>3. ASSUME NEW i \in 1..Len(dsq), FirstUnvisited(c, i), VisitNext(c, dsq[i])
          PROVE  \A e \in Cpus : WalkOK(e)'
      <4>1. WalkOK(c)'
        BY <1>1, <1>3, <2>1, <3>1, <3>3, VisitWalk
      <4>2. \A e \in Cpus \ {c} : pc'[e] = pc[e] /\ frame'[e] = frame[e] /\ lot'[e] = lot[e]
        BY <3>3 DEF VisitNext, TypeInv, IInv, Types, RestOK
      <4> QED BY <2>1, <3>1, <4>1, <4>2, OtherWalks
    <3> QED BY <2>9, <3>2, <3>3 DEF Visit
  <2>10. ASSUME NEW c \in Cpus, Move(c) PROVE \A e \in Cpus : WalkOK(e)'
    <3>1. CASE \E i \in 1..Len(dsq) : TakeAndReturn(c, i)
      BY <2>5, <3>1
    <3>2. CASE /\ frame[c].task = NoTask /\ pc' = [pc EXCEPT ![c] = "visit"]
               /\ UNCHANGED <<dsq, frame, lot>>
      <4>1. pc[c] = "move" /\ pc'[c] = "visit" /\ \A e \in Cpus \ {c} : pc'[e] = pc[e]
        BY <2>10, <3>2 DEF Move, TypeInv, IInv, Types
      <4>2. Pending(c)' = Pending(c)
        BY <3>2, <4>1 DEF Pending
      <4>3. Walk(dsq, frame[c].iter, Pending(c), lot[c].random, lot[c].n, c)
        BY <2>1, <4>1 DEF WalkOK
      <4>4. WalkOK(c)'
        BY <3>2, <4>1, <4>2, <4>3, WalkNext
      <4> QED BY <2>1, <3>2, <4>1, <4>4, OtherWalks
    <3> QED BY <2>10, <3>1, <3>2 DEF Move
  <2>11. ASSUME NEW c \in Cpus, SchedEnqueue(c) PROVE \A e \in Cpus : WalkOK(e)'
    BY <1>1, <1>3, <2>1, <2>11, SchedEnqueueWalk
  <2>12. ASSUME NEW c \in Cpus, SchedDispatch(c) \/ StartSum(c) \/ AddWeight(c) PROVE FALSE
    BY <1>1, <1>3, <2>12 DEF SchedDispatch, StartSum, AddWeight, Lotteries, TypeInv, IInv,
       CpuOK
  <2>13. ASSUME NEW c \in Cpus, CpuStep(c) PROVE \A e \in Cpus : WalkOK(e)'
    BY <2>7, <2>8, <2>9, <2>10, <2>11, <2>12, <2>13 DEF CpuStep
  <2>14. CASE UNCHANGED vars \/ (\E t \in Tasks : SchedEnable(t) \/ Reap(t))
    BY <2>2, <2>14 DEF vars, SchedEnable, Reap
  <2>15. ASSUME NEW c \in Cpus, NEW t \in Tasks, WakeToIdle(c, t)
         PROVE  \A e \in Cpus : WalkOK(e)'
    BY <2>2, <2>15 DEF WakeToIdle
  <2> DEFINE Kept == \A e \in Cpus : WalkOK(e)'
  <2>16. /\ SchedInit => Kept
         /\ UNCHANGED vars => Kept
         /\ \A t \in Tasks : SchedEnable(t) \/ Reap(t) => Kept
         /\ \A c \in Cpus, t \in Tasks : Wake(c, t) \/ WakeToIdle(c, t) => Kept
         /\ \A c \in Cpus : CpuStep(c) \/ Tick(c) \/ Resched(c) \/ Sleep(c) => Kept
    BY Zenon, <1>2, <2>6, <2>7, <2>13, <2>14, <2>15
  <2> HIDE DEF Kept
  <2>17. Kept
    BY <2>16 DEF Next
  <2> QED BY <2>17 DEF Kept
<1>4. SchedInit \/ kind' = kind
  BY KindStays
<1> QED BY <1>2, <1>3, <1>4

\* The winner is not the last of as many tasks as the number was drawn for.
LEMMA WinnerIsNotLast ==
    ASSUME TypeInv, LotteryOK, kind = "lottery", NEW c \in Cpus, pc[c] = "move",
           frame[c].task # NoTask, lot[c].n = Len(dsq), Len(dsq) >= 2,
           \A t \in Tasks : Contains(dsq, t) => c \in Allowed[t]
    PROVE  frame[c].task # Last(dsq)
<1> DEFINE t == frame[c].task
           m == Len(dsq)
<1>1. SUFFICES ASSUME t = dsq[m] PROVE FALSE
  BY DEF Last
<1>2. /\ t \notin frame[c].iter /\ Pending(c) = frame[c].iter \cup {t}
      /\ Walk(dsq, frame[c].iter, Pending(c), lot[c].random, m, c)
  BY DEF LotteryOK, WalkOK, Pending
<1>3. m \in Nat /\ m - 1 \in 1..m /\ m \in 1..m /\ Unique(dsq) /\ dsq[m - 1] \in Tasks
  BY WalkTypes, QueueElements DEF TypeInv, IInv
<1>4. c \in Allowed[dsq[m - 1]]
  BY <1>3 DEF Contains
<1>5. CASE dsq[m - 1] \notin Pending(c)
  BY <1>1, <1>2, <1>3, <1>4, <1>5 DEF Walk
<1>6. CASE dsq[m - 1] = t
  BY <1>1, <1>3, <1>6 DEF Unique
<1>7. CASE dsq[m - 1] \in frame[c].iter
  <2>1. m < m - 1
    BY <1>1, <1>2, <1>3, <1>7 DEF Walk
  <2> QED BY <1>3, <2>1
<1> QED BY <1>2, <1>5, <1>6, <1>7

\* lottery.bpf.c never gives the last of several waiting tasks the prize.
THEOREM LastLoses == Spec => LastNeverDrawn
<1>1. Init => LotteryOK
  BY DEF Init, LotteryOK
<1>2. Spec => [](TypeInv /\ LotteryOK)
  BY <1>1, InitTypeInv, NextTypeInv, NextWalk, PTL DEF Spec
<1>3. TypeInv /\ LotteryOK /\ [Next]_vars =>
        [\A c \in Cpus :
            /\ kind = "lottery" /\ pc[c] = "move" /\ frame[c].task # NoTask
            /\ lot[c].n = Len(dsq) /\ Len(dsq) >= 2
            /\ \A t \in Tasks : Contains(dsq, t) => c \in Allowed[t]
            /\ Contains(local'[c], frame[c].task)
            => frame[c].task # Last(dsq)]_vars
  BY WinnerIsNotLast
<1> QED BY <1>2, <1>3, PTL DEF Spec, LastNeverDrawn
-----------------------------------------------------------------------------
(* What ArrivalsServed rests on.                                           *)

\* Task t is in the queue after the step, no further back than at i, and
\* further in front if a CPU that may run it has just dispatched.
ComesForward(t, i) ==
    \E j \in 1..Len(dsq') :
        /\ dsq'[j] = t /\ j <= i
        /\ \A c \in Allowed[t] : pc[c] = "dispatch" /\ pc'[c] # "dispatch" => j < i

\* Under fifo.bpf.c, sched_ext.bpf.c and fcfs.bpf.c no step puts a task in front
\* of a waiting one, and each dispatch of a CPU that may run it takes it or one
\* in front of it: what is ahead of a task only shrinks.
NobodyOvertakes ==
    kind \in {"fifo", "fcfs"} =>
        \A i \in 1..Len(dsq) :
            (\E c \in Cpus : local'[c] = <<dsq[i]>>) \/ ComesForward(dsq[i], i)

ArrivalsAdvance == [][NobodyOvertakes]_vars

LEMMA StaysQueued ==
    ASSUME IInv, dsq' = dsq, NEW i \in 1..Len(dsq),
           \A c \in Allowed[dsq[i]] : ~(pc[c] = "dispatch" /\ pc'[c] # "dispatch")
    PROVE  ComesForward(dsq[i], i)
  BY QueueElements DEF IInv, ComesForward

LEMMA EnqueueAdvances ==
    ASSUME IInv, NEW c \in Cpus, SchedEnqueue(c), kind \in {"fifo", "fcfs"},
           NEW i \in 1..Len(dsq)
    PROVE  ComesForward(dsq[i], i)
<1>1. /\ dsq[i] \in Tasks /\ Allowed[dsq[i]] \subseteq Cpus /\ Len(dsq) \in Nat
      /\ dsq \in Seq(Tasks)
  BY QueueElements, MiniAssumption DEF IInv, Types
<1>2. frame[c].task \in Tasks
  BY DEF SchedEnqueue, IInv, CpuOK
<1>3. dsq' = Append(dsq, frame[c].task)
  BY <1>2 DEF SchedEnqueue, Inserted
<1>4. i \in 1..Len(dsq') /\ dsq'[i] = dsq[i] /\ i <= i
  BY <1>1, <1>2, <1>3, AppendProperties
<1>5. \A e \in Cpus : ~(pc[e] = "dispatch" /\ pc'[e] # "dispatch")
  BY DEF SchedEnqueue, IInv, Types
<1> QED BY <1>1, <1>4, <1>5 DEF ComesForward

LEMMA DispatchAdvances ==
    ASSUME IInv, NEW c \in Cpus, SchedDispatch(c), NEW i \in 1..Len(dsq)
    PROVE  (\E e \in Cpus : local'[e] = <<dsq[i]>>) \/ ComesForward(dsq[i], i)
<1>1. /\ dsq[i] \in Tasks /\ Allowed[dsq[i]] \subseteq Cpus /\ Len(dsq) \in Nat
      /\ dsq \in Seq(Tasks) /\ i \in Nat /\ i >= 1 /\ i <= Len(dsq)
  BY QueueElements, MiniAssumption DEF IInv, Types
<1>2. \A e \in Cpus \ {c} : pc'[e] = pc[e]
  BY DEF SchedDispatch, TakeAndReturn, EndRound, IInv, Types
<1>3. CASE dsq' = dsq /\ c \notin Allowed[dsq[i]]
  BY <1>1, <1>2, <1>3, StaysQueued
<1>4. ASSUME NEW k \in 1..Len(dsq), FirstAllowed(c, k), TakeAndReturn(c, k)
      PROVE  (\E e \in Cpus : local'[e] = <<dsq[i]>>) \/ ComesForward(dsq[i], i)
  <2>1. /\ Len(dsq') = Len(dsq) - 1
        /\ \A j \in 1..(Len(dsq) - 1) :
              dsq'[j] = IF j < k THEN dsq[j] ELSE dsq[j + 1]
    BY <1>1, <1>4, RemoveAtProperties DEF TakeAndReturn
  <2>2. CASE k = i
    <3>1. local[c] = <<>>
      BY DEF SchedDispatch, IInv, CpuOK
    <3>2. local'[c] = Append(<<>>, dsq[i])
      BY <1>4, <2>2, <3>1 DEF TakeAndReturn, IInv, Types
    <3>3. Append(<<>>, dsq[i]) = <<dsq[i]>>
      OBVIOUS
    <3> QED BY <3>2, <3>3
  <2>3. CASE k < i
    <3>1. /\ i - 1 \in 1..(Len(dsq) - 1) /\ ~(i - 1 < k) /\ (i - 1) + 1 = i
          /\ i - 1 <= i /\ i - 1 < i
      BY <1>1, <2>3
    <3>2. i - 1 \in 1..Len(dsq') /\ dsq'[i - 1] = dsq[i]
      BY <2>1, <3>1
    <3> QED BY <3>1, <3>2 DEF ComesForward
  <2>4. CASE i < k
    <3>1. i \in 1..(Len(dsq) - 1) /\ i \in 1..(k - 1) /\ i <= i
      BY <1>1, <2>4
    <3>2. i \in 1..Len(dsq') /\ dsq'[i] = dsq[i]
      BY <2>1, <2>4, <3>1
    <3>3. c \notin Allowed[dsq[i]]
      BY <1>4, <3>1 DEF FirstAllowed
    <3>4. \A e \in Allowed[dsq[i]] : pc'[e] = pc[e]
      BY <1>1, <1>2, <3>3
    <3> QED BY <3>1, <3>2, <3>4 DEF ComesForward
  <2>5. k = i \/ k < i \/ i < k
    BY <1>1
  <2> QED BY <2>2, <2>3, <2>4, <2>5
<1> QED BY <1>3, <1>4 DEF SchedDispatch

LEMMA StepAdvances ==
    ASSUME IInv, Next, kind \in {"fifo", "fcfs"}, NEW i \in 1..Len(dsq)
    PROVE  (\E c \in Cpus : local'[c] = <<dsq[i]>>) \/ ComesForward(dsq[i], i)
<1>1. dsq[i] \in Tasks /\ Allowed[dsq[i]] \subseteq Cpus
  BY QueueElements, MiniAssumption DEF IInv
<1>2. kind # "none" /\ kind \notin Lotteries
      /\ \A c \in Cpus : pc[c] \notin {"sum", "iterate", "visit", "move"}
  BY DEF IInv, CpuOK, Lotteries
<1>3. CASE dsq' = dsq /\ \A c \in Cpus : ~(pc[c] = "dispatch" /\ pc'[c] # "dispatch")
  BY <1>1, <1>3, StaysQueued
<1>4. CASE \E t \in Tasks : SchedEnable(t) \/ Reap(t)
  BY <1>3, <1>4 DEF SchedEnable, Reap
<1>5. CASE \E c \in Cpus, t \in Tasks : Wake(c, t) \/ WakeToIdle(c, t)
  BY <1>3, <1>5 DEF Wake, WakeToIdle, IInv, Types
<1>6. ASSUME NEW c \in Cpus, CpuStep(c)
      PROVE  (\E e \in Cpus : local'[e] = <<dsq[i]>>) \/ ComesForward(dsq[i], i)
  <2>1. /\ ~StartSum(c) /\ ~AddWeight(c) /\ ~Draw(c) /\ ~Iterate(c)
        /\ ~Visit(c) /\ ~Move(c)
    BY <1>2 DEF StartSum, AddWeight, Draw, Iterate, Visit, Move, Lotteries
  <2>2. CASE Pick(c)
    BY <1>3, <2>2 DEF Pick, IInv, Types
  <2>3. CASE SchedEnqueue(c)
    BY <2>3, EnqueueAdvances
  <2>4. CASE SchedDispatch(c)
    BY <2>4, DispatchAdvances
  <2> QED BY <1>6, <2>1, <2>2, <2>3, <2>4 DEF CpuStep
<1>7. ASSUME NEW c \in Cpus, Tick(c) \/ Resched(c) \/ Sleep(c)
      PROVE  ComesForward(dsq[i], i)
  <2>1. dsq' = dsq /\ pc[c] = "cpu" /\ \A e \in Cpus \ {c} : pc'[e] = pc[e]
    BY <1>7 DEF Tick, Resched, Sleep, EndRound, IInv, Types
  <2> QED BY <1>1, <2>1, StaysQueued
<1>8. ~SchedInit
  BY <1>2 DEF SchedInit
<1> QED BY <1>4, <1>5, <1>6, <1>7, <1>8 DEF Next

\* fifo.bpf.c, sched_ext.bpf.c and fcfs.bpf.c: nobody overtakes a waiting task,
\* and each CPU that may run it brings it closer when it dispatches.  A fair
\* scheduler has then to come to it; that last step is liveness.
THEOREM ArrivalsOnlyAdvance == Spec => ArrivalsAdvance
<1>1. IInv /\ [Next]_vars => [NobodyOvertakes]_vars
  BY StepAdvances DEF NobodyOvertakes
<1> QED BY <1>1, Invariance, PTL DEF Spec, ArrivalsAdvance
-----------------------------------------------------------------------------
(* The clock.                                                              *)

\* vtime.bpf.c: the virtual clock never moves, whatever tasks run: isSmaller
\* compares an unsigned difference with 0.
ClockStill == vtime_now = 0

THEOREM ClockStands == Spec => []ClockStill
<1>1. IInv => ClockStill
  BY DEF IInv, ClockOK, ClockStill
<1> QED BY <1>1, Invariance, PTL
=============================================================================
