-------------------------- MODULE TelemetryProofs --------------------------
(***************************************************************************)
(* For any threads and processes, and any size of the hash and the ring:   *)
(* the types of Telemetry, whose calls are never lost, which entries may   *)
(* stay behind, and that no record of the ring does.                       *)
(***************************************************************************)
EXTENDS Telemetry, FiniteSetTheorems, SequenceTheorems, TLAPS

Steps == {"user", "create", "again", "add", "reserve", "fill"}

Frames == [probe : {"none", "sys_enter", "block_rq_issue", "fork"}, step : Steps,
           ptr : Elems \cup {None}, child : Threads \cup {None}]

\* The hash: no two keys share an element, and it has its size.
HashInv ==
    /\ accum \in [Threads -> Elems \cup {None}]
    /\ total \in [Elems -> Nat]
    /\ Cardinality(Used(accum)) <= Slots
    /\ \A j, k \in Threads : accum[j] = accum[k] /\ accum[j] # None => j = k

RingInv == ring \in Seq(Threads \cup {None}) /\ Len(ring) <= RingCap

\* Who is in which handler.  Only a live thread counts calls, and a thread that
\* a handler is creating does not run yet and is created once.
FrameInv ==
    /\ life \in [Threads -> {"none", "new", "live", "dying"}]
    /\ frame \in [Threads -> Frames]
    /\ \A t \in Threads :
          /\ At(t, "user") => InUser(t)
          /\ ~At(t, "user") => life[t] \in {"live", "dying"}
          /\ At(t, "create") \/ At(t, "again") \/ At(t, "add") =>
                frame[t].probe \in {"sys_enter", "block_rq_issue"}
          /\ At(t, "reserve") \/ At(t, "fill") <=> frame[t].probe = "fork"
          /\ At(t, "add") => frame[t].probe = "sys_enter"
          /\ frame[t].probe = "sys_enter" => life[t] = "live"
          /\ At(t, "add") <=> frame[t].ptr # None
          /\ frame[t].probe = "fork" <=> frame[t].child # None
          /\ frame[t].child # None => life[frame[t].child] = "new"
    /\ \A t, u \in Threads :
          frame[t].child = frame[u].child /\ frame[t].child # None => t = u

HistoryInv == made \in [Threads -> Nat] /\ late \subseteq Threads

\* An entry of a thread that is ending was made late, or by another thread.
LateInv ==
    /\ \A t \in Threads :
          (At(t, "create") \/ At(t, "again")) /\ life[t] = "dying" => Tgid[t] \in late
    /\ \A k \in Threads :
          accum[k] # None /\ life[k] \in {"none", "dying"} =>
              k \in late \/ (Tgid[k] = k /\ ~Single(k))

\* The calls of a process of one thread, from its fork to its exit.
CountInv ==
    \A p \in Threads : Single(p) =>
        /\ life[p] \in {"none", "new"} => made[p] = 0
        /\ life[p] = "live" /\ accum[p] = None => made[p] = 0
        /\ life[p] \in {"new", "live"} /\ accum[p] # None => total[accum[p]] >= made[p]
        /\ At(p, "create") => accum[p] = None
        /\ At(p, "add") => frame[p].ptr = accum[p]

IInv == HashInv /\ RingInv /\ FrameInv /\ HistoryInv /\ LateInv /\ CountInv
-----------------------------------------------------------------------------
(* Lemmas about the hash and about processes.                              *)

\* Membership of the image of accum.
LEMMA UsedFacts ==
    ASSUME NEW a \in [Threads -> Elems \cup {None}]
    PROVE  /\ Used(a) \subseteq Elems
           /\ IsFiniteSet(Used(a))
           /\ \A k \in Threads : a[k] # None => a[k] \in Used(a)
<1>1. Used(a) \subseteq Elems
  BY DEF Used
<1>2. IsFiniteSet(Used(a))
  BY <1>1, FS_Subset, TelemetryAssumption
<1>3. \A k \in Threads : a[k] # None => a[k] \in Used(a)
  BY DEF Used
<1> QED
  BY <1>1, <1>2, <1>3

\* An update keeps the hash well formed, gives the key a zeroed element nobody
\* has, and touches no other entry.  If it fails, the hash is full and the key
\* has none.
LEMMA UpdateFacts ==
    ASSUME HashInv, NEW k \in Threads, Update(k)
    PROVE  /\ HashInv'
           /\ \A j \in Threads \ {k} :
                 /\ accum'[j] = accum[j]
                 /\ accum[j] # None => total'[accum[j]] = total[accum[j]]
           /\ \/ accum'[k] # None /\ total'[accum'[k]] = 0
              \/ accum'[k] = None /\ UNCHANGED <<accum, total>>
<1> USE TelemetryAssumption
<1>1. /\ accum \in [Threads -> Elems \cup {None}]
      /\ total \in [Elems -> Nat]
      /\ Cardinality(Used(accum)) <= Slots
      /\ \A i, j \in Threads : accum[i] = accum[j] /\ accum[i] # None => i = j
  BY DEF HashInv
<1>2. CASE ~(accum[k] # None \/ Cardinality(Used(accum)) < Slots)
  BY <1>1, <1>2 DEF Update, HashInv, Used
<1>3. CASE accum[k] # None \/ Cardinality(Used(accum)) < Slots
  <2>1. PICK e \in Elems \ Used(accum) :
            /\ accum' = [accum EXCEPT ![k] = e]
            /\ total' = [total EXCEPT ![e] = 0]
    BY <1>3 DEF Update
  <2>2. /\ accum' \in [Threads -> Elems \cup {None}] /\ total' \in [Elems -> Nat]
        /\ accum'[k] = e /\ e # None /\ total'[e] = 0
        /\ \A j \in Threads \ {k} : accum'[j] = accum[j]
    BY <1>1, <2>1
  <2>3. \A j \in Threads : accum[j] # None => accum[j] \in Used(accum) /\ accum[j] # e
    BY <1>1, <2>1, UsedFacts
  <2>4. \A i, j \in Threads : accum'[i] = accum'[j] /\ accum'[i] # None => i = j
    BY <1>1, <2>2, <2>3
  <2>5. \A j \in Threads \ {k} : accum[j] # None => total'[accum[j]] = total[accum[j]]
    BY <1>1, <2>1, <2>3
  <2>6. Cardinality(Used(accum')) <= Slots
    <3> DEFINE U == Used(accum)
               rest == U \ {accum[k]}
    <3>1. IsFiniteSet(U) /\ Cardinality(U) \in Nat
      BY <1>1, UsedFacts, FS_CardinalityType
    <3>2. /\ IsFiniteSet(rest)
          /\ Cardinality(rest) = IF accum[k] \in U THEN Cardinality(U) - 1 ELSE Cardinality(U)
      BY <3>1, FS_RemoveElement
    <3>3. accum[k] \in U <=> accum[k] # None
      BY <1>1, UsedFacts DEF Used
    <3>4. Cardinality(rest) \in Nat /\ Cardinality(rest) < Slots
      BY <1>1, <1>3, <3>1, <3>2, <3>3, FS_CardinalityType
    <3>5. Used(accum') \subseteq rest \cup {e}
      <4> SUFFICES ASSUME NEW j \in Threads, accum'[j] # None, accum'[j] # e
                   PROVE  accum'[j] \in rest
        BY DEF Used
      <4>1. j # k /\ accum'[j] = accum[j]
        BY <2>2
      <4> QED
        BY <1>1, <4>1, UsedFacts
    <3>6. /\ IsFiniteSet(rest \cup {e})
          /\ Cardinality(rest \cup {e}) <= Cardinality(rest) + 1
      <4> HIDE DEF rest
      <4>1. /\ IsFiniteSet(rest \cup {e})
            /\ Cardinality(rest \cup {e}) =
                 IF e \in rest THEN Cardinality(rest) ELSE Cardinality(rest) + 1
        BY <3>2, FS_AddElement
      <4> QED
        BY <3>4, <4>1
    <3>7. /\ Cardinality(Used(accum')) <= Cardinality(rest \cup {e})
          /\ Cardinality(Used(accum')) \in Nat /\ Cardinality(rest \cup {e}) \in Nat
      BY <3>5, <3>6, FS_Subset, FS_CardinalityType
    <3> QED
      BY <3>4, <3>6, <3>7
  <2> QED
    BY <2>2, <2>4, <2>5, <2>6 DEF HashInv
<1> QED
  BY <1>2, <1>3

\* The processes: the leader's id is the process id, and the only thread of a
\* process is its leader.
LEMMA ProcessFacts ==
    /\ \A t \in Threads : Tgid[t] \in Threads /\ Tgid[Tgid[t]] = Tgid[t]
    /\ \A p \in Threads : Single(p) => Tgid[p] = p
    /\ \A p, t \in Threads : Single(p) /\ Tgid[t] = p => t = p
  BY TelemetryAssumption DEF Single, Members

LEMMA Initial == Init => IInv
<1> SUFFICES ASSUME Init PROVE IInv
  OBVIOUS
<1> USE TelemetryAssumption DEF Init
<1>1. HashInv
  <2>1. Used(accum) = {}
    BY DEF Used
  <2> QED
    BY <2>1, FS_EmptySet DEF HashInv
<1>2. RingInv
  BY DEF RingInv
<1>3. FrameInv
  BY DEF FrameInv, Frames, Steps, User, In, At, InUser
<1>4. HistoryInv /\ LateInv /\ CountInv
  BY DEF HistoryInv, LateInv, CountInv, At, User, In
<1> QED
  BY <1>1, <1>2, <1>3, <1>4 DEF IInv
-----------------------------------------------------------------------------
(* The invariant is inductive: one lemma for each kind of step.            *)

\* A lookup changes the locals of one handler.
LEMMA LookupsKeep ==
    ASSUME IInv, NEW t \in Threads, SysEnter(t) \/ BlockRqIssue(t) \/ LookupAgain(t)
    PROVE  IInv'
<1> USE TelemetryAssumption
<1> DEFINE e == accum[Tgid[t]]
<1>1. UNCHANGED <<life, accum, total, ring, made>>
  BY DEF SysEnter, BlockRqIssue, LookupAgain
<1>2. HashInv' /\ RingInv'
  BY <1>1 DEF IInv, HashInv, RingInv, Used
<1>3. /\ late' \subseteq Threads /\ late \subseteq late'
      /\ BlockRqIssue(t) /\ life[t] = "dying" => Tgid[t] \in late'
  BY ProcessFacts DEF SysEnter, BlockRqIssue, LookupAgain, IInv, HistoryInv
<1>4. FrameInv /\ e \in Elems \cup {None}
  BY ProcessFacts DEF IInv, HashInv
<1> DEFINE f == frame'[t]
<1> DEFINE Looked ==
          /\ frame' \in [Threads -> Frames]
          /\ \A u \in Threads \ {t} : frame'[u] = frame[u]
          /\ \/ f = User
             \/ /\ SysEnter(t) \/ BlockRqIssue(t)
                /\ e = None /\ f.step = "create" /\ f.ptr = None /\ f.child = None
                /\ f.probe \in {"sys_enter", "block_rq_issue"}
                /\ f.probe = "sys_enter" => life[t] = "live"
             \/ /\ e # None /\ f.step = "add" /\ f.ptr = e /\ f.child = None
                /\ f.probe = "sys_enter" /\ life[t] = "live"
<1>5. Looked
  <2>1. User \in Frames
    BY DEF User, In, Frames, Steps
  <2>2. /\ frame \in [Threads -> Frames]
        /\ frame[t].probe = "sys_enter" => life[t] = "live"
    BY <1>4 DEF FrameInv
  <2>3. ASSUME NEW pr \in {"sys_enter", "block_rq_issue"}, Lookup(t, pr),
               SysEnter(t) \/ BlockRqIssue(t), pr = "sys_enter" => life[t] = "live"
        PROVE  Looked
    <3>1. CASE e = None
      BY <2>2, <2>3, <3>1 DEF Lookup, In, Frames, Steps
    <3>2. CASE e # None /\ pr = "sys_enter"
      BY <1>4, <2>2, <2>3, <3>2 DEF Lookup, Found, In, Frames, Steps
    <3>3. CASE e # None /\ pr # "sys_enter"
      BY <2>1, <2>2, <2>3, <3>3 DEF Lookup, Found, Return
    <3> QED
      BY <3>1, <3>2, <3>3
  <2>4. CASE SysEnter(t)
    BY <2>3, <2>4 DEF SysEnter
  <2>5. CASE BlockRqIssue(t)
    BY <2>3, <2>5 DEF BlockRqIssue
  <2>6. CASE LookupAgain(t)
    <3>1. CASE e # None /\ frame[t].probe = "sys_enter"
      BY <1>4, <2>2, <2>6, <3>1 DEF LookupAgain, Again, Found, In, Frames, Steps
    <3>2. CASE ~(e # None /\ frame[t].probe = "sys_enter")
      BY <2>1, <2>2, <2>6, <3>2 DEF LookupAgain, Again, Found, Return
    <3> QED
      BY <3>1, <3>2
  <2> QED
    BY <2>4, <2>5, <2>6
<1>6. life[t] \in {"live", "dying"}
  BY <1>4 DEF SysEnter, BlockRqIssue, LookupAgain, FrameInv, At
<1> HIDE DEF e
<1>7. FrameInv'
  BY <1>1, <1>4, <1>5, <1>6 DEF FrameInv, At, InUser, User, In, f
<1>8. LateInv'
  BY <1>1, <1>3, <1>5 DEF IInv, LateInv, At, User, In, f, SysEnter
<1>9. CountInv'
  BY <1>1, <1>5, ProcessFacts DEF IInv, CountInv, At, User, In, f, e
<1> QED
  BY <1>1, <1>2, <1>3, <1>7, <1>8, <1>9 DEF IInv, HistoryInv

\* Creating an accumulator.  Only the thread itself creates that of a process
\* of one thread, which then has counted nothing.
LEMMA CreateKeeps ==
    ASSUME IInv, NEW t \in Threads, Create(t)
    PROVE  IInv'
<1> USE TelemetryAssumption
<1> DEFINE k == Tgid[t]
<1>1. /\ UNCHANGED <<life, ring, made, late>>
      /\ Update(k) /\ k \in Threads /\ At(t, "create")
  BY ProcessFacts DEF Create
<1>2. /\ frame \in [Threads -> Frames] /\ life[t] \in {"live", "dying"}
      /\ frame[t].probe \in {"sys_enter", "block_rq_issue"}
      /\ frame[t].ptr = None /\ frame[t].child = None
  BY <1>1 DEF IInv, FrameInv, At, Frames
<1>3. /\ frame' \in [Threads -> Frames]
      /\ \A u \in Threads \ {t} : frame'[u] = frame[u]
      /\ frame'[t].step = "again" /\ frame'[t].probe = frame[t].probe
      /\ frame'[t].ptr = None /\ frame'[t].child = None
  BY <1>2 DEF Create, Goto, Frames, Steps
<1>4. /\ HashInv'
      /\ \A j \in Threads \ {k} :
            /\ accum'[j] = accum[j]
            /\ accum[j] # None => total'[accum[j]] = total[accum[j]]
      /\ \/ accum'[k] # None /\ total'[accum'[k]] = 0
         \/ accum'[k] = None /\ UNCHANGED <<accum, total>>
  BY <1>1, UpdateFacts DEF IInv
<1>5. RingInv' /\ HistoryInv'
  BY <1>1 DEF IInv, RingInv, HistoryInv
<1>6. FrameInv'
  BY <1>1, <1>2, <1>3 DEF IInv, FrameInv, At, InUser, User, In
<1>7. LateInv'
  <2>1. \A u \in Threads :
          (At(u, "create") \/ At(u, "again"))' /\ life'[u] = "dying" => Tgid[u] \in late'
    BY <1>1, <1>3 DEF IInv, LateInv, At
  <2>2. life[k] \in {"none", "dying"} => k \in late \/ (Tgid[k] = k /\ ~Single(k))
    <3>1. CASE t = k
      BY <1>1, <1>2, <3>1, ProcessFacts DEF IInv, LateInv
    <3>2. CASE t # k
      BY <1>1, <3>2, ProcessFacts
    <3> QED
      BY <3>1, <3>2
  <2> QED
    BY <1>1, <1>4, <2>1, <2>2 DEF IInv, LateInv
<1>8. CountInv'
  <2> SUFFICES ASSUME NEW p \in Threads, Single(p)
               PROVE  /\ life'[p] \in {"none", "new"} => made'[p] = 0
                      /\ life'[p] = "live" /\ accum'[p] = None => made'[p] = 0
                      /\ life'[p] \in {"new", "live"} /\ accum'[p] # None =>
                            total'[accum'[p]] >= made'[p]
                      /\ At(p, "create")' => accum'[p] = None
                      /\ At(p, "add")' => frame'[p].ptr = accum'[p]
    BY DEF CountInv
  <2>1. CASE p = k
    <3>1. t = p /\ accum[p] = None
      BY <1>1, <2>1, ProcessFacts DEF IInv, CountInv
    <3>2. life[p] = "live" => made[p] = 0
      BY <3>1 DEF IInv, CountInv
    <3> QED
      BY <1>1, <1>2, <1>3, <1>4, <2>1, <3>1, <3>2 DEF At
  <2>2. CASE p # k
    <3>1. t # p
      BY <2>2, ProcessFacts
    <3> QED
      BY <1>1, <1>3, <1>4, <2>2, <3>1 DEF IInv, CountInv, At
  <2> QED
    BY <2>1, <2>2
<1> QED
  BY <1>4, <1>5, <1>6, <1>7, <1>8 DEF IInv

\* Adding to whatever element the handler holds.
LEMMA AddKeeps ==
    ASSUME IInv, NEW t \in Threads, Add(t)
    PROVE  IInv'
<1> USE TelemetryAssumption
<1> DEFINE e == frame[t].ptr
<1>1. /\ UNCHANGED <<life, accum, ring, late>>
      /\ At(t, "add")
      /\ total' = [total EXCEPT ![e] = total[e] + 1]
      /\ made' = [made EXCEPT ![Tgid[t]] = made[Tgid[t]] + 1]
      /\ frame' = [frame EXCEPT ![t] = User]
  BY DEF Add, Return
<1>2. /\ FrameInv /\ HashInv /\ HistoryInv
      /\ e \in Elems /\ life[t] = "live" /\ Tgid[t] \in Threads
  BY <1>1, ProcessFacts DEF IInv, FrameInv, Frames
<1>3. /\ total \in [Elems -> Nat] /\ total' \in [Elems -> Nat]
      /\ \A x \in Elems : total'[x] >= total[x]
      /\ total'[e] = total[e] + 1
      /\ made' \in [Threads -> Nat]
      /\ \A p \in Threads : made'[p] = IF p = Tgid[t] THEN made[p] + 1 ELSE made[p]
  BY <1>1, <1>2 DEF HashInv, HistoryInv
<1>4. /\ frame' \in [Threads -> Frames]
      /\ \A u \in Threads : frame'[u] = IF u = t THEN User ELSE frame[u]
  BY <1>1, <1>2 DEF FrameInv, Frames, Steps, User, In
<1>5. HashInv' /\ RingInv' /\ HistoryInv'
  BY <1>1, <1>2, <1>3 DEF IInv, HashInv, RingInv, HistoryInv, Used
<1>6. FrameInv'
  BY <1>1, <1>2, <1>4 DEF FrameInv, At, InUser, User, In
<1>7. LateInv'
  BY <1>1, <1>4 DEF IInv, LateInv, At, User, In
<1>8. CountInv'
  <2> SUFFICES ASSUME NEW p \in Threads, Single(p)
               PROVE  /\ life'[p] \in {"none", "new"} => made'[p] = 0
                      /\ life'[p] = "live" /\ accum'[p] = None => made'[p] = 0
                      /\ life'[p] \in {"new", "live"} /\ accum'[p] # None =>
                            total'[accum'[p]] >= made'[p]
                      /\ At(p, "create")' => accum'[p] = None
                      /\ At(p, "add")' => frame'[p].ptr = accum'[p]
    BY DEF CountInv
  <2>1. CASE p = Tgid[t]
    <3>1. t = p
      BY <2>1, ProcessFacts
    <3>2. e = accum[p] /\ e # None /\ total[e] >= made[p] /\ total[e] \in Nat /\ made[p] \in Nat
      BY <1>1, <1>2, <1>3, <3>1 DEF IInv, CountInv, HistoryInv
    <3> QED
      BY <1>1, <1>2, <1>3, <1>4, <2>1, <3>1, <3>2 DEF At, User, In
  <2>2. CASE p # Tgid[t]
    <3>1. t # p
      BY <2>2, ProcessFacts
    <3>2. accum[p] # None => /\ total'[accum[p]] >= total[accum[p]]
                             /\ total'[accum[p]] \in Nat /\ total[accum[p]] \in Nat
      BY <1>2, <1>3 DEF HashInv
    <3>3. made[p] \in Nat
      BY <1>2 DEF HistoryInv
    <3> QED
      BY <1>1, <1>3, <1>4, <2>2, <3>1, <3>2, <3>3 DEF IInv, CountInv, At
  <2> QED
    BY <2>1, <2>2
<1> QED
  BY <1>5, <1>6, <1>7, <1>8 DEF IInv

\* A fork takes an id nobody has, so no handler is about that thread yet.
LEMMA ForkKeeps ==
    ASSUME IInv, NEW t \in Threads, NEW u \in Threads, Fork(t, u)
    PROVE  IInv'
<1> USE TelemetryAssumption
<1>1. /\ UNCHANGED <<ring, made>>
      /\ life[t] = "live" /\ InUser(t) /\ life[u] = "none" /\ t # u
      /\ Tgid[u] = u => Gone(u)
      /\ life' = [life EXCEPT ![u] = "new"]
      /\ late' = late \ {u}
      /\ Update(u)
      /\ frame' = [frame EXCEPT ![t] = In("fork", "reserve", None, u)]
  BY DEF Fork, ForkKey
<1>2. /\ FrameInv /\ HashInv /\ HistoryInv
      /\ life \in [Threads -> {"none", "new", "live", "dying"}]
  BY DEF IInv, FrameInv
<1>3. /\ frame' \in [Threads -> Frames]
      /\ \A x \in Threads \ {t} : frame'[x] = frame[x]
      /\ frame'[t].step = "reserve" /\ frame'[t].probe = "fork"
      /\ frame'[t].ptr = None /\ frame'[t].child = u
  BY <1>1, <1>2 DEF FrameInv, Frames, Steps, In
<1>4. /\ HashInv'
      /\ \A j \in Threads \ {u} :
            /\ accum'[j] = accum[j]
            /\ accum[j] # None => total'[accum[j]] = total[accum[j]]
      /\ \/ accum'[u] # None /\ total'[accum'[u]] = 0
         \/ accum'[u] = None /\ UNCHANGED <<accum, total>>
  BY <1>1, <1>2, UpdateFacts
<1>5. /\ life' \in [Threads -> {"none", "new", "live", "dying"}]
      /\ life'[u] = "new" /\ \A x \in Threads \ {u} : life'[x] = life[x]
  BY <1>1, <1>2
<1>6. RingInv' /\ HistoryInv'
  BY <1>1, <1>2 DEF IInv, RingInv, HistoryInv
<1>7. FrameInv'
  <2>1. \A x \in Threads : frame[x].child # None =>
            frame[x].child # u /\ frame[x].child \in Threads
    BY <1>1, <1>2 DEF FrameInv, Frames
  <2> QED
    BY <1>1, <1>2, <1>3, <1>5, <2>1 DEF FrameInv, At, InUser, User, In
<1>8. LateInv'
  <2>1. ASSUME NEW x \in Threads, (At(x, "create") \/ At(x, "again"))', life'[x] = "dying"
        PROVE  Tgid[x] \in late'
    <3>1. x # u /\ x # t /\ life[x] = "dying" /\ Tgid[x] \in late
      BY <1>1, <1>3, <1>5, <2>1 DEF IInv, LateInv, At
    <3>2. Tgid[x] # u
      BY <1>1, <3>1, ProcessFacts DEF Gone, Members
    <3> QED
      BY <1>1, <3>1, <3>2
  <2> QED
    BY <1>1, <1>4, <1>5, <2>1 DEF IInv, LateInv
<1>9. CountInv'
  <2> SUFFICES ASSUME NEW p \in Threads, Single(p)
               PROVE  /\ life'[p] \in {"none", "new"} => made'[p] = 0
                      /\ life'[p] = "live" /\ accum'[p] = None => made'[p] = 0
                      /\ life'[p] \in {"new", "live"} /\ accum'[p] # None =>
                            total'[accum'[p]] >= made'[p]
                      /\ At(p, "create")' => accum'[p] = None
                      /\ At(p, "add")' => frame'[p].ptr = accum'[p]
    BY DEF CountInv
  <2>1. CASE p = u
    BY <1>1, <1>2, <1>3, <1>4, <1>5, <2>1 DEF IInv, CountInv, FrameInv, At
  <2>2. CASE p # u
    BY <1>1, <1>3, <1>4, <1>5, <2>2 DEF IInv, CountInv, At
  <2> QED
    BY <2>1, <2>2
<1> QED
  BY <1>4, <1>6, <1>7, <1>8, <1>9 DEF IInv

\* The rest of the fork handler: a record, and the new thread may run.
LEMMA RecordKeeps ==
    ASSUME IInv, NEW t \in Threads, Reserve(t) \/ FillAndSubmit(t)
    PROVE  IInv'
<1> USE TelemetryAssumption
<1> DEFINE u == frame[t].child
<1>1. UNCHANGED <<accum, total, made, late>> /\ (At(t, "reserve") \/ At(t, "fill"))
  BY DEF Reserve, FillAndSubmit
<1>2. /\ FrameInv /\ ring \in Seq(Threads \cup {None}) /\ Len(ring) <= RingCap
      /\ u \in Threads /\ life[u] = "new" /\ frame[t].ptr = None
      /\ life[t] \in {"live", "dying"} /\ t # u /\ frame[t].probe = "fork"
  BY <1>1 DEF IInv, RingInv, FrameInv, Frames, At
<1>3. \/ /\ life' = life /\ frame' = [frame EXCEPT ![t].step = "fill"]
      \/ life' = [life EXCEPT ![u] = "live"] /\ frame' = [frame EXCEPT ![t] = User]
  BY DEF Reserve, FillAndSubmit, ReturnFork, Return, Goto
<1>4. RingInv'
  <2>1. CASE Reserve(t) /\ Len(ring) < RingCap
    BY <1>2, <2>1, AppendProperties, LenProperties DEF Reserve, RingInv
  <2>2. CASE Reserve(t) /\ ~(Len(ring) < RingCap)
    BY <1>2, <2>2 DEF Reserve, RingInv
  <2>3. CASE FillAndSubmit(t)
    <3>1. ring' = [i \in DOMAIN ring |-> IF ring[i] = t THEN None ELSE ring[i]]
      BY <2>3 DEF FillAndSubmit, Submitted
    <3>2. /\ DOMAIN ring = 1..Len(ring) /\ Len(ring) \in Nat
          /\ \A i \in 1..Len(ring) : ring[i] \in Threads \cup {None}
      BY <1>2, LenProperties, ElementOfSeq
    <3>3. ring' \in [1..Len(ring) -> Threads \cup {None}]
      BY <3>1, <3>2
    <3>4. ring' \in Seq(Threads \cup {None}) /\ Len(ring') = Len(ring)
      BY <3>2, <3>3, IsASeq, LenProperties
    <3> QED
      BY <1>2, <3>4 DEF RingInv
  <2> QED
    BY <2>1, <2>2, <2>3
<1>5. CASE life' = life /\ frame' = [frame EXCEPT ![t].step = "fill"]
  <2>1. /\ frame' \in [Threads -> Frames]
        /\ \A x \in Threads \ {t} : frame'[x] = frame[x]
        /\ frame'[t].step = "fill" /\ frame'[t].probe = "fork"
        /\ frame'[t].ptr = None /\ frame'[t].child = u
    BY <1>2, <1>5 DEF FrameInv, Frames, Steps
  <2>2. FrameInv'
    <3>1. \A x \in Threads : /\ frame'[x].child = frame[x].child
                             /\ frame'[x].probe = frame[x].probe
                             /\ frame'[x].ptr = frame[x].ptr
      BY <1>2, <2>1
    <3> QED
      BY <1>1, <1>2, <1>5, <2>1, <3>1 DEF FrameInv, At, InUser
  <2>3. HashInv' /\ HistoryInv' /\ LateInv' /\ CountInv'
    BY <1>1, <1>5, <2>1 DEF IInv, HashInv, HistoryInv, LateInv, CountInv, At, Used
  <2> QED
    BY <1>4, <2>2, <2>3 DEF IInv
<1>6. CASE life' = [life EXCEPT ![u] = "live"] /\ frame' = [frame EXCEPT ![t] = User]
  <2>1. /\ frame' \in [Threads -> Frames]
        /\ \A x \in Threads : frame'[x] = IF x = t THEN User ELSE frame[x]
        /\ life' \in [Threads -> {"none", "new", "live", "dying"}]
        /\ \A x \in Threads : life'[x] = IF x = u THEN "live" ELSE life[x]
    BY <1>2, <1>6 DEF FrameInv, Frames, Steps, User, In
  <2>2. \A x \in Threads \ {t} : frame[x].child # u
    BY <1>2 DEF FrameInv
  <2>3. FrameInv'
    <3> DEFINE Local(x) ==
                  /\ At(x, "user") => InUser(x)
                  /\ ~At(x, "user") => life[x] \in {"live", "dying"}
                  /\ At(x, "create") \/ At(x, "again") \/ At(x, "add") =>
                        frame[x].probe \in {"sys_enter", "block_rq_issue"}
                  /\ At(x, "reserve") \/ At(x, "fill") <=> frame[x].probe = "fork"
                  /\ At(x, "add") => frame[x].probe = "sys_enter"
                  /\ frame[x].probe = "sys_enter" => life[x] = "live"
                  /\ At(x, "add") <=> frame[x].ptr # None
                  /\ frame[x].probe = "fork" <=> frame[x].child # None
    <3>1. ASSUME NEW x \in Threads PROVE Local(x)'
      <4>1. CASE x = t
        BY <2>1, <4>1 DEF At, InUser, User, In
      <4>2. CASE x # t
        <5>1. frame'[x] = frame[x] /\ (life'[x] = life[x] \/ life'[x] = "live")
          BY <2>1, <4>2
        <5> QED
          BY <1>2, <5>1 DEF FrameInv, At, InUser
      <4> QED
        BY <4>1, <4>2
    <3>2. ASSUME NEW x \in Threads, frame'[x].child # None
          PROVE  life'[frame'[x].child] = "new"
      <4>1. x # t /\ frame'[x] = frame[x]
        BY <2>1, <3>2 DEF User, In
      <4>2. frame[x].child \in Threads /\ frame[x].child # u /\ life[frame[x].child] = "new"
        BY <1>2, <2>2, <3>2, <4>1 DEF FrameInv, Frames
      <4> QED
        BY <2>1, <4>1, <4>2
    <3>3. ASSUME NEW x \in Threads, NEW y \in Threads,
                 frame'[x].child = frame'[y].child, frame'[x].child # None
          PROVE  x = y
      BY <1>2, <2>1, <3>3 DEF FrameInv, User, In
    <3> QED
      BY <2>1, <3>1, <3>2, <3>3 DEF FrameInv
  <2>4. HashInv' /\ HistoryInv'
    BY <1>1 DEF IInv, HashInv, HistoryInv, Used
  <2>5. LateInv' /\ CountInv'
    BY <1>1, <1>2, <2>1 DEF IInv, LateInv, CountInv, At, User, In
  <2> QED
    BY <1>4, <2>3, <2>4, <2>5 DEF IInv
<1> QED
  BY <1>3, <1>5, <1>6

\* The end of a thread: its exit handler deletes what has its id.
LEMMA ExitKeeps ==
    ASSUME IInv, NEW t \in Threads, SchedExit(t)
    PROVE  IInv'
<1> USE TelemetryAssumption
<1>1. /\ UNCHANGED <<frame, total, ring, made, late>>
      /\ life[t] = "live" /\ InUser(t)
      /\ life' = [life EXCEPT ![t] = "dying"]
      /\ accum' = [accum EXCEPT ![t] = None]
  BY DEF SchedExit, ExitKey
<1>2. FrameInv /\ HashInv
  BY DEF IInv
<1>3. /\ life' \in [Threads -> {"none", "new", "live", "dying"}]
      /\ \A x \in Threads : life'[x] = IF x = t THEN "dying" ELSE life[x]
      /\ accum' \in [Threads -> Elems \cup {None}]
      /\ \A x \in Threads : accum'[x] = IF x = t THEN None ELSE accum[x]
  BY <1>1, <1>2 DEF FrameInv, HashInv
<1>4. HashInv'
  <2>1. Used(accum') \subseteq Used(accum)
    BY <1>3 DEF Used
  <2>2. /\ IsFiniteSet(Used(accum)) /\ Cardinality(Used(accum)) \in Nat
        /\ IsFiniteSet(Used(accum')) /\ Cardinality(Used(accum')) \in Nat
        /\ Cardinality(Used(accum')) <= Cardinality(Used(accum))
    BY <1>2, <2>1, UsedFacts, FS_Subset, FS_CardinalityType DEF HashInv
  <2> QED
    BY <1>1, <1>2, <1>3, <2>2 DEF HashInv
<1>5. RingInv' /\ HistoryInv'
  BY <1>1 DEF IInv, RingInv, HistoryInv
<1>6. FrameInv'
  BY <1>1, <1>2, <1>3 DEF FrameInv, At, InUser, User, In
<1>7. LateInv' /\ CountInv'
  BY <1>1, <1>3 DEF IInv, LateInv, CountInv, At, InUser, User, In
<1> QED
  BY <1>4, <1>5, <1>6, <1>7 DEF IInv

LEMMA ReapKeeps ==
    ASSUME IInv, NEW t \in Threads, Reap(t)
    PROVE  IInv'
<1> USE TelemetryAssumption
<1>1. /\ UNCHANGED <<frame, accum, total, ring, late>>
      /\ life[t] = "dying" /\ InUser(t)
      /\ life' = [life EXCEPT ![t] = "none"]
      /\ made' = IF \A u \in Members(Tgid[t]) \ {t} : life[u] = "none"
                 THEN [made EXCEPT ![Tgid[t]] = 0] ELSE made
  BY DEF Reap
<1>2. FrameInv /\ HistoryInv
  BY DEF IInv
<1>3. /\ life' \in [Threads -> {"none", "new", "live", "dying"}]
      /\ \A x \in Threads : life'[x] = IF x = t THEN "none" ELSE life[x]
      /\ made' \in [Threads -> Nat]
      /\ \A x \in Threads : made'[x] \in {0, made[x]}
  BY <1>1, <1>2, ProcessFacts DEF FrameInv, HistoryInv
<1>4. Single(t) => made'[t] = 0
  BY <1>1, <1>2, ProcessFacts DEF Single, HistoryInv
<1>5. HashInv' /\ RingInv' /\ HistoryInv'
  BY <1>1, <1>2, <1>3 DEF IInv, HashInv, RingInv, HistoryInv, Used
<1>6. FrameInv'
  BY <1>1, <1>2, <1>3 DEF FrameInv, At, InUser, User, In
<1>7. LateInv'
  BY <1>1, <1>3 DEF IInv, LateInv, At, InUser, User, In
<1>8. CountInv'
  <2> SUFFICES ASSUME NEW p \in Threads, Single(p)
               PROVE  /\ life'[p] \in {"none", "new"} => made'[p] = 0
                      /\ life'[p] = "live" /\ accum'[p] = None => made'[p] = 0
                      /\ life'[p] \in {"new", "live"} /\ accum'[p] # None =>
                            total'[accum'[p]] >= made'[p]
                      /\ At(p, "create")' => accum'[p] = None
                      /\ At(p, "add")' => frame'[p].ptr = accum'[p]
    BY DEF CountInv
  <2>1. CASE p = t
    BY <1>1, <1>3, <1>4, <2>1 DEF IInv, CountInv, At, InUser, User, In
  <2>2. CASE p # t
    <3>1. made'[p] = made[p] \/ made'[p] = 0
      BY <1>3
    <3>2. accum[p] # None => total[accum[p]] \in Nat
      BY DEF IInv, HashInv
    <3> QED
      BY <1>1, <1>2, <1>3, <2>2, <3>1, <3>2 DEF IInv, CountInv, HistoryInv, At
  <2> QED
    BY <2>1, <2>2
<1> QED
  BY <1>5, <1>6, <1>7, <1>8 DEF IInv

LEMMA ConsumeKeeps == IInv /\ Consume => IInv'
<1> SUFFICES ASSUME IInv, Consume PROVE IInv'
  OBVIOUS
<1> USE TelemetryAssumption
<1>1. UNCHANGED <<life, frame, accum, total, made, late>>
  BY DEF Consume
<1>2. /\ ring \in Seq(Threads \cup {None}) /\ Len(ring) <= RingCap
      /\ ring # <<>> /\ ring' = Tail(ring)
  BY DEF Consume, IInv, RingInv
<1>3. /\ Tail(ring) \in Seq(Threads \cup {None}) /\ Len(Tail(ring)) = Len(ring) - 1
      /\ Len(ring) \in Nat
  BY <1>2, HeadTailProperties, LenProperties
<1>4. RingInv'
  BY <1>2, <1>3 DEF RingInv
<1> QED
  BY <1>1, <1>4 DEF IInv, HashInv, FrameInv, HistoryInv, LateInv, CountInv, Used,
         At, InUser

LEMMA Inductive == IInv /\ [Next]_vars => IInv'
<1> SUFFICES ASSUME IInv, [Next]_vars PROVE IInv'
  OBVIOUS
<1>1. CASE Next
  BY <1>1, LookupsKeep, CreateKeeps, AddKeeps, ForkKeeps, RecordKeeps, ExitKeeps,
     ReapKeeps, ConsumeKeeps DEF Next, Handler
<1>2. CASE UNCHANGED vars
  BY <1>2 DEF vars, IInv, HashInv, RingInv, FrameInv, HistoryInv, LateInv, CountInv,
         Used, At, InUser
<1> QED
  BY <1>1, <1>2

LEMMA InvariantHolds == Spec => []IInv
  BY Initial, Inductive, PTL DEF Spec
-----------------------------------------------------------------------------
\* The hash never exceeds its size, the ring its capacity, and only a handler
\* that found an element adds to one.
THEOREM TypeCorrect == Spec => []TypeOK
<1>1. IInv => TypeOK
  BY DEF IInv, HashInv, RingInv, FrameInv, HistoryInv, TypeOK, Frames, Steps, At
<1> QED
  BY <1>1, InvariantHolds, PTL

\* No handler of another process, no reuse of an element and no stale pointer
\* takes a count from a process of one thread.
THEOREM CallsAreCounted == Spec => []OwnCallsCounted
<1>1. IInv => OwnCallsCounted
  BY DEF IInv, CountInv, OwnCallsCounted
<1> QED
  BY <1>1, InvariantHolds, PTL

\* The two ways to leave an entry behind are the only ones.
THEOREM LeaksAreKnown == Spec => []NoLeak
<1>1. IInv => NoLeak
  BY DEF IInv, LateInv, NoLeak
<1> QED
  BY <1>1, InvariantHolds, PTL
-----------------------------------------------------------------------------
(* What RingFlows rests on, for every size.                                *)

\* A record that holds up the consumer has one handler, which is about to submit
\* it; no handler loses its record, though threads end and are created anew.
RecordsOwned ==
    /\ \A i \in 1..Len(ring) : ring[i] # None => At(ring[i], "fill")
    /\ \A i, j \in 1..Len(ring) : ring[i] = ring[j] /\ ring[i] # None => i = j
    /\ \A t \in Threads : At(t, "fill") => \E i \in 1..Len(ring) : ring[i] = t

\* Steps of handlers that have no record.
LEMMA OthersKeepRecords ==
    ASSUME IInv, RecordsOwned, UNCHANGED ring, NEW t \in Threads,
           frame[t].step # "fill", NEW f, f.step # "fill",
           frame' = [frame EXCEPT ![t] = f]
    PROVE  RecordsOwned'
<1>1. \A u \in Threads : At(u, "fill")' <=> At(u, "fill")
  BY DEF At, IInv, FrameInv
<1>2. \A i \in 1..Len(ring) : ring[i] # None => ring[i] \in Threads
  BY ElementOfSeq DEF IInv, RingInv
<1> QED
  BY <1>1, <1>2 DEF RecordsOwned

LEMMA ReserveKeepsRecords ==
    ASSUME IInv, RecordsOwned, NEW t \in Threads, Reserve(t) PROVE RecordsOwned'
<1>1. /\ frame \in [Threads -> Frames] /\ frame[t].step = "reserve"
      /\ ring \in Seq(Threads \cup {None}) /\ t # None
  BY TelemetryAssumption DEF IInv, FrameInv, RingInv, Reserve, At
<1>2. CASE Len(ring) < RingCap
  <2>1. ring' = Append(ring, t) /\ frame' = [frame EXCEPT ![t].step = "fill"]
    BY <1>2 DEF Reserve, Goto
  <2>2. /\ Len(ring) \in Nat /\ Len(ring') = Len(ring) + 1 /\ ring'[Len(ring) + 1] = t
        /\ \A i \in 1..Len(ring) : ring'[i] = ring[i] /\ ring[i] \in Threads \cup {None}
    BY <1>1, <2>1, AppendProperties, LenProperties, ElementOfSeq
  <2>3. \A u \in Threads : At(u, "fill")' <=> At(u, "fill") \/ u = t
    BY <1>1, <2>1 DEF At, Frames
  <2>4. \A i \in 1..Len(ring) : ring[i] # t
    BY <1>1 DEF RecordsOwned, At
  <2>5. \A i \in 1..Len(ring') : i \in 1..Len(ring) \/ i = Len(ring) + 1
    BY <2>2
  <2>6. \A i \in 1..Len(ring') : ring'[i] # None => frame'[ring'[i]].step = "fill"
    <3> SUFFICES ASSUME NEW i \in 1..Len(ring'), ring'[i] # None
                 PROVE  frame'[ring'[i]].step = "fill"
      OBVIOUS
    <3>1. CASE i \in 1..Len(ring)
      <4>1. ring'[i] = ring[i] /\ ring[i] \in Threads /\ At(ring[i], "fill")
        BY <2>2, <3>1 DEF RecordsOwned
      <4>2. frame'[ring[i]].step = "fill"
        BY <2>3, <4>1 DEF At
      <4> QED
        BY <4>1, <4>2
    <3>2. CASE i = Len(ring) + 1
      <4>1. ring'[i] = t /\ frame'[t].step = "fill"
        BY <2>2, <2>3, <3>2 DEF At
      <4> QED
        BY <4>1
    <3> QED
      BY <2>5, <3>1, <3>2
  <2>7. \A i, j \in 1..Len(ring') : ring'[i] = ring'[j] /\ ring'[i] # None => i = j
    BY <2>2, <2>4, <2>5 DEF RecordsOwned
  <2>8. \A u \in Threads : At(u, "fill")' => \E i \in 1..Len(ring') : ring'[i] = u
    <3> SUFFICES ASSUME NEW u \in Threads, At(u, "fill")'
                 PROVE  \E i \in 1..Len(ring') : ring'[i] = u
      OBVIOUS
    <3>1. CASE u = t
      <4>1. Len(ring) + 1 \in 1..Len(ring')
        BY <2>2
      <4> QED
        BY <2>2, <3>1, <4>1
    <3>2. CASE u # t
      <4>1. PICK i \in 1..Len(ring) : ring[i] = u
        BY <2>3, <3>2 DEF RecordsOwned
      <4>2. i \in 1..Len(ring') /\ ring'[i] = u
        BY <2>2, <4>1
      <4> QED
        BY <4>2
    <3> QED
      BY <3>1, <3>2
  <2> QED
    BY <2>6, <2>7, <2>8 DEF RecordsOwned, At
<1>3. CASE ~(Len(ring) < RingCap)
  <2>1. ring' = ring /\ frame' = [frame EXCEPT ![t] = User] /\ User.step # "fill"
    BY <1>3 DEF Reserve, ReturnFork, Return, User, In
  <2> QED
    BY <1>1, <2>1, OthersKeepRecords
<1> QED
  BY <1>2, <1>3

LEMMA SubmitKeepsRecords ==
    ASSUME IInv, RecordsOwned, NEW t \in Threads, FillAndSubmit(t) PROVE RecordsOwned'
<1>1. ring \in Seq(Threads \cup {None}) /\ DOMAIN ring = 1..Len(ring) /\ Len(ring) \in Nat
  BY LenProperties DEF IInv, RingInv
<1>2. ring' = [i \in 1..Len(ring) |-> IF ring[i] = t THEN None ELSE ring[i]]
  BY <1>1 DEF FillAndSubmit, Submitted
<1>3. Len(ring') = Len(ring)
  <2>1. ring' \in Seq(Threads \cup {None}) /\ DOMAIN ring' = 1..Len(ring)
    BY <1>1, <1>2, ElementOfSeq, IsASeq
  <2> QED
    BY <1>1, <2>1, LenProperties
<1>4. \A i \in 1..Len(ring) : ring'[i] = IF ring[i] = t THEN None ELSE ring[i]
  BY <1>2
<1>5. \A u \in Threads : At(u, "fill")' <=> At(u, "fill") /\ u # t
  BY DEF FillAndSubmit, ReturnFork, Return, At, User, In, IInv, FrameInv
<1>6. \A i \in 1..Len(ring) : ring[i] \in Threads \cup {None}
  BY <1>1, ElementOfSeq
<1>7. \A i \in 1..Len(ring') : ring'[i] # None => frame'[ring'[i]].step = "fill"
  <2> SUFFICES ASSUME NEW i \in 1..Len(ring'), ring'[i] # None
               PROVE  frame'[ring'[i]].step = "fill"
    OBVIOUS
  <2>1. ring'[i] = ring[i] /\ ring[i] # t /\ ring[i] \in Threads /\ At(ring[i], "fill")
    BY <1>3, <1>4, <1>6 DEF RecordsOwned
  <2>2. frame'[ring[i]].step = "fill"
    BY <1>5, <2>1 DEF At
  <2> QED
    BY <2>1, <2>2
<1>8. \A i, j \in 1..Len(ring') : ring'[i] = ring'[j] /\ ring'[i] # None => i = j
  BY <1>3, <1>4 DEF RecordsOwned
<1>9. \A u \in Threads : At(u, "fill")' => \E i \in 1..Len(ring') : ring'[i] = u
  BY <1>3, <1>4, <1>5 DEF RecordsOwned
<1> QED
  BY <1>7, <1>8, <1>9 DEF RecordsOwned, At

LEMMA ConsumeKeepsRecords == ASSUME IInv, RecordsOwned, Consume PROVE RecordsOwned'
<1>1. /\ ring \in Seq(Threads \cup {None}) /\ ring # <<>> /\ ring[1] = None
      /\ ring' = Tail(ring) /\ frame' = frame
  BY DEF IInv, RingInv, Consume
<1>2. /\ Len(ring) \in Nat \ {0} /\ Len(ring') = Len(ring) - 1
      /\ \A i \in 1..(Len(ring) - 1) : ring'[i] = ring[i + 1]
  BY <1>1, HeadTailProperties, EmptySeq, LenProperties
<1>3. \A i \in 1..Len(ring') : i + 1 \in 1..Len(ring) /\ ring'[i] = ring[i + 1]
  BY <1>2
<1>4. \A i \in 1..Len(ring') : ring'[i] # None => frame'[ring'[i]].step = "fill"
  BY <1>1, <1>3 DEF RecordsOwned, At
<1>5. \A i, j \in 1..Len(ring') : ring'[i] = ring'[j] /\ ring'[i] # None => i = j
  <2> SUFFICES ASSUME NEW i \in 1..Len(ring'), NEW j \in 1..Len(ring'),
                      ring'[i] = ring'[j], ring'[i] # None
               PROVE  i = j
    OBVIOUS
  <2>1. i + 1 = j + 1
    BY <1>3 DEF RecordsOwned
  <2> QED
    BY <2>1
<1>6. \A u \in Threads : At(u, "fill")' => \E i \in 1..Len(ring') : ring'[i] = u
  <2> SUFFICES ASSUME NEW u \in Threads, At(u, "fill")
               PROVE  \E i \in 1..Len(ring') : ring'[i] = u
    BY <1>1 DEF At
  <2>1. PICK i \in 1..Len(ring) : ring[i] = u
    BY DEF RecordsOwned
  <2>2. i # 1
    BY <1>1, <2>1, TelemetryAssumption
  <2>3. i - 1 \in 1..Len(ring') /\ ring'[i - 1] = ring[i]
    BY <1>2, <2>2
  <2> QED
    BY <2>1, <2>3
<1> QED
  BY <1>4, <1>5, <1>6 DEF RecordsOwned, At

LEMMA StepsKeepRecords == IInv /\ RecordsOwned /\ [Next]_vars => RecordsOwned'
<1> SUFFICES ASSUME IInv, RecordsOwned, [Next]_vars PROVE RecordsOwned'
  OBVIOUS
<1> USE DEF At, InUser, User, In, Goto, Return
<1>1. frame \in [Threads -> Frames]
  BY DEF IInv, FrameInv
<1>2. CASE UNCHANGED <<ring, frame>>
  BY <1>2 DEF RecordsOwned
<1>3. ASSUME NEW t \in Threads, SysEnter(t) \/ BlockRqIssue(t) \/ LookupAgain(t)
      PROVE  RecordsOwned'
  <2>1. /\ ring' = ring /\ frame[t].step # "fill"
        /\ \E f : f.step # "fill" /\ frame' = [frame EXCEPT ![t] = f]
    BY <1>3 DEF SysEnter, BlockRqIssue, LookupAgain, Lookup, Again, Found
  <2> QED
    BY <2>1, OthersKeepRecords
<1>4. ASSUME NEW t \in Threads, Create(t) PROVE RecordsOwned'
  <2>1. /\ ring' = ring /\ frame[t].step # "fill"
        /\ frame' = [frame EXCEPT ![t] = [frame[t] EXCEPT !.step = "again"]]
    BY <1>4 DEF Create
  <2>2. [frame[t] EXCEPT !.step = "again"].step # "fill"
    BY <1>1 DEF Frames
  <2> QED
    BY <2>1, <2>2, OthersKeepRecords
<1>5. ASSUME NEW t \in Threads, Add(t) PROVE RecordsOwned'
  <2>1. /\ ring' = ring /\ frame[t].step # "fill"
        /\ \E f : f.step # "fill" /\ frame' = [frame EXCEPT ![t] = f]
    BY <1>5 DEF Add
  <2> QED
    BY <2>1, OthersKeepRecords
<1>6. ASSUME NEW t \in Threads, NEW u \in Threads, Fork(t, u) PROVE RecordsOwned'
  <2> DEFINE f == In("fork", "reserve", None, u)
  <2>1. ring' = ring /\ frame[t] = User /\ frame' = [frame EXCEPT ![t] = f]
    BY <1>6 DEF Fork
  <2>2. f.step # "fill" /\ User.step # "fill"
    OBVIOUS
  <2> HIDE DEF f
  <2> QED
    BY <2>1, <2>2, OthersKeepRecords
<1> QED
  BY <1>2, <1>3, <1>4, <1>5, <1>6,
     ReserveKeepsRecords, SubmitKeepsRecords, ConsumeKeepsRecords
     DEF Next, Handler, SchedExit, Reap, vars

\* No record is left reserved: the one that blocks the consumer is submitted by
\* the next step of its handler.
THEOREM RecordsAreOwned == Spec => []RecordsOwned
<1>1. Init => RecordsOwned
  BY DEF Init, RecordsOwned, At, User, In
<1> QED
  BY <1>1, Initial, Inductive, StepsKeepRecords, PTL DEF Spec
=============================================================================
