----------------------- MODULE CommandDelivery_proofs -----------------------
(***************************************************************************)
(* Command delivery for any number of agents, polls and commands, any cap  *)
(* and any size of the applied file: typing, no acknowledgement before the *)
(* work, no second execution unless a crash lost the id, and delivery      *)
(* counts that never shrink, on which the cap depends.                     *)
(***************************************************************************)
EXTENDS CommandDelivery, SequenceTheorems, TLAPS

USE CapAssumption, BoundsAssumption

-----------------------------------------------------------------------------
\* Sequences of ids

\* Appending an id adds it to the ids of a sequence, and nothing else.
LEMMA IdsAppend ==
  ASSUME NEW q \in Seq(Nat), NEW i \in Nat
  PROVE  /\ Append(q, i) \in Seq(Nat)
         /\ Ids(Append(q, i)) = Ids(q) \cup {i}
<1> DEFINE t == Append(q, i)
<1>1. /\ t \in Seq(Nat)
      /\ DOMAIN t = 1..(Len(q) + 1)
      /\ \A k \in 1..Len(q) : t[k] = q[k]
      /\ t[Len(q) + 1] = i
  BY AppendProperties
<1>2. DOMAIN q = 1..Len(q) /\ Len(q) \in Nat
  OBVIOUS
<1> HIDE DEF t
<1>3. Ids(t) \subseteq Ids(q) \cup {i}
  BY <1>1, <1>2 DEF Ids
<1>4. Ids(q) \subseteq Ids(t) /\ i \in Ids(t)
  BY <1>1, <1>2 DEF Ids
<1> QED
  BY <1>1, <1>3, <1>4 DEF t

\* The file keeps ids of the set, and only those.
LEMMA IdsLastRetained ==
  ASSUME NEW q \in Seq(Nat)
  PROVE  /\ LastRetained(q) \in Seq(Nat)
         /\ Ids(LastRetained(q)) \subseteq Ids(q)
<1>1. CASE Len(q) <= Retained
  BY <1>1 DEF LastRetained
<1>2. CASE ~(Len(q) <= Retained)
  <2> DEFINE m == Len(q) - Retained + 1
             t == SubSeq(q, m, Len(q))
  <2>1. m \in 1..Len(q)
    BY <1>2
  <2>2. t \in Seq(Nat) /\ Len(t) = Retained
    BY <2>1, SubSeqProperties
  <2>3. \A k \in 1..Len(t) : t[k] = q[m + k - 1] /\ m + k - 1 \in DOMAIN q
    BY <2>1, <2>2, SubSeqProperties
  <2>4. Ids(t) \subseteq Ids(q)
    BY <2>2, <2>3 DEF Ids
  <2> QED
    BY <1>2, <2>2, <2>4 DEF LastRetained
<1> QED
  BY <1>1, <1>2

-----------------------------------------------------------------------------
\* Typing.  A program point that holds a command id holds one of a row of that
\* agent: without this the updates of rows[i] would mean nothing.

RowsOK == rows \in Seq(Row)

PollBound(table, a, p) ==
  /\ p.pc = "sweep" => p.todo \subseteq DOMAIN table
  /\ p.pc = "save" => p.row \in DOMAIN table /\ table[p.row].agent = a
PollsOK == /\ polls \in [Agent -> [Slot -> Poll]]
           /\ \A a \in Agent, s \in Slot : PollBound(rows, a, polls[a][s])

Holding == {"got", "running", "ack", "ackwait"}
ProcBound(a, p) ==
  p.pc \in Holding => p.cmd \in DOMAIN rows /\ rows[p.cmd].agent = a
ProcsOK == /\ procs \in [Agent -> Proc]
           /\ \A a \in Agent : ProcBound(a, procs[a])

AcksOK == acks \subseteq Ack /\ \A k \in acks : k.row \in DOMAIN rows

IdsOK == /\ applied \in [Agent -> Seq(Nat)]
         /\ disk \in [Agent -> Seq(Nat)]
         /\ writes \in [Agent -> SUBSET Seq(Nat)]
         /\ handled \subseteq Nat
         /\ retired \subseteq Nat
         /\ forgotten \in [Agent -> SUBSET Nat]
idVars == <<applied, disk, writes, handled, retired, forgotten>>

TypeInv == RowsOK /\ PollsOK /\ ProcsOK /\ AcksOK /\ IdsOK

LEMMA TypeInvTypes == TypeInv => TypeOK
BY DEF TypeInv, RowsOK, PollsOK, ProcsOK, AcksOK, IdsOK, TypeOK

LEMMA RowTypes ==
  ASSUME RowsOK, NEW i \in DOMAIN rows
  PROVE  /\ i \in Nat
         /\ rows[i] \in Row
         /\ rows[i].agent \in Agent
         /\ rows[i].count \in 0..Cap
         /\ rows[i].leased \in BOOLEAN
<1>1. i \in Nat /\ rows[i] \in Row
  BY DEF RowsOK
<1> QED
  BY <1>1 DEF Row

\* The table only grows, and no row changes hands.
RowsKept == /\ DOMAIN rows \subseteq DOMAIN rows'
            /\ \A i \in DOMAIN rows : rows'[i].agent = rows[i].agent

\* Rewriting columns of one row keeps the table.
LEMMA RowsRewritten ==
  ASSUME RowsOK, NEW i \in DOMAIN rows, NEW r \in Row, r.agent = rows[i].agent,
         rows' = [rows EXCEPT ![i] = r]
  PROVE  RowsOK' /\ RowsKept /\ DOMAIN rows' = DOMAIN rows
<1>1. i \in 1..Len(rows) /\ rows \in Seq(Row)
  BY DEF RowsOK
<1> QED
  BY <1>1, ExceptSeq DEF RowsKept, RowsOK

LEMMA RowsAppended ==
  ASSUME RowsOK, NEW r \in Row, rows' = Append(rows, r)
  PROVE  RowsOK' /\ RowsKept
BY DEF RowsOK, RowsKept

LEMMA RowsUnchanged ==
  ASSUME rows' = rows
  PROVE  (RowsOK => RowsOK') /\ RowsKept
BY DEF RowsOK, RowsKept

\* What is bound to a row stays bound to it while its own variable stands.
LEMMA PollsKept ==
  ASSUME PollsOK, RowsKept, polls' = polls
  PROVE  PollsOK'
BY DEF PollsOK, RowsKept, PollBound

LEMMA ProcsKept ==
  ASSUME ProcsOK, RowsKept, procs' = procs
  PROVE  ProcsOK'
BY DEF ProcsOK, RowsKept, ProcBound

LEMMA AcksKept ==
  ASSUME AcksOK, RowsKept, acks' = acks
  PROVE  AcksOK'
BY DEF AcksOK, RowsKept

LEMMA IdsKept ==
  ASSUME IdsOK, UNCHANGED idVars
  PROVE  IdsOK'
BY DEF IdsOK, idVars

\* One poll, one process: the new value has to be typed and bound.
LEMMA PollSet ==
  ASSUME PollsOK, RowsKept, NEW a \in Agent, NEW s \in Slot, NEW p \in Poll,
         PollBound(rows, a, p), polls' = [polls EXCEPT ![a][s] = p]
  PROVE  PollsOK'
<1>1. polls' \in [Agent -> [Slot -> Poll]]
  BY DEF PollsOK
<1>3. PollBound(rows, a, p)'
  BY DEF RowsKept, PollBound
<1>4. ASSUME NEW b \in Agent, NEW t \in Slot
      PROVE  PollBound(rows, b, polls[b][t])'
  <2>1. CASE b = a /\ t = s
    BY <2>1, <1>3 DEF PollsOK, PollBound
  <2>2. CASE ~(b = a /\ t = s)
    <3>1. polls'[b][t] = polls[b][t]
      BY <2>2 DEF PollsOK
    <3> QED
      BY <3>1 DEF PollsOK, PollBound, RowsKept
  <2> QED
    BY <2>1, <2>2
<1> QED
  BY <1>1, <1>4 DEF PollsOK

LEMMA ProcSet ==
  ASSUME ProcsOK, RowsKept, NEW a \in Agent, NEW p \in Proc,
         ProcBound(a, p), procs' = [procs EXCEPT ![a] = p]
  PROVE  ProcsOK'
<1>1. procs' \in [Agent -> Proc]
  BY DEF ProcsOK
<1>2. ASSUME NEW b \in Agent
      PROVE  ProcBound(b, procs[b])'
  BY DEF ProcsOK, ProcBound, RowsKept
<1> QED
  BY <1>1, <1>2 DEF ProcsOK

LEMMA ClosedPollOK == ClosedPoll \in Poll /\ \A a \in Agent : PollBound(rows, a, ClosedPoll)
BY DEF ClosedPoll, Poll, PollBound

LEMMA IdleOK == /\ Idle \in Proc /\ Down \in Proc
                /\ \A a \in Agent : ProcBound(a, Idle) /\ ProcBound(a, Down)
BY DEF Idle, Down, Proc, ProcBound, Holding

-----------------------------------------------------------------------------
\* The steps of the API

LEMMA QueueTyped ==
  ASSUME TypeInv, NEW a \in Agent, queue(a)
  PROVE  TypeInv'
<1> DEFINE r == [agent |-> a, count |-> 0, leased |-> FALSE, acked |-> FALSE]
<1>1. r \in Row /\ rows' = Append(rows, r)
  BY DEF Row, queue
<1>2. RowsOK' /\ RowsKept
  BY <1>1, RowsAppended DEF TypeInv
<1> QED
  BY <1>2, PollsKept, ProcsKept, AcksKept, IdsKept DEF TypeInv, queue, agentVars, idVars

LEMMA ListAbandonedTyped ==
  ASSUME TypeInv, NEW a \in Agent, NEW s \in Slot, ListAbandoned(a, s)
  PROVE  TypeInv'
<1> DEFINE p == [polls[a][s] EXCEPT !.pc = IF abandoned(a) = {} THEN "find" ELSE "sweep",
                                    !.todo = abandoned(a)]
<1>1. abandoned(a) \subseteq DOMAIN rows /\ DOMAIN rows \subseteq Nat
  BY RowTypes DEF abandoned, TypeInv
<1>2. polls[a][s] \in Poll
  BY DEF TypeInv, PollsOK
<1>3. p \in Poll /\ PollBound(rows, a, p)
  BY <1>1, <1>2 DEF Poll, PollBound
<1>4. polls' = [polls EXCEPT ![a][s] = p]
  BY DEF ListAbandoned, TypeInv, PollsOK
<1>5. RowsOK' /\ RowsKept
  BY RowsUnchanged DEF TypeInv, ListAbandoned
<1> QED
  BY <1>3, <1>4, <1>5, PollSet, ProcsKept, AcksKept, IdsKept
     DEF TypeInv, ListAbandoned, agentVars, idVars

LEMMA RetireTyped ==
  ASSUME TypeInv, NEW a \in Agent, NEW s \in Slot, retire(a, s)
  PROVE  TypeInv'
<1>1. PICK i \in polls[a][s].todo :
        /\ rows' = [rows EXCEPT ![i].acked = TRUE]
        /\ retired' = retired \cup {i}
        /\ polls' = [polls EXCEPT ![a][s].todo = polls[a][s].todo \ {i},
                                  ![a][s].pc = IF polls[a][s].todo = {i}
                                               THEN "find" ELSE "sweep"]
  BY DEF retire
<1> DEFINE r == [rows[i] EXCEPT !.acked = TRUE]
           p == [polls[a][s] EXCEPT !.todo = polls[a][s].todo \ {i},
                                    !.pc = IF polls[a][s].todo = {i} THEN "find" ELSE "sweep"]
<1>2. polls[a][s] \in Poll /\ PollBound(rows, a, polls[a][s]) /\ polls[a][s].pc = "sweep"
  BY DEF TypeInv, PollsOK, retire
<1>3. i \in DOMAIN rows
  BY <1>2 DEF PollBound
<1>4. rows[i] \in Row /\ i \in Nat
  BY <1>3, RowTypes DEF TypeInv
<1>5. r \in Row /\ r.agent = rows[i].agent /\ rows' = [rows EXCEPT ![i] = r]
  BY <1>1, <1>3, <1>4 DEF Row
<1>6. RowsOK' /\ RowsKept
  BY <1>3, <1>5, RowsRewritten DEF TypeInv
<1>7. p \in Poll /\ PollBound(rows, a, p)
  BY <1>2 DEF Poll, PollBound
<1>8. polls' = [polls EXCEPT ![a][s] = p]
  BY <1>1 DEF TypeInv, PollsOK
<1>9. IdsOK'
  BY <1>1, <1>4 DEF TypeInv, IdsOK, retire, agentVars
<1> QED
  BY <1>6, <1>7, <1>8, <1>9, PollSet, ProcsKept, AcksKept DEF TypeInv, retire, agentVars

LEMMA FindPendingTyped ==
  ASSUME TypeInv, NEW a \in Agent, NEW s \in Slot, FindPending(a, s)
  PROVE  TypeInv'
<1>1. PICK i \in Deliverable(a) :
        polls' = [polls EXCEPT ![a][s].pc = "save", ![a][s].row = i,
                               ![a][s].count = rows[i].count]
  BY DEF FindPending
<1> DEFINE p == [polls[a][s] EXCEPT !.pc = "save", !.row = i, !.count = rows[i].count]
<1>2. i \in DOMAIN rows /\ rows[i].agent = a /\ rows[i].count < Cap
  BY DEF Deliverable
<1>3. i \in Nat /\ rows[i].count \in 0..(Cap - 1)
  BY <1>2, RowTypes DEF TypeInv
<1>4. polls[a][s] \in Poll
  BY DEF TypeInv, PollsOK
<1>5. p \in Poll /\ PollBound(rows, a, p)
  BY <1>2, <1>3, <1>4 DEF Poll, PollBound
<1>6. polls' = [polls EXCEPT ![a][s] = p]
  BY <1>1 DEF TypeInv, PollsOK
<1>7. RowsOK' /\ RowsKept
  BY RowsUnchanged DEF TypeInv, FindPending
<1> QED
  BY <1>5, <1>6, <1>7, PollSet, ProcsKept, AcksKept, IdsKept
     DEF TypeInv, FindPending, agentVars, idVars

LEMMA WindowEndsTyped ==
  ASSUME TypeInv, NEW a \in Agent, NEW s \in Slot, WindowEnds(a, s)
  PROVE  TypeInv'
<1>1. RowsOK' /\ RowsKept
  BY RowsUnchanged DEF TypeInv, WindowEnds
<1>2. PollsOK'
  BY <1>1, ClosedPollOK, PollSet DEF TypeInv, WindowEnds
<1>3. ProcsOK'
  <2>1. procs' = procs \/ procs' = [procs EXCEPT ![a] = Idle]
    BY DEF WindowEnds
  <2> QED
    BY <1>1, <2>1, IdleOK, ProcSet, ProcsKept DEF TypeInv
<1> QED
  BY <1>1, <1>2, <1>3, AcksKept, IdsKept DEF TypeInv, WindowEnds, idVars

LEMMA SaveDeliveryTyped ==
  ASSUME TypeInv, NEW a \in Agent, NEW s \in Slot, SaveDelivery(a, s)
  PROVE  TypeInv'
<1> DEFINE i == polls[a][s].row
           c == polls[a][s].count
           r == [rows[i] EXCEPT !.count = c + 1, !.leased = TRUE, !.acked = FALSE]
<1>1. polls[a][s] \in Poll /\ PollBound(rows, a, polls[a][s]) /\ polls[a][s].pc = "save"
  BY DEF TypeInv, PollsOK, SaveDelivery
<1>2. i \in DOMAIN rows /\ rows[i].agent = a /\ c \in 0..(Cap - 1)
  BY <1>1 DEF PollBound, Poll
<1>3. rows[i] \in Row /\ i \in Nat /\ c + 1 \in 0..Cap
  BY <1>2, RowTypes DEF TypeInv
<1>4. r \in Row /\ r.agent = rows[i].agent
  BY <1>3 DEF Row
<1>5. rows' = [rows EXCEPT ![i] = r]
  BY <1>2, <1>3 DEF SaveDelivery
<1>6. RowsOK' /\ RowsKept
  BY <1>2, <1>4, <1>5, RowsRewritten DEF TypeInv
<1>7. PollsOK'
  <2> DEFINE q(t) == IF t = s \/ polls[a][t].pc = "closed" THEN ClosedPoll
                     ELSE [polls[a][t] EXCEPT !.since = @ \cup {i}]
  <2>1. polls' = [polls EXCEPT ![a] = [t \in Slot |-> q(t)]]
    BY DEF SaveDelivery
  <2>2. ASSUME NEW t \in Slot
        PROVE  q(t) \in Poll /\ PollBound(rows', a, q(t))
    <3>1. polls[a][t] \in Poll /\ PollBound(rows, a, polls[a][t])
      BY DEF TypeInv, PollsOK
    <3>2. [polls[a][t] EXCEPT !.since = @ \cup {i}] \in Poll
      BY <1>3, <3>1 DEF Poll
    <3>3. q(t) \in Poll
      BY <3>2, ClosedPollOK
    <3>4. \/ q(t) = ClosedPoll
          \/ /\ q(t).pc = polls[a][t].pc
             /\ q(t).todo = polls[a][t].todo
             /\ q(t).row = polls[a][t].row
      BY <3>1 DEF Poll
    <3> QED
      BY <3>1, <3>3, <3>4, <1>6 DEF PollBound, RowsKept, ClosedPoll
  <2> HIDE DEF q
  <2>3. polls' \in [Agent -> [Slot -> Poll]]
    BY <2>1, <2>2 DEF TypeInv, PollsOK
  <2>4. ASSUME NEW b \in Agent, NEW t \in Slot
        PROVE  PollBound(rows, b, polls[b][t])'
    <3>1. CASE b = a
      <4>1. polls'[b][t] = q(t)
        BY <2>1, <3>1 DEF TypeInv, PollsOK
      <4> QED
        BY <4>1, <2>2, <3>1
    <3>2. CASE b # a
      <4>1. polls'[b][t] = polls[b][t]
        BY <2>1, <3>2 DEF TypeInv, PollsOK
      <4> QED
        BY <4>1, <1>6 DEF TypeInv, PollsOK, PollBound, RowsKept
    <3> QED
      BY <3>1, <3>2
  <2> QED
    BY <2>3, <2>4 DEF PollsOK
<1>8. ProcsOK'
  <2> DEFINE g == [pc |-> "got", slot |-> 0, cmd |-> i]
  <2>1. procs' = procs \/ procs' = [procs EXCEPT ![a] = Idle] \/ procs' = [procs EXCEPT ![a] = g]
    BY DEF SaveDelivery
  <2>2. g \in Proc /\ ProcBound(a, g)
    BY <1>2, <1>3 DEF Proc, ProcBound
  <2> HIDE DEF g
  <2> QED
    BY <1>6, <2>1, <2>2, IdleOK, ProcSet, ProcsKept DEF TypeInv
<1> QED
  BY <1>6, <1>7, <1>8, AcksKept, IdsKept DEF TypeInv, SaveDelivery, idVars

LEMMA LeaseExpiresTyped ==
  ASSUME TypeInv, NEW i \in DOMAIN rows, LeaseExpires(i)
  PROVE  TypeInv'
<1> DEFINE r == [rows[i] EXCEPT !.leased = FALSE]
<1>1. rows[i] \in Row
  BY RowTypes DEF TypeInv
<1>2. r \in Row /\ r.agent = rows[i].agent /\ rows' = [rows EXCEPT ![i] = r]
  BY <1>1 DEF Row, LeaseExpires
<1>3. RowsOK' /\ RowsKept
  BY <1>2, RowsRewritten DEF TypeInv
<1> QED
  BY <1>3, PollsKept, ProcsKept, AcksKept, IdsKept DEF TypeInv, LeaseExpires, agentVars, idVars

LEMMA AckSaveTyped ==
  ASSUME TypeInv, NEW k \in acks, AckSave(k)
  PROVE  TypeInv'
<1> DEFINE i == k.row
           r == [rows[i] EXCEPT !.count = k.count, !.leased = k.leased, !.acked = TRUE]
           a == rows[i].agent
<1>1. i \in DOMAIN rows /\ k.count \in 0..Cap /\ k.leased \in BOOLEAN
  BY DEF TypeInv, AcksOK, Ack
<1>2. rows[i] \in Row /\ a \in Agent
  BY <1>1, RowTypes DEF TypeInv
<1>3. r \in Row /\ r.agent = rows[i].agent
  BY <1>1, <1>2 DEF Row
<1>4. rows' = [rows EXCEPT ![i] = r]
  BY <1>1, <1>2 DEF AckSave
<1>5. RowsOK' /\ RowsKept
  BY <1>1, <1>3, <1>4, RowsRewritten DEF TypeInv
<1>6. ProcsOK'
  <2>1. procs' = procs \/ procs' = [procs EXCEPT ![a] = Idle]
    BY DEF AckSave
  <2> QED
    BY <1>2, <1>5, <2>1, IdleOK, ProcSet, ProcsKept DEF TypeInv
<1>7. AcksOK'
  BY <1>5 DEF AckSave, TypeInv, AcksOK, RowsKept
<1> QED
  BY <1>5, <1>6, <1>7, PollsKept, IdsKept DEF TypeInv, AckSave, idVars

-----------------------------------------------------------------------------
\* The steps of an agent

LEMMA OpenPollTyped ==
  ASSUME TypeInv, NEW a \in Agent, OpenPoll(a)
  PROVE  TypeInv'
<1>1. PICK s \in Slot :
        /\ polls' = [polls EXCEPT ![a][s] = [ClosedPoll EXCEPT !.pc = "enter"]]
        /\ procs' = [procs EXCEPT ![a] = [pc |-> "waiting", slot |-> s, cmd |-> 0]]
  BY DEF OpenPoll
<1> DEFINE p == [ClosedPoll EXCEPT !.pc = "enter"]
           w == [pc |-> "waiting", slot |-> s, cmd |-> 0]
<1>2. p \in Poll /\ PollBound(rows, a, p)
  BY DEF Poll, ClosedPoll, PollBound
<1>3. w \in Proc /\ ProcBound(a, w)
  BY DEF Proc, ProcBound, Holding
<1>4. RowsOK' /\ RowsKept
  BY RowsUnchanged DEF TypeInv, OpenPoll
<1>5. PollsOK' /\ ProcsOK'
  BY <1>1, <1>2, <1>3, <1>4, PollSet, ProcSet DEF TypeInv
<1> QED
  BY <1>4, <1>5, AcksKept, IdsKept DEF TypeInv, OpenPoll, idVars

\* The steps that only move the process.
LEMMA ProcStepTyped ==
  ASSUME TypeInv, NEW a \in Agent,
         HandleDuplicate(a) \/ Dispatch(a) \/ HandlerThrows(a) \/ AckFails(a)
  PROVE  TypeInv'
<1>1. UNCHANGED apiVars /\ UNCHANGED idVars
  BY DEF HandleDuplicate, Dispatch, HandlerThrows, AckFails, apiVars, idVars
<1>2. RowsOK' /\ RowsKept
  BY <1>1, RowsUnchanged DEF TypeInv, apiVars
<1>3. PICK p \in {Idle, [procs[a] EXCEPT !.pc = "ack"], [procs[a] EXCEPT !.pc = "running"]} :
        /\ procs' = [procs EXCEPT ![a] = p]
        /\ p # Idle => procs[a].pc = "got"
  BY DEF HandleDuplicate, Dispatch, HandlerThrows, AckFails, TypeInv, ProcsOK
<1>4. procs[a] \in Proc /\ ProcBound(a, procs[a])
  BY DEF TypeInv, ProcsOK
<1>5. p \in Proc /\ ProcBound(a, p)
  <2>1. CASE p = Idle
    BY <2>1, IdleOK
  <2>2. CASE p # Idle
    BY <2>2, <1>3, <1>4 DEF Proc, ProcBound, Holding
  <2> QED
    BY <2>1, <2>2
<1>6. ProcsOK'
  BY <1>2, <1>3, <1>5, ProcSet DEF TypeInv
<1> QED
  BY <1>1, <1>2, <1>6, PollsKept, AcksKept, IdsKept DEF TypeInv, apiVars

LEMMA RecordTyped ==
  ASSUME TypeInv, NEW a \in Agent, Record(a)
  PROVE  TypeInv'
<1> DEFINE now == Append(applied[a], procs[a].cmd)
           p == [procs[a] EXCEPT !.pc = "ack"]
<1>1. procs[a] \in Proc /\ ProcBound(a, procs[a]) /\ procs[a].pc = "running"
  BY DEF TypeInv, ProcsOK, Record
<1>2. procs[a].cmd \in Nat /\ applied[a] \in Seq(Nat)
  BY <1>1 DEF Proc, TypeInv, IdsOK
<1>3. now \in Seq(Nat) /\ LastRetained(now) \in Seq(Nat)
  BY <1>2, IdsAppend, IdsLastRetained
<1>4. p \in Proc /\ ProcBound(a, p)
  BY <1>1 DEF Proc, ProcBound, Holding
<1>5. procs' = [procs EXCEPT ![a] = p]
  BY DEF Record, TypeInv, ProcsOK
<1>6. RowsOK' /\ RowsKept
  BY RowsUnchanged DEF TypeInv, Record, apiVars
<1>7. IdsOK'
  BY <1>2, <1>3 DEF TypeInv, IdsOK, Record, apiVars
<1>8. ProcsOK'
  BY <1>4, <1>5, <1>6, ProcSet DEF TypeInv
<1> QED
  BY <1>6, <1>7, <1>8, PollsKept, AcksKept DEF TypeInv, Record, apiVars

LEMMA AckFindTyped ==
  ASSUME TypeInv, NEW a \in Agent, AckFind(a)
  PROVE  TypeInv'
<1> DEFINE i == procs[a].cmd
           k == [row |-> i, count |-> rows[i].count, leased |-> rows[i].leased]
           p == [procs[a] EXCEPT !.pc = "ackwait"]
<1>1. procs[a] \in Proc /\ ProcBound(a, procs[a]) /\ procs[a].pc = "ack"
  BY DEF TypeInv, ProcsOK, AckFind
<1>2. i \in DOMAIN rows
  BY <1>1 DEF ProcBound, Holding
<1>3. k \in Ack
  BY <1>2, RowTypes DEF TypeInv, Ack
<1>4. p \in Proc /\ ProcBound(a, p)
  BY <1>1 DEF Proc, ProcBound, Holding
<1>5. \/ procs' = [procs EXCEPT ![a] = Idle] /\ acks' = acks
      \/ procs' = [procs EXCEPT ![a] = p] /\ acks' = acks \cup {k}
  BY DEF AckFind, TypeInv, ProcsOK
<1>6. RowsOK' /\ RowsKept /\ rows' = rows
  BY RowsUnchanged DEF TypeInv, AckFind
<1>7. AcksOK'
  BY <1>2, <1>3, <1>5, <1>6 DEF TypeInv, AcksOK
<1>8. ProcsOK'
  BY <1>4, <1>5, <1>6, IdleOK, ProcSet DEF TypeInv
<1> QED
  BY <1>6, <1>7, <1>8, PollsKept, IdsKept DEF TypeInv, AckFind, idVars

\* The steps that leave the API's side and the commands in hand alone, or put
\* the process down or up.
LEMMA FileStepTyped ==
  ASSUME TypeInv, NEW a \in Agent, WriteEnds(a) \/ Crash(a) \/ Restart(a)
  PROVE  TypeInv'
<1>1. RowsOK' /\ RowsKept
  BY RowsUnchanged DEF TypeInv, WriteEnds, Crash, Restart, apiVars
<1>2. ProcsOK'
  <2>1. \/ procs' = procs
        \/ procs' = [procs EXCEPT ![a] = Idle]
        \/ procs' = [procs EXCEPT ![a] = Down]
    BY DEF WriteEnds, Crash, Restart
  <2> QED
    BY <1>1, <2>1, IdleOK, ProcSet, ProcsKept DEF TypeInv
<1>3. IdsOK'
  <2>1. CASE WriteEnds(a)
    <3>1. /\ disk' \in [Agent -> Seq(Nat)]
          /\ writes' \in [Agent -> SUBSET Seq(Nat)]
      BY <2>1, EmptySeq DEF WriteEnds, TypeInv, IdsOK
    <3> QED
      BY <2>1, <3>1 DEF WriteEnds, TypeInv, IdsOK, apiVars
  <2>2. CASE Crash(a)
    <3>1. PICK left \in {disk[a]} \cup writes[a] \cup (IF writes[a] = {} THEN {} ELSE {<<>>}) :
            /\ disk' = [disk EXCEPT ![a] = left]
            /\ forgotten' = [forgotten EXCEPT ![a] = @ \cup (Ids(applied[a]) \ Ids(left))]
      BY <2>2 DEF Crash
    <3>2. left \in Seq(Nat)
      BY EmptySeq DEF TypeInv, IdsOK
    <3>3. applied[a] \in Seq(Nat)
      BY DEF TypeInv, IdsOK
    <3>4. Ids(applied[a]) \subseteq Nat
      BY <3>3 DEF Ids
    <3>5. forgotten' \in [Agent -> SUBSET Nat] /\ disk' \in [Agent -> Seq(Nat)]
      BY <3>1, <3>2, <3>4 DEF TypeInv, IdsOK
    <3>6. applied' \in [Agent -> Seq(Nat)] /\ writes' \in [Agent -> SUBSET Seq(Nat)]
      BY <2>2, EmptySeq DEF Crash, TypeInv, IdsOK
    <3> QED
      BY <2>2, <3>5, <3>6 DEF Crash, TypeInv, IdsOK, apiVars
  <2>3. CASE Restart(a)
    BY <2>3 DEF Restart, TypeInv, IdsOK, apiVars
  <2> QED
    BY <2>1, <2>2, <2>3
<1> QED
  BY <1>1, <1>2, <1>3, PollsKept, AcksKept DEF TypeInv, WriteEnds, Crash, Restart, apiVars

LEMMA TypeInductive == TypeInv /\ [Next]_vars => TypeInv'
<1> SUFFICES ASSUME TypeInv, [Next]_vars
             PROVE  TypeInv'
  OBVIOUS
<1>1. ASSUME NEW a \in Agent, NEW s \in Slot, PollStep(a, s)
      PROVE  TypeInv'
  BY <1>1, ListAbandonedTyped, RetireTyped, FindPendingTyped, WindowEndsTyped, SaveDeliveryTyped
     DEF PollStep
<1>2. ASSUME NEW a \in Agent, HandleStep(a)
      PROVE  TypeInv'
  BY <1>2, ProcStepTyped, RecordTyped, AckFindTyped DEF HandleStep
<1>3. CASE UNCHANGED vars
  <2>1. RowsOK' /\ RowsKept
    BY <1>3, RowsUnchanged DEF vars, TypeInv
  <2> QED
    BY <1>3, <2>1, PollsKept, ProcsKept, AcksKept, IdsKept DEF vars, TypeInv, idVars
<1> QED
  BY <1>1, <1>2, <1>3, QueueTyped, OpenPollTyped, ProcStepTyped, FileStepTyped,
     LeaseExpiresTyped, AckSaveTyped DEF Next

LEMMA TypeInitial == Init => TypeInv
<1> SUFFICES ASSUME Init
             PROVE  TypeInv
  OBVIOUS
<1>1. RowsOK /\ AcksOK /\ IdsOK
  BY EmptySeq DEF Init, RowsOK, AcksOK, IdsOK
<1>2. PollsOK /\ ProcsOK
  BY ClosedPollOK, IdleOK DEF Init, PollsOK, ProcsOK
<1> QED
  BY <1>1, <1>2 DEF TypeInv

\* Every variable stays in its type: ids in use are ids of rows, and no count
\* passes the cap.
THEOREM TypeCorrect == Spec => []TypeOK
BY TypeInitial, TypeInductive, TypeInvTypes, PTL DEF Spec

-----------------------------------------------------------------------------
\* No acknowledgement before the work.  The property alone is not inductive: an
\* id can be on its way to the row -- in the applied-set, in the file, in a
\* write of the file, in a process about to acknowledge, in an acknowledgement
\* about to be saved -- and in each place it must be that of a handled command.

AcksHandled == /\ \A a \in Agent : procs[a].pc \in {"ack", "ackwait"} => procs[a].cmd \in handled
               /\ \A k \in acks : k.row \in handled
IdsHandled == \A a \in Agent : /\ Ids(applied[a]) \subseteq handled
                               /\ Ids(disk[a]) \subseteq handled
                               /\ \A w \in writes[a] : Ids(w) \subseteq handled

HandledInv == AckedMeansHandled /\ AcksHandled /\ IdsHandled

\* The rows after a step that rewrites at most the row of one command.
LEMMA RowsAfter ==
  ASSUME TypeInv
  PROVE  /\ \A a \in Agent : queue(a) =>
              \A i \in DOMAIN rows' : rows'[i].acked => i \in DOMAIN rows /\ rows[i].acked
         /\ \A a \in Agent, s \in Slot : SaveDelivery(a, s) =>
              /\ DOMAIN rows' = DOMAIN rows
              /\ \A i \in DOMAIN rows : rows'[i].acked => rows[i].acked
         /\ \A j \in DOMAIN rows : LeaseExpires(j) =>
              /\ DOMAIN rows' = DOMAIN rows
              /\ \A i \in DOMAIN rows : rows'[i].acked => rows[i].acked
         /\ \A k \in acks : AckSave(k) =>
              /\ DOMAIN rows' = DOMAIN rows
              /\ \A i \in DOMAIN rows : rows'[i].acked => rows[i].acked \/ i = k.row
<1>1. /\ rows \in Seq(Row)
      /\ \A i \in DOMAIN rows : rows[i] \in Row
  BY RowTypes DEF TypeInv, RowsOK
<1>2. ASSUME NEW a \in Agent, queue(a), NEW i \in DOMAIN rows'
      PROVE  rows'[i].acked => i \in DOMAIN rows /\ rows[i].acked
  BY <1>1, <1>2 DEF queue
<1>3. ASSUME NEW a \in Agent, NEW s \in Slot, SaveDelivery(a, s)
      PROVE  /\ DOMAIN rows' = DOMAIN rows
             /\ \A i \in DOMAIN rows : rows'[i].acked => rows[i].acked
  BY <1>1, <1>3 DEF SaveDelivery, Row
<1>4. ASSUME NEW j \in DOMAIN rows, LeaseExpires(j)
      PROVE  /\ DOMAIN rows' = DOMAIN rows
             /\ \A i \in DOMAIN rows : rows'[i].acked => rows[i].acked
  BY <1>1, <1>4 DEF LeaseExpires, Row
<1>5. ASSUME NEW k \in acks, AckSave(k)
      PROVE  /\ DOMAIN rows' = DOMAIN rows
             /\ \A i \in DOMAIN rows : rows'[i].acked => rows[i].acked \/ i = k.row
  BY <1>1, <1>5 DEF AckSave, Row
<1> QED
  BY <1>2, <1>3, <1>4, <1>5

LEMMA RowsAfterRetire ==
  ASSUME TypeInv, NEW a \in Agent, NEW s \in Slot, retire(a, s)
  PROVE  /\ DOMAIN rows' = DOMAIN rows
         /\ \A i \in DOMAIN rows : rows'[i].acked => rows[i].acked \/ i \in retired'
         /\ retired \subseteq retired'
<1>1. \A i \in DOMAIN rows : rows[i] \in Row
  BY RowTypes DEF TypeInv
<1>2. PICK j \in polls[a][s].todo : /\ rows' = [rows EXCEPT ![j].acked = TRUE]
                                    /\ retired' = retired \cup {j}
  BY DEF retire
<1> QED
  BY <1>1, <1>2 DEF Row

LEMMA HandledInductive == TypeInv /\ HandledInv /\ [Next]_vars => HandledInv'
<1> SUFFICES ASSUME TypeInv, HandledInv, [Next]_vars
             PROVE  HandledInv'
  OBVIOUS
<1>0. AckedMeansHandled /\ AcksHandled /\ IdsHandled
  BY DEF HandledInv
<1>1. ASSUME NEW a \in Agent, queue(a)
      PROVE  HandledInv'
  BY <1>0, <1>1, RowsAfter
     DEF queue, agentVars, HandledInv, AckedMeansHandled, AcksHandled, IdsHandled
<1>2. ASSUME NEW a \in Agent, NEW s \in Slot, ListAbandoned(a, s) \/ FindPending(a, s)
      PROVE  HandledInv'
  BY <1>0, <1>2 DEF ListAbandoned, FindPending, agentVars,
                    HandledInv, AckedMeansHandled, AcksHandled, IdsHandled
<1>3. ASSUME NEW a \in Agent, NEW s \in Slot, retire(a, s)
      PROVE  HandledInv'
  <2>1. AckedMeansHandled'
    BY <1>0, <1>3, RowsAfterRetire DEF retire, agentVars, AckedMeansHandled
  <2> QED
    BY <1>0, <1>3, <2>1 DEF retire, agentVars, HandledInv, AcksHandled, IdsHandled
<1>4. ASSUME NEW a \in Agent, NEW s \in Slot, WindowEnds(a, s)
      PROVE  HandledInv'
  <2>1. AcksHandled'
    <3>1. procs' = procs \/ procs' = [procs EXCEPT ![a] = Idle]
      BY <1>4 DEF WindowEnds
    <3> QED
      BY <1>0, <1>4, <3>1 DEF AcksHandled, WindowEnds, TypeInv, ProcsOK, Idle
  <2> QED
    BY <1>0, <1>4, <2>1 DEF WindowEnds, HandledInv, AckedMeansHandled, IdsHandled
<1>5. ASSUME NEW a \in Agent, NEW s \in Slot, SaveDelivery(a, s)
      PROVE  HandledInv'
  <2>1. AckedMeansHandled'
    <3>1. /\ DOMAIN rows' = DOMAIN rows
          /\ \A i \in DOMAIN rows : rows'[i].acked => rows[i].acked
      BY <1>5, RowsAfter
    <3>2. handled' = handled /\ retired' = retired
      BY <1>5 DEF SaveDelivery
    <3> QED
      BY <1>0, <3>1, <3>2 DEF AckedMeansHandled
  <2>2. AcksHandled'
    <3>1. \/ procs' = procs
          \/ procs' = [procs EXCEPT ![a] = Idle]
          \/ procs' = [procs EXCEPT ![a] = [pc |-> "got", slot |-> 0, cmd |-> polls[a][s].row]]
      BY <1>5 DEF SaveDelivery
    <3> QED
      BY <1>0, <1>5, <3>1 DEF SaveDelivery, AcksHandled, TypeInv, ProcsOK, Idle
  <2> QED
    BY <1>0, <1>5, <2>1, <2>2 DEF SaveDelivery, HandledInv, IdsHandled
<1>6. ASSUME NEW i \in DOMAIN rows, LeaseExpires(i)
      PROVE  HandledInv'
  <2>1. AckedMeansHandled'
    BY <1>0, <1>6, RowsAfter DEF LeaseExpires, agentVars, AckedMeansHandled
  <2> QED
    BY <1>0, <1>6, <2>1 DEF LeaseExpires, agentVars, HandledInv, AcksHandled, IdsHandled
<1>7. ASSUME NEW k \in acks, AckSave(k)
      PROVE  HandledInv'
  <2>1. AckedMeansHandled'
    <3>1. /\ DOMAIN rows' = DOMAIN rows
          /\ \A i \in DOMAIN rows : rows'[i].acked => rows[i].acked \/ i = k.row
      BY <1>7, RowsAfter
    <3>2. k.row \in handled /\ handled' = handled /\ retired' = retired
      BY <1>0, <1>7 DEF AcksHandled, AckSave
    <3> QED
      BY <1>0, <3>1, <3>2 DEF AckedMeansHandled
  <2>2. AcksHandled'
    <3> DEFINE b == rows[k.row].agent
    <3>1. procs' = procs \/ procs' = [procs EXCEPT ![b] = Idle]
      BY <1>7 DEF AckSave
    <3> QED
      BY <1>0, <1>7, <3>1 DEF AckSave, AcksHandled, TypeInv, ProcsOK, Idle
  <2> QED
    BY <1>0, <1>7, <2>1, <2>2 DEF AckSave, HandledInv, IdsHandled
<1>8. ASSUME NEW a \in Agent, OpenPoll(a) \/ Dispatch(a) \/ HandlerThrows(a) \/ AckFails(a)
      PROVE  HandledInv'
  <2>1. PICK p \in [pc : {"waiting", "running", "idle"}, slot : Slot \cup {0}, cmd : Nat] :
          procs' = [procs EXCEPT ![a] = p]
    <3>1. procs[a] \in Proc
      BY DEF TypeInv, ProcsOK
    <3>2. CASE OpenPoll(a)
      BY <3>2 DEF OpenPoll
    <3>3. CASE Dispatch(a)
      <4>1. procs' = [procs EXCEPT ![a] = [procs[a] EXCEPT !.pc = "running"]]
        BY <3>3 DEF Dispatch, TypeInv, ProcsOK
      <4>2. [procs[a] EXCEPT !.pc = "running"]
              \in [pc : {"waiting", "running", "idle"}, slot : Slot \cup {0}, cmd : Nat]
        BY <3>1 DEF Proc
      <4> QED
        BY <4>1, <4>2
    <3>4. CASE HandlerThrows(a) \/ AckFails(a)
      BY <3>4 DEF HandlerThrows, AckFails, Idle
    <3> QED
      BY <1>8, <3>2, <3>3, <3>4
  <2>2. AcksHandled'
    <3>1. handled' = handled /\ acks' = acks
      BY <1>8 DEF OpenPoll, Dispatch, HandlerThrows, AckFails, apiVars
    <3> QED
      BY <1>0, <2>1, <3>1 DEF AcksHandled, TypeInv, ProcsOK
  <2>3. UNCHANGED <<rows, retired, applied, disk, writes, handled>>
    BY <1>8 DEF OpenPoll, Dispatch, HandlerThrows, AckFails, apiVars
  <2> QED
    BY <1>0, <2>2, <2>3 DEF HandledInv, AckedMeansHandled, IdsHandled
<1>9. ASSUME NEW a \in Agent, HandleDuplicate(a)
      PROVE  HandledInv'
  <2>1. AcksHandled'
    BY <1>0, <1>9 DEF HandleDuplicate, apiVars, AcksHandled, IdsHandled, TypeInv, ProcsOK
  <2> QED
    BY <1>0, <1>9, <2>1 DEF HandleDuplicate, apiVars, HandledInv, AckedMeansHandled, IdsHandled
<1>10. ASSUME NEW a \in Agent, Record(a)
       PROVE  HandledInv'
  <2> DEFINE i == procs[a].cmd
             now == Append(applied[a], i)
  <2>1. i \in Nat /\ applied[a] \in Seq(Nat)
    <3>1. procs[a] \in Proc
      BY DEF TypeInv, ProcsOK
    <3> QED
      BY <3>1 DEF Proc, TypeInv, IdsOK
  <2>2. handled' = handled \cup {i}
    BY <1>10 DEF Record
  <2>3. Ids(now) \subseteq handled' /\ Ids(LastRetained(now)) \subseteq handled'
    <3>1. Ids(applied[a]) \subseteq handled
      BY <1>0 DEF IdsHandled
    <3>2. now \in Seq(Nat) /\ Ids(now) = Ids(applied[a]) \cup {i}
      BY <2>1, IdsAppend
    <3>3. Ids(LastRetained(now)) \subseteq Ids(now)
      BY <3>2, IdsLastRetained
    <3> QED
      BY <2>2, <3>1, <3>2, <3>3
  <2>4. IdsHandled'
    BY <1>0, <1>10, <2>2, <2>3 DEF Record, IdsHandled, TypeInv, IdsOK
  <2>5. AcksHandled'
    BY <1>0, <1>10, <2>2 DEF Record, apiVars, AcksHandled, TypeInv, ProcsOK
  <2> QED
    BY <1>0, <1>10, <2>2, <2>4, <2>5 DEF Record, apiVars, HandledInv, AckedMeansHandled
<1>11. ASSUME NEW a \in Agent, AckFind(a)
       PROVE  HandledInv'
  <2> DEFINE k == [row |-> procs[a].cmd, count |-> rows[procs[a].cmd].count,
                   leased |-> rows[procs[a].cmd].leased]
  <2>1. \/ procs' = [procs EXCEPT ![a] = Idle] /\ acks' = acks
        \/ procs' = [procs EXCEPT ![a].pc = "ackwait"] /\ acks' = acks \cup {k}
    BY <1>11 DEF AckFind
  <2>2. procs[a].cmd \in handled
    BY <1>0, <1>11 DEF AckFind, AcksHandled
  <2>3. AcksHandled'
    <3>1. handled' = handled
      BY <1>11 DEF AckFind
    <3>2. \A b \in Agent : procs'[b].pc \in {"ack", "ackwait"} => procs'[b].cmd \in handled
      <4>1. \A b \in Agent : procs'[b] = procs[b] \/ (b = a /\ procs'[b].cmd = procs[b].cmd)
                                                  \/ procs'[b].pc = "idle"
        BY <2>1 DEF TypeInv, ProcsOK, Proc, Idle
      <4> QED
        BY <1>0, <2>2, <4>1 DEF AcksHandled
    <3>3. \A j \in acks' : j.row \in handled
      BY <1>0, <2>1, <2>2 DEF AcksHandled
    <3> QED
      BY <3>1, <3>2, <3>3 DEF AcksHandled
  <2> QED
    BY <1>0, <1>11, <2>3 DEF AckFind, HandledInv, AckedMeansHandled, IdsHandled
<1>12. ASSUME NEW a \in Agent, WriteEnds(a)
       PROVE  HandledInv'
  <2>1. PICK w \in writes[a] : /\ writes' = [writes EXCEPT ![a] = @ \ {w}]
                               /\ \/ disk' = [disk EXCEPT ![a] = w]
                                  \/ disk' = [disk EXCEPT ![a] = <<>>]
    BY <1>12 DEF WriteEnds
  <2>2. Ids(<<>>) = {}
    BY DEF Ids
  <2>3. IdsHandled'
    BY <1>0, <1>12, <2>1, <2>2 DEF WriteEnds, IdsHandled, TypeInv, IdsOK
  <2> QED
    BY <1>0, <1>12, <2>3 DEF WriteEnds, apiVars, HandledInv, AckedMeansHandled, AcksHandled
<1>13. ASSUME NEW a \in Agent, Crash(a)
       PROVE  HandledInv'
  <2>1. PICK left \in {disk[a]} \cup writes[a] \cup (IF writes[a] = {} THEN {} ELSE {<<>>}) :
          disk' = [disk EXCEPT ![a] = left]
    BY <1>13 DEF Crash
  <2>2. Ids(<<>>) = {}
    BY DEF Ids
  <2>3. IdsHandled'
    BY <1>0, <1>13, <2>1, <2>2 DEF Crash, IdsHandled, TypeInv, IdsOK
  <2>4. AcksHandled'
    BY <1>0, <1>13 DEF Crash, apiVars, AcksHandled, TypeInv, ProcsOK, Down
  <2> QED
    BY <1>0, <1>13, <2>3, <2>4 DEF Crash, apiVars, HandledInv, AckedMeansHandled
<1>14. ASSUME NEW a \in Agent, Restart(a)
       PROVE  HandledInv'
  <2>1. IdsHandled'
    BY <1>0, <1>14 DEF Restart, IdsHandled, TypeInv, IdsOK
  <2>2. AcksHandled'
    BY <1>0, <1>14 DEF Restart, apiVars, AcksHandled, TypeInv, ProcsOK, Idle
  <2> QED
    BY <1>0, <1>14, <2>1, <2>2 DEF Restart, apiVars, HandledInv, AckedMeansHandled
<1>15. CASE UNCHANGED vars
  BY <1>0, <1>15 DEF vars, HandledInv, AckedMeansHandled, AcksHandled, IdsHandled
<1> QED
  BY <1>1, <1>2, <1>3, <1>4, <1>5, <1>6, <1>7, <1>8, <1>9, <1>10, <1>11, <1>12, <1>13, <1>14,
     <1>15 DEF Next, PollStep, HandleStep

\* A command is acknowledged only after a process ran its handler to the end,
\* or once the sweep has given up on it.
THEOREM NoAckBeforeWork == Spec => []AckedMeansHandled
<1>1. Init => HandledInv
  BY DEF Init, HandledInv, AckedMeansHandled, AcksHandled, IdsHandled, Ids, Idle
<1>2. HandledInv => AckedMeansHandled
  BY DEF HandledInv
<1> QED
  BY <1>1, <1>2, TypeInitial, TypeInductive, HandledInductive, PTL DEF Spec

-----------------------------------------------------------------------------
\* No second execution.  What makes it inductive: an id that was handled stays
\* known to its agent -- in memory while the process lives, in the file while
\* it is down -- until a crash loses it.

Known(a) == IF procs[a].pc = "down" THEN Ids(disk[a]) ELSE Ids(applied[a])

HandledRows == handled \subseteq DOMAIN rows
RunningIsNew == \A a \in Agent : procs[a].pc = "running" => procs[a].cmd \notin Ids(applied[a])
DownWritesNothing == \A a \in Agent : procs[a].pc = "down" => writes[a] = {}
Remembered ==
  \A i \in handled : i \in forgotten[rows[i].agent] \/ i \in Known(rows[i].agent)

RerunInv == HandledRows /\ RunningIsNew /\ DownWritesNothing /\ Remembered

\* The steps that touch neither the ids nor whether a process is up.
LEMMA RerunKept ==
  ASSUME TypeInv, RerunInv, RowsKept,
         UNCHANGED <<handled, applied, disk, writes, forgotten>>,
         \A b \in Agent : /\ procs'[b].pc = "down" <=> procs[b].pc = "down"
                          /\ procs'[b].pc = "running" => procs'[b].cmd \notin Ids(applied[b])
  PROVE  RerunInv'
<1>1. HandledRows /\ RunningIsNew /\ DownWritesNothing /\ Remembered
  BY DEF RerunInv
<1>2. HandledRows'
  BY <1>1 DEF HandledRows, RowsKept
<1>3. RunningIsNew' /\ DownWritesNothing'
  BY <1>1 DEF RunningIsNew, DownWritesNothing
<1>4. Remembered'
  <2> SUFFICES ASSUME NEW i \in handled
               PROVE  i \in forgotten[rows[i].agent] \/ i \in Known(rows[i].agent)'
    <3>1. \A i \in handled : rows'[i].agent = rows[i].agent
      BY <1>1 DEF HandledRows, RowsKept
    <3> QED
      BY <3>1 DEF Remembered, Known
  <2>1. i \in DOMAIN rows /\ rows'[i].agent = rows[i].agent
    BY <1>1 DEF HandledRows, RowsKept
  <2>2. rows[i].agent \in Agent
    BY <2>1, RowTypes DEF TypeInv
  <2>3. Known(rows[i].agent)' = Known(rows[i].agent)
    BY <2>1, <2>2 DEF Known
  <2> QED
    BY <1>1, <2>3 DEF Remembered
<1> QED
  BY <1>2, <1>3, <1>4 DEF RerunInv

\* The steps of the rows alone.
LEMMA RowStepKeeps ==
  ASSUME TypeInv, NEW a \in Agent,
         \/ queue(a)
         \/ \E s \in Slot : PollStep(a, s)
         \/ \E i \in DOMAIN rows : LeaseExpires(i)
         \/ \E k \in acks : AckSave(k)
  PROVE  RowsKept /\ UNCHANGED <<handled, applied, disk, writes, forgotten>>
<1>1. CASE queue(a)
  <2> DEFINE r == [agent |-> a, count |-> 0, leased |-> FALSE, acked |-> FALSE]
  <2>1. r \in Row /\ rows' = Append(rows, r)
    BY <1>1 DEF Row, queue
  <2> QED
    BY <1>1, <2>1, RowsAppended DEF TypeInv, queue, agentVars
<1>2. ASSUME NEW s \in Slot, retire(a, s)
      PROVE  RowsKept /\ UNCHANGED <<handled, applied, disk, writes, forgotten>>
  <2>1. PICK j \in polls[a][s].todo : rows' = [rows EXCEPT ![j].acked = TRUE]
    BY <1>2 DEF retire
  <2>2. \A i \in DOMAIN rows : rows[i] \in Row
    BY RowTypes DEF TypeInv
  <2>3. RowsKept
    BY <2>1, <2>2 DEF RowsKept, Row
  <2> QED
    BY <1>2, <2>3 DEF retire, agentVars
<1>3. ASSUME NEW s \in Slot, SaveDelivery(a, s)
      PROVE  RowsKept /\ UNCHANGED <<handled, applied, disk, writes, forgotten>>
  <2>1. \A i \in DOMAIN rows : rows[i] \in Row
    BY RowTypes DEF TypeInv
  <2>2. RowsKept
    BY <1>3, <2>1 DEF RowsKept, Row, SaveDelivery
  <2> QED
    BY <1>3, <2>2 DEF SaveDelivery
<1>4. ASSUME NEW s \in Slot, ListAbandoned(a, s) \/ FindPending(a, s) \/ WindowEnds(a, s)
      PROVE  RowsKept /\ UNCHANGED <<handled, applied, disk, writes, forgotten>>
  BY <1>4, RowsUnchanged DEF ListAbandoned, FindPending, WindowEnds, agentVars
<1>5. ASSUME NEW i \in DOMAIN rows, LeaseExpires(i)
      PROVE  RowsKept /\ UNCHANGED <<handled, applied, disk, writes, forgotten>>
  <2>1. \A j \in DOMAIN rows : rows[j] \in Row
    BY RowTypes DEF TypeInv
  <2> QED
    BY <1>5, <2>1 DEF LeaseExpires, agentVars, RowsKept, Row
<1>6. ASSUME NEW k \in acks, AckSave(k)
      PROVE  RowsKept /\ UNCHANGED <<handled, applied, disk, writes, forgotten>>
  <2>1. \A j \in DOMAIN rows : rows[j] \in Row
    BY RowTypes DEF TypeInv
  <2>2. rows' = [rows EXCEPT ![k.row].count = k.count, ![k.row].leased = k.leased,
                             ![k.row].acked = TRUE]
    BY <1>6 DEF AckSave
  <2>3. RowsKept
    BY <2>1, <2>2 DEF RowsKept, Row
  <2> QED
    BY <1>6, <2>3 DEF AckSave
<1> QED
  BY <1>1, <1>2, <1>3, <1>4, <1>5, <1>6 DEF PollStep

\* In those steps a process at most gets a command or goes back to idle, and
\* only one that is up.
LEMMA RowStepProcs ==
  ASSUME TypeInv, NEW a \in Agent,
         \/ queue(a)
         \/ \E s \in Slot : PollStep(a, s)
         \/ \E i \in DOMAIN rows : LeaseExpires(i)
         \/ \E k \in acks : AckSave(k)
  PROVE  \A b \in Agent : \/ procs'[b] = procs[b]
                          \/ procs[b].pc # "down" /\ procs'[b].pc \in {"idle", "got"}
<1>1. CASE \E s \in Slot : WindowEnds(a, s) \/ SaveDelivery(a, s)
  <2>1. PICK s \in Slot : WindowEnds(a, s) \/ SaveDelivery(a, s)
    BY <1>1
  <2>2. \/ procs' = procs
        \/ procs[a].pc = "waiting" /\ procs' = [procs EXCEPT ![a] = Idle]
        \/ /\ procs[a].pc = "waiting"
           /\ procs' = [procs EXCEPT ![a] = [pc |-> "got", slot |-> 0, cmd |-> polls[a][s].row]]
    BY <2>1 DEF WindowEnds, SaveDelivery, Connected
  <2> QED
    BY <2>2 DEF TypeInv, ProcsOK, Idle
<1>2. CASE \E k \in acks : AckSave(k)
  <2>1. PICK k \in acks : AckSave(k)
    BY <1>2
  <2> DEFINE c == rows[k.row].agent
  <2>2. \/ procs' = procs
        \/ procs[c].pc = "ackwait" /\ procs' = [procs EXCEPT ![c] = Idle]
    BY <2>1 DEF AckSave
  <2> QED
    BY <2>2 DEF TypeInv, ProcsOK, Idle
<1>3. CASE \/ queue(a)
           \/ \E s \in Slot : ListAbandoned(a, s) \/ retire(a, s) \/ FindPending(a, s)
           \/ \E i \in DOMAIN rows : LeaseExpires(i)
  BY <1>3 DEF queue, ListAbandoned, retire, FindPending, LeaseExpires, agentVars
<1> QED
  BY <1>1, <1>2, <1>3 DEF PollStep

\* The steps of a process that leave its ids alone.
LEMMA ProcStepKeepsIds ==
  ASSUME TypeInv, RerunInv, NEW a \in Agent,
         \/ OpenPoll(a) \/ HandleDuplicate(a) \/ Dispatch(a) \/ HandlerThrows(a)
         \/ AckFails(a) \/ AckFind(a)
  PROVE  RerunInv'
<1>1. RowsKept /\ UNCHANGED <<handled, applied, disk, writes, forgotten>>
  <2>1. rows' = rows /\ UNCHANGED <<handled, applied, disk, writes, forgotten>>
    BY DEF OpenPoll, HandleDuplicate, Dispatch, HandlerThrows, AckFails, AckFind, apiVars
  <2> QED
    BY <2>1, RowsUnchanged
<1>2. ASSUME NEW b \in Agent
      PROVE  /\ procs'[b].pc = "down" <=> procs[b].pc = "down"
             /\ procs'[b].pc = "running" => procs'[b].cmd \notin Ids(applied[b])
  <2>1. procs[a].pc # "down"
    BY DEF OpenPoll, HandleDuplicate, Dispatch, HandlerThrows, AckFails, AckFind
  <2>2. \/ procs'[b] = procs[b]
        \/ b = a /\ procs'[b].pc \in {"idle", "waiting", "ack", "ackwait"}
        \/ b = a /\ procs'[b].pc = "running" /\ procs'[b].cmd \notin Ids(applied[b])
    <3>1. procs \in [Agent -> Proc] /\ procs[a] \in Proc
      BY DEF TypeInv, ProcsOK
    <3>2. CASE OpenPoll(a)
      BY <3>1, <3>2 DEF OpenPoll
    <3>3. CASE HandleDuplicate(a)
      BY <3>1, <3>3 DEF HandleDuplicate, Proc
    <3>4. CASE Dispatch(a)
      BY <3>1, <3>4 DEF Dispatch, Proc
    <3>5. CASE HandlerThrows(a) \/ AckFails(a)
      BY <3>1, <3>5 DEF HandlerThrows, AckFails, Idle
    <3>6. CASE AckFind(a)
      BY <3>1, <3>6 DEF AckFind, Proc, Idle
    <3> QED
      BY <3>2, <3>3, <3>4, <3>5, <3>6
  <2> QED
    BY <2>1, <2>2 DEF RerunInv, RunningIsNew
<1> QED
  BY <1>1, <1>2, RerunKept

LEMMA RecordRemembers ==
  ASSUME TypeInv, RerunInv, NEW a \in Agent, Record(a)
  PROVE  RerunInv'
<1> DEFINE c == procs[a].cmd
           now == Append(applied[a], c)
<1>1. HandledRows /\ RunningIsNew /\ DownWritesNothing /\ Remembered
  BY DEF RerunInv
<1>2. procs[a] \in Proc /\ ProcBound(a, procs[a]) /\ procs[a].pc = "running"
  BY DEF TypeInv, ProcsOK, Record
<1>3. c \in DOMAIN rows /\ rows[c].agent = a /\ c \in Nat /\ applied[a] \in Seq(Nat)
  BY <1>2 DEF ProcBound, Holding, Proc, TypeInv, IdsOK
<1>4. Ids(now) = Ids(applied[a]) \cup {c}
  BY <1>3, IdsAppend
<1>5. /\ handled' = handled \cup {c}
      /\ applied' = [applied EXCEPT ![a] = now]
      /\ procs' = [procs EXCEPT ![a].pc = "ack"]
      /\ UNCHANGED <<rows, disk, forgotten>>
      /\ \A b \in Agent : b # a => writes'[b] = writes[b]
  BY DEF Record, apiVars, TypeInv, IdsOK
<1> HIDE DEF now, c
<1>6. \A b \in Agent : /\ b # a => applied'[b] = applied[b] /\ procs'[b] = procs[b]
                       /\ b = a => applied'[b] = now /\ procs'[b].pc = "ack"
  BY <1>2, <1>5 DEF TypeInv, IdsOK, ProcsOK, Proc
<1>7. HandledRows'
  BY <1>1, <1>3, <1>5 DEF HandledRows
<1>8. RunningIsNew' /\ DownWritesNothing'
  BY <1>1, <1>5, <1>6 DEF RunningIsNew, DownWritesNothing
<1>9. Remembered'
  <2> SUFFICES ASSUME NEW i \in handled'
               PROVE  i \in forgotten[rows[i].agent] \/ i \in Known(rows[i].agent)'
    BY <1>5 DEF Remembered, Known
  <2>1. i \in DOMAIN rows /\ rows[i].agent \in Agent
    BY <1>7, <1>5, RowTypes DEF HandledRows, TypeInv
  <2>2. CASE rows[i].agent # a
    <3>1. i \in handled
      BY <1>3, <1>5, <2>2
    <3>2. Known(rows[i].agent)' = Known(rows[i].agent)
      BY <1>5, <1>6, <2>1, <2>2 DEF Known
    <3> QED
      BY <1>1, <3>1, <3>2 DEF Remembered
  <2>3. CASE rows[i].agent = a
    <3>1. Known(rows[i].agent)' = Ids(now)
      BY <1>5, <1>6, <2>1, <2>3 DEF Known
    <3>2. CASE i = c
      BY <1>4, <3>1, <3>2
    <3>3. CASE i \in handled
      <4>1. i \in forgotten[a] \/ i \in Ids(applied[a])
        BY <1>1, <1>2, <2>3, <3>3 DEF Remembered, Known
      <4> QED
        BY <1>4, <2>3, <3>1, <4>1
    <3> QED
      BY <1>5, <3>2, <3>3
  <2> QED
    BY <2>2, <2>3
<1> QED
  BY <1>7, <1>8, <1>9 DEF RerunInv

\* The file, the crash and the restart.
LEMMA FileStepRemembers ==
  ASSUME TypeInv, RerunInv, NEW a \in Agent, WriteEnds(a) \/ Crash(a) \/ Restart(a)
  PROVE  RerunInv'
<1>1. HandledRows /\ RunningIsNew /\ DownWritesNothing /\ Remembered
  BY DEF RerunInv
<1>2. rows' = rows /\ handled' = handled
  BY DEF WriteEnds, Crash, Restart, apiVars
<1>3. HandledRows'
  BY <1>1, <1>2 DEF HandledRows
<1>4. \A b \in Agent : b # a => /\ procs'[b] = procs[b]
                                /\ applied'[b] = applied[b]
                                /\ disk'[b] = disk[b]
                                /\ writes'[b] = writes[b]
                                /\ forgotten'[b] = forgotten[b]
  BY DEF WriteEnds, Crash, Restart, TypeInv, ProcsOK, IdsOK, apiVars
<1>5. \* What holds of a afterwards.
      /\ procs'[a].pc = "running" => procs'[a].cmd \notin Ids(applied'[a])
      /\ procs'[a].pc = "down" => writes'[a] = {}
      /\ Known(a) \cup forgotten[a] \subseteq Known(a)' \cup forgotten'[a]
  <2>1. CASE WriteEnds(a)
    <3>1. procs[a].pc # "down"
      BY <1>1, <2>1 DEF WriteEnds, DownWritesNothing
    <3>2. procs' = procs /\ applied' = applied /\ forgotten' = forgotten
      BY <2>1 DEF WriteEnds
    <3> QED
      BY <1>1, <3>1, <3>2 DEF RunningIsNew, Known
  <2>2. CASE Crash(a)
    <3>1. PICK left \in {disk[a]} \cup writes[a] \cup (IF writes[a] = {} THEN {} ELSE {<<>>}) :
            /\ disk' = [disk EXCEPT ![a] = left]
            /\ forgotten' = [forgotten EXCEPT ![a] = @ \cup (Ids(applied[a]) \ Ids(left))]
      BY <2>2 DEF Crash
    <3>2. procs'[a] = Down /\ writes'[a] = {} /\ procs[a].pc # "down"
      BY <2>2 DEF Crash, TypeInv, ProcsOK, IdsOK
    <3>3. disk'[a] = left /\ forgotten'[a] = forgotten[a] \cup (Ids(applied[a]) \ Ids(left))
      BY <3>1 DEF TypeInv, IdsOK
    <3>4. Known(a)' = Ids(left) /\ Known(a) = Ids(applied[a])
      BY <3>2, <3>3 DEF Known, Down
    <3> QED
      BY <3>2, <3>3, <3>4 DEF Down
  <2>3. CASE Restart(a)
    <3>1. /\ procs[a].pc = "down" /\ procs'[a] = Idle /\ applied'[a] = disk[a]
          /\ writes' = writes /\ forgotten' = forgotten
      BY <2>3 DEF Restart, TypeInv, ProcsOK, IdsOK
    <3> QED
      BY <3>1 DEF Known, Idle
  <2> QED
    BY <2>1, <2>2, <2>3
<1>6. RunningIsNew' /\ DownWritesNothing'
  BY <1>1, <1>4, <1>5 DEF RunningIsNew, DownWritesNothing
<1>7. Remembered'
  <2> SUFFICES ASSUME NEW i \in handled
               PROVE  i \in forgotten'[rows[i].agent] \/ i \in Known(rows[i].agent)'
    BY <1>2 DEF Remembered, Known
  <2>1. i \in DOMAIN rows /\ rows[i].agent \in Agent
    BY <1>1, RowTypes DEF HandledRows, TypeInv
  <2>2. CASE rows[i].agent # a
    <3>1. Known(rows[i].agent)' = Known(rows[i].agent)
      BY <1>2, <1>4, <2>1, <2>2 DEF Known
    <3> QED
      BY <1>1, <1>4, <2>1, <2>2, <3>1 DEF Remembered
  <2>3. CASE rows[i].agent = a
    <3>1. Known(rows[i].agent)' = Known(a)'
      BY <1>2, <2>3 DEF Known
    <3> QED
      BY <1>1, <1>5, <2>3, <3>1 DEF Remembered
  <2> QED
    BY <2>2, <2>3
<1> QED
  BY <1>3, <1>6, <1>7 DEF RerunInv

LEMMA RerunInductive == TypeInv /\ RerunInv /\ [Next]_vars => RerunInv'
<1> SUFFICES ASSUME TypeInv, RerunInv, [Next]_vars
             PROVE  RerunInv'
  OBVIOUS
<1>1. ASSUME NEW a \in Agent,
             \/ queue(a)
             \/ \E s \in Slot : PollStep(a, s)
             \/ \E i \in DOMAIN rows : LeaseExpires(i)
             \/ \E k \in acks : AckSave(k)
      PROVE  RerunInv'
  <2>1. RowsKept /\ UNCHANGED <<handled, applied, disk, writes, forgotten>>
    BY <1>1, RowStepKeeps
  <2>2. \A b \in Agent : \/ procs'[b] = procs[b]
                         \/ procs[b].pc # "down" /\ procs'[b].pc \in {"idle", "got"}
    BY <1>1, RowStepProcs
  <2>3. \A b \in Agent : /\ procs'[b].pc = "down" <=> procs[b].pc = "down"
                         /\ procs'[b].pc = "running" => procs'[b].cmd \notin Ids(applied[b])
    BY <2>2 DEF RerunInv, RunningIsNew
  <2> QED
    BY <2>1, <2>3, RerunKept
<1>2. ASSUME NEW a \in Agent, OpenPoll(a) \/ HandleStep(a) \/ HandlerThrows(a) \/ AckFails(a)
      PROVE  RerunInv'
  BY <1>2, ProcStepKeepsIds, RecordRemembers DEF HandleStep
<1>3. ASSUME NEW a \in Agent, WriteEnds(a) \/ Crash(a) \/ Restart(a)
      PROVE  RerunInv'
  BY <1>3, FileStepRemembers
<1>4. CASE UNCHANGED vars
  <2>1. RowsKept
    BY <1>4, RowsUnchanged DEF vars
  <2> QED
    BY <1>4, <2>1, RerunKept DEF vars, RerunInv, RunningIsNew
<1>5. ASSUME NEW i \in DOMAIN rows
      PROVE  \E a \in Agent : TRUE
  BY RowTypes DEF TypeInv
<1>6. ASSUME NEW k \in acks
      PROVE  \E a \in Agent : TRUE
  BY <1>5 DEF TypeInv, AcksOK
<1> QED
  BY <1>1, <1>2, <1>3, <1>4, <1>5, <1>6 DEF Next

\* A command is carried out a second time only if a crash took its id from the
\* applied-set before the file held it.
THEOREM NoSecondExecution == Spec => []RerunOnlyIfForgotten
<1>1. Init => RerunInv
  BY DEF Init, RerunInv, HandledRows, RunningIsNew, DownWritesNothing, Remembered, Idle
<1>2. TypeInv /\ RerunInv => RerunOnlyIfForgotten
  <2> SUFFICES ASSUME TypeInv, RerunInv, NEW a \in Agent,
                      procs[a].pc = "running", procs[a].cmd \in handled
               PROVE  procs[a].cmd \in forgotten[a]
    BY DEF RerunOnlyIfForgotten
  <2>1. rows[procs[a].cmd].agent = a
    BY DEF TypeInv, ProcsOK, ProcBound, Holding
  <2>2. procs[a].cmd \notin Ids(applied[a])
    BY DEF RerunInv, RunningIsNew
  <2> QED
    BY <2>1, <2>2 DEF RerunInv, Remembered, Known
<1> QED
  BY <1>1, <1>2, TypeInitial, TypeInductive, RerunInductive, PTL DEF Spec
-----------------------------------------------------------------------------
\* No count of an open command shrinks.  What makes it inductive: a poll that
\* is about to save what it read is at most one delivery behind the row, and
\* then keeps the row from being handed out again -- its lease cannot run out
\* while a poll is open that saw the handout.  So polls that save the same row
\* read the same count, and an acknowledgement that overtakes one of them
\* writes back no more than that poll will write.

Saving(a, s) == polls[a][s].pc = "save"

AcksBehind == \A k \in acks : ~rows[k.row].acked => k.count <= rows[k.row].count

SaveBound(r, p) ==
  /\ r.count <= p.count + 1
  /\ \/ r.acked
     \/ r.count = p.count
     \/ r.leased /\ r.count = p.count + 1 /\ p.row \in p.since
SavesBehind == \A a \in Agent, s \in Slot :
                 Saving(a, s) => SaveBound(rows[polls[a][s].row], polls[a][s])

AcksBeforeSave == \A a \in Agent, s \in Slot, k \in acks :
                    Saving(a, s) /\ k.row = polls[a][s].row => k.count <= polls[a][s].count + 1

SavesAgree == \A a, b \in Agent, s, t \in Slot :
                Saving(a, s) /\ Saving(b, t) /\ polls[a][s].row = polls[b][t].row
                => polls[a][s].count = polls[b][t].count

CountInv == AcksBehind /\ SavesBehind /\ AcksBeforeSave /\ SavesAgree

LEMMA PollTypes ==
  ASSUME TypeInv, NEW a \in Agent, NEW s \in Slot
  PROVE  /\ polls[a][s] \in Poll
         /\ polls[a][s].count \in Nat
         /\ Saving(a, s) => polls[a][s].row \in DOMAIN rows
BY DEF TypeInv, PollsOK, PollBound, Poll, Saving

LEMMA AckTypes ==
  ASSUME TypeInv, NEW k \in acks
  PROVE  k.row \in DOMAIN rows /\ k.count \in Nat /\ k.count \in 0..Cap /\ k.leased \in BOOLEAN
BY DEF TypeInv, AcksOK, Ack

\* The steps that count nothing: no poll begins to save, no row is opened, and
\* a lease ends only where no open poll saw the handout.
LEMMA CountKept ==
  ASSUME TypeInv, CountInv, acks' \subseteq acks,
         \A i \in DOMAIN rows :
           /\ rows'[i].count = rows[i].count
           /\ rows[i].acked => rows'[i].acked
           /\ \/ rows'[i].acked
              \/ rows'[i].leased = rows[i].leased
              \/ \A a \in Agent, s \in Slot : i \notin polls[a][s].since,
         \A a \in Agent, s \in Slot : Saving(a, s)' => polls'[a][s] = polls[a][s]
  PROVE  CountInv'
<1>1. AcksBehind'
  BY AckTypes DEF CountInv, AcksBehind
<1>2. SavesBehind'
  <2> SUFFICES ASSUME NEW a \in Agent, NEW s \in Slot, Saving(a, s)'
               PROVE  SaveBound(rows[polls[a][s].row], polls[a][s])'
    BY DEF SavesBehind
  <2>1. polls'[a][s] = polls[a][s] /\ Saving(a, s)
    BY DEF Saving
  <2>2. polls[a][s].row \in DOMAIN rows /\ SaveBound(rows[polls[a][s].row], polls[a][s])
    BY <2>1, PollTypes DEF CountInv, SavesBehind
  <2> QED
    BY <2>1, <2>2 DEF SaveBound
<1>3. AcksBeforeSave'
  BY DEF CountInv, AcksBeforeSave, Saving
<1>4. SavesAgree'
  BY DEF CountInv, SavesAgree, Saving
<1> QED
  BY <1>1, <1>2, <1>3, <1>4 DEF CountInv

\* A poll reads a row that is open and unleased: whoever else is about to save
\* it read the same count.
LEMMA FindPendingCounts ==
  ASSUME TypeInv, CountInv, NEW a \in Agent, NEW s \in Slot, FindPending(a, s)
  PROVE  CountInv' /\ rows' = rows
<1>1. PICK i \in Deliverable(a) :
        polls' = [polls EXCEPT ![a][s].pc = "save", ![a][s].row = i,
                               ![a][s].count = rows[i].count]
  BY DEF FindPending
<1>2. i \in DOMAIN rows /\ ~rows[i].acked /\ ~rows[i].leased /\ rows[i].count \in Nat
  BY RowTypes DEF Deliverable, TypeInv
<1>3. rows' = rows /\ acks' = acks
  BY DEF FindPending
<1>4. polls'[a][s].pc = "save" /\ polls'[a][s].row = i /\ polls'[a][s].count = rows[i].count
  BY <1>1 DEF TypeInv, PollsOK, Poll
<1>5. \A b \in Agent, t \in Slot : ~(b = a /\ t = s) => polls'[b][t] = polls[b][t]
  BY <1>1 DEF TypeInv, PollsOK
<1>6. \A b \in Agent, t \in Slot : Saving(b, t) /\ polls[b][t].row = i
                                  => polls[b][t].count = rows[i].count
  BY <1>2 DEF CountInv, SavesBehind, SaveBound
<1>7. AcksBehind'
  BY <1>3 DEF CountInv, AcksBehind
<1>8. SavesBehind'
  BY <1>2, <1>3, <1>4, <1>5 DEF CountInv, SavesBehind, SaveBound, Saving
<1>9. AcksBeforeSave'
  <2> SUFFICES ASSUME NEW b \in Agent, NEW t \in Slot, NEW k \in acks,
                      Saving(b, t)', k.row = polls'[b][t].row
               PROVE  k.count <= polls'[b][t].count + 1
    BY <1>3 DEF AcksBeforeSave
  <2>1. CASE b = a /\ t = s
    <3>1. k.count <= rows[i].count
      BY <1>2, <1>4, <2>1 DEF CountInv, AcksBehind
    <3> QED
      BY <3>1, <2>1, <1>2, <1>4, AckTypes
  <2>2. CASE ~(b = a /\ t = s)
    BY <1>5, <2>2 DEF CountInv, AcksBeforeSave, Saving
  <2> QED
    BY <2>1, <2>2
<1>10. SavesAgree'
  BY <1>4, <1>5, <1>6 DEF CountInv, SavesAgree, Saving
<1> QED
  BY <1>3, <1>7, <1>8, <1>9, <1>10 DEF CountInv

\* A poll saves: the row is counted once for all that are about to save it.
LEMMA SaveDeliveryCounts ==
  ASSUME TypeInv, CountInv, NEW a \in Agent, NEW s \in Slot, SaveDelivery(a, s)
  PROVE  /\ CountInv'
         /\ \A i \in DOMAIN rows : rows'[i].count >= rows[i].count
<1> DEFINE i == polls[a][s].row
           c == polls[a][s].count
<1>1. i \in DOMAIN rows /\ c \in Nat /\ Saving(a, s)
  BY PollTypes DEF SaveDelivery, Saving
<1>2. \A j \in DOMAIN rows : rows[j] \in Row /\ rows[j].count \in Nat
  BY RowTypes DEF TypeInv
<1>3. /\ rows'[i].count = c + 1 /\ rows'[i].leased = TRUE /\ rows'[i].acked = FALSE
      /\ \A j \in DOMAIN rows : j # i => rows'[j] = rows[j]
  BY <1>1, <1>2 DEF SaveDelivery, Row
<1>4. acks' = acks
  BY DEF SaveDelivery
<1>5. ASSUME NEW b \in Agent, NEW t \in Slot, Saving(b, t)'
      PROVE  /\ Saving(b, t)
             /\ polls'[b][t].row = polls[b][t].row
             /\ polls'[b][t].count = polls[b][t].count
             /\ polls[b][t].since \subseteq polls'[b][t].since
             /\ polls[b][t].row = i => i \in polls'[b][t].since
  <2>1. polls' = [polls EXCEPT ![a] =
                    [u \in Slot |-> IF u = s \/ polls[a][u].pc = "closed" THEN ClosedPoll
                                    ELSE [polls[a][u] EXCEPT !.since = @ \cup {i}]]]
    BY DEF SaveDelivery
  <2>2. polls[b][t] \in Poll
    BY PollTypes
  <2>3. CASE b = a
    <3>1. polls'[b][t] = IF t = s \/ polls[a][t].pc = "closed" THEN ClosedPoll
                         ELSE [polls[a][t] EXCEPT !.since = @ \cup {i}]
      BY <2>1, <2>3 DEF TypeInv, PollsOK
    <3>2. polls'[b][t] # ClosedPoll
      BY <1>5 DEF Saving, ClosedPoll
    <3> QED
      BY <1>5, <2>2, <2>3, <3>1, <3>2 DEF Saving, Poll
  <2>4. CASE b # a
    <3>1. polls'[b][t] = polls[b][t]
      BY <2>1, <2>4 DEF TypeInv, PollsOK
    <3>2. polls[b][t].row # i
      BY <1>1, <1>5, <2>4, <3>1 DEF TypeInv, PollsOK, PollBound, Saving
    <3> QED
      BY <1>5, <3>1, <3>2 DEF Saving
  <2> QED
    BY <2>3, <2>4
<1>6. \A b \in Agent, t \in Slot : Saving(b, t) /\ polls[b][t].row = i => polls[b][t].count = c
  BY <1>1 DEF CountInv, SavesAgree
<1>7. rows[i].count <= c + 1
  BY <1>1 DEF CountInv, SavesBehind, SaveBound
<1>8. \A k \in acks : k.row = i => k.count <= c + 1
  BY <1>1 DEF CountInv, AcksBeforeSave
<1> HIDE DEF i, c
<1>9. AcksBehind'
  BY <1>3, <1>4, <1>8, AckTypes DEF CountInv, AcksBehind
<1>10. SavesBehind'
  <2> SUFFICES ASSUME NEW b \in Agent, NEW t \in Slot, Saving(b, t)'
               PROVE  SaveBound(rows[polls[b][t].row], polls[b][t])'
    BY DEF SavesBehind
  <2>1. CASE polls[b][t].row = i
    BY <1>1, <1>3, <1>5, <1>6, <2>1 DEF SaveBound
  <2>2. CASE polls[b][t].row # i
    <3>1. rows'[polls[b][t].row] = rows[polls[b][t].row]
      BY <1>3, <1>5, <2>2, PollTypes
    <3> QED
      BY <1>5, <3>1 DEF CountInv, SavesBehind, SaveBound
  <2> QED
    BY <2>1, <2>2
<1>11. AcksBeforeSave'
  BY <1>4, <1>5 DEF CountInv, AcksBeforeSave
<1>12. SavesAgree'
  BY <1>5 DEF CountInv, SavesAgree
<1> QED
  BY <1>1, <1>2, <1>3, <1>7, <1>9, <1>10, <1>11, <1>12 DEF CountInv

\* An acknowledgement reads the row, and returns at once if it is closed.
LEMMA AckFindCounts ==
  ASSUME TypeInv, CountInv, NEW a \in Agent, AckFind(a)
  PROVE  CountInv' /\ rows' = rows
<1> DEFINE i == procs[a].cmd
           k == [row |-> i, count |-> rows[i].count, leased |-> rows[i].leased]
<1>1. rows' = rows /\ polls' = polls
  BY DEF AckFind
<1>2. acks' \subseteq acks \cup {k}
  BY DEF AckFind
<1>3. i \in DOMAIN rows
  BY DEF AckFind, TypeInv, ProcsOK, ProcBound, Holding
<1>4. rows[i].count \in Nat
  BY <1>3, RowTypes DEF TypeInv
<1>5. k.row = i /\ k.count = rows[i].count
  OBVIOUS
<1> HIDE DEF k, i
<1>6. AcksBehind'
  BY <1>1, <1>2, <1>4, <1>5 DEF CountInv, AcksBehind
<1>7. SavesBehind' /\ SavesAgree'
  BY <1>1 DEF CountInv, SavesBehind, SavesAgree, Saving
<1>8. AcksBeforeSave'
  BY <1>1, <1>2, <1>5 DEF CountInv, SavesBehind, SaveBound, AcksBeforeSave, Saving
<1> QED
  BY <1>1, <1>6, <1>7, <1>8 DEF CountInv

\* It writes back what it read, and closes the row.
LEMMA AckSaveCounts ==
  ASSUME TypeInv, CountInv, NEW k \in acks, AckSave(k)
  PROVE  /\ CountInv'
         /\ rows'[k.row].acked
         /\ \A i \in DOMAIN rows : i # k.row => rows'[i] = rows[i]
<1>1. k.row \in DOMAIN rows /\ k.count \in Nat
  BY AckTypes
<1>2. \A j \in DOMAIN rows : rows[j] \in Row /\ rows[j].count \in Nat
  BY RowTypes DEF TypeInv
<1>3. /\ rows'[k.row].count = k.count /\ rows'[k.row].acked
      /\ \A j \in DOMAIN rows : j # k.row => rows'[j] = rows[j]
  BY <1>1, <1>2 DEF AckSave, Row
<1>4. acks' \subseteq acks /\ polls' = polls
  BY DEF AckSave
<1>5. AcksBehind'
  BY <1>3, <1>4, AckTypes DEF CountInv, AcksBehind
<1>6. SavesBehind'
  <2> SUFFICES ASSUME NEW b \in Agent, NEW t \in Slot, Saving(b, t)
               PROVE  SaveBound(rows'[polls[b][t].row], polls[b][t])
    BY <1>4 DEF SavesBehind, Saving, SaveBound
  <2>1. polls[b][t].row \in DOMAIN rows /\ SaveBound(rows[polls[b][t].row], polls[b][t])
    BY PollTypes DEF CountInv, SavesBehind
  <2>2. k.row = polls[b][t].row => k.count <= polls[b][t].count + 1
    BY DEF CountInv, AcksBeforeSave
  <2> QED
    BY <1>3, <2>1, <2>2 DEF SaveBound
<1>7. AcksBeforeSave' /\ SavesAgree'
  BY <1>4 DEF CountInv, AcksBeforeSave, SavesAgree, Saving
<1> QED
  BY <1>3, <1>5, <1>6, <1>7 DEF CountInv

\* What the sweep and the clock do to the rows.
LEMMA RetireCounts ==
  ASSUME TypeInv, CountInv, NEW a \in Agent, NEW s \in Slot, retire(a, s)
  PROVE  CountInv' /\ \A i \in DOMAIN rows : rows'[i].count = rows[i].count
<1>1. PICK i \in polls[a][s].todo : rows' = [rows EXCEPT ![i].acked = TRUE]
  BY DEF retire
<1>2. \A j \in DOMAIN rows : rows[j] \in Row
  BY RowTypes DEF TypeInv
<1>3. \A j \in DOMAIN rows : /\ rows'[j].count = rows[j].count
                             /\ rows'[j].leased = rows[j].leased
                             /\ rows[j].acked => rows'[j].acked
  BY <1>1, <1>2 DEF Row
<1>4. \A b \in Agent, t \in Slot : Saving(b, t)' => polls'[b][t] = polls[b][t]
  BY DEF retire, Saving, TypeInv, PollsOK, Poll
<1> QED
  BY <1>3, <1>4, CountKept DEF retire

LEMMA LeaseExpiresCounts ==
  ASSUME TypeInv, CountInv, NEW i \in DOMAIN rows, LeaseExpires(i)
  PROVE  CountInv' /\ \A j \in DOMAIN rows : rows'[j].count = rows[j].count
<1>1. \A j \in DOMAIN rows : rows[j] \in Row
  BY RowTypes DEF TypeInv
<1>2. \A j \in DOMAIN rows : /\ rows'[j].count = rows[j].count
                             /\ rows[j].acked => rows'[j].acked
                             /\ j # i => rows'[j].leased = rows[j].leased
  BY <1>1 DEF LeaseExpires, Row
<1>3. \A a \in Agent, s \in Slot : i \notin polls[a][s].since
  BY DEF LeaseExpires
<1> QED
  BY <1>2, <1>3, CountKept DEF LeaseExpires, Saving

\* The steps that leave every row as it is.
LEMMA OtherStepCounts ==
  ASSUME TypeInv, CountInv,
         \/ \E a \in Agent : \/ queue(a) \/ OpenPoll(a) \/ HandleDuplicate(a) \/ Dispatch(a)
                             \/ Record(a) \/ HandlerThrows(a) \/ AckFails(a)
                             \/ WriteEnds(a) \/ Crash(a) \/ Restart(a)
         \/ \E a \in Agent, s \in Slot : ListAbandoned(a, s) \/ WindowEnds(a, s)
         \/ UNCHANGED vars
  PROVE  CountInv' /\ \A i \in DOMAIN rows : rows'[i] = rows[i]
<1>1. acks' = acks /\ \A i \in DOMAIN rows : rows'[i] = rows[i]
  <2>1. ASSUME NEW a \in Agent, queue(a)
        PROVE  acks' = acks /\ \A i \in DOMAIN rows : rows'[i] = rows[i]
    <3> DEFINE r == [agent |-> a, count |-> 0, leased |-> FALSE, acked |-> FALSE]
    <3>1. r \in Row /\ rows' = Append(rows, r) /\ rows \in Seq(Row)
      BY <2>1 DEF Row, queue, TypeInv, RowsOK
    <3> QED
      BY <2>1, <3>1 DEF queue
  <2> QED
    BY <2>1 DEF OpenPoll, HandleDuplicate, Dispatch, Record, HandlerThrows, AckFails, WriteEnds,
                Crash, Restart, ListAbandoned, WindowEnds, apiVars, vars
<1>2. \A b \in Agent, t \in Slot : Saving(b, t)' => polls'[b][t] = polls[b][t]
  <2>1. ASSUME NEW a \in Agent, NEW s \in Slot,
               \/ ListAbandoned(a, s)
               \/ WindowEnds(a, s)
               \/ polls' = [polls EXCEPT ![a][s] = [ClosedPoll EXCEPT !.pc = "enter"]]
        PROVE  \A b \in Agent, t \in Slot : Saving(b, t)' => polls'[b][t] = polls[b][t]
    <3> SUFFICES ASSUME NEW b \in Agent, NEW t \in Slot, Saving(b, t)'
                 PROVE  polls'[b][t] = polls[b][t]
      OBVIOUS
    <3>1. ~(b = a /\ t = s) => polls'[b][t] = polls[b][t]
      BY <2>1 DEF ListAbandoned, WindowEnds, TypeInv, PollsOK
    <3>2. polls'[a][s].pc # "save"
      BY <2>1 DEF ListAbandoned, WindowEnds, ClosedPoll, TypeInv, PollsOK, Poll
    <3> QED
      BY <3>1, <3>2 DEF Saving
  <2>2. CASE polls' = polls
    BY <2>2
  <2> QED
    BY <2>1, <2>2 DEF queue, OpenPoll, HandleDuplicate, Dispatch, Record, HandlerThrows, AckFails,
                      WriteEnds, Crash, Restart, apiVars, vars
<1> QED
  BY <1>1, <1>2, CountKept

LEMMA CountInductive ==
  ASSUME TypeInv, CountInv, [Next]_vars
  PROVE  /\ CountInv'
         /\ \A i \in DOMAIN rows : ~rows'[i].acked => rows'[i].count >= rows[i].count
<1> DEFINE Grows == \A i \in DOMAIN rows : ~rows'[i].acked => rows'[i].count >= rows[i].count
<1>1. \A i \in DOMAIN rows : rows[i].count \in Nat
  BY RowTypes DEF TypeInv
<1>2. ASSUME NEW a \in Agent, NEW s \in Slot, PollStep(a, s)
      PROVE  CountInv' /\ Grows
  BY <1>1, <1>2, OtherStepCounts, RetireCounts, FindPendingCounts, SaveDeliveryCounts
     DEF PollStep
<1>3. ASSUME NEW a \in Agent, AckFind(a)
      PROVE  CountInv' /\ Grows
  BY <1>1, <1>3, AckFindCounts
<1>4. ASSUME NEW i \in DOMAIN rows, LeaseExpires(i)
      PROVE  CountInv' /\ Grows
  BY <1>1, <1>4, LeaseExpiresCounts
<1>5. ASSUME NEW k \in acks, AckSave(k)
      PROVE  CountInv' /\ Grows
  BY <1>1, <1>5, AckSaveCounts
<1>6. ASSUME NEW a \in Agent,
             \/ queue(a) \/ OpenPoll(a) \/ HandleDuplicate(a) \/ Dispatch(a) \/ Record(a)
             \/ HandlerThrows(a) \/ AckFails(a) \/ WriteEnds(a) \/ Crash(a) \/ Restart(a)
      PROVE  CountInv' /\ Grows
  BY <1>1, <1>6, OtherStepCounts
<1>7. ASSUME UNCHANGED vars
      PROVE  CountInv' /\ Grows
  BY <1>1, <1>7, OtherStepCounts
<1> HIDE DEF Grows
<1>8. CountInv' /\ Grows
  BY <1>2, <1>3, <1>4, <1>5, <1>6, <1>7 DEF Next, HandleStep
<1> QED
  BY <1>8 DEF Grows

\* However polls and acknowledgements overlap, the count of an open command
\* does not shrink, so one that kills its agent reaches the cap.
THEOREM CountsGrow == Spec => CountNeverShrinks
<1>1. Init => CountInv
  BY DEF Init, CountInv, AcksBehind, SavesBehind, AcksBeforeSave, SavesAgree, Saving, ClosedPoll
<1>2. TypeInv /\ CountInv /\ [Next]_vars => CountInv'
  BY CountInductive
<1>3. TypeInv /\ CountInv /\ [Next]_vars
      => [\A i \in DOMAIN rows : ~rows'[i].acked => rows'[i].count >= rows[i].count]_vars
  BY CountInductive
<1> QED
  BY <1>1, <1>2, <1>3, TypeInitial, TypeInductive, PTL DEF Spec, CountNeverShrinks
=============================================================================
