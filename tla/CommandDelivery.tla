--------------------------- MODULE CommandDelivery ---------------------------
(***************************************************************************)
(* At-least-once delivery of commands to recording agents.                 *)
(*                                                                         *)
(* The API side is CommandsService and the two routes that drive it: the   *)
(* long poll (sweep of abandoned commands, then nextFor) and the           *)
(* acknowledgement.  The agent side is the poll loop, Agent.handle and the *)
(* durable applied-set.  Every database call is awaited, so each of them   *)
(* is a step of its own: a handler works on the snapshot it read, and its  *)
(* save() writes every column of that snapshot back.                       *)
(*                                                                         *)
(* An agent process may die at any point.  The request it was parked in is *)
(* not cancelled by that: the API's loop runs on as a ghost poll, hands a  *)
(* command to a connection nobody reads, and counts that as a delivery.    *)
(***************************************************************************)
EXTENDS Naturals, Sequences, FiniteSets

CONSTANTS Agent,     \* the enrolled agents
          Slot,      \* identifiers of long-poll requests one agent can have open
          MaxRows,   \* bound: commands ever queued
          Cap,       \* ABANDON_AFTER_DELIVERIES
          Retained   \* APPLIED_RETAINED, ids kept in the applied file

ASSUME CapAssumption == Cap \in Nat \ {0}
ASSUME BoundsAssumption == MaxRows \in Nat /\ Retained \in Nat \ {0}

VARIABLES
  rows,      \* the commands table in issuedAt order; the index is the command id
  polls,     \* polls[a][s]: the API's handler of a's poll request s
  acks,      \* acknowledge() calls between their read and their save
  procs,     \* procs[a]: the poll loop of agent a
  applied,   \* applied[a]: the in-memory applied-set, in insertion order
  disk,      \* disk[a]: the ids load() would return from the applied file
  writes,    \* writes[a]: un-awaited writes of the applied file, in flight
  handled,   \* history: commands some process ran to completion
  retired,   \* history: commands the sweep gave up on
  forgotten  \* history: forgotten[a], ids a's crashes lost from the applied-set

vars == <<rows, polls, acks, procs, applied, disk, writes, handled, retired, forgotten>>
apiVars == <<rows, polls, acks, retired>>
agentVars == <<procs, applied, disk, writes, handled, forgotten>>

Row == [agent : Agent, count : 0..Cap, leased : BOOLEAN, acked : BOOLEAN]

\* A poll handler: its program point, the abandoned ids still to be retired,
\* the command it read with the deliveryCount it saw, and the commands handed
\* out since it began.
Poll == [pc : {"closed", "enter", "sweep", "find", "save"}, todo : SUBSET Nat,
         row : Nat, count : 0..(Cap - 1), since : SUBSET Nat]
ClosedPoll == [pc |-> "closed", todo |-> {}, row |-> 0, count |-> 0, since |-> {}]

Ack == [row : Nat, count : 0..Cap, leased : BOOLEAN]

Proc == [pc : {"down", "idle", "waiting", "got", "running", "ack", "ackwait"},
         slot : Slot \cup {0}, cmd : Nat]
Idle == [pc |-> "idle", slot |-> 0, cmd |-> 0]
Down == [pc |-> "down", slot |-> 0, cmd |-> 0]

Ids(q) == {q[k] : k \in DOMAIN q}

TypeOK == /\ rows \in Seq(Row)
          /\ polls \in [Agent -> [Slot -> Poll]]
          /\ acks \subseteq Ack
          /\ procs \in [Agent -> Proc]
          /\ applied \in [Agent -> Seq(Nat)]
          /\ disk \in [Agent -> Seq(Nat)]
          /\ writes \in [Agent -> SUBSET Seq(Nat)]
          /\ handled \subseteq Nat
          /\ retired \subseteq Nat
          /\ forgotten \in [Agent -> SUBSET Nat]

Init == /\ rows = <<>>
        /\ polls = [a \in Agent |-> [s \in Slot |-> ClosedPoll]]
        /\ acks = {}
        /\ procs = [a \in Agent |-> Idle]
        /\ applied = [a \in Agent |-> <<>>]
        /\ disk = [a \in Agent |-> <<>>]
        /\ writes = [a \in Agent |-> {}]
        /\ handled = {}
        /\ retired = {}
        /\ forgotten = [a \in Agent |-> {}]

-----------------------------------------------------------------------------
\* The API: CommandsService and the routes that call it

queue(a) ==
  /\ Len(rows) < MaxRows
  /\ rows' = Append(rows, [agent |-> a, count |-> 0, leased |-> FALSE, acked |-> FALSE])
  /\ UNCHANGED <<polls, acks, retired, agentVars>>

\* What nextFor's query selects: not acknowledged, below the cap, and never
\* delivered or delivered at least a lease ago.
Deliverable(a) == {i \in DOMAIN rows : /\ rows[i].agent = a
                                       /\ ~rows[i].acked
                                       /\ rows[i].count < Cap
                                       /\ ~rows[i].leased}

\* Variant: MoreThan in place of MoreThanOrEqual.
abandoned_pastCap(a) == {i \in DOMAIN rows : /\ rows[i].agent = a
                                             /\ ~rows[i].acked
                                             /\ rows[i].count > Cap}

abandoned(a) == {i \in DOMAIN rows : /\ rows[i].agent = a
                                     /\ ~rows[i].acked
                                     /\ rows[i].count >= Cap}

Oldest(i, S) == i \in S /\ \A j \in S : i <= j

\* Whether a's process is still parked in request s: otherwise it is a ghost.
Connected(a, s) == procs[a].pc = "waiting" /\ procs[a].slot = s

ListAbandoned(a, s) ==
  /\ polls[a][s].pc = "enter"
  /\ polls' = [polls EXCEPT ![a][s].pc = IF abandoned(a) = {} THEN "find" ELSE "sweep",
                            ![a][s].todo = abandoned(a)]
  /\ UNCHANGED <<rows, acks, retired, agentVars>>

\* retire() updates the one column, whatever the row has become meanwhile.
\* After the last one the handler goes on to nextFor.
retire(a, s) ==
  /\ polls[a][s].pc = "sweep"
  /\ LET todo == polls[a][s].todo
     IN \E i \in todo :
          /\ Oldest(i, todo)
          /\ rows' = [rows EXCEPT ![i].acked = TRUE]
          /\ retired' = retired \cup {i}
          /\ polls' = [polls EXCEPT ![a][s].todo = todo \ {i},
                                    ![a][s].pc = IF todo = {i} THEN "find" ELSE "sweep"]
  /\ UNCHANGED <<acks, agentVars>>

FindPending(a, s) ==
  /\ polls[a][s].pc = "find"
  /\ \E i \in Deliverable(a) :
       /\ Oldest(i, Deliverable(a))
       /\ polls' = [polls EXCEPT ![a][s].pc = "save",
                                 ![a][s].row = i, ![a][s].count = rows[i].count]
  /\ UNCHANGED <<rows, acks, retired, agentVars>>

\* The poll window closed on an empty queue: 204.
WindowEnds(a, s) ==
  /\ polls[a][s].pc = "find"
  /\ Deliverable(a) = {}
  /\ polls' = [polls EXCEPT ![a][s] = ClosedPoll]
  /\ procs' = IF Connected(a, s) THEN [procs EXCEPT ![a] = Idle] ELSE procs
  /\ UNCHANGED <<rows, acks, retired, applied, disk, writes, handled, forgotten>>

\* The save of nextFor and the response that follows it.  The row read is
\* written back whole, so an acknowledgement saved in between is undone.  The
\* response reaches the agent, or is lost, or has nobody to reach.
SaveDelivery(a, s) ==
  /\ polls[a][s].pc = "save"
  /\ LET i == polls[a][s].row
     IN /\ rows' = [rows EXCEPT ![i].count = polls[a][s].count + 1,
                                ![i].leased = TRUE, ![i].acked = FALSE]
        /\ polls' = [polls EXCEPT ![a] =
                       [t \in Slot |-> IF t = s \/ polls[a][t].pc = "closed"
                                       THEN ClosedPoll
                                       ELSE [polls[a][t] EXCEPT !.since = @ \cup {i}]]]
        /\ \/ /\ Connected(a, s)
              /\ procs' = [procs EXCEPT ![a] = [pc |-> "got", slot |-> 0, cmd |-> i]]
           \/ /\ Connected(a, s)
              /\ procs' = [procs EXCEPT ![a] = Idle]
           \/ /\ ~Connected(a, s)
              /\ UNCHANGED procs
  /\ UNCHANGED <<acks, retired, applied, disk, writes, handled, forgotten>>

\* Variant: a lease shorter than the poll window.
LeaseExpires_short(i) ==
  /\ i \in DOMAIN rows
  /\ rows[i].leased
  /\ rows' = [rows EXCEPT ![i].leased = FALSE]
  /\ UNCHANGED <<polls, acks, retired, agentVars>>

\* LEASE_MS after the last handout.  A lease outlasts the poll window, so it
\* cannot run out while a poll that was open at the handout is still open.
LeaseExpires(i) ==
  /\ i \in DOMAIN rows
  /\ rows[i].leased
  /\ \A a \in Agent, s \in Slot : i \notin polls[a][s].since
  /\ rows' = [rows EXCEPT ![i].leased = FALSE]
  /\ UNCHANGED <<polls, acks, retired, agentVars>>

\* acknowledge(): the read, which returns at once for a row already closed.
AckFind(a) ==
  /\ procs[a].pc = "ack"
  /\ LET i == procs[a].cmd
     IN IF rows[i].acked
        THEN /\ procs' = [procs EXCEPT ![a] = Idle]
             /\ UNCHANGED acks
        ELSE /\ procs' = [procs EXCEPT ![a].pc = "ackwait"]
             /\ acks' = acks \cup {[row |-> i, count |-> rows[i].count,
                                    leased |-> rows[i].leased]}
  /\ UNCHANGED <<rows, polls, retired, applied, disk, writes, handled, forgotten>>

\* acknowledge(): the save, of the row as it was read.
AckSave(k) ==
  /\ k \in acks
  /\ acks' = acks \ {k}
  /\ rows' = [rows EXCEPT ![k.row].count = k.count, ![k.row].leased = k.leased,
                          ![k.row].acked = TRUE]
  /\ LET a == rows[k.row].agent
     IN procs' = IF procs[a].pc = "ackwait" /\ procs[a].cmd = k.row
                 THEN [procs EXCEPT ![a] = Idle] ELSE procs
  /\ UNCHANGED <<polls, retired, applied, disk, writes, handled, forgotten>>

-----------------------------------------------------------------------------
\* The agent: the poll loop, Agent.handle and the applied file

OpenPoll(a) ==
  /\ procs[a].pc = "idle"
  /\ \E s \in Slot :
       /\ polls[a][s].pc = "closed"
       /\ polls' = [polls EXCEPT ![a][s] = [ClosedPoll EXCEPT !.pc = "enter"]]
       /\ procs' = [procs EXCEPT ![a] = [pc |-> "waiting", slot |-> s, cmd |-> 0]]
  /\ UNCHANGED <<rows, acks, retired, applied, disk, writes, handled, forgotten>>

\* An id already in the applied-set is acknowledged and not run.
HandleDuplicate(a) ==
  /\ procs[a].pc = "got"
  /\ procs[a].cmd \in Ids(applied[a])
  /\ procs' = [procs EXCEPT ![a].pc = "ack"]
  /\ UNCHANGED <<apiVars, applied, disk, writes, handled, forgotten>>

\* Variant: the command is acknowledged on receipt.
Dispatch_acksFirst(a) ==
  /\ procs[a].pc = "got"
  /\ procs[a].cmd \notin Ids(applied[a])
  /\ procs' = [procs EXCEPT ![a].pc = "ack"]
  /\ UNCHANGED <<apiVars, applied, disk, writes, handled, forgotten>>

Dispatch(a) ==
  /\ procs[a].pc = "got"
  /\ procs[a].cmd \notin Ids(applied[a])
  /\ procs' = [procs EXCEPT ![a].pc = "running"]
  /\ UNCHANGED <<apiVars, applied, disk, writes, handled, forgotten>>

\* A handler that throws is neither recorded nor acknowledged; the poll loop
\* backs off and polls again.
HandlerThrows(a) ==
  /\ procs[a].pc = "running"
  /\ procs' = [procs EXCEPT ![a] = Idle]
  /\ UNCHANGED <<apiVars, applied, disk, writes, handled, forgotten>>

\* AppliedStore.save keeps the last Retained ids.
LastRetained(q) == IF Len(q) <= Retained THEN q
                   ELSE SubSeq(q, Len(q) - Retained + 1, Len(q))

\* The handler returned: applied.add, `void appliedStore.save', then the ack.
Record(a) ==
  /\ procs[a].pc = "running"
  /\ LET now == Append(applied[a], procs[a].cmd)
     IN /\ applied' = [applied EXCEPT ![a] = now]
        /\ writes' = [writes EXCEPT ![a] = @ \cup {LastRetained(now)}]
  /\ handled' = handled \cup {procs[a].cmd}
  /\ procs' = [procs EXCEPT ![a].pc = "ack"]
  /\ UNCHANGED <<apiVars, disk, forgotten>>

\* The request or its answer is lost; acknowledge() swallows the error.
AckFails(a) ==
  /\ procs[a].pc \in {"ack", "ackwait"}
  /\ procs' = [procs EXCEPT ![a] = Idle]
  /\ UNCHANGED <<apiVars, applied, disk, writes, handled, forgotten>>

\* One write of the applied file ends.  Writes are not awaited, so two can
\* overlap, in either order, and then leave a file that load() cannot parse.
WriteEnds(a) ==
  /\ \E w \in writes[a] :
       /\ writes' = [writes EXCEPT ![a] = @ \ {w}]
       /\ \/ disk' = [disk EXCEPT ![a] = w]
          \/ /\ writes[a] # {w}
             /\ disk' = [disk EXCEPT ![a] = <<>>]
  /\ UNCHANGED <<apiVars, procs, applied, handled, forgotten>>

\* The process dies.  A write in flight may have happened, not happened, or
\* left a partial file, which load() reads as an empty set.
Crash(a) ==
  /\ procs[a].pc # "down"
  /\ procs' = [procs EXCEPT ![a] = Down]
  /\ writes' = [writes EXCEPT ![a] = {}]
  /\ \E left \in {disk[a]} \cup writes[a] \cup (IF writes[a] = {} THEN {} ELSE {<<>>}) :
       /\ disk' = [disk EXCEPT ![a] = left]
       /\ forgotten' = [forgotten EXCEPT ![a] = @ \cup (Ids(applied[a]) \ Ids(left))]
  /\ applied' = [applied EXCEPT ![a] = <<>>]
  /\ UNCHANGED <<apiVars, handled>>

\* Variant: the new process is not given the ids of the old one.
Restart_unloaded(a) ==
  /\ procs[a].pc = "down"
  /\ procs' = [procs EXCEPT ![a] = Idle]
  /\ applied' = [applied EXCEPT ![a] = <<>>]
  /\ UNCHANGED <<apiVars, disk, writes, handled, forgotten>>

Restart(a) ==
  /\ procs[a].pc = "down"
  /\ procs' = [procs EXCEPT ![a] = Idle]
  /\ applied' = [applied EXCEPT ![a] = disk[a]]
  /\ UNCHANGED <<apiVars, disk, writes, handled, forgotten>>

-----------------------------------------------------------------------------
PollStep(a, s) == \/ ListAbandoned(a, s)
                  \/ retire(a, s)
                  \/ FindPending(a, s)
                  \/ WindowEnds(a, s)
                  \/ SaveDelivery(a, s)

\* What the agent's process does of its own accord.
HandleStep(a) == \/ HandleDuplicate(a)
                 \/ Dispatch(a)
                 \/ Record(a)
                 \/ AckFind(a)

Next == \/ \E a \in Agent : \/ queue(a)
                            \/ OpenPoll(a)
                            \/ HandleStep(a)
                            \/ HandlerThrows(a)
                            \/ AckFails(a)
                            \/ WriteEnds(a)
                            \/ Crash(a)
                            \/ Restart(a)
        \/ \E a \in Agent, s \in Slot : PollStep(a, s)
        \/ \E i \in DOMAIN rows : LeaseExpires(i)
        \/ \E k \in acks : AckSave(k)

\* The API's handlers and the clock keep running; a started process handles
\* what it was given; systemd restarts a dead agent.  Nothing is assumed of
\* the network or of how often an agent dies, except that it does not die
\* before each and every poll it would have made.
Fairness ==
  /\ \A a \in Agent : /\ SF_vars(OpenPoll(a))
                      /\ WF_vars(HandleStep(a))
                      /\ WF_vars(WriteEnds(a))
                      /\ WF_vars(Restart(a))
  /\ \A a \in Agent, s \in Slot : WF_vars(PollStep(a, s))
  /\ \A i \in 1..MaxRows : WF_vars(LeaseExpires(i))
  /\ WF_vars(\E k \in acks : AckSave(k))

Spec == Init /\ [][Next]_vars
FairSpec == Spec /\ Fairness
-----------------------------------------------------------------------------
\* A command leaves the queue only for a reason: a process ran its handler to
\* the end, or the sweep gave up on it.  In particular no ack overtakes the work.
AckedMeansHandled ==
  \A i \in DOMAIN rows : rows[i].acked => i \in handled \cup retired

\* A command that was once carried out is carried out again only if a crash
\* took its id from the applied-set before the file held it.  This is what
\* makes redelivery safe: a second `start' would interleave two recordings.
RerunOnlyIfForgotten ==
  \A a \in Agent : /\ procs[a].pc = "running"
                   /\ procs[a].cmd \in handled
                   => procs[a].cmd \in forgotten[a]

\* The road to the cap is never walked backwards.  Two polls may count one
\* delivery twice as one, but an open command's count does not shrink, or a
\* command that kills the agent would be offered for ever.
CountNeverShrinks ==
  [][\A i \in DOMAIN rows : ~rows'[i].acked => rows'[i].count >= rows[i].count]_vars

\* Every queued command is closed for good, however often the agent dies and
\* whatever the network loses: acknowledged, or abandoned at the cap.
EveryCommandSettles ==
  \A i \in 1..MaxRows :
    (i \in DOMAIN rows) ~> [](i \in DOMAIN rows /\ rows[i].acked)

\* What retire()'s comment relies on: `deliveryCount' still tells a command
\* that was given up on from one the agent applied.
CapTellsAbandoned ==
  \A i \in DOMAIN rows : rows[i].acked /\ rows[i].count >= Cap => i \in retired

\* What nextFor's comment says of the acknowledgement: it retires the row.
AckIsFinal == [][\A i \in DOMAIN rows : rows[i].acked => rows'[i].acked]_vars
=============================================================================
