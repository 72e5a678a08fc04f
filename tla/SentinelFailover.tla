-------------------------- MODULE SentinelFailover --------------------------
(***************************************************************************)
(* The automatic failover of redis-stable/src/sentinel.c: how the          *)
(* Sentinels that monitor one master elect the one that promotes a         *)
(* replica, and how they agree on the address that results.                *)
(*                                                                         *)
(* A Sentinel is single-threaded, so each action below is a whole event:   *)
(* a pass of the timer (sentinelHandleRedisInstance), a command, a reply   *)
(* or a message of the hello channel.  Clocks are left out: whatever       *)
(* depends on elapsed time (S_DOWN and O_DOWN, the delay before a new      *)
(* failover, the timeouts, the refresh of what a replica reports) may      *)
(* happen or not at every pass.                                            *)
(*                                                                         *)
(* What a Sentinel sends stays available to its receivers for ever: a      *)
(* message may arrive late, out of order, more than once or never, as when *)
(* links are closed and opened again.                                      *)
(***************************************************************************)
EXTENDS Integers, FiniteSets

CONSTANTS
  Sentinels,    \* the Sentinels, all known to one another
  Addrs,        \* addresses of the Redis instances
  FirstMaster,  \* the address the Sentinels are configured with
  Quorum,       \* master->quorum
  MaxEpoch,     \* bound: epochs in use
  MaxRestarts,  \* bound: restarts of Sentinels
  MaxHellos,    \* bound: different hello messages
  None          \* no leader, no promoted replica (NULL)

ASSUME SentinelAssumption ==
  /\ IsFiniteSet(Sentinels)
  /\ FirstMaster \in Addrs
  /\ Quorum \in Nat \ {0}
  /\ MaxEpoch \in Nat
  /\ MaxRestarts \in Nat
  /\ MaxHellos \in Nat
  /\ None \notin Sentinels /\ None \notin Addrs

VARIABLES
  node,      \* the master's sentinelRedisInstance and current_epoch, per Sentinel
  disk,      \* what each Sentinel's configuration file holds
  requests,  \* is-master-down-by-addr requests that ask for a vote
  hellos,    \* hello messages published so far
  restarts,  \* restarts so far
  votes,     \* <<t, e, s>>: t voted for s in epoch e, as its replies report
  elected    \* history: who was elected, for which epoch, in which current_epoch

vars == <<node, disk, requests, hellos, restarts, votes, elected>>

Epochs == 0..MaxEpoch

\* SENTINEL_FAILOVER_STATE_*; UPDATE_CONFIG does not outlive the pass that sets it.
States == {"none", "wait_start", "select_slave", "send_slaveof_noone",
           "wait_promotion", "reconf_slaves"}

Node == [current_epoch: Epochs, leader: Sentinels \cup {None}, leader_epoch: Epochs,
         failover_state: States, failover_epoch: Epochs,
         promoted_slave: Addrs \cup {None}, addr: Addrs, config_epoch: Epochs]

\* The options of sentinel.conf that are not fixed.
Config == [current_epoch: Epochs, leader_epoch: Epochs, config_epoch: Epochs, addr: Addrs]

Request == [from: Sentinels, epoch: Epochs, addr: Addrs]

Hello == [current_epoch: Epochs, config_epoch: Epochs, addr: Addrs]

\* A replica is marked as promoted exactly from its selection to the end of the
\* failover.
PromotedMarked(n) ==
  n.promoted_slave # None <=>
    n.failover_state \in {"send_slaveof_noone", "wait_promotion", "reconf_slaves"}

\* The variables hold what their types say, and promoted_slave is set exactly in
\* the states of the failover that use it.
TypeOK ==
  /\ node \in [Sentinels -> Node]
  /\ \A s \in Sentinels : PromotedMarked(node[s])
  /\ disk \in [Sentinels -> Config]
  /\ requests \subseteq Request
  /\ hellos \subseteq Hello
  /\ restarts \in 0..MaxRestarts
  /\ votes \subseteq Sentinels \X Epochs \X Sentinels
  /\ elected \subseteq [who: Sentinels, epoch: Epochs, current: Epochs]

Init ==
  /\ node = [s \in Sentinels |->
       [current_epoch |-> 0, leader |-> None, leader_epoch |-> 0,
        failover_state |-> "none", failover_epoch |-> 0,
        promoted_slave |-> None, addr |-> FirstMaster, config_epoch |-> 0]]
  /\ disk = [s \in Sentinels |->
       [current_epoch |-> 0, leader_epoch |-> 0, config_epoch |-> 0, addr |-> FirstMaster]]
  /\ requests = {}
  /\ hellos = {}
  /\ restarts = 0
  /\ votes = {}
  /\ elected = {}

-----------------------------------------------------------------------------
(***************************************************************************)
(* Pieces the events are made of                                           *)
(***************************************************************************)

sentinelGetCurrentMasterAddress(n) ==
  IF n.failover_state = "reconf_slaves" THEN n.promoted_slave ELSE n.addr

\* sentinelFlushConfig: what of n is written to the configuration file.
Flushed(n) ==
  [current_epoch |-> n.current_epoch, leader_epoch |-> n.leader_epoch,
   config_epoch |-> n.config_epoch, addr |-> sentinelGetCurrentMasterAddress(n)]

\* Mutant of sentinelVoteLeader: no comparison with the epoch of the vote already
\* cast.
VoteAgain(n, e, c) ==
  LET current == IF e > n.current_epoch THEN e ELSE n.current_epoch
  IN  IF current <= e
      THEN [n EXCEPT !.current_epoch = current, !.leader = c, !.leader_epoch = current]
      ELSE [n EXCEPT !.current_epoch = current]

\* sentinelVoteLeader: vote for c in epoch e unless a vote for e or a later
\* epoch was cast already, or e is over.
sentinelVoteLeader(n, e, c) ==
  LET current == IF e > n.current_epoch THEN e ELSE n.current_epoch
  IN  IF n.leader_epoch < e /\ current <= e
      THEN [n EXCEPT !.current_epoch = current, !.leader = c, !.leader_epoch = current]
      ELSE [n EXCEPT !.current_epoch = current]

\* The vote s casts when its state goes from n to m.
VoteCast(s, n, m) ==
  IF m.leader # None /\ (m.leader # n.leader \/ m.leader_epoch # n.leader_epoch)
  THEN {<<s, m.leader_epoch, m.leader>>} ELSE {}

sentinelResetMasterAndChangeAddress(n, a) ==
  [n EXCEPT !.leader = None, !.failover_state = "none", !.promoted_slave = None, !.addr = a]

\* Mutant of sentinelAbortFailover: the selected replica stays marked as promoted.
AbortKeepsPromoted(n) == [n EXCEPT !.failover_state = "none"]

sentinelAbortFailover(n) ==
  [n EXCEPT !.failover_state = "none", !.promoted_slave = None]

\* The replies s may have had when it counts, for its current epoch (the reports
\* that are too old are forgotten).
Reports(s, n) ==
  IF n.failover_state = "wait_start"
  THEN SUBSET {v \in votes : v[1] # s /\ v[2] = n.current_epoch} ELSE {{}}

\* The others that voted for c according to the reports rs.
VotersFor(c, rs) == {t \in Sentinels : \E v \in rs : v[1] = t /\ v[3] = c}

\* Whom s votes for if it has not voted: the one most voted, or itself.
Candidates(s, rs) ==
  LET Count(c) == Cardinality(VotersFor(c, rs))
      voted == {c \in Sentinels : Count(c) > 0}
  IN  IF voted = {} THEN {s} ELSE {c \in voted : \A d \in voted : Count(d) <= Count(c)}

-----------------------------------------------------------------------------
(***************************************************************************)
(* The timer: sentinelHandleRedisInstance for the master                   *)
(***************************************************************************)

\* sentinelStartFailoverIfNeeded: the states n may be in after it.
sentinelStartFailoverIfNeeded(n) ==
  {n} \cup
  IF n.failover_state = "none" /\ n.current_epoch < MaxEpoch
  THEN {[n EXCEPT !.failover_state = "wait_start",
                  !.current_epoch = n.current_epoch + 1,
                  !.failover_epoch = n.current_epoch + 1]}
  ELSE {}

\* Mutant of IsLeader: half of the votes is taken for a majority.
IsLeaderByHalf(s, n, v, rs) ==
  LET mine == IF v.leader = s /\ v.leader_epoch = n.failover_epoch THEN 1 ELSE 0
      total == Cardinality(VotersFor(s, rs)) + mine
  IN  total >= Cardinality(Sentinels) \div 2 /\ total >= Quorum

\* sentinelGetLeader returns s: a majority, and at least Quorum, counting the
\* vote of s itself, v being its state once it has voted.  (At most one
\* Sentinel has a majority of the votes counted, so the winner is s exactly then.)
IsLeader(s, n, v, rs) ==
  LET mine == IF v.leader = s /\ v.leader_epoch = n.failover_epoch THEN 1 ELSE 0
      total == Cardinality(VotersFor(s, rs)) + mine
  IN  total >= Cardinality(Sentinels) \div 2 + 1 /\ total >= Quorum

\* sentinelFailoverWaitStart: go on if elected, else wait or give up.
sentinelFailoverWaitStart(s, n, rs) ==
  UNION {LET v == sentinelVoteLeader(n, n.failover_epoch, c)
         IN  IF IsLeader(s, n, v, rs)
             THEN {[v EXCEPT !.failover_state = "select_slave"]}
             ELSE {v, sentinelAbortFailover(v)} : c \in Candidates(s, rs)}

\* sentinelFailoverSelectSlave: any replica may be the best one, or none be good.
sentinelFailoverSelectSlave(n) ==
  {sentinelAbortFailover(n)} \cup
  {[n EXCEPT !.promoted_slave = a, !.failover_state = "send_slaveof_noone"]
     : a \in Addrs \ {n.addr}}

sentinelFailoverSendSlaveOfNoOne(n) ==
  {n, sentinelAbortFailover(n), [n EXCEPT !.failover_state = "wait_promotion"]}

sentinelFailoverWaitPromotion(n) == {n, sentinelAbortFailover(n)}

\* sentinelFailoverReconfNextSlave: wait for replicas, or end the failover, in
\* which case sentinelFailoverSwitchToPromotedSlave follows in the same pass.
sentinelFailoverReconfNextSlave(n) ==
  {n, sentinelResetMasterAndChangeAddress(n, n.promoted_slave)}

sentinelFailoverStateMachine(s, n, rs) ==
  CASE n.failover_state = "none" -> {n}
    [] n.failover_state = "wait_start" -> sentinelFailoverWaitStart(s, n, rs)
    [] n.failover_state = "select_slave" -> sentinelFailoverSelectSlave(n)
    [] n.failover_state = "send_slaveof_noone" -> sentinelFailoverSendSlaveOfNoOne(n)
    [] n.failover_state = "wait_promotion" -> sentinelFailoverWaitPromotion(n)
    [] n.failover_state = "reconf_slaves" -> sentinelFailoverReconfNextSlave(n)

\* sentinelAskMasterStateToOtherSentinels: ask for a vote if a failover is in
\* progress (the switch to the promoted replica comes after it).  Without one
\* the reply holds no vote, and the request is left out.
sentinelAskMasterStateToOtherSentinels(s, n, m) ==
  requests' = IF m.failover_state # "none" \/ m.addr # n.addr
              THEN requests \cup {[from |-> s, epoch |-> m.current_epoch, addr |-> n.addr]}
              ELSE requests

Timer(s) ==
  \E n \in sentinelStartFailoverIfNeeded(node[s]) :
    \E rs \in Reports(s, n) : \E m \in sentinelFailoverStateMachine(s, n, rs) :
      /\ node' = [node EXCEPT ![s] = m]
      /\ disk' = IF m.leader_epoch # n.leader_epoch \/ m.addr # n.addr
                 THEN [disk EXCEPT ![s] = Flushed(m)] ELSE disk
      /\ votes' = votes \cup VoteCast(s, n, m)
      /\ elected' = IF n.failover_state = "wait_start" /\ m.failover_state = "select_slave"
                    THEN elected \cup {[who |-> s, epoch |-> n.failover_epoch,
                                        current |-> n.current_epoch]} ELSE elected
      /\ sentinelAskMasterStateToOtherSentinels(s, n, m)
      /\ UNCHANGED <<hellos, restarts>>

\* sentinelRefreshInstanceInfo of the promoted replica: it reports to be a master.
PromotedSlaveInfo(s) ==
  LET m == [node[s] EXCEPT !.config_epoch = node[s].failover_epoch,
                           !.failover_state = "reconf_slaves"]
  IN  /\ node[s].failover_state = "wait_promotion"
      /\ node' = [node EXCEPT ![s] = m]
      /\ disk' = [disk EXCEPT ![s] = Flushed(m)]
      /\ UNCHANGED <<requests, hellos, restarts, votes, elected>>

\* A failover of another master this Sentinel monitors: current_epoch is one
\* for all of them, and its vote there writes the configuration file.
OtherMaster(s) ==
  LET m == [node[s] EXCEPT !.current_epoch = @ + 1]
  IN  /\ node[s].current_epoch < MaxEpoch
      /\ node' = [node EXCEPT ![s] = m]
      /\ disk' = [disk EXCEPT ![s] = Flushed(m)]
      /\ UNCHANGED <<requests, hellos, restarts, votes, elected>>

-----------------------------------------------------------------------------
(***************************************************************************)
(* Messages between Sentinels                                              *)
(***************************************************************************)

\* SENTINEL IS-MASTER-DOWN-BY-ADDR at t: a vote is sought for the master with
\* the address in the request, if t still monitors it; the reply is the vote.
IsMasterDownByAddr(t, req) ==
  LET m == sentinelVoteLeader(node[t], req.epoch, req.from)
  IN  /\ req.from # t
      /\ node[t].addr = req.addr
      /\ m # node[t]
      /\ node' = [node EXCEPT ![t] = m]
      /\ disk' = [disk EXCEPT ![t] = Flushed(m)]
      /\ votes' = votes \cup VoteCast(t, node[t], m)
      /\ UNCHANGED <<requests, hellos, restarts, elected>>

sentinelSendHello(s) ==
  /\ Cardinality(hellos) < MaxHellos
  /\ hellos' = hellos \cup
       {[current_epoch |-> node[s].current_epoch, config_epoch |-> node[s].config_epoch,
         addr |-> sentinelGetCurrentMasterAddress(node[s])]}
  /\ UNCHANGED <<node, disk, requests, restarts, votes, elected>>

\* sentinelProcessHelloMessage, from a Sentinel already known; a message may be
\* late, may come again and may be lost.  A newer configuration with the same
\* address is not written to the file, nor does it end a failover in progress.
sentinelProcessHelloMessage(t, h) ==
  LET n == node[t]
      e == IF h.current_epoch > n.current_epoch THEN h.current_epoch ELSE n.current_epoch
      n1 == [n EXCEPT !.current_epoch = e]
      n2 == [n1 EXCEPT !.config_epoch = h.config_epoch]
      newer == n.config_epoch < h.config_epoch
      m == IF ~newer THEN n1
           ELSE IF h.addr = n.addr THEN n2
           ELSE sentinelResetMasterAndChangeAddress(n2, h.addr)
  IN  /\ m # n
      /\ node' = [node EXCEPT ![t] = m]
      /\ disk' = [disk EXCEPT ![t] = IF m.addr # n.addr THEN Flushed(m)
                                     ELSE IF n1 # n THEN Flushed(n1) ELSE @]
      /\ UNCHANGED <<requests, hellos, restarts, votes, elected>>

\* A Sentinel stops and starts again from its configuration file.
Restart(s) ==
  LET d == disk[s]
  IN  /\ restarts < MaxRestarts
      /\ restarts' = restarts + 1
      /\ node' = [node EXCEPT ![s] =
           [current_epoch |-> IF d.config_epoch > d.current_epoch THEN d.config_epoch
                              ELSE d.current_epoch,
            leader |-> None, leader_epoch |-> d.leader_epoch,
            failover_state |-> "none", failover_epoch |-> 0,
            promoted_slave |-> None, addr |-> d.addr, config_epoch |-> d.config_epoch]]
      /\ UNCHANGED <<disk, requests, hellos, votes, elected>>

Next ==
  \/ \E s \in Sentinels :
       \/ Timer(s) \/ PromotedSlaveInfo(s) \/ OtherMaster(s)
       \/ sentinelSendHello(s) \/ Restart(s)
  \/ \E t \in Sentinels, req \in requests : IsMasterDownByAddr(t, req)
  \/ \E t \in Sentinels, h \in hellos : sentinelProcessHelloMessage(t, h)

Spec == Init /\ [][Next]_vars

-----------------------------------------------------------------------------
\* "Each Sentinel can vote just one time per epoch", whatever is asked of it, in
\* whatever order, across failovers given up and restarts.
OneVotePerEpoch ==
  \A v, w \in votes : v[1] = w[1] /\ v[2] = w[2] => v[3] = w[3]

\* The elections decided while the epoch of the failover was still the current one.
InEpoch == {x \in elected : x.current = x.epoch}

\* Of the Sentinels elected while the epoch of their failover was still the
\* current one, no two lead the failover of the same epoch.
OneLeaderPerEpoch == \A x, y \in InEpoch : x.epoch = y.epoch => x.who = y.who
=============================================================================
