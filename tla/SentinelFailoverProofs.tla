----------------------- MODULE SentinelFailoverProofs -----------------------
(***************************************************************************)
(* Proofs about SentinelFailover, for any set of Sentinels, any number of  *)
(* epochs and any number of restarts.                                      *)
(***************************************************************************)
EXTENDS SentinelFailover, FiniteSetTheorems, TLAPS

\* The configuration file knows of the last vote, no vote is for a later epoch
\* than the last one, and the leader a Sentinel names is the one it voted for.
VotesOK ==
  \A t \in Sentinels :
    /\ disk[t].leader_epoch = node[t].leader_epoch
    /\ \A v \in votes : v[1] = t => v[2] <= node[t].leader_epoch
    /\ node[t].leader # None => <<t, node[t].leader_epoch, node[t].leader>> \in votes

Voters(x) == {t \in Sentinels : <<t, x.epoch, x.who>> \in votes}

MajoritiesOK ==
  \A x \in InEpoch : 2 * Cardinality(Voters(x)) > Cardinality(Sentinels)

IInv == TypeOK /\ VotesOK /\ OneVotePerEpoch /\ MajoritiesOK

\* What a step of t may do to the vote it holds.
VoteKept(n, m) == m.leader_epoch = n.leader_epoch /\ m.leader \in {n.leader, None}
VoteNew(n, m) == m.leader_epoch > n.leader_epoch /\ m.leader \in Sentinels

\* A step in which t goes to state m.
StepOf(t, m) ==
  /\ m \in Node /\ PromotedMarked(m)
  /\ VoteKept(node[t], m) \/ VoteNew(node[t], m)
  /\ node' = [node EXCEPT ![t] = m]
  /\ disk' \in [Sentinels -> Config]
  /\ \E d \in Config : disk' = [disk EXCEPT ![t] = d] /\ d.leader_epoch = m.leader_epoch
  /\ votes' = votes \cup VoteCast(t, node[t], m)

LEMMA VoteLeaderType ==
  ASSUME NEW n \in Node, PromotedMarked(n), NEW e \in Epochs, NEW c \in Sentinels,
         NEW m, m = sentinelVoteLeader(n, e, c)
  PROVE  /\ m \in Node /\ PromotedMarked(m)
         /\ m.failover_state = n.failover_state /\ m.addr = n.addr
         /\ (VoteKept(n, m) /\ m.leader = n.leader) \/ VoteNew(n, m)
<1> DEFINE cur == IF e > n.current_epoch THEN e ELSE n.current_epoch
<1>1. cur \in Epochs
  BY Zenon DEF Node
<1>2. CASE n.leader_epoch < e /\ cur <= e
  <2>1. m = [n EXCEPT !.current_epoch = cur, !.leader = c, !.leader_epoch = cur]
    BY <1>2, Zenon DEF sentinelVoteLeader
  <2>2. cur = e
    BY <1>2, SentinelAssumption DEF Node, Epochs
  <2> HIDE DEF cur
  <2>3. m \in Node /\ PromotedMarked(m)
    BY <1>1, <2>1, Zenon DEF Node, PromotedMarked
  <2>4. m.failover_state = n.failover_state /\ m.addr = n.addr
    BY <2>1, Zenon DEF Node
  <2>5. VoteNew(n, m)
    BY <1>2, <2>1, <2>2, Zenon DEF Node, VoteNew
  <2> QED
    BY <2>3, <2>4, <2>5, Zenon
<1>3. CASE ~(n.leader_epoch < e /\ cur <= e)
  <2>1. m = [n EXCEPT !.current_epoch = cur]
    BY <1>3, Zenon DEF sentinelVoteLeader
  <2> QED
    BY <1>1, <2>1, Zenon DEF Node, PromotedMarked, VoteKept
<1> QED
  BY <1>2, <1>3, Zenon

LEMMA FlushedType ==
  ASSUME NEW n \in Node, PromotedMarked(n)
  PROVE  Flushed(n) \in Config /\ Flushed(n).leader_epoch = n.leader_epoch
BY SentinelAssumption, Zenon DEF Flushed, Config, Node, PromotedMarked,
  sentinelGetCurrentMasterAddress


\* sentinelStartFailoverIfNeeded touches no vote.
LEMMA StartType ==
  ASSUME NEW k \in Node, PromotedMarked(k), NEW n \in sentinelStartFailoverIfNeeded(k)
  PROVE  /\ n \in Node /\ PromotedMarked(n)
         /\ n.leader = k.leader /\ n.leader_epoch = k.leader_epoch /\ n.addr = k.addr
<1>1. CASE n = k
  BY <1>1, Zenon
<1>2. CASE /\ k.failover_state = "none" /\ k.current_epoch < MaxEpoch
           /\ n = [k EXCEPT !.failover_state = "wait_start",
                            !.current_epoch = k.current_epoch + 1,
                            !.failover_epoch = k.current_epoch + 1]
  <2>1. k.current_epoch + 1 \in Epochs
    BY <1>2, SentinelAssumption DEF Node, Epochs
  <2> QED
    BY <1>2, <2>1, Zenon DEF Node, PromotedMarked, States
<1> QED
  BY <1>1, <1>2, Zenon DEF sentinelStartFailoverIfNeeded

LEMMA AbortType ==
  ASSUME NEW n \in Node, NEW m, m = sentinelAbortFailover(n)
  PROVE  /\ m \in Node /\ PromotedMarked(m) /\ m.failover_state = "none"
         /\ VoteKept(n, m) /\ m.leader = n.leader
BY Zenon DEF sentinelAbortFailover, Node, PromotedMarked, VoteKept, States

LEMMA ResetType ==
  ASSUME NEW n \in Node, NEW a \in Addrs, NEW m,
         m = sentinelResetMasterAndChangeAddress(n, a)
  PROVE  /\ m \in Node /\ PromotedMarked(m) /\ VoteKept(n, m) /\ m.failover_state = "none"
BY Zenon DEF sentinelResetMasterAndChangeAddress, Node, PromotedMarked, VoteKept, States

\* What sentinelFailoverWaitStart may return.
LEMMA WaitStartType ==
  ASSUME NEW s \in Sentinels, NEW n \in Node, PromotedMarked(n), NEW rs,
         n.failover_state = "wait_start", NEW m \in sentinelFailoverWaitStart(s, n, rs)
  PROVE  /\ m \in Node /\ PromotedMarked(m)
         /\ VoteKept(n, m) \/ VoteNew(n, m)
         /\ m.failover_state = "select_slave" =>
              IsLeader(s, n, m, rs) /\ (m.leader = n.leader \/ VoteNew(n, m))
<1>1. PICK c \in Candidates(s, rs) :
        m \in IF IsLeader(s, n, sentinelVoteLeader(n, n.failover_epoch, c), rs)
              THEN {[sentinelVoteLeader(n, n.failover_epoch, c)
                       EXCEPT !.failover_state = "select_slave"]}
              ELSE {sentinelVoteLeader(n, n.failover_epoch, c),
                    sentinelAbortFailover(sentinelVoteLeader(n, n.failover_epoch, c))}
  BY Zenon DEF sentinelFailoverWaitStart
<1>2. c \in Sentinels
  BY <1>1, Zenon DEF Candidates
<1> DEFINE v == sentinelVoteLeader(n, n.failover_epoch, c)
<1>3. /\ v \in Node /\ PromotedMarked(v)
      /\ v.failover_state = "wait_start"
      /\ (VoteKept(n, v) /\ v.leader = n.leader) \/ VoteNew(n, v)
  BY <1>2, VoteLeaderType DEF Node
<1>4. CASE IsLeader(s, n, v, rs) /\ m = [v EXCEPT !.failover_state = "select_slave"]
  <2> HIDE DEF v
  <2>1. /\ m \in Node /\ PromotedMarked(m)
        /\ m.leader = v.leader /\ m.leader_epoch = v.leader_epoch
    BY <1>3, <1>4, Zenon DEF Node, PromotedMarked, States
  <2>2. IsLeader(s, n, m, rs)
    BY <1>4, <2>1, Zenon DEF IsLeader
  <2> QED
    BY <1>3, <2>1, <2>2, Zenon DEF VoteKept, VoteNew
<1>5. CASE m = v
  BY <1>3, <1>5, Zenon
<1>6. CASE m = sentinelAbortFailover(v)
  <2> HIDE DEF v
  <2>1. /\ m \in Node /\ PromotedMarked(m) /\ m.failover_state = "none"
        /\ m.leader_epoch = v.leader_epoch /\ m.leader = v.leader
    BY <1>3, <1>6, AbortType, Zenon DEF VoteKept
  <2> QED
    BY <1>3, <2>1, Zenon DEF VoteKept, VoteNew
<1> QED
  BY <1>1, <1>4, <1>5, <1>6, Zenon


\* What sentinelFailoverStateMachine may return.
LEMMA MachineType ==
  ASSUME NEW s \in Sentinels, NEW n \in Node, PromotedMarked(n), NEW rs,
         NEW m \in sentinelFailoverStateMachine(s, n, rs)
  PROVE  /\ m \in Node /\ PromotedMarked(m)
         /\ VoteKept(n, m) \/ VoteNew(n, m)
         /\ n.failover_state = "wait_start" /\ m.failover_state = "select_slave" =>
              IsLeader(s, n, m, rs) /\ (m.leader = n.leader \/ VoteNew(n, m))
<1>1. n.failover_state \in States
  BY Zenon DEF Node
<1>2. CASE n.failover_state = "none"
  BY <1>2, Zenon DEF sentinelFailoverStateMachine, VoteKept
<1>3. CASE n.failover_state = "wait_start"
  BY <1>3, WaitStartType, Zenon DEF sentinelFailoverStateMachine
<1>4. CASE n.failover_state = "select_slave"
  <2>1. m \in sentinelFailoverSelectSlave(n)
    BY <1>4, Zenon DEF sentinelFailoverStateMachine
  <2>2. CASE m = sentinelAbortFailover(n)
    BY <1>4, <2>2, AbortType, Zenon
  <2>3. CASE \E a \in Addrs \ {n.addr} :
               m = [n EXCEPT !.promoted_slave = a, !.failover_state = "send_slaveof_noone"]
    <3>1. PICK a \in Addrs :
            m = [n EXCEPT !.promoted_slave = a, !.failover_state = "send_slaveof_noone"]
      BY <2>3, Zenon
    <3>2. a # None
      BY SentinelAssumption, Zenon
    <3>3. m \in Node /\ m.promoted_slave = a /\ m.failover_state = "send_slaveof_noone"
      BY <3>1, Zenon DEF Node, States
    <3>4. VoteKept(n, m)
      BY <3>1, Zenon DEF Node, VoteKept
    <3> QED
      BY <1>4, <3>2, <3>3, <3>4, Zenon DEF PromotedMarked
  <2> QED
    BY <2>1, <2>2, <2>3, Zenon DEF sentinelFailoverSelectSlave
<1>5. CASE n.failover_state = "send_slaveof_noone"
  <2>1. m \in sentinelFailoverSendSlaveOfNoOne(n)
    BY <1>5, Zenon DEF sentinelFailoverStateMachine
  <2>2. CASE m = sentinelAbortFailover(n)
    BY <1>5, <2>2, AbortType, Zenon
  <2>3. CASE m = [n EXCEPT !.failover_state = "wait_promotion"]
    BY <1>5, <2>3, Zenon DEF Node, PromotedMarked, VoteKept, States
  <2> QED
    BY <1>5, <2>1, <2>2, <2>3, Zenon DEF sentinelFailoverSendSlaveOfNoOne, VoteKept
<1>6. CASE n.failover_state = "wait_promotion"
  <2>1. m \in {n, sentinelAbortFailover(n)}
    BY <1>6, Zenon DEF sentinelFailoverStateMachine, sentinelFailoverWaitPromotion
  <2> QED
    BY <1>6, <2>1, AbortType, Zenon DEF VoteKept
<1>7. CASE n.failover_state = "reconf_slaves"
  <2>1. m \in {n, sentinelResetMasterAndChangeAddress(n, n.promoted_slave)}
    BY <1>7, Zenon DEF sentinelFailoverStateMachine, sentinelFailoverReconfNextSlave
  <2>2. n.promoted_slave \in Addrs
    BY <1>7, Zenon DEF Node, PromotedMarked
  <2> QED
    BY <1>7, <2>1, <2>2, ResetType, Zenon DEF VoteKept
<1> QED
  BY <1>1, <1>2, <1>3, <1>4, <1>5, <1>6, <1>7, Zenon DEF States

\* A pass of the timer: one state changes, and requests stay requests.
LEMMA TimerStep ==
  ASSUME IInv, NEW s \in Sentinels, Timer(s)
  PROVE  /\ \E m : StepOf(s, m)
         /\ requests' \subseteq Request
<1>1. node[s] \in Node /\ PromotedMarked(node[s])
  BY Zenon DEF IInv, TypeOK
<1>2. PICK n \in sentinelStartFailoverIfNeeded(node[s]) :
      \E rs \in Reports(s, n) : \E m \in sentinelFailoverStateMachine(s, n, rs) :
        /\ node' = [node EXCEPT ![s] = m]
        /\ disk' = IF m.leader_epoch # n.leader_epoch \/ m.addr # n.addr
                   THEN [disk EXCEPT ![s] = Flushed(m)] ELSE disk
        /\ votes' = votes \cup VoteCast(s, n, m)
        /\ sentinelAskMasterStateToOtherSentinels(s, n, m)
  BY Zenon DEF Timer
<1>3. PICK rs \in Reports(s, n) : \E m \in sentinelFailoverStateMachine(s, n, rs) :
        /\ node' = [node EXCEPT ![s] = m]
        /\ disk' = IF m.leader_epoch # n.leader_epoch \/ m.addr # n.addr
                   THEN [disk EXCEPT ![s] = Flushed(m)] ELSE disk
        /\ votes' = votes \cup VoteCast(s, n, m)
        /\ sentinelAskMasterStateToOtherSentinels(s, n, m)
  BY <1>2, Zenon
<1>3a. PICK m \in sentinelFailoverStateMachine(s, n, rs) :
        /\ node' = [node EXCEPT ![s] = m]
        /\ disk' = IF m.leader_epoch # n.leader_epoch \/ m.addr # n.addr
                   THEN [disk EXCEPT ![s] = Flushed(m)] ELSE disk
        /\ votes' = votes \cup VoteCast(s, n, m)
        /\ sentinelAskMasterStateToOtherSentinels(s, n, m)
  BY <1>3, Zenon
<1>4. /\ n \in Node /\ PromotedMarked(n)
      /\ n.leader = node[s].leader /\ n.leader_epoch = node[s].leader_epoch
  BY <1>1, <1>2, StartType, Zenon
<1>5. /\ m \in Node /\ PromotedMarked(m)
      /\ VoteKept(n, m) \/ VoteNew(n, m)
  BY <1>3a, <1>4, MachineType, Zenon
<1>6. VoteKept(node[s], m) \/ VoteNew(node[s], m)
  BY <1>4, <1>5, Zenon DEF VoteKept, VoteNew
<1>7. votes' = votes \cup VoteCast(s, node[s], m)
  BY <1>3a, <1>4, Zenon DEF VoteCast
<1>8. \E d \in Config : disk' = [disk EXCEPT ![s] = d] /\ d.leader_epoch = m.leader_epoch
  <2>1. disk \in [Sentinels -> Config] /\ disk[s].leader_epoch = node[s].leader_epoch
    BY Zenon DEF IInv, TypeOK, VotesOK
  <2>2. Flushed(m) \in Config /\ Flushed(m).leader_epoch = m.leader_epoch
    BY <1>5, FlushedType, Zenon
  <2>3. CASE m.leader_epoch # n.leader_epoch \/ m.addr # n.addr
    BY <1>3a, <2>2, <2>3, Zenon
  <2>4. CASE ~(m.leader_epoch # n.leader_epoch \/ m.addr # n.addr)
    <3>1. disk' = [disk EXCEPT ![s] = disk[s]]
      BY <1>3a, <2>1, <2>4, Zenon
    <3> QED
      BY <1>4, <2>1, <2>4, <3>1, Zenon
  <2> QED
    BY <2>3, <2>4, Zenon
<1>9. disk' \in [Sentinels -> Config]
  BY <1>8, Zenon DEF IInv, TypeOK
<1>10. requests' \subseteq Request
  BY <1>3a, <1>4, <1>5 DEF sentinelAskMasterStateToOtherSentinels, IInv, TypeOK, Request, Node
<1>11. node' = [node EXCEPT ![s] = m]
  BY <1>3a, Zenon
<1>12. StepOf(s, m)
  BY <1>5, <1>6, <1>7, <1>8, <1>9, <1>11, Zenon DEF StepOf
<1> QED
  BY <1>10, <1>12, Zenon


\* The other steps, none of which touches requests.
LEMMA PromotedStep ==
  ASSUME IInv, NEW s \in Sentinels, PromotedSlaveInfo(s)
  PROVE  \E m : StepOf(s, m)
<1> DEFINE m == [node[s] EXCEPT !.config_epoch = node[s].failover_epoch,
                                !.failover_state = "reconf_slaves"]
<1>1. node[s] \in Node /\ PromotedMarked(node[s]) /\ disk \in [Sentinels -> Config]
  BY Zenon DEF IInv, TypeOK
<1>2. m \in Node /\ PromotedMarked(m) /\ VoteKept(node[s], m)
  BY <1>1, Zenon DEF PromotedSlaveInfo, Node, PromotedMarked, VoteKept, States
<1>3. /\ node' = [node EXCEPT ![s] = m] /\ disk' = [disk EXCEPT ![s] = Flushed(m)]
      /\ votes' = votes
  BY Zenon DEF PromotedSlaveInfo
<1>4. VoteCast(s, node[s], m) = {}
  BY <1>1, Zenon DEF VoteCast, Node
<1> HIDE DEF m
<1> QED
  BY <1>1, <1>2, <1>3, <1>4, FlushedType, Zenon DEF StepOf

LEMMA OtherMasterStep ==
  ASSUME IInv, NEW s \in Sentinels, OtherMaster(s)
  PROVE  \E m : StepOf(s, m)
<1> DEFINE m == [node[s] EXCEPT !.current_epoch = node[s].current_epoch + 1]
<1>1. node[s] \in Node /\ PromotedMarked(node[s]) /\ disk \in [Sentinels -> Config]
  BY Zenon DEF IInv, TypeOK
<1>2. node[s].current_epoch + 1 \in Epochs
  BY <1>1, SentinelAssumption DEF OtherMaster, Node, Epochs
<1>3. m \in Node /\ PromotedMarked(m) /\ VoteKept(node[s], m)
  BY <1>1, <1>2, Zenon DEF Node, PromotedMarked, VoteKept
<1>4. /\ node' = [node EXCEPT ![s] = m] /\ disk' = [disk EXCEPT ![s] = Flushed(m)]
      /\ votes' = votes
  BY Zenon DEF OtherMaster
<1>5. VoteCast(s, node[s], m) = {}
  BY <1>1, Zenon DEF VoteCast, Node
<1> HIDE DEF m
<1> QED
  BY <1>1, <1>3, <1>4, <1>5, FlushedType, Zenon DEF StepOf

LEMMA VoteStep ==
  ASSUME IInv, NEW t \in Sentinels, NEW req \in requests, IsMasterDownByAddr(t, req)
  PROVE  \E m : StepOf(t, m)
<1> DEFINE m == sentinelVoteLeader(node[t], req.epoch, req.from)
<1>1. node[t] \in Node /\ PromotedMarked(node[t]) /\ disk \in [Sentinels -> Config]
  BY Zenon DEF IInv, TypeOK
<1>2. req.epoch \in Epochs /\ req.from \in Sentinels
  BY Zenon DEF IInv, TypeOK, Request
<1>3. m \in Node /\ PromotedMarked(m) /\ (VoteKept(node[t], m) \/ VoteNew(node[t], m))
  BY <1>1, <1>2, VoteLeaderType, Zenon
<1>4. /\ node' = [node EXCEPT ![t] = m] /\ disk' = [disk EXCEPT ![t] = Flushed(m)]
      /\ votes' = votes \cup VoteCast(t, node[t], m)
  BY Zenon DEF IsMasterDownByAddr
<1> HIDE DEF m
<1> QED
  BY <1>1, <1>3, <1>4, FlushedType, Zenon DEF StepOf


LEMMA HelloStep ==
  ASSUME IInv, NEW t \in Sentinels, NEW h \in hellos, sentinelProcessHelloMessage(t, h)
  PROVE  \E m : StepOf(t, m)
<1> DEFINE n == node[t]
           e == IF h.current_epoch > n.current_epoch THEN h.current_epoch ELSE n.current_epoch
           n1 == [n EXCEPT !.current_epoch = e]
           n2 == [n1 EXCEPT !.config_epoch = h.config_epoch]
           r == sentinelResetMasterAndChangeAddress(n2, h.addr)
           m == IF ~(n.config_epoch < h.config_epoch) THEN n1
                ELSE IF h.addr = n.addr THEN n2 ELSE r
           d == IF m.addr # n.addr THEN Flushed(m)
                ELSE IF n1 # n THEN Flushed(n1) ELSE disk[t]
<1>1. /\ n \in Node /\ PromotedMarked(n) /\ disk \in [Sentinels -> Config]
      /\ h.current_epoch \in Epochs /\ h.config_epoch \in Epochs /\ h.addr \in Addrs
      /\ disk[t].leader_epoch = n.leader_epoch
  BY Zenon DEF IInv, TypeOK, Hello, VotesOK
<1>2. /\ node' = [node EXCEPT ![t] = m] /\ disk' = [disk EXCEPT ![t] = d]
      /\ votes' = votes
  BY Zenon DEF sentinelProcessHelloMessage
<1>3. e \in Epochs
  BY <1>1, Zenon DEF Node
<1> HIDE DEF n, e
<1>4. n1 \in Node /\ PromotedMarked(n1) /\ VoteKept(n, n1) /\ n1.leader = n.leader
  BY <1>1, <1>3, Zenon DEF Node, PromotedMarked, VoteKept
<1> HIDE DEF n1
<1>5. n2 \in Node /\ PromotedMarked(n2) /\ VoteKept(n, n2) /\ n2.leader = n.leader
  BY <1>1, <1>4, Zenon DEF Node, PromotedMarked, VoteKept
<1> HIDE DEF n2
<1>6. r \in Node /\ PromotedMarked(r) /\ VoteKept(n, r) /\ r.leader = None
  <2>1. r \in Node /\ PromotedMarked(r) /\ VoteKept(n2, r)
    BY <1>1, <1>5, ResetType, Zenon
  <2>2. r.leader = None
    BY <1>5, Zenon DEF sentinelResetMasterAndChangeAddress, Node
  <2> QED
    BY <1>5, <2>1, <2>2, Zenon DEF VoteKept
<1> HIDE DEF r
<1>7. m \in Node /\ PromotedMarked(m) /\ VoteKept(n, m) /\ m.leader \in {n.leader, None}
  BY <1>4, <1>5, <1>6, Zenon
<1>8. VoteCast(t, n, m) = {}
  BY <1>7, Zenon DEF VoteCast, VoteKept
<1> HIDE DEF m
<1>9. d \in Config /\ d.leader_epoch = m.leader_epoch
  <2>1. CASE m.addr # n.addr
    BY <1>7, <2>1, FlushedType, Zenon
  <2>2. CASE m.addr = n.addr /\ n1 # n
    BY <1>4, <1>7, <2>2, FlushedType, Zenon DEF VoteKept
  <2>3. CASE m.addr = n.addr /\ n1 = n
    BY <1>1, <1>7, <2>3, Zenon DEF VoteKept
  <2> QED
    BY <2>1, <2>2, <2>3, Zenon
<1> HIDE DEF d
<1> QED
  BY <1>1, <1>2, <1>7, <1>8, <1>9, Zenon DEF StepOf, n

LEMMA RestartStep ==
  ASSUME IInv, NEW s \in Sentinels, Restart(s)
  PROVE  \E m : StepOf(s, m)
<1> DEFINE d == disk[s]
           m == [current_epoch |-> IF d.config_epoch > d.current_epoch THEN d.config_epoch
                                   ELSE d.current_epoch,
                 leader |-> None, leader_epoch |-> d.leader_epoch,
                 failover_state |-> "none", failover_epoch |-> 0,
                 promoted_slave |-> None, addr |-> d.addr, config_epoch |-> d.config_epoch]
<1>1. /\ d \in Config /\ disk \in [Sentinels -> Config]
      /\ d.leader_epoch = node[s].leader_epoch
  BY Zenon DEF IInv, TypeOK, VotesOK
<1>2. /\ node' = [node EXCEPT ![s] = m] /\ disk' = disk /\ votes' = votes
  BY Zenon DEF Restart
<1>3. 0 \in Epochs
  BY SentinelAssumption DEF Epochs
<1>4. disk' = [disk EXCEPT ![s] = d]
  BY <1>1, <1>2, Zenon
<1> HIDE DEF d
<1>5. m \in Node /\ PromotedMarked(m) /\ VoteKept(node[s], m) /\ m.leader_epoch = d.leader_epoch
  BY <1>1, <1>3, Zenon DEF Config, Node, PromotedMarked, VoteKept, States
<1>6. VoteCast(s, node[s], m) = {}
  BY Zenon DEF VoteCast
<1> HIDE DEF m
<1> QED
  BY <1>1, <1>2, <1>4, <1>5, <1>6, Zenon DEF StepOf

\* A step of one Sentinel keeps VotesOK and OneVotePerEpoch.
LEMMA StepKeepsVotes ==
  ASSUME IInv, NEW t \in Sentinels, NEW m, StepOf(t, m)
  PROVE  /\ node' \in [Sentinels -> Node] /\ disk' \in [Sentinels -> Config]
         /\ \A s \in Sentinels : PromotedMarked(node'[s])
         /\ votes' \subseteq Sentinels \X Epochs \X Sentinels
         /\ VotesOK'
         /\ OneVotePerEpoch'
         /\ votes \subseteq votes'
<1>1. /\ node \in [Sentinels -> Node] /\ disk \in [Sentinels -> Config]
      /\ \A s \in Sentinels : PromotedMarked(node[s])
      /\ votes \subseteq Sentinels \X Epochs \X Sentinels
  BY Zenon DEF IInv, TypeOK
<1>2. /\ node' \in [Sentinels -> Node] /\ disk' \in [Sentinels -> Config]
      /\ \A s \in Sentinels : PromotedMarked(node'[s])
      /\ \A s \in Sentinels : s # t => node'[s] = node[s] /\ disk'[s] = disk[s]
      /\ node'[t] = m /\ disk'[t].leader_epoch = m.leader_epoch
  BY <1>1, Zenon DEF StepOf
<1>3. CASE VoteKept(node[t], m)
  <2>1. votes' = votes
    BY <1>3, Zenon DEF StepOf, VoteCast, VoteKept
  <2>2. VotesOK'
    BY <1>2, <1>3, <2>1, Zenon DEF VotesOK, IInv, VoteKept
  <2> QED
    BY <1>1, <1>2, <2>1, <2>2, Zenon DEF IInv, OneVotePerEpoch
<1>4. CASE VoteNew(node[t], m)
  <2> DEFINE new == <<t, m.leader_epoch, m.leader>>
  <2>1. m \in Node /\ m.leader \in Sentinels /\ m.leader # None
    BY <1>4, SentinelAssumption, Zenon DEF VoteNew, StepOf
  <2>2. m.leader_epoch \in Epochs /\ node[t].leader_epoch \in Epochs
    BY <1>1, <2>1, Zenon DEF Node
  <2>3. m.leader_epoch > node[t].leader_epoch /\ m.leader_epoch # node[t].leader_epoch
    BY <1>4, <2>2, SentinelAssumption DEF VoteNew, Epochs
  <2>4. votes' = votes \cup {new}
    BY <2>1, <2>3, Zenon DEF StepOf, VoteCast
  <2>5. new \in Sentinels \X Epochs \X Sentinels
    BY <2>1, <2>2, Zenon
  <2>6. \A v \in votes : v[1] = t => v[2] \in Epochs /\ v[2] < m.leader_epoch
    <3>1. \A v \in votes : v[2] \in Epochs
      BY <1>1, Zenon
    <3>2. \A v \in votes : v[1] = t => v[2] <= node[t].leader_epoch
      BY Zenon DEF IInv, VotesOK
    <3> QED
      BY <2>2, <2>3, <3>1, <3>2, SentinelAssumption DEF Epochs
  <2>7. VotesOK'
    <3>1. SUFFICES ASSUME NEW s \in Sentinels
                   PROVE  /\ disk'[s].leader_epoch = node'[s].leader_epoch
                          /\ \A v \in votes' : v[1] = s => v[2] <= node'[s].leader_epoch
                          /\ node'[s].leader # None =>
                               <<s, node'[s].leader_epoch, node'[s].leader>> \in votes'
      BY Zenon DEF VotesOK
    <3>a. m.leader_epoch \in Nat
      BY <2>2, SentinelAssumption DEF Epochs
    <3>b. \A v \in votes : v[1] = t => v[2] <= m.leader_epoch
      BY <2>6, <3>a, SentinelAssumption DEF Epochs
    <3>c. new[2] <= m.leader_epoch /\ new = <<t, m.leader_epoch, m.leader>>
      BY <3>a
    <3>d. \A v \in votes' : v[1] = t => v[2] <= m.leader_epoch
      <4> HIDE DEF new
      <4> QED BY <2>4, <3>b, <3>c, Zenon
    <3>2. CASE s = t
      BY <1>2, <2>4, <3>c, <3>d, <3>2, Zenon
    <3>3. CASE s # t
      <4>1. /\ disk[s].leader_epoch = node[s].leader_epoch
            /\ \A v \in votes : v[1] = s => v[2] <= node[s].leader_epoch
            /\ node[s].leader # None =>
                 <<s, node[s].leader_epoch, node[s].leader>> \in votes
        BY Zenon DEF IInv, VotesOK
      <4>2. node'[s] = node[s] /\ disk'[s] = disk[s] /\ new[1] # s
        BY <1>2, <3>3, Zenon
      <4> HIDE DEF new
      <4> QED
        BY <2>4, <4>1, <4>2, Zenon
    <3> QED
      BY <3>2, <3>3, Zenon
  <2>8. OneVotePerEpoch'
    <3>1. \A v \in votes : ~(v[1] = new[1] /\ v[2] = new[2])
      BY <2>2, <2>6, SentinelAssumption DEF Epochs
    <3> QED
      BY <2>4, <3>1 DEF OneVotePerEpoch, IInv
  <2> QED
    BY <1>1, <1>2, <2>4, <2>5, <2>7, <2>8, Zenon
<1> QED
  BY <1>3, <1>4, Zenon DEF StepOf


LEMMA VotersFinite ==
  ASSUME NEW S \in SUBSET Sentinels
  PROVE  /\ IsFiniteSet(S) /\ Cardinality(S) \in Nat
         /\ Cardinality(Sentinels) \in Nat
BY SentinelAssumption, FS_Subset, FS_CardinalityType, Zenon

\* Who is elected in epoch has a majority of the votes of that epoch.
LEMMA ElectionMajority ==
  ASSUME IInv, NEW s \in Sentinels, NEW n \in Node, NEW rs \in Reports(s, n), NEW m \in Node,
         IsLeader(s, n, m, rs), n.current_epoch = n.failover_epoch,
         votes \subseteq votes',
         m.leader # None => <<s, m.leader_epoch, m.leader>> \in votes'
  PROVE  2 * Cardinality({t \in Sentinels : <<t, n.failover_epoch, s>> \in votes'})
           > Cardinality(Sentinels)
<1> DEFINE V == VotersFor(s, rs)
           W == {t \in Sentinels : <<t, n.failover_epoch, s>> \in votes'}
           mine == m.leader = s /\ m.leader_epoch = n.failover_epoch
<1>1. V \subseteq W /\ s \notin V
  <2>1. \A v \in votes : v = <<v[1], v[2], v[3]>>
    BY DEF IInv, TypeOK
  <2> QED
    BY <2>1 DEF VotersFor, Reports
<1>2. mine => s \in W
  BY SentinelAssumption, Zenon
<1>3. /\ IsFiniteSet(V) /\ Cardinality(V) \in Nat /\ IsFiniteSet(W) /\ Cardinality(W) \in Nat
      /\ Cardinality(Sentinels) \in Nat
  BY VotersFinite, Zenon DEF VotersFor
<1>4. Cardinality(V) <= Cardinality(W)
  BY <1>1, <1>3, FS_Subset, Zenon
<1>5. mine => Cardinality(V) + 1 <= Cardinality(W)
  <2>1. Cardinality(V \cup {s}) = Cardinality(V) + 1
    BY <1>1, <1>3, FS_AddElement, Zenon
  <2>2. mine => V \cup {s} \subseteq W
    BY <1>1, <1>2, Zenon
  <2>3. mine => Cardinality(V \cup {s}) <= Cardinality(W)
    BY <1>3, <2>2, FS_Subset, Zenon
  <2> QED
    BY <2>1, <2>3, Zenon
<1>6. Cardinality(V) + (IF mine THEN 1 ELSE 0) >= Cardinality(Sentinels) \div 2 + 1
  BY Zenon DEF IsLeader
<1> HIDE DEF V, W, mine
<1>7. Cardinality(W) >= Cardinality(Sentinels) \div 2 + 1
  BY <1>3, <1>4, <1>5, <1>6
<1>8. 2 * Cardinality(W) > Cardinality(Sentinels)
  BY <1>3, <1>7
<1> QED
  BY <1>8, Zenon DEF W

\* Two Sentinels elected in the same epoch share a voter, who voted once.
LEMMA MajoritiesGiveOneLeader ==
  ASSUME TypeOK, OneVotePerEpoch, MajoritiesOK
  PROVE  OneLeaderPerEpoch
<1>1. SUFFICES ASSUME NEW x \in InEpoch, NEW y \in InEpoch, x.epoch = y.epoch
               PROVE  x.who = y.who
  BY Zenon DEF OneLeaderPerEpoch
<1>2. /\ Voters(x) \subseteq Sentinels /\ Voters(y) \subseteq Sentinels
      /\ 2 * Cardinality(Voters(x)) > Cardinality(Sentinels)
      /\ 2 * Cardinality(Voters(y)) > Cardinality(Sentinels)
  BY Zenon DEF MajoritiesOK, Voters
<1>3. /\ Cardinality(Voters(x)) \in Nat /\ Cardinality(Voters(y)) \in Nat
      /\ Cardinality(Sentinels) \in Nat
  BY <1>2, VotersFinite, Zenon
<1>4. Cardinality(Voters(x)) + Cardinality(Voters(y)) > Cardinality(Sentinels)
  BY <1>2, <1>3
<1>5. Voters(x) \cap Voters(y) # {}
  BY <1>2, <1>4, SentinelAssumption, FS_MajoritiesIntersect, Zenon
<1>6. PICK t \in Sentinels : <<t, x.epoch, x.who>> \in votes /\ <<t, y.epoch, y.who>> \in votes
  BY <1>5, Zenon DEF Voters
<1> QED
  BY <1>1, <1>6, Zenon DEF OneVotePerEpoch


\* Votes are never lost, so neither are majorities.
LEMMA MajorityStays ==
  ASSUME TypeOK, MajoritiesOK, votes \subseteq votes', NEW x \in InEpoch
  PROVE  2 * Cardinality({t \in Sentinels : <<t, x.epoch, x.who>> \in votes'})
           > Cardinality(Sentinels)
<1> DEFINE W == {t \in Sentinels : <<t, x.epoch, x.who>> \in votes'}
<1>1. Voters(x) \subseteq W /\ W \subseteq Sentinels /\ Voters(x) \subseteq Sentinels
  BY Zenon DEF Voters
<1>2. 2 * Cardinality(Voters(x)) > Cardinality(Sentinels)
  BY Zenon DEF MajoritiesOK
<1> HIDE DEF W
<1>3. /\ IsFiniteSet(W) /\ Cardinality(W) \in Nat /\ Cardinality(Voters(x)) \in Nat
      /\ Cardinality(Sentinels) \in Nat
  BY <1>1, VotersFinite, Zenon
<1>4. Cardinality(Voters(x)) <= Cardinality(W)
  BY <1>1, <1>3, FS_Subset, Zenon
<1>5. 2 * Cardinality(W) > Cardinality(Sentinels)
  BY <1>2, <1>3, <1>4
<1> QED
  BY <1>5, Zenon DEF W

\* A pass of the timer may elect its Sentinel.
LEMMA TimerElects ==
  ASSUME IInv, NEW s \in Sentinels, Timer(s), votes \subseteq votes', VotesOK'
  PROVE  /\ elected' \subseteq [who: Sentinels, epoch: Epochs, current: Epochs]
         /\ MajoritiesOK'
<1>1. node[s] \in Node /\ PromotedMarked(node[s]) /\ node \in [Sentinels -> Node]
  BY Zenon DEF IInv, TypeOK
<1>2. PICK n \in sentinelStartFailoverIfNeeded(node[s]) :
      \E rs \in Reports(s, n) : \E m \in sentinelFailoverStateMachine(s, n, rs) :
        /\ node' = [node EXCEPT ![s] = m]
        /\ elected' = IF n.failover_state = "wait_start" /\ m.failover_state = "select_slave"
                      THEN elected \cup {[who |-> s, epoch |-> n.failover_epoch,
                                          current |-> n.current_epoch]} ELSE elected
  BY Zenon DEF Timer
<1>3. PICK rs \in Reports(s, n) : \E m \in sentinelFailoverStateMachine(s, n, rs) :
        /\ node' = [node EXCEPT ![s] = m]
        /\ elected' = IF n.failover_state = "wait_start" /\ m.failover_state = "select_slave"
                      THEN elected \cup {[who |-> s, epoch |-> n.failover_epoch,
                                          current |-> n.current_epoch]} ELSE elected
  BY <1>2, Zenon
<1>4. PICK m \in sentinelFailoverStateMachine(s, n, rs) :
        /\ node' = [node EXCEPT ![s] = m]
        /\ elected' = IF n.failover_state = "wait_start" /\ m.failover_state = "select_slave"
                      THEN elected \cup {[who |-> s, epoch |-> n.failover_epoch,
                                          current |-> n.current_epoch]} ELSE elected
  BY <1>3, Zenon
<1>5. n \in Node /\ PromotedMarked(n)
  BY <1>1, <1>2, StartType, Zenon
<1>6. m \in Node /\ node'[s] = m
  BY <1>1, <1>4, <1>5, MachineType, Zenon
<1> DEFINE x == [who |-> s, epoch |-> n.failover_epoch, current |-> n.current_epoch]
<1>7. x \in [who: Sentinels, epoch: Epochs, current: Epochs]
  BY <1>5, Zenon DEF Node
<1>8. elected' \subseteq elected \cup {x}
  BY <1>4, Zenon
<1>9. \A y \in InEpoch :
        2 * Cardinality({t \in Sentinels : <<t, y.epoch, y.who>> \in votes'})
          > Cardinality(Sentinels)
  BY MajorityStays, Zenon DEF IInv
<1>10. x \in elected' /\ x \notin elected /\ n.current_epoch = n.failover_epoch =>
        2 * Cardinality({t \in Sentinels : <<t, x.epoch, x.who>> \in votes'})
          > Cardinality(Sentinels)
  <2>1. SUFFICES ASSUME x \in elected', x \notin elected, n.current_epoch = n.failover_epoch
                 PROVE  2 * Cardinality({t \in Sentinels : <<t, n.failover_epoch, s>> \in votes'})
                          > Cardinality(Sentinels)
    OBVIOUS
  <2>2. n.failover_state = "wait_start" /\ m.failover_state = "select_slave"
    BY <1>4, <2>1, Zenon
  <2>3. IsLeader(s, n, m, rs)
    BY <1>4, <1>5, <2>2, MachineType, Zenon
  <2>4. m.leader # None => <<s, m.leader_epoch, m.leader>> \in votes'
    BY <1>6, Zenon DEF VotesOK
  <2> QED
    BY <1>3, <1>5, <1>6, <2>1, <2>3, <2>4, ElectionMajority, Zenon
<1>11. \A y \in InEpoch' : y \in InEpoch \/ (y = x /\ x \in elected' /\ x \notin elected
                                              /\ n.current_epoch = n.failover_epoch)
  <2> SUFFICES ASSUME NEW y \in elected', y.current = y.epoch, y \notin InEpoch
               PROVE  y = x /\ x \in elected' /\ x \notin elected
                            /\ n.current_epoch = n.failover_epoch
    BY Zenon DEF InEpoch
  <2>1. y \notin elected
    BY Zenon DEF InEpoch
  <2>2. y = x
    BY <1>8, <2>1, Zenon
  <2>3. x.current = n.current_epoch /\ x.epoch = n.failover_epoch
    OBVIOUS
  <2> HIDE DEF x
  <2> QED
    BY <2>1, <2>2, <2>3, Zenon
<1>12. MajoritiesOK'
  BY <1>9, <1>10, <1>11, Zenon DEF MajoritiesOK, Voters
<1> QED
  BY <1>7, <1>8, <1>12, Zenon DEF IInv, TypeOK

\* A step of one Sentinel that elects nobody keeps the invariant.
LEMMA StepKeepsInv ==
  ASSUME IInv, NEW t \in Sentinels, NEW m, StepOf(t, m),
         UNCHANGED <<requests, hellos, elected>>, restarts' \in 0..MaxRestarts
  PROVE  IInv'
<1>1. /\ node' \in [Sentinels -> Node] /\ disk' \in [Sentinels -> Config]
      /\ \A s \in Sentinels : PromotedMarked(node'[s])
      /\ votes' \subseteq Sentinels \X Epochs \X Sentinels
      /\ VotesOK' /\ OneVotePerEpoch' /\ votes \subseteq votes'
  BY StepKeepsVotes, Zenon
<1>2. TypeOK'
  BY <1>1, Zenon DEF IInv, TypeOK
<1>3. \A x \in InEpoch :
        2 * Cardinality({u \in Sentinels : <<u, x.epoch, x.who>> \in votes'})
          > Cardinality(Sentinels)
  BY <1>1, MajorityStays, Zenon DEF IInv
<1>4. MajoritiesOK'
  BY <1>3, Zenon DEF MajoritiesOK, Voters, InEpoch
<1> QED
  BY <1>1, <1>2, <1>4, Zenon DEF IInv


LEMMA InvInit == Init => IInv
<1> SUFFICES ASSUME Init PROVE IInv
  OBVIOUS
<1>1. 0 \in Epochs /\ 0 \in 0..MaxRestarts
  BY SentinelAssumption DEF Epochs
<1>2. TypeOK
  BY <1>1, SentinelAssumption, Zenon DEF Init, TypeOK, Node, Config, States, PromotedMarked
<1>3. VotesOK /\ OneVotePerEpoch /\ MajoritiesOK
  BY Zenon DEF Init, VotesOK, OneVotePerEpoch, MajoritiesOK, InEpoch
<1> QED
  BY <1>2, <1>3, Zenon DEF IInv

LEMMA InvNext == IInv /\ [Next]_vars => IInv'
<1> SUFFICES ASSUME IInv, [Next]_vars PROVE IInv'
  OBVIOUS
<1>0. restarts \in 0..MaxRestarts
  BY Zenon DEF IInv, TypeOK
<1>1. ASSUME NEW s \in Sentinels, Timer(s) PROVE IInv'
  <2>1. /\ \E m : StepOf(s, m)
        /\ requests' \subseteq Request
    BY <1>1, TimerStep, Zenon
  <2>2. /\ node' \in [Sentinels -> Node] /\ disk' \in [Sentinels -> Config]
        /\ \A t \in Sentinels : PromotedMarked(node'[t])
        /\ votes' \subseteq Sentinels \X Epochs \X Sentinels
        /\ VotesOK' /\ OneVotePerEpoch' /\ votes \subseteq votes'
    BY <2>1, StepKeepsVotes, Zenon
  <2>3. /\ elected' \subseteq [who: Sentinels, epoch: Epochs, current: Epochs]
        /\ MajoritiesOK'
    BY <1>1, <2>2, TimerElects, Zenon
  <2>4. hellos' = hellos /\ restarts' = restarts
    BY <1>1, Zenon DEF Timer
  <2> QED
    BY <2>1, <2>2, <2>3, <2>4, Zenon DEF IInv, TypeOK
<1>2. ASSUME NEW s \in Sentinels, PromotedSlaveInfo(s) PROVE IInv'
  <2>1. UNCHANGED <<requests, hellos, elected>> /\ restarts' = restarts
    BY <1>2, Zenon DEF PromotedSlaveInfo
  <2> QED
    BY <1>0, <1>2, <2>1, PromotedStep, StepKeepsInv, Zenon
<1>3. ASSUME NEW s \in Sentinels, OtherMaster(s) PROVE IInv'
  <2>1. UNCHANGED <<requests, hellos, elected>> /\ restarts' = restarts
    BY <1>3, Zenon DEF OtherMaster
  <2> QED
    BY <1>0, <1>3, <2>1, OtherMasterStep, StepKeepsInv, Zenon
<1>4. ASSUME NEW s \in Sentinels, sentinelSendHello(s) PROVE IInv'
  <2>1. /\ UNCHANGED <<node, disk, requests, restarts, votes, elected>>
        /\ hellos' = hellos \cup
             {[current_epoch |-> node[s].current_epoch, config_epoch |-> node[s].config_epoch,
               addr |-> sentinelGetCurrentMasterAddress(node[s])]}
    BY <1>4, Zenon DEF sentinelSendHello
  <2>2. node[s] \in Node /\ PromotedMarked(node[s])
    BY Zenon DEF IInv, TypeOK
  <2>3. sentinelGetCurrentMasterAddress(node[s]) \in Addrs
    BY <2>2, Zenon DEF sentinelGetCurrentMasterAddress, Node, PromotedMarked
  <2>4. hellos' \subseteq Hello
    <3>1. node[s].current_epoch \in Epochs /\ node[s].config_epoch \in Epochs
      BY <2>2, Zenon DEF Node
    <3>2. hellos \subseteq Hello
      BY Zenon DEF IInv, TypeOK
    <3>3. [current_epoch |-> node[s].current_epoch, config_epoch |-> node[s].config_epoch,
           addr |-> sentinelGetCurrentMasterAddress(node[s])] \in Hello
      BY <2>3, <3>1, Zenon DEF Hello
    <3> QED
      BY <2>1, <3>2, <3>3, Zenon
  <2> QED
    <3>1. TypeOK'
      BY <2>1, <2>4, Zenon DEF IInv, TypeOK
    <3>2. VotesOK' /\ OneVotePerEpoch'
      BY <2>1, Zenon DEF IInv, VotesOK, OneVotePerEpoch
    <3>3. MajoritiesOK'
      BY <2>1, Zenon DEF IInv, MajoritiesOK, InEpoch, Voters
    <3> QED
      BY <3>1, <3>2, <3>3, Zenon DEF IInv
<1>5. ASSUME NEW s \in Sentinels, Restart(s) PROVE IInv'
  <2>a. /\ UNCHANGED <<requests, hellos, elected>>
        /\ restarts < MaxRestarts /\ restarts' = restarts + 1
    BY <1>5, Zenon DEF Restart
  <2>b. restarts' \in 0..MaxRestarts
    BY <1>0, <2>a, SentinelAssumption
  <2>1. UNCHANGED <<requests, hellos, elected>> /\ restarts' \in 0..MaxRestarts
    BY <2>a, <2>b, Zenon
  <2> QED
    BY <1>5, <2>1, RestartStep, StepKeepsInv, Zenon
<1>6. ASSUME NEW t \in Sentinels, NEW req \in requests, IsMasterDownByAddr(t, req) PROVE IInv'
  <2>1. UNCHANGED <<requests, hellos, elected>> /\ restarts' = restarts
    BY <1>6, Zenon DEF IsMasterDownByAddr
  <2> QED
    BY <1>0, <1>6, <2>1, VoteStep, StepKeepsInv, Zenon
<1>7. ASSUME NEW t \in Sentinels, NEW h \in hellos, sentinelProcessHelloMessage(t, h)
      PROVE  IInv'
  <2>1. UNCHANGED <<requests, hellos, elected>> /\ restarts' = restarts
    BY <1>7, Zenon DEF sentinelProcessHelloMessage
  <2> QED
    BY <1>0, <1>7, <2>1, HelloStep, StepKeepsInv, Zenon
<1>8. CASE UNCHANGED vars
  BY <1>8, Zenon DEF vars, IInv, TypeOK, VotesOK, OneVotePerEpoch, MajoritiesOK, InEpoch,
    Voters
<1> QED
  BY <1>1, <1>2, <1>3, <1>4, <1>5, <1>6, <1>7, <1>8, Zenon DEF Next

\* Whatever Sentinels are asked, and however often they restart, no Sentinel
\* votes for two leaders in one epoch (sentinelVoteLeader).
THEOREM VotesOnce == Spec => []OneVotePerEpoch
<1>1. IInv => OneVotePerEpoch
  BY Zenon DEF IInv
<1> QED
  BY <1>1, InvInit, InvNext, PTL DEF Spec

\* No two Sentinels lead the failover of one epoch, if each was elected while
\* that epoch was current (sentinelGetLeader, sentinelFailoverWaitStart).
THEOREM SingleLeader == Spec => []OneLeaderPerEpoch
<1>1. IInv => OneLeaderPerEpoch
  BY MajoritiesGiveOneLeader, Zenon DEF IInv
<1> QED
  BY <1>1, InvInit, InvNext, PTL DEF Spec

\* The failover machine keeps its variables within their types, and marks a
\* replica as promoted exactly while it should.
THEOREM TypeCorrect == Spec => []TypeOK
<1>1. IInv => TypeOK
  BY Zenon DEF IInv
<1> QED
  BY <1>1, InvInit, InvNext, PTL DEF Spec

=============================================================================
