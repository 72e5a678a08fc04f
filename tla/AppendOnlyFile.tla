--------------------------- MODULE AppendOnlyFile ---------------------------
(***************************************************************************)
(* The append only file (AOF) of the Redis server that keeps the SLA jobs, *)
(* redis-stable/src/aof.c with the background fsync thread of bio.c: the   *)
(* commands the server executes, the buffer they are collected in, the     *)
(* BASE and INCR files, the manifest that lists them, the rewrite in a     *)
(* child process, and what a restart loads after a crash.                  *)
(*                                                                         *)
(* The server is one thread; the bio thread, the rewriting child, the disk *)
(* and a crash interleave with it.  A command is its number, in the order  *)
(* of execution, and it takes two bytes in a file, 2n-1 and 2n, so that a  *)
(* write can stop in the middle of it.  A file is what the page cache      *)
(* holds of it (data) and how much of that has been fsynced (synced).      *)
(* Times are left out: "a second has passed" is a choice.                  *)
(*                                                                         *)
(* A step of the server that may fail in several ways is an operator that  *)
(* maps a world (the record Now) to the set of worlds it may leave behind. *)
(***************************************************************************)
EXTENDS Integers, SequencesExt

CONSTANTS
  Policies,      \* the appendfsync settings in use: "always", "everysec"
  Faults,        \* the system calls that may fail, by name
  WriteFaults,   \* the policies under which write(2) may fail
  PowerFaults,   \* the policies under which the machine may lose power
  MaxCommands, MaxRewrites, MaxToggles, MaxFaults, MaxCrashes,  \* bounds
  None

FaultNames == {"open", "manifest", "dirsync", "fork", "child", "rename", "fsync"}

ASSUME AofAssumption ==
  /\ Policies \subseteq {"always", "everysec"} /\ Policies # {}
  /\ Faults \subseteq FaultNames
  /\ WriteFaults \subseteq Policies
  /\ PowerFaults \subseteq Policies
  /\ {MaxCommands, MaxRewrites, MaxToggles, MaxFaults, MaxCrashes} \subseteq Nat

VARIABLES
  server,  \* the memory of the process, see Server
  files,   \* name -> [data, synced], the files in the AOF directory
  disk,    \* [seen, may]: the manifest file, and what a power loss may leave of it
  bio,     \* the jobs of the AOF worker, oldest first
  step,    \* where the server is in backgroundRewriteDoneHandler
  db,      \* the dataset, as the commands that made it
  told,    \* the commands clients were told are safe: by a reply under "always"
           \* (acked), by WAITAOF (waited); the replies sent by this process (sent)
  past,    \* history: the files a restart took as fsynced though they were not
           \* (unsynced), and whether that, or a file no manifest listed, has made
           \* the AOF inconsistent (broken); see RecoversPrefix
  used     \* how much of each bound is used up

vars == <<server, files, disk, bio, step, db, told, past, used>>
-----------------------------------------------------------------------------
Base(n) == <<"base", n>>
Incr(n) == <<"incr", n>>
Temp == <<"temp", 0>>

Seqs == 0 .. MaxRewrites + MaxToggles + MaxCrashes + 2
Names == {Temp} \cup {Base(n) : n \in Seqs} \cup {Incr(n) : n \in Seqs}

Manifest == [base : Names \cup {None}, incr : Seq(Names), hist : SUBSET Names,
             bseq : Nat, iseq : Nat]

NoManifest == [base |-> None, incr |-> <<>>, hist |-> {}, bseq |-> 0, iseq |-> 0]

Server == [up : {"up", "down", "refused"},
           aof_fsync : Policies,
           aof_state : {"on", "off", "wait"},
           aof_fd : Names \cup {None},
           aof_buf : Seq(Nat),
           aof_last_write_err : BOOLEAN,
           aof_bio_fsync_err : BOOLEAN,
           aof_last_incr_size : Nat,
           aof_last_incr_fsync_offset : Nat,
           fsynced_reploff_pending : Nat,
           fsynced_reploff : Nat,
           child : Seq(Nat) \cup {None},
           aof_manifest : Manifest]

Job == [type : {"fsync", "close"}, file : Names \cup {None}, offset : Nat]
Step == [at : {"idle", "persist", "gc"}, am : Manifest]
Idle == [at |-> "idle", am |-> NoManifest]

NothingTold == [acked |-> {}, waited |-> {}, sent |-> 0]

\* The process does not run; the policy is what the next one starts with.
Stopped(policy) ==
  [up |-> "down", aof_fsync |-> policy, aof_state |-> "on", aof_fd |-> None,
   aof_buf |-> <<>>, aof_last_write_err |-> FALSE, aof_bio_fsync_err |-> FALSE,
   aof_last_incr_size |-> 0, aof_last_incr_fsync_offset |-> 0,
   fsynced_reploff_pending |-> 0, fsynced_reploff |-> 0, child |-> None,
   aof_manifest |-> NoManifest]

Listed(m) == (IF m.base = None THEN <<>> ELSE <<m.base>>) \o m.incr

\* The data types of the state, and what the process relies on without a check:
\* while it runs with the AOF on it appends to the last INCR of its manifest
\* (openNewIncrAofForAppend, markRewrittenIncrAofAsHistory), and a file has no
\* more fsynced than written.
TypeOK ==
  /\ server \in Server
  /\ DOMAIN files \subseteq Names
  /\ \A f \in DOMAIN files : /\ files[f].data \in Seq(Nat)
                             /\ files[f].synced \in 0 .. Len(files[f].data)
  /\ disk.seen \in Manifest /\ disk.seen \in disk.may
  /\ bio \in Seq(Job)
  /\ step \in Step
  /\ db \in Seq(Nat)
  /\ told \in [acked : SUBSET Nat, waited : SUBSET Nat, sent : Nat]
  /\ past \in [unsynced : SUBSET Names, broken : BOOLEAN]
  /\ used \in [rewrites : Nat, toggles : Nat, crashes : Nat, faults : Nat]
  /\ (server.up = "up" /\ server.aof_state = "on") =>
        /\ server.aof_manifest.incr # <<>>
        /\ server.aof_fd = Last(server.aof_manifest.incr)

Init ==
  /\ \E p \in Policies : server = Stopped(p)
  /\ files = <<>>
  /\ disk = [seen |-> NoManifest, may |-> {NoManifest}]
  /\ bio = <<>>
  /\ step = Idle
  /\ db = <<>>
  /\ told = NothingTold
  /\ past = [unsynced |-> {}, broken |-> FALSE]
  /\ used = [rewrites |-> 0, toggles |-> 0, crashes |-> 0, faults |-> 0]
-----------------------------------------------------------------------------
\* A world, and how it becomes the next state: the dataset goes with the process.
Now == [server |-> server, files |-> files, disk |-> disk, bio |-> bio,
        used |-> used]

Becomes(w) ==
  /\ server' = w.server
  /\ files' = w.files
  /\ disk' = w.disk
  /\ bio' = w.bio
  /\ used' = w.used
  /\ db' = IF w.server.up = "up" THEN db ELSE <<>>

Ok(w) == [w |-> w, ok |-> TRUE]
Err(w) == [w |-> w, ok |-> FALSE]

\* The ways system call f can fail in w: each uses up one fault.
Failing(f, w) ==
  IF f \in Faults /\ w.used.faults < MaxFaults
  THEN {[w EXCEPT !.used.faults = @ + 1]} ELSE {}

\* exit(1), which is a crash as far as the files are concerned
Exited(ws) ==
  {[w EXCEPT !.server = Stopped(w.server.aof_fsync), !.bio = <<>>, !.used.crashes = @ + 1]
   : w \in {v \in ws : v.used.crashes < MaxCrashes}}

Unlinked(fs, gone) == [f \in DOMAIN fs \ gone |-> fs[f]]
Synced(fs, ids) ==
  [f \in DOMAIN fs |-> IF f \in ids THEN [fs[f] EXCEPT !.synced = Len(fs[f].data)]
                                    ELSE fs[f]]
Created(fs, f) == IF f \in DOMAIN fs THEN fs ELSE (f :> [data |-> <<>>, synced |-> 0]) @@ fs
Put(fs, f, data, synced) == (f :> [data |-> data, synced |-> synced]) @@ fs

\* The bytes of a sequence of commands.
Bytes(cmds) == [i \in 1 .. 2 * Len(cmds) |-> 2 * cmds[(i + 1) \div 2] - (i % 2)]

offset == Len(db)    \* server.master_repl_offset, in commands
-----------------------------------------------------------------------------
(* flushAppendOnlyFile *)

\* An fsync of the file the server appends to is queued or running; the
\* fsync-and-close of an earlier file does not count.
aofFsyncInProgress(w) == \E i \in DOMAIN w.bio : w.bio[i].type = "fsync"

Enqueued(w, type) ==
  [w EXCEPT !.bio = Append(@, [type |-> type, file |-> w.server.aof_fd, offset |-> offset])]

\* Mutant of TryFsync: the offsets advance without an fsync.
TryFsyncLater(w, sync_in_progress) ==
  LET done == [w EXCEPT !.server.aof_last_incr_fsync_offset = w.server.aof_last_incr_size]
  IN  IF w.server.aof_fsync = "always"
      THEN {[done EXCEPT !.server.fsynced_reploff_pending = offset]}
      ELSE {w} \cup (IF sync_in_progress THEN {} ELSE {Enqueued(done, "fsync")})

\* try_fsync: at once under "always", where a failure ends the process, which may
\* also be killed after write(2) and before the fsync; by the bio thread, once a
\* second and one at a time, under "everysec".
TryFsync(w, sync_in_progress) ==
  LET done == [w EXCEPT !.server.aof_last_incr_fsync_offset = w.server.aof_last_incr_size]
  IN  IF w.server.aof_fsync = "always"
      THEN {[done EXCEPT !.files = Synced(@, {w.server.aof_fd}),
                         !.server.fsynced_reploff_pending = offset]}
           \cup Exited({w})
      ELSE {w} \cup (IF sync_in_progress THEN {} ELSE {Enqueued(done, "fsync")})

\* The first n bytes of the buffer reach the file.
Written(w, n) ==
  LET f == w.server.aof_fd
  IN  [w EXCEPT !.files[f].data = @ \o SubSeq(w.server.aof_buf, 1, n),
                !.server.aof_buf = SubSeq(@, n + 1, Len(@)),
                !.server.aof_last_incr_size = @ + n]

\* write(2) fails, or is short: ftruncate(2) takes the part back (n = 0) or
\* fails too.  Under "always" the process exits, otherwise it keeps what it
\* has not written and refuses writes until a flush succeeds.
WriteError(w) ==
  LET ws == {[Written(w, n) EXCEPT !.server.aof_last_write_err = TRUE, !.used.faults = @ + 1]
             : n \in 0 .. Len(w.server.aof_buf) - 1}
  IN  IF w.server.aof_fsync \notin WriteFaults \/ w.used.faults >= MaxFaults THEN {}
      ELSE IF w.server.aof_fsync = "always" THEN Exited(ws) ELSE ws

flushAppendOnlyFile(force, w) ==
  LET s == w.server
      busy == aofFsyncInProgress(w)
  IN  IF s.aof_buf = <<>>
      THEN IF s.aof_last_incr_fsync_offset = s.aof_last_incr_size
           THEN {IF busy THEN w ELSE [w EXCEPT !.server.fsynced_reploff_pending = offset]}
           ELSE TryFsync(w, busy)
      ELSE (IF s.aof_fsync = "everysec" /\ ~force /\ busy THEN {w} ELSE {})  \* postponed
           \cup WriteError(w)
           \cup TryFsync([Written(w, Len(s.aof_buf)) EXCEPT !.server.aof_last_write_err = FALSE],
                         busy)
-----------------------------------------------------------------------------
(* The bio thread: the AOF worker takes fsync and close jobs in order. *)

\* redis_fsync() of a file that is closed already (None) fails with EBADF, which
\* counts as success.
JobDone(w) ==
  LET j == Head(w.bio)
  IN  {[w EXCEPT !.files = Synced(@, {j.file}),
                 !.server.aof_bio_fsync_err = FALSE,
                 !.server.fsynced_reploff_pending = j.offset]}
      \cup {[v EXCEPT !.server.aof_bio_fsync_err = TRUE] : v \in Failing("fsync", w)}

\* bioDrainWorker: the server waits until the worker has done all its jobs.
bioDrainWorker(w) ==
  IF w.bio = <<>> THEN w
  ELSE [w EXCEPT !.files = Synced(@, {w.bio[i].file : i \in DOMAIN w.bio}),
                 !.server.aof_bio_fsync_err = FALSE,
                 !.server.fsynced_reploff_pending = w.bio[Len(w.bio)].offset,
                 !.bio = <<>>]
-----------------------------------------------------------------------------
(* The manifest and the rewrite *)

\* Mutant of persistAofManifest: the temporary file is never renamed.
PersistToTempFile(w, m) == {Ok(w)} \cup {Err(v) : v \in Failing("manifest", w)}

\* writeAofManifestFile: a temporary file, fsync, rename(2), and an fsync of the
\* directory.  When only the last fails the new manifest is in place all the same.
persistAofManifest(w, m) ==
  {Ok([w EXCEPT !.disk = [seen |-> m, may |-> {m}]])}
  \cup {Err(v) : v \in Failing("manifest", w)}
  \cup {Err([v EXCEPT !.disk = [seen |-> m, may |-> @.may \cup {m}]])
        : v \in Failing("dirsync", w)}

\* Mutant of SwitchedTo: the manifest in memory stays the old one.
SwitchedWithoutManifest(w, f, m) ==
  LET v == IF w.server.aof_fd = None THEN w ELSE Enqueued(w, "close")
  IN  [v EXCEPT !.server.aof_fd = f,
                !.server.aof_last_incr_size = 0,
                !.server.aof_last_incr_fsync_offset = 0]

\* The old file is left to the bio thread and the server appends to a new one.
SwitchedTo(w, f, m) ==
  LET v == IF w.server.aof_fd = None THEN w ELSE Enqueued(w, "close")
  IN  [v EXCEPT !.server.aof_fd = f,
                !.server.aof_last_incr_size = 0,
                !.server.aof_last_incr_fsync_offset = 0,
                !.server.aof_manifest = m]

openNewIncrAofForAppend(w) ==
  LET am == w.server.aof_manifest
      waiting == w.server.aof_state = "wait"
      f == IF waiting THEN Temp ELSE Incr(am.iseq + 1)
      m == IF waiting THEN am ELSE [am EXCEPT !.iseq = @ + 1, !.incr = Append(@, f)]
      opened == [w EXCEPT !.files = Put(@, f, <<>>, 0)]
  IN  IF w.server.aof_state = "off" THEN {Ok(w)}
      ELSE {Err(v) : v \in Failing("open", w)}
           \cup {IF r.ok THEN Ok(SwitchedTo(r.w, f, m)) ELSE r
                 : r \in IF waiting THEN {Ok(opened)} ELSE persistAofManifest(opened, m)}

\* Mutant of rewriteAppendOnlyFileBackground: no flush before the new INCR.
RewriteWithoutFlush(w) ==
  LET drained(v) == IF v.server.aof_state # "wait" THEN v
                    ELSE [bioDrainWorker(v) EXCEPT !.server.fsynced_reploff_pending = offset,
                                                   !.server.fsynced_reploff = 0]
      forked(v) == {[v EXCEPT !.server.child = db]} \cup Failing("fork", v)
  IN  UNION {IF r.ok THEN forked(drained(r.w)) ELSE {r.w} : r \in openNewIncrAofForAppend(w)}

\* The worlds after a rewrite was started, or could not be.
rewriteAppendOnlyFileBackground(w) ==
  LET drained(v) == IF v.server.aof_state # "wait" THEN v
                    ELSE [bioDrainWorker(v) EXCEPT !.server.fsynced_reploff_pending = offset,
                                                   !.server.fsynced_reploff = 0]
      forked(v) == {[v EXCEPT !.server.child = db]} \cup Failing("fork", v)
      opened(v) == UNION {IF r.ok THEN forked(drained(r.w)) ELSE {r.w}
                          : r \in openNewIncrAofForAppend(v)}
  IN  UNION {IF v.server.up = "up" THEN opened(v) ELSE {v} : v \in flushAppendOnlyFile(TRUE, w)}

markRewrittenIncrAofAsHistory(m, fd) ==
  LET n == Len(m.incr)
      kept == IF fd # None /\ n > 0 THEN <<m.incr[n]>> ELSE <<>>
  IN  [m EXCEPT !.incr = kept, !.hist = @ \cup (Range(m.incr) \ Range(kept))]

\* The manifest backgroundRewriteDoneHandler builds.
Rewritten(s) ==
  LET am == s.aof_manifest
      b == [am EXCEPT !.base = Base(am.bseq + 1), !.bseq = @ + 1,
                      !.hist = @ \cup ({am.base} \ {None})]
      i == IF s.aof_state # "wait" THEN b
           ELSE [b EXCEPT !.incr = Append(@, Incr(am.iseq + 1)), !.iseq = @ + 1]
  IN  markRewrittenIncrAofAsHistory(i, s.aof_fd)

\* The end of the handler after a failure: the child's temporary file goes, and
\* while the AOF is being switched on so do the buffer and the temporary INCR.
CleanedUp(w) ==
  LET v == [w EXCEPT !.server.child = None]
  IN  IF w.server.aof_state # "wait" THEN v
      ELSE [v EXCEPT !.server.aof_buf = <<>>, !.files = Unlinked(@, {Temp})]

\* The files a restart reads, as commands.
Whole(bytes) == /\ Len(bytes) % 2 = 0
                /\ \A i \in 1 .. Len(bytes) \div 2 :
                     bytes[2*i - 1] % 2 = 1 /\ bytes[2*i] = bytes[2*i - 1] + 1
ValidUpTo(bytes) == SubSeq(bytes, 1, 2 * (Len(bytes) \div 2))
Torn(bytes) == Len(bytes) % 2 = 1 /\ bytes[Len(bytes)] % 2 = 1 /\ Whole(ValidUpTo(bytes))
Commands(bytes) == [i \in 1 .. Len(bytes) \div 2 |-> bytes[2*i] \div 2]

\* A listed file that is missing or malformed is fatal, and so is one that ends
\* within a command unless it is the last (aof-load-truncated yes).
Loadable(m, fs) ==
  LET l == Listed(m)
  IN  \A i \in DOMAIN l :
        /\ l[i] \in DOMAIN fs
        /\ Whole(fs[l[i]].data) \/ (i = Len(l) /\ Torn(fs[l[i]].data))

Loaded(m, fs) == LET l == Listed(m)
                 IN  FlattenSeq([i \in DOMAIN l |-> Commands(fs[l[i]].data)])
-----------------------------------------------------------------------------
(* The steps *)

Running == server.up = "up" /\ step = Idle

\* A write command is executed and fed to the AOF; writes are refused after an
\* error of the AOF (writeCommandsDeniedByDiskError).
feedAppendOnlyFile ==
  /\ Running
  /\ Len(db) < MaxCommands
  /\ server.aof_state # "off" => ~server.aof_last_write_err /\ ~server.aof_bio_fsync_err
  /\ LET n == Len(db) + 1
         fed == server.aof_state = "on" \/ (server.aof_state = "wait" /\ server.child # None)
     IN  /\ db' = Append(db, n)
         /\ server' = [server EXCEPT !.aof_buf = IF fed THEN @ \o Bytes(<<n>>) ELSE @]
  /\ UNCHANGED <<files, disk, bio, step, told, past, used>>

\* The flush before the event loop sleeps; the replies to the clients go out
\* after it, and WAITAOF is answered from fsynced_reploff.
beforeSleep ==
  /\ Running
  /\ \E w \in IF server.aof_state = "off" THEN {Now} ELSE flushAppendOnlyFile(FALSE, Now) :
       LET pending == w.server.fsynced_reploff_pending
           batch == told.sent + 1 .. Len(db)
       IN  IF w.server.up = "up" /\ w.server.aof_state = "on"
           THEN /\ Becomes([w EXCEPT !.server.fsynced_reploff = pending])
                /\ told' = [acked |-> told.acked \cup IF server.aof_fsync = "always" THEN batch ELSE {},
                            waited |-> told.waited \cup 1 .. pending,
                            sent |-> Len(db)]
           ELSE Becomes(w) /\ told' = [told EXCEPT !.sent = Len(db)]
  /\ UNCHANGED <<step, past>>

\* One job of the bio thread, in parallel with whatever the server does.
bioProcessBackgroundJobs ==
  /\ server.up = "up" /\ bio # <<>>
  /\ \E w \in JobDone(Now) : Becomes([w EXCEPT !.bio = Tail(@)])
  /\ UNCHANGED <<step, told, past>>

\* BGREWRITEAOF, or the server's own decision to rewrite.
bgrewriteaof ==
  /\ Running /\ server.child = None /\ used.rewrites < MaxRewrites
  /\ \E w \in rewriteAppendOnlyFileBackground(Now) : Becomes([w EXCEPT !.used.rewrites = @ + 1])
  /\ UNCHANGED <<step, told, past>>

\* backgroundRewriteDoneHandler, in three steps, as a crash may come between
\* them.  First: the child's file, and the temporary INCR if there is one, get
\* their names.
RenameRewritten ==
  /\ Running /\ server.child # None
  /\ LET m == Rewritten(server)
         f == Incr(m.iseq)
         moved(n) == IF n = Temp THEN f ELSE n
         base == [Now EXCEPT !.files = Put(@, m.base, Bytes(server.child), 2 * Len(server.child))]
         both == [base EXCEPT !.files = Put(Unlinked(@, {Temp}), f, files[Temp].data,
                                            files[Temp].synced),
                              !.server.aof_fd = moved(@),
                              !.bio = [i \in DOMAIN @ |-> [@[i] EXCEPT !.file = moved(@)]]]
     IN  \/ /\ Becomes(IF server.aof_state = "wait" THEN both ELSE base)
            /\ step' = [at |-> "persist", am |-> m]
         \/ /\ \E w \in Failing("rename", Now) : Becomes(CleanedUp(w))
            /\ UNCHANGED step
  /\ UNCHANGED <<told, past>>

\* Second: the manifest is persisted, or all is taken back.
PersistRewritten ==
  /\ step.at = "persist"
  /\ \E r \in persistAofManifest(Now, step.am) :
       LET new == {step.am.base} \cup IF server.aof_state = "wait" THEN {Incr(step.am.iseq)} ELSE {}
           w == IF r.ok THEN [r.w EXCEPT !.server.aof_manifest = step.am]
                ELSE CleanedUp([r.w EXCEPT !.files = Unlinked(@, new)])
       IN  /\ Becomes(w)
           /\ step' = IF r.ok THEN [at |-> "gc", am |-> NoManifest] ELSE Idle
  /\ UNCHANGED <<told, past>>

\* aofDelHistoryFiles
WithoutHistory(w) ==
  LET am == w.server.aof_manifest
      m == [am EXCEPT !.hist = {}]
      v == [w EXCEPT !.files = Unlinked(@, am.hist), !.server.aof_manifest = m]
  IN  IF am.hist = {} THEN {w} ELSE {r.w : r \in persistAofManifest(v, m)}

\* Third: the history files go, and an AOF that was being switched on is on.
DeleteHistory ==
  /\ step.at = "gc"
  /\ \E w \in WithoutHistory(Now) :
       Becomes([w EXCEPT !.server.child = None,
                       !.server.aof_state = IF @ = "wait" THEN "on" ELSE @,
                       !.server.fsynced_reploff =
                          IF server.aof_state = "wait" THEN server.fsynced_reploff_pending ELSE @])
  /\ step' = Idle
  /\ UNCHANGED <<told, past>>

\* The child fails or is killed.
ChildFails ==
  /\ Running /\ server.child # None
  /\ \E w \in Failing("child", Now) : Becomes(CleanedUp(w))
  /\ UNCHANGED <<step, told, past>>

\* CONFIG SET appendfsync
updateAppendFsync ==
  /\ Running
  /\ \E p \in Policies \ {server.aof_fsync} :
       LET w == [Now EXCEPT !.server.aof_fsync = p]
       IN  Becomes(IF p = "always" THEN bioDrainWorker(w) ELSE w)
  /\ UNCHANGED <<step, told, past>>

\* CONFIG SET appendonly no: a last flush, fsync and close; the manifest is
\* written again with the end offset of the INCR.
stopAppendOnly ==
  /\ Running /\ server.aof_state # "off" /\ used.toggles < MaxToggles
  /\ \E w \in flushAppendOnlyFile(TRUE, Now) :
     \E v \in IF w.server.up # "up" THEN {w}
              ELSE {[w EXCEPT !.files = Synced(@, {w.server.aof_fd})]} \cup Failing("fsync", w) :
     \E r \in IF v.server.up # "up" \/ v.server.aof_state # "on" THEN {Ok(v)}
              ELSE persistAofManifest(v, v.server.aof_manifest) :
       LET s == r.w.server
           off == [Stopped(s.aof_fsync) EXCEPT !.up = "up", !.aof_state = "off",
                                               !.aof_last_write_err = s.aof_last_write_err,
                                               !.aof_bio_fsync_err = s.aof_bio_fsync_err,
                                               !.aof_manifest = s.aof_manifest]
           closed(j) == [j EXCEPT !.file = IF @ = s.aof_fd THEN None ELSE @]
       IN  IF s.up # "up" THEN Becomes(r.w) /\ UNCHANGED told
           ELSE /\ Becomes([r.w EXCEPT !.server = off,
                                       !.bio = [i \in DOMAIN @ |-> closed(@[i])],
                                       !.used.toggles = @ + 1])
                /\ told' = [NothingTold EXCEPT !.sent = told.sent]
  /\ UNCHANGED <<step, past>>

\* CONFIG SET appendonly yes: the AOF is on only when a rewrite has succeeded.
startAppendOnly ==
  /\ Running /\ server.aof_state = "off" /\ used.toggles < MaxToggles
  /\ \E w \in rewriteAppendOnlyFileBackground(
                [Now EXCEPT !.server.aof_state = "wait", !.server.child = None]) :
       LET v == IF w.server.child = None THEN [w EXCEPT !.server.aof_state = "off"]
                ELSE [w EXCEPT !.server.aof_last_write_err = FALSE,
                               !.server.aof_bio_fsync_err = FALSE]
       IN  Becomes([v EXCEPT !.used.toggles = @ + 1])
  /\ UNCHANGED <<step, told, past>>

\* The process is killed; what it wrote is in the page cache.
Killed ==
  /\ server' = Stopped(server.aof_fsync)
  /\ bio' = <<>> /\ step' = Idle /\ db' = <<>>
  /\ used' = [used EXCEPT !.crashes = @ + 1]
  /\ UNCHANGED told

Kill ==
  /\ server.up = "up" /\ used.crashes < MaxCrashes
  /\ Killed
  /\ UNCHANGED <<files, disk, past>>

\* The machine loses power, while the process runs or after it died: of what is
\* not fsynced any prefix is left.
PowerLoss ==
  /\ server.up \in {"up", "down"} /\ server.aof_fsync \in PowerFaults /\ used.crashes < MaxCrashes
  /\ Killed
  /\ LET dirty == {f \in DOMAIN files : files[f].synced < Len(files[f].data)}
         inner == Range(Front(Listed(disk.seen)))
     IN  /\ past' = [past EXCEPT !.broken = @ \/ past.unsynced \cap dirty \cap inner # {}]
         /\ \E left \in [dirty -> UNION {files[f].synced .. Len(files[f].data) : f \in dirty}] :
              /\ \A f \in dirty : left[f] \in files[f].synced .. Len(files[f].data)
              /\ files' = [f \in DOMAIN files |->
                             IF f \in dirty THEN [files[f] EXCEPT !.data = SubSeq(@, 1, left[f])]
                             ELSE files[f]]
  /\ \E m \in disk.may : disk' = [seen |-> m, may |-> {m}]

\* aofOpenIfNeededOnServerStart: the manifest and the files an empty dataset
\* starts with, and the INCR to append to.
Opened(w, m) ==
  LET b == IF m.base = None /\ m.incr = <<>>
           THEN [m EXCEPT !.base = Base(m.bseq + 1), !.bseq = @ + 1] ELSE m
      i == IF b.incr = <<>>
           THEN [b EXCEPT !.incr = <<Incr(m.iseq + 1)>>, !.iseq = @ + 1] ELSE b
      fs0 == IF b = m THEN w.files ELSE Put(w.files, b.base, <<>>, 0)
      fs == IF i = b THEN fs0 ELSE Created(fs0, Last(i.incr))
      size == Len(fs[Last(i.incr)].data)
  IN  [w EXCEPT !.files = fs,
                !.disk = IF i = m THEN @ ELSE [seen |-> i, may |-> {i}],
                !.server.aof_manifest = i,
                !.server.aof_fd = Last(i.incr),
                !.server.aof_last_incr_size = size,
                !.server.aof_last_incr_fsync_offset = size]

\* loadAppendOnlyFiles cuts a command that is not complete off the last file.
Truncated(m, fs) ==
  LET l == Listed(m)
  IN  [f \in DOMAIN fs |->
         IF l # <<>> /\ f = Last(l) /\ Torn(fs[f].data)
         THEN LET d == ValidUpTo(fs[f].data)
              IN  [data |-> d, synced |-> IF fs[f].synced > Len(d) THEN Len(d) ELSE fs[f].synced]
         ELSE fs[f]]

\* Started again, also after it refused to load.
Restart ==
  /\ server.up # "up"
  /\ \E p \in Policies :
       LET m == disk.seen
           w == [Now EXCEPT !.server = [Stopped(p) EXCEPT !.up = "up"], !.files = Truncated(m, @)]
       IN  IF Loadable(m, files)
           THEN \E v \in WithoutHistory(Opened(w, m)) :
                  /\ server' = v.server /\ files' = v.files /\ disk' = v.disk
                  /\ used' = v.used
                  /\ db' = Loaded(m, w.files)
                  /\ told' = [told EXCEPT !.sent = Len(db')]
                  /\ past' =
                       LET unsynced == {f \in Range(Listed(m)) :
                                          w.files[f].synced < Len(w.files[f].data)}
                           orphan == m.incr = <<>> /\ v.server.aof_last_incr_size > 0
                       IN  [unsynced |-> unsynced, broken |-> past.broken \/ orphan]
                  /\ UNCHANGED bio
           ELSE Becomes([Now EXCEPT !.server.up = "refused"]) /\ UNCHANGED <<told, past>>
  /\ UNCHANGED step

Next ==
  \/ feedAppendOnlyFile
  \/ beforeSleep
  \/ bioProcessBackgroundJobs
  \/ bgrewriteaof
  \/ RenameRewritten
  \/ PersistRewritten
  \/ DeleteHistory
  \/ ChildFails
  \/ updateAppendFsync
  \/ stopAppendOnly
  \/ startAppendOnly
  \/ Kill
  \/ PowerLoss
  \/ Restart

Spec == Init /\ [][Next]_vars
-----------------------------------------------------------------------------
\* A restart after a crash at any point finds files it can load, and makes of
\* them the dataset of an initial part of the history: no command is missing in
\* the middle, none is applied twice (BASE and INCR files, manifest, rewrite).
\* Two histories are excepted, because there the code does not recover
\* (aofOpenIfNeededOnServerStart).  The first: a process takes as fsynced what its
\* predecessor left in the page cache, and the power fails before that is on disk
\* and when another INCR already follows it; then there is a hole, or the load
\* fails.  The second: a process dies while it switches the AOF on, after the
\* temporary INCR was renamed and before the manifest lists it, and the manifest
\* lists no INCR (a rewrite while the AOF was off); then the next process opens
\* that file as its new INCR, contents included, and the one after it loads them.
RecoversPrefix ==
  ~past.broken =>
    /\ server.up # "refused"
    /\ \A n \in DOMAIN db : db[n] = n

\* Under appendfsync always a command whose reply was sent is in the dataset of
\* every later process, across crashes, power losses and rewrites.
AckedKept ==
  server.up = "up" => told.acked \subseteq Range(db)

\* A command for which WAITAOF reported a local fsync is in the dataset of every
\* later process, under both policies.
WaitAofKept ==
  server.up = "up" => told.waited \subseteq Range(db)

\* While the server runs the manifest on disk lists what the manifest in memory
\* lists, each listed file exists, and none of them is one of the history files
\* that aofDelHistoryFiles deletes: a restart at any moment finds its files.
ManifestCurrent ==
  server.up = "up" =>
     /\ Listed(disk.seen) = Listed(server.aof_manifest)
     /\ Range(Listed(disk.seen)) \subseteq DOMAIN files \ server.aof_manifest.hist
=============================================================================
