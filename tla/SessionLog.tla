----------------------------- MODULE SessionLog -----------------------------
(* The log of a conversation on disk: messages.jsonl and the metadata file of a
   session directory (vibe/core/session/session_logger.py), the agent loop's
   calls that write them, and what is loaded from them (session_loader.py).

   A save runs partly on the event loop and partly in a worker thread, so every
   access to a file is a step of its own.  A message is a number; a session is
   a directory.  A "patch" rewrites the metadata with one value changed (loops,
   experiments, worktree, child sessions); the value itself is left out.      *)
EXTENDS Integers, FiniteSets, Sequences, SequencesExt

CONSTANTS
    Sessions,     \* session directories
    Savers,       \* tasks that may be saving at a time
    Faults,       \* what may go wrong: a subset of {"crash", "error", "cancel"}
    MaxMessages,  \* bound: messages ever created
    MaxLines,     \* bound: lines of a log that is loaded
    MaxPatches,   \* bound: patches of the metadata and cancelled saves
    MaxFaults,    \* bound: crashes, errors and cancellations
    None

ASSUME LogAssumption ==
    /\ Faults \subseteq {"crash", "error", "cancel"}
    /\ None \notin Sessions \cup Savers \cup [total : Nat, fp : Nat]
    /\ {MaxMessages, MaxLines, MaxPatches, MaxFaults} \subseteq Nat

Messages == 1 .. MaxMessages

(* A line cut off by a failed write. *)
Torn == 0

VARIABLES
    up,        \* the process is running
    cur,       \* session_dir
    conv,      \* the messages of the agent loop, without the system prompt
    patches,   \* patches of the metadata and cancelled saves so far
    task,      \* per saver: its await or its worker's next step, and its locals
    lockq,     \* _save_lock: holder first, then the waiters
    log,       \* messages.jsonl of each session
    meta,      \* meta.json of each session, or None
    made,      \* messages created so far
    faults,    \* the faults so far, in order
    moved,     \* history: a message was put before an older one
    wrote,     \* history: the conversation last written to each log
    acked,     \* history: the conversation of each session's last completed save
    removed,   \* history: messages a completed save took out of each session
    repeated   \* history: a session began with a conversation that has a message twice

vars == <<up, cur, conv, patches, task, lockq, log, meta, made, faults, moved, wrote, acked, removed,
          repeated>>
disk == <<log, meta>>
memory == <<cur, conv, patches, made, moved>>
history == <<wrote, acked, removed, repeated>>

NoTask == [pc |-> "idle", kind |-> "save", dir |-> None, snap |-> <<>>,
           old |-> None, orphan |-> FALSE]

(* total_messages and last_message_fingerprint (a message, or 0 for none). *)
Metadata == [total : Nat, fp : Messages \cup {0}]
NoMetadata == [total |-> 0, fp |-> 0]

TypeOK ==
    /\ up \in BOOLEAN /\ cur \in Sessions
    /\ conv \in Seq(Messages)
    /\ patches \in 0 .. MaxPatches
    /\ \A s \in Savers :
          /\ task[s].pc \in {"idle", "wait", "read", "log", "replace", "done"}
          /\ task[s].kind \in {"save", "patch"} /\ task[s].dir \in Sessions \cup {None}
          /\ task[s].snap \in Seq(Messages)
          /\ task[s].old \in Metadata \cup {None} /\ task[s].orphan \in BOOLEAN
    /\ DOMAIN task = Savers
    /\ lockq \in Seq(Savers)
    /\ log \in [Sessions -> Seq(Messages \cup {Torn})]
    /\ meta \in [Sessions -> Metadata \cup {None}]
    /\ made \in 0 .. MaxMessages /\ moved \in BOOLEAN /\ faults \in Seq(Faults)
    /\ wrote \in [Sessions -> Seq(Messages)] /\ acked \in [Sessions -> Seq(Messages)]
    /\ removed \in [Sessions -> SUBSET Messages] /\ repeated \in BOOLEAN

Init ==
    /\ up = TRUE /\ cur \in Sessions /\ conv = <<>>
    /\ patches = 0
    /\ task = [s \in Savers |-> NoTask] /\ lockq = <<>>
    /\ log = [d \in Sessions |-> <<>>] /\ meta = [d \in Sessions |-> None]
    /\ made = 0 /\ faults = <<>> /\ moved = FALSE
    /\ wrote = [d \in Sessions |-> <<>>] /\ acked = [d \in Sessions |-> <<>>]
    /\ removed = [d \in Sessions |-> {}] /\ repeated = FALSE

-----------------------------------------------------------------------------
(* The conversation in memory. *)

Busy == \E s \in Savers : task[s].kind = "save" /\ task[s].pc # "idle" /\ ~task[s].orphan

Converse(c) ==
    /\ up /\ ~Busy
    /\ conv' = c
    /\ UNCHANGED <<up, cur, patches, task, lockq, disk, faults, history>>

(* A new message at the end; before the last one (a missing tool result that
   _fill_missing_tool_responses puts in its place); instead of the last one.  *)
NewMessage ==
    /\ made < MaxMessages /\ made' = made + 1
    /\ \/ Converse(Append(conv, made')) /\ UNCHANGED moved
       \/ conv # <<>> /\ Converse(Front(conv) \o <<made', Last(conv)>>) /\ moved' = TRUE
       \/ conv # <<>> /\ Converse(Append(Front(conv), made')) /\ UNCHANGED moved

(* A rewind to an earlier message. *)
Rewind ==
    /\ \E k \in 0 .. Len(conv) - 1 : Converse(SubSeq(conv, 1, k))
    /\ UNCHANGED <<made, moved>>

(* reset_session: the conversation goes on in a directory of its own. *)
ResetSession ==
    /\ up /\ ~Busy
    /\ \E d \in Sessions :
          /\ meta[d] = None /\ log[d] = <<>> /\ d # cur
          /\ \A s \in Savers : task[s].dir # d
          /\ cur' = d
    /\ conv' \in {conv, <<>>}
    /\ repeated' = (repeated \/ ~IsInjective(conv'))
    /\ UNCHANGED <<up, patches, made, moved, task, lockq, disk, faults, wrote, acked, removed>>

-----------------------------------------------------------------------------
(* save_interaction: what is to be saved, and where, is taken before the lock.
   allow_empty is the rewind to the first message.                           *)
Acquired(q, s) == IF q = <<>> THEN "read" ELSE "wait"

RequestSave(s) ==
    /\ up /\ task[s].pc = "idle" /\ ~Busy
    /\ conv # <<>> \/ acked[cur] # <<>>
    /\ task' = [task EXCEPT ![s] = [NoTask EXCEPT !.pc = Acquired(lockq, s), !.dir = cur,
                                                 !.snap = conv]]
    /\ lockq' = Append(lockq, s)
    /\ UNCHANGED <<up, memory, disk, faults, history>>

(* Mutant: the lock is not taken. *)
PatchAtOnce(s) ==
    /\ up /\ task[s].pc = "idle" /\ meta[cur] # None
    /\ patches < MaxPatches /\ patches' = patches + 1
    /\ task' = [task EXCEPT ![s] = [NoTask EXCEPT !.pc = "read", !.kind = "patch", !.dir = cur]]
    /\ UNCHANGED <<up, cur, conv, made, moved, lockq, disk, faults, history>>

(* persist_loops and its like, through _persist_metadata_field, which does
   nothing while there is no metadata file.                                  *)
PatchMetadata(s) ==
    /\ up /\ task[s].pc = "idle" /\ meta[cur] # None
    /\ patches < MaxPatches /\ patches' = patches + 1
    /\ task' = [task EXCEPT ![s] = [NoTask EXCEPT !.pc = Acquired(lockq, s),
                                                 !.kind = "patch", !.dir = cur]]
    /\ lockq' = Append(lockq, s)
    /\ UNCHANGED <<up, cur, conv, made, moved, disk, faults, history>>

(* The lock passes to the next waiter. *)
Release(s) ==
    LET rest == RemoveFirst(lockq, s) IN
    /\ lockq' = rest
    /\ task' = [t \in Savers |->
                   IF t = s THEN NoTask
                   ELSE IF rest # <<>> /\ t = Head(rest) /\ task[t].pc = "wait"
                        THEN [task[t] EXCEPT !.pc = "read"] ELSE task[t]]

(* Mutant: the count alone decides. *)
BoundaryByCount(snap, m) == m.total <= Len(snap)

(* The worker reads the metadata; a save that changes nothing ends here. *)
BoundaryUnchanged(snap, m) ==
    \/ m.total = 0
    \/ m.total <= Len(snap) /\ m.fp # 0 /\ snap[m.total] = m.fp

ReadMetadata(s) ==
    /\ up /\ task[s].pc = "read"
    /\ LET d == task[s].dir
           m == IF meta[d] = None THEN NoMetadata ELSE meta[d]
           same == /\ meta[d] # None
                   /\ Len(task[s].snap) = m.total /\ BoundaryUnchanged(task[s].snap, m)
       IN task' = [task EXCEPT ![s].old = m,
                       ![s].pc = IF task[s].kind = "patch" THEN "replace"
                                 ELSE IF same THEN "done" ELSE "log"]
    /\ UNCHANGED <<up, memory, lockq, disk, faults, history>>

Appends(t) == Len(t.snap) > t.old.total /\ BoundaryUnchanged(t.snap, t.old)

NewLines(t) == SubSeq(t.snap, t.old.total + 1, Len(t.snap))

(* Lines after a torn one: the first of them is glued to it. *)
Extended(lines, new) ==
    IF lines # <<>> /\ Last(lines) = Torn /\ new # <<>> THEN lines \o Tail(new)
    ELSE lines \o new

(* _persist_messages_sync or _overwrite_messages_sync *)
WriteMessages(s) ==
    /\ up /\ task[s].pc = "log"
    /\ log' = [log EXCEPT ![task[s].dir] =
                  IF Appends(task[s]) THEN Extended(@, NewLines(task[s])) ELSE task[s].snap]
    /\ wrote' = [wrote EXCEPT ![task[s].dir] = task[s].snap]
    /\ task' = [task EXCEPT ![s].pc = "replace"]
    /\ UNCHANGED <<up, memory, lockq, meta, faults, acked, removed, repeated>>

(* The metadata file is replaced. *)
NewMetadata(t) ==
    IF t.kind = "patch" THEN t.old
    ELSE [total |-> Len(t.snap), fp |-> IF t.snap = <<>> THEN 0 ELSE Last(t.snap)]

ReplaceMetadata(s) ==
    /\ up /\ task[s].pc = "replace"
    /\ meta' = [meta EXCEPT ![task[s].dir] = NewMetadata(task[s])]
    /\ task' = [task EXCEPT ![s].pc = "done"]
    /\ UNCHANGED <<up, memory, lockq, log, faults, history>>

(* The save returns; or an abandoned worker ends. *)
SaveReturns(s) ==
    /\ up /\ task[s].pc = "done"
    /\ Release(s)
    /\ LET t == task[s]
           d == t.dir IN
       IF t.kind = "save" /\ ~t.orphan
       THEN /\ acked' = [acked EXCEPT ![d] = t.snap]
            /\ removed' = [removed EXCEPT ![d] = (@ \cup Range(acked[d])) \ Range(t.snap)]
       ELSE UNCHANGED <<acked, removed>>
    /\ UNCHANGED <<up, memory, disk, faults, wrote, repeated>>

-----------------------------------------------------------------------------
(* Faults. *)

Fault(kind) ==
    /\ up /\ kind \in Faults
    /\ Len(faults) < MaxFaults /\ faults' = Append(faults, kind)

(* What an append that stops half way leaves: some lines, the last maybe cut. *)
Stopped(lines, new) ==
    UNION {{Extended(lines, SubSeq(new, 1, k)), Append(Extended(lines, SubSeq(new, 1, k)), Torn)} :
              k \in 0 .. Len(new) - 1}

(* A write fails: the save raises and the lock is released. *)
WriteFails(s) ==
    /\ Fault("error")
    /\ task[s].pc \in {"log", "replace"}
    /\ IF task[s].pc = "log" /\ Appends(task[s])
       THEN \E l \in Stopped(log[task[s].dir], NewLines(task[s])) :
               log' = [log EXCEPT ![task[s].dir] = l]
       ELSE UNCHANGED log
    /\ Release(s)
    /\ UNCHANGED <<up, memory, meta, history>>

(* The task that saves is cancelled: it lets go of the lock, while a worker
   that has begun goes on.                                                   *)
CancelSave(s) ==
    /\ Fault("cancel")
    /\ task[s].pc # "idle" /\ ~task[s].orphan
    /\ patches < MaxPatches /\ patches' = patches + 1
    /\ LET rest == RemoveFirst(lockq, s) IN
       /\ lockq' = rest
       /\ task' = [t \in Savers |->
                     IF t = s THEN IF task[s].pc = "wait" THEN NoTask
                                   ELSE [task[s] EXCEPT !.orphan = TRUE]
                     ELSE IF rest # <<>> /\ t = Head(rest) /\ task[t].pc = "wait"
                          THEN [task[t] EXCEPT !.pc = "read"] ELSE task[t]]
    /\ UNCHANGED <<up, cur, conv, made, moved, disk, history>>

(* The process ends at any point; an append under way may be cut. *)
Crash ==
    /\ Fault("crash")
    /\ \/ UNCHANGED log
       \/ \E s \in Savers :
             /\ task[s].pc = "log" /\ Appends(task[s])
             /\ \E l \in Stopped(log[task[s].dir], NewLines(task[s])) :
                   log' = [log EXCEPT ![task[s].dir] = l]
    /\ up' = FALSE
    /\ conv' = <<>>
    /\ task' = [s \in Savers |-> NoTask] /\ lockq' = <<>>
    /\ UNCHANGED <<cur, patches, made, moved, meta, history>>

(* Mutant: a cut line is taken for a message. *)
LoadableTorn(d) == meta[d] # None /\ (log[d] # <<>> \/ meta[d].total = 0)

(* _log_is_loadable, and every line is JSON. *)
Loadable(d) ==
    /\ meta[d] # None
    /\ log[d] # <<>> \/ meta[d].total = 0
    /\ Torn \notin Range(log[d])

Load(d) ==
    /\ Loadable(d) /\ Len(log[d]) <= MaxLines
    /\ cur' = d /\ conv' = log[d]

(* A new process resumes a session, or starts one of its own. *)
Restart ==
    /\ ~up /\ up' = TRUE
    /\ \/ \E d \in Sessions : Load(d)
       \/ \E d \in Sessions :
             /\ meta[d] = None /\ log[d] = <<>>
             /\ cur' = d /\ UNCHANGED conv
    /\ UNCHANGED <<task, lockq, disk, patches, made, moved, faults, history>>

(* rebind_to_session: the running process turns to another saved session. *)
Rebind ==
    /\ up /\ \A s \in Savers : task[s].pc = "idle"
    /\ \E d \in Sessions \ {cur} : Load(d)
    /\ UNCHANGED <<up, task, lockq, disk, patches, made, moved, faults, history>>

-----------------------------------------------------------------------------
Next ==
    \/ NewMessage \/ Rewind \/ ResetSession \/ Crash \/ Restart \/ Rebind
    \/ \E s \in Savers :
          \/ RequestSave(s) \/ PatchMetadata(s)
          \/ ReadMetadata(s) \/ WriteMessages(s) \/ ReplaceMetadata(s)
          \/ SaveReturns(s) \/ WriteFails(s) \/ CancelSave(s)

Spec == Init /\ [][Next]_vars

-----------------------------------------------------------------------------
IsSubsequence(a, b) ==
    LET matched[k \in 0 .. Len(b)] ==
            IF k = 0 THEN 0
            ELSE LET m == matched[k - 1] IN
                 IF m < Len(a) /\ a[m + 1] = b[k] THEN m + 1 ELSE m
    IN matched[Len(b)] = Len(a)

(* No message was put before an older one (the boundary can take that for an
   append to what a failed save left), and no worker wrote on after its save was
   cancelled.                                                                *)
Plain == ~moved /\ "cancel" \notin Range(faults)

(* The append shortcut of _save_interaction_sync is right whatever was edited,
   rewound or regrown since the last save: as long as nothing failed, the log is
   the conversation written last; and whatever failed, a log that can be read
   still holds that conversation in order.                                   *)
LogHoldsConversation ==
    \A d \in Sessions :
        /\ faults = <<>> => log[d] = wrote[d]
        /\ Plain /\ Torn \notin Range(log[d]) => IsSubsequence(wrote[d], log[d])

(* What a completed save took out (a rewind, a replaced tail) does not come back
   into the log, not even over crashes and resumptions.  Not said of a session that
   began with a message twice: if parts of it are appended by saves that fail, the
   boundary can take one of the two for the other.                           *)
RewoundStaysGone == Plain /\ ~repeated => \A d \in Sessions : removed[d] \cap Range(log[d]) = {}

(* When nothing is being saved and nothing failed, the metadata counts the
   messages of the log and names its last one, so the next save may trust it. *)
MetadataMatchesLog ==
    (faults = <<>> /\ \A s \in Savers : task[s].pc = "idle") =>
        \A d \in Sessions :
            IF meta[d] = None THEN log[d] = <<>>
            ELSE /\ meta[d].total = Len(log[d])
                 /\ log[d] # <<>> => meta[d].fp = Last(log[d])

(* "Serializes writes so concurrent saves cannot interleave appends"
   (session_logger.py:59): no message is in the log twice, even when a save is
   cancelled.                                                                *)
NoMessageTwice == \A d \in Sessions : IsInjective(log[d])
=============================================================================
