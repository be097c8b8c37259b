---------------------------- MODULE Checkpoints ----------------------------
(***************************************************************************)
(* The log of turns, manual edits and review decisions the agent loop      *)
(* keeps of the files its tools touch (core/checkpoints), and its two      *)
(* users: the review of changes (core/review) and the rewinding of the     *)
(* conversation (core/rewind).  A file is absent or a sequence of lines,   *)
(* every line written once: the differ then finds exactly the lines two    *)
(* contents have in common.  Binary files behave as deleted ones do, as    *)
(* one hunk for the whole file, and are left out.                          *)
(*                                                                         *)
(* Everything here runs between two awaits of the event loop, except that  *)
(* the disk changes at any time: Change is a tool that took a snapshot     *)
(* first, a tool that takes none, or the user's editor.                    *)
(***************************************************************************)
EXTENDS Naturals, Sequences, FiniteSets, SequencesExt, Functions

CONSTANTS Paths,        \* the files
          Absent,       \* the content of a file that does not exist
          Initially,    \* their contents before the first turn
          Rare,         \* the kinds of rare events that occur: faults, resets, forks, ...
          MaxChanges,   \* changes of the disk
          MaxLength,    \* messages of the conversation
          MaxRare,      \* rare events
          Splices,      \* the changes of a file: for lines i + 1 to j come n, in <<i, j, n>>
          MaxEdits,     \* edits in the log, when it goes on
          MaxDecisions  \* decisions in the log; one more is a rare event

VARIABLES log,      \* the events of the checkpointer
          open,     \* is a turn open in the checkpointer?
          running,  \* is a turn running in the agent loop?
          length,   \* the number of messages
          users,    \* the indexes of the messages one can rewind to
          forking,  \* the message a rewinding that forks is at: it saves between
                    \* restoring the files and cutting the log; or 0
          settled,  \* ghost: files that fit the log once that rewinding has cut it
          disk,     \* the content of each file
          changes,  \* the number of changes so far, which names the new lines
          rare,     \* the number of rare events so far
          unseen,   \* ghost: files the disk has changed without the log
          byhand    \* ghost: lines the user wrote between two turns

vars == <<log, open, running, length, users, forking, settled, disk, changes, rare,
          unseen, byhand>>
fork == <<forking, settled>>

None == <<0, 0>>    \* the writer of the lines a file had at first
Lines(content) == IF content = Absent THEN <<>> ELSE content
FirstLine == 10    \* the lines written by changes are numbered from here

-----------------------------------------------------------------------------
(* Differences of two contents. *)

Place(s, line) == CHOOSE i \in 1..Len(s) : s[i] = line

\* The lines of s between the k-th and the next of the lines in common.
Gap(s, common, k) ==
    LET lo == IF k = 0 THEN 0 ELSE Place(s, common[k])
        hi == IF k = Len(common) THEN Len(s) ELSE Place(s, common[k + 1]) - 1
    IN  [at |-> lo, lines |-> SubSeq(s, lo + 1, hi)]

\* The places where two contents differ, in order.
Regions(a, b) ==
    LET common == SelectSeq(a, LAMBDA line : line \in Range(b))
        gap(k) == [at  |-> Gap(a, common, k).at,
                   old |-> Gap(a, common, k).lines,
                   new |-> Gap(b, common, k).lines]
    IN  SelectSeq([k \in 1..(Len(common) + 1) |-> gap(k - 1)], LAMBDA r : r.old # r.new)

\* A change of the whole file: a deletion, or a file that comes to exist empty.
OpaqueChange(before, after) ==
    \/ after = Absent
    \/ (before = Absent) # (after = Absent) /\ Lines(before) = Lines(after)

ComputeChanges(before, after) ==
    IF OpaqueChange(before, after)
    THEN <<[at |-> 0, old |-> Lines(before), new |-> Lines(after)]>>
    ELSE Regions(Lines(before), Lines(after))

-----------------------------------------------------------------------------
(* The read model: History. *)

Marks(l) == SelectSeq(l, LAMBDA e : e.kind = "mark")
EditsFor(l, p) == SelectSeq(l, LAMBDA e : e.kind = "edit" /\ e.path = p)
Tracked(l) ==
    UNION {IF l[i].kind = "mark" THEN DOMAIN l[i].pre
           ELSE IF l[i].kind = "edit" THEN {l[i].path} ELSE {} : i \in DOMAIN l}
LastTurnPaths(l) == IF Marks(l) = <<>> THEN {} ELSE DOMAIN Last(Marks(l)).pre

\* The hunks of a file, named by their edit and their place in it.
Edits(l) == {i \in DOMAIN l : l[i].kind = "edit"}
HunksOf(e) == {<<e.id, k>> : k \in DOMAIN e.changes}
Hunks(l, p) == UNION {HunksOf(l[i]) : i \in {j \in Edits(l) : l[j].path = p}}
EditOf(l, h) == l[CHOOSE i \in Edits(l) : l[i].id = h[1]]
ChangeOf(l, h) == EditOf(l, h).changes[h[2]]
DependsOn(l, h) == EditOf(l, h).deps[h[2]]    \* what it was built on, directly or not
Opaque(e) == OpaqueChange(e.before, e.after)

\* The decisions made, and those in effect: a hunk is reverted with every hunk it was
\* built on, and a revert is final.
Explicit(l, keep) ==
    UNION {l[i].hunks : i \in {j \in DOMAIN l : l[j].kind = "decide" /\ l[j].keep = keep}}
Reverted(l, p) ==
    {h \in Hunks(l, p) : ({h} \cup DependsOn(l, h)) \cap Explicit(l, FALSE) # {}}
KeptDespite(l, p) == (Hunks(l, p) \cap Explicit(l, TRUE)) \ Explicit(l, FALSE)
    \* mutant: a kept hunk stays when what it is built on is reverted
Kept(l, p) == (Hunks(l, p) \cap Explicit(l, TRUE)) \ Reverted(l, p)
Pending(l, p) == Hunks(l, p) \ (Reverted(l, p) \cup Explicit(l, TRUE))

\* The hunks of a projection: of the disk, or of the accepted baseline.
Applied(l, p, onlyKept) ==
    LET chosen == IF onlyKept THEN Kept(l, p) ELSE Hunks(l, p) \ Reverted(l, p)
    IN  {h \in chosen : DependsOn(l, h) \subseteq chosen}

\* Where the place i of a text is found in another, by the lines in common.
Rebase(base, result, i) ==
    IF i = Len(base) THEN Len(result)
    ELSE IF base[i + 1] \in Range(result) THEN Place(result, base[i + 1]) - 1
    ELSE IF i > 0 /\ base[i] \in Range(result) THEN Place(result, base[i])
    ELSE 0

\* The replay of the applied hunks: the lines with the hunk that wrote each, and what
\* a hunk replaced beyond the lines it was computed from, or did not find.
Text(file) == [i \in DOMAIN file |-> file[i].line]
Written(lines, h) == [i \in DOMAIN lines |-> [line |-> lines[i], by |-> h]]
Splice(state, e, h) ==
    LET r == e.changes[h[2]]
        from == Rebase(Lines(e.before), state.was, r.at)
        to == Rebase(Lines(e.before), state.was, r.at + Len(r.old))
        swallowed == Range(SubSeq(state.was, from + 1, to))
    IN  [state EXCEPT
            !.file = SubSeq(@, 1, from) \o Written(r.new, h) \o SubSeq(@, to + 1, Len(@)),
            !.stray = @ \cup (swallowed \ Range(r.old)),
            !.missed = @ \cup (Range(r.old) \ swallowed)]
ApplyEdit(state, e, applied) ==
    LET here == HunksOf(e) \cap applied
        \* from the last hunk to the k-th, so that the places before stay what they are
        spliced[k \in 1..(Len(e.changes) + 1)] ==
            IF k > Len(e.changes) THEN [state EXCEPT !.was = Text(state.file), !.exists = TRUE]
            ELSE IF <<e.id, k>> \in here THEN Splice(spliced[k + 1], e, <<e.id, k>>)
            ELSE spliced[k + 1]
    IN  IF here = {} THEN state
        ELSE IF Opaque(e)
        THEN [state EXCEPT !.file = Written(Lines(e.after), <<e.id, 1>>),
                           !.exists = e.after # Absent]
        ELSE spliced[1]
Replay(l, p, applied) ==
    LET edits == EditsFor(l, p)
        replayed[n \in 0..Len(edits)] ==
            IF n > 0 THEN ApplyEdit(replayed[n - 1], edits[n], applied)
            ELSE [file   |-> Written(Lines(edits[1].before), None),
                  exists |-> edits[1].before # Absent,
                  was    |-> <<>>, stray |-> {}, missed |-> {}]
    IN  replayed[Len(edits)]

\* The state of a file before the log knew it.
Original(l, p) ==
    LET first == CHOOSE i \in DOMAIN l :
            /\ l[i].kind = "mark" /\ p \in DOMAIN l[i].pre
            /\ \A j \in 1..(i - 1) : l[j].kind # "mark" \/ p \notin DOMAIN l[j].pre
    IN  l[first].pre[p]

Project(l, p) ==
    IF EditsFor(l, p) = <<>> THEN Original(l, p)
    ELSE LET r == Replay(l, p, Applied(l, p, FALSE))
         IN  IF r.exists THEN Text(r.file) ELSE Absent

\* Mutant: an edit of lines does not depend on who wrote them.
ComputeDepsOnWhole(l, p, before, after) ==
    LET applied == Applied(l, p, FALSE)
        whole == {h \in applied : Opaque(EditOf(l, h))}
    IN  IF OpaqueChange(before, after) THEN <<applied>>
        ELSE [k \in DOMAIN ComputeChanges(before, after) |-> whole]

\* What a new edit is built on: the hunks that wrote the lines it replaces, or the line
\* next to where it inserts, and every whole-file hunk; a whole-file edit on everything.
ComputeDeps(l, p, before, after) ==
    LET applied == Applied(l, p, FALSE)
        file == IF EditsFor(l, p) = <<>> THEN Written(Lines(before), None)
                ELSE Replay(l, p, applied).file
        by(i) == file[i].by
        whole == {h \in applied : Opaque(EditOf(l, h))}
        lines(r) == IF r.old # <<>> THEN (r.at + 1)..(r.at + Len(r.old))
                    ELSE {IF r.at > 0 THEN r.at ELSE 1} \cap (1..Len(Lines(before)))
        direct(r) == whole \cup ({by(i) : i \in lines(r)} \ {None})
        deps(r) == direct(r) \cup UNION {DependsOn(l, h) : h \in direct(r)}
        regions == ComputeChanges(before, after)
    IN  IF OpaqueChange(before, after) THEN <<applied>>
        ELSE [k \in DOMAIN regions |-> deps(regions[k])]

\* Turn ids are indexes of messages: the newest mark with the id, or else the first
\* mark of a later turn; 0 if there is none.
IndexOfTurn(l, id) ==
    LET marks == {i \in DOMAIN l : l[i].kind = "mark"}
        exact == {i \in marks : l[i].turn = id}
        later == {i \in marks : l[i].turn > id}
    IN  IF exact # {} THEN Max(exact) ELSE IF later # {} THEN Min(later) ELSE 0
HasTurn(l, id) == \E i \in DOMAIN l : l[i].kind = "mark" /\ l[i].turn = id

\* Mutant: the last turn that touched a file gives its content, instead of the first.
RestorePlanLatest(l, index) ==
    LET cut == SubSeq(l, index, Len(l))
        marks(p) == SelectSeq(Marks(cut), LAMBDA m : p \in DOMAIN m.pre)
    IN  [p \in UNION {DOMAIN Marks(cut)[i].pre : i \in DOMAIN Marks(cut)} |->
            Last(marks(p)).pre[p]]

\* The contents the files had where the log is cut.
RestorePlan(l, index) ==
    LET cut == SubSeq(l, index, Len(l))
        touched == UNION {DOMAIN Marks(cut)[i].pre : i \in DOMAIN Marks(cut)}
        byHand == {p \in Paths : EditsFor(cut, p) # <<>>} \ touched
    IN  [p \in touched \cup byHand |->
            IF p \in touched THEN Original(Marks(cut), p)
            ELSE Project(SubSeq(l, 1, index - 1), p)]
RestorePlanToTurn(l, id) ==
    IF HasTurn(l, id) THEN RestorePlan(l, IndexOfTurn(l, id)) ELSE <<>>

-----------------------------------------------------------------------------
(* The log: Checkpointer. *)

NewIdStuck(l) == 0    \* mutant: the sequence number is not advanced

\* Identities of edits: the next that no edit of the log has.
NewId(l) == Max({0} \cup {l[i].id : i \in Edits(l)})

ByHand == 0    \* instead of the id of a turn
Edit(l, n, turn, p, before, after) ==
    [kind |-> "edit", id |-> n, path |-> p, before |-> before,
     after |-> after, owner |-> IF turn = ByHand THEN <<"manual", n>> ELSE <<"turn", turn>>,
     changes |-> ComputeChanges(before, after), deps |-> ComputeDeps(l, p, before, after)]

\* One edit for each of some files whose content is not what it was, in any fixed order.
AppendEdits(l, turn, before, after) ==
    LET changed == SetToSeq({p \in DOMAIN before : before[p] # after[p]})
        edit(i) == Edit(l, NewId(l) + i, turn, changed[i], before[changed[i]], after[changed[i]])
    IN  [i \in DOMAIN changed |-> edit(i)]

DriftIgnored(l, files) == <<>>    \* mutant: the disk is not compared with the log

\* The manual edits that bring the log up to date with the disk.
Drift(l, files) ==
    AppendEdits(l, ByHand, [p \in files |-> Project(l, p)], disk)

Mark(id, known) == [kind |-> "mark", turn |-> id, pre |-> <<>>, began |-> known]

\* Mutant: what changed between two turns is taken for the turn's beginning.
BeginLogUnseen(paths, known) ==
    log' = Append(log, [Mark(length, known) EXCEPT !.pre = [p \in paths |-> disk[p]]])

\* begin_turn with the snapshots of the files the turn before knew: what changed
\* since is a manual edit ordered before the turn.
BeginLog(paths, known) ==
    LET drift == Drift(log, paths)
    IN  log' = log \o drift \o <<[Mark(length, known) EXCEPT !.pre = [p \in paths |-> disk[p]]]>>

SealLog(post) ==
    LET mark == Last(Marks(log))
    IN  log' = log \o AppendEdits(log, mark.turn, mark.pre, post)

\* Keeping hunks keeps the pending ones they are built on; of a revert only the targets
\* are recorded.
Decision(l, pending, reverted, hunks, keep) ==
    LET kept == hunks \cap pending
        decided == IF keep THEN kept \cup (pending \cap UNION {DependsOn(l, h) : h \in kept})
                   ELSE hunks \ reverted
    IN  IF decided = {} THEN l
        ELSE Append(l, [kind |-> "decide", hunks |-> decided, keep |-> keep])

-----------------------------------------------------------------------------
(* The disk. *)

\* Lines replaced by a new one or by nothing, a line inserted, the file deleted, or
\* created empty or with a line.
Contents(content, line) ==
    LET replaced(w) == SubSeq(content, 1, w[1]) \o (IF w[3] = 1 THEN <<line>> ELSE <<>>)
                           \o SubSeq(content, w[2] + 1, Len(content))
    IN  IF content = Absent THEN {<<>>, <<line>>}
        ELSE {Absent} \cup {replaced(w) : w \in {s \in Splices : s[2] <= Len(content)}}

\* Nothing goes on where a file has a line twice: there the differ decides which is which.
Distinct == \A p \in Paths : Cardinality(Range(Lines(disk[p]))) = Len(Lines(disk[p]))
Number(kind) == Cardinality({i \in DOMAIN log : log[i].kind = kind})
Room == Distinct /\ (unseen = {} \/ Number("edit") < MaxEdits)

Change(p) ==
    /\ changes < MaxChanges
    /\ p \in Tracked(log) /\ Distinct
    /\ changes' = changes + 1
    /\ \E content \in Contents(disk[p], FirstLine + changes) :
          /\ content # disk[p]
          /\ disk' = [disk EXCEPT ![p] = content]
    /\ unseen' = unseen \cup {p}
    /\ byhand' = IF running THEN byhand ELSE byhand \cup {FirstLine + changes}
    /\ settled' = settled \ {p}
    /\ UNCHANGED <<log, open, running, length, users, forking, rare>>

\* No turn runs and no rewinding is under way: these reserve the session.
Free == ~running /\ forking = 0

\* A rare event happens.
Happens(kind) ==
    /\ kind \in Rare
    /\ rare < MaxRare
    /\ rare' = rare + 1

-----------------------------------------------------------------------------
(* The turn: CheckpointRecorder, driven by the agent loop. *)

Known == [p \in Tracked(log) |-> disk[p]]

\* act() opens a turn at the index of its message and reads the files again that the
\* turn before knew.
BeginTurn ==
    /\ Free /\ ~open
    /\ length < MaxLength /\ Room
    /\ BeginLog(LastTurnPaths(log), Known)
    /\ open' = TRUE
    /\ running' = TRUE
    /\ users' = users \cup {length}
    /\ length' = length + 1
    /\ unseen' = unseen \ LastTurnPaths(log)
    /\ UNCHANGED <<disk, changes, rare, byhand, fork>>

\* One of them cannot be read: the exception leaves act() before anything would seal
\* the turn, with some of the files recorded.
BeginTurnFails ==
    /\ Free /\ ~open
    /\ Happens("begin") /\ Room
    /\ \E unreadable \in LastTurnPaths(log) :
          \E paths \in SUBSET (LastTurnPaths(log) \ {unreadable}) :
             /\ BeginLog(paths, Known)
             /\ unseen' = unseen \ paths
    /\ open' = TRUE
    /\ UNCHANGED <<running, length, users, disk, changes, byhand, fork>>

\* A tool is about to write a file: the first touch in a turn owns its content.  Of a
\* second file this is bounded with the rare events.
AddSnapshot(p) ==
    /\ running
    /\ IF Tracked(log) \subseteq {p} THEN UNCHANGED rare ELSE Happens("files")
    /\ LET mark == Last(log)
           drift == Drift(log, {p} \cap Tracked(log))
       IN  /\ p \notin DOMAIN mark.pre
           /\ log' = Front(log) \o drift \o <<[mark EXCEPT !.pre = @ @@ (p :> disk[p])]>>
    /\ unseen' = unseen \ {p}
    /\ UNCHANGED <<open, running, length, users, disk, changes, byhand, fork>>

\* A message steered into the turn, which one can rewind to as well.
Steer ==
    /\ running
    /\ Happens("steer")
    /\ length < MaxLength
    /\ users' = users \cup {length}
    /\ length' = length + 1
    /\ UNCHANGED <<log, open, running, disk, changes, unseen, byhand, fork>>

\* The turn ends: the files it touched are read again.  The change of one that cannot
\* be read is not recorded.
SealTurn ==
    /\ running
    /\ LET pre == Last(log).pre
       IN  \/ /\ SealLog([p \in DOMAIN pre |-> disk[p]])
              /\ unseen' = unseen \ DOMAIN pre
              /\ UNCHANGED rare
           \/ /\ Happens("seal")
              /\ \E unread \in DOMAIN pre :
                    /\ SealLog([p \in DOMAIN pre |-> IF p = unread THEN pre[p] ELSE disk[p]])
                    /\ unseen' = (unseen \ DOMAIN pre) \cup {unread}
    /\ open' = FALSE
    /\ running' = FALSE
    /\ UNCHANGED <<length, users, disk, changes, byhand, fork>>

\* The messages are replaced, as a compaction or /clear does: an open turn is opened
\* again at what is now its index.
ResetMessages ==
    /\ Happens("reset") /\ forking = 0
    /\ log' = IF open THEN <<Mark(1, <<>>)>> ELSE <<>>
    /\ length' = 1
    /\ users' = {}
    /\ unseen' = {}
    /\ UNCHANGED <<open, running, disk, changes, byhand, fork>>

\* Another session is resumed, with a message of its own to rewind to.
Rebind ==
    /\ Free
    /\ Happens("resume")
    /\ log' = <<>>
    /\ open' = FALSE
    /\ length' = 2
    /\ users' = {1}
    /\ unseen' = {}
    /\ UNCHANGED <<running, disk, changes, byhand, fork>>

-----------------------------------------------------------------------------
(* Rewinding and reviewing. *)

\* drop_turns_from, with the messages; what the files are now is left to be noticed.
Truncate(l, id) ==
    LET index == IndexOfTurn(l, id)
    IN  IF index = 0 THEN l ELSE SubSeq(l, 1, index - 1)

\* Paths the shortened log speaks of and the disk may differ on.
Differing(l, files) == {p \in Tracked(l) : files[p] # Project(l, p)}

Plan(id, restore) == IF restore THEN RestorePlanToTurn(log, id) ELSE <<>>

\* The files that then are as they were when the turn began, which is what the log says
\* once it is cut.
Fitting(id, restore, plan) ==
    IF restore /\ HasTurn(log, id) THEN DOMAIN plan \cup (Paths \ unseen) ELSE {}

\* The log and the conversation are cut.
Cut(id, files, fitting) ==
    /\ log' = Truncate(log, id)
    /\ unseen' = Differing(log', files) \ fitting
    /\ open' = (open /\ IndexOfTurn(log, id) = 0)
    /\ length' = id
    /\ users' = {i \in users : i < id}

\* In place, this is done at once.
Rewind(id, restore) ==
    /\ Free /\ id \in users /\ Distinct
    /\ \E plan \in {Plan(id, restore)} :
          \/ /\ disk' = plan @@ disk
             /\ Cut(id, disk', Fitting(id, restore, plan))
             /\ UNCHANGED rare
          \/ \* Some file cannot be written: it is reported, and the rewinding goes on.
             /\ Happens("write")
             /\ \E p \in DOMAIN plan :
                   /\ disk' = [plan @@ disk EXCEPT ![p] = disk[p]]
                   /\ Cut(id, disk', Fitting(id, restore, plan) \ {p})
    /\ UNCHANGED <<running, changes, byhand, fork>>

\* Into a fork, the conversation is saved before it is cut.  Bounded with the rare
\* events, so that no write fails beside it.
ForkRestores(id, restore) ==
    /\ Free /\ id \in users /\ Distinct
    /\ Happens("fork")
    /\ \E plan \in {Plan(id, restore)} :
          /\ disk' = plan @@ disk
          /\ unseen' = unseen \cup {p \in Paths : disk'[p] # disk[p]}
          /\ settled' = Fitting(id, restore, plan)
    /\ forking' = id
    /\ UNCHANGED <<log, open, running, length, users, changes, byhand>>

ForkCuts ==
    /\ forking # 0
    /\ Cut(forking, disk, settled)
    /\ forking' = 0
    /\ settled' = {}
    /\ UNCHANGED <<running, disk, changes, rare, byhand>>

\* Forking saves the conversation before it is cut: when that fails, or a file cannot
\* be read, files are restored and everything else stays.
RewindFails(id) ==
    /\ Free /\ id \in users
    /\ Happens("save") /\ Distinct
    /\ LET plan == RestorePlanToTurn(log, id)
       IN  \E done \in SUBSET DOMAIN plan :
              /\ disk' = [p \in done |-> plan[p]] @@ disk
              /\ unseen' = unseen \cup done
    /\ UNCHANGED <<log, open, running, length, users, changes, byhand, fork>>

\* The review is shown or asked for its hunks: the log is brought up to date first.
ReviewState ==
    /\ ~open /\ Room
    /\ LET drift == Drift(log, Tracked(log))
       IN  /\ log' = log \o drift
    /\ unseen' = unseen \ Tracked(log)
    /\ UNCHANGED <<open, running, length, users, disk, changes, rare, byhand, fork>>

\* What can be decided together: any hunks of a file, the pending ones of an owner, of
\* the last turns, and all.
Targets(l, pending) ==
    LET owned(owners) == {h \in pending : EditOf(l, h).owner \in owners}
        turns(k) == {<<"turn", Marks(l)[i].turn>> : i \in k..Len(Marks(l))}
    IN  UNION {SUBSET Hunks(l, p) : p \in Tracked(l)}
        \cup {owned({l[i].owner}) : i \in Edits(l)}
        \cup {owned(turns(k)) : k \in DOMAIN Marks(l)}
        \cup {pending}

\* A decision: the log is brought up to date, the decision recorded, and the files it
\* is about written.  A failed write takes the decision back, not what was written.
\* (Here and above, what \E takes from a set of one element TLC computes once.)
Decide ==
    LET again == Number("decide") = MaxDecisions
    IN  /\ Free /\ ~open
        /\ Number("decide") <= MaxDecisions /\ (again => rare < MaxRare) /\ Room
        /\ \E seen \in {log \o Drift(log, Tracked(log))} :
           \E pending \in {UNION {Pending(seen, p) : p \in Tracked(seen)}},
              reverted \in {UNION {Reverted(seen, p) : p \in Tracked(seen)}} :
           \E choice \in
                {[paths |-> {EditOf(seen, h).path : h \in target},
                  log |-> Decision(seen, pending, reverted, target, keep)] :
                        target \in Targets(seen, pending) \ {{}}, keep \in BOOLEAN} :
           \E after \in {[p \in choice.paths |-> Project(choice.log, p)]} :
              \/ /\ log' = choice.log
                 /\ disk' = after @@ disk
                 /\ unseen' = unseen \ Tracked(log)
                 /\ IF again THEN Happens("again") ELSE UNCHANGED rare
              \/ /\ ~again /\ Happens("write")
                 /\ \E p \in DOMAIN after : \E done \in SUBSET (DOMAIN after \ {p}) :
                       /\ after[p] # disk[p]
                       /\ log' = seen
                       /\ disk' = [q \in done |-> after[q]] @@ disk
                       /\ unseen' = (unseen \ Tracked(log)) \cup done
        /\ UNCHANGED <<open, running, length, users, changes, byhand, fork>>

-----------------------------------------------------------------------------

Init ==
    /\ log = <<>>
    /\ open = FALSE
    /\ running = FALSE
    /\ length = 1
    /\ users = {}
    /\ forking = 0
    /\ settled = {}
    /\ disk = Initially
    /\ changes = 0
    /\ rare = 0
    /\ unseen = {}
    /\ byhand = {}

Next ==
    \/ \E p \in Paths : Change(p) \/ AddSnapshot(p)
    \/ BeginTurn \/ BeginTurnFails \/ Steer \/ SealTurn \/ ResetMessages \/ Rebind
    \/ \E id \in users, restore \in BOOLEAN : Rewind(id, restore) \/ ForkRestores(id, restore)
    \/ ForkCuts
    \/ \E id \in users : RewindFails(id)
    \/ ReviewState \/ Decide

Spec == Init /\ [][Next]_vars

-----------------------------------------------------------------------------
(* Properties. *)

\* Types, and what the functions of the read model rest on: edits have identities of
\* their own, and a hunk only depends on others of its file.
TypeOK ==
    /\ open \in BOOLEAN /\ running \in BOOLEAN
    /\ length \in 1..MaxLength
    /\ users \subseteq 1..(length - 1)
    /\ forking \in {0} \cup users /\ settled \subseteq Paths
    /\ \A i \in DOMAIN log : log[i].kind = "edit" =>
          \A j \in 1..(i - 1) : log[j].kind = "edit" => log[j].id # log[i].id
    /\ \A p \in Paths : \A h \in Hunks(log, p) :
          DependsOn(log, h) \subseteq {g \in Hunks(log, p) : g # h}

\* Between turns the files the log knows are on the disk what replaying the log gives,
\* except those that changed since the log was last brought up to date: what the
\* review shows, decides and writes back is the disk.
ProjectionIsDisk ==
    ~open => \A p \in Tracked(log) \ unseen : disk[p] = Project(log, p)

\* Rewinding to a turn brings every file known when it began back to what it was then,
\* whatever was changed, decided, reverted or rewound in between.
RewindIsExact ==
    \A i \in DOMAIN log : log[i].kind = "mark" /\ log[i].turn \in users =>
        LET plan == RestorePlanToTurn(log, log[i].turn)
        IN  \A p \in DOMAIN log[i].began :
                log[i].began[p] = IF p \in DOMAIN plan THEN plan[p] ELSE disk[p]

\* Lines taken away by a hunk that is not applied.
Returned(l, p, applied) ==
    UNION {Range(ChangeOf(l, h).old) : h \in Hunks(l, p) \ applied}

\* No line of the file is in two places of the log, as one is that was put back by hand.
WrittenOnce(p) ==
    LET edits == EditsFor(log, p)
        new(h) == Range(ChangeOf(log, h).new)
    IN  /\ \A h \in Hunks(log, p) : Range(Lines(edits[1].before)) \cap new(h) = {}
        /\ \A g, h \in Hunks(log, p) : g # h => new(g) \cap new(h) = {}

\* Whatever is kept or reverted, a hunk is put where the lines it was computed from
\* are all present, and it replaces no other lines than some that a reverted deletion
\* between them has brought back.
SplicesFindTheirBase ==
    \A p \in Paths : EditsFor(log, p) # <<>> /\ WrittenOnce(p) =>
        \A onlyKept \in BOOLEAN :
            LET applied == Applied(log, p, onlyKept)
                replay == Replay(log, p, applied)
            IN  /\ replay.missed = {}
                /\ replay.stray \subseteq Returned(log, p, applied)

\* What is kept is built on kept changes only, so that the accepted baseline is a
\* splice of its own.
KeptRestsOnKept ==
    \A p \in Paths :
        \A h \in Kept(log, p) : DependsOn(log, h) \subseteq Kept(log, p)

\* The hunk of a file that wrote a line, in a set of its own.
Writer(l, p, line) ==
    LET file == Replay(l, p, Applied(l, p, FALSE)).file
    IN  {w.by : w \in {x \in Range(file) : x.line = line}}

\* A decision takes no line away that the user wrote by hand, unless the hand edit is
\* itself reverted or built on what is: a manual edit is never clobbered.
Decided == Len(log') > Len(log) /\ Last(log').kind = "decide"
HandEditsSurvive ==
    [][Decided =>
        \A p \in Paths : \A line \in byhand \cap (Range(Lines(disk[p])) \ Range(Lines(disk'[p]))) :
            LET seen == log \o Drift(log, Tracked(log))
            IN  Writer(seen, p, line) \cap Reverted(log', p) # {}]_vars

\* Reverting never merges: no file comes to have a line twice that was written once.
NoLineTwice == Distinct

\* A turn is open in the checkpointer only while the agent loop runs one.
OpenTurnIsRunning == open => running
============================================================================
