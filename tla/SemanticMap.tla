---------------------------- MODULE SemanticMap ----------------------------
(***************************************************************************)
(* web-viewer/semantic_map.py: landmarks fused from detections, kept in a  *)
(* file and a backup. The ROS thread ingests, HTTP threads look, remove    *)
(* and clear; one lock guards the store, and a flush writes both files     *)
(* while it holds it. Positions are on a line, a quarter of a metre apart; *)
(* samples that fail a quality gate leave no trace but a counter and are   *)
(* not modelled, and a blend of two positions is any place between them.   *)
(***************************************************************************)
EXTENDS Integers, Sequences, FiniteSets

CONSTANTS
  Kinds, Dynamic,  \* labels, and those of things that walk about
  Line,            \* places where something is detected
  MinimumObservations, RelocationObservations,
  MinimumDuration, RelocationTimeout, CandidateTimeout, DynamicTimeout, FlushPeriod,
  Scenes,          \* what one message may report: sequences of [kind, pos], best first
  MaxLandmarks, MaxRevision, MaxTime, MaxDamage \* bounds

ASSUME SemanticAssumption ==
  /\ Dynamic \subseteq Kinds /\ Line \subseteq Int
  /\ Scenes \subseteq Seq([kind : Kinds, pos : Line])
  /\ MinimumObservations \in Nat \ {0} /\ RelocationObservations \in Nat \ {0, 1}
  /\ {MinimumDuration, RelocationTimeout, CandidateTimeout, DynamicTimeout, FlushPeriod} \subseteq Nat

VARIABLES
  store,  \* objects, next_id, revision, dirty and last_flush
  ros,    \* ingest: its targets, the landmarks they matched, and how far it is
  http,   \* a request that still has to flush
  writer, \* the thread between the two writes of flush
  disk,   \* the file, its backup, and the newest revision that must survive
  now,    \* the clock
  damage  \* how often the viewer died, a write failed or the file was spoiled

semanticVars == <<store, ros, http, writer, disk, now, damage>>

\* The radii of __init__, in quarters of a metre.
Association == 3
Movement == 1
Deduplication == 1
ConfirmationRadius == 1
RelocationRadius == 1
StaticJump == 5

Distance(p, q) == IF p < q THEN q - p ELSE p - q
Between(p, q) == {r \in Line : Distance(p, r) + Distance(r, q) = Distance(p, q)}

NoPending == [pos |-> 0, count |-> 0, first |-> 0, last |-> 0]
NoFile == [revision |-> -1, marks |-> << >>, next |-> 1]
Idle0 == [at |-> "idle", targets |-> << >>, matched |-> {}]
Fresh == [marks |-> << >>, next |-> 1, revision |-> 0, dirty |-> FALSE, flushed |-> -FlushPeriod]

SemanticInit ==
  /\ store = Fresh /\ ros = Idle0 /\ http = "idle" /\ writer = "nobody"
  /\ disk = [main |-> NoFile, backup |-> NoFile, kept |-> -1]
  /\ now = 0 /\ damage = 0

SemanticTypeOK ==
  /\ DOMAIN store.marks \subseteq 1..(store.next - 1)
  /\ \A id \in DOMAIN store.marks :
       /\ store.marks[id].kind \in Kinds /\ store.marks[id].pos \in Line
       /\ store.marks[id].pending.count < RelocationObservations
  /\ ros.at \in {"idle", "checked", "fusing", "flush"}
  /\ http \in {"idle", "flush"} /\ writer \in {"nobody", "ros", "http"}

\* The lock is free: nobody fuses and nobody is between the writes.
Unlocked == ros.at # "fusing" /\ writer = "nobody"

With(marks, id, mark) == [i \in (DOMAIN marks) \cup {id} |-> IF i = id THEN mark ELSE marks[i]]
Less(marks, gone) == [i \in (DOMAIN marks) \ gone |-> marks[i]]

\* A change of the store that a flush has to write.
Changed(marks) == [store EXCEPT !.marks = marks, !.revision = @ + 1, !.dirty = TRUE]

-----------------------------------------------------------------------------
(* Fusion. *)

Created(t) ==
  [kind |-> t.kind, pos |-> t.pos, map |-> t.map, seen |-> now,
   confirmed |-> MinimumObservations = 1, hits |-> 1, since |-> now, anchor |-> t.pos,
   pending |-> NoPending, far |-> 0]

\* _update_candidate: hits around an anchor confirm it, a sample away from it is a
\* new anchor.
Candidate(mark, t) ==
  LET near == Distance(mark.anchor, t.pos) <= ConfirmationRadius
      hits == IF near THEN mark.hits + 1 ELSE 1
      since == IF near THEN mark.since ELSE now
  IN {[mark EXCEPT !.hits = hits, !.since = since, !.anchor = p, !.pos = p,
         !.confirmed = hits >= MinimumObservations /\ now - since >= MinimumDuration]
      : p \in IF near THEN Between(mark.anchor, t.pos) ELSE {t.pos}}

\* _observe_static_relocation: a landmark moves to where enough samples agreed.
Agrees(mark, t) ==
  /\ mark.pending.count > 0
  /\ now - mark.pending.last <= RelocationTimeout
  /\ Distance(mark.pending.pos, t.pos) <= RelocationRadius

Relocated(mark, t) ==
  LET count == mark.pending.count + 1
      enough == count >= RelocationObservations /\ now - mark.pending.first >= MinimumDuration
      counted == IF count < RelocationObservations THEN count ELSE mark.pending.count
  IN IF Distance(mark.pos, t.pos) > StaticJump THEN {[mark EXCEPT !.pending = NoPending]}
     ELSE IF ~Agrees(mark, t)
     THEN {[mark EXCEPT !.pending = [pos |-> t.pos, count |-> 1, first |-> now, last |-> now]]}
     ELSE {IF enough THEN [mark EXCEPT !.pos = p, !.pending = NoPending]
           ELSE [mark EXCEPT !.pending = [@ EXCEPT !.pos = p, !.last = now, !.count = counted]]
           : p \in Between(mark.pending.pos, t.pos)}

\* The branch of _update for a sample near a confirmed landmark.
NearKeepsPending(mark, t) == {[mark EXCEPT !.pos = p] : p \in Between(mark.pos, t.pos)}
Near(mark, t) == {[mark EXCEPT !.pos = p, !.pending = NoPending] : p \in Between(mark.pos, t.pos)}

\* _update; "far" counts the samples in a row that were not near the landmark.
Updated(mark, t) ==
  LET seen == [mark EXCEPT !.seen = now, !.map = t.map]
      far == mark.confirmed /\ mark.kind \notin Dynamic /\ Distance(mark.pos, t.pos) > Movement
  IN {[m EXCEPT !.far = IF far THEN mark.far + 1 ELSE 0] :
        m \in IF ~mark.confirmed THEN Candidate(seen, t)
              ELSE IF mark.kind \in Dynamic \/ ~far THEN Near(seen, t)
              ELSE Relocated(seen, t)}

\* _expire_stale: candidates and walkers that were not seen for long.
Expired == {id \in DOMAIN store.marks :
  LET mark == store.marks[id]
  IN \/ ~mark.confirmed /\ now - mark.seen > CandidateTimeout
     \/ mark.kind \in Dynamic /\ now - mark.seen > DynamicTimeout}

\* The landmark a target belongs to: the nearest of its label not matched yet.
Nearest(t) ==
  LET same == {id \in (DOMAIN store.marks) \ ros.matched : store.marks[id].kind = t.kind}
  IN {id \in same : /\ Distance(store.marks[id].pos, t.pos) <= Association
                    /\ \A other \in same : Distance(store.marks[id].pos, t.pos)
                                             <= Distance(store.marks[other].pos, t.pos)}

\* ingest before it takes the lock: the targets that pass the gates, in the map SLAM
\* has now.
Check(scene, map) ==
  /\ ros.at = "idle" /\ store.revision < MaxRevision
  /\ ros' = [at |-> "checked", matched |-> {}, targets |->
       [i \in DOMAIN scene |-> [kind |-> scene[i].kind, pos |-> scene[i].pos, map |-> map]]]
  /\ UNCHANGED <<store, http, writer, disk, now, damage>>

Begin ==
  /\ ros.at = "checked" /\ Unlocked
  /\ ros' = [ros EXCEPT !.at = "fusing"]
  /\ UNCHANGED <<store, http, writer, disk, now, damage>>

\* One round of the loop over the targets.
Fuse ==
  /\ ros.at = "fusing" /\ ros.targets # << >>
  /\ LET t == Head(ros.targets)
     IN \/ /\ Nearest(t) = {} /\ store.next <= MaxLandmarks
           /\ store' = [store EXCEPT !.marks = With(@, store.next, Created(t)), !.next = @ + 1]
           /\ ros' = [ros EXCEPT !.targets = Tail(@), !.matched = @ \cup {store.next}]
        \/ \E id \in Nearest(t), mark \in UNION {Updated(store.marks[i], t) : i \in Nearest(t)} :
             /\ mark \in Updated(store.marks[id], t)
             /\ store' = [store EXCEPT !.marks = With(@, id, mark)]
             /\ ros' = [ros EXCEPT !.targets = Tail(@), !.matched = @ \cup {id}]
  /\ UNCHANGED <<http, writer, disk, now, damage>>

\* Pairs that _merge_static_duplicates makes one: the one with more observations,
\* which may be either, stays.
Duplicates == {pair \in (DOMAIN store.marks) \X (DOMAIN store.marks) :
  LET keeper == store.marks[pair[1]]
      other == store.marks[pair[2]]
  IN /\ pair[1] # pair[2]
     /\ keeper.kind = other.kind /\ keeper.kind \notin Dynamic
     /\ Distance(keeper.pos, other.pos) <= Deduplication}

Merge ==
  /\ ros.at = "fusing" /\ ros.targets = << >>
  /\ \E pair \in Duplicates :
       LET keeper == store.marks[pair[1]]
           other == store.marks[pair[2]]
       IN \E p \in Between(keeper.pos, other.pos) :
            store' = [store EXCEPT !.marks = Less(With(@, pair[1],
                        [keeper EXCEPT !.pos = p, !.confirmed = @ \/ other.confirmed,
                           !.seen = IF other.seen > @ THEN other.seen ELSE @]), {pair[2]})]
  /\ UNCHANGED <<ros, http, writer, disk, now, damage>>

\* The end of ingest's locked part.
Fused ==
  /\ ros.at = "fusing" /\ ros.targets = << >> /\ Duplicates = {}
  /\ store' = IF ros.matched = {} /\ Expired = {} THEN store
              ELSE Changed(Less(store.marks, Expired))
  /\ ros' = [Idle0 EXCEPT !.at = "flush"]
  /\ UNCHANGED <<http, writer, disk, now, damage>>

-----------------------------------------------------------------------------
(* The requests of the page. *)

\* snapshot, which flushes only when something expired.
Look ==
  /\ http = "idle" /\ Unlocked /\ Expired # {}
  /\ store' = Changed(Less(store.marks, Expired)) /\ http' = "flush"
  /\ UNCHANGED <<ros, writer, disk, now, damage>>

RemoveMark(id) ==
  /\ http = "idle" /\ Unlocked /\ id \in DOMAIN store.marks
  /\ store' = Changed(Less(store.marks, {id})) /\ http' = "flush"
  /\ UNCHANGED <<ros, writer, disk, now, damage>>

ClearMap ==
  /\ http = "idle" /\ Unlocked
  /\ store' = Changed(<< >>) /\ http' = "flush"
  /\ UNCHANGED <<ros, writer, disk, now, damage>>

-----------------------------------------------------------------------------
(* Persistence. *)

Snapshot == [marks |-> store.marks, next |-> store.next, revision |-> store.revision]

\* After ingest the files are written every two seconds at most; other calls force it.
Due(thread) == store.dirty /\ (thread = "http" \/ now - store.flushed >= FlushPeriod)

Flushes(thread) == /\ thread = "ros" => ros.at = "flush"
                   /\ thread = "http" => http = "flush"
Returned(thread) == /\ ros' = IF thread = "ros" THEN Idle0 ELSE ros
                    /\ http' = IF thread = "http" THEN "idle" ELSE http

FlushSkipped(thread) ==
  /\ Flushes(thread) /\ Unlocked /\ ~Due(thread) /\ Returned(thread)
  /\ UNCHANGED <<store, writer, disk, now, damage>>

\* The first write, which replaces the file as a whole.
WriteMain(thread) ==
  /\ Flushes(thread) /\ Unlocked /\ Due(thread)
  /\ disk' = [disk EXCEPT !.main = Snapshot, !.kept = store.revision]
  /\ writer' = thread
  /\ UNCHANGED <<store, ros, http, now, damage>>

WriteBackup ==
  /\ writer # "nobody"
  /\ disk' = [disk EXCEPT !.backup = Snapshot]
  /\ store' = [store EXCEPT !.dirty = FALSE, !.flushed = now]
  /\ writer' = "nobody" /\ Returned(writer)
  /\ UNCHANGED <<now, damage>>

Damaged == damage < MaxDamage /\ damage' = damage + 1

\* OSError in one of the writes: the store stays dirty.
WriteFails(thread) ==
  /\ \/ Flushes(thread) /\ Unlocked /\ Due(thread)
     \/ writer = thread
  /\ writer' = "nobody" /\ Returned(thread) /\ Damaged
  /\ UNCHANGED <<store, disk, now>>

\* _load: the first of the two files that can be read.
BackupFirst == IF disk.backup.revision >= 0 THEN disk.backup ELSE disk.main
Readable == IF disk.main.revision >= 0 THEN disk.main ELSE disk.backup

Loaded ==
  IF Readable.revision < 0 THEN Fresh
  ELSE [marks |-> Readable.marks, next |-> Readable.next, revision |-> Readable.revision,
        dirty |-> disk.main.revision < 0, flushed |-> -FlushPeriod]

\* The viewer is killed at any moment, and started again.
RestartViewer ==
  /\ store' = Loaded /\ ros' = Idle0 /\ http' = "idle" /\ writer' = "nobody"
  /\ Damaged
  /\ UNCHANGED <<disk, now>>

\* The file becomes unreadable; what its backup holds must survive.
Spoil ==
  /\ disk.main.revision >= 0 /\ Damaged
  /\ disk' = [disk EXCEPT !.main = NoFile, !.kept = disk.backup.revision]
  /\ UNCHANGED <<store, ros, http, writer, now>>

Passes ==
  /\ now < MaxTime /\ now' = now + 1
  /\ UNCHANGED <<store, ros, http, writer, disk, damage>>

SemanticStep(map) ==
  \/ \E scene \in Scenes : Check(scene, map)
  \/ Begin \/ Fuse \/ Merge \/ Fused
  \/ store.revision < MaxRevision /\ (Look \/ ClearMap \/ \E id \in DOMAIN store.marks : RemoveMark(id))
  \/ \E thread \in {"ros", "http"} : FlushSkipped(thread) \/ WriteMain(thread) \/ WriteFails(thread)
  \/ WriteBackup \/ RestartViewer \/ Spoil \/ Passes

-----------------------------------------------------------------------------
(* Properties. *)

\* Whenever the viewer dies, the next one finds what was last written to the file,
\* or, when the file is spoiled, what was last written to the backup
\* (semantic_map.py:171-199, 589-627).
NothingWrittenIsLost == Readable.revision >= disk.kept

\* A confirmed landmark that stands still leaves the surroundings of its place only
\* after RelocationObservations samples in a row were away from it: no single bad
\* sample moves it, whatever came before (semantic_map.py:17, 386-444).
OneSampleMovesNothing ==
  [][\A id \in (DOMAIN store.marks) \cap (DOMAIN store'.marks) :
       LET old == store.marks[id]
           new == store'.marks[id]
       IN /\ old.confirmed /\ old.kind \notin Dynamic
          /\ ros.at = "fusing" /\ ros'.at = "fusing" /\ DOMAIN store.marks = DOMAIN store'.marks
          => \/ Distance(old.pos, new.pos) <= Movement
             \/ new.far >= RelocationObservations]_semanticVars
=============================================================================
