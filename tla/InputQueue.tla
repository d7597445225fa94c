----------------------------- MODULE InputQueue -----------------------------
(***************************************************************************)
(* The input queue of a stream (src/input.cpp, passthrough and batch):     *)
(* the control thread queues a packet and then pushes a task to the pool;  *)
(* the pool's worker takes the first packet, batches later ones into it    *)
(* while it holds the lock, and sends it to the OS after it let go of it.  *)
(* What is done with the packets is in Input, beside which this module can *)
(* be extended: their names differ.                                        *)
(***************************************************************************)
EXTENDS Integers, Sequences

CONSTANTS
    Traffic,    \* the sets of packets a client may mix
    MaxPackets, \* packets a client sends (bound)
    NoItem

\* A motion or a scroll, with its 16-bit deltas.
Relative == {"move", "scroll", "hscroll"}
Half == 32768       \* 2^15
Int16 == -Half .. Half - 1
Motion == [kind : {"move"}, delta : [{"x", "y"} -> Int16]]
          \cup [kind : {"scroll", "hscroll"}, delta : [{"amount"} -> Int16]]

ASSUME MotionAssumption ==
    \A m \in Traffic : \A p \in m : p.kind \in Relative => p \in Motion
ASSUME PacketsAssumption == MaxPackets \in Nat

VARIABLES
    kinds,      \* the packets of this client
    received,   \* history: what the control thread received
    queue,      \* input_queue
    pushing,    \* the control thread has queued a packet and pushes its task
    tasks,      \* tasks passthrough_next_message in the pool
    pc,         \* of the worker: "idle", "batch" (under input_queue_lock), "send"
    entry, at,  \* of passthrough_next_message: the first packet, the iterator
    out         \* what was sent to the OS

queueVars == <<kinds, received, queue, pushing, tasks, pc, entry, at, out>>

-----------------------------------------------------------------------------
(* A packet has a kind and the fields its batch() reads.  Keys, buttons,   *)
(* text, arrivals and battery levels are of kind "event".                  *)

Moving(p) == p.event \in {"MOVE", "HOVER"}

Wrap(v) == ((v + Half) % (2 * Half)) - Half
Overflows(v) == v # Wrap(v)

Sum(d, s) == [axis \in DOMAIN d.delta |-> d.delta[axis] + s.delta[axis]]

\* The source tests !__builtin_add_overflow, so it stops at sums that fit.
MoveVerdict(d, s) ==
    IF \E axis \in DOMAIN d.delta : ~ Overflows(Sum(d, s)[axis])
    THEN "terminate" ELSE "batched"

AbsVerdict(d, s) == IF d.surface # s.surface THEN "terminate" ELSE "batched"

PadVerdict(d, s) ==
    IF d.mask # s.mask THEN "terminate"
    ELSE IF d.pad # s.pad THEN "skip"
    ELSE IF d.buttons # s.buttons THEN "terminate" ELSE "batched"

\* Mutant: only the packet that is batched into has to be a movement.
TouchVerdictBeyond(d, s) ==
    IF ~ Moving(d) THEN "terminate"
    ELSE IF d.pointer # s.pointer THEN "skip"
    ELSE IF d.event # s.event THEN "terminate" ELSE "batched"

TouchVerdict(d, s) ==
    IF ~ Moving(d) \/ ~ Moving(s) THEN "terminate"
    ELSE IF d.pointer # s.pointer THEN "skip"
    ELSE IF d.event # s.event THEN "terminate" ELSE "batched"

PenVerdict(d, s) ==
    IF ~ Moving(d) \/ d.event # s.event \/ d.buttons # s.buttons \/ d.tool # s.tool
    THEN "terminate" ELSE "batched"

PadTouchVerdict(d, s) ==
    IF ~ Moving(d) THEN "terminate"
    ELSE IF d.pad # s.pad THEN "skip"
    ELSE TouchVerdict(d, s)

MotionVerdict(d, s) ==
    IF d.pad # s.pad \/ d.sensor # s.sensor THEN "skip" ELSE "batched"

\* batch(): s came after d.
Verdict(d, s) ==
    IF d.kind # s.kind THEN "terminate"
    ELSE CASE d.kind \in Relative -> MoveVerdict(d, s)
           [] d.kind = "abs"      -> AbsVerdict(d, s)
           [] d.kind = "pad"      -> PadVerdict(d, s)
           [] d.kind = "touch"    -> TouchVerdict(d, s)
           [] d.kind = "pen"      -> PenVerdict(d, s)
           [] d.kind = "padTouch" -> PadTouchVerdict(d, s)
           [] d.kind = "motion"   -> MotionVerdict(d, s)
           [] OTHER               -> "terminate"

\* Mutant: the sum is kept in full.
MergeWide(d, s) ==
    IF d.kind \in Relative THEN [d EXCEPT !.delta = Sum(d, s)] ELSE s

\* "Take the sum of deltas", as 16 bits hold it, or "take the latest state".
Merge(d, s) ==
    IF d.kind \in Relative
    THEN [d EXCEPT !.delta = [axis \in DOMAIN d.delta |-> Wrap(Sum(d, s)[axis])]]
    ELSE s

-----------------------------------------------------------------------------
(* An item is a packet and, as history, the indices in received of the     *)
(* packets it stands for.                                                  *)

Item(p, from) == [packet |-> p, from |-> from]

QueueInit ==
    /\ kinds \in Traffic
    /\ received = <<>> /\ queue = <<>> /\ out = <<>>
    /\ pushing = FALSE /\ tasks = 0
    /\ pc = "idle" /\ entry = NoItem /\ at = 0

\* The control thread.
Receive(p) ==
    /\ ~ pushing /\ Len(received) < MaxPackets
    /\ pc # "batch"
    /\ received' = Append(received, p)
    /\ queue' = Append(queue, Item(p, {Len(received) + 1}))
    /\ pushing' = TRUE
    /\ UNCHANGED <<kinds, tasks, pc, entry, at, out>>

\* Mutant: a task is only pushed when none is waiting.
PushIfNone ==
    /\ pushing /\ pushing' = FALSE
    /\ tasks' = IF tasks = 0 THEN 1 ELSE tasks
    /\ UNCHANGED <<kinds, received, queue, pc, entry, at, out>>

Push ==
    /\ pushing /\ pushing' = FALSE
    /\ tasks' = tasks + 1
    /\ UNCHANGED <<kinds, received, queue, pc, entry, at, out>>

\* The worker.  Earlier batches may have left nothing to do.
Take ==
    /\ pc = "idle" /\ tasks > 0 /\ tasks' = tasks - 1
    /\ \/ queue = <<>> /\ UNCHANGED <<queue, pc, entry, at>>
       \/ /\ queue # <<>>
          /\ entry' = Head(queue) /\ queue' = Tail(queue)
          /\ pc' = "batch" /\ at' = 1
    /\ UNCHANGED <<kinds, received, pushing, out>>

\* Mutant: the entry after the one that was batched is erased.
ErasedNext(i) ==
    [j \in 1 .. Len(queue) - 1 |-> IF j <= i THEN queue[j] ELSE queue[j + 1]]
Erased(i) ==
    [j \in 1 .. Len(queue) - 1 |-> IF j < i THEN queue[j] ELSE queue[j + 1]]

Absorb ==
    /\ entry' = Item(Merge(entry.packet, queue[at].packet),
                     entry.from \cup queue[at].from)
    /\ queue' = Erased(at)

\* One round of the batching loop.
Batch ==
    /\ pc = "batch"
    /\ \/ /\ at <= Len(queue)
          /\ \/ /\ Verdict(entry.packet, queue[at].packet) = "batched"
                /\ Absorb /\ UNCHANGED <<pc, at>>
             \/ /\ Verdict(entry.packet, queue[at].packet) = "skip"
                /\ at' = at + 1 /\ UNCHANGED <<queue, pc, entry>>
             \/ /\ Verdict(entry.packet, queue[at].packet) = "terminate"
                /\ pc' = "send" /\ UNCHANGED <<queue, entry, at>>
       \/ at > Len(queue) /\ pc' = "send" /\ UNCHANGED <<queue, entry, at>>
    /\ UNCHANGED <<kinds, received, pushing, tasks, out>>

Send ==
    /\ pc = "send" /\ pc' = "idle"
    /\ out' = Append(out, entry)
    /\ entry' = NoItem /\ at' = 0
    /\ UNCHANGED <<kinds, received, queue, pushing, tasks>>

QueueWorker == Take \/ Batch \/ Send

QueueNext == (\E p \in kinds : Receive(p)) \/ Push \/ QueueWorker

\* The control thread finishes what it began, and the pool's worker runs.
QueueSpec ==
    /\ QueueInit /\ [][QueueNext]_queueVars
    /\ WF_queueVars(Push) /\ WF_queueVars(QueueWorker)

-----------------------------------------------------------------------------
Items == [packet : kinds \cup Motion, from : SUBSET Nat]

QueueTypeOK ==
    /\ kinds \in Traffic
    /\ received \in Seq(kinds)
    /\ queue \in Seq(Items) /\ out \in Seq(Items)
    /\ pushing \in BOOLEAN /\ tasks \in Nat
    /\ pc \in {"idle", "batch", "send"}
    /\ pc # "idle" => entry \in Items
    /\ at \in Nat

\* Everything received, in the order in which the OS gets it.
Line == out \o (IF pc = "idle" THEN <<>> ELSE <<entry>>) \o queue

\* Every packet is in exactly one place of the line, alone or in a batch: none
\* is lost, none is sent twice (the loop of passthrough_next_message, which
\* erases from the list it walks).
NothingLost ==
    /\ \A n \in 1 .. Len(received) : \E i \in 1 .. Len(Line) : n \in Line[i].from
    /\ \A i, j \in 1 .. Len(Line) :
          i # j => Line[i].from \cap Line[j].from = {}

\* What a batch must agree on: whose movement it is, and the state it is in.
Track(p) ==
    CASE p.kind = "pad"      -> <<p.pad>>
      [] p.kind = "touch"    -> <<p.pointer, p.event>>
      [] p.kind = "padTouch" -> <<p.pad, p.pointer, p.event>>
      [] p.kind = "motion"   -> <<p.pad, p.sensor>>
      [] OTHER               -> <<>>

Mode(p) ==
    CASE p.kind = "abs" -> <<p.surface>>
      [] p.kind = "pad" -> <<p.mask, p.buttons>>
      [] p.kind = "pen" -> <<p.event, p.buttons, p.tool>>
      [] OTHER          -> <<>>

Alike(p, q) == p.kind = q.kind /\ Track(p) = Track(q) /\ Mode(p) = Mode(q)

\* A later packet may reach the OS before an earlier one only if both are of
\* one kind and of different pads, pointers or sensors.  Nothing passes a change
\* of the pads; on the same touch screen or pad nothing passes a button, or a
\* finger that comes or goes.  Those of *other* pads may be passed, by updates of
\* a pad and by fingers that move.
MayPass(late, early) ==
    /\ late.kind = early.kind
    /\ late.kind \in {"pad", "touch", "padTouch", "motion"}
    /\ Track(late) # Track(early)
    /\ late.kind = "pad" => late.mask = early.mask
    /\ late.kind \in {"touch", "padTouch"} => Moving(late)
    /\ late.kind = "touch" \/ (late.kind = "padTouch" /\ late.pad = early.pad)
          => Moving(early)

\* A batch stands for packets that agree on all but positions, so that no
\* press, release or change is swallowed by one, and what was put into a batch
\* has passed only what it may pass (the rules of the nine batch()).
OrderKept ==
    /\ \A i \in 1 .. Len(Line) : \A a, b \in Line[i].from : Alike(received[a], received[b])
    /\ \A i, j \in 1 .. Len(Line) : \A b \in Line[i].from, a \in Line[j].from :
          i < j /\ a < b => MayPass(received[b], received[a])

\* "Don't batch beyond state changing events" (input.cpp:1395), taken for all
\* fingers: the code keeps it on one screen and on one pad, but not between two
\* pads, and no run lists it.
FingersStay ==
    \A i, j \in 1 .. Len(Line) : \A b \in Line[i].from, a \in Line[j].from :
        (i < j /\ a < b /\ received[a].kind \in {"touch", "padTouch"})
            => Moving(received[a])

\* Whatever is received reaches the OS, itself or in a batch.
AllReachOs ==
    \A n \in 1 .. MaxPackets :
        Len(received) >= n ~> \E i \in 1 .. Len(out) : n \in out[i].from
=============================================================================
