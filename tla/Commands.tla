------------------------------ MODULE Commands ------------------------------
(***************************************************************************)
(* The write-side state machines of the command types                      *)
(* (include/bkmail/imap/command/*.h), as operation_model drives them.      *)
(*                                                                         *)
(* A command renders a fixed list of wire segments.  A segment is opaque   *)
(* here: only how many there are, how many were flushed and how many the   *)
(* server has unlocked decide what the pumps may do.  IDLE is different:   *)
(* its second segment (DONE) exists only once done() was called.           *)
(***************************************************************************)
EXTENDS Naturals

(* simple   one segment, no wall        (NOOP, FETCH, SELECT, ...)         *)
(* barrier  one segment, blocks_pipeline (LOGOUT, STARTTLS)                *)
(* literal  header, wall, message        (APPEND)                          *)
(* login    two literal arguments: three segments, two walls (LOGIN)       *)
(* litplus  header and message, LITERAL+: no wall (APPEND, LOGIN)          *)
(* sasl     command line, wall, payload; blocks_pipeline (AUTHENTICATE)    *)
(* idle     IDLE line, wall, DONE on request (IDLE)                        *)
AllKinds == {"simple", "barrier", "literal", "login", "litplus", "sasl", "idle"}

SegCount(kind) ==
    CASE kind = "login"                        -> 3
      [] kind \in {"literal", "litplus", "sasl"} -> 2
      [] OTHER                                 -> 1

Walled(kind) == kind \in {"literal", "login", "sasl"}

BlocksPipeline(c) == c.kind \in {"barrier", "sasl"}

IdlePhases == {"initial", "idle_sent", "idling", "done_pending", "done_sent"}

CommandType ==
    [kind : AllKinds, segs : 1..4, emitted : Nat, unlocked : Nat,
     phase : IdlePhases, pending : BOOLEAN, done_requested : BOOLEAN]

-----------------------------------------------------------------------------
(* attach() calls render(tag): the wire text is built, nothing is sent.    *)
RenderSegments(kind) ==
    [kind |-> kind, segs |-> SegCount(kind), emitted |-> 0,
     unlocked |-> IF Walled(kind) THEN 1 ELSE SegCount(kind),
     phase |-> "initial", pending |-> FALSE, done_requested |-> FALSE]

RenderIdle ==
    [kind |-> "idle", segs |-> 1, emitted |-> 0, unlocked |-> 1,
     phase |-> "idle_sent", pending |-> TRUE, done_requested |-> FALSE]

Render(kind) == IF kind = "idle" THEN RenderIdle ELSE RenderSegments(kind)

(* next_segment().size() # 0                                               *)
HasSegment(c) ==
    IF c.kind = "idle" THEN c.pending
                       ELSE c.emitted < c.unlocked /\ c.emitted < c.segs

AwaitsContinuation(c) ==
    IF c.kind = "idle" THEN c.phase = "idle_sent" ELSE c.unlocked < c.segs

(* on_segment_flushed() of a segmented command and of IDLE.                *)
FlushSegments(c) ==
    IF c.emitted < c.segs THEN [c EXCEPT !.emitted = @ + 1] ELSE c

FlushIdle(c) ==
    [c EXCEPT !.pending = FALSE,
              !.phase   = IF @ = "done_pending" THEN "done_sent" ELSE @]

OnSegmentFlushed(c) ==
    IF c.kind = "idle" THEN FlushIdle(c) ELSE FlushSegments(c)

(* queue_done(): the DONE line replaces the segment buffer.                *)
QueueDone(c) == [c EXCEPT !.pending = TRUE, !.phase = "done_pending"]

(* done(): takes effect now when idling, otherwise at the continuation.    *)
Done(c) ==
    LET d == [c EXCEPT !.done_requested = TRUE]
    IN  IF c.phase = "idling" THEN QueueDone(d) ELSE d

ContinueSegments(c) ==
    IF c.unlocked < c.segs THEN [c EXCEPT !.unlocked = @ + 1] ELSE c

(* AUTHENTICATE answers a further challenge with "*": a fresh segment.     *)
ContinueSasl(c) ==
    IF c.unlocked < c.segs THEN [c EXCEPT !.unlocked = @ + 1]
    ELSE IF c.segs >= 4    THEN c
    ELSE [c EXCEPT !.segs = @ + 1, !.unlocked = @ + 1]

ContinueIdle(c) ==
    LET d == [c EXCEPT !.phase = "idling"]
    IN  IF c.phase # "idle_sent" THEN c
        ELSE IF c.done_requested THEN QueueDone(d)
        ELSE d

OnContinuation(c) ==
    CASE c.kind = "idle" -> ContinueIdle(c)
      [] c.kind = "sasl" -> ContinueSasl(c)
      [] OTHER           -> ContinueSegments(c)
=============================================================================
