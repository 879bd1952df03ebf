------------------------- MODULE WorkerPipeProperties -------------------------
(***************************************************************************)
(* What the container and its worker promise each other and SOAM.          *)
(***************************************************************************)
EXTENDS WorkerPipe

Tokens  == {"h", "b", "nl"} \X (Requests \cup {NoOne})
Replies == [of : Requests \cup {NoOne}, ok : BOOLEAN, data : Seq(Tokens)]

ServiceOK ==
    /\ variant \in Variants
    /\ phase \in {"new", "starting", "refused", "serving", "stopping", "stopped", "killed"}
    /\ shmUp \in BOOLEAN /\ shmOf \in Requests \cup {NoOne}
CallsOK ==
    /\ call \in [Requests -> Busy \cup {"new", "done"}]
    /\ body \in [Requests -> Seq(Bytes)]
    /\ owner \in Requests \cup {NoOne}
    /\ answer \in [Requests -> Replies]
PipesOK ==
    /\ stdin \in Seq(Tokens) /\ closed \in BOOLEAN /\ stdout \in Seq(Replies)
WorkerOK ==
    /\ wpc \in {"off", "boot", "line", "load", "payload", "handle", "exited"}
    /\ shmSeen \in BOOLEAN /\ wreq \in Requests \cup {NoOne} /\ wdata \in Seq(Tokens)
    /\ spoilt \in BOOLEAN

Typed == ServiceOK /\ CallsOK /\ PipesOK /\ WorkerOK

\* No payload was left behind in stdin.  Only a model that does not map leaves one, under a
\* request whose payload goes inline (akida_worker.py:116-122): because it outgrew the buffer,
\* or because there is none (AkidaServiceContainer.py:79-81, 118-121).
Intact == ~spoilt

\* Every variable has its type; the worker is never more than one reply ahead.
TypeOK == Typed /\ (Intact => Len(stdout) <= 1)

-----------------------------------------------------------------------------
\* Between two invocations the pipes are empty and the worker is at the start of a
\* line: no byte of an earlier payload and no reply is left for the next request,
\* and the shutdown request is the next thing it reads (shard_wire.py:119-127).  A death,
\* an exception, a missing buffer or an oversize payload do not change that; the one thing
\* that does is the payload a failed load leaves behind.
InStep ==
    Intact =>
      /\ phase = "serving" /\ Idle =>
            stdout = <<>> /\ (Alive => wpc = "line" /\ stdin = <<>>)
      /\ phase = "stopping" =>
            stdout = <<>> /\ (Alive => wpc = "line" /\ stdin = Line(NoOne))

\* The instance implements the exchange SOAM expects: until a payload is left behind, no
\* invocation is answered with anything but its own result or its own failure.
Status == [r \in Requests |->
    IF call[r] = "new" THEN "new"
    ELSE IF call[r] # "done" THEN "open"
    ELSE IF ~answer[r].ok /\ answer[r].of = r THEN "failed"
    ELSE IF answer[r].of = r /\ answer[r].data = Payload(r) THEN "own"
    ELSE "stray"]
Exchanged == INSTANCE Exchange WITH status <- Status, intact <- Intact
ImplementsExchange == Exchanged!Spec

-----------------------------------------------------------------------------
\* The two sides disagree on where a payload is: one was left behind, or the worker could
\* not map the buffer its container goes on using (worker_io.py:45-47).
Adrift == spoilt \/ (shmUp /\ ~shmSeen)

\* Every invocation returns, even when the worker dies in the middle of it
\* ("worker died mid-invoke", shard_wire.py:114-116), unless SOAM kills the instance or the
\* two sides are adrift.
Answered == \A r \in Requests :
    call[r] = "enter" ~> call[r] = "done" \/ phase = "killed" \/ Adrift

\* A worker whose container was killed lets go of the chip in the end: the next
\* instance retries until it has (inference_worker.py:81-83).
ChipReleased == phase = "killed" ~> ~Alive

-----------------------------------------------------------------------------
(* The inductive invariant behind TypeOK, InStep and ImplementsExchange      *)

\* The services it holds for: one exchange at a time, and payloads that are not empty.
Sound(v) == (v.locked \/ v.serial) /\ <<>> \notin v.shapes

Active(r)  == call[r] \in {"header", "payload", "await"}
Written(r) == call[r] \in {"payload", "await"}

OneAtATime ==
    /\ \A q, r \in Requests : Active(q) /\ Active(r) => q = r
    /\ variant.locked => \A r \in Requests : Active(r) <=> owner = r
    /\ variant.serial => \A q, r \in Requests : call[q] \in Busy /\ call[r] \in Busy => q = r

\* A payload is in the buffer until its invocation returns, or else it goes inline.
Delivered == \A r \in Requests :
    /\ call[r] # "new" => body[r] \in IF HasPayload THEN variant.shapes ELSE {<<>>}
    /\ Active(r) /\ HasPayload /\ ~Inline(r) => shmOf = r
    /\ call[r] = "payload" => Inline(r)

\* A worker does not map a buffer that is not there.
Mapped == wpc \notin {"off", "boot", "exited"} => (shmSeen => shmUp)

InHand == wpc \in {"load", "payload", "handle"} => wreq \in Requests

\* A reply is an error of the request, or the result of its own payload.
Truthful(m, r) == m.of = r /\ (m.ok => m.data = Payload(r))
Returned == \A r \in Requests : call[r] = "done" => Truthful(answer[r], r)

Quiet == stdout = <<>> /\ (Alive => wpc = "line" /\ stdin = <<>>)

\* What request r has written after its header, and the places an exchange can be at.
Rest(r) == IF call[r] = "await" /\ Inline(r) THEN Payload(r) ELSE <<>>
Replied(r) == call[r] = "await" /\ stdout # <<>> /\ Truthful(Head(stdout), r)

AtLine(r)    == stdout = <<>> /\ wpc = "line" /\ stdin = Line(r) \o Rest(r)
AtPayload(r) == stdout = <<>> /\ wreq = r /\ stdin = Rest(r)
                /\ wpc \in {"payload"} \cup (IF variant.loadsFirst THEN {"load"} ELSE {})
AtHandle(r)  == call[r] = "await" /\ stdout = <<>> /\ wpc = "handle" /\ wreq = r
                /\ wdata = Payload(r) /\ stdin = <<>>
AtReply(r)   == wpc = "line" /\ stdin = <<>> /\ Replied(r)
AtEnd(r)     == wpc = "exited" /\ (stdout = <<>> \/ Replied(r))

Talk(r) == AtLine(r) \/ AtPayload(r) \/ AtHandle(r) \/ AtReply(r) \/ AtEnd(r)

Fresh == stdin = <<>> /\ ~closed /\ \A r \in Requests : call[r] = "new"

Conversation ==
    /\ phase = "new" => Fresh /\ wpc = "off" /\ stdout = <<>>
    /\ phase = "starting" =>
         /\ Fresh
         /\ \/ wpc \in {"boot", "exited"} /\ stdout = <<>>
            \/ wpc \in {"line", "exited"} /\ stdout = <<Ready>>
    /\ phase = "serving" =>
         /\ ~closed /\ wpc \notin {"off", "boot"}
         /\ \A r \in Requests : Written(r) => Talk(r)
         /\ (\A r \in Requests : ~Written(r)) => Quiet
    /\ phase = "stopping" =>
         /\ closed /\ stdout = <<>> /\ wpc \in {"line", "exited"}
         /\ wpc = "line" => stdin = Line(NoOne)
    /\ phase \in {"refused", "stopped"} => ~Alive

\* What holds whatever becomes of the conversation, and what holds as long as it is intact.
Steady == Typed /\ OneAtATime /\ Delivered /\ Mapped /\ InHand
Agreed == Len(stdout) <= 1 /\ Returned /\ Conversation

IInv == Steady /\ (phase = "new" => Intact) /\ (Intact => Agreed)
=============================================================================
