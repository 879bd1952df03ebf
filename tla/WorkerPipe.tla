------------------------------ MODULE WorkerPipe ------------------------------
(***************************************************************************)
(* One service instance: the python3.6 SOAM container and the python3.12   *)
(* worker process it spawns, talking over the worker's stdin and stdout    *)
(* and, for payloads, over a shared /dev/shm buffer.                       *)
(*                                                                         *)
(* The same protocol is written twice in the repository, and a variant     *)
(* says which pair is modelled, and what it may be given:                  *)
(*   - batch inference: AkidaServiceContainer and akida_worker, which maps *)
(*     the model a request names before it reads the payload;              *)
(*   - image shard: shard_wire.Py312Worker and worker_io.serve, which      *)
(*     reads the payload before it calls the stage's handler.              *)
(*                                                                         *)
(* stdin is a sequence of tokens <<kind, request>>: "h" for the JSON       *)
(* header of a request (of request 0: the shutdown request), "b" for a     *)
(* byte of a payload, "nl" for a line end.  A payload is raw bytes, so it  *)
(* may hold line ends.                                                     *)
(***************************************************************************)
EXTENDS Naturals, Sequences

CONSTANTS
    NRequests,    \* bound: the tasks SOAM invokes on this instance
    Variants,     \* the services there may be
    Dies,         \* the worker may die at any point
    Kills         \* SOAM may kill the container at any point

Bytes == {"b", "nl"}

VariantType ==
    [shapes     : SUBSET Seq(Bytes), \* the payloads there may be; {} for a service without
     shmBytes   : Nat,               \* AKIDA_SHM_BYTES; 0 for a service that wants no buffer
     loadsFirst : BOOLEAN,           \* the worker maps the model before it reads the payload
     locked     : BOOLEAN,           \* on_invoke holds the container's lock
     serial     : BOOLEAN,           \* SOAM has at most one invocation in the instance
     losesAlloc : BOOLEAN,           \* the container may fail to create the buffer
     losesMap   : BOOLEAN]           \* the worker may fail to map the buffer it was given

ASSUME PipeAssumption ==
    NRequests \in Nat /\ Variants \subseteq VariantType /\ {Dies, Kills} \subseteq BOOLEAN

Requests == 1 .. NRequests
NoOne    == 0                 \* also the request of the shutdown header

VARIABLES
    variant,      \* the service
    phase,        \* the service: new, starting, refused, serving, stopping, stopped,
                  \* killed
    call,         \* on_invoke, for each request: new, enter, header, payload, await, done
    body,         \* the payload of each request
    owner,        \* who holds the container's lock
    shmUp,        \* the container has its buffer
    shmOf,        \* the request whose payload is in the buffer
    answer,       \* the reply on_invoke returned for each request
    stdin, closed, stdout,
    wpc,          \* the worker: off, boot, line, load, payload, handle, exited
    shmSeen,      \* the worker has the buffer mapped
    wreq, wdata,  \* the request in the worker's hands and the payload it has read
    spoilt        \* history: a payload was left in stdin that the worker will not read as one

serviceVars == <<variant, phase, shmUp>>
callVars    == <<call, body, owner, shmOf, answer>>
workerVars  == <<wpc, shmSeen, wreq, wdata, spoilt>>
vars        == <<serviceVars, callVars, stdin, closed, stdout, workerVars>>

Payload(r) == [i \in DOMAIN body[r] |-> <<body[r][i], r>>]

\* The first n bytes of the buffer; past the last payload they are anything.
Buffer(n) == [i \in 1 .. n |-> IF shmOf \in Requests /\ i \in DOMAIN body[shmOf]
                              THEN Payload(shmOf)[i] ELSE <<"b", NoOne>>]
LineEnd    == <<"nl", NoOne>>
Line(r)    == << <<"h", r>>, LineEnd >>

Reply(r, data) == [of |-> r, ok |-> TRUE, data |-> data]
Error(r)       == [of |-> r, ok |-> FALSE, data |-> <<>>]
Ready          == Reply(NoOne, <<>>)

Alive == wpc \notin {"off", "exited"}

\* A reply to a container that is gone raises BrokenPipeError, and ends serve().
Respond(reply) ==
    IF phase = "killed" THEN wpc' = "exited" /\ UNCHANGED stdout
                        ELSE wpc' = "line" /\ stdout' = Append(stdout, reply)

Busy == {"enter", "header", "payload", "await"}

Init ==
    /\ variant \in Variants
    /\ phase = "new" /\ shmUp = FALSE /\ shmOf = NoOne
    /\ call = [r \in Requests |-> "new"] /\ body = [r \in Requests |-> <<>>]
    /\ owner = NoOne /\ answer = [r \in Requests |-> Error(r)]
    /\ stdin = <<>> /\ closed = FALSE /\ stdout = <<>>
    /\ wpc = "off" /\ shmSeen = FALSE /\ wreq = NoOne /\ wdata = <<>>
    /\ spoilt = FALSE

-----------------------------------------------------------------------------
(* on_create_service: allocate the buffer, spawn the worker, require READY.  *)

Start ==
    /\ phase = "new" /\ phase' = "starting"
    /\ shmUp' \in IF variant.shmBytes = 0 THEN {FALSE} ELSE IF variant.losesAlloc THEN BOOLEAN ELSE {TRUE}
    /\ wpc' = "boot"
    /\ UNCHANGED <<variant, callVars, stdin, closed, stdout, shmSeen, wreq, wdata, spoilt>>

\* A worker without a device, or whose default model does not map, exits first.
Boot ==
    /\ wpc = "boot"
    /\ \/ /\ Respond(Ready)
          /\ shmSeen' \in IF ~shmUp THEN {FALSE} ELSE IF variant.losesMap THEN BOOLEAN ELSE {TRUE}
       \/ wpc' = "exited" /\ UNCHANGED <<stdout, shmSeen>>
    /\ UNCHANGED <<serviceVars, callVars, stdin, closed, wreq, wdata, spoilt>>

AwaitReady ==
    /\ phase = "starting"
    /\ \/ stdout # <<>> /\ stdout' = Tail(stdout) /\ phase' = "serving"
       \/ stdout = <<>> /\ wpc = "exited" /\ phase' = "refused" /\ UNCHANGED stdout
    /\ UNCHANGED <<variant, shmUp, callVars, stdin, closed, workerVars>>

-----------------------------------------------------------------------------
(* on_invoke and Py312Worker.request, for request r.                         *)

Idle == \A r \in Requests : call[r] \notin Busy

Invoke(r) ==
    /\ phase = "serving" /\ call[r] = "new" /\ (variant.serial => Idle)
    /\ body' \in {[body EXCEPT ![r] = shape] : shape \in IF variant.shapes = {} THEN {<<>>} ELSE variant.shapes}
    /\ call' = [call EXCEPT ![r] = "enter"]
    /\ UNCHANGED <<serviceVars, owner, shmOf, answer, stdin, closed, stdout, workerVars>>

HasPayload == variant.shapes # {}
Inline(r)  == HasPayload /\ (~shmUp \/ Len(body[r]) > variant.shmBytes)

MayEnterMutant == TRUE                  \* mutation: invocations are not serialised
MayEnter == variant.locked => owner = NoOne

\* Take the lock, if there is one, and put the payload into the buffer, if it fits.
Enter(r) ==
    /\ phase = "serving" /\ call[r] = "enter" /\ MayEnter
    /\ owner' = IF variant.locked THEN r ELSE owner
    /\ shmOf' = IF HasPayload /\ ~Inline(r) THEN r ELSE shmOf
    /\ call' = [call EXCEPT ![r] = "header"]
    /\ UNCHANGED <<serviceVars, body, answer, stdin, closed, stdout, workerVars>>

\* Leave on_invoke with a reply and without the lock.
Return(r, reply) ==
    /\ answer' = [answer EXCEPT ![r] = reply]
    /\ call' = [call EXCEPT ![r] = "done"]
    /\ owner' = IF variant.locked THEN NoOne ELSE owner
    /\ UNCHANGED <<body, shmOf>>

\* Writing to a worker that is gone raises BrokenPipeError.
Write(r, tokens, then) ==
    /\ phase = "serving"
    /\ IF Alive
         THEN /\ stdin' = stdin \o tokens
              /\ call' = [call EXCEPT ![r] = then]
              /\ UNCHANGED <<body, owner, shmOf, answer>>
         ELSE Return(r, Error(r)) /\ UNCHANGED stdin
    /\ UNCHANGED <<serviceVars, closed, stdout, workerVars>>

SendHeader(r)  == call[r] = "header" /\ Write(r, Line(r), IF Inline(r) THEN "payload" ELSE "await")
SendPayload(r) == call[r] = "payload" /\ Write(r, Payload(r), "await")

DiedMutant(r) == UNCHANGED callVars     \* mutation: an empty read is tried again
Died(r) == Return(r, Error(r))

\* Read one line of stdout; an empty read means that the worker died.
AwaitReply(r) ==
    /\ phase = "serving" /\ call[r] = "await"
    /\ \/ stdout # <<>> /\ Return(r, Head(stdout)) /\ stdout' = Tail(stdout)
       \/ stdout = <<>> /\ ~Alive /\ Died(r) /\ UNCHANGED stdout
    /\ UNCHANGED <<serviceVars, stdin, closed, workerVars>>

-----------------------------------------------------------------------------
(* on_destroy_service: SOAM calls it when no invocation is in progress.      *)

Stop ==
    /\ phase = "serving" /\ Idle
    /\ IF Alive
         THEN phase' = "stopping" /\ stdin' = stdin \o Line(NoOne) /\ closed' = TRUE
         ELSE phase' = "stopped" /\ UNCHANGED <<stdin, closed>>
    /\ UNCHANGED <<variant, shmUp, callVars, stdout, workerVars>>

\* The wait ends with the worker, or after 5 s with its termination.
StopWait ==
    /\ phase = "stopping" /\ phase' = "stopped" /\ wpc' = "exited"
    /\ UNCHANGED <<variant, shmUp, callVars, stdin, closed, stdout, shmSeen, wreq, wdata, spoilt>>

\* SOAM kills the container: its ends of the pipes close, on_invoke never returns.
Kill ==
    /\ Kills /\ phase \in {"starting", "serving"}
    /\ phase' = "killed" /\ closed' = TRUE
    /\ UNCHANGED <<variant, shmUp, callVars, stdin, stdout, workerVars>>

-----------------------------------------------------------------------------
(* The worker: one request per line, one reply per request.                  *)

\* Parse one line: an empty one is skipped, one that is no header is an error.
Parse(line) ==
    \/ line = <<>> /\ UNCHANGED <<stdout, wpc, wreq>>
    \/ /\ line = << <<"h", NoOne>> >>
       /\ wpc' = "exited" /\ UNCHANGED <<stdout, wreq>>
    \/ \E r \in Requests :
         /\ line = << <<"h", r>> >>
         /\ wreq' = r /\ wpc' = IF variant.loadsFirst THEN "load" ELSE "payload"
         /\ UNCHANGED stdout
    \/ /\ line # <<>> /\ \A r \in Requests \cup {NoOne} : line # << <<"h", r>> >>
       /\ Respond(Error(NoOne)) /\ UNCHANGED wreq

ReadLine ==
    /\ wpc = "line"
    /\ \E k \in DOMAIN stdin :
         /\ stdin[k][1] = "nl" /\ \A j \in 1 .. k - 1 : stdin[j][1] # "nl"
         /\ Parse(SubSeq(stdin, 1, k - 1))
         /\ stdin' = SubSeq(stdin, k + 1, Len(stdin))
    /\ UNCHANGED <<serviceVars, callVars, closed, shmSeen, wdata, spoilt>>

AfterEndMutant == "line"                \* mutation: an empty read is taken for a blank line
AfterEnd == "exited"

\* readline() of a closed pipe without a line end; nobody reads the last error.
EndOfInput ==
    /\ wpc = "line" /\ closed /\ \A k \in DOMAIN stdin : stdin[k][1] # "nl"
    /\ stdin' = <<>> /\ wpc' = AfterEnd
    /\ UNCHANGED <<serviceVars, callVars, closed, stdout, shmSeen, wreq, wdata, spoilt>>

\* akida_worker maps another model when the request names one.  When that raises, the
\* request is answered and a payload that goes inline stays where it is, in stdin.
Load ==
    /\ wpc = "load"
    /\ \/ wpc' = "payload" /\ UNCHANGED <<stdout, spoilt>>
       \/ Respond(Error(wreq)) /\ spoilt' = (spoilt \/ Inline(wreq))
    /\ UNCHANGED <<serviceVars, callVars, stdin, closed, shmSeen, wreq, wdata>>

Reads(n) ==
    /\ wdata' = SubSeq(stdin, 1, n)
    /\ stdin' = SubSeq(stdin, n + 1, Len(stdin))

\* The payload: n bytes of stdin when the header says so or there is no buffer,
\* and the first n bytes of the buffer otherwise.
FromStdinMutant == ~shmSeen             \* mutation: the header's "inline" is ignored
FromStdin == Inline(wreq) \/ ~shmSeen

TakePayload ==
    /\ wpc = "payload"
    /\ \/ /\ ~HasPayload
          /\ wdata' = <<>> /\ wpc' = "handle" /\ UNCHANGED <<stdin, stdout>>
       \/ /\ HasPayload /\ FromStdin /\ Len(stdin) >= Len(body[wreq])
          /\ Reads(Len(body[wreq])) /\ wpc' = "handle" /\ UNCHANGED stdout
       \/ /\ HasPayload /\ FromStdin /\ Len(stdin) < Len(body[wreq]) /\ closed
          /\ stdin' = <<>> /\ Respond(Error(wreq)) /\ UNCHANGED wdata
       \/ /\ HasPayload /\ ~FromStdin
          /\ wdata' = Buffer(Len(body[wreq])) /\ wpc' = "handle" /\ UNCHANGED <<stdin, stdout>>
    /\ UNCHANGED <<serviceVars, callVars, closed, shmSeen, wreq, spoilt>>

\* The stage's handler, or chip.infer: a result or an exception.
Handle ==
    /\ wpc = "handle"
    /\ Respond(Reply(wreq, wdata)) \/ Respond(Error(wreq))
    /\ UNCHANGED <<serviceVars, callVars, stdin, closed, shmSeen, wreq, wdata, spoilt>>

Die ==
    /\ Dies /\ Alive /\ wpc' = "exited"
    /\ UNCHANGED <<serviceVars, callVars, stdin, closed, stdout, shmSeen, wreq, wdata, spoilt>>

-----------------------------------------------------------------------------
OnInvoke(r) == Enter(r) \/ SendHeader(r) \/ SendPayload(r) \/ AwaitReply(r)
Worker == Boot \/ ReadLine \/ EndOfInput \/ Load \/ TakePayload \/ Handle
Service == Start \/ AwaitReady \/ Stop \/ StopWait \/ Kill

Over == phase \in {"stopped", "refused", "killed"} /\ ~Alive /\ UNCHANGED vars

Next == Service \/ Worker \/ Die \/ Over \/ \E r \in Requests : Invoke(r) \/ OnInvoke(r)

Spec == Init /\ [][Next]_vars

\* The two processes run, and a lock is handed to each that waits for it.
PipeFairness ==
    /\ WF_vars(Worker) /\ WF_vars(Start \/ AwaitReady \/ StopWait)
    /\ \A r \in Requests : SF_vars(Enter(r)) /\ WF_vars(SendHeader(r) \/ SendPayload(r))
                           /\ WF_vars(AwaitReply(r))

FairSpec == Spec /\ PipeFairness
=============================================================================
