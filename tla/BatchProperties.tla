--------------------------- MODULE BatchProperties ---------------------------
(***************************************************************************)
(* What the batch client promises.                                         *)
(***************************************************************************)
EXTENDS BatchClient

OnFleet == waiting \cup {running[h] : h \in {h \in Hosts : running[h] # NoTask}}
Fetchable == {o.task : o \in outputs}

\* Every variable has its type, and a task is in one place: waiting, on one host, or answered.
TypeOK ==
    /\ job \in Jobs
    /\ started \in 0 .. Cardinality(Workers) /\ next \in [Workers -> Nat]
    /\ phase \in {"start", "fetch", "join", "reported"}
    /\ done \in Nat /\ errors \in Nat /\ perHost \in [Hosts -> Nat]
    /\ waiting \subseteq Tasks /\ running \in [Hosts -> Tasks \cup {NoTask}]
    /\ outputs \subseteq [task : Tasks, kind : Kinds, host : Hosts, copy : {0, 1}]
    /\ waiting \cap Fetchable = {}
    /\ \A g, h \in Hosts : running[g] # NoTask =>
         /\ running[g] \notin waiting \cup Fetchable
         /\ g # h => running[g] # running[h]

InRange(t, w) == Low(w) <= t /\ t < High(w)

\* The ranges of the senders that are started hold every index once, whatever the number of
\* threads, and the loop's break skips none that has work (soam_client.py:171-180).
Partitioned ==
    phase # "start" =>
        \A t \in Tasks : \E w \in Workers :
            /\ w < started /\ InRange(t, w)
            /\ \A v \in Workers : InRange(t, v) => v = w

\* What is reported adds up: every output fetched is a success of its host or an error, and
\* a run whose outputs come once has fetched the answer of every task, also of those that were
\* run again on another host (:190-209, 218-224).
Successes == UNION {{h} \X (1 .. perHost[h]) : h \in Hosts}      \* each host's, numbered
Good == Cardinality(Successes)

ReportAddsUp ==
    /\ done = Good + errors
    /\ faults["dup"] = 0 => errors <= faults["err"] + faults["failed"]
    /\ phase = "reported" /\ faults["dup"] = 0 =>
         /\ done = job.count /\ OnFleet = {} /\ outputs = {}
         /\ Good = job.count - faults["err"] - faults["failed"]

\* A fleet that goes on answering lets the run end, however many fetches run out of time and
\* whatever is lost on the way: the outputs of some tasks never wait for others (:192-209).
Reports == <>(phase = "reported")

-----------------------------------------------------------------------------
(* The inductive invariant behind the three safety properties                *)

\* The tasks that a sender has sent.
Sent == {t \in Tasks : \E w \in Workers : InRange(t, w) /\ t < next[w]}
Busy == {h \in Hosts : running[h] # NoTask}
Bad  == {o \in outputs : o.kind # "ok"}

\* Only what was sent is with SOAM, so what is sent next is not.
Placed == /\ waiting \cup Fetchable \subseteq Sent
          /\ \A h \in Busy : running[h] \in Sent
          /\ \A w \in Workers : Low(w) <= next[w]

\* Main leaves the loop that starts the senders at its end or at an empty range.
AllStarted == phase # "start" => started \notin Workers \/ High(started) <= Low(started)

Bounded == /\ faults \in [DOMAIN Budget -> Nat]
           /\ IsFiniteSet(outputs) /\ IsFiniteSet(Successes)

\* Without a second delivery each task that was sent is in one place or counted, and
\* each failure is in an output or counted.
Counted ==
    faults["dup"] = 0 =>
        /\ done + Cardinality(outputs) + Cardinality(waiting) + Cardinality(Busy) = Cardinality(Sent)
        /\ errors + Cardinality(Bad) = faults["err"] + faults["failed"]

EndOfFetch == phase \in {"join", "reported"} => done >= job.count

IInv == TypeOK /\ Placed /\ AllStarted /\ Bounded /\ Counted /\ EndOfFetch /\ done = Good + errors
=============================================================================
