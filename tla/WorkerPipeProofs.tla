--------------------------- MODULE WorkerPipeProofs ---------------------------
(***************************************************************************)
(* Proofs about the pipe between a service container and its worker, for   *)
(* any number of requests, any payloads and every service that is Sound.   *)
(***************************************************************************)
EXTENDS WorkerPipeProperties, SequenceTheorems, TLAPS

-----------------------------------------------------------------------------
(* Lines and payloads *)

LEMMA TokenFact ==
  ASSUME NEW q \in Requests \cup {NoOne}
  PROVE  <<"h", q>> \in Tokens /\ LineEnd \in Tokens /\ <<"b", q>> \in Tokens
BY DEF Tokens, LineEnd, NoOne

LEMMA LineFact ==
  ASSUME NEW q \in Requests \cup {NoOne}
  PROVE  /\ Line(q) \in Seq(Tokens) /\ Len(Line(q)) = 2
         /\ Line(q)[1] = <<"h", q>> /\ Line(q)[2] = LineEnd
<1> DEFINE a == <<"h", q>>
<1>1. a \in Tokens /\ LineEnd \in Tokens /\ Line(q) = <<a, LineEnd>>
  BY TokenFact DEF Line
<1> HIDE DEF a
<1>2. Line(q) \in Seq(Tokens) /\ Len(Line(q)) = 2 /\ Line(q)[1] = a /\ Line(q)[2] = LineEnd
  BY <1>1
<1> QED
  BY <1>2 DEF a

LEMMA PayloadFact ==
  ASSUME NEW r \in Requests, body[r] \in Seq(Bytes)
  PROVE  Payload(r) \in Seq(Tokens) /\ Len(Payload(r)) = Len(body[r])
<1>1. \A i \in 1 .. Len(body[r]) : <<body[r][i], r>> \in Tokens
  BY DEF Bytes, Tokens
<1>2. Payload(r) = [i \in 1 .. Len(body[r]) |-> <<body[r][i], r>>]
  BY DEF Payload
<1> QED
  BY <1>1, <1>2

\* The first line of the stream is the header that was written, and what is left is the rest.
LEMMA FirstLine ==
  ASSUME NEW q \in Requests \cup {NoOne}, NEW w \in Seq(Tokens), NEW s, s = Line(q) \o w
  PROVE  /\ s \in Seq(Tokens) /\ 2 \in DOMAIN s /\ s[2][1] = "nl"
         /\ \A k \in DOMAIN s : s[k][1] = "nl" /\ (\A j \in 1 .. k - 1 : s[j][1] # "nl") => k = 2
         /\ SubSeq(s, 1, 1) = << <<"h", q>> >>
         /\ SubSeq(s, 3, Len(s)) = w
<1>1. /\ s \in Seq(Tokens) /\ Len(s) = Len(w) + 2 /\ DOMAIN s = 1 .. Len(s) /\ Len(w) \in Nat
      /\ s[1] = <<"h", q>> /\ s[2] = LineEnd
      /\ \A i \in 1 .. Len(w) : s[i + 2] = w[i]
  <2> DEFINE l == Line(q)
  <2>1. l \in Seq(Tokens) /\ Len(l) = 2 /\ l[1] = <<"h", q>> /\ l[2] = LineEnd
    BY LineFact
  <2> HIDE DEF l
  <2>2. /\ Len(l \o w) = Len(l) + Len(w) /\ l \o w \in Seq(Tokens)
        /\ \A i \in 1 .. Len(l) + Len(w) : (l \o w)[i] = IF i <= Len(l) THEN l[i] ELSE w[i - Len(l)]
    BY <2>1, ConcatProperties
  <2>3. s \in Seq(Tokens) /\ Len(s) = Len(w) + 2 /\ DOMAIN s = 1 .. Len(s) /\ Len(w) \in Nat
    BY <2>1, <2>2, LenProperties DEF l
  <2>4. \A i \in 1 .. Len(w) + 2 : s[i] = IF i <= 2 THEN l[i] ELSE w[i - 2]
    BY <2>1, <2>2, <2>3 DEF l
  <2>5. s[1] = l[1] /\ s[2] = l[2] /\ \A i \in 1 .. Len(w) : s[i + 2] = w[i]
    <3>1. 1 \in 1 .. Len(w) + 2 /\ 2 \in 1 .. Len(w) + 2
      BY <2>3
    <3>2. ASSUME NEW i \in 1 .. Len(w) PROVE s[i + 2] = w[i]
      <4>1. i + 2 \in 1 .. Len(w) + 2 /\ ~(i + 2 <= 2) /\ (i + 2) - 2 = i
        BY <2>3
      <4> QED
        BY <2>4, <4>1
    <3>3. s[1] = IF 1 <= 2 THEN l[1] ELSE w[1 - 2]
      BY <2>4, <3>1, Zenon
    <3>4. s[2] = IF 2 <= 2 THEN l[2] ELSE w[2 - 2]
      BY <2>4, <3>1, Zenon
    <3>5. s[1] = l[1] /\ s[2] = l[2]
      BY <3>3, <3>4
    <3> QED
      BY <3>2, <3>5, Zenon
  <2> QED
    BY <2>1, <2>3, <2>5
<1>2. s[1][1] = "h" /\ s[2][1] = "nl"
  BY <1>1 DEF LineEnd
<1>3. ASSUME NEW k \in DOMAIN s, s[k][1] = "nl", \A j \in 1 .. k - 1 : s[j][1] # "nl"
      PROVE  k = 2
  <2>1. k \in Nat /\ k >= 1 /\ k # 1
    BY <1>1, <1>2, <1>3
  <2>2. ~(2 \in 1 .. k - 1)
    BY <1>2, <1>3
  <2> QED
    BY <2>1, <2>2
<1>4. SubSeq(s, 1, 1) = << <<"h", q>> >>
  <2> DEFINE a == <<"h", q>>
  <2>1. a \in Tokens /\ s[1] = a
    BY <1>1, TokenFact
  <2> HIDE DEF a
  <2>2. 1 \in 1 .. Len(s)
    BY <1>1
  <2>3. SubSeq(s, 1, 1) = <<s[1]>> \o SubSeq(s, 1 + 1, 1)
    BY <1>1, <2>2, SubSeqRecursiveFirst
  <2>4. SubSeq(s, 1 + 1, 1) = <<>>
    BY SubSeqEmpty
  <2>5. <<a>> \in Seq(Tokens)
    BY <2>1
  <2>6. <<a>> \o <<>> = <<a>>
    BY <2>5, ConcatEmptySeq
  <2> QED
    BY <2>1, <2>3, <2>4, <2>6 DEF a
<1>5. SubSeq(s, 3, Len(s)) = w
  <2> DEFINE t == SubSeq(s, 3, Len(s))
  <2>1. \A i \in 3 .. Len(s) : s[i] \in Tokens
    <3>1. \A i \in 1 .. Len(s) : s[i] \in Tokens
      BY <1>1, ElementOfSeq
    <3> QED
      BY <1>1, <3>1
  <2>2. Len(s) \in Int /\ 3 \in Int
    BY <1>1
  <2>3. /\ t \in Seq(Tokens) /\ Len(t) = IF 3 <= Len(s) THEN Len(s) - 3 + 1 ELSE 0
        /\ \A i \in 1 .. Len(s) - 3 + 1 : t[i] = s[3 + i - 1]
    BY <2>1, <2>2, SubSeqProperties
  <2> HIDE DEF t
  <2>4. Len(t) = Len(w)
    BY <1>1, <2>3
  <2>5. ASSUME NEW i \in 1 .. Len(t) PROVE t[i] = w[i]
    <3>1. i \in 1 .. Len(w) /\ i \in 1 .. Len(s) - 3 + 1 /\ 3 + i - 1 = i + 2
      BY <1>1, <2>4
    <3> QED
      BY <1>1, <2>3, <3>1
  <2>6. t = w
    BY <2>3, <2>4, <2>5, SeqEqual
  <2> QED
    BY <2>6 DEF t
<1> QED
  BY <1>1, <1>2, <1>3, <1>4, <1>5

LEMMA HeadersDiffer ==
  ASSUME NEW q, NEW r
  PROVE  /\ << <<"h", q>> >> = << <<"h", r>> >> => q = r
         /\ << <<"h", q>> >> # <<>>
OBVIOUS

\* The service does not change, nor what an invocation has to say.
LEMMA SameWords ==
  ASSUME UNCHANGED <<serviceVars, callVars>>
  PROVE  /\ HasPayload' = HasPayload
         /\ \A r : /\ Payload(r)' = Payload(r) /\ Inline(r)' = Inline(r) /\ Rest(r)' = Rest(r)
                   /\ Written(r)' = Written(r) /\ Active(r)' = Active(r)
<1>1. variant' = variant /\ shmUp' = shmUp /\ body' = body /\ call' = call
  BY DEF serviceVars, callVars
<1>2. HasPayload' = HasPayload /\ (\A r : Payload(r)' = Payload(r))
  BY <1>1 DEF HasPayload, Payload
<1>3. \A r : Inline(r)' = Inline(r)
  BY <1>1, <1>2 DEF Inline
<1>4. \A r : Rest(r)' = Rest(r)
  BY <1>1, <1>2, <1>3 DEF Rest
<1> QED
  BY <1>1, <1>2, <1>3, <1>4 DEF Written, Active

-----------------------------------------------------------------------------
(* What every step keeps, whatever becomes of the conversation *)

\* A service there may be, and what makes it sound.
LEMMA ServiceFact ==
  ASSUME ServiceOK, \A v \in Variants : Sound(v)
  PROVE  /\ variant.shapes \subseteq Seq(Bytes) /\ variant.shmBytes \in Nat
         /\ {variant.loadsFirst, variant.locked, variant.serial} \subseteq BOOLEAN
         /\ Sound(variant)
<1>1. variant \in VariantType /\ Sound(variant)
  BY PipeAssumption DEF ServiceOK
<1> QED
  BY <1>1 DEF VariantType

\* One request talks; what the others have to say is nothing.
LEMMA OnlyOneTalks ==
  ASSUME OneAtATime, NEW r \in Requests, Active(r)
  PROVE  \A q \in Requests : Active(q) => q = r
BY DEF OneAtATime

\* The steps of the worker leave the service and the invocations as they are.
LEMMA WorkerFrame ==
  ASSUME Steady, UNCHANGED <<serviceVars, callVars>>
  PROVE  ServiceOK' /\ CallsOK' /\ OneAtATime' /\ Delivered'
<1> USE DEF serviceVars, callVars
<1>1. ServiceOK'
  BY DEF Steady, Typed, ServiceOK
<1>2. CallsOK'
  BY DEF Steady, Typed, CallsOK
<1>3. OneAtATime'
  BY DEF Steady, OneAtATime, Active
<1>4. Delivered'
  BY SameWords DEF Steady, Delivered
<1> QED
  BY <1>1, <1>2, <1>3, <1>4

\* What a step of the worker has to show: types, and the buffer it maps.
LEMMA WorkerTyped ==
  ASSUME Steady, UNCHANGED <<serviceVars, callVars, closed>>,
         stdin' \in Seq(Tokens), stdout' \in Seq(Replies),
         wpc' \in {"off", "boot", "line", "load", "payload", "handle", "exited"},
         wreq' \in Requests \cup {NoOne}, wdata' \in Seq(Tokens),
         shmSeen' \in BOOLEAN, spoilt' \in BOOLEAN,
         wpc' \notin {"off", "boot", "exited"} => (shmSeen' => shmUp),
         wpc' \in {"load", "payload", "handle"} => wreq' \in Requests
  PROVE  Steady'
<1>1. ServiceOK' /\ CallsOK' /\ OneAtATime' /\ Delivered'
  BY WorkerFrame
<1>2. PipesOK' /\ WorkerOK'
  BY DEF Steady, Typed, PipesOK, WorkerOK
<1>3. Mapped' /\ InHand'
  BY DEF Mapped, InHand, serviceVars
<1> QED
  BY <1>1, <1>2, <1>3 DEF Steady, Typed

LEMMA TailFact ==
  ASSUME NEW s \in Seq(Tokens), NEW m \in Nat, NEW n \in Nat, m >= 1, n <= Len(s)
  PROVE  SubSeq(s, m, n) \in Seq(Tokens)
<1>1. \A i \in 1 .. Len(s) : s[i] \in Tokens
  BY ElementOfSeq
<1>2. Len(s) \in Nat
  BY LenProperties
<1>3. \A i \in m .. n : s[i] \in Tokens
  BY <1>1, <1>2
<1>4. m \in Int /\ n \in Int
  OBVIOUS
<1> QED
  BY <1>3, <1>4, SubSeqProperties

LEMMA ReplyTypes ==
  ASSUME NEW r \in Requests \cup {NoOne}, NEW data \in Seq(Tokens)
  PROVE  Reply(r, data) \in Replies /\ Error(r) \in Replies /\ Ready \in Replies
<1>1. <<>> \in Seq(Tokens) /\ NoOne \in Requests \cup {NoOne}
  BY EmptySeq
<1> QED
  BY <1>1 DEF Reply, Error, Ready, Replies

\* A reply has a type, and the worker is at a line again or has found its container gone.
LEMMA RespondTypes ==
  ASSUME stdout \in Seq(Replies), NEW m \in Replies, Respond(m)
  PROVE  stdout' \in Seq(Replies) /\ wpc' \in {"line", "exited"}
<1>1. Append(stdout, m) \in Seq(Replies)
  BY AppendProperties
<1> QED
  BY <1>1 DEF Respond

\* What request r has still to say is a payload or nothing.
LEMMA RestFact ==
  ASSUME Typed, NEW r \in Requests
  PROVE  Rest(r) \in Seq(Tokens) /\ Payload(r) \in Seq(Tokens) /\ Len(Payload(r)) = Len(body[r])
<1>1. body[r] \in Seq(Bytes)
  BY DEF Typed, CallsOK
<1>2. Payload(r) \in Seq(Tokens) /\ Len(Payload(r)) = Len(body[r])
  BY <1>1, PayloadFact
<1> QED
  BY <1>2, EmptySeq DEF Rest

LEMMA BufferType ==
  ASSUME Typed, NEW n \in Nat
  PROVE  Buffer(n) \in Seq(Tokens)
<1>1. ASSUME NEW i \in 1 .. n
      PROVE  (IF shmOf \in Requests /\ i \in DOMAIN body[shmOf]
                THEN Payload(shmOf)[i] ELSE <<"b", NoOne>>) \in Tokens
  <2>1. CASE shmOf \in Requests /\ i \in DOMAIN body[shmOf]
    <3>1. Payload(shmOf) \in Seq(Tokens) /\ body[shmOf] \in Seq(Bytes)
      BY <2>1, RestFact DEF Typed, CallsOK
    <3>2. DOMAIN Payload(shmOf) = DOMAIN body[shmOf]
      BY DEF Payload
    <3>3. i \in 1 .. Len(Payload(shmOf))
      BY <2>1, <3>1, <3>2, LenProperties
    <3>4. Payload(shmOf)[i] \in Tokens
      BY <3>1, <3>3, ElementOfSeq
    <3> QED
      BY <2>1, <3>4
  <2>2. CASE ~(shmOf \in Requests /\ i \in DOMAIN body[shmOf])
    BY <2>2, TokenFact
  <2> QED
    BY <2>1, <2>2
<1> DEFINE e(i) == IF shmOf \in Requests /\ i \in DOMAIN body[shmOf]
                     THEN Payload(shmOf)[i] ELSE <<"b", NoOne>>
<1>2. \A i \in 1 .. n : e(i) \in Tokens
  BY <1>1
<1>3. Buffer(n) = [i \in 1 .. n |-> e(i)]
  BY DEF Buffer
<1> HIDE DEF e
<1> QED
  BY <1>2, <1>3

\* Whatever line it is, what the worker then holds has its type.
LEMMA ParseTypes ==
  ASSUME Typed, wpc = "line", NEW line, Parse(line)
  PROVE  /\ stdout' \in Seq(Replies) /\ wpc' \in {"line", "load", "payload", "exited"}
         /\ wreq' \in Requests \cup {NoOne}
         /\ wpc' \in {"load", "payload"} => wreq' \in Requests
<1>1. stdout \in Seq(Replies) /\ wreq \in Requests \cup {NoOne} /\ Error(NoOne) \in Replies
  BY ReplyTypes, EmptySeq DEF Typed, PipesOK, WorkerOK
<1>2. CASE Respond(Error(NoOne)) /\ UNCHANGED wreq
  BY <1>1, <1>2, RespondTypes
<1>3. CASE ~Respond(Error(NoOne))
  BY <1>1, <1>3 DEF Parse
<1> QED
  BY <1>1, <1>2, <1>3, RespondTypes DEF Parse

LEMMA ReadLineSteady ==
  ASSUME Steady, ReadLine
  PROVE  Steady'
<1>1. /\ wpc = "line" /\ UNCHANGED <<serviceVars, callVars, closed, shmSeen, wdata, spoilt>> /\ Typed
      /\ stdin \in Seq(Tokens) /\ wdata \in Seq(Tokens) /\ shmSeen \in BOOLEAN /\ spoilt \in BOOLEAN
      /\ (shmSeen => shmUp)
  BY DEF ReadLine, Steady, Mapped, Typed, PipesOK, WorkerOK
<1>2. PICK k \in DOMAIN stdin :
         Parse(SubSeq(stdin, 1, k - 1)) /\ stdin' = SubSeq(stdin, k + 1, Len(stdin))
  BY DEF ReadLine
<1>3. k + 1 \in Nat /\ k + 1 >= 1 /\ Len(stdin) \in Nat /\ Len(stdin) <= Len(stdin)
  BY <1>1, LenProperties
<1>4. stdin' \in Seq(Tokens)
  BY <1>1, <1>2, <1>3, TailFact
<1>5. /\ stdout' \in Seq(Replies) /\ wpc' \in {"line", "load", "payload", "exited"}
      /\ wreq' \in Requests \cup {NoOne}
      /\ wpc' \in {"load", "payload"} => wreq' \in Requests
  BY <1>1, <1>2, ParseTypes
<1> QED
  BY <1>1, <1>4, <1>5, WorkerTyped

LEMMA TakePayloadSteady ==
  ASSUME Steady, TakePayload
  PROVE  Steady'
<1>1. /\ wpc = "payload" /\ Typed
      /\ UNCHANGED <<serviceVars, callVars, closed, shmSeen, wreq, spoilt>>
      /\ stdin \in Seq(Tokens) /\ stdout \in Seq(Replies)
      /\ wreq \in Requests /\ wdata \in Seq(Tokens)
      /\ body[wreq] \in Seq(Bytes) /\ Len(body[wreq]) \in Nat
      /\ shmSeen \in BOOLEAN /\ spoilt \in BOOLEAN /\ (shmSeen => shmUp)
  BY LenProperties DEF TakePayload, Steady, InHand, Mapped, Typed, CallsOK, PipesOK, WorkerOK
<1>2. <<>> \in Seq(Tokens) /\ Len(stdin) \in Nat
  BY <1>1, EmptySeq, LenProperties
<1>3. /\ stdin' \in Seq(Tokens) /\ stdout' \in Seq(Replies) /\ wdata' \in Seq(Tokens)
      /\ wpc' \in {"handle", "line", "exited"}
  <2>1. CASE wdata' = <<>> /\ wpc' = "handle" /\ UNCHANGED <<stdin, stdout>>
    BY <1>1, <1>2, <2>1
  <2>2. CASE Len(stdin) >= Len(body[wreq]) /\ Reads(Len(body[wreq])) /\ wpc' = "handle" /\ UNCHANGED stdout
    <3> DEFINE n == Len(body[wreq])
    <3>1. n \in Nat
      BY <1>1
    <3>2. SubSeq(stdin, 1, n) \in Seq(Tokens)
      <4>1. n <= Len(stdin) /\ 1 \in Nat /\ 1 >= 1
        BY <1>2, <2>2, <3>1
      <4> HIDE DEF n
      <4> QED
        BY <1>1, <3>1, <4>1, TailFact
    <3>3. SubSeq(stdin, n + 1, Len(stdin)) \in Seq(Tokens)
      <4> HIDE DEF n
      <4>1. n + 1 \in Nat /\ n + 1 >= 1 /\ Len(stdin) <= Len(stdin)
        BY <1>2, <3>1
      <4> QED
        BY <1>1, <1>2, <4>1, TailFact
    <3> QED
      BY <1>1, <2>2, <3>2, <3>3 DEF Reads
  <2>3. CASE stdin' = <<>> /\ Respond(Error(wreq)) /\ UNCHANGED wdata
    <3>1. Error(wreq) \in Replies
      BY <1>1, ReplyTypes
    <3> QED
      BY <1>1, <1>2, <2>3, <3>1, RespondTypes
  <2>4. CASE wdata' = Buffer(Len(body[wreq])) /\ wpc' = "handle" /\ UNCHANGED <<stdin, stdout>>
    BY <1>1, <2>4, BufferType
  <2> QED
    BY <2>1, <2>2, <2>3, <2>4 DEF TakePayload
<1> QED
  BY <1>1, <1>3, WorkerTyped

LEMMA WorkerSteady ==
  ASSUME Steady, Worker \/ Die
  PROVE  Steady'
<1>1. /\ stdin \in Seq(Tokens) /\ stdout \in Seq(Replies) /\ <<>> \in Seq(Tokens)
      /\ wreq \in Requests \cup {NoOne} /\ wdata \in Seq(Tokens)
      /\ shmSeen \in BOOLEAN /\ spoilt \in BOOLEAN /\ shmUp \in BOOLEAN
      /\ wpc \notin {"off", "boot", "exited"} => (shmSeen => shmUp)
      /\ wpc \in {"load", "payload", "handle"} => wreq \in Requests
  BY EmptySeq DEF Steady, Mapped, InHand, Typed, ServiceOK, PipesOK, WorkerOK
<1>2. CASE Boot
  <2>1. UNCHANGED <<serviceVars, callVars, stdin, closed, wreq, wdata, spoilt>>
    BY <1>2 DEF Boot
  <2>2. CASE Respond(Ready) /\ shmSeen' \in IF ~shmUp THEN {FALSE} ELSE IF variant.losesMap THEN BOOLEAN ELSE {TRUE}
    <3>1. Ready \in Replies
      BY <1>1, ReplyTypes
    <3>2. stdout' \in Seq(Replies) /\ wpc' \in {"line", "exited"}
      BY <1>1, <2>2, <3>1, RespondTypes
    <3>3. shmSeen' \in BOOLEAN /\ (shmSeen' => shmUp)
      BY <1>1, <2>2
    <3> QED
      BY <1>1, <2>1, <3>2, <3>3, WorkerTyped
  <2>3. CASE wpc' = "exited" /\ UNCHANGED <<stdout, shmSeen>>
    BY <1>1, <2>1, <2>3, WorkerTyped
  <2> QED
    BY <1>2, <2>2, <2>3 DEF Boot
<1>3. CASE EndOfInput
  BY <1>1, <1>3, WorkerTyped DEF EndOfInput, AfterEnd
<1>4. CASE Load
  <2>1. wpc = "load" /\ UNCHANGED <<serviceVars, callVars, stdin, closed, shmSeen, wreq, wdata>>
    BY <1>4 DEF Load
  <2>2. CASE wpc' = "payload" /\ UNCHANGED <<stdout, spoilt>>
    BY <1>1, <2>1, <2>2, WorkerTyped
  <2>3. CASE Respond(Error(wreq)) /\ spoilt' = (spoilt \/ Inline(wreq))
    <3>1. Error(wreq) \in Replies
      BY <1>1, ReplyTypes
    <3>2. stdout' \in Seq(Replies) /\ wpc' \in {"line", "exited"}
      BY <1>1, <2>3, <3>1, RespondTypes
    <3>3. spoilt' \in BOOLEAN
      BY <2>3
    <3> QED
      BY <1>1, <2>1, <3>2, <3>3, WorkerTyped
  <2> QED
    BY <1>4, <2>2, <2>3 DEF Load
<1>5. CASE Handle
  <2>1. wpc = "handle" /\ UNCHANGED <<serviceVars, callVars, stdin, closed, shmSeen, wreq, wdata, spoilt>>
    BY <1>5 DEF Handle
  <2>2. PICK m \in {Reply(wreq, wdata), Error(wreq)} : Respond(m)
    BY <1>5 DEF Handle
  <2>3. m \in Replies
    BY <1>1, <2>2, ReplyTypes
  <2>4. stdout' \in Seq(Replies) /\ wpc' \in {"line", "exited"}
    BY <1>1, <2>2, <2>3, RespondTypes
  <2> QED
    BY <1>1, <2>1, <2>4, WorkerTyped
<1>6. CASE Die
  BY <1>1, <1>6, WorkerTyped DEF Die
<1> QED
  BY <1>2, <1>3, <1>4, <1>5, <1>6, ReadLineSteady, TakePayloadSteady DEF Worker

\* What the service's steps after its start keep.
LEMMA ServiceTyped ==
  ASSUME Steady, UNCHANGED <<variant, shmUp, callVars, shmSeen, wreq, wdata, spoilt>>,
         phase' \in {"starting", "refused", "serving", "stopping", "stopped", "killed"},
         stdin' \in Seq(Tokens), closed' \in BOOLEAN, stdout' \in Seq(Replies),
         wpc' \in {wpc, "exited"}
  PROVE  Steady'
<1>1. ServiceOK' /\ CallsOK' /\ PipesOK' /\ WorkerOK'
  BY DEF Steady, Typed, ServiceOK, CallsOK, PipesOK, WorkerOK, callVars
<1>2. HasPayload' = HasPayload /\ \A r : Payload(r)' = Payload(r) /\ Inline(r)' = Inline(r)
  BY DEF HasPayload, Payload, Inline, callVars
<1>3. OneAtATime'
  BY DEF Steady, OneAtATime, Active, callVars
<1>4. Delivered'
  BY <1>2 DEF Steady, Delivered, Active, callVars
<1>5. Mapped' /\ InHand'
  BY DEF Steady, Mapped, InHand
<1> QED
  BY <1>1, <1>3, <1>4, <1>5 DEF Steady, Typed

LEMMA ServiceSteady ==
  ASSUME Steady, phase = "new" => Fresh, Service
  PROVE  Steady'
<1>1. stdin \in Seq(Tokens) /\ closed \in BOOLEAN /\ stdout \in Seq(Replies)
  BY DEF Steady, Typed, PipesOK
<1>2. CASE Start
  <2>1. /\ phase = "new" /\ phase' = "starting" /\ wpc' = "boot" /\ shmUp' \in BOOLEAN /\ Fresh
        /\ UNCHANGED <<variant, callVars, stdin, closed, stdout, shmSeen, wreq, wdata, spoilt>>
    BY <1>2 DEF Start
  <2>2. Typed'
    BY <2>1 DEF Steady, Typed, ServiceOK, CallsOK, PipesOK, WorkerOK, callVars
  <2>3. OneAtATime'
    BY <2>1 DEF Steady, OneAtATime, Active, callVars
  <2>4. Delivered'
    BY <2>1 DEF Delivered, Fresh, Active, callVars
  <2>5. Mapped' /\ InHand'
    BY <2>1 DEF Mapped, InHand
  <2> QED
    BY <2>2, <2>3, <2>4, <2>5 DEF Steady
<1>3. CASE AwaitReady
  <2>1. stdout # <<>> => Tail(stdout) \in Seq(Replies)
    BY <1>1, HeadTailProperties
  <2> QED
    BY <1>1, <1>3, <2>1, ServiceTyped DEF AwaitReady, workerVars
<1>4. CASE Stop
  <2>1. stdin \o Line(NoOne) \in Seq(Tokens)
    BY <1>1, LineFact, ConcatProperties
  <2> QED
    BY <1>1, <1>4, <2>1, ServiceTyped DEF Stop, workerVars
<1>5. CASE StopWait
  BY <1>1, <1>5, ServiceTyped DEF StopWait
<1>6. CASE Kill
  BY <1>1, <1>6, ServiceTyped DEF Kill, workerVars
<1> QED
  BY <1>2, <1>3, <1>4, <1>5, <1>6 DEF Service

\* What a step of on_invoke leaves to the rest of the instance.
LEMMA CallTyped ==
  ASSUME Steady, UNCHANGED <<serviceVars, closed, workerVars>>,
         shmOf' \in Requests \cup {NoOne}, CallsOK',
         stdin' \in Seq(Tokens), stdout' \in Seq(Replies), OneAtATime', Delivered'
  PROVE  Steady'
<1>1. ServiceOK' /\ PipesOK' /\ WorkerOK'
  BY DEF Steady, Typed, ServiceOK, PipesOK, WorkerOK, serviceVars, workerVars
<1>2. Mapped' /\ InHand'
  BY DEF Steady, Mapped, InHand, serviceVars, workerVars
<1> QED
  BY <1>1, <1>2 DEF Steady, Typed

\* What a step of on_invoke does to the other invocations.
LEMMA InvokeMoves ==
  ASSUME CallsOK, NEW r \in Requests, Invoke(r)
  PROVE  /\ \A q \in Requests : call'[q] = IF q = r THEN "enter" ELSE call[q]
         /\ HasPayload' = HasPayload
         /\ \A q \in Requests : q # r =>
              body'[q] = body[q] /\ Payload(q)' = Payload(q) /\ Inline(q)' = Inline(q)
         /\ \A q \in Requests : Active(q)' = Active(q) /\ Written(q)' = Written(q)
<1>1. /\ call[r] = "new" /\ call' = [call EXCEPT ![r] = "enter"] /\ UNCHANGED serviceVars
      /\ \E shape : body' = [body EXCEPT ![r] = shape]
  BY DEF Invoke
<1>2. /\ \A q \in Requests : call'[q] = IF q = r THEN "enter" ELSE call[q]
      /\ \A q \in Requests : q # r => body'[q] = body[q]
  BY <1>1 DEF CallsOK
<1>3. HasPayload' = HasPayload
  BY <1>1 DEF HasPayload, serviceVars
<1>4. \A q \in Requests : q # r => Payload(q)' = Payload(q) /\ Inline(q)' = Inline(q)
  BY <1>1, <1>2, <1>3 DEF Payload, Inline, serviceVars
<1>5. \A q \in Requests : Active(q)' = Active(q) /\ Written(q)' = Written(q)
  BY <1>1, <1>2 DEF Active, Written
<1> QED
  BY <1>2, <1>3, <1>4, <1>5

LEMMA InvokeSteady ==
  ASSUME Steady, NEW r \in Requests, Invoke(r)
  PROVE  Steady'
<1>1. /\ phase = "serving" /\ call[r] = "new" /\ (variant.serial => Idle)
      /\ call' = [call EXCEPT ![r] = "enter"]
      /\ UNCHANGED <<serviceVars, owner, shmOf, answer, stdin, closed, stdout, workerVars>>
      /\ CallsOK /\ ServiceOK /\ PipesOK
  BY DEF Invoke, Steady, Typed
<1>2. PICK shape \in IF variant.shapes = {} THEN {<<>>} ELSE variant.shapes :
         body' = [body EXCEPT ![r] = shape]
  BY DEF Invoke
<1>3. shape \in Seq(Bytes) /\ shape \in IF HasPayload THEN variant.shapes ELSE {<<>>}
  <2>1. variant.shapes \subseteq Seq(Bytes)
    BY <1>1, PipeAssumption DEF ServiceOK, VariantType
  <2> QED
    BY <1>2, <2>1, EmptySeq DEF HasPayload
<1>4. body'[r] = shape
  BY <1>1, <1>2 DEF CallsOK
<1>5. CallsOK'
  BY <1>1, <1>2, <1>3 DEF CallsOK, Busy
<1>6. /\ \A q \in Requests : call'[q] = IF q = r THEN "enter" ELSE call[q]
      /\ HasPayload' = HasPayload
      /\ \A q \in Requests : q # r =>
           body'[q] = body[q] /\ Payload(q)' = Payload(q) /\ Inline(q)' = Inline(q)
      /\ \A q \in Requests : Active(q)' = Active(q) /\ Written(q)' = Written(q)
  BY <1>1, InvokeMoves
<1>7. OneAtATime'
  <2>1. \A p, q \in Requests : Active(p)' /\ Active(q)' => p = q
    BY <1>6 DEF Steady, OneAtATime
  <2>2. variant'.locked => \A q \in Requests : Active(q)' <=> owner' = q
    BY <1>1, <1>6 DEF Steady, OneAtATime, serviceVars
  <2>3. variant'.serial => \A p, q \in Requests : call'[p] \in Busy /\ call'[q] \in Busy => p = q
    BY <1>1, <1>6 DEF Idle, serviceVars
  <2> QED
    BY <2>1, <2>2, <2>3 DEF OneAtATime, Busy
<1>8. Delivered'
  <2> SUFFICES ASSUME NEW q \in Requests
               PROVE  /\ call'[q] # "new" => body'[q] \in IF HasPayload THEN variant.shapes ELSE {<<>>}
                      /\ Active(q)' /\ HasPayload /\ ~Inline(q)' => shmOf' = q
                      /\ call'[q] = "payload" => Inline(q)'
    BY <1>1, <1>6 DEF Delivered, serviceVars
  <2>1. CASE q = r
    BY <1>3, <1>4, <1>6, <2>1 DEF Active
  <2>2. CASE q # r
    BY <1>1, <1>6, <2>2 DEF Steady, Delivered
  <2> QED
    BY <2>1, <2>2
<1> QED
  BY <1>1, <1>5, <1>7, <1>8, CallTyped DEF ServiceOK, PipesOK

\* Nobody is between the header and the reply when a request enters.
LEMMA NobodyActive ==
  ASSUME Steady, \A v \in Variants : Sound(v), NEW r \in Requests, Enter(r)
  PROVE  \A q \in Requests : ~Active(q)
<1>1. call[r] = "enter" /\ (variant.locked => owner = NoOne)
  BY DEF Enter, MayEnter
<1>2. (variant.locked \/ variant.serial) /\ NoOne \notin Requests
  BY ServiceFact DEF Steady, Typed, Sound, NoOne, Requests
<1>3. CASE variant.locked
  BY <1>1, <1>2, <1>3 DEF Steady, OneAtATime
<1>4. CASE variant.serial
  <2>1. \A q \in Requests : Active(q) => q = r
    BY <1>1, <1>4 DEF Steady, OneAtATime, Active, Busy
  <2> QED
    BY <1>1, <2>1 DEF Active
<1> QED
  BY <1>2, <1>3, <1>4

LEMMA EnterSteady ==
  ASSUME Steady, \A v \in Variants : Sound(v), NEW r \in Requests, Enter(r)
  PROVE  Steady'
<1>1. /\ phase = "serving" /\ call[r] = "enter"
      /\ owner' = IF variant.locked THEN r ELSE owner
      /\ shmOf' = IF HasPayload /\ ~Inline(r) THEN r ELSE shmOf
      /\ call' = [call EXCEPT ![r] = "header"]
      /\ UNCHANGED <<serviceVars, body, answer, stdin, closed, stdout, workerVars>>
      /\ CallsOK /\ ServiceOK /\ PipesOK
  BY DEF Enter, Steady, Typed
<1>2. \A q \in Requests : call'[q] = IF q = r THEN "header" ELSE call[q]
  BY <1>1 DEF CallsOK
<1>3. \A q \in Requests : ~Active(q)
  BY NobodyActive
<1>4. (\A q \in Requests : Active(q)' => q = r) /\ Active(r)'
  BY <1>2, <1>3 DEF Active
<1>5. CallsOK' /\ shmOf' \in Requests \cup {NoOne}
  BY <1>1 DEF CallsOK, ServiceOK, Busy
<1>6. HasPayload' = HasPayload /\ \A q : Payload(q)' = Payload(q) /\ Inline(q)' = Inline(q)
  BY <1>1 DEF HasPayload, Payload, Inline, serviceVars
<1>7. OneAtATime'
  <2>1. \A p, q \in Requests : Active(p)' /\ Active(q)' => p = q
    BY <1>4
  <2>2. variant'.locked => \A q \in Requests : Active(q)' <=> owner' = q
    BY <1>1, <1>4 DEF serviceVars
  <2>3. variant'.serial => \A p, q \in Requests : call'[p] \in Busy /\ call'[q] \in Busy => p = q
    BY <1>1, <1>2 DEF Steady, OneAtATime, Busy, serviceVars
  <2> QED
    BY <2>1, <2>2, <2>3 DEF OneAtATime, Busy
<1>8. Delivered'
  <2> SUFFICES ASSUME NEW q \in Requests
               PROVE  /\ call'[q] # "new" => body[q] \in IF HasPayload THEN variant.shapes ELSE {<<>>}
                      /\ Active(q)' /\ HasPayload /\ ~Inline(q) => shmOf' = q
                      /\ call'[q] = "payload" => Inline(q)
    BY <1>1, <1>6 DEF Delivered, serviceVars
  <2>1. call[q] # "new" => body[q] \in IF HasPayload THEN variant.shapes ELSE {<<>>}
    BY DEF Steady, Delivered
  <2>2. Active(q)' /\ HasPayload /\ ~Inline(q) => shmOf' = q
    BY <1>1, <1>4
  <2>3. call'[q] # "payload"
    BY <1>2, <1>3 DEF Active
  <2> QED
    BY <1>1, <1>2, <2>1, <2>2, <2>3
<1> QED
  BY <1>1, <1>5, <1>7, <1>8, CallTyped DEF PipesOK

\* Leaving on_invoke.
LEMMA ReturnSteady ==
  ASSUME Steady, NEW r \in Requests, Active(r), NEW m \in Replies, Return(r, m),
         UNCHANGED <<serviceVars, stdin, closed, workerVars>>, stdout' \in Seq(Replies)
  PROVE  Steady' /\ \A q \in Requests : ~Written(q)'
<1>1. /\ answer' = [answer EXCEPT ![r] = m] /\ call' = [call EXCEPT ![r] = "done"]
      /\ owner' = IF variant.locked THEN NoOne ELSE owner
      /\ UNCHANGED <<body, shmOf>> /\ CallsOK /\ ServiceOK /\ PipesOK /\ NoOne \notin Requests
  BY DEF Return, Steady, Typed, NoOne, Requests
<1>2. \A q \in Requests : call'[q] = IF q = r THEN "done" ELSE call[q]
  BY <1>1 DEF CallsOK
<1>3. \A q \in Requests : Active(q) => q = r
  BY OnlyOneTalks DEF Steady
<1>4. \A q \in Requests : ~Active(q)' /\ ~Written(q)'
  BY <1>2, <1>3 DEF Active, Written
<1>5. CallsOK'
  BY <1>1 DEF CallsOK, Busy
<1>6. HasPayload' = HasPayload /\ \A q : Payload(q)' = Payload(q) /\ Inline(q)' = Inline(q)
  BY <1>1 DEF HasPayload, Payload, Inline, serviceVars
<1>7. OneAtATime'
  <2>1. \A p, q \in Requests : Active(p)' /\ Active(q)' => p = q
    BY <1>4
  <2>2. variant'.locked => \A q \in Requests : Active(q)' <=> owner' = q
    BY <1>1, <1>4 DEF serviceVars
  <2>3. variant'.serial => \A p, q \in Requests : call'[p] \in Busy /\ call'[q] \in Busy => p = q
    BY <1>1, <1>2 DEF Steady, OneAtATime, Busy, serviceVars
  <2> QED
    BY <2>1, <2>2, <2>3 DEF OneAtATime, Busy
<1>8. Delivered'
  <2> SUFFICES ASSUME NEW q \in Requests
               PROVE  /\ call'[q] # "new" => body[q] \in IF HasPayload THEN variant.shapes ELSE {<<>>}
                      /\ call'[q] # "payload"
    BY <1>1, <1>4, <1>6 DEF Delivered, serviceVars
  <2>1. call[q] # "new" => body[q] \in IF HasPayload THEN variant.shapes ELSE {<<>>}
    BY DEF Steady, Delivered
  <2>2. call[r] # "new"
    BY DEF Active
  <2>3. call'[q] # "payload"
    BY <1>4 DEF Active
  <2> QED
    BY <1>2, <2>1, <2>2, <2>3
<1>9. Steady'
  BY <1>1, <1>5, <1>7, <1>8, CallTyped DEF ServiceOK, PipesOK
<1> QED
  BY <1>4, <1>9

\* Going on to the next write.
LEMMA WriteSteady ==
  ASSUME Steady, NEW r \in Requests, Active(r),
         NEW then \in {"payload", "await"}, call' = [call EXCEPT ![r] = then],
         UNCHANGED <<serviceVars, body, owner, shmOf, answer, closed, stdout, workerVars>>,
         then = "payload" => Inline(r), stdin' \in Seq(Tokens)
  PROVE  Steady'
<1>1. CallsOK /\ ServiceOK /\ PipesOK
  BY DEF Steady, Typed
<1>2. \A q \in Requests : call'[q] = IF q = r THEN then ELSE call[q]
  BY <1>1 DEF CallsOK
<1>3. \A q \in Requests : Active(q)' = Active(q)
  BY <1>2 DEF Active
<1>4. CallsOK'
  BY <1>1 DEF CallsOK, Busy
<1>5. HasPayload' = HasPayload /\ \A q : Payload(q)' = Payload(q) /\ Inline(q)' = Inline(q)
  BY DEF HasPayload, Payload, Inline, serviceVars
<1>6. OneAtATime'
  <2>1. \A p, q \in Requests : Active(p)' /\ Active(q)' => p = q
    BY <1>3 DEF Steady, OneAtATime
  <2>2. variant'.locked => \A q \in Requests : Active(q)' <=> owner' = q
    BY <1>3 DEF Steady, OneAtATime, serviceVars
  <2>3. variant'.serial => \A p, q \in Requests : call'[p] \in Busy /\ call'[q] \in Busy => p = q
    <3>1. \A q \in Requests : call'[q] \in Busy => call[q] \in Busy
      BY <1>2 DEF Active, Busy
    <3> QED
      BY <3>1 DEF Steady, OneAtATime, Busy, serviceVars
  <2> QED
    BY <2>1, <2>2, <2>3 DEF OneAtATime, Busy
<1>7. Delivered'
  <2> SUFFICES ASSUME NEW q \in Requests
               PROVE  /\ call'[q] # "new" => body[q] \in IF HasPayload THEN variant.shapes ELSE {<<>>}
                      /\ Active(q) /\ HasPayload /\ ~Inline(q) => shmOf = q
                      /\ call'[q] = "payload" => Inline(q)
    BY <1>3, <1>5 DEF Delivered, serviceVars
  <2> QED
    BY <1>2 DEF Steady, Delivered, Active
<1> QED
  BY <1>1, <1>4, <1>6, <1>7, CallTyped DEF ServiceOK, PipesOK

LEMMA OnInvokeSteady ==
  ASSUME Steady, \A v \in Variants : Sound(v), NEW r \in Requests, OnInvoke(r)
  PROVE  Steady'
<1>1. /\ CallsOK /\ Typed /\ stdin \in Seq(Tokens) /\ stdout \in Seq(Replies)
      /\ Error(r) \in Replies
  BY ReplyTypes, EmptySeq DEF Steady, Typed, PipesOK
<1>2. ASSUME NEW tokens \in Seq(Tokens), NEW then \in {"payload", "await"}, Active(r),
             then = "payload" => Inline(r), Write(r, tokens, then)
      PROVE  Steady'
  <2>1. UNCHANGED <<serviceVars, closed, stdout, workerVars>>
    BY <1>2 DEF Write
  <2>2. CASE Alive
    <3>1. stdin' = stdin \o tokens /\ call' = [call EXCEPT ![r] = then]
          /\ UNCHANGED <<body, owner, shmOf, answer>>
      BY <1>2, <2>2 DEF Write
    <3>2. stdin' \in Seq(Tokens)
      BY <1>1, <3>1, ConcatProperties
    <3> QED
      BY <1>2, <2>1, <3>1, <3>2, WriteSteady
  <2>3. CASE ~Alive
    <3>1. Return(r, Error(r)) /\ UNCHANGED stdin
      BY <1>2, <2>3 DEF Write
    <3> QED
      BY <1>1, <1>2, <2>1, <3>1, ReturnSteady
  <2> QED
    BY <2>2, <2>3
<1>3. CASE SendHeader(r)
  <2> DEFINE then == IF Inline(r) THEN "payload" ELSE "await"
  <2>1. Write(r, Line(r), then) /\ Active(r)
    BY <1>3 DEF SendHeader, Active
  <2>2. then \in {"payload", "await"} /\ (then = "payload" => Inline(r))
    OBVIOUS
  <2>3. Line(r) \in Seq(Tokens)
    BY LineFact
  <2> HIDE DEF then
  <2> QED
    BY <1>2, <2>1, <2>2, <2>3
<1>4. CASE SendPayload(r)
  <2>1. Write(r, Payload(r), "await") /\ Active(r)
    BY <1>4 DEF SendPayload, Active
  <2>2. Payload(r) \in Seq(Tokens)
    BY <1>1, RestFact
  <2> QED
    BY <1>2, <2>1, <2>2
<1>5. CASE AwaitReply(r)
  <2>1. Active(r) /\ UNCHANGED <<serviceVars, stdin, closed, workerVars>>
    BY <1>5 DEF AwaitReply, Active
  <2>2. CASE stdout # <<>> /\ Return(r, Head(stdout)) /\ stdout' = Tail(stdout)
    <3>1. Head(stdout) \in Replies /\ Tail(stdout) \in Seq(Replies)
      BY <1>1, <2>2, HeadTailProperties
    <3> QED
      BY <2>1, <2>2, <3>1, ReturnSteady
  <2>3. CASE Died(r) /\ UNCHANGED stdout
    BY <1>1, <2>1, <2>3, ReturnSteady DEF Died
  <2> QED
    BY <1>5, <2>2, <2>3 DEF AwaitReply
<1> QED
  BY <1>3, <1>4, <1>5, EnterSteady DEF OnInvoke

LEMMA StutterSteady ==
  ASSUME Steady, UNCHANGED vars
  PROVE  Steady'
<1>1. UNCHANGED <<serviceVars, callVars>>
  BY DEF vars
<1>2. ServiceOK' /\ CallsOK' /\ OneAtATime' /\ Delivered'
  BY <1>1, WorkerFrame
<1>3. PipesOK' /\ WorkerOK' /\ Mapped' /\ InHand'
  BY DEF Steady, Typed, PipesOK, WorkerOK, Mapped, InHand, vars, serviceVars, workerVars
<1> QED
  BY <1>2, <1>3 DEF Steady, Typed

LEMMA NextSteady ==
  ASSUME Steady, phase = "new" => Fresh, \A v \in Variants : Sound(v), [Next]_vars
  PROVE  Steady'
<1>1. CASE Service
  BY <1>1, ServiceSteady
<1>2. CASE Worker \/ Die
  BY <1>2, WorkerSteady
<1>3. CASE \E r \in Requests : Invoke(r) \/ OnInvoke(r)
  BY <1>3, InvokeSteady, OnInvokeSteady
<1>4. CASE UNCHANGED vars
  BY <1>4, StutterSteady
<1> QED
  BY <1>1, <1>2, <1>3, <1>4 DEF Next, Over

-----------------------------------------------------------------------------
(* What a step keeps while the conversation is intact *)

\* The parts of Steady and Agreed.
Coherent ==
    /\ Typed /\ OneAtATime /\ Delivered /\ Mapped /\ InHand
    /\ Len(stdout) <= 1 /\ Returned /\ Conversation

LEMMA CoherentFact == Coherent <=> Steady /\ Agreed
BY DEF Coherent, Steady, Agreed

\* Where the worker can be while its container is there.
LEMMA WorkerIs ==
  ASSUME Coherent, phase # "killed", Alive
  PROVE  /\ phase \in {"starting", "serving", "stopping"}
         /\ wpc = "boot" => phase = "starting" /\ stdout = <<>>
         /\ wpc \in {"load", "payload"} =>
              phase = "serving" /\ \E r \in Requests : Written(r) /\ AtPayload(r)
         /\ wpc = "handle" =>
              phase = "serving" /\ \E r \in Requests : Written(r) /\ AtHandle(r)
<1>1. phase \in {"new", "starting", "refused", "serving", "stopping", "stopped"}
  BY DEF Coherent, Typed, ServiceOK
<1>2. phase \in {"starting", "serving", "stopping"}
  BY <1>1 DEF Coherent, Conversation, Alive
<1>3. CASE phase = "starting"
  BY <1>3 DEF Coherent, Conversation, Alive
<1>4. CASE phase = "stopping"
  BY <1>4 DEF Coherent, Conversation, Alive
<1>5. CASE phase = "serving"
  <2>1. wpc \notin {"off", "boot", "exited"}
    BY <1>5 DEF Coherent, Conversation, Alive
  <2>2. ASSUME wpc \in {"load", "payload", "handle"}
        PROVE  \E r \in Requests : Written(r) /\ Talk(r)
    BY <1>5, <2>2 DEF Coherent, Conversation, Alive, Quiet
  <2>3. ASSUME NEW r \in Requests, Talk(r)
        PROVE  /\ wpc \in {"load", "payload"} => AtPayload(r)
               /\ wpc = "handle" => AtHandle(r)
    BY <2>1, <2>3 DEF Talk, AtLine, AtPayload, AtHandle, AtReply, AtEnd
  <2>4. wpc \in {"load", "payload"} => \E r \in Requests : Written(r) /\ AtPayload(r)
    BY <2>2, <2>3
  <2>5. wpc = "handle" => \E r \in Requests : Written(r) /\ AtHandle(r)
    BY <2>2, <2>3
  <2> QED
    BY <1>5, <2>1, <2>4, <2>5
<1> QED
  BY <1>2, <1>3, <1>4, <1>5

\* The worker serves on: what it does is the next line of the conversation.
LEMMA TalkGoesOn ==
  ASSUME Coherent, UNCHANGED <<serviceVars, callVars, closed>>, phase = "serving",
         NEW r \in Requests, Written(r), Talk(r)', wpc' \notin {"off", "boot"}
  PROVE  Conversation'
<1>1. phase' = "serving" /\ ~closed'
  BY DEF Coherent, Conversation, serviceVars
<1>2. UNCHANGED <<serviceVars, callVars>>
  OBVIOUS
<1>3. \A q : Written(q)' = Written(q)
  BY <1>2, SameWords
<1>4. \A q \in Requests : Written(q)' => q = r
  BY <1>3, OnlyOneTalks DEF Coherent, Written, Active
<1> QED
  BY <1>1, <1>3, <1>4 DEF Conversation

\* A reply of the worker while its container listens, and when it is gone.
LEMMA Responded ==
  ASSUME NEW m, Respond(m), stdout \in Seq(Replies)
  PROVE  /\ phase = "killed" => wpc' = "exited" /\ stdout' = stdout
         /\ phase # "killed" /\ stdout = <<>> =>
              wpc' = "line" /\ stdout' = <<m>> /\ stdout' # <<>> /\ Head(stdout') = m
BY DEF Respond

\* What the worker has to show: it is at most one reply ahead, and the conversation goes on.
LEMMA WorkerKeeps ==
  ASSUME Coherent, UNCHANGED <<serviceVars, callVars>>, Len(stdout') <= 1,
         phase # "killed" => Conversation'
  PROVE  Agreed'
<1>1. UNCHANGED <<serviceVars, callVars>>
  OBVIOUS
<1>2. \A r : Payload(r)' = Payload(r)
  BY <1>1, SameWords
<1>3. Returned'
  BY <1>2 DEF Coherent, Returned, Truthful, callVars
<1>4. Conversation'
  BY DEF Conversation, serviceVars
<1> QED
  BY <1>3, <1>4 DEF Agreed

\* A reply to a container that listens is the only one.
LEMMA OneReply ==
  ASSUME Coherent, NEW m, Respond(m), phase # "killed" => stdout = <<>>
  PROVE  Len(stdout') <= 1
<1>1. stdout \in Seq(Replies) /\ Len(stdout) <= 1
  BY DEF Coherent, Typed, PipesOK
<1>2. Len(<<m>>) <= 1
  OBVIOUS
<1> QED
  BY <1>1, <1>2, Responded

LEMMA BootStep ==
  ASSUME Coherent, Boot
  PROVE  Agreed'
<1>1. /\ wpc = "boot" /\ Alive /\ Len(stdout) <= 1
      /\ UNCHANGED <<serviceVars, callVars, stdin, closed>> /\ stdout \in Seq(Replies)
  BY DEF Boot, Alive, Coherent, Typed, PipesOK
<1>2. phase # "killed" => phase = "starting" /\ stdout = <<>>
  BY <1>1, WorkerIs
<1>3. phase # "killed" => Fresh /\ Fresh' /\ phase' = phase
  BY <1>1, <1>2 DEF Coherent, Conversation, Fresh, serviceVars, callVars
<1>4. CASE Respond(Ready)
  <2>1. Len(stdout') <= 1
    BY <1>2, <1>4, OneReply
  <2>2. phase # "killed" => wpc' = "line" /\ stdout' = <<Ready>>
    BY <1>1, <1>2, <1>4, Responded
  <2>3. Ready' = Ready
    BY DEF Ready, Reply
  <2>4. phase # "killed" => Conversation'
    BY <1>2, <1>3, <2>2, <2>3 DEF Conversation
  <2> QED
    BY <1>1, <2>1, <2>4, WorkerKeeps
<1>5. CASE wpc' = "exited" /\ UNCHANGED stdout
  <2>1. phase # "killed" => Conversation'
    BY <1>2, <1>3, <1>5 DEF Conversation
  <2> QED
    BY <1>1, <1>5, <2>1, WorkerKeeps
<1> QED
  BY <1>4, <1>5 DEF Boot

LEMMA EndOfInputStep ==
  ASSUME Coherent, EndOfInput
  PROVE  Agreed'
<1>1. /\ wpc = "line" /\ \A k \in DOMAIN stdin : stdin[k][1] # "nl"
      /\ UNCHANGED <<serviceVars, callVars, closed, stdout>> /\ closed /\ Len(stdout) <= 1
  BY DEF EndOfInput, Coherent
<1>2. phase = "killed"
  <2> SUFFICES ASSUME phase # "killed" PROVE FALSE
    OBVIOUS
  <2>1. phase \in {"starting", "serving", "stopping"}
    BY <1>1, WorkerIs DEF Alive
  <2>2. stdin = Line(NoOne)
    BY <1>1, <2>1 DEF Coherent, Conversation, Fresh
  <2>3. 2 \in DOMAIN Line(NoOne) /\ Line(NoOne)[2][1] = "nl"
    BY DEF Line, LineEnd
  <2> QED
    BY <1>1, <2>2, <2>3
<1> QED
  BY <1>1, <1>2, WorkerKeeps

\* A line is only read as the header of the request that talks, or of the shutdown.
LEMMA LineIs ==
  ASSUME Coherent, phase # "killed", wpc = "line", stdin # <<>>
  PROVE  \/ phase = "stopping" /\ stdin = Line(NoOne) \o <<>>
         \/ phase = "serving" /\ \E r \in Requests : Written(r) /\ AtLine(r)
<1>1. phase \in {"starting", "serving", "stopping"}
  BY WorkerIs DEF Alive
<1>2. CASE phase = "starting"
  BY <1>2 DEF Coherent, Conversation, Fresh
<1>3. CASE phase = "stopping"
  <2>1. stdin = Line(NoOne)
    BY <1>3 DEF Coherent, Conversation
  <2>2. Line(NoOne) \in Seq(Tokens)
    BY LineFact
  <2>3. Line(NoOne) \o <<>> = Line(NoOne)
    BY <2>2, ConcatEmptySeq
  <2> QED
    BY <1>3, <2>1, <2>3
<1>4. CASE phase = "serving"
  <2>1. \E r \in Requests : Written(r) /\ Talk(r)
    BY <1>4 DEF Coherent, Conversation, Quiet, Alive
  <2>2. ASSUME NEW r \in Requests, Talk(r) PROVE AtLine(r)
    BY <2>2 DEF Talk, AtPayload, AtHandle, AtReply, AtEnd
  <2> QED
    BY <1>4, <2>1, <2>2
<1> QED
  BY <1>1, <1>2, <1>3, <1>4

\* Reading the first line of a stream that begins with the header of q.
LEMMA ReadHeader ==
  ASSUME ReadLine, NEW q \in Requests \cup {NoOne}, NEW w \in Seq(Tokens), stdin = Line(q) \o w
  PROVE  Parse(<< <<"h", q>> >>) /\ stdin' = w
<1>1. /\ 2 \in DOMAIN stdin
      /\ \A k \in DOMAIN stdin : stdin[k][1] = "nl" /\ (\A j \in 1 .. k - 1 : stdin[j][1] # "nl") => k = 2
      /\ SubSeq(stdin, 1, 1) = << <<"h", q>> >> /\ SubSeq(stdin, 3, Len(stdin)) = w
  BY FirstLine
<1>2. PICK k \in DOMAIN stdin :
         /\ stdin[k][1] = "nl" /\ \A j \in 1 .. k - 1 : stdin[j][1] # "nl"
         /\ Parse(SubSeq(stdin, 1, k - 1))
         /\ stdin' = SubSeq(stdin, k + 1, Len(stdin))
  BY DEF ReadLine
<1>3. k = 2
  BY <1>1, <1>2
<1>4. k - 1 = 1 /\ k + 1 = 3
  BY <1>3
<1>5. Parse(SubSeq(stdin, 1, 1))
  BY <1>2, <1>4
<1>6. stdin' = SubSeq(stdin, 3, Len(stdin))
  BY <1>2, <1>4
<1> QED
  BY <1>1, <1>5, <1>6

LEMMA ParseHeader ==
  ASSUME NEW q \in Requests \cup {NoOne}, Parse(<< <<"h", q>> >>)
  PROVE  /\ UNCHANGED stdout
         /\ q = NoOne => wpc' = "exited" /\ wreq' = wreq
         /\ q \in Requests => wreq' = q /\ wpc' = IF variant.loadsFirst THEN "load" ELSE "payload"
<1>1. NoOne \notin Requests
  BY DEF NoOne, Requests
<1> QED
  BY <1>1, HeadersDiffer DEF Parse

LEMMA ReadLineStep ==
  ASSUME Coherent, ReadLine, phase # "killed"
  PROVE  Agreed'
<1>1. /\ wpc = "line" /\ UNCHANGED <<serviceVars, callVars, closed>>
      /\ Typed /\ Len(stdout) <= 1 /\ stdin # <<>>
  BY DEF ReadLine, Coherent
<1>2. CASE phase = "stopping" /\ stdin = Line(NoOne) \o <<>>
  <2>1. Parse(<< <<"h", NoOne>> >>)
    BY <1>2, EmptySeq, ReadHeader
  <2>2. stdout' = stdout /\ wpc' = "exited"
    BY <2>1, ParseHeader
  <2>3. Conversation'
    BY <1>1, <1>2, <2>2 DEF Coherent, Conversation, serviceVars
  <2> QED
    BY <1>1, <2>2, <2>3, WorkerKeeps
<1>3. CASE phase = "serving" /\ \E r \in Requests : Written(r) /\ AtLine(r)
  <2>1. PICK r \in Requests : Written(r) /\ AtLine(r)
    BY <1>3
  <2>2. stdin = Line(r) \o Rest(r) /\ stdout = <<>> /\ Rest(r) \in Seq(Tokens)
    BY <1>1, <2>1, RestFact DEF AtLine
  <2>3. Parse(<< <<"h", r>> >>) /\ stdin' = Rest(r)
    BY <2>2, ReadHeader
  <2>4. stdout' = stdout /\ wreq' = r /\ wpc' = IF variant.loadsFirst THEN "load" ELSE "payload"
    BY <2>3, ParseHeader
  <2>5. AtPayload(r)'
    <3>1. Rest(r)' = Rest(r) /\ variant' = variant
      BY <1>1, SameWords DEF serviceVars
    <3> QED
      BY <2>2, <2>3, <2>4, <3>1 DEF AtPayload
  <2>6. Conversation'
    BY <1>1, <1>3, <2>1, <2>4, <2>5, TalkGoesOn DEF Talk
  <2> QED
    BY <1>1, <2>4, <2>6, WorkerKeeps
<1> QED
  BY <1>1, <1>2, <1>3, LineIs

\* A line read for a container that is gone is not answered.
LEMMA ReadLineUnheard ==
  ASSUME Coherent, ReadLine, phase = "killed"
  PROVE  Agreed'
<1>1. PICK line : Parse(line)
  BY DEF ReadLine
<1>2. stdout' = stdout
  BY <1>1 DEF Parse, Respond
<1>3. UNCHANGED <<serviceVars, callVars>> /\ Len(stdout) <= 1
  BY DEF ReadLine, Coherent
<1> QED
  BY <1>2, <1>3, WorkerKeeps

\* A model that does not map: the request is answered, and as nothing goes inline, there is
\* nothing in stdin after its header.
LEMMA LoadStep ==
  ASSUME Coherent, Load, ~spoilt'
  PROVE  Agreed'
<1>1. /\ wpc = "load" /\ Alive /\ Typed /\ Len(stdout) <= 1 /\ stdout \in Seq(Replies)
      /\ UNCHANGED <<serviceVars, callVars, stdin, closed, wreq>>
  BY DEF Load, Alive, Coherent, Typed, PipesOK
<1>2. phase # "killed" => phase = "serving" /\ \E r \in Requests : Written(r) /\ AtPayload(r)
  BY <1>1, WorkerIs
<1>3. CASE wpc' = "payload" /\ UNCHANGED stdout
  <2>1. phase # "killed" => Conversation'
    <3> SUFFICES ASSUME phase # "killed" PROVE Conversation'
      OBVIOUS
    <3>1. PICK r \in Requests : Written(r) /\ AtPayload(r)
      BY <1>2
    <3>2. Rest(r)' = Rest(r) /\ variant' = variant
      BY <1>1, SameWords DEF serviceVars
    <3>3. AtPayload(r)'
      BY <1>1, <1>3, <3>1, <3>2 DEF AtPayload
    <3> QED
      BY <1>1, <1>2, <1>3, <3>1, <3>3, TalkGoesOn DEF Talk
  <2> QED
    BY <1>1, <1>3, <2>1, WorkerKeeps
<1>4. CASE Respond(Error(wreq)) /\ spoilt' = (spoilt \/ Inline(wreq))
  <2>1. phase # "killed" => stdout = <<>>
    BY <1>2 DEF AtPayload
  <2>2. Len(stdout') <= 1
    BY <1>4, <2>1, OneReply
  <2>3. phase # "killed" => Conversation'
    <3> SUFFICES ASSUME phase # "killed" PROVE Conversation'
      OBVIOUS
    <3>1. PICK r \in Requests : Written(r) /\ AtPayload(r)
      BY <1>2
    <3>2. wreq = r /\ ~Inline(r)
      BY <1>4, <3>1 DEF AtPayload
    <3>3. call[r] = "await" /\ stdin = <<>>
      BY <3>1, <3>2 DEF Coherent, Delivered, Written, AtPayload, Rest
    <3>4. wpc' = "line" /\ stdout' # <<>> /\ Head(stdout') = Error(r)
      BY <1>1, <1>4, <2>1, <3>2, Responded
    <3>5. Truthful(Head(stdout), r)' /\ call' = call
      BY <1>1, <3>4 DEF Truthful, Error, callVars
    <3>6. AtReply(r)'
      BY <1>1, <3>3, <3>4, <3>5 DEF AtReply, Replied
    <3> QED
      BY <1>1, <1>2, <3>1, <3>4, <3>6, TalkGoesOn DEF Talk
  <2> QED
    BY <1>1, <2>2, <2>3, WorkerKeeps
<1> QED
  BY <1>3, <1>4 DEF Load

LEMMA HandleStep ==
  ASSUME Coherent, Handle
  PROVE  Agreed'
<1>1. /\ wpc = "handle" /\ Alive /\ stdout \in Seq(Replies)
      /\ UNCHANGED <<serviceVars, callVars, stdin, closed>>
  BY DEF Handle, Alive, Coherent, Typed, PipesOK
<1>2. phase # "killed" => phase = "serving" /\ \E r \in Requests : Written(r) /\ AtHandle(r)
  BY <1>1, WorkerIs
<1>3. PICK m \in {Reply(wreq, wdata), Error(wreq)} : Respond(m)
  BY DEF Handle
<1>4. phase # "killed" => stdout = <<>>
  BY <1>2 DEF AtHandle
<1>5. Len(stdout') <= 1
  BY <1>3, <1>4, OneReply
<1>6. phase # "killed" => Conversation'
  <2> SUFFICES ASSUME phase # "killed" PROVE Conversation'
    OBVIOUS
  <2>1. PICK r \in Requests : Written(r) /\ AtHandle(r)
    BY <1>2
  <2>2. call[r] = "await" /\ wreq = r /\ wdata = Payload(r) /\ stdin = <<>>
    BY <2>1 DEF AtHandle
  <2>3. wpc' = "line" /\ stdout' # <<>> /\ Head(stdout') = m
    BY <1>1, <1>3, <1>4, Responded
  <2>4. m.of = r /\ (m.ok => m.data = Payload(r))
    BY <1>3, <2>2 DEF Reply, Error
  <2>5. Payload(r)' = Payload(r) /\ call' = call
    BY <1>1, SameWords DEF callVars
  <2>6. Truthful(Head(stdout), r)'
    BY <2>3, <2>4, <2>5 DEF Truthful
  <2>7. AtReply(r)'
    BY <1>1, <2>2, <2>3, <2>5, <2>6 DEF AtReply, Replied
  <2> QED
    BY <1>1, <1>2, <2>1, <2>3, <2>7, TalkGoesOn DEF Talk
<1> QED
  BY <1>1, <1>5, <1>6, WorkerKeeps

LEMMA DieStep ==
  ASSUME Coherent, Die
  PROVE  Agreed'
<1>1. /\ wpc' = "exited" /\ Alive /\ Typed
      /\ UNCHANGED <<serviceVars, callVars, stdin, closed, stdout, shmSeen, wreq, wdata>>
      /\ stdin \in Seq(Tokens) /\ stdout \in Seq(Replies) /\ Len(stdout) <= 1
      /\ wreq \in Requests \cup {NoOne} /\ wdata \in Seq(Tokens)
  BY DEF Die, Alive, Coherent, Typed, PipesOK, WorkerOK
<1>2. phase # "killed" => Conversation'
  <2> SUFFICES ASSUME phase # "killed" PROVE Conversation'
    OBVIOUS
  <2>1. phase \in {"starting", "serving", "stopping"} /\ phase' = phase
    BY <1>1, WorkerIs DEF serviceVars
  <2>2. CASE phase = "starting"
    <3>1. Fresh' /\ Ready' = Ready
      BY <1>1, <2>2 DEF Coherent, Conversation, Fresh, callVars, Ready, Reply
    <3> QED
      BY <1>1, <2>1, <2>2, <3>1 DEF Coherent, Conversation
  <2>3. CASE phase = "stopping"
    BY <1>1, <2>1, <2>3 DEF Coherent, Conversation
  <2>4. CASE phase = "serving" /\ \E r \in Requests : Written(r)
    <3>1. PICK r \in Requests : Written(r)
      BY <2>4
    <3>2. Talk(r)
      BY <2>4, <3>1 DEF Coherent, Conversation
    <3>3. stdout = <<>> \/ Replied(r)
      BY <3>2 DEF Talk, AtLine, AtPayload, AtHandle, AtReply, AtEnd
    <3>4. Payload(r)' = Payload(r) /\ call' = call
      BY <1>1, SameWords DEF callVars
    <3>5. AtEnd(r)'
      BY <1>1, <3>3, <3>4 DEF AtEnd, Replied, Truthful
    <3> QED
      BY <1>1, <2>4, <3>1, <3>5, TalkGoesOn DEF Talk
  <2>5. CASE phase = "serving" /\ ~\E r \in Requests : Written(r)
    <3>1. stdout = <<>> /\ ~closed
      BY <2>5 DEF Coherent, Conversation, Quiet
    <3>2. Quiet'
      BY <1>1, <3>1 DEF Quiet, Alive
    <3>3. \A r \in Requests : ~Written(r)'
      BY <1>1, <2>5, SameWords
    <3> QED
      BY <1>1, <2>1, <2>5, <3>1, <3>2, <3>3 DEF Conversation
  <2> QED
    BY <2>1, <2>2, <2>3, <2>4, <2>5
<1> QED
  BY <1>1, <1>2, WorkerKeeps

\* The payload of r in the buffer, read as far as it goes.
LEMMA BufferHolds ==
  ASSUME Typed, NEW r \in Requests, shmOf = r
  PROVE  Buffer(Len(body[r])) = Payload(r)
<1>1. DOMAIN body[r] = 1 .. Len(body[r])
  BY LenProperties DEF Typed, CallsOK
<1>2. Buffer(Len(body[r])) = [i \in 1 .. Len(body[r]) |-> Payload(r)[i]]
  BY <1>1 DEF Buffer
<1> QED
  BY <1>1, <1>2 DEF Payload

\* What the worker has taken is the payload of the request that talks, all of it.
LEMMA TakesItsOwn ==
  ASSUME Coherent, \A v \in Variants : Sound(v), TakePayload, phase = "serving",
         NEW r \in Requests, Written(r), AtPayload(r)
  PROVE  /\ call[r] = "await" /\ wpc' = "handle" /\ wreq' = r
         /\ stdin' = <<>> /\ stdout' = <<>> /\ wdata' = Payload(r)
<1>1. /\ Typed /\ wpc = "payload" /\ wreq = r /\ wreq' = r /\ stdin = Rest(r) /\ stdout = <<>>
      /\ ~closed
  BY DEF TakePayload, AtPayload, Coherent, Conversation
<1>2. body[r] \in Seq(Bytes) /\ Len(body[r]) \in Nat /\ DOMAIN body[r] = 1 .. Len(body[r])
  BY <1>1, LenProperties DEF Typed, CallsOK
<1>3. Payload(r) \in Seq(Tokens) /\ Len(Payload(r)) = Len(body[r])
  BY <1>1, RestFact
<1>4. ~Inline(r) => call[r] = "await" /\ stdin = <<>>
  BY <1>1 DEF Coherent, Delivered, Written, Rest
<1>5. CASE ~HasPayload
  <2>1. body[r] = <<>> /\ call[r] = "await" /\ stdin = <<>>
    BY <1>4, <1>5 DEF Inline, Coherent, Delivered, Written
  <2>2. Payload(r) = <<>>
    BY <1>3, <2>1, EmptySeq
  <2>3. wdata' = <<>> /\ wpc' = "handle" /\ stdin' = stdin /\ stdout' = stdout
    BY <1>5 DEF TakePayload
  <2> QED
    BY <1>1, <2>1, <2>2, <2>3
<1>6. CASE HasPayload /\ FromStdin
  <2>1. Len(body[r]) > 0
    <3>1. body[r] # <<>>
      BY <1>6, ServiceFact DEF Coherent, Typed, Delivered, Written, Sound
    <3> QED
      BY <1>2, <3>1, EmptySeq
  <2>2. Len(stdin) >= Len(body[r]) /\ Reads(Len(body[r])) /\ wpc' = "handle" /\ stdout' = stdout
    BY <1>1, <1>6 DEF TakePayload
  <2>3. stdin # <<>>
    BY <1>2, <2>1, <2>2
  <2>4. call[r] = "await" /\ stdin = Payload(r)
    BY <1>1, <2>3 DEF Rest
  <2>5. wdata' = SubSeq(Payload(r), 1, Len(Payload(r)))
    BY <1>3, <2>2, <2>4 DEF Reads
  <2>6. stdin' = SubSeq(Payload(r), Len(Payload(r)) + 1, Len(Payload(r)))
    BY <1>3, <2>2, <2>4 DEF Reads
  <2>7. wdata' = Payload(r)
    BY <1>3, <2>5, SubSeqFull
  <2>8. stdin' = <<>>
    <3> DEFINE n == Len(Payload(r))
    <3>1. n \in Nat
      BY <1>2, <1>3
    <3>2. stdin' = SubSeq(Payload(r), n + 1, n)
      BY <2>6
    <3> HIDE DEF n
    <3>3. n + 1 \in Int /\ n \in Int /\ n < n + 1
      BY <3>1
    <3>4. SubSeq(Payload(r), n + 1, n) = <<>>
      BY <3>3, SubSeqEmpty
    <3> QED
      BY <3>2, <3>4
  <2> QED
    BY <1>1, <2>2, <2>4, <2>7, <2>8
<1>7. CASE HasPayload /\ ~FromStdin
  <2>1. ~Inline(r)
    BY <1>1, <1>7 DEF FromStdin
  <2>2. shmOf = r
    BY <1>7, <2>1 DEF Coherent, Delivered, Written, Active
  <2>3. wdata' = Buffer(Len(body[r])) /\ wpc' = "handle" /\ stdin' = stdin /\ stdout' = stdout
    BY <1>1, <1>7 DEF TakePayload
  <2>4. wdata' = Payload(r)
    BY <1>1, <2>2, <2>3, BufferHolds
  <2> QED
    BY <1>1, <1>4, <2>1, <2>3, <2>4
<1> QED
  BY <1>5, <1>6, <1>7

LEMMA TakePayloadStep ==
  ASSUME Coherent, \A v \in Variants : Sound(v), TakePayload, phase # "killed"
  PROVE  Agreed'
<1>1. UNCHANGED <<serviceVars, callVars, closed>> /\ wpc = "payload" /\ Alive
  BY DEF TakePayload, Alive
<1>2. phase = "serving" /\ \E r \in Requests : Written(r) /\ AtPayload(r)
  BY <1>1, WorkerIs
<1>3. PICK r \in Requests : Written(r) /\ AtPayload(r)
  BY <1>2
<1>4. /\ call[r] = "await" /\ wpc' = "handle" /\ wreq' = r
      /\ stdin' = <<>> /\ stdout' = <<>> /\ wdata' = Payload(r)
  BY <1>2, <1>3, TakesItsOwn
<1>5. Payload(r)' = Payload(r) /\ call' = call
  BY <1>1, SameWords DEF callVars
<1>6. AtHandle(r)'
  BY <1>4, <1>5 DEF AtHandle
<1>7. Conversation'
  BY <1>1, <1>2, <1>3, <1>4, <1>6, TalkGoesOn DEF Talk
<1>8. Len(stdout') <= 1
  BY <1>4
<1> QED
  BY <1>1, <1>7, <1>8, WorkerKeeps

LEMMA TakePayloadUnheard ==
  ASSUME Coherent, TakePayload, phase = "killed"
  PROVE  Agreed'
<1>1. stdout' = stdout /\ UNCHANGED <<serviceVars, callVars>> /\ Len(stdout) <= 1
  BY DEF TakePayload, Respond, Reads, Coherent
<1> QED
  BY <1>1, WorkerKeeps

LEMMA WorkerStep ==
  ASSUME Coherent, \A v \in Variants : Sound(v), Worker \/ Die, ~spoilt'
  PROVE  Agreed'
BY BootStep, ReadLineStep, ReadLineUnheard, EndOfInputStep, LoadStep, TakePayloadStep,
   TakePayloadUnheard, HandleStep, DieStep DEF Worker

-----------------------------------------------------------------------------
(* The steps of SOAM and of on_invoke, while the conversation is intact *)

\* What the service has to show: the conversation.
LEMMA ServiceKeeps ==
  ASSUME Coherent, UNCHANGED callVars, Len(stdout') <= 1, Conversation'
  PROVE  Agreed'
<1>1. \A r : Payload(r)' = Payload(r)
  BY DEF Payload, callVars
<1>2. Returned'
  BY <1>1 DEF Coherent, Returned, Truthful, callVars
<1> QED
  BY <1>2 DEF Agreed

LEMMA StartStep ==
  ASSUME Coherent, Start
  PROVE  Agreed'
<1>1. /\ phase = "new" /\ phase' = "starting" /\ wpc' = "boot"
      /\ UNCHANGED <<callVars, stdin, closed, stdout>> /\ Len(stdout) <= 1
  BY DEF Start, Coherent
<1>2. Fresh /\ Fresh' /\ stdout = <<>>
  BY <1>1 DEF Coherent, Conversation, Fresh, callVars
<1>3. Conversation'
  BY <1>1, <1>2 DEF Conversation
<1> QED
  BY <1>1, <1>3, ServiceKeeps

LEMMA AwaitReadyStep ==
  ASSUME Coherent, AwaitReady
  PROVE  Agreed'
<1>1. /\ phase = "starting" /\ UNCHANGED <<variant, shmUp, callVars, stdin, closed, workerVars>>
      /\ stdin \in Seq(Tokens) /\ closed \in BOOLEAN /\ stdout \in Seq(Replies) /\ Len(stdout) <= 1
      /\ Fresh
  BY DEF AwaitReady, Coherent, Typed, PipesOK, Conversation
<1>2. CASE stdout # <<>> /\ stdout' = Tail(stdout) /\ phase' = "serving"
  <2>1. stdout = <<Ready>> /\ wpc \in {"line", "exited"}
    BY <1>1, <1>2 DEF Coherent, Conversation
  <2>2. stdout' = <<>>
    BY <1>2, <2>1
  <2>3. \A r \in Requests : ~Written(r)'
    BY <1>1 DEF Fresh, Written, callVars
  <2>4. Quiet'
    BY <1>1, <2>1, <2>2 DEF Fresh, Quiet, Alive, workerVars
  <2>5. Conversation'
    BY <1>1, <1>2, <2>1, <2>3, <2>4 DEF Conversation, Fresh, workerVars
  <2>6. stdout' \in Seq(Replies) /\ Len(stdout') <= 1
    BY <2>2, EmptySeq
  <2> QED
    BY <1>1, <1>2, <2>5, <2>6, ServiceKeeps
<1>3. CASE stdout = <<>> /\ wpc = "exited" /\ phase' = "refused" /\ UNCHANGED stdout
  <2>1. Conversation'
    BY <1>1, <1>3 DEF Conversation, Alive, workerVars
  <2> QED
    BY <1>1, <1>3, <2>1, ServiceKeeps
<1> QED
  BY <1>2, <1>3 DEF AwaitReady

\* Nobody talks between two invocations.
LEMMA QuietWhenIdle ==
  ASSUME Coherent, phase = "serving", \A r \in Requests : ~Written(r)
  PROVE  Quiet
BY DEF Coherent, Conversation

LEMMA StopStep ==
  ASSUME Coherent, Stop
  PROVE  Agreed'
<1>1. /\ phase = "serving" /\ UNCHANGED <<variant, shmUp, callVars, stdout, workerVars>>
      /\ stdin \in Seq(Tokens) /\ closed \in BOOLEAN /\ stdout \in Seq(Replies) /\ Len(stdout) <= 1
      /\ \A r \in Requests : ~Written(r)
  BY DEF Stop, Idle, Busy, Written, Coherent, Typed, PipesOK
<1>2. Quiet /\ wpc \notin {"off", "boot"}
  BY <1>1, QuietWhenIdle DEF Coherent, Conversation
<1>3. CASE Alive
  <2>1. phase' = "stopping" /\ stdin' = stdin \o Line(NoOne) /\ closed' = TRUE
    BY <1>3 DEF Stop
  <2>2. stdin' = Line(NoOne) /\ stdin' \in Seq(Tokens)
    <3>1. Line(NoOne) \in Seq(Tokens)
      BY LineFact
    <3>2. <<>> \o Line(NoOne) = Line(NoOne)
      BY <3>1, ConcatEmptySeq
    <3> QED
      BY <1>2, <1>3, <2>1, <3>1, <3>2 DEF Quiet
  <2>3. Conversation'
    <3>1. Line(NoOne)' = Line(NoOne)
      BY DEF Line, LineEnd
    <3> QED
      BY <1>1, <1>2, <1>3, <2>1, <2>2, <3>1 DEF Conversation, Quiet, workerVars
  <2> QED
    BY <1>1, <2>1, <2>2, <2>3, ServiceKeeps
<1>4. CASE ~Alive
  <2>1. phase' = "stopped" /\ UNCHANGED <<stdin, closed>>
    BY <1>4 DEF Stop
  <2>2. Conversation'
    BY <1>1, <1>4, <2>1 DEF Conversation, Alive, workerVars
  <2> QED
    BY <1>1, <2>1, <2>2, ServiceKeeps
<1> QED
  BY <1>3, <1>4

LEMMA StopWaitStep ==
  ASSUME Coherent, StopWait
  PROVE  Agreed'
<1>1. /\ phase = "stopping" /\ phase' = "stopped" /\ wpc' = "exited"
      /\ UNCHANGED <<variant, shmUp, callVars, stdin, closed, stdout, shmSeen, wreq, wdata>>
      /\ stdin \in Seq(Tokens) /\ closed \in BOOLEAN /\ stdout \in Seq(Replies) /\ Len(stdout) <= 1
  BY DEF StopWait, Coherent, Typed, PipesOK
<1>2. Conversation'
  BY <1>1 DEF Conversation, Alive
<1> QED
  BY <1>1, <1>2, ServiceKeeps

LEMMA KillStep ==
  ASSUME Coherent, Kill
  PROVE  Agreed'
<1>1. /\ phase \in {"starting", "serving"} /\ phase' = "killed" /\ closed' = TRUE
      /\ UNCHANGED <<variant, shmUp, callVars, stdin, stdout, workerVars>>
      /\ stdin \in Seq(Tokens) /\ stdout \in Seq(Replies) /\ Len(stdout) <= 1
  BY DEF Kill, Coherent, Typed, PipesOK
<1>2. Conversation'
  BY <1>1 DEF Conversation
<1> QED
  BY <1>1, <1>2, ServiceKeeps

LEMMA ServiceStep ==
  ASSUME Coherent, Service
  PROVE  Agreed'
<1>1. Coherent /\ Kill => Agreed'
  BY KillStep
<1> QED
  BY <1>1, StartStep, AwaitReadyStep, StopStep, StopWaitStep DEF Service

\* Nobody is between its header and its reply: the conversation of an idle instance.
LEMMA QuietGoesOn ==
  ASSUME Coherent, phase = "serving", UNCHANGED <<serviceVars, closed, workerVars>>,
         \A r \in Requests : ~Written(r)', Quiet'
  PROVE  Conversation'
BY DEF Coherent, Conversation, serviceVars, workerVars

LEMMA InvokeStep ==
  ASSUME Coherent, NEW r \in Requests, Invoke(r)
  PROVE  Agreed'
<1>1. /\ phase = "serving" /\ call[r] = "new" /\ Len(stdout) <= 1
      /\ UNCHANGED <<serviceVars, answer, stdin, closed, stdout, workerVars>>
  BY DEF Invoke, Coherent
<1>2. /\ \A q \in Requests : call'[q] = IF q = r THEN "enter" ELSE call[q]
      /\ \A q \in Requests : q # r => Payload(q)' = Payload(q) /\ Inline(q)' = Inline(q)
      /\ \A q \in Requests : Active(q)' = Active(q) /\ Written(q)' = Written(q)
  BY InvokeMoves DEF Coherent, Typed
<1>3. Returned'
  <2> SUFFICES ASSUME NEW q \in Requests, call'[q] = "done" PROVE Truthful(answer[q], q)'
    BY DEF Returned
  <2>1. q # r /\ call[q] = "done"
    BY <1>2
  <2>2. Truthful(answer[q], q)
    BY <2>1 DEF Coherent, Returned
  <2> QED
    BY <1>1, <1>2, <2>1, <2>2 DEF Truthful
<1>4. Conversation'
  <2>1. CASE \A q \in Requests : ~Written(q)
    <3>1. Quiet
      BY <1>1, <2>1, QuietWhenIdle
    <3>2. Quiet'
      BY <1>1, <3>1 DEF Quiet, Alive, workerVars
    <3> QED
      BY <1>1, <1>2, <2>1, <3>2, QuietGoesOn
  <2>2. CASE \E q \in Requests : Written(q)
    <3>1. PICK q \in Requests : Written(q)
      BY <2>2
    <3>2. q # r /\ Talk(q)
      BY <1>1, <3>1 DEF Written, Coherent, Conversation
    <3>3. Payload(q)' = Payload(q) /\ Rest(q)' = Rest(q) /\ call'[q] = call[q]
      BY <1>2, <3>2 DEF Rest
    <3>4. Replied(q)' = Replied(q)
      BY <1>1, <3>3 DEF Replied, Truthful
    <3>5. Line(q)' = Line(q)
      BY DEF Line, LineEnd
    <3>6. Talk(q)'
      BY <1>1, <3>2, <3>3, <3>4, <3>5
         DEF Talk, AtLine, AtPayload, AtHandle, AtReply, AtEnd, serviceVars, workerVars
    <3>7. \A p \in Requests : Written(p)' => p = q
      BY <1>2, <3>1, OnlyOneTalks DEF Coherent, Written, Active
    <3>8. phase' = "serving" /\ ~closed' /\ wpc' \notin {"off", "boot"}
      BY <1>1 DEF Coherent, Conversation, serviceVars, workerVars
    <3> QED
      BY <1>2, <3>1, <3>6, <3>7, <3>8 DEF Conversation
  <2> QED
    BY <2>1, <2>2
<1> QED
  BY <1>1, <1>3, <1>4 DEF Agreed

LEMMA EnterStep ==
  ASSUME Coherent, \A v \in Variants : Sound(v), NEW r \in Requests, Enter(r)
  PROVE  Agreed'
<1>1. /\ phase = "serving" /\ call' = [call EXCEPT ![r] = "header"] /\ Len(stdout) <= 1
      /\ UNCHANGED <<serviceVars, body, answer, stdin, closed, stdout, workerVars>> /\ CallsOK
  BY DEF Enter, Coherent, Typed
<1>2. \A q \in Requests : call'[q] = IF q = r THEN "header" ELSE call[q]
  BY <1>1 DEF CallsOK
<1>3. Returned'
  <2>1. \A q : Payload(q)' = Payload(q)
    BY <1>1 DEF Payload
  <2> QED
    BY <1>1, <1>2, <2>1 DEF Coherent, Returned, Truthful
<1>4. Conversation'
  <2>1. \A q \in Requests : ~Active(q)
    BY CoherentFact, NobodyActive
  <2>2. \A q \in Requests : ~Written(q) /\ ~Written(q)'
    BY <1>2, <2>1 DEF Written, Active
  <2>3. Quiet
    BY <1>1, <2>2, QuietWhenIdle
  <2>4. Quiet'
    BY <1>1, <2>3 DEF Quiet, Alive, workerVars
  <2> QED
    BY <1>1, <2>2, <2>4, QuietGoesOn
<1> QED
  BY <1>1, <1>3, <1>4 DEF Agreed

\* Leaving on_invoke with a truthful reply, and with both pipes empty behind it.
LEMMA ReturnStep ==
  ASSUME Coherent, phase = "serving", NEW r \in Requests, Active(r), NEW m \in Replies,
         Return(r, m), Truthful(m, r), UNCHANGED <<serviceVars, stdin, closed, workerVars>>,
         stdout' = <<>>, Alive => wpc = "line" /\ stdin = <<>>
  PROVE  Agreed'
<1>1. /\ answer' = [answer EXCEPT ![r] = m] /\ call' = [call EXCEPT ![r] = "done"]
      /\ UNCHANGED body /\ CallsOK
  BY DEF Return, Coherent, Typed
<1>2. /\ \A q \in Requests : call'[q] = IF q = r THEN "done" ELSE call[q]
      /\ \A q \in Requests : answer'[q] = IF q = r THEN m ELSE answer[q]
  BY <1>1 DEF CallsOK
<1>3. \A q \in Requests : ~Written(q)'
  BY EmptySeq, CoherentFact, ReturnSteady
<1>4. Returned'
  <2> SUFFICES ASSUME NEW q \in Requests, call'[q] = "done" PROVE Truthful(answer[q], q)'
    BY DEF Returned
  <2>1. Truthful(answer'[q], q)
    BY <1>2 DEF Coherent, Returned
  <2>2. Payload(q)' = Payload(q)
    BY <1>1 DEF Payload
  <2> QED
    BY <2>1, <2>2 DEF Truthful
<1>5. Conversation'
  <2>1. Quiet'
    BY DEF Quiet, Alive, workerVars
  <2> QED
    BY <1>3, <2>1, QuietGoesOn
<1>6. Len(stdout') <= 1
  BY EmptySeq
<1> QED
  BY <1>4, <1>5, <1>6 DEF Agreed

\* Going on to the next write: the request that talks has said what it says.
LEMMA WriteStep ==
  ASSUME Coherent, phase = "serving", NEW r \in Requests, Active(r),
         NEW then \in {"payload", "await"}, call' = [call EXCEPT ![r] = then],
         UNCHANGED <<serviceVars, body, answer, closed, stdout, workerVars>>, Talk(r)'
  PROVE  Agreed'
<1>1. CallsOK /\ Len(stdout') <= 1
  BY DEF Coherent, Typed
<1>2. \A q \in Requests : call'[q] = IF q = r THEN then ELSE call[q]
  BY <1>1 DEF CallsOK
<1>3. \A q \in Requests : Active(q)' = Active(q)
  BY <1>2 DEF Active
<1>4. \A q \in Requests : Written(q)' => q = r
  BY <1>3, OnlyOneTalks DEF Coherent, Written, Active
<1>5. Returned'
  <2>1. \A q : Payload(q)' = Payload(q)
    BY DEF Payload
  <2> QED
    BY <1>2, <2>1 DEF Coherent, Returned, Truthful
<1>6. Conversation'
  <2>1. phase' = "serving" /\ ~closed' /\ wpc' \notin {"off", "boot"} /\ Written(r)'
    BY <1>2 DEF Coherent, Conversation, Written, serviceVars, workerVars
  <2> QED
    BY <1>4, <2>1 DEF Conversation
<1> QED
  BY <1>1, <1>5, <1>6 DEF Agreed

LEMMA SendHeaderStep ==
  ASSUME Coherent, NEW r \in Requests, SendHeader(r)
  PROVE  Agreed'
<1>1. call[r] = "header" /\ phase = "serving" /\ UNCHANGED <<serviceVars, closed, stdout, workerVars>>
      /\ Typed /\ CallsOK
  BY DEF SendHeader, Write, Coherent, Typed
<1>2. Active(r) /\ \A q \in Requests : ~Written(q)
  <2>1. Active(r)
    BY <1>1 DEF Active
  <2>2. \A q \in Requests : Active(q) => q = r
    BY <2>1, OnlyOneTalks DEF Coherent
  <2> QED
    BY <1>1, <2>1, <2>2 DEF Active, Written
<1>3. Quiet
  BY <1>1, <1>2, QuietWhenIdle
<1>4. CASE Alive
  <2> DEFINE then == IF Inline(r) THEN "payload" ELSE "await"
  <2>1. /\ stdin' = stdin \o Line(r) /\ call' = [call EXCEPT ![r] = then]
        /\ UNCHANGED <<body, owner, shmOf, answer>>
    BY <1>4 DEF SendHeader, Write
  <2>2. then \in {"payload", "await"} /\ (then = "payload" => Inline(r))
    OBVIOUS
  <2>3. Line(r) \in Seq(Tokens) /\ stdin' = Line(r)
    <3>1. Line(r) \in Seq(Tokens) /\ stdin = <<>>
      BY <1>3, <1>4, LineFact DEF Quiet
    <3> QED
      BY <2>1, <3>1, ConcatEmptySeq
  <2>4. call'[r] = then
    BY <1>1, <2>1 DEF CallsOK
  <2>5. Rest(r)' = <<>>
    <3>1. Inline(r)' = Inline(r)
      BY <1>1, <2>1 DEF Inline, HasPayload, serviceVars
    <3> QED
      BY <2>4, <3>1 DEF Rest
  <2>6. Talk(r)'
    <3>1. Line(r) \o <<>> = Line(r)
      BY <2>3, ConcatEmptySeq
    <3>2. (Line(r) \o Rest(r))' = Line(r) \o <<>>
      BY <2>5 DEF Line, LineEnd
    <3> QED
      BY <1>1, <1>3, <1>4, <2>3, <3>1, <3>2 DEF Talk, AtLine, Quiet, workerVars
  <2> HIDE DEF then
  <2> QED
    BY <1>1, <1>2, <2>1, <2>2, <2>3, <2>6, WriteStep
<1>5. CASE ~Alive
  <2>1. Return(r, Error(r)) /\ stdin' = stdin
    BY <1>5 DEF SendHeader, Write
  <2>2. Error(r) \in Replies /\ Truthful(Error(r), r)
    BY ReplyTypes, EmptySeq DEF Truthful, Error
  <2> QED
    BY <1>1, <1>2, <1>3, <1>5, <2>1, <2>2, ReturnStep DEF Quiet
<1> QED
  BY <1>4, <1>5

LEMMA SendPayloadStep ==
  ASSUME Coherent, NEW r \in Requests, SendPayload(r)
  PROVE  Agreed'
<1>1. call[r] = "payload" /\ phase = "serving" /\ UNCHANGED <<serviceVars, closed, stdout, workerVars>>
      /\ Typed /\ CallsOK /\ wpc \notin {"off", "boot"}
  BY DEF SendPayload, Write, Coherent, Typed, Conversation
<1>2. Active(r) /\ Written(r) /\ Inline(r)
  BY <1>1 DEF Active, Written, Coherent, Delivered
<1>3. Talk(r) /\ Rest(r) = <<>> /\ ~Replied(r)
  BY <1>1, <1>2 DEF Coherent, Conversation, Rest, Replied
<1>4. Payload(r) \in Seq(Tokens)
  BY <1>1, RestFact
<1>5. CASE Alive
  <2>1. /\ stdin' = stdin \o Payload(r) /\ call' = [call EXCEPT ![r] = "await"]
        /\ UNCHANGED <<body, owner, shmOf, answer>>
    BY <1>5 DEF SendPayload, Write
  <2>2. Rest(r)' = Payload(r)
    <3>1. Inline(r)' = Inline(r) /\ Payload(r)' = Payload(r) /\ call'[r] = "await"
      BY <1>1, <2>1 DEF Inline, HasPayload, Payload, serviceVars, CallsOK
    <3> QED
      BY <1>2, <3>1 DEF Rest
  <2>3. AtLine(r) \/ AtPayload(r)
    BY <1>1, <1>3, <1>5 DEF Talk, AtHandle, AtReply, AtEnd, Alive
  <2>4. CASE AtLine(r)
    <3>1. Line(r) \in Seq(Tokens)
      BY LineFact
    <3>2. stdin = Line(r)
      BY <1>3, <2>4, <3>1, ConcatEmptySeq DEF AtLine
    <3>3. stdin' = Line(r) \o Payload(r) /\ stdin' \in Seq(Tokens)
      BY <1>4, <2>1, <3>1, <3>2, ConcatProperties
    <3>4. (Line(r) \o Rest(r))' = Line(r) \o Payload(r)
      BY <2>2 DEF Line, LineEnd
    <3>5. Talk(r)'
      BY <1>1, <2>4, <3>3, <3>4 DEF Talk, AtLine, workerVars
    <3> QED
      BY <1>1, <1>2, <2>1, <3>3, <3>5, WriteStep
  <2>5. CASE AtPayload(r)
    <3>1. stdin' = Payload(r)
      BY <1>3, <1>4, <2>1, <2>5, ConcatEmptySeq DEF AtPayload
    <3>2. Talk(r)'
      BY <1>1, <2>2, <2>5, <3>1 DEF Talk, AtPayload, workerVars, serviceVars
    <3> QED
      BY <1>1, <1>2, <1>4, <2>1, <3>1, <3>2, WriteStep
  <2> QED
    BY <2>3, <2>4, <2>5
<1>6. CASE ~Alive
  <2>1. Return(r, Error(r)) /\ stdin' = stdin
    BY <1>6 DEF SendPayload, Write
  <2>2. Error(r) \in Replies /\ Truthful(Error(r), r)
    BY ReplyTypes, EmptySeq DEF Truthful, Error
  <2>3. stdout = <<>>
    BY <1>3 DEF Talk, AtLine, AtPayload, AtHandle, AtReply, AtEnd
  <2> QED
    BY <1>1, <1>2, <1>6, <2>1, <2>2, <2>3, ReturnStep
<1> QED
  BY <1>5, <1>6

LEMMA AwaitReplyStep ==
  ASSUME Coherent, NEW r \in Requests, AwaitReply(r)
  PROVE  Agreed'
<1>1. call[r] = "await" /\ phase = "serving" /\ UNCHANGED <<serviceVars, stdin, closed, workerVars>>
      /\ Typed /\ stdout \in Seq(Replies) /\ Len(stdout) <= 1 /\ wpc \notin {"off", "boot"}
  BY DEF AwaitReply, Coherent, Typed, PipesOK, Conversation
<1>2. Active(r) /\ Talk(r)
  BY <1>1 DEF Active, Written, Coherent, Conversation
<1>3. CASE stdout # <<>> /\ Return(r, Head(stdout)) /\ stdout' = Tail(stdout)
  <2>1. AtReply(r) \/ (AtEnd(r) /\ Replied(r))
    BY <1>2, <1>3 DEF Talk, AtLine, AtPayload, AtHandle, AtEnd
  <2>2. Truthful(Head(stdout), r) /\ (Alive => wpc = "line" /\ stdin = <<>>)
    BY <2>1 DEF AtReply, AtEnd, Replied, Alive
  <2>3. Head(stdout) \in Replies /\ Tail(stdout) \in Seq(Replies) /\ Len(Tail(stdout)) = Len(stdout) - 1
    BY <1>1, <1>3, HeadTailProperties
  <2>4. Tail(stdout) = <<>>
    <3>1. Len(stdout) \in Nat \ {0}
      BY <1>1, <1>3, EmptySeq
    <3>2. Len(Tail(stdout)) = 0
      BY <1>1, <2>3, <3>1
    <3>3. Tail(stdout) # <<>> => Len(Tail(stdout)) \in Nat \ {0}
      BY <2>3, EmptySeq
    <3> QED
      BY <3>2, <3>3
  <2> QED
    BY <1>1, <1>2, <1>3, <2>2, <2>3, <2>4, ReturnStep
<1>4. CASE stdout = <<>> /\ ~Alive /\ Died(r) /\ UNCHANGED stdout
  <2>1. Error(r) \in Replies /\ Truthful(Error(r), r)
    BY ReplyTypes, EmptySeq DEF Truthful, Error
  <2> QED
    BY <1>1, <1>2, <1>4, <2>1, ReturnStep DEF Died
<1> QED
  BY <1>3, <1>4 DEF AwaitReply

LEMMA OnInvokeStep ==
  ASSUME Coherent, \A v \in Variants : Sound(v), NEW r \in Requests, OnInvoke(r)
  PROVE  Agreed'
BY EnterStep, SendHeaderStep, SendPayloadStep, AwaitReplyStep DEF OnInvoke

LEMMA StutterStep ==
  ASSUME Coherent, UNCHANGED vars
  PROVE  Agreed'
<1>1. UNCHANGED <<serviceVars, callVars>>
  BY DEF vars
<1>2. /\ \A r \in Requests : Written(r)' = Written(r) /\ Rest(r)' = Rest(r)
      /\ \A r : Payload(r)' = Payload(r)
  BY <1>1, SameWords
<1>3. /\ Ready' = Ready /\ Line(NoOne)' = Line(NoOne) /\ Fresh' = Fresh /\ Quiet' = Quiet
      /\ Alive' = Alive
  BY DEF Ready, Reply, Line, LineEnd, Fresh, Quiet, Alive, vars, callVars, workerVars
<1>4. ASSUME NEW r \in Requests, Talk(r) PROVE Talk(r)'
  <2>1. (Line(r) \o Rest(r))' = Line(r) \o Rest(r)
    BY <1>2 DEF Line, LineEnd
  <2>2. Replied(r)' = Replied(r)
    BY <1>2 DEF Replied, Truthful, vars, callVars
  <2> QED
    BY <1>2, <1>4, <2>1, <2>2 DEF Talk, AtLine, AtPayload, AtHandle, AtReply, AtEnd, vars,
         serviceVars, callVars, workerVars
<1>5. Conversation'
  BY <1>2, <1>3, <1>4 DEF Coherent, Conversation, vars, serviceVars, workerVars
<1>6. Len(stdout') <= 1
  BY DEF Coherent, vars
<1> QED
  BY <1>1, <1>5, <1>6, WorkerKeeps

LEMMA NextAgrees ==
  ASSUME Coherent, \A v \in Variants : Sound(v), [Next]_vars, ~spoilt'
  PROVE  Agreed'
<1>1. CASE Service
  BY <1>1, ServiceStep
<1>2. CASE Worker \/ Die
  BY <1>2, WorkerStep
<1>3. CASE \E r \in Requests : Invoke(r) \/ OnInvoke(r)
  BY <1>3, InvokeStep, OnInvokeStep
<1>4. CASE UNCHANGED vars
  BY <1>4, StutterStep
<1> QED
  BY <1>1, <1>2, <1>3, <1>4 DEF Next, Over

-----------------------------------------------------------------------------
(* The theorems *)

LEMMA InitIInv == Init => IInv
<1> SUFFICES ASSUME Init PROVE IInv
  OBVIOUS
<1>1. /\ <<>> \in Seq(Tokens) /\ <<>> \in Seq(Bytes) /\ <<>> \in Seq(Replies) /\ Len(<<>>) = 0
      /\ \A r \in Requests : Error(r) \in Replies
  BY ReplyTypes, EmptySeq
<1>2. Typed
  <2>1. ServiceOK /\ WorkerOK
    BY <1>1 DEF Init, ServiceOK, WorkerOK
  <2>2. CallsOK
    BY <1>1 DEF Init, CallsOK
  <2>3. PipesOK
    <3>1. stdin = <<>> /\ stdout = <<>> /\ closed = FALSE
      BY DEF Init
    <3> QED
      BY <1>1, <3>1 DEF PipesOK
  <2> QED
    BY <2>1, <2>2, <2>3 DEF Typed
<1>3. OneAtATime /\ Delivered /\ Returned
  <2>1. \A r \in Requests : call[r] = "new" /\ r # NoOne /\ owner = NoOne
    BY DEF Init, NoOne, Requests
  <2>2. OneAtATime
    BY <2>1 DEF OneAtATime, Active, Busy
  <2> QED
    BY <2>1, <2>2 DEF Delivered, Returned, Active
<1>4. Mapped /\ InHand /\ Conversation /\ Len(stdout) <= 1
  BY <1>1 DEF Init, Mapped, InHand, Conversation, Fresh
<1> QED
  BY <1>2, <1>3, <1>4 DEF Init, IInv, Steady, Agreed, Intact

\* What may leave a payload behind, and that a service starts once.
LEMMA OnlyLoadSpoils ==
  ASSUME [Next]_vars
  PROVE  /\ spoilt' = spoilt \/ Load
         /\ phase' = "new" => phase = "new"
<1>1. CASE Service
  BY <1>1 DEF Service, Start, AwaitReady, Stop, StopWait, Kill, workerVars
<1>2. CASE Worker \/ Die
  BY <1>2 DEF Worker, Die, Boot, ReadLine, EndOfInput, Load, TakePayload, Handle, serviceVars
<1>3. CASE \E r \in Requests : Invoke(r) \/ OnInvoke(r)
  BY <1>3 DEF Invoke, OnInvoke, Enter, SendHeader, SendPayload, Write, AwaitReply, serviceVars,
              workerVars
<1>4. CASE UNCHANGED vars
  BY <1>4 DEF vars, serviceVars, workerVars
<1> QED
  BY <1>1, <1>2, <1>3, <1>4 DEF Next, Over

LEMMA NextIInv ==
  ASSUME IInv, \A v \in Variants : Sound(v), [Next]_vars
  PROVE  IInv'
<1>1. phase = "new" => Intact /\ Fresh /\ wpc = "off"
  BY DEF IInv, Agreed, Conversation
<1>2. Steady'
  BY <1>1, NextSteady DEF IInv
<1>3. phase' = "new" => Intact'
  BY <1>1, OnlyLoadSpoils DEF Intact, Load
<1>4. Intact' => Agreed'
  <2> SUFFICES ASSUME Intact' PROVE Agreed'
    OBVIOUS
  <2>1. Intact
    BY OnlyLoadSpoils DEF Intact, Load
  <2>2. Coherent
    BY <2>1, CoherentFact DEF IInv
  <2> QED
    BY <2>2, NextAgrees DEF Intact
<1> QED
  BY <1>2, <1>3, <1>4 DEF IInv

\* Every state of a sound instance satisfies the invariant: one request at a time has the
\* pipes, with its payload in the buffer or on its way inline, and until a failed load leaves
\* a payload behind, the pipe is at one place of that request's exchange
\* (shard_wire.py:90-129, worker_io.py:77-115, akida_worker.py:105-136).

THEOREM PipeInvariant ==
  ASSUME \A v \in Variants : Sound(v)
  PROVE  Spec => []IInv
<1>1. Init => IInv
  BY InitIInv
<1>2. IInv /\ [Next]_vars => IInv'
  BY NextIInv
<1> QED
  BY <1>1, <1>2, PTL DEF Spec

\* Every variable keeps its type, and until a failed load leaves a payload behind, the worker
\* is never more than one reply ahead.
THEOREM PipeTypeCorrect ==
  ASSUME \A v \in Variants : Sound(v)
  PROVE  Spec => []TypeOK
<1>1. IInv => TypeOK
  BY DEF IInv, Steady, Agreed, TypeOK
<1> QED
  BY <1>1, PipeInvariant, PTL

\* Between two invocations nothing of the last one is left in the pipes, and the shutdown
\* request is the next thing the worker reads (shard_wire.py:119-127), whether or not there
\* is a buffer and whatever fits it, until a failed load leaves a payload behind.
THEOREM PipeStaysInStep ==
  ASSUME \A v \in Variants : Sound(v)
  PROVE  Spec => []InStep
<1>1. IInv => InStep
  <2> SUFFICES ASSUME IInv, Intact
               PROVE  /\ phase = "serving" /\ Idle =>
                            stdout = <<>> /\ (Alive => wpc = "line" /\ stdin = <<>>)
                      /\ phase = "stopping" =>
                            stdout = <<>> /\ (Alive => wpc = "line" /\ stdin = Line(NoOne))
    BY DEF InStep
  <2>1. Coherent
    BY CoherentFact DEF IInv
  <2>2. ASSUME phase = "serving" /\ Idle
        PROVE  stdout = <<>> /\ (Alive => wpc = "line" /\ stdin = <<>>)
    <3>1. \A r \in Requests : ~Written(r)
      BY <2>2 DEF Idle, Busy, Written
    <3> QED
      BY <2>1, <2>2, <3>1, QuietWhenIdle DEF Quiet
  <2>3. ASSUME phase = "stopping"
        PROVE  stdout = <<>> /\ (Alive => wpc = "line" /\ stdin = Line(NoOne))
    BY <2>1, <2>3 DEF Coherent, Conversation, Alive
  <2> QED
    BY <2>2, <2>3
<1> QED
  BY <1>1, PipeInvariant, PTL

-----------------------------------------------------------------------------
(* The refinement: what on_invoke does is the exchange SOAM expects *)

\* What became of an invocation; while the conversation is intact, an answered one was
\* answered with its own result or failed.
LEMMA StatusOf ==
  IInv => \A r \in Requests :
            /\ call[r] = "new" => Status[r] = "new"
            /\ call[r] \in Busy => Status[r] = "open"
            /\ call[r] = "done" => Status[r] \in {"own", "failed", "stray"}
            /\ call[r] = "done" /\ Intact => Status[r] \in {"own", "failed"}
<1> SUFFICES ASSUME IInv, NEW r \in Requests
             PROVE  /\ call[r] = "new" => Status[r] = "new"
                    /\ call[r] \in Busy => Status[r] = "open"
                    /\ call[r] = "done" => Status[r] \in {"own", "failed", "stray"}
                    /\ call[r] = "done" /\ Intact => Status[r] \in {"own", "failed"}
  OBVIOUS
<1>1. call[r] = "done" /\ Intact => Truthful(answer[r], r)
  BY DEF IInv, Agreed, Returned
<1>2. call[r] = "done" => answer[r].ok \in BOOLEAN
  BY DEF IInv, Steady, Typed, CallsOK, Replies
<1> QED
  BY <1>1, <1>2 DEF Status, Truthful, Busy

LEMMA StatusOfNext ==
  IInv' => \A r \in Requests :
             /\ call'[r] \in Busy => Status'[r] = "open"
             /\ call'[r] = "done" => Status'[r] \in {"own", "failed", "stray"}
             /\ call'[r] = "done" /\ Intact' => Status'[r] \in {"own", "failed"}
<1>1. (IInv => \A r \in Requests :
                 /\ call[r] = "new" => Status[r] = "new"
                 /\ call[r] \in Busy => Status[r] = "open"
                 /\ call[r] = "done" => Status[r] \in {"own", "failed", "stray"}
                 /\ call[r] = "done" /\ Intact => Status[r] \in {"own", "failed"})'
  BY StatusOf, PTL
<1> QED
  BY <1>1 DEF Busy

LEMMA StatusStays ==
  ASSUME NEW r \in Requests, UNCHANGED <<call[r], body[r], answer[r]>>
  PROVE  Status'[r] = Status[r]
<1>1. Payload(r)' = Payload(r)
  BY DEF Payload
<1> QED
  BY <1>1 DEF Status

LEMMA StatusMoves ==
  ASSUME NEW r \in Requests,
         \A q \in Requests : q # r => UNCHANGED <<call[q], body[q], answer[q]>>
  PROVE  Status' = [Status EXCEPT ![r] = Status'[r]]
<1>1. \A q \in Requests : q # r => Status'[q] = Status[q]
  BY StatusStays
<1>2. Status = [q \in Requests |-> Status[q]] /\ Status' = [q \in Requests |-> Status'[q]]
  BY DEF Status
<1> QED
  BY <1>1, <1>2

\* One request goes through on_invoke at a time, and a step of it opens the invocation,
\* leaves it open or closes it.
LEMMA CallStep ==
  ASSUME IInv, NEW r \in Requests, Invoke(r) \/ OnInvoke(r)
  PROVE  /\ \A q \in Requests : q # r => UNCHANGED <<call[q], body[q], answer[q]>>
         /\ \/ call[r] = "new" /\ call'[r] = "enter"
            \/ call[r] \in Busy /\ call'[r] \in Busy \cup {"done"}
         /\ Intact' = Intact
<1>1. CallsOK /\ Intact' = Intact
  <2>1. CallsOK
    BY DEF IInv, Steady, Typed
  <2>2. Intact' = Intact
    BY DEF OnInvoke, Invoke, Enter, SendHeader, SendPayload, Write, AwaitReply, Intact, workerVars
  <2> QED
    BY <2>1, <2>2
<1>2. CASE Invoke(r)
  BY <1>1, <1>2 DEF Invoke, CallsOK
<1>3. CASE Enter(r)
  BY <1>1, <1>3 DEF Enter, CallsOK, Busy
<1>4. CASE SendHeader(r)
  BY <1>1, <1>4 DEF SendHeader, Write, Return, CallsOK, Busy
<1>5. CASE SendPayload(r)
  BY <1>1, <1>5 DEF SendPayload, Write, Return, CallsOK, Busy
<1>6. CASE AwaitReply(r)
  BY <1>1, <1>6 DEF AwaitReply, Died, Return, CallsOK, Busy
<1> QED
  BY <1>2, <1>3, <1>4, <1>5, <1>6 DEF OnInvoke

LEMMA NextExchanges ==
  ASSUME IInv, IInv', [Next]_vars
  PROVE  [Exchanged!Next]_<<Status, Intact>>
<1>1. CASE \E r \in Requests : Invoke(r) \/ OnInvoke(r)
  <2>1. PICK r \in Requests : Invoke(r) \/ OnInvoke(r)
    BY <1>1
  <2>2. Status' = [Status EXCEPT ![r] = Status'[r]] /\ Intact' = Intact
    BY <2>1, CallStep, StatusMoves
  <2>3. /\ call'[r] \in Busy => Status'[r] = "open"
        /\ call'[r] = "done" => Status'[r] \in {"own", "failed", "stray"}
        /\ call'[r] = "done" /\ Intact' => Status'[r] \in {"own", "failed"}
    BY StatusOfNext
  <2>4. CASE call[r] = "new" /\ call'[r] = "enter"
    <3>1. Status[r] = "new" /\ Status'[r] = "open"
      BY <2>3, <2>4, StatusOf DEF Busy
    <3> QED
      BY <2>2, <3>1 DEF Exchanged!Next, Exchanged!Open
  <2>5. CASE call[r] \in Busy /\ call'[r] \in Busy
    <3>1. Status[r] = "open" /\ Status'[r] = "open"
      BY <2>3, <2>5, StatusOf
    <3>2. Status = [q \in Requests |-> Status[q]]
      BY DEF Status
    <3>3. Status' = Status
      BY <2>2, <3>1, <3>2
    <3> QED
      BY <2>2, <3>3
  <2>6. CASE call[r] \in Busy /\ call'[r] = "done"
    <3>1. Status[r] = "open" /\ Status'[r] \in Exchanged!Results
      BY <2>2, <2>3, <2>6, StatusOf DEF Exchanged!Results
    <3> QED
      BY <2>2, <3>1 DEF Exchanged!Next, Exchanged!Close
  <2> QED
    BY <2>1, <2>4, <2>5, <2>6, CallStep
<1>2. CASE UNCHANGED callVars
  <2>1. \A r \in Requests : Status'[r] = Status[r]
    BY <1>2, StatusStays DEF callVars
  <2>2. Status' = Status
    BY <2>1 DEF Status
  <2>3. Intact' = Intact \/ (Intact /\ Intact' = FALSE)
    <3>1. spoilt \in BOOLEAN /\ spoilt' \in BOOLEAN
      BY DEF IInv, Steady, Typed, WorkerOK
    <3>2. spoilt' = spoilt \/ spoilt' = (spoilt \/ Inline(wreq))
      BY OnlyLoadSpoils DEF Load
    <3> QED
      BY <3>1, <3>2 DEF Intact
  <2> QED
    BY <2>2, <2>3 DEF Exchanged!Next, Exchanged!Spoil
<1>3. Service \/ Worker \/ Die \/ UNCHANGED vars => UNCHANGED callVars
  BY DEF Service, Start, AwaitReady, Stop, StopWait, Kill, Die, Worker, Boot, ReadLine,
         EndOfInput, Load, TakePayload, Handle, vars, callVars
<1> QED
  BY <1>1, <1>2, <1>3 DEF Next, Over

\* A sound instance implements the exchange: an invocation that was opened is closed once,
\* and until a failed load leaves a payload behind, with the result of that very request or
\* with a failure (shard_wire.py:90-117, AkidaServiceContainer.py:108-128).

THEOREM PipeImplementsExchange ==
  ASSUME \A v \in Variants : Sound(v)
  PROVE  Spec => ImplementsExchange
<1>1. Init => Exchanged!Init
  <2> SUFFICES ASSUME Init PROVE Exchanged!Init
    OBVIOUS
  <2>1. \A r \in Requests : Status[r] = "new"
    BY DEF Init, Status
  <2>2. Status = [r \in Requests |-> Status[r]]
    BY DEF Status
  <2>3. Intact = TRUE
    BY DEF Init, Intact
  <2> QED
    BY <2>1, <2>2, <2>3 DEF Exchanged!Init
<1>2. IInv /\ IInv' /\ [Next]_vars => [Exchanged!Next]_<<Status, Intact>>
  BY NextExchanges
<1> QED
  BY <1>1, <1>2, PipeInvariant, PTL DEF Spec, ImplementsExchange, Exchanged!Spec
=============================================================================
