--------------------------- MODULE ServiceProofs ----------------------------
(***************************************************************************)
(* Proofs about the data services and the tool gateways: the event stream of*)
(* a workbench task, the restore of snapshots, the data lifecycle, the      *)
(* secrets and keys with their audit, the MCP gateway, the tool gateway, the*)
(* file gateway and web search.                                             *)
(***************************************************************************)
EXTENDS Integers, Sequences, Services, Gateways, ProofLemmas, TLAPS

-----------------------------------------------------------------------------
(* The event stream.                                                        *)

StreamType ==
    [step : {"closed", "generation", "read", "wait", "waiting", "done"}, generation : Nat,
     cursor : Nat, batches : Nat, set : BOOLEAN]

\* All that this process committed has been delivered, or its publication is due.
UpToDate(st) ==
    \/ \A n \in (st.cursor + 1)..lastSequence : n \in foreign
    \/ \E w \in Writers : writer[w] = "committed"

StreamInv ==
    /\ lastSequence \in Nat /\ version \in Nat
    /\ stream \in [Streams -> StreamType]
    /\ writer \in [Writers -> {"idle", "committed"}]
    /\ \A s \in Streams :
          /\ stream[s].generation <= version
          /\ stream[s].step = "waiting" => s \in waiters
          /\ \/ stream[s].step = "wait" /\ stream[s].generation = version
             \/ stream[s].step = "waiting" /\ ~stream[s].set
             => UpToDate(stream[s])

\* What has to be shown of a step that changes one stream, or none.
LEMMA OneStream ==
    ASSUME StreamInv, NEW s \in Streams, NEW st \in StreamType,
           stream' = [stream EXCEPT ![s] = st],
           UNCHANGED <<lastSequence, foreign, version, writer>>,
           \A x \in Streams \ {s} : x \in waiters => x \in waiters',
           st.generation <= version, st.step = "waiting" => s \in waiters',
           \/ st.step = "wait" /\ st.generation = version
           \/ st.step = "waiting" /\ ~st.set
           => UpToDate(st)
    PROVE  StreamInv'
<1>1. stream' \in [Streams -> StreamType]
  BY DEF StreamInv
<1>2. stream'[s] = st /\ \A x \in Streams \ {s} : stream'[x] = stream[x]
  BY DEF StreamInv
<1>3. ASSUME NEW x \in Streams
      PROVE  (/\ stream[x].generation <= version
              /\ stream[x].step = "waiting" => x \in waiters
              /\ \/ stream[x].step = "wait" /\ stream[x].generation = version
                 \/ stream[x].step = "waiting" /\ ~stream[x].set
                 => UpToDate(stream[x]))'
  <2>1. CASE x = s
    BY <1>2, <2>1 DEF UpToDate
  <2>2. CASE x # s
    BY <1>2, <2>2 DEF UpToDate, StreamInv
  <2> QED  BY <2>1, <2>2
<1> QED  BY <1>1, <1>3 DEF StreamInv

\* A commit of this process leaves its publication due; one of another process
\* is not for this one to deliver.
LEMMA Committing ==
    ASSUME StreamInv,
           \/ \E w \in Writers, terminal \in BOOLEAN : Stream!Append(w, terminal)
           \/ \E terminal \in BOOLEAN : Stream!ForeignAppend(terminal)
    PROVE  StreamInv'
<1>1. lastSequence' = lastSequence + 1 /\ version' = version /\ waiters' = waiters /\ stream' = stream
  BY DEF Stream!Append, Stream!ForeignAppend
<1>2. \/ foreign' = foreign /\ \E w \in Writers : writer' = [writer EXCEPT ![w] = "committed"]
      \/ foreign' = foreign \cup {lastSequence + 1} /\ writer' = writer
  BY DEF Stream!Append, Stream!ForeignAppend
<1>3. ASSUME NEW s \in Streams, UpToDate(stream[s]) PROVE UpToDate(stream[s])'
  <2>1. CASE foreign' = foreign /\ \E w \in Writers : writer' = [writer EXCEPT ![w] = "committed"]
    BY <2>1 DEF UpToDate, StreamInv
  <2>2. CASE foreign' = foreign \cup {lastSequence + 1} /\ writer' = writer
    <3>1. stream[s].cursor + 1 \in Nat /\ lastSequence \in Nat
      BY DEF StreamInv, StreamType
    <3>2. \A n \in (stream[s].cursor + 1)..(lastSequence + 1) :
             n \in (stream[s].cursor + 1)..lastSequence \/ n = lastSequence + 1
      BY <3>1
    <3> QED  BY <1>1, <1>3, <2>2, <3>2 DEF UpToDate
  <2> QED  BY <1>2, <2>1, <2>2
<1>4. lastSequence' \in Nat /\ writer' \in [Writers -> {"idle", "committed"}]
  BY <1>1, <1>2 DEF StreamInv
<1> QED  BY <1>1, <1>3, <1>4 DEF StreamInv

\* A publication moves the version on and sets whoever waits.
LEMMA Publishing ==
    ASSUME StreamInv, NEW w \in Writers, Stream!Publish(w)
    PROVE  StreamInv'
<1>1. /\ version' = version + 1 /\ waiters' = waiters
      /\ stream' = [s \in Streams |-> [stream[s] EXCEPT !.set = @ \/ s \in waiters]]
      /\ writer' = [writer EXCEPT ![w] = "idle"]
      /\ lastSequence' = lastSequence
  BY DEF Stream!Publish
<1>2. ASSUME NEW s \in Streams
      PROVE  /\ stream'[s] \in StreamType /\ stream'[s].step = stream[s].step
             /\ stream'[s].generation = stream[s].generation
             /\ s \in waiters => stream'[s].set
  <2> DEFINE b == stream[s].set \/ s \in waiters
  <2>1. stream'[s] = [stream[s] EXCEPT !.set = b] /\ b \in BOOLEAN
    BY <1>1
  <2>2. stream[s] \in StreamType
    BY DEF StreamInv
  <2> HIDE DEF b
  <2> QED  BY <2>1, <2>2 DEF StreamType, b
<1>3. stream' \in [Streams -> StreamType]
  BY <1>1, <1>2
<1>4. ASSUME NEW s \in Streams
      PROVE  /\ stream'[s].generation < version'
             /\ stream'[s].step = "waiting" => s \in waiters /\ stream'[s].set
  <2>1. stream[s].generation <= version /\ stream[s].generation \in Nat /\ version \in Nat
    BY DEF StreamInv, StreamType
  <2>2. stream'[s].step = "waiting" => s \in waiters
    BY <1>2 DEF StreamInv
  <2> QED  BY <1>1, <1>2, <2>1, <2>2
<1>5. version' \in Nat /\ writer' \in [Writers -> {"idle", "committed"}]
  BY <1>1 DEF StreamInv
<1>6. \A s \in Streams : stream'[s].generation \in Nat
  BY <1>2 DEF StreamType
<1> QED  BY <1>1, <1>3, <1>4, <1>5, <1>6 DEF StreamInv

\* The steps of one stream.
LEMMA Streaming ==
    ASSUME StreamInv, MaxEvents \in Nat, NEW s \in Streams,
           \/ \E after \in 0..MaxEvents : Stream!Open(s, after)
           \/ Stream!ReadGeneration(s) \/ Stream!ReadBatch(s) \/ Stream!Wait(s)
           \/ Stream!Wake(s) \/ Stream!Timeout(s) \/ Stream!Reconnect(s)
    PROVE  StreamInv'
<1> DEFINE st == stream[s]
<1>1. /\ st \in StreamType /\ stream \in [Streams -> StreamType] /\ version \in Nat
      /\ lastSequence \in Nat /\ st.generation <= version
      /\ st.step = "wait" /\ st.generation = version => UpToDate(st)
  BY DEF StreamInv
<1>2. Stream!Closed \in StreamType /\ Stream!Closed.generation = 0
  BY DEF Stream!Closed, StreamType
<1>3. CASE \E after \in 0..MaxEvents : Stream!Open(s, after)
  <2>1. PICK after \in Nat : Stream!Open(s, after)
    BY <1>3
  <2> DEFINE x == [Stream!Closed EXCEPT !.step = "generation", !.cursor = after]
  <2>2. x \in StreamType /\ x.generation <= version /\ x.step = "generation"
    <3>1. x \in StreamType /\ x.generation = 0 /\ x.step = "generation"
      BY <1>2 DEF StreamType
    <3> QED  BY <1>1, <3>1
  <2>3. stream' = [stream EXCEPT ![s] = x]
        /\ UNCHANGED <<lastSequence, foreign, version, writer, waiters>>
    BY <2>1 DEF Stream!Open
  <2> HIDE DEF x
  <2> QED  BY <2>2, <2>3, OneStream
<1>4. CASE Stream!Reconnect(s)
  <2> DEFINE x == [Stream!Closed EXCEPT !.step = "generation", !.cursor = st.cursor]
  <2>1. st.cursor \in Nat
    BY <1>1 DEF StreamType
  <2>2. x \in StreamType /\ x.generation <= version /\ x.step = "generation"
    <3> DEFINE c == st.cursor
    <3> HIDE DEF c
    <3>1. x = [Stream!Closed EXCEPT !.step = "generation", !.cursor = c] /\ c \in Nat
      BY <2>1 DEF c
    <3>2. x \in StreamType /\ x.generation = 0 /\ x.step = "generation"
      BY <1>2, <3>1 DEF StreamType
    <3> QED  BY <1>1, <3>2
  <2>3. stream' = [stream EXCEPT ![s] = x]
        /\ UNCHANGED <<lastSequence, foreign, version, writer, waiters>>
    BY <1>4 DEF Stream!Reconnect
  <2> HIDE DEF x
  <2> QED  BY <2>2, <2>3, OneStream
<1>5. CASE Stream!ReadGeneration(s)
  <2> DEFINE x == [st EXCEPT !.step = "read", !.generation = version]
  <2>1. x \in StreamType /\ x.generation <= version /\ x.step = "read"
    <3> HIDE DEF st
    <3>1. x \in StreamType /\ x.generation = version /\ x.step = "read"
      BY <1>1 DEF StreamType
    <3> QED  BY <1>1, <3>1
  <2>2. stream' = [stream EXCEPT ![s] = x]
        /\ UNCHANGED <<lastSequence, foreign, version, writer, waiters>>
    BY <1>5 DEF Stream!ReadGeneration
  <2> HIDE DEF x
  <2> QED  BY <2>1, <2>2, OneStream
<1>6. CASE Stream!ReadBatch(s)
  <2> DEFINE x == IF ended \/ ~bound THEN [st EXCEPT !.step = "done", !.cursor = lastSequence]
                  ELSE [st EXCEPT !.step = "wait", !.cursor = lastSequence, !.batches = @ + 1]
             more == st.batches + 1
  <2>1. more \in Nat
    BY <1>1 DEF StreamType
  <2>2. stream' = [stream EXCEPT ![s] = x]
        /\ UNCHANGED <<lastSequence, foreign, version, writer, waiters>>
    BY <1>6 DEF Stream!ReadBatch
  <2> HIDE DEF st
  <2>3. /\ x \in StreamType /\ x.generation = st.generation /\ x.step \in {"wait", "done"}
        /\ x.cursor = lastSequence
    <3>1. CASE ended \/ ~bound
      BY <1>1, <3>1 DEF StreamType
    <3>2. CASE ~(ended \/ ~bound)
      <4>1. x = [st EXCEPT !.step = "wait", !.cursor = lastSequence, !.batches = more]
        BY <3>2
      <4> HIDE DEF x, more
      <4> QED  BY <1>1, <2>1, <4>1 DEF StreamType
    <3> QED  BY <3>1, <3>2
  <2> HIDE DEF x
  <2>4. \A n \in (x.cursor + 1)..lastSequence : FALSE
    BY <1>1, <2>3
  <2>5. UpToDate(x)
    BY <2>4 DEF UpToDate
  <2> QED  BY <1>1, <2>2, <2>3, <2>5, OneStream DEF st
<1>7. ASSUME NEW x, x = Stream!Proceed(st)
      PROVE  x \in StreamType /\ x.generation = st.generation /\ x.step \in {"generation", "done"}
  <2> HIDE DEF st
  <2> DEFINE step == IF st.batches < MaxBatches THEN "generation" ELSE "done"
  <2>1. x = [st EXCEPT !.step = step, !.set = FALSE]
    BY <1>7 DEF Stream!Proceed
  <2>2. step \in {"generation", "done"}
    OBVIOUS
  <2> HIDE DEF step
  <2> QED  BY <1>1, <2>1, <2>2 DEF StreamType
<1>8. CASE Stream!Wait(s)
  <2>1. CASE version # st.generation
    <3> DEFINE x == Stream!Proceed(st)
    <3>1. stream' = [stream EXCEPT ![s] = x]
          /\ UNCHANGED <<lastSequence, foreign, version, writer, waiters>>
      BY <1>8, <2>1 DEF Stream!Wait
    <3>2. x \in StreamType /\ x.generation = st.generation /\ x.step \in {"generation", "done"}
      BY <1>7
    <3> HIDE DEF x
    <3> QED  BY <1>1, <3>1, <3>2, OneStream
  <2>2. CASE version = st.generation
    <3> DEFINE x == [st EXCEPT !.step = "waiting"]
    <3>1. /\ stream' = [stream EXCEPT ![s] = x] /\ waiters' = waiters \cup {s}
          /\ UNCHANGED <<lastSequence, foreign, version, writer>> /\ st.step = "wait"
      BY <1>8, <2>2 DEF Stream!Wait
    <3>2. UpToDate(st)
      BY <1>1, <2>2, <3>1
    <3> HIDE DEF st
    <3>3. x \in StreamType /\ x.generation = st.generation /\ x.cursor = st.cursor
      BY <1>1 DEF StreamType
    <3> HIDE DEF x
    <3>4. UpToDate(x)
      BY <3>2, <3>3 DEF UpToDate
    <3> QED  BY <1>1, <3>1, <3>3, <3>4, OneStream DEF st
  <2> QED  BY <2>1, <2>2
<1>9. CASE Stream!Wake(s)
  <2> DEFINE x == Stream!Proceed(st)
  <2>1. /\ stream' = [stream EXCEPT ![s] = x] /\ waiters' = waiters \ {s}
        /\ UNCHANGED <<lastSequence, foreign, version, writer>>
    BY <1>9 DEF Stream!Wake
  <2>2. x \in StreamType /\ x.generation = st.generation /\ x.step \in {"generation", "done"}
    BY <1>7
  <2> HIDE DEF x
  <2> QED  BY <1>1, <2>1, <2>2, OneStream
<1>10. CASE Stream!Timeout(s)
  <2> DEFINE x == [st EXCEPT !.step = "done", !.set = FALSE]
  <2>1. /\ stream' = [stream EXCEPT ![s] = x] /\ waiters' = waiters \ {s}
        /\ UNCHANGED <<lastSequence, foreign, version, writer>>
    BY <1>10 DEF Stream!Timeout
  <2> HIDE DEF st
  <2>2. x \in StreamType /\ x.generation = st.generation /\ x.step = "done"
    BY <1>1 DEF StreamType
  <2> HIDE DEF x
  <2> QED  BY <1>1, <2>1, <2>2, OneStream DEF st
<1> QED  BY <1>3, <1>4, <1>5, <1>6, <1>8, <1>9, <1>10

\* A stream of a workbench task that waits, and that no commit of this process is
\* about to wake, has delivered all that this process committed: no commit falls
\* between the read of a batch and the wait (WorkbenchRuntime.stream_events).
THEOREM NoWakeUpLost ==
    ASSUME MaxEvents \in Nat
    PROVE  Stream!Spec => []WaitingStreamIsComplete
<1>1. Stream!Init => StreamInv
  BY DEF Stream!Init, StreamInv, StreamType, Stream!Closed
<1>2. StreamInv /\ [Stream!Next]_(Stream!streamVars) => StreamInv'
  <2> SUFFICES ASSUME StreamInv, [Stream!Next]_(Stream!streamVars) PROVE StreamInv'
    OBVIOUS
  <2>1. CASE Stream!Next
    BY <2>1, Committing, Publishing, Streaming DEF Stream!Next
  <2>2. CASE UNCHANGED Stream!streamVars
    BY <2>2 DEF Stream!streamVars, StreamInv, UpToDate
  <2> QED  BY <2>1, <2>2
<1>3. StreamInv => WaitingStreamIsComplete
  BY DEF StreamInv, UpToDate, WaitingStreamIsComplete, Stream!WaitingStreamIsComplete
<1> QED  BY <1>1, <1>2, <1>3, PTL DEF Stream!Spec

-----------------------------------------------------------------------------
(* The restore of snapshots.                                                *)

\* Callers are told what is recorded, and a preview is decided once.
RestoreInv ==
    /\ answered \subseteq decided
    /\ \A x, y \in decided : x.preview = y.preview => x.outcome = y.outcome

\* record_decision.
LEMMA Deciding ==
    ASSUME RestoreInv, NEW p, NEW outcome, Back!Decide(p, outcome)
    PROVE  RestoreInv'
<1> DEFINE d == [preview |-> p, outcome |-> outcome]
<1>1. CASE \E x \in decided : x.preview = p /\ x.outcome # outcome
  BY <1>1 DEF Back!Decide, RestoreInv
<1>2. CASE \A x \in decided : x.preview = p => x.outcome = outcome
  <2>1. decided' = decided \cup {d} /\ answered' = answered \cup {d}
    BY <1>2 DEF Back!Decide
  <2>2. d.preview = p /\ d.outcome = outcome
    OBVIOUS
  <2> HIDE DEF d
  <2> QED  BY <1>2, <2>1, <2>2 DEF RestoreInv
<1> QED  BY <1>1, <1>2

\* No preview of a restore is told to be confirmed and told to be cancelled, however
\* confirmations, cancellations and the artifact store interleave.
THEOREM DecidedOnce == Back!Spec => []RestoreDecidedOnce
<1>1. Back!Init => RestoreInv
  BY DEF Back!Init, RestoreInv
<1>2. RestoreInv /\ [Back!Next]_(Back!restoreVars) => RestoreInv'
  <2> SUFFICES ASSUME RestoreInv, [Back!Next]_(Back!restoreVars) PROVE RestoreInv'
    OBVIOUS
  <2>1. CASE UNCHANGED <<decided, answered>>
    BY <2>1 DEF RestoreInv
  <2>2. CASE \E c \in Calls : Back!ReturnBranch(c)
    BY <2>2, Deciding DEF Back!ReturnBranch
  <2>3. CASE \E caller \in Callers, p \in shown : Back!Cancel(caller, p)
    BY <2>3, Deciding DEF Back!Cancel
  <2> QED  BY <2>1, <2>2, <2>3 DEF Back!Next, Back!restoreVars, Back!Tick, Back!Toggle,
              Back!CreateSnapshot, Back!PreviewIntent, Back!PreviewDirect, Back!Confirm,
              Back!Begin, Back!Matched, Back!CheckArtifact, Back!ReturnPreview
<1>3. RestoreInv => RestoreDecidedOnce
  BY DEF RestoreInv, RestoreDecidedOnce, Back!RestoreDecidedOnce
<1> QED  BY <1>1, <1>2, <1>3, PTL DEF Back!Spec

-----------------------------------------------------------------------------

-----------------------------------------------------------------------------
(* The data lifecycle.                                                      *)

Deletes == {"data.delete", "data.delete.force"}

\* The hash of a preview; without force, what it names is past its retention.
Ready(sha) ==
    /\ sha.kind = "preview"
    /\ ~sha.force => \A o \in sha.objects \cap Objects :
                        objects[o].state # "ABSENT" /\ objects[o].until <= now

\* A preview without force was made when the retention of its objects was over, and
\* approvals are for the hashes that were handed out, whatever callers make of the
\* previews; nothing but the state of a registered object changes.
LifecycleInv ==
    /\ now \in Nat
    /\ DOMAIN objects = Objects
    /\ \A o \in Objects : {"state", "until"} \subseteq DOMAIN objects[o] /\ objects[o].until \in Nat
    /\ \A p \in previews : Ready(p.sha)
    /\ \A a \in approvals : a.action \in Deletes => Ready(a.target)

\* What the checks of this module that refuse nothing say.
LEMMA LifeRefusal == \A rules : Life!FirstRefusal(rules) = FirstRefusal(rules) /\ Life!None = None
BY DEF Life!FirstRefusal, FirstRefusal, Life!None, None

LEMMA Loaded ==
    ASSUME NEW access, NEW targets, Life!LoadError(access, targets) = Life!None
    PROVE  \A o \in targets : objects[o].state = "ACTIVE" /\ objects[o].scope = access.scope
<1> DEFINE a == targets = {}
           b == \E o \in targets : objects[o].scope # access.scope
           e == \E o \in targets : objects[o].class > Life!Level[access.clearance]
           g == \E o \in targets : objects[o].state # "ACTIVE"
<1>1. a \in BOOLEAN /\ b \in BOOLEAN /\ e \in BOOLEAN /\ g \in BOOLEAN
  OBVIOUS
<1>2. FirstRefusal(<< <<a, "LIFECYCLE_TARGET_INVALID">>, <<b, "LIFECYCLE_SCOPE_DENIED">>,
                      <<e, "LIFECYCLE_CLASSIFICATION_DENIED">>,
                      <<g, "LIFECYCLE_OBJECT_NOT_ACTIVE">> >>) = None
  <2>1. Life!LoadError(access, targets) =
          Life!FirstRefusal(<< <<a, "LIFECYCLE_TARGET_INVALID">>, <<b, "LIFECYCLE_SCOPE_DENIED">>,
                      <<e, "LIFECYCLE_CLASSIFICATION_DENIED">>,
                      <<g, "LIFECYCLE_OBJECT_NOT_ACTIVE">> >>)
    BY Zenon DEF Life!LoadError
  <2> HIDE DEF a, b, e, g
  <2> QED  BY <2>1, LifeRefusal, Zenon
<1> HIDE DEF a, b, e, g
<1>3. /\ "LIFECYCLE_TARGET_INVALID" # None /\ "LIFECYCLE_SCOPE_DENIED" # None
      /\ "LIFECYCLE_CLASSIFICATION_DENIED" # None /\ "LIFECYCLE_OBJECT_NOT_ACTIVE" # None
  BY DEF None
<1>4. ~b /\ ~g
  BY <1>1, <1>2, <1>3, FourChecks
<1> QED  BY <1>4 DEF b, g

LEMMA Unheld ==
    ASSUME NEW targets, Life!HoldError(targets) = Life!None
    PROVE  \A o \in targets : ~Life!Held(o)
<1> DEFINE a == \E o \in targets : Life!Held(o)
<1>1. a \in BOOLEAN
  OBVIOUS
<1>2. Life!FirstRefusal(<< <<a, "LIFECYCLE_LEGAL_HOLD_ACTIVE">> >>) = Life!None
  BY DEF Life!HoldError
<1> HIDE DEF a
<1>3. ~a
  <2>1. "LIFECYCLE_LEGAL_HOLD_ACTIVE" # None
    BY DEF None
  <2> QED  BY <1>1, <1>2, <2>1, LifeRefusal, OneCheck
<1> QED  BY <1>3 DEF a

LEMMA Granted ==
    ASSUME NEW approval, NEW access, NEW action, NEW target,
           Life!ApprovalError(approval, access, action, target) = Life!None
    PROVE  /\ approval.scope = access.scope /\ approval.action = action
           /\ approval.target = target /\ Life!InForce(approval)
<1> DEFINE a == \/ approval.scope # access.scope
                \/ approval.action # action
                \/ approval.target # target
                \/ ~Life!InForce(approval)
<1>1. a \in BOOLEAN
  OBVIOUS
<1>2. Life!FirstRefusal(<< <<a, "LIFECYCLE_APPROVAL_INVALID">> >>) = Life!None
  BY DEF Life!ApprovalError
<1> HIDE DEF a
<1>3. ~a
  <2>1. "LIFECYCLE_APPROVAL_INVALID" # None
    BY DEF None
  <2> QED  BY <1>1, <1>2, <2>1, LifeRefusal, OneCheck
<1> QED  BY <1>3 DEF a

\* Steps that leave the registered objects alone but for their state.
LEMMA StateOnly ==
    ASSUME LifecycleInv, now' \in Nat, now <= now', previews' = previews,
           \A a \in approvals' : a.action \in Deletes =>
              a \in approvals \/ \E p \in previews : a.target = p.sha,
           DOMAIN objects' = Objects,
           \A o \in Objects :
              /\ {"state", "until"} \subseteq DOMAIN objects'[o] /\ objects'[o].until \in Nat
              /\ objects[o].state # "ABSENT" =>
                    objects'[o].state # "ABSENT" /\ objects'[o].until = objects[o].until
    PROVE  LifecycleInv'
<1> DEFINE Stays(sha) ==
             /\ sha.kind = "preview"
             /\ ~sha.force => \A o \in sha.objects \cap Objects :
                                 objects'[o].state # "ABSENT" /\ objects'[o].until <= now'
<1>1. ASSUME NEW sha, Ready(sha) PROVE Stays(sha)
  <2>1. sha.kind = "preview"
    BY <1>1 DEF Ready
  <2> SUFFICES ASSUME ~sha.force, NEW o \in sha.objects \cap Objects
               PROVE  objects'[o].state # "ABSENT" /\ objects'[o].until <= now'
    BY <2>1
  <2>2. objects[o].state # "ABSENT" /\ objects[o].until <= now
    BY <1>1 DEF Ready
  <2> QED  BY <2>2 DEF LifecycleInv
<1>2. (\A p \in previews : Ready(p.sha))'
  <2> SUFFICES ASSUME NEW p \in previews' PROVE Ready(p.sha)'
    OBVIOUS
  <2>1. Ready(p.sha)
    BY DEF LifecycleInv
  <2> QED  BY <1>1, <2>1 DEF Ready
<1>3. (\A a \in approvals : a.action \in Deletes => Ready(a.target))'
  <2> SUFFICES ASSUME NEW a \in approvals', a.action \in Deletes PROVE Ready(a.target)'
    OBVIOUS
  <2>1. Ready(a.target)
    BY DEF LifecycleInv
  <2> QED  BY <1>1, <2>1 DEF Ready
<1> QED  BY <1>2, <1>3 DEF LifecycleInv

LEMMA RegisterKeeps ==
    ASSUME DefaultDays \in Nat, AuditDays \in Nat, LifecycleInv,
           NEW access, NEW x \in Objects, NEW r, r.days \in Nat, Life!Register(access, x, r)
    PROVE  LifecycleInv' /\ \A o \in Objects : objects[o].state = "ACTIVE" => objects'[o] = objects[o]
<1> DEFINE obj == [state |-> "ACTIVE", scope |-> access.scope, type |-> r.type,
                   class |-> Life!Level[r.class], until |-> now + Life!Retention(r), key |-> r.key]
           days == Life!Retention(r)
<1>1. objects' = [objects EXCEPT ![x] = obj] /\ now' = now /\ previews' = previews
      /\ approvals' = approvals /\ Life!RegisterError(access, x, r) = Life!None
  BY DEF Life!Register
<1>2. days \in Nat
  BY DEF Life!Retention
<1>3. objects[x] = Life!Absent
  <2> DEFINE a == objects[x] # Life!Absent
             b == Life!Retention(r) > MaxDays
             auth == Life!AuthorizeError(access, "register")
             checks == Life!FirstRefusal(<< <<a, "LIFECYCLE_OBJECT_CONFLICT">>,
                                            <<b, "LIFECYCLE_RETENTION_INVALID">> >>)
  <2>1. a \in BOOLEAN /\ b \in BOOLEAN
    OBVIOUS
  <2>2. Life!RegisterError(access, x, r) = IF auth # Life!None THEN auth ELSE checks
    BY Zenon DEF Life!RegisterError
  <2>3. checks = Life!None
    <3> HIDE DEF auth, checks
    <3> QED  BY <1>1, <2>2
  <2> HIDE DEF a, b
  <2>4. ~a
    <3>1. "LIFECYCLE_OBJECT_CONFLICT" # None /\ "LIFECYCLE_RETENTION_INVALID" # None
      BY DEF None
    <3> QED  BY <2>1, <2>3, <3>1, LifeRefusal, TwoChecks
  <2> QED  BY <2>4 DEF a
<1>4. objects[x].state = "ABSENT"
  BY <1>3 DEF Life!Absent
<1>5. {"state", "until"} \subseteq DOMAIN obj /\ obj.until = now + days
  OBVIOUS
<1> HIDE DEF obj, days
<1>6. \A o \in Objects : objects'[o] = IF o = x THEN obj ELSE objects[o]
  BY <1>1 DEF LifecycleInv
<1>7. DOMAIN objects' = Objects /\ now \in Nat /\ obj.until \in Nat
  BY <1>1, <1>2, <1>5 DEF LifecycleInv
<1>8. \A o \in Objects :
         /\ {"state", "until"} \subseteq DOMAIN objects'[o] /\ objects'[o].until \in Nat
         /\ objects[o].state # "ABSENT" =>
               objects'[o].state # "ABSENT" /\ objects'[o].until = objects[o].until
  BY <1>4, <1>5, <1>6, <1>7 DEF LifecycleInv
<1>9. LifecycleInv'
  BY <1>1, <1>7, <1>8, StateOnly
<1> QED  BY <1>4, <1>6, <1>9

\* A preview without force finds the retention over.
LEMMA PreviewKeeps ==
    ASSUME LifecycleInv, NEW access, NEW targets, NEW force \in BOOLEAN,
           Life!PreviewDelete(access, targets, force)
    PROVE  LifecycleInv' /\ objects' = objects
<1> DEFINE a == ~force /\ \E o \in targets : now < objects[o].until
           auth == Life!AuthorizeError(access, "delete")
           load == Life!LoadError(access, targets)
           hold == Life!HoldError(targets)
           checks == Life!FirstRefusal(<< <<a, "LIFECYCLE_RETENTION_ACTIVE">> >>)
           sha == Life!OfPreview(targets, force)
           p == [scope |-> access.scope, objects |-> targets, force |-> force, sha |-> sha]
<1>1. /\ previews' = previews \cup {p} /\ now' = now /\ objects' = objects
      /\ approvals' = approvals
      /\ Life!PreviewError(access, targets, force) = Life!None
  BY DEF Life!PreviewDelete
<1>2. load = Life!None /\ checks = Life!None
  <2>1. Life!PreviewError(access, targets, force) =
          IF auth # Life!None THEN auth
          ELSE IF load # Life!None THEN load
          ELSE IF hold # Life!None THEN hold
          ELSE checks
    BY Zenon DEF Life!PreviewError
  <2> HIDE DEF auth, load, hold, checks
  <2> QED  BY <1>1, <2>1
<1>3. \A o \in targets : objects[o].state = "ACTIVE"
  BY <1>2, Loaded
<1>4. a \in BOOLEAN
  OBVIOUS
<1>5. ~a
  <2> HIDE DEF a
  <2>1. "LIFECYCLE_RETENTION_ACTIVE" # None
    BY DEF None
  <2> QED  BY <1>2, <1>4, <2>1, LifeRefusal, OneCheck
<1>6. ~force => \A o \in targets \cap Objects : objects[o].state # "ABSENT" /\ objects[o].until <= now
  BY <1>3, <1>5 DEF LifecycleInv
<1>7. p.sha = sha /\ sha.kind = "preview" /\ sha.objects = targets /\ sha.force = force
  BY DEF Life!OfPreview
<1> HIDE DEF p, sha
<1>8. Ready(p.sha)
  BY <1>6, <1>7 DEF Ready
<1> QED  BY <1>1, <1>8 DEF LifecycleInv, Ready

\* What RemovalIsGoverned says of one step.
Governed ==
    \A o \in Objects :
        objects[o].state = "ACTIVE" /\ objects'[o].state # "ACTIVE" =>
            ~Life!Held(o) /\ Life!Covered(o)

LEMMA DeleteKeeps ==
    ASSUME LifecycleInv, NEW access, NEW p, NEW approval \in approvals,
           Life!Delete(access, p, approval)
    PROVE  LifecycleInv' /\ Governed
<1> DEFINE auth == Life!AuthorizeError(access, "delete")
           action == IF p.force THEN "data.delete.force" ELSE "data.delete"
           allowed == Life!ApprovalError(approval, access, action, p.sha)
           e == [action |-> "DELETE", objects |-> p.objects, approval |-> approval.id]
<1>1. /\ Life!DeleteRequestError(access, p, approval) = Life!None
      /\ Life!LoadError(access, p.objects) = Life!None
      /\ Life!HoldError(p.objects) = Life!None
      /\ objects' = [o \in Objects |-> IF o \in p.objects
                       THEN [objects[o] EXCEPT !.state = "DELETED"] ELSE objects[o]]
      /\ \A c \in completed : c.sha # p.sha
      /\ \A o \in Objects \cap p.objects : removal'[o] = e
      /\ now' = now /\ previews' = previews /\ approvals' = approvals
  BY DEF Life!Delete, Life!Event
<1>2. allowed = Life!None
  <2>1. Life!DeleteRequestError(access, p, approval) =
          IF auth # Life!None THEN auth
          ELSE IF access.scope # p.scope THEN "LIFECYCLE_SCOPE_DENIED"
          ELSE allowed
    BY DEF Life!DeleteRequestError, Life!DeleteAction
  <2>2. "LIFECYCLE_SCOPE_DENIED" # Life!None
    BY DEF Life!None
  <2> HIDE DEF auth, allowed
  <2> QED  BY <1>1, <2>1, <2>2
<1>3. /\ approval.scope = access.scope /\ approval.action = action
      /\ approval.target = p.sha /\ Life!InForce(approval)
  BY <1>2, Granted
<1>4. e.action = "DELETE" /\ e.objects = p.objects /\ e.approval = approval.id
  OBVIOUS
<1>5. /\ \A o \in p.objects : ~Life!Held(o)
      /\ \A o \in p.objects : objects[o].state = "ACTIVE" /\ objects[o].scope = access.scope
  BY <1>1, Unheld, Loaded
<1>6. ASSUME NEW o \in Objects
      PROVE  /\ {"state", "until"} \subseteq DOMAIN objects'[o]
             /\ objects'[o].until = objects[o].until
             /\ objects'[o].state # objects[o].state => o \in p.objects
             /\ objects[o].state # "ABSENT" => objects'[o].state # "ABSENT"
  <2>1. {"state", "until"} \subseteq DOMAIN objects[o]
    BY DEF LifecycleInv
  <2>2. CASE o \in p.objects
    <3>1. objects'[o] = [objects[o] EXCEPT !.state = "DELETED"]
      BY <1>1, <2>2
    <3> QED  BY <2>1, <2>2, <3>1
  <2>3. CASE o \notin p.objects
    BY <1>1, <2>1, <2>3
  <2> QED  BY <2>2, <2>3
<1>7. DOMAIN objects' = Objects /\ now' \in Nat /\ now <= now'
  BY <1>1 DEF LifecycleInv
<1>8. \A o \in Objects : objects[o].until \in Nat
  BY DEF LifecycleInv
<1>9. LifecycleInv'
  BY <1>1, <1>6, <1>7, <1>8, StateOnly
<1>10. approval.action \in Deletes /\ Ready(approval.target)
  <2>1. approval.action \in Deletes
    BY <1>3 DEF Deletes
  <2> QED  BY <2>1 DEF LifecycleInv
<1> HIDE DEF e, action, allowed, auth
<1>11. Governed
  <2> SUFFICES ASSUME NEW o \in Objects, objects[o].state = "ACTIVE", objects'[o].state # "ACTIVE"
               PROVE  ~Life!Held(o) /\ Life!Covered(o)
    BY DEF Governed
  <2>1. o \in p.objects /\ removal'[o] = e
    BY <1>1, <1>6
  <2>2. ASSUME Life!AsApproved(e, approval), now < objects[o].until
        PROVE  approval.action = "data.delete.force"
    <3>1. e.objects = approval.target.objects
          /\ approval.action = IF approval.target.force THEN "data.delete.force" ELSE "data.delete"
      BY <2>2 DEF Life!AsApproved, Life!DeleteAction
    <3>2. CASE approval.target.force
      BY <3>1, <3>2
    <3>3. CASE ~approval.target.force
      <4>1. objects[o].until <= now
        BY <1>4, <1>10, <2>1, <3>1, <3>3 DEF Ready
      <4> QED  BY <1>1, <1>7, <1>8, <2>2, <4>1
    <3> QED  BY <3>2, <3>3
  <2>3. /\ o \in e.objects /\ e.approval = approval.id /\ e.action = "DELETE"
        /\ approval.scope = objects[o].scope /\ Life!InForce(approval)
        /\ approval.target.kind = "preview" /\ \A c \in completed : c.sha # approval.target
    BY <1>1, <1>3, <1>4, <1>5, <1>10, <2>1 DEF Ready
  <2> QED  BY <1>5, <1>10, <2>1, <2>2, <2>3 DEF Life!Covered, Deletes
<1> QED  BY <1>9, <1>11

LEMMA EraseKeeps ==
    ASSUME LifecycleInv, NEW access, NEW x \in Objects, NEW approval \in approvals,
           Life!CryptographicErase(access, x, approval)
    PROVE  LifecycleInv' /\ Governed
<1> DEFINE auth == Life!AuthorizeError(access, "erase")
           load == Life!LoadError(access, {x})
           hold == Life!HoldError({x})
           allowed == Life!ApprovalError(approval, access, "data.erase", Life!OfObject(x))
           checks == Life!FirstRefusal(<< <<objects[x].key # "own",
                                            "LIFECYCLE_OBJECT_KEY_REQUIRED">> >>)
           e == [action |-> "CRYPTO_ERASE", objects |-> {x}, approval |-> approval.id]
<1>1. /\ Life!EraseError(access, x, approval) = Life!None
      /\ objects' = [objects EXCEPT ![x].state = "CRYPTO_ERASED"]
      /\ removal'[x] = e
      /\ now' = now /\ previews' = previews /\ approvals' = approvals
  BY DEF Life!CryptographicErase, Life!Event
<1>2. hold = Life!None /\ load = Life!None /\ allowed = Life!None /\ ~(now < objects[x].until)
  <2>1. Life!EraseError(access, x, approval) =
          IF auth # Life!None THEN auth
          ELSE IF load # Life!None THEN load
          ELSE IF hold # Life!None THEN hold
          ELSE IF now < objects[x].until THEN "LIFECYCLE_RETENTION_ACTIVE"
          ELSE IF allowed # Life!None THEN allowed
          ELSE checks
    BY Zenon DEF Life!EraseError
  <2>2. "LIFECYCLE_RETENTION_ACTIVE" # Life!None
    BY DEF Life!None
  <2> HIDE DEF auth, load, hold, allowed, checks
  <2> QED  BY <1>1, <2>1, <2>2
<1>3. ~Life!Held(x) /\ objects[x].scope = access.scope
  <2>1. \A o \in {x} : ~Life!Held(o) /\ objects[o].scope = access.scope
    BY <1>2, Unheld, Loaded
  <2> QED  BY <2>1
<1>4. /\ approval.scope = access.scope /\ approval.action = "data.erase"
      /\ approval.target = Life!OfObject(x) /\ Life!InForce(approval)
  BY <1>2, Granted
<1>5. \A o \in Objects : objects'[o] =
          IF o = x THEN [objects[x] EXCEPT !.state = "CRYPTO_ERASED"] ELSE objects[o]
  BY <1>1 DEF LifecycleInv
<1>6. ASSUME NEW o \in Objects
      PROVE  /\ {"state", "until"} \subseteq DOMAIN objects'[o]
             /\ objects'[o].until = objects[o].until
             /\ objects'[o].state # objects[o].state => o = x
             /\ objects[o].state # "ABSENT" => objects'[o].state # "ABSENT"
  <2>1. {"state", "until"} \subseteq DOMAIN objects[o]
    BY DEF LifecycleInv
  <2>2. CASE o = x
    <3>1. objects'[o] = [objects[o] EXCEPT !.state = "CRYPTO_ERASED"]
      BY <1>5, <2>2
    <3> QED  BY <2>1, <2>2, <3>1
  <2>3. CASE o # x
    BY <1>5, <2>1, <2>3
  <2> QED  BY <2>2, <2>3
<1>7. DOMAIN objects' = Objects /\ now' \in Nat /\ now <= now'
  BY <1>1 DEF LifecycleInv
<1>8. \A o \in Objects : objects[o].until \in Nat
  BY DEF LifecycleInv
<1>9. LifecycleInv'
  BY <1>1, <1>6, <1>7, <1>8, StateOnly
<1>10. e.action = "CRYPTO_ERASE" /\ x \in e.objects /\ e.approval = approval.id
  OBVIOUS
<1> HIDE DEF e
<1>11. Life!Covered(x)
  BY <1>1, <1>2, <1>3, <1>4, <1>10 DEF Life!Covered
<1>12. Governed
  <2>1. \A o \in Objects : objects[o].state = "ACTIVE" /\ objects'[o].state # "ACTIVE" => o = x
    BY <1>6
  <2> QED  BY <1>3, <1>11, <2>1 DEF Governed
<1> QED  BY <1>9, <1>12

\* The other operations leave objects and previews alone; an approval of a deletion
\* is for the hash of a preview.
LEMMA OthersKeep ==
    ASSUME LifecycleInv,
           objects' = objects, previews' = previews, now' = now \/ now' = now + 1,
           \A a \in approvals' : a.action \in Deletes =>
              a \in approvals \/ \E p \in previews : a.target = p.sha
    PROVE  LifecycleInv' /\ Governed
<1>1. now' \in Nat /\ now <= now'
  BY DEF LifecycleInv
<1>2. LifecycleInv'
  BY <1>1, StateOnly DEF LifecycleInv
<1> QED  BY <1>2 DEF Governed

LEMMA LifecycleKeeps ==
    ASSUME DefaultDays \in Nat, AuditDays \in Nat, \A r \in Registrations : r.days \in Nat,
           LifecycleInv, Life!Next
    PROVE  LifecycleInv' /\ Governed
<1>1. ASSUME NEW access \in Accesses, NEW x \in Objects, NEW r \in Registrations,
             Life!Register(access, x, r)
      PROVE  LifecycleInv' /\ Governed
  BY <1>1, RegisterKeeps DEF Governed
<1>2. ASSUME NEW access \in Accesses, NEW targets \in PreviewTargets, NEW force \in BOOLEAN,
             Life!PreviewDelete(access, targets, force)
      PROVE  LifecycleInv' /\ Governed
  BY <1>2, PreviewKeeps DEF Governed
<1>3. CASE \E grant \in Grants :
             \/ \E o \in Objects, action \in {"data.hold.apply", "data.erase"} :
                  objects[o] # Life!Absent /\ Life!Approve(grant, action, Life!OfObject(o))
             \/ \E p \in previews, action \in Deletes : Life!Approve(grant, action, p.sha)
             \/ \E h \in holds : Life!Approve(grant, "data.hold.release", Life!OfHold(h))
  <2>1. PICK grant, action, target :
          /\ Life!Approve(grant, action, target)
          /\ action \in Deletes => \E p \in previews : target = p.sha
    BY <1>3 DEF Deletes
  <2> DEFINE id == Life!Cardinality(approvals) + 1
             expires == IF grant.brief THEN now + 1 ELSE 0
             a == [id |-> id, scope |-> grant.scope, action |-> action, target |-> target,
                   outcome |-> grant.outcome, decided |-> now, expires |-> expires]
  <2>2. /\ approvals' = approvals \cup {a} /\ objects' = objects /\ previews' = previews
        /\ now' = now
    BY <2>1 DEF Life!Approve
  <2>3. a.action = action /\ a.target = target
    OBVIOUS
  <2> HIDE DEF a
  <2> QED  BY <2>1, <2>2, <2>3, OthersKeep
<1>4. CASE \/ Life!Tick
           \/ \E access \in Accesses :
                \/ \E targets \in PreviewTargets : Life!Export(access, targets)
                \/ \E approval \in approvals :
                     \/ \E o \in Objects : Life!ApplyHold(access, o, approval)
                     \/ \E h \in holds : Life!ReleaseHold(access, h, approval)
  <2>1. /\ objects' = objects /\ previews' = previews /\ approvals' = approvals
        /\ now' = now \/ now' = now + 1
    BY <1>4 DEF Life!Tick, Life!Export, Life!ApplyHold, Life!ReleaseHold
  <2> QED  BY <2>1, OthersKeep
<1>5. CASE \E access \in Accesses, o \in Objects, approval \in approvals :
               Life!CryptographicErase(access, o, approval)
  BY <1>5, EraseKeeps
<1>6. CASE \E access \in Accesses, approval \in approvals :
             \E p \in Life!Presented(access) : Life!Delete(access, p, approval)
  BY <1>6, DeleteKeeps
<1> QED  BY <1>1, <1>2, <1>3, <1>4, <1>5, <1>6 DEF Life!Next, Deletes

\* Content is removed only from an object no hold protects and under an approval in
\* force that its event names, each hash of a preview removing once; what the preview
\* itself names is past its retention or was approved for forced deletion, whatever
\* previews callers present and whatever happens between the preview, the approval
\* and the deletion (DataLifecycleService.delete and cryptographic_erase).
THEOREM RemovalGoverned ==
    ASSUME DefaultDays \in Nat, AuditDays \in Nat, \A r \in Registrations : r.days \in Nat
    PROVE  Life!Spec => RemovalIsGoverned
<1>1. Life!Init => LifecycleInv
  BY DEF Life!Init, LifecycleInv, Life!Absent
<1>2. LifecycleInv /\ [Life!Next]_(Life!lifecycleVars) => LifecycleInv'
  <2> SUFFICES ASSUME LifecycleInv, [Life!Next]_(Life!lifecycleVars) PROVE LifecycleInv'
    OBVIOUS
  <2>1. CASE Life!Next
    BY <2>1, LifecycleKeeps
  <2>2. CASE UNCHANGED Life!lifecycleVars
    BY <2>2 DEF Life!lifecycleVars, LifecycleInv, Ready
  <2> QED  BY <2>1, <2>2
<1>3. LifecycleInv /\ [Life!Next]_(Life!lifecycleVars) => [Governed]_(Life!lifecycleVars)
  BY LifecycleKeeps
<1>4. [][Governed]_(Life!lifecycleVars) => RemovalIsGoverned
  BY PTL DEF Governed, RemovalIsGoverned, Life!RemovalIsGoverned
<1> QED  BY <1>1, <1>2, <1>3, <1>4, PTL DEF Life!Spec

-----------------------------------------------------------------------------
(* Secrets and keys.                                                        *)

AllMutations == {"rotateSecret", "revokeSecret", "rotateKey", "revokeKey"}

OpType ==
    [kind : AllMutations \cup {"none", "resolve", "read", "encrypt", "decrypt"},
     step : {"idle", "authorize", "mutate", "reveal", "settle"}, version : Versions \cup {0}]

LeaseType == [version : Versions \cup {0}, fresh : BOOLEAN]

AuthorizedIn(trail, kind, v) == [outcome |-> "PARTIAL", kind |-> kind, version |-> v] \in trail

\* A mutation reaches the provider, and is settled, with its authorization recorded.
OpInv(trail, op) ==
    /\ op \in OpType
    /\ op.kind \in AllMutations => op.kind \in Sec!Mutations /\ op.version \in Versions
    /\ op.step \in {"authorize", "mutate"} => op.kind \in AllMutations
    /\ op.step = "reveal" => op.kind = "resolve"
    /\ op.step \in {"mutate", "settle"} /\ op.kind \in AllMutations =>
          AuthorizedIn(trail, op.kind, op.version)

\* What MutationsAreAuthorized says of secrets, keys and the audit.
SecretsInv(trail, s) ==
    \A v \in Versions :
        /\ v > 1 /\ s[v] # "NONE" => AuthorizedIn(trail, "rotateSecret", v)
        /\ s[v] = "REVOKED" =>
             \/ AuthorizedIn(trail, "revokeSecret", v)
             \/ \E w \in Versions \ {v} : s[w] # "NONE" /\ AuthorizedIn(trail, "rotateSecret", w)

KeysInv(trail, k, gone) ==
    \A v \in Versions :
        /\ v > 1 /\ k[v] # "NONE" => AuthorizedIn(trail, "rotateKey", v)
        /\ v \in gone => AuthorizedIn(trail, "revokeKey", v)

AuditInv(trail) ==
    \A e \in trail : e.outcome = "SUCCESS" => AuthorizedIn(trail, e.kind, e.version)

SecurityInv ==
    /\ secrets \in [Versions -> {"NONE", "ACTIVE", "REVOKED"}]
    /\ keys \in [Versions -> {"NONE", "ACTIVE", "DECRYPT_ONLY", "REVOKED"}]
    /\ current \in Versions \cup {0} /\ (current # 0 => secrets[current] # "NONE")
    /\ active \in Versions \cup {0} /\ (active # 0 => keys[active] # "NONE")
    /\ ops \in [Threads -> OpType] /\ \A t \in Threads : OpInv(audit, ops[t])
    /\ leases \in [Threads -> LeaseType]
    /\ SecretsInv(audit, secrets) /\ KeysInv(audit, keys, revoked) /\ AuditInv(audit)

\* What is authorized stays so.
LEMMA GrownAudit ==
    ASSUME NEW e1, NEW e2, e1 \subseteq e2
    PROVE  /\ \A op : OpInv(e1, op) => OpInv(e2, op)
           /\ \A s : SecretsInv(e1, s) => SecretsInv(e2, s)
           /\ \A k, gone : KeysInv(e1, k, gone) => KeysInv(e2, k, gone)
<1>1. \A kind, v : AuthorizedIn(e1, kind, v) => AuthorizedIn(e2, kind, v)
  BY DEF AuthorizedIn
<1>2. \A op : OpInv(e1, op) => OpInv(e2, op)
  BY <1>1 DEF OpInv
<1>3. \A s : SecretsInv(e1, s) => SecretsInv(e2, s)
  BY <1>1 DEF SecretsInv
<1>4. \A k, gone : KeysInv(e1, k, gone) => KeysInv(e2, k, gone)
  BY <1>1 DEF KeysInv
<1> QED  BY <1>2, <1>3, <1>4

\* The frame of a step of one operation: it leaves the provider alone.
LEMMA OpStep ==
    ASSUME SecurityInv, NEW t \in Threads, NEW op, ops' = [ops EXCEPT ![t] = op],
           UNCHANGED <<secrets, current, keys, active, revoked, service>>,
           audit \subseteq audit', AuditInv(audit'), OpInv(audit', op),
           leases' \in [Threads -> LeaseType]
    PROVE  SecurityInv'
<1>1. Sec!Mutations' = Sec!Mutations
  BY DEF Sec!Mutations
<1>2. op \in OpType /\ ops \in [Threads -> OpType]
  BY DEF OpInv, SecurityInv
<1>3. ops' \in [Threads -> OpType]
  BY <1>2
<1>4. ASSUME NEW x \in Threads PROVE OpInv(audit', ops'[x])
  <2>1. CASE x = t
    BY <1>2, <2>1
  <2>2. CASE x # t
    <3>1. OpInv(audit, ops[x]) /\ ops'[x] = ops[x]
      BY <1>2, <2>2 DEF SecurityInv
    <3> QED  BY <3>1, GrownAudit
  <2> QED  BY <2>1, <2>2
<1>5. \A x \in Threads : OpInv(audit, ops[x])'
  BY <1>1, <1>4 DEF OpInv
<1>6. SecretsInv(audit', secrets) /\ KeysInv(audit', keys, revoked)
  BY GrownAudit DEF SecurityInv
<1>7. SecretsInv(audit, secrets)' /\ KeysInv(audit, keys, revoked)' /\ AuditInv(audit)'
  BY <1>6 DEF SecretsInv, KeysInv, AuditInv
<1> QED  BY <1>3, <1>5, <1>7 DEF SecurityInv

LEMMA Unmoved ==
    ASSUME SecurityInv,
           UNCHANGED <<secrets, current, keys, active, revoked, service, ops, audit>>,
           leases' \in [Threads -> LeaseType]
    PROVE  SecurityInv'
<1>1. Sec!Mutations' = Sec!Mutations
  BY DEF Sec!Mutations
<1>2. \A t \in Threads : OpInv(audit, ops[t])'
  BY <1>1 DEF OpInv, SecurityInv
<1>3. SecretsInv(audit, secrets)' /\ KeysInv(audit, keys, revoked)' /\ AuditInv(audit)'
  BY DEF SecurityInv, SecretsInv, KeysInv, AuditInv
<1> QED  BY <1>2, <1>3 DEF SecurityInv

LEMMA NoOpIs ==
    /\ \A trail : OpInv(trail, Sec!NoOp)
    /\ Sec!NoOp.kind = "none" /\ Sec!NoLease \in LeaseType
<1>1. Sec!NoOp \in OpType /\ Sec!NoOp.kind = "none" /\ Sec!NoOp.step = "idle"
  BY DEF Sec!NoOp, OpType
<1>2. Sec!NoLease \in LeaseType
  BY DEF Sec!NoLease, LeaseType
<1> QED  BY <1>1, <1>2 DEF OpInv, AllMutations

LEMMA MutationsAre == Sec!Mutations \subseteq AllMutations
BY DEF Sec!Mutations, AllMutations

\* An event joins the audit; a denial changes nothing kept.
LEMMA Recording ==
    ASSUME SecurityInv, NEW outcome, NEW op, Sec!Record(outcome, op),
           outcome = "SUCCESS" /\ op.kind \in Sec!Mutations => AuthorizedIn(audit, op.kind, op.version)
    PROVE  /\ audit \subseteq audit' /\ AuditInv(audit')
           /\ outcome = "DENIED" \/ op.kind \notin Sec!Mutations => audit' = audit
           /\ outcome = "PARTIAL" /\ op.kind \in Sec!Mutations =>
                 AuthorizedIn(audit', op.kind, op.version)
<1> DEFINE e == [outcome |-> outcome, kind |-> op.kind, version |-> op.version]
<1>1. e.outcome = outcome /\ e.kind = op.kind /\ e.version = op.version
  OBVIOUS
<1>2. audit' = IF op.kind \in Sec!Mutations /\ outcome # "DENIED" THEN audit \cup {e} ELSE audit
  BY DEF Sec!Record
<1>3. outcome = "PARTIAL" => e = [outcome |-> "PARTIAL", kind |-> op.kind, version |-> op.version]
  OBVIOUS
<1> HIDE DEF e
<1>4. AuditInv(audit')
  BY <1>1, <1>2 DEF SecurityInv, AuditInv, AuthorizedIn
<1> QED  BY <1>2, <1>3, <1>4 DEF AuthorizedIn

\* Steps of one operation that record nothing.
LEMMA Silent ==
    ASSUME SecurityInv, NEW t \in Threads, NEW op, ops' = [ops EXCEPT ![t] = op],
           UNCHANGED <<secrets, current, keys, active, revoked, service, audit, leases>>,
           OpInv(audit, op)
    PROVE  SecurityInv'
BY OpStep DEF SecurityInv

\* A caller is denied; an operation fails at the provider or at the audit.
LEMMA Denying ==
    ASSUME SecurityInv, NEW t \in Threads, NEW kind, NEW v, Sec!Denied(t, kind, v)
    PROVE  SecurityInv'
<1>1. audit' = audit
  BY Recording DEF Sec!Denied
<1> QED  BY <1>1, Unmoved DEF Sec!Denied, Sec!providerVars, SecurityInv

LEMMA Failing ==
    ASSUME SecurityInv, NEW t \in Threads, Sec!ProviderFails(t) \/ Sec!AuditFails(t)
    PROVE  SecurityInv'
<1>1. audit' = audit
  BY Recording DEF Sec!ProviderFails, Sec!AuditFails
<1>2. OpInv(audit, Sec!NoOp)
  BY NoOpIs
<1> QED  BY <1>1, <1>2, Silent DEF Sec!ProviderFails, Sec!AuditFails, Sec!providerVars

\* The terminal event of an operation.
LEMMA Succeeding ==
    ASSUME SecurityInv, NEW t \in Threads, Sec!Succeeds(t)
    PROVE  SecurityInv'
<1>1. OpInv(audit, ops[t]) /\ ops[t].step = "settle" /\ ops[t] \in OpType
  BY DEF SecurityInv, Sec!Succeeds
<1>2. ops[t].kind \in Sec!Mutations => AuthorizedIn(audit, ops[t].kind, ops[t].version)
  BY <1>1, MutationsAre DEF OpInv
<1>3. audit \subseteq audit' /\ AuditInv(audit')
  BY <1>2, Recording DEF Sec!Succeeds
<1>4. OpInv(audit', Sec!NoOp)
  BY NoOpIs
<1>5. leases' \in [Threads -> LeaseType]
  <2> DEFINE lease == [version |-> ops[t].version, fresh |-> TRUE]
  <2>1. lease \in LeaseType
    BY <1>1 DEF OpType, LeaseType
  <2>2. leases' = [leases EXCEPT ![t] = lease] \/ leases' = leases
    BY DEF Sec!Succeeds
  <2> HIDE DEF lease
  <2> QED  BY <2>1, <2>2 DEF SecurityInv
<1> QED  BY <1>3, <1>4, <1>5, OpStep DEF Sec!Succeeds, Sec!providerVars

\* Reads of secrets and uses of keys.
LEMMA Using ==
    ASSUME SecurityInv, NEW t \in Threads,
           \/ Sec!ResolveCurrent(t) \/ Sec!Reveal(t) \/ Sec!ReadLease(t)
           \/ \E v \in Versions, kind \in {"encrypt", "decrypt"} : Sec!UseKey(t, kind, v)
    PROVE  SecurityInv'
<1>1. CASE Sec!ResolveCurrent(t)
  <2> DEFINE op == [kind |-> "resolve", step |-> "reveal", version |-> current]
  <2>1. OpInv(audit, op)
    BY DEF OpInv, OpType, AllMutations, SecurityInv
  <2>2. \/ Sec!Denied(t, "resolve", 0)
        \/ /\ ops' = [ops EXCEPT ![t] = op]
           /\ UNCHANGED <<secrets, current, keys, active, revoked, service, audit, leases>>
    BY <1>1 DEF Sec!ResolveCurrent, Sec!providerVars
  <2> HIDE DEF op
  <2> QED  BY <2>1, <2>2, Denying, Silent
<1>2. CASE Sec!Reveal(t)
  <2> DEFINE o == ops[t]
             op == [o EXCEPT !.step = "settle"]
  <2>1. OpInv(audit, o) /\ o.step = "reveal"
    BY <1>2 DEF SecurityInv, Sec!Reveal
  <2>2. \/ Sec!ProviderFails(t)
        \/ /\ ops' = [ops EXCEPT ![t] = op]
           /\ UNCHANGED <<secrets, current, keys, active, revoked, service, audit, leases>>
    BY <1>2 DEF Sec!Reveal, Sec!providerVars
  <2> HIDE DEF o
  <2>3. op \in OpType /\ op.kind = "resolve" /\ op.step = "settle"
    BY <2>1 DEF OpInv, OpType
  <2> HIDE DEF op
  <2>4. OpInv(audit, op)
    BY <2>3 DEF OpInv, AllMutations
  <2> QED  BY <2>2, <2>4, Failing, Silent
<1>3. CASE Sec!ReadLease(t)
  <2> DEFINE v == leases[t].version
             op == [kind |-> "read", step |-> "settle", version |-> v]
  <2>1. v \in Versions \cup {0}
    BY DEF SecurityInv, LeaseType
  <2>2. \/ Sec!Denied(t, "read", v)
        \/ /\ ops' = [ops EXCEPT ![t] = op]
           /\ UNCHANGED <<secrets, current, keys, active, revoked, service, audit, leases>>
    BY <1>3 DEF Sec!ReadLease, Sec!providerVars
  <2> HIDE DEF v
  <2>3. OpInv(audit, op)
    BY <2>1 DEF OpInv, OpType, AllMutations
  <2> HIDE DEF op
  <2> QED  BY <2>2, <2>3, Denying, Silent
<1>4. ASSUME NEW v \in Versions, NEW kind \in {"encrypt", "decrypt"}, Sec!UseKey(t, kind, v)
      PROVE  SecurityInv'
  <2> DEFINE op == [kind |-> kind, step |-> "settle", version |-> v]
  <2>1. OpInv(audit, op)
    BY DEF OpInv, OpType, AllMutations
  <2>2. \/ Sec!Denied(t, kind, v)
        \/ /\ ops' = [ops EXCEPT ![t] = op]
           /\ UNCHANGED <<secrets, current, keys, active, revoked, service, audit, leases>>
    BY <1>4 DEF Sec!UseKey, Sec!providerVars
  <2> HIDE DEF op
  <2> QED  BY <2>1, <2>2, Denying, Silent
<1> QED  BY <1>1, <1>2, <1>3, <1>4

\* A mutation starts, and is authorized.
LEMMA Authorizing ==
    ASSUME SecurityInv, NEW t \in Threads,
           \/ Sec!RecordAuthorized(t)
           \/ \E v \in Versions, kind \in Sec!Mutations : Sec!StartMutation(t, kind, v)
    PROVE  SecurityInv'
<1>1. ASSUME NEW v \in Versions, NEW kind \in Sec!Mutations, Sec!StartMutation(t, kind, v)
      PROVE  SecurityInv'
  <2> DEFINE op == [kind |-> kind, step |-> "authorize", version |-> v]
  <2>1. OpInv(audit, op)
    BY MutationsAre DEF OpInv, OpType
  <2>2. ops' = [ops EXCEPT ![t] = op]
        /\ UNCHANGED <<secrets, current, keys, active, revoked, service, audit, leases>>
    BY <1>1 DEF Sec!StartMutation, Sec!providerVars
  <2> HIDE DEF op
  <2> QED  BY <2>1, <2>2, Silent
<1>2. CASE Sec!RecordAuthorized(t)
  <2> DEFINE o == ops[t]
             op == [o EXCEPT !.step = "mutate"]
  <2>1. OpInv(audit, o) /\ o.step = "authorize" /\ Sec!Record("PARTIAL", o)
    BY <1>2 DEF SecurityInv, Sec!RecordAuthorized
  <2>2. ops' = [ops EXCEPT ![t] = op]
        /\ UNCHANGED <<secrets, current, keys, active, revoked, service, leases>>
    BY <1>2 DEF Sec!RecordAuthorized, Sec!providerVars
  <2> HIDE DEF o
  <2>3. o.kind \in Sec!Mutations /\ o.kind \in AllMutations
    BY <2>1 DEF OpInv
  <2>4. audit \subseteq audit' /\ AuditInv(audit') /\ AuthorizedIn(audit', o.kind, o.version)
    BY <2>1, <2>3, Recording
  <2>5. op \in OpType /\ op.kind = o.kind /\ op.version = o.version /\ op.step = "mutate"
    BY <2>1 DEF OpInv, OpType
  <2> HIDE DEF op
  <2>6. OpInv(audit', op)
    BY <2>1, <2>3, <2>4, <2>5 DEF OpInv
  <2> QED  BY <2>2, <2>4, <2>6, OpStep DEF SecurityInv
<1> QED  BY <1>1, <1>2

\* A mutation at the provider: the operation waits for its terminal event.
LEMMA Settling ==
    ASSUME SecurityInv, NEW t \in Threads, ops[t].step = "mutate",
           ops' = [ops EXCEPT ![t].step = "settle"], UNCHANGED <<leases, audit, service>>,
           secrets' \in [Versions -> {"NONE", "ACTIVE", "REVOKED"}],
           keys' \in [Versions -> {"NONE", "ACTIVE", "DECRYPT_ONLY", "REVOKED"}],
           current' \in Versions \cup {0}, current' # 0 => secrets'[current'] # "NONE",
           active' \in Versions \cup {0}, active' # 0 => keys'[active'] # "NONE",
           SecretsInv(audit, secrets'), KeysInv(audit, keys', revoked')
    PROVE  SecurityInv'
<1> DEFINE o == ops[t]
           op == [o EXCEPT !.step = "settle"]
<1>1. OpInv(audit, o) /\ o.step = "mutate" /\ ops' = [ops EXCEPT ![t] = op]
      /\ ops \in [Threads -> OpType]
  BY DEF SecurityInv
<1> HIDE DEF o
<1>2. op \in OpType /\ op.kind = o.kind /\ op.version = o.version /\ op.step = "settle"
  BY <1>1 DEF OpInv, OpType
<1> HIDE DEF op
<1>3. OpInv(audit, op)
  BY <1>1, <1>2 DEF OpInv
<1>4. Sec!Mutations' = Sec!Mutations
  BY DEF Sec!Mutations
<1>5. ops' \in [Threads -> OpType] /\ \A x \in Threads : OpInv(audit, ops'[x])
  BY <1>1, <1>2, <1>3 DEF SecurityInv
<1>6. \A x \in Threads : OpInv(audit, ops[x])'
  BY <1>4, <1>5 DEF OpInv
<1>7. SecretsInv(audit, secrets)' /\ KeysInv(audit, keys, revoked)' /\ AuditInv(audit)'
  BY DEF SecretsInv, KeysInv, AuditInv, SecurityInv
<1> QED  BY <1>5, <1>6, <1>7 DEF SecurityInv

LEMMA SecRefusal == \A rules : Sec!FirstRefusal(rules) = FirstRefusal(rules) /\ Sec!None = None
BY DEF Sec!FirstRefusal, FirstRefusal, Sec!None, None

\* The checks of the providers a mutation passed.
LEMMA SecretFound ==
    ASSUME SecurityInv, NEW op, op.version \in Versions, Sec!SecretMutationError(op) = Sec!None
    PROVE  /\ op.kind = "rotateSecret" => current # 0 /\ secrets[op.version] = "NONE"
           /\ op.kind # "rotateSecret" => secrets[op.version] # "NONE"
<1> DEFINE a == ~available
           b == current = 0
           e == current # 0 /\ secrets[current] = "REVOKED"
           f == secrets[op.version] # "NONE"
           g == secrets[op.version] = "NONE"
           stale == Sec!FirstRefusal(<< <<f, "SECRET_VERSION_STALE">> >>)
           gone == Sec!FirstRefusal(<< <<a, "SECRET_PROVIDER_UNAVAILABLE">>,
                                       <<g, "SECRET_NOT_FOUND">> >>)
           unfit == Sec!FirstRefusal(<< <<a, "SECRET_PROVIDER_UNAVAILABLE">>,
                                       <<b, "SECRET_NOT_FOUND">>, <<e, "SECRET_REVOKED">> >>)
<1>1. a \in BOOLEAN /\ b \in BOOLEAN /\ e \in BOOLEAN /\ f \in BOOLEAN /\ g \in BOOLEAN
  OBVIOUS
<1>2. Sec!CurrentError = unfit
  BY Zenon DEF Sec!CurrentError
<1>3. Sec!SecretMutationError(op) =
        IF op.kind = "rotateSecret"
        THEN IF Sec!CurrentError # Sec!None THEN Sec!CurrentError ELSE stale
        ELSE gone
  BY Zenon DEF Sec!SecretMutationError
<1>4. /\ "SECRET_PROVIDER_UNAVAILABLE" # None /\ "SECRET_NOT_FOUND" # None
      /\ "SECRET_REVOKED" # None /\ "SECRET_VERSION_STALE" # None
  BY DEF None
<1>5. CASE op.kind = "rotateSecret"
  <2>1. unfit = Sec!None /\ stale = Sec!None
    <3> HIDE DEF unfit, stale, gone
    <3> QED  BY <1>2, <1>3, <1>5
  <2> HIDE DEF a, b, e, f, g
  <2>2. ~b
    BY <1>1, <1>4, <2>1, SecRefusal, ThreeChecks
  <2>3. ~f
    BY <1>1, <1>4, <2>1, SecRefusal, OneCheck
  <2> QED  BY <1>5, <2>2, <2>3 DEF b, f
<1>6. CASE op.kind # "rotateSecret"
  <2>1. gone = Sec!None
    <3> HIDE DEF unfit, stale, gone
    <3> QED  BY <1>3, <1>6
  <2> HIDE DEF a, b, e, f, g
  <2>2. ~g
    BY <1>1, <1>4, <2>1, SecRefusal, TwoChecks
  <2> QED  BY <1>6, <2>2 DEF g
<1> QED  BY <1>5, <1>6

LEMMA KeyFound ==
    ASSUME SecurityInv, NEW op, op.kind = "revokeKey", Sec!KeyMutationError(op) = Sec!None
    PROVE  keys[op.version] # "NONE"
<1> DEFINE a == ~available
           b == op.kind = "rotateKey" /\ keys[op.version] # "NONE"
           e == op.kind = "revokeKey" /\ keys[op.version] = "NONE"
<1>1. a \in BOOLEAN /\ b \in BOOLEAN /\ e \in BOOLEAN
  OBVIOUS
<1>2. Sec!FirstRefusal(<< <<a, "KEY_PROVIDER_UNAVAILABLE">>, <<b, "KEY_VERSION_STALE">>,
                          <<e, "KEY_NOT_FOUND">> >>) = Sec!None
  BY DEF Sec!KeyMutationError
<1>3. /\ "KEY_PROVIDER_UNAVAILABLE" # None /\ "KEY_VERSION_STALE" # None
      /\ "KEY_NOT_FOUND" # None
  BY DEF None
<1> HIDE DEF a, b, e
<1>4. ~e
  BY <1>1, <1>2, <1>3, SecRefusal, ThreeChecks
<1> QED  BY <1>4 DEF e

LEMMA SecretMutated ==
    ASSUME SecurityInv, Versions \subseteq Nat \ {0}, NEW t \in Threads, Sec!MutateSecret(t)
    PROVE  SecurityInv'
<1> DEFINE op == ops[t]
           v == op.version
<1>1. /\ OpInv(audit, op) /\ op.step = "mutate" /\ op.kind \in {"rotateSecret", "revokeSecret"}
  BY DEF SecurityInv, Sec!MutateSecret
<1>2. v \in Versions /\ v # 0 /\ AuthorizedIn(audit, op.kind, v)
  BY <1>1 DEF OpInv, AllMutations
<1>3. CASE Sec!SecretMutationError(op) # Sec!None
  BY <1>3, Failing DEF Sec!MutateSecret
<1>4. CASE Sec!SecretMutationError(op) = Sec!None
  <2>1. /\ op.kind = "rotateSecret" => current # 0 /\ secrets[v] = "NONE"
        /\ op.kind # "rotateSecret" => secrets[v] # "NONE"
    BY <1>2, <1>4, SecretFound
  <2>2. /\ ops' = [ops EXCEPT ![t].step = "settle"]
        /\ UNCHANGED <<leases, audit, service, keys, active, revoked>>
    BY <1>4 DEF Sec!MutateSecret
  <2>3. KeysInv(audit, keys', revoked') /\ active' \in Versions \cup {0}
        /\ keys' \in [Versions -> {"NONE", "ACTIVE", "DECRYPT_ONLY", "REVOKED"}]
        /\ (active' # 0 => keys'[active'] # "NONE")
    BY <2>2 DEF SecurityInv
  <2>4. /\ secrets \in [Versions -> {"NONE", "ACTIVE", "REVOKED"}] /\ current \in Versions \cup {0}
        /\ current # 0 => secrets[current] # "NONE"
        /\ SecretsInv(audit, secrets)
    BY DEF SecurityInv
  <2>5. CASE op.kind = "rotateSecret"
    <3>1. /\ secrets' = [secrets EXCEPT ![current] = "REVOKED", ![v] = "ACTIVE"]
          /\ current' = v
      BY <1>4, <2>5 DEF Sec!MutateSecret
    <3>2. current \in Versions /\ current # v
      BY <2>1, <2>4, <2>5
    <3> HIDE DEF v, op
    <3>3. /\ secrets' \in [Versions -> {"NONE", "ACTIVE", "REVOKED"}]
          /\ secrets'[v] = "ACTIVE" /\ secrets'[current] = "REVOKED"
          /\ \A w \in Versions \ {v, current} : secrets'[w] = secrets[w]
      BY <1>2, <2>4, <3>1, <3>2
    <3>4. AuthorizedIn(audit, "rotateSecret", v)
      BY <1>2, <2>5
    <3>5. ASSUME NEW w \in Versions
          PROVE  /\ w > 1 /\ secrets'[w] # "NONE" => AuthorizedIn(audit, "rotateSecret", w)
                 /\ secrets'[w] = "REVOKED" =>
                      \/ AuthorizedIn(audit, "revokeSecret", w)
                      \/ \E x \in Versions \ {w} :
                            secrets'[x] # "NONE" /\ AuthorizedIn(audit, "rotateSecret", x)
      <4>1. CASE w = v
        BY <3>3, <3>4, <4>1
      <4>2. CASE w = current
        <5>1. w > 1 => AuthorizedIn(audit, "rotateSecret", w)
          BY <2>1, <2>4, <2>5, <4>2 DEF SecretsInv
        <5> QED  BY <1>2, <3>2, <3>3, <3>4, <4>2, <5>1
      <4>3. CASE w \notin {v, current}
        <5>1. secrets'[w] = secrets[w]
          BY <3>3, <4>3
        <5>2. \A x \in Versions : secrets[x] # "NONE" => secrets'[x] # "NONE"
          BY <3>3
        <5> QED  BY <2>4, <5>1, <5>2 DEF SecretsInv
      <4> QED  BY <4>1, <4>2, <4>3
    <3>6. SecretsInv(audit, secrets')
      BY <3>5 DEF SecretsInv
    <3>7. current' \in Versions \cup {0} /\ secrets'[current'] # "NONE"
      BY <1>2, <3>1, <3>3
    <3> QED  BY <1>1, <2>2, <2>3, <3>3, <3>6, <3>7, Settling DEF op
  <2>6. CASE op.kind = "revokeSecret"
    <3>1. secrets' = [secrets EXCEPT ![v] = "REVOKED"] /\ current' = current
      BY <1>4, <2>6 DEF Sec!MutateSecret
    <3>2. secrets[v] # "NONE"
      BY <2>1, <2>6
    <3> HIDE DEF v, op
    <3>3. /\ secrets' \in [Versions -> {"NONE", "ACTIVE", "REVOKED"}]
          /\ secrets'[v] = "REVOKED" /\ \A w \in Versions \ {v} : secrets'[w] = secrets[w]
      BY <1>2, <2>4, <3>1
    <3>4. AuthorizedIn(audit, "revokeSecret", v)
      BY <1>2, <2>6
    <3>5. \A x \in Versions : secrets[x] # "NONE" <=> secrets'[x] # "NONE"
      BY <3>2, <3>3
    <3>6. SecretsInv(audit, secrets')
      BY <2>4, <3>3, <3>4, <3>5 DEF SecretsInv
    <3>7. current' \in Versions \cup {0} /\ (current' # 0 => secrets'[current'] # "NONE")
      BY <2>4, <3>1, <3>5
    <3> QED  BY <1>1, <2>2, <2>3, <3>3, <3>6, <3>7, Settling DEF op
  <2> QED  BY <1>1, <2>5, <2>6
<1> QED  BY <1>3, <1>4

LEMMA KeyMutated ==
    ASSUME SecurityInv, Versions \subseteq Nat \ {0}, NEW t \in Threads, Sec!MutateKey(t)
    PROVE  SecurityInv'
<1> DEFINE op == ops[t]
           v == op.version
<1>1. /\ OpInv(audit, op) /\ op.step = "mutate" /\ op.kind \in {"rotateKey", "revokeKey"}
  BY DEF SecurityInv, Sec!MutateKey
<1>2. v \in Versions /\ v # 0 /\ AuthorizedIn(audit, op.kind, v)
  BY <1>1 DEF OpInv, AllMutations
<1>3. CASE Sec!KeyMutationError(op) # Sec!None
  BY <1>3, Failing DEF Sec!MutateKey
<1>4. CASE Sec!KeyMutationError(op) = Sec!None
  <2>1. op.kind = "revokeKey" => keys[v] # "NONE"
    BY <1>4, KeyFound
  <2>2. /\ ops' = [ops EXCEPT ![t].step = "settle"]
        /\ UNCHANGED <<leases, audit, service, secrets, current>>
    BY <1>4 DEF Sec!MutateKey
  <2>3. SecretsInv(audit, secrets') /\ current' \in Versions \cup {0}
        /\ secrets' \in [Versions -> {"NONE", "ACTIVE", "REVOKED"}]
        /\ (current' # 0 => secrets'[current'] # "NONE")
    BY <2>2 DEF SecurityInv
  <2>4. /\ keys \in [Versions -> {"NONE", "ACTIVE", "DECRYPT_ONLY", "REVOKED"}]
        /\ active \in Versions \cup {0} /\ (active # 0 => keys[active] # "NONE")
        /\ KeysInv(audit, keys, revoked) /\ 0 \notin Versions
    BY DEF SecurityInv
  <2>5. CASE op.kind = "rotateKey"
    <3>1. /\ keys' = [keys EXCEPT ![active] = "DECRYPT_ONLY", ![v] = "ACTIVE"]
          /\ active' = v /\ revoked' = revoked
      BY <1>4, <2>5 DEF Sec!MutateKey
    <3> HIDE DEF v, op
    <3>2. /\ keys' \in [Versions -> {"NONE", "ACTIVE", "DECRYPT_ONLY", "REVOKED"}]
          /\ keys'[v] = "ACTIVE" /\ \A w \in Versions \ {v, active} : keys'[w] = keys[w]
      <4>1. CASE active = 0
        BY <1>2, <2>4, <3>1, <4>1
      <4>2. CASE active # 0
        BY <1>2, <2>4, <3>1, <4>2
      <4> QED  BY <4>1, <4>2
    <3>3. AuthorizedIn(audit, "rotateKey", v)
      BY <1>2, <2>5
    <3>4. ASSUME NEW w \in Versions
          PROVE  /\ w > 1 /\ keys'[w] # "NONE" => AuthorizedIn(audit, "rotateKey", w)
                 /\ w \in revoked' => AuthorizedIn(audit, "revokeKey", w)
      <4>1. w > 1 /\ keys'[w] # "NONE" => AuthorizedIn(audit, "rotateKey", w)
        BY <2>4, <3>2, <3>3 DEF KeysInv
      <4> QED  BY <2>4, <3>1, <4>1 DEF KeysInv
    <3>5. KeysInv(audit, keys', revoked')
      BY <3>4 DEF KeysInv
    <3>6. active' \in Versions \cup {0} /\ keys'[active'] # "NONE"
      BY <1>2, <3>1, <3>2
    <3> QED  BY <1>1, <2>2, <2>3, <3>2, <3>5, <3>6, Settling DEF op
  <2>6. CASE op.kind = "revokeKey"
    <3>1. /\ keys' = [keys EXCEPT ![v] = "REVOKED"] /\ active' = active
          /\ revoked' = revoked \cup {v}
      BY <1>4, <2>6 DEF Sec!MutateKey
    <3>2. keys[v] # "NONE"
      BY <2>1, <2>6
    <3> HIDE DEF v, op
    <3>3. /\ keys' \in [Versions -> {"NONE", "ACTIVE", "DECRYPT_ONLY", "REVOKED"}]
          /\ keys'[v] = "REVOKED" /\ \A w \in Versions \ {v} : keys'[w] = keys[w]
      BY <1>2, <2>4, <3>1
    <3>4. AuthorizedIn(audit, "revokeKey", v)
      BY <1>2, <2>6
    <3>5. KeysInv(audit, keys', revoked')
      BY <2>4, <3>1, <3>2, <3>3, <3>4 DEF KeysInv
    <3>6. active' \in Versions \cup {0} /\ (active' # 0 => keys'[active'] # "NONE")
      BY <2>4, <3>1, <3>3
    <3> QED  BY <1>1, <2>2, <2>3, <3>3, <3>5, <3>6, Settling DEF op
  <2> QED  BY <1>1, <2>5, <2>6
<1> QED  BY <1>3, <1>4

\* The root versions are registered; providers fail and come back; the transport
\* policy and the leases do not touch secrets and keys.
LEMMA Surroundings ==
    ASSUME SecurityInv, Versions \subseteq Nat \ {0}, 1 \in Versions, Readers \subseteq Threads,
           \/ Sec!RegisterSecret(1) \/ Sec!RegisterKey(1)
           \/ \E b \in BOOLEAN : Sec!SetAvailable(b)
           \/ \E e \in Endpoints : Sec!ValidateTransport(e)
           \/ \E t \in Readers : Sec!LeaseExpires(t)
    PROVE  SecurityInv'
<1>1. CASE \E b \in BOOLEAN : Sec!SetAvailable(b)
  BY <1>1, Unmoved DEF Sec!SetAvailable, SecurityInv
<1>2. ASSUME NEW e \in Endpoints, Sec!ValidateTransport(e) PROVE SecurityInv'
  <2> DEFINE outcome == IF Sec!TransportAllowed(e) THEN "SUCCESS" ELSE "DENIED"
             op == [kind |-> "transport", version |-> 0]
  <2>1. Sec!Record(outcome, op)
        /\ UNCHANGED <<secrets, current, keys, active, revoked, service, ops, leases>>
    BY <1>2 DEF Sec!ValidateTransport, Sec!providerVars
  <2>2. op.kind \notin Sec!Mutations
    BY DEF Sec!Mutations
  <2> HIDE DEF op, outcome
  <2>3. audit' = audit
    BY <2>1, <2>2, Recording
  <2> QED  BY <2>1, <2>3, Unmoved DEF SecurityInv
<1>3. ASSUME NEW t \in Threads, Sec!LeaseExpires(t) PROVE SecurityInv'
  <2>1. leases' = [leases EXCEPT ![t].fresh = FALSE] /\ leases \in [Threads -> LeaseType]
    BY <1>3 DEF Sec!LeaseExpires, SecurityInv
  <2>2. leases' \in [Threads -> LeaseType]
    BY <2>1 DEF LeaseType
  <2> QED  BY <1>3, <2>2, Unmoved DEF Sec!LeaseExpires, Sec!providerVars
<1>4. ASSUME UNCHANGED <<service, audit, ops>>
      PROVE  \A t \in Threads : SecurityInv => OpInv(audit, ops[t])'
  BY <1>4 DEF SecurityInv, OpInv, Sec!Mutations
<1>5. CASE Sec!RegisterSecret(1)
  <2>1. /\ secrets' = [secrets EXCEPT ![1] = "ACTIVE"] /\ current' = 1
        /\ UNCHANGED <<keys, active, ops, leases, revoked, audit, service>>
    BY <1>5 DEF Sec!RegisterSecret
  <2>2. secrets' \in [Versions -> {"NONE", "ACTIVE", "REVOKED"}] /\ secrets'[1] = "ACTIVE"
        /\ \A w \in Versions \ {1} : secrets'[w] = secrets[w]
    BY <2>1 DEF SecurityInv
  <2>3. SecretsInv(audit, secrets')
    BY <2>2 DEF SecurityInv, SecretsInv
  <2>4. SecretsInv(audit, secrets)' /\ KeysInv(audit, keys, revoked)' /\ AuditInv(audit)'
    BY <2>1, <2>3 DEF SecurityInv, SecretsInv, KeysInv, AuditInv
  <2> QED  BY <1>4, <2>1, <2>2, <2>4 DEF SecurityInv
<1>6. CASE Sec!RegisterKey(1)
  <2>1. /\ keys' = [keys EXCEPT ![1] = "ACTIVE"] /\ active' = 1
        /\ UNCHANGED <<secrets, current, ops, leases, revoked, audit, service>>
    BY <1>6 DEF Sec!RegisterKey
  <2>2. keys' \in [Versions -> {"NONE", "ACTIVE", "DECRYPT_ONLY", "REVOKED"}] /\ keys'[1] = "ACTIVE"
        /\ \A w \in Versions \ {1} : keys'[w] = keys[w]
    BY <2>1 DEF SecurityInv
  <2>3. KeysInv(audit, keys', revoked')
    BY <2>1, <2>2 DEF SecurityInv, KeysInv
  <2>4. SecretsInv(audit, secrets)' /\ KeysInv(audit, keys, revoked)' /\ AuditInv(audit)'
    BY <2>1, <2>3 DEF SecurityInv, SecretsInv, KeysInv, AuditInv
  <2> QED  BY <1>4, <2>1, <2>2, <2>4 DEF SecurityInv
<1> QED  BY <1>1, <1>2, <1>3, <1>5, <1>6

\* A version of a secret or key leaves its state only under an authorization event
\* of its own, and no mutation is recorded as successful without one, whatever the
\* audit and the providers do and however the calls of threads interleave
\* (SecretManager and EnvelopeEncryptionService, _record_authorized).
THEOREM MutationsAuthorized ==
    ASSUME Versions \subseteq Nat \ {0}, 1 \in Versions, Readers \subseteq Threads
    PROVE  Sec!Spec => []MutationsAreAuthorized
<1>1. Sec!Init => SecurityInv
  <2> SUFFICES ASSUME Sec!Init PROVE SecurityInv
    OBVIOUS
  <2>1. \A t \in Threads : OpInv(audit, ops[t]) /\ ops[t] \in OpType
    BY NoOpIs DEF Sec!Init, OpInv
  <2>2. ops \in [Threads -> OpType] /\ leases \in [Threads -> LeaseType]
    BY NoOpIs, <2>1 DEF Sec!Init
  <2>3. SecretsInv(audit, secrets) /\ KeysInv(audit, keys, revoked) /\ AuditInv(audit)
    BY DEF Sec!Init, SecretsInv, KeysInv, AuditInv
  <2> QED  BY <2>1, <2>2, <2>3 DEF Sec!Init, SecurityInv
<1>2. SecurityInv /\ [Sec!Next]_(Sec!securityVars) => SecurityInv'
  <2> SUFFICES ASSUME SecurityInv, [Sec!Next]_(Sec!securityVars) PROVE SecurityInv'
    OBVIOUS
  <2>1. CASE \/ Sec!RegisterSecret(1) \/ Sec!RegisterKey(1)
             \/ \E b \in BOOLEAN : Sec!SetAvailable(b)
             \/ \E e \in Endpoints : Sec!ValidateTransport(e)
             \/ \E t \in Readers : Sec!LeaseExpires(t)
    BY <2>1, Surroundings
  <2>2. ASSUME NEW t \in Readers,
               Sec!ResolveCurrent(t) \/ Sec!Reveal(t) \/ Sec!ReadLease(t)
        PROVE  SecurityInv'
    BY <2>2, Using
  <2>3. ASSUME NEW t \in Threads, Sec!RecordAuthorized(t) PROVE SecurityInv'
    BY <2>3, Authorizing
  <2>4. ASSUME NEW t \in Threads, Sec!MutateSecret(t) \/ Sec!MutateKey(t) PROVE SecurityInv'
    BY <2>4, SecretMutated, KeyMutated
  <2>5. ASSUME NEW t \in Threads, Sec!Succeeds(t) \/ Sec!AuditFails(t) PROVE SecurityInv'
    BY <2>5, Succeeding, Failing
  <2>6. ASSUME NEW t \in Threads, NEW v \in Versions, NEW kind \in Sec!Mutations,
               Sec!StartMutation(t, kind, v)
        PROVE  SecurityInv'
    BY <2>6, Authorizing
  <2>7. ASSUME NEW t \in Threads, NEW v \in Versions, NEW kind \in {"encrypt", "decrypt"},
               Sec!UseKey(t, kind, v)
        PROVE  SecurityInv'
    BY <2>7, Using
  <2>8. CASE UNCHANGED Sec!securityVars
    BY <2>8, Unmoved DEF Sec!securityVars, SecurityInv
  <2> QED  BY <2>1, <2>2, <2>3, <2>4, <2>5, <2>6, <2>7, <2>8 DEF Sec!Next
<1>3. SecurityInv => MutationsAreAuthorized
  BY DEF SecurityInv, SecretsInv, KeysInv, AuditInv, AuthorizedIn,
         MutationsAreAuthorized, Sec!MutationsAreAuthorized, Sec!Authorized
<1> QED  BY <1>1, <1>2, <1>3, PTL DEF Sec!Spec

-----------------------------------------------------------------------------
(* The MCP gateway.                                                         *)

RecordType == [run : Runs, manifest : Nat, state : {"PENDING", "COMPLETED", "CANCELLED"},
               task : RemoteTasks]

Continues == {"POLL", "CANCEL"}

SentType ==
    [at : {"sent"}, kind : {"DISCOVER", "INVOKE"} \cup Continues, run : Runs,
     handle : Handles \cup {Mcp!NoHandle}, rec : RecordType \cup {Mcp!NoRecord}, manifest : Nat,
     reply : {Mcp!NoReply}]

\* What a reply to operation e claims is true of the remote tasks rm, unless the
\* handle is among the misled ones; a task that was accepted is one the server has.
ReplyInv(e, rm, ms) ==
    /\ e.kind = "POLL" /\ e.reply.status = "COMPLETED" =>
          e.handle \in ms \/ rm[e.rec.task] = "done"
    /\ e.kind = "CANCEL" /\ e.reply.status = "CANCELLED" /\ e.reply.of = {e.rec.task} =>
          rm[e.rec.task] = "cancelled"
    /\ e.kind = "INVOKE" /\ e.reply.status = "ACCEPTED" =>
          \A x \in e.reply.of : x \in RemoteTasks /\ rm[x] # "none"

\* What an operation e knows across its exchange: a poll or a cancellation has
\* read the record of its handle while that was pending.
ExchangeInv(e, rm, rc, ms) ==
    /\ e.at \in {"idle", "sent", "answered"}
    /\ e.at = "sent" => e \in SentType
    /\ e.at = "answered" => e.run \in Runs /\ e.manifest \in Nat /\ ReplyInv(e, rm, ms)
    /\ e.at # "idle" /\ e.kind \in Continues =>
          /\ e.handle \in Handles /\ rc[e.handle] # Mcp!NoRecord
          /\ e.rec \in RecordType /\ e.rec.state = "PENDING"
          /\ e.rec.task = rc[e.handle].task /\ rm[e.rec.task] # "none"

\* A record is final when its outcome is told, and it tells what became of the
\* remote task it names, unless a completion misled the gateway.
RecordsInv(rm, rc, tl, ms) ==
    /\ rm \in [RemoteTasks -> {"none", "working", "done", "cancelled"}]
    /\ rc \in [Handles -> RecordType \cup {Mcp!NoRecord}]
    /\ tl \in [Handles -> SUBSET {"COMPLETED", "CANCELLED"}]
    /\ \A h \in Handles :
          /\ tl[h] \subseteq {rc[h].state}
          /\ rc[h] # Mcp!NoRecord => rm[rc[h].task] # "none"
          /\ rc[h].state = "COMPLETED" => h \in ms \/ rm[rc[h].task] = "done"
          /\ rc[h].state = "CANCELLED" => rm[rc[h].task] = "cancelled"

\* Every manifest has a number.
ManifestInv ==
    /\ manifests \in Nat
    /\ discovery = [r \in Runs |-> discovery[r]]
    /\ \A r \in Runs : DOMAIN discovery[r] = {"id", "fresh"} /\ discovery[r].id \in Nat

McpInv ==
    /\ ManifestInv
    /\ RecordsInv(remote, record, told, misled)
    /\ exchange = [o \in McpOperations |-> exchange[o]]
    /\ \A o \in McpOperations : ExchangeInv(exchange[o], remote, record, misled)

\* Remote tasks go on from rm to rm2, and records from rc to rc2 are made or end.
Later(rm, rm2) ==
    \A x \in RemoteTasks : /\ rm[x] \in {"done", "cancelled"} => rm2[x] = rm[x]
                           /\ rm[x] # "none" => rm2[x] # "none"

Grown(rc, rc2) ==
    \A h \in Handles : rc[h] # Mcp!NoRecord =>
                          rc2[h] # Mcp!NoRecord /\ rc2[h].task = rc[h].task

\* An operation keeps what it knows meanwhile.
LEMMA Progress ==
    ASSUME NEW e, NEW rm, NEW rc, NEW ms, NEW rm2, NEW rc2, NEW ms2,
           ExchangeInv(e, rm, rc, ms), Later(rm, rm2), Grown(rc, rc2), ms \subseteq ms2
    PROVE  ExchangeInv(e, rm2, rc2, ms2)
<1>1. e.at # "idle" /\ e.kind \in Continues => e.rec.task \in RemoteTasks
  BY DEF ExchangeInv, RecordType
<1>2. e.at = "answered" => ReplyInv(e, rm2, ms2)
  BY <1>1 DEF ExchangeInv, ReplyInv, Later, Continues
<1> QED  BY <1>1, <1>2 DEF ExchangeInv, Later, Grown

\* One operation moves to e, while remote tasks may go on and records be made or end.
LEMMA OneExchange ==
    ASSUME McpInv, NEW o \in McpOperations, NEW e, exchange' = [exchange EXCEPT ![o] = e],
           ManifestInv', RecordsInv(remote', record', told', misled'),
           ExchangeInv(e, remote', record', misled'),
           Later(remote, remote'), Grown(record, record'), misled \subseteq misled'
    PROVE  McpInv'
<1>1. exchange' = [p \in McpOperations |-> exchange'[p]]
  BY DEF McpInv
<1>2. \A p \in McpOperations : exchange'[p] = IF p = o THEN e ELSE exchange[p]
  BY DEF McpInv
<1>3. ASSUME NEW p \in McpOperations \ {o}
      PROVE  ExchangeInv(exchange[p], remote', record', misled')
  <2>1. ExchangeInv(exchange[p], remote, record, misled)
    BY DEF McpInv
  <2>2. PICK rm, rc, ms : rm = remote' /\ rc = record' /\ ms = misled'
    OBVIOUS
  <2>3. ExchangeInv(exchange[p], rm, rc, ms)
    BY <2>1, <2>2, Progress
  <2> QED  BY <2>2, <2>3
<1>4. \A p \in McpOperations : ExchangeInv(exchange'[p], remote', record', misled')
  BY <1>2, <1>3
<1> QED  BY <1>1, <1>4 DEF McpInv

\* The same without a change of the tables.
LEMMA OnlyExchange ==
    ASSUME McpInv, NEW o \in McpOperations, NEW e, exchange' = [exchange EXCEPT ![o] = e],
           ManifestInv', UNCHANGED <<remote, record, told, misled>>,
           ExchangeInv(e, remote, record, misled)
    PROVE  McpInv'
<1>1. /\ RecordsInv(remote', record', told', misled')
      /\ ExchangeInv(e, remote', record', misled')
      /\ Later(remote, remote') /\ Grown(record, record') /\ misled \subseteq misled'
  BY DEF McpInv, Later, Grown
<1> QED  BY <1>1, OneExchange

\* An operation that ends, without a change of the tables.
LEMMA Ends ==
    ASSUME McpInv, NEW o \in McpOperations, exchange' = [exchange EXCEPT ![o] = Mcp!Waiting],
           ManifestInv', UNCHANGED <<remote, record, told, misled>>
    PROVE  McpInv'
<1>1. ExchangeInv(Mcp!Waiting, remote, record, misled)
  BY DEF ExchangeInv, Mcp!Waiting
<1> QED  BY <1>1, OnlyExchange

LEMMA SameManifests ==
    ASSUME McpInv, UNCHANGED <<discovery, manifests>> PROVE ManifestInv'
BY DEF McpInv, ManifestInv

LEMMA Sends ==
    ASSUME McpInv, NEW o \in McpOperations, NEW kind \in {"DISCOVER", "INVOKE"} \cup Continues,
           NEW r \in Runs, NEW h, NEW rec,
           IF kind \in Continues
           THEN h \in Handles /\ rec = record[h] /\ record[h].state = "PENDING"
           ELSE h = Mcp!NoHandle /\ rec = Mcp!NoRecord,
           Mcp!Send(o, kind, r, h, rec),
           UNCHANGED <<discovery, manifests, remote, record, told, misled>>
    PROVE  McpInv'
<1> DEFINE e == [at |-> "sent", kind |-> kind, run |-> r, handle |-> h, rec |-> rec,
                 manifest |-> discovery[r].id, reply |-> Mcp!NoReply]
<1>1. discovery[r].id \in Nat
  BY DEF McpInv, ManifestInv
<1>2. /\ rec \in RecordType \cup {Mcp!NoRecord}
      /\ kind \in Continues => /\ rec \in RecordType /\ record[h] # Mcp!NoRecord
                               /\ remote[rec.task] # "none"
  BY DEF McpInv, RecordsInv, Mcp!NoRecord
<1>3. e \in SentType
  BY <1>1, <1>2 DEF SentType
<1>4. ExchangeInv(e, remote, record, misled)
  BY <1>2, <1>3 DEF ExchangeInv, Continues
<1>5. exchange' = [exchange EXCEPT ![o] = e]
  BY DEF Mcp!Send
<1> HIDE DEF e
<1> QED  BY <1>4, <1>5, OnlyExchange, SameManifests

\* What the server's answer makes of an operation that was sent.
LEMMA AnswerIs ==
    ASSUME McpInv, NEW o \in McpOperations, exchange[o].at = "sent", NEW reply,
           Mcp!Answer(o, reply)
    PROVE  \E e : /\ exchange' = [exchange EXCEPT ![o] = e]
                  /\ e.at = "answered" /\ e.reply = reply /\ e.kind = exchange[o].kind
                  /\ e.run \in Runs /\ e.manifest \in Nat
                  /\ e.handle = exchange[o].handle /\ e.rec = exchange[o].rec
<1> DEFINE old == exchange[o]
           e == [old EXCEPT !.at = "answered", !.reply = reply]
<1>1. old \in SentType
  BY DEF McpInv, ExchangeInv
<1>2. exchange' = [exchange EXCEPT ![o] = e]
  BY DEF Mcp!Answer
<1>3. /\ e.at = "answered" /\ e.reply = reply /\ e.kind = old.kind
      /\ e.run = old.run /\ e.manifest = old.manifest
      /\ e.handle = old.handle /\ e.rec = old.rec
  <2> HIDE DEF old
  <2> QED  BY <1>1 DEF SentType
<1>4. old.run \in Runs /\ old.manifest \in Nat
  BY <1>1 DEF SentType
<1> HIDE DEF e
<1> QED  BY <1>2, <1>3, <1>4

\* A reply that is true once the remote tasks went on: one may start or be cancelled.
LEMMA Answers ==
    ASSUME McpInv, NEW o \in McpOperations, exchange[o].at = "sent", NEW reply,
           Mcp!Answer(o, reply), UNCHANGED <<discovery, manifests, record, told>>,
           remote' \in [RemoteTasks -> {"none", "working", "done", "cancelled"}],
           Later(remote, remote'), misled \subseteq misled',
           exchange[o].kind = "POLL" /\ reply.status = "COMPLETED" =>
              exchange[o].handle \in misled' \/ remote'[exchange[o].rec.task] = "done",
           exchange[o].kind = "CANCEL" /\ reply.status = "CANCELLED" =>
              \A x \in reply.of : remote'[x] = "cancelled",
           exchange[o].kind = "INVOKE" /\ reply.status = "ACCEPTED" =>
              \A x \in reply.of : x \in RemoteTasks /\ remote'[x] # "none"
    PROVE  McpInv'
<1>1. PICK e : /\ exchange' = [exchange EXCEPT ![o] = e]
               /\ e.at = "answered" /\ e.reply = reply /\ e.kind = exchange[o].kind
               /\ e.run \in Runs /\ e.manifest \in Nat
               /\ e.handle = exchange[o].handle /\ e.rec = exchange[o].rec
  BY AnswerIs
<1>2. ExchangeInv(exchange[o], remote, record, misled)
  BY DEF McpInv
<1>3. ReplyInv(e, remote', misled')
  BY <1>1 DEF ReplyInv
<1>4. e.kind \in Continues => e.rec.task \in RemoteTasks /\ remote'[e.rec.task] # "none"
  BY <1>1, <1>2 DEF ExchangeInv, RecordType, Later
<1>5. ExchangeInv(e, remote', record', misled')
  BY <1>1, <1>2, <1>3, <1>4 DEF ExchangeInv
<1>6. \A h \in Handles : record[h] # Mcp!NoRecord => record[h].task \in RemoteTasks
  BY DEF McpInv, RecordsInv, RecordType
<1>7. \A h \in Handles : record[h].state \in {"COMPLETED", "CANCELLED"} => record[h] # Mcp!NoRecord
  BY DEF Mcp!NoRecord
<1>8. RecordsInv(remote', record', told', misled')
  BY <1>6, <1>7 DEF McpInv, RecordsInv, Later
<1> QED  BY <1>1, <1>5, <1>8, OneExchange, SameManifests DEF Grown

\* One remote task goes on to the given state.
LEMMA TaskMoves ==
    ASSUME McpInv, NEW x \in RemoteTasks, NEW new \in {"none", "working", "done", "cancelled"},
           remote[x] \in {"done", "cancelled"} => new = remote[x],
           remote[x] # "none" => new # "none",
           remote' = [remote EXCEPT ![x] = new]
    PROVE  /\ remote' \in [RemoteTasks -> {"none", "working", "done", "cancelled"}]
           /\ Later(remote, remote') /\ remote'[x] = new
BY DEF McpInv, RecordsInv, Later

LEMMA NoTaskMoves ==
    ASSUME McpInv, UNCHANGED remote
    PROVE  /\ remote' \in [RemoteTasks -> {"none", "working", "done", "cancelled"}]
           /\ Later(remote, remote')
BY DEF McpInv, RecordsInv, Later

LEMMA Served ==
    ASSUME McpInv, NEW o \in McpOperations,
           \/ Mcp!ServerDiscovers(o) \/ Mcp!ServerInvokes(o)
           \/ Mcp!ServerContinues(o) \/ Mcp!ServerConfuses(o)
    PROVE  McpInv'
<1>1. exchange[o].at = "sent"
  BY DEF Mcp!ServerDiscovers, Mcp!ServerInvokes, Mcp!ServerContinues, Mcp!ServerConfuses
<1>2. CASE Mcp!ServerDiscovers(o)
  <2>1. PICK schema : Mcp!Answer(o, Mcp!Offers(schema))
    BY <1>2 DEF Mcp!ServerDiscovers
  <2>2. UNCHANGED <<remote, misled, discovery, manifests, record, told>>
        /\ exchange[o].kind = "DISCOVER"
    BY <1>2 DEF Mcp!ServerDiscovers
  <2>3. PICK reply : Mcp!Answer(o, reply)
    BY <2>1
  <2> QED  BY <1>1, <2>2, <2>3, NoTaskMoves, Answers
<1>3. CASE Mcp!ServerInvokes(o)
  <2>1. UNCHANGED <<misled, discovery, manifests, record, told>> /\ exchange[o].kind = "INVOKE"
    BY <1>3 DEF Mcp!ServerInvokes
  <2>2. CASE Mcp!Answer(o, Mcp!Says("COMPLETED", {})) /\ UNCHANGED remote
    <3>1. PICK reply : Mcp!Answer(o, reply) /\ reply.status = "COMPLETED"
      BY <2>2 DEF Mcp!Says
    <3> QED  BY <1>1, <2>1, <2>2, <3>1, NoTaskMoves, Answers
  <2>3. ASSUME NEW x \in RemoteTasks, remote[x] = "none",
               remote' = [remote EXCEPT ![x] = "working"],
               Mcp!Answer(o, Mcp!Says("ACCEPTED", {x}))
        PROVE  McpInv'
    <3>1. PICK reply : Mcp!Answer(o, reply) /\ reply.status = "ACCEPTED" /\ reply.of = {x}
      BY <2>3 DEF Mcp!Says
    <3>2. /\ remote' \in [RemoteTasks -> {"none", "working", "done", "cancelled"}]
          /\ Later(remote, remote') /\ remote'[x] = "working"
      BY <2>3, TaskMoves
    <3> QED  BY <1>1, <2>1, <3>1, <3>2, Answers
  <2> QED  BY <1>3, <2>2, <2>3 DEF Mcp!ServerInvokes
<1>4. CASE Mcp!ServerContinues(o)
  <2> DEFINE x == exchange[o].rec.task
             new == IF exchange[o].kind = "CANCEL" /\ remote[x] = "working"
                    THEN "cancelled" ELSE remote[x]
  <2>1. /\ exchange[o].kind \in Continues /\ Mcp!Answer(o, Mcp!Says(Mcp!Report[new], {x}))
        /\ remote' = [remote EXCEPT ![x] = new]
        /\ UNCHANGED <<misled, discovery, manifests, record, told>>
    BY <1>4 DEF Mcp!ServerContinues, Continues
  <2>2. x \in RemoteTasks /\ remote[x] \in {"working", "done", "cancelled"}
    <3>1. ExchangeInv(exchange[o], remote, record, misled)
      BY DEF McpInv
    <3>2. x \in RemoteTasks /\ remote[x] # "none"
      BY <1>1, <2>1, <3>1 DEF ExchangeInv, RecordType
    <3> QED  BY <3>2 DEF McpInv, RecordsInv
  <2>3. /\ new \in {"working", "done", "cancelled"}
        /\ remote[x] \in {"done", "cancelled"} => new = remote[x]
    BY <2>2
  <2> HIDE DEF new
  <2>4. /\ Mcp!Report[new] = "COMPLETED" => new = "done"
        /\ Mcp!Report[new] = "CANCELLED" => new = "cancelled"
        /\ Mcp!Report[new] # "ACCEPTED"
    BY <2>3 DEF Mcp!Report
  <2>5. PICK reply : Mcp!Answer(o, reply) /\ reply.status = Mcp!Report[new] /\ reply.of = {x}
    BY <2>1 DEF Mcp!Says
  <2>6. /\ remote' \in [RemoteTasks -> {"none", "working", "done", "cancelled"}]
        /\ Later(remote, remote') /\ remote'[x] = new
    BY <2>1, <2>2, <2>3, TaskMoves
  <2> QED  BY <1>1, <2>1, <2>4, <2>5, <2>6, Answers DEF Continues
<1>5. CASE Mcp!ServerConfuses(o)
  <2>1. PICK reply \in Mcp!Statements(exchange[o].kind) :
            /\ Mcp!Answer(o, reply)
            /\ misled' = IF exchange[o].kind = "POLL" /\ reply.status = "COMPLETED"
                         THEN misled \cup {exchange[o].handle} ELSE misled
    BY <1>5 DEF Mcp!ServerConfuses
  <2>2. UNCHANGED <<remote, discovery, manifests, record, told>>
    BY <1>5 DEF Mcp!ServerConfuses
  <2>3. /\ exchange[o].kind = "CANCEL" /\ reply.status = "CANCELLED" =>
              \A x \in reply.of : remote'[x] = "cancelled"
        /\ exchange[o].kind = "INVOKE" /\ reply.status = "ACCEPTED" =>
              \A x \in reply.of : x \in RemoteTasks /\ remote'[x] # "none"
    BY <2>2 DEF Mcp!Statements, Mcp!Says, Mcp!Tasks
  <2> QED  BY <1>1, <2>1, <2>2, <2>3, NoTaskMoves, Answers
<1> QED  BY <1>2, <1>3, <1>4, <1>5

\* A record is made, under a new handle, of the task the reply names.
LEMMA Invoked ==
    ASSUME McpInv, NEW o \in McpOperations, Mcp!EndInvoke(o) PROVE McpInv'
<1> DEFINE e == exchange[o]
<1>1. UNCHANGED <<discovery, manifests, remote, told, misled>>
      /\ exchange' = [exchange EXCEPT ![o] = Mcp!Waiting]
  BY DEF Mcp!EndInvoke, Mcp!Succeed, Mcp!Fail
<1>2. CASE UNCHANGED record
  BY <1>1, <1>2, Ends, SameManifests
<1>3. ASSUME e.at = "answered", e.kind = "INVOKE", e.reply.status = "ACCEPTED",
             NEW h \in Handles, NEW x \in e.reply.of, record[h] = Mcp!NoRecord,
             record' = [record EXCEPT ![h] = [run |-> e.run, manifest |-> e.manifest,
                                              state |-> "PENDING", task |-> x]]
      PROVE  McpInv'
  <2> DEFINE new == [run |-> e.run, manifest |-> e.manifest, state |-> "PENDING", task |-> x]
  <2>1. ExchangeInv(e, remote, record, misled)
    BY DEF McpInv
  <2>2. x \in RemoteTasks /\ remote[x] # "none" /\ e.run \in Runs /\ e.manifest \in Nat
    BY <1>3, <2>1 DEF ExchangeInv, ReplyInv
  <2>3. new \in RecordType /\ new.state = "PENDING" /\ new.task = x
    BY <2>2 DEF RecordType
  <2> HIDE DEF new
  <2>4. record \in [Handles -> RecordType \cup {Mcp!NoRecord}] /\ told[h] = {}
    BY <1>3 DEF McpInv, RecordsInv, Mcp!NoRecord
  <2>5. /\ record' \in [Handles -> RecordType \cup {Mcp!NoRecord}]
        /\ \A g \in Handles : record'[g] = IF g = h THEN new ELSE record[g]
    BY <1>3, <2>3, <2>4 DEF new
  <2>6. ASSUME NEW g \in Handles
        PROVE  /\ told[g] \subseteq {record'[g].state}
               /\ record'[g] # Mcp!NoRecord => remote[record'[g].task] # "none"
               /\ record'[g].state = "COMPLETED" => g \in misled \/ remote[record'[g].task] = "done"
               /\ record'[g].state = "CANCELLED" => remote[record'[g].task] = "cancelled"
    <3>1. CASE g = h
      BY <2>2, <2>3, <2>4, <2>5, <3>1
    <3>2. CASE g # h
      BY <2>5, <3>2 DEF McpInv, RecordsInv
    <3> QED  BY <3>1, <3>2
  <2>7. RecordsInv(remote', record', told', misled')
    BY <1>1, <2>5, <2>6 DEF McpInv, RecordsInv
  <2>8. Grown(record, record') /\ Later(remote, remote')
    BY <1>1, <1>3, <2>5 DEF Grown, Later
  <2>9. ExchangeInv(Mcp!Waiting, remote', record', misled')
    BY DEF ExchangeInv, Mcp!Waiting
  <2>10. ManifestInv' /\ misled \subseteq misled'
    BY <1>1, SameManifests
  <2> QED  BY <1>1, <2>7, <2>8, <2>9, <2>10, OneExchange
<1> QED  BY <1>2, <1>3 DEF Mcp!EndInvoke

\* A poll or a cancellation puts what it made of the record it read: a pending
\* record again, or one whose outcome is that of the remote task.
LEMMA Putting ==
    ASSUME McpInv, NEW o \in McpOperations, NEW h \in Handles, NEW new \in RecordType,
           record[h] # Mcp!NoRecord, new.task = record[h].task,
           new.state = "COMPLETED" => h \in misled \/ remote[new.task] = "done",
           new.state = "CANCELLED" => remote[new.task] = "cancelled",
           Mcp!Put(o, h, new), UNCHANGED <<remote, discovery, manifests, misled>>
    PROVE  McpInv'
<1>1. CASE UNCHANGED <<record, told>> /\ Mcp!Fail(o, "MCP_STATE_INVALID")
  BY <1>1, Ends, SameManifests DEF Mcp!Fail
<1>2. CASE /\ record[h] = new \/ record[h].state = "PENDING"
           /\ record' = [record EXCEPT ![h] = new]
           /\ told' = [told EXCEPT ![h] = @ \cup ({new.state} \ {"PENDING"})]
           /\ Mcp!Succeed(o)
  <2>1. /\ record \in [Handles -> RecordType \cup {Mcp!NoRecord}]
        /\ told \in [Handles -> SUBSET {"COMPLETED", "CANCELLED"}]
        /\ told[h] \subseteq {record[h].state} /\ remote[record[h].task] # "none"
    BY DEF McpInv, RecordsInv
  <2>2. /\ record' \in [Handles -> RecordType \cup {Mcp!NoRecord}]
        /\ \A g \in Handles : record'[g] = IF g = h THEN new ELSE record[g]
    BY <1>2, <2>1
  <2>3. new.state \in {"PENDING", "COMPLETED", "CANCELLED"} /\ new # Mcp!NoRecord
    BY DEF RecordType, Mcp!NoRecord
  <2>4. /\ told' \in [Handles -> SUBSET {"COMPLETED", "CANCELLED"}]
        /\ \A g \in Handles \ {h} : told'[g] = told[g]
        /\ told'[h] = told[h] \cup ({new.state} \ {"PENDING"})
    BY <1>2, <2>1, <2>3
  <2>5. told'[h] \subseteq {new.state}
    <3>1. CASE record[h].state = "PENDING"
      BY <2>1, <2>4, <3>1
    <3>2. CASE record[h] = new
      BY <2>1, <2>4, <3>2
    <3> QED  BY <1>2, <3>1, <3>2
  <2>6. ASSUME NEW g \in Handles
        PROVE  /\ told'[g] \subseteq {record'[g].state}
               /\ record'[g] # Mcp!NoRecord => remote[record'[g].task] # "none"
               /\ record'[g].state = "COMPLETED" => g \in misled \/ remote[record'[g].task] = "done"
               /\ record'[g].state = "CANCELLED" => remote[record'[g].task] = "cancelled"
    <3>1. CASE g = h
      BY <2>1, <2>2, <2>5, <3>1
    <3>2. CASE g # h
      BY <2>2, <2>4, <3>2 DEF McpInv, RecordsInv
    <3> QED  BY <3>1, <3>2
  <2>7. RecordsInv(remote', record', told', misled')
    BY <2>2, <2>4, <2>6 DEF McpInv, RecordsInv
  <2>8. Grown(record, record') /\ Later(remote, remote')
    BY <2>2, <2>3 DEF Grown, Later
  <2>9. ExchangeInv(Mcp!Waiting, remote', record', misled')
    BY DEF ExchangeInv, Mcp!Waiting
  <2>10. exchange' = [exchange EXCEPT ![o] = Mcp!Waiting]
    BY <1>2 DEF Mcp!Succeed
  <2>11. ManifestInv' /\ misled \subseteq misled'
    BY SameManifests
  <2> QED  BY <2>7, <2>8, <2>9, <2>10, <2>11, OneExchange
<1> QED  BY <1>1, <1>2 DEF Mcp!Put

\* What a poll or a cancellation has read keeps its shape with another state.
LEMMA Outcome ==
    ASSUME NEW r \in RecordType, NEW s \in {"PENDING", "COMPLETED", "CANCELLED"}
    PROVE  /\ [r EXCEPT !.state = s] \in RecordType
           /\ [r EXCEPT !.state = s].state = s /\ [r EXCEPT !.state = s].task = r.task
BY DEF RecordType

LEMMA Cancelled == ASSUME McpInv, NEW o \in McpOperations, Mcp!EndCancel(o) PROVE McpInv'
<1> DEFINE e == exchange[o]
           new == [e.rec EXCEPT !.state = "CANCELLED"]
<1>1. CASE UNCHANGED <<record, told>> /\ Mcp!Fail(o, "MCP_RESPONSE_INVALID")
  BY <1>1, Ends, SameManifests DEF Mcp!EndCancel, Mcp!Fail
<1>2. CASE /\ e.at = "answered" /\ e.kind = "CANCEL"
           /\ e.reply.status = "CANCELLED" /\ e.reply.of = {e.rec.task}
           /\ Mcp!Put(o, e.handle, new) /\ UNCHANGED <<remote, discovery, manifests, misled>>
  <2>1. /\ e.handle \in Handles /\ e.rec \in RecordType /\ record[e.handle] # Mcp!NoRecord
        /\ e.rec.task = record[e.handle].task /\ remote[e.rec.task] = "cancelled"
    BY <1>2 DEF McpInv, ExchangeInv, ReplyInv, Continues
  <2>2. new \in RecordType /\ new.state = "CANCELLED" /\ new.task = e.rec.task
    BY <2>1, Outcome
  <2> HIDE DEF e, new
  <2> QED  BY <1>2, <2>1, <2>2, Putting
<1> QED  BY <1>1, <1>2 DEF Mcp!EndCancel

LEMMA Polled == ASSUME McpInv, NEW o \in McpOperations, Mcp!EndPoll(o) PROVE McpInv'
<1> DEFINE e == exchange[o]
           new == [e.rec EXCEPT !.state = "COMPLETED"]
<1>1. CASE UNCHANGED <<record, told>> /\ Mcp!Fail(o, "MCP_RESPONSE_INVALID")
  BY <1>1, Ends, SameManifests DEF Mcp!EndPoll, Mcp!Fail
<1>2. CASE /\ e.at = "answered" /\ e.kind = "POLL"
           /\ Mcp!Put(o, e.handle, e.rec) /\ UNCHANGED <<remote, discovery, manifests, misled>>
  <2>1. /\ e.handle \in Handles /\ e.rec \in RecordType /\ record[e.handle] # Mcp!NoRecord
        /\ e.rec.task = record[e.handle].task /\ e.rec.state = "PENDING"
    BY <1>2 DEF McpInv, ExchangeInv, Continues
  <2> HIDE DEF e
  <2> QED  BY <1>2, <2>1, Putting
<1>3. CASE /\ e.at = "answered" /\ e.kind = "POLL" /\ e.reply.status = "COMPLETED"
           /\ Mcp!Put(o, e.handle, new) /\ UNCHANGED <<remote, discovery, manifests, misled>>
  <2>1. /\ e.handle \in Handles /\ e.rec \in RecordType /\ record[e.handle] # Mcp!NoRecord
        /\ e.rec.task = record[e.handle].task
        /\ e.handle \in misled \/ remote[e.rec.task] = "done"
    BY <1>3 DEF McpInv, ExchangeInv, ReplyInv, Continues
  <2>2. new \in RecordType /\ new.state = "COMPLETED" /\ new.task = e.rec.task
    BY <2>1, Outcome
  <2> HIDE DEF e, new
  <2> QED  BY <1>3, <2>1, <2>2, Putting
<1> QED  BY <1>1, <1>2, <1>3 DEF Mcp!EndPoll

LEMMA Finishes == ASSUME McpInv, NEW x \in RemoteTasks, Mcp!RemoteFinishes(x) PROVE McpInv'
<1>1. /\ remote' \in [RemoteTasks -> {"none", "working", "done", "cancelled"}]
      /\ Later(remote, remote')
  BY TaskMoves DEF Mcp!RemoteFinishes
<1>2. UNCHANGED <<discovery, manifests, record, told, misled, exchange>>
  BY DEF Mcp!RemoteFinishes
<1>3. PICK rm : rm = remote'
  OBVIOUS
<1>4. \A p \in McpOperations : ExchangeInv(exchange[p], rm, record, misled)
  BY <1>1, <1>3, Progress DEF McpInv, Grown
<1>5. \A h \in Handles : /\ record[h] # Mcp!NoRecord => record[h].task \in RemoteTasks
                         /\ record[h].state \in {"COMPLETED", "CANCELLED"} => record[h] # Mcp!NoRecord
  BY DEF McpInv, RecordsInv, RecordType, Mcp!NoRecord
<1>6. RecordsInv(remote', record, told, misled)
  BY <1>1, <1>5 DEF McpInv, RecordsInv, Later
<1> QED  BY <1>2, <1>3, <1>4, <1>6, SameManifests DEF McpInv

LEMMA Sent ==
    ASSUME McpInv, NEW o \in McpOperations, NEW r \in Runs,
           \/ Mcp!SendDiscover(o, r) \/ Mcp!SendInvoke(o, r)
           \/ \E k \in Continues, h \in Handles : Mcp!SendContinue(o, k, r, h)
    PROVE  McpInv'
<1>1. "DISCOVER" \notin Continues /\ "INVOKE" \notin Continues
  BY DEF Continues
<1>2. CASE Mcp!SendDiscover(o, r)
  BY <1>1, <1>2, Sends DEF Mcp!SendDiscover
<1>3. CASE Mcp!SendInvoke(o, r)
  <2>1. CASE Mcp!Send(o, "INVOKE", r, Mcp!NoHandle, Mcp!NoRecord)
    BY <1>1, <1>3, <2>1, Sends DEF Mcp!SendInvoke
  <2>2. CASE Mcp!Fail(o, "MCP_DISCOVERY_REQUIRED")
    BY <1>3, <2>2, Ends, SameManifests DEF Mcp!SendInvoke, Mcp!Fail
  <2> QED  BY <1>3, <2>1, <2>2 DEF Mcp!SendInvoke
<1>4. ASSUME NEW k \in Continues, NEW h \in Handles, Mcp!SendContinue(o, k, r, h)
      PROVE  McpInv'
  <2>1. CASE exchange' = [exchange EXCEPT ![o] = Mcp!Waiting]
    BY <1>4, <2>1, Ends, SameManifests DEF Mcp!SendContinue
  <2>2. CASE Mcp!RecordMatches(r, h) /\ record[h].state = "PENDING"
             /\ Mcp!Send(o, k, r, h, record[h])
    BY <1>4, <2>2, Sends DEF Mcp!SendContinue
  <2> QED  BY <1>4, <2>1, <2>2 DEF Mcp!SendContinue, Mcp!Fail
<1> QED  BY <1>2, <1>3, <1>4

LEMMA Discovered == ASSUME McpInv, NEW o \in McpOperations, Mcp!EndDiscover(o) PROVE McpInv'
<1>1. exchange[o].run \in Runs
  BY DEF Mcp!EndDiscover, McpInv, ExchangeInv
<1>2. ManifestInv'
  <2>1. CASE UNCHANGED <<discovery, manifests>>
    BY <2>1, SameManifests
  <2>2. CASE /\ manifests' = manifests + 1
             /\ discovery' = [discovery EXCEPT ![exchange[o].run] =
                                [id |-> manifests + 1, fresh |-> TRUE]]
    <3>1. /\ manifests \in Nat /\ discovery = [r \in Runs |-> discovery[r]]
          /\ \A r \in Runs : DOMAIN discovery[r] = {"id", "fresh"} /\ discovery[r].id \in Nat
      BY DEF McpInv, ManifestInv
    <3> DEFINE new == [id |-> manifests + 1, fresh |-> TRUE]
    <3>2. DOMAIN new = {"id", "fresh"} /\ new.id \in Nat /\ manifests' \in Nat
      BY <2>2, <3>1
    <3>3. discovery' = [discovery EXCEPT ![exchange[o].run] = new]
      BY <2>2
    <3> HIDE DEF new
    <3> QED  BY <1>1, <3>1, <3>2, <3>3 DEF ManifestInv
  <2> QED  BY <2>1, <2>2 DEF Mcp!EndDiscover
<1> QED  BY <1>2, Ends DEF Mcp!EndDiscover, Mcp!Succeed, Mcp!Fail

\* Callers of one handle agree on how its remote task ended, and that is how it
\* ended, whatever polls, cancellations, replies meant for other requests,
\* disconnections and discoveries come between, unless a poll was answered with the
\* completion of something else, which a COMPLETED reply does not show
\* (McpGateway._continue, _completed_output and the repository's put).
THEOREM RemoteAccounted == Mcp!Spec => []RemoteTaskIsAccounted
<1>1. Mcp!Init => McpInv
  BY DEF Mcp!Init, McpInv, ManifestInv, RecordsInv, ExchangeInv, Mcp!NoManifest,
         Mcp!NoRecord, Mcp!Waiting
<1>2. McpInv /\ [Mcp!Next]_(Mcp!mcpVars) => McpInv'
  <2> SUFFICES ASSUME McpInv, [Mcp!Next]_(Mcp!mcpVars) PROVE McpInv'
    OBVIOUS
  <2>1. ASSUME NEW o \in McpOperations, Mcp!CredentialFails(o) \/ Mcp!Disconnect(o)
        PROVE  McpInv'
    BY <2>1, Ends, SameManifests DEF Mcp!CredentialFails, Mcp!Disconnect, Mcp!Fail
  <2>2. ASSUME NEW o \in McpOperations, NEW r \in Runs,
               \/ Mcp!SendDiscover(o, r) \/ Mcp!SendInvoke(o, r)
               \/ \E k \in {"POLL", "CANCEL"}, h \in Handles : Mcp!SendContinue(o, k, r, h)
        PROVE  McpInv'
    BY <2>2, Sent DEF Continues
  <2>3. ASSUME NEW r \in Runs, Mcp!ManifestExpires(r) PROVE McpInv'
    <3>1. ManifestInv'
      BY <2>3 DEF Mcp!ManifestExpires, McpInv, ManifestInv
    <3> QED  BY <2>3, <3>1 DEF Mcp!ManifestExpires, McpInv
  <2>4. CASE UNCHANGED Mcp!mcpVars
    BY <2>4, SameManifests DEF Mcp!mcpVars, McpInv
  <2> QED  BY <2>1, <2>2, <2>3, <2>4, Served, Discovered, Invoked, Cancelled, Polled,
              Finishes DEF Mcp!Next
<1>3. McpInv => RemoteTaskIsAccounted
  BY DEF McpInv, RecordsInv, RemoteTaskIsAccounted, Mcp!RemoteTaskIsAccounted,
         Mcp!OneOutcomeTold, Mcp!RecordMatchesRemote
<1> QED  BY <1>1, <1>2, <1>3, PTL DEF Mcp!Spec

-----------------------------------------------------------------------------
(* The tool gateway.                                                        *)

BoundType == [tool : Tools, key : Keys \cup {NoKey}, input : ValidInputs]

EntryType == [input : ValidInputs, result : {Gw!Uncommitted} \cup ({"SUCCESS"} \X ToolCalls)]

\* An invocation under way, or that ended without a result after it claimed its key.
Holding(e) == e.at \in {"waiting", "running", "refused", "raised"}

\* Such an invocation, with this key of this tool.
Claims(e, t, k) == Holding(e) /\ e.req.tool = t /\ e.req.key = k

HasEffects(reg, t) == reg[t].sideEffect # "READ_ONLY"

\* What is registered passed the validation of the SDK and of the registry.
RegisteredInv ==
    \A t \in Tools :
        /\ Gw!ValidRegistration(registered[t])
        /\ Gw!ValidDefinition(Gw!AdapterToolDefinition(registered[t]))

\* A keyed invocation that holds its key has an uncommitted journal entry, and while
\* it waits for a permit no adapter ran for its key; one that returned a success
\* returned what the journal holds; one was refused for the size of its result.
InvocationInv(reg, e, jn, runs) ==
    /\ e.at \in {"idle", "denied", "waiting", "running", "refused", "returned", "raised"}
    /\ e.at \in {"waiting", "running", "refused", "returned", "raised"} => e.req \in BoundType
    /\ e.at = "refused" => e.output = "oversize"
    /\ Holding(e) /\ HasEffects(reg, e.req.tool) => e.req.key # NoKey
    /\ Holding(e) /\ e.req.key # NoKey =>
          jn[<<e.req.tool, e.req.key>>] = [input |-> e.req.input, result |-> Gw!Uncommitted]
    /\ e.at = "waiting" /\ e.req.key # NoKey =>
          \A i \in ValidInputs : runs[<<e.req.tool, e.req.key, i>>] = 0
    /\ e.at = "returned" /\ e.req.key # NoKey /\ e.result[1] = "SUCCESS" =>
          jn[<<e.req.tool, e.req.key>>] = [input |-> e.req.input, result |-> e.result]

\* No adapter ran for a key the journal does not know, and one at most for any key;
\* a tool with effects does not run without a key.
RunsInv(reg, jn, runs) ==
    /\ jn \in [Tools \X Keys -> EntryType \cup {Gw!Absent}]
    /\ runs \in [Tools \X (Keys \cup {NoKey}) \X ValidInputs -> Nat]
    /\ \A t \in Tools, k \in Keys \ {NoKey} :
          /\ jn[<<t, k>>] = Gw!Absent => \A i \in ValidInputs : runs[<<t, k, i>>] = 0
          /\ \A i \in ValidInputs : runs[<<t, k, i>>] <= 1
          /\ \A i, j \in ValidInputs :
                runs[<<t, k, i>>] = 1 /\ runs[<<t, k, j>>] = 1 => i = j
    /\ \A t \in Tools, i \in ValidInputs :
          HasEffects(reg, t) => runs[<<t, NoKey, i>>] = 0

\* A key is claimed by one invocation at a time.
ClaimInv ==
    \A c, d \in ToolCalls :
        /\ Holding(toolCall[c]) /\ toolCall[c].req.key # NoKey
        /\ Claims(toolCall[d], toolCall[c].req.tool, toolCall[c].req.key)
        => c = d

ToolInv ==
    /\ RegisteredInv
    /\ toolCall = [c \in ToolCalls |-> toolCall[c]]
    /\ \A c \in ToolCalls : InvocationInv(registered, toolCall[c], journal, adapterRuns)
    /\ RunsInv(registered, journal, adapterRuns)
    /\ ClaimInv

LEMMA AbsentIs ==
    /\ \A e \in EntryType : e # Gw!Absent
    /\ \A x \in ToolCalls : <<"SUCCESS", x>> # Gw!Uncommitted
    /\ Gw!Uncommitted[1] # "SUCCESS"
    /\ \A x, y : [input |-> x, result |-> y] # Gw!Absent
BY DEF EntryType, Gw!Absent, Gw!Uncommitted

\* The other invocations do not notice what happens to a key that is new or that
\* another one claims.
LEMMA OthersStay ==
    ASSUME NEW reg, NEW e, NEW jn, NEW runs, NEW jn2, NEW runs2,
           InvocationInv(reg, e, jn, runs), NEW t, NEW k, ~Claims(e, t, k),
           \A x : x # <<t, k>> => jn2[x] = jn[x],
           \A u, l, i : <<u, l>> # <<t, k>> => runs2[<<u, l, i>>] = runs[<<u, l, i>>],
           jn[<<t, k>>] = Gw!Absent \/ jn[<<t, k>>].result = Gw!Uncommitted
    PROVE  InvocationInv(reg, e, jn2, runs2)
<1>1. Holding(e) => <<e.req.tool, e.req.key>> # <<t, k>>
  BY DEF Claims
<1>2. CASE e.at = "returned" /\ e.req.key # NoKey /\ e.result[1] = "SUCCESS"
  <2>1. jn[<<e.req.tool, e.req.key>>] = [input |-> e.req.input, result |-> e.result]
    BY <1>2 DEF InvocationInv
  <2>2. e.result # Gw!Uncommitted
    BY <1>2, AbsentIs
  <2>3. <<e.req.tool, e.req.key>> # <<t, k>>
    BY <2>1, <2>2, AbsentIs
  <2> QED  BY <1>2, <2>1, <2>3 DEF InvocationInv, Holding
<1>3. CASE ~(e.at = "returned" /\ e.req.key # NoKey /\ e.result[1] = "SUCCESS")
  BY <1>1, <1>3 DEF InvocationInv, Holding
<1> QED  BY <1>2, <1>3

\* One invocation moves to e, and of journal and runs at most its key changes.
LEMMA OneInvocation ==
    ASSUME ToolInv, NEW c \in ToolCalls, NEW e, toolCall' = [toolCall EXCEPT ![c] = e],
           UNCHANGED registered,
           InvocationInv(registered, e, journal', adapterRuns'),
           RunsInv(registered, journal', adapterRuns'),
           \A d \in ToolCalls \ {c} : InvocationInv(registered, toolCall[d], journal', adapterRuns'),
           \A d \in ToolCalls \ {c} : Holding(e) /\ e.req.key # NoKey =>
               ~Claims(toolCall[d], e.req.tool, e.req.key)
    PROVE  ToolInv'
<1>1. toolCall' = [d \in ToolCalls |-> toolCall'[d]]
  BY DEF ToolInv
<1>2. \A d \in ToolCalls : toolCall'[d] = IF d = c THEN e ELSE toolCall[d]
  BY DEF ToolInv
<1>3. \A d \in ToolCalls : InvocationInv(registered, toolCall'[d], journal', adapterRuns')
  BY <1>2
<1>4. ClaimInv'
  BY <1>2 DEF ToolInv, ClaimInv, Claims
<1>5. RegisteredInv'
  BY DEF ToolInv, RegisteredInv, Gw!ValidRegistration, Gw!ValidDefinition, Gw!AdapterToolDefinition
<1> QED  BY <1>1, <1>3, <1>4, <1>5 DEF ToolInv

\* An invocation that is over or takes part no more, with nothing recorded.
LEMMA Retires ==
    ASSUME ToolInv, NEW c \in ToolCalls, NEW e, toolCall' = [toolCall EXCEPT ![c] = e],
           InvocationInv(registered, e, journal, adapterRuns), ~Holding(e),
           UNCHANGED <<registered, journal, adapterRuns>>
    PROVE  ToolInv'
<1>1. /\ RunsInv(registered, journal', adapterRuns')
      /\ InvocationInv(registered, e, journal', adapterRuns')
      /\ \A d \in ToolCalls : InvocationInv(registered, toolCall[d], journal', adapterRuns')
  BY DEF ToolInv
<1> QED  BY <1>1, OneInvocation

LEMMA Denied ==
    ASSUME ToolInv, NEW c \in ToolCalls, Gw!DenyFunction(c) \/ Gw!DenyInvoke(c) PROVE ToolInv'
<1> DEFINE e == [at |-> "denied"]
<1>1. InvocationInv(registered, e, journal, adapterRuns) /\ ~Holding(e)
  BY DEF InvocationInv, Holding
<1>2. toolCall' = [toolCall EXCEPT ![c] = e] /\ UNCHANGED <<registered, journal, adapterRuns>>
  BY DEF Gw!DenyFunction, Gw!DenyInvoke, Gw!Deny
<1> HIDE DEF e
<1> QED  BY <1>1, <1>2, Retires

LEMMA Replayed == ASSUME ToolInv, NEW c \in ToolCalls, Gw!Replay(c) PROVE ToolInv'
<1>1. PICK r \in Gw!Requests :
          /\ Gw!FunctionAdmits(r) /\ Gw!Entry(r) # Gw!Absent /\ ~Gw!JournalRefuses(r)
          /\ toolCall' = [toolCall EXCEPT ![c] =
               [at |-> "returned", req |-> Gw!Bound(r), result |-> Gw!Entry(r).result]]
  BY DEF Gw!Replay
<1> DEFINE e == [at |-> "returned", req |-> Gw!Bound(r), result |-> Gw!Entry(r).result]
<1>2. r.tool \in Tools /\ r.key \in Keys \cup {NoKey} /\ r.input \in ValidInputs
  BY <1>1 DEF Gw!Requests, Gw!FunctionAdmits
<1>3. r.key \in Keys /\ Gw!Entry(r) = journal[<<r.tool, r.key>>]
  BY <1>1, <1>2 DEF Gw!Entry
<1>4. Gw!Entry(r) \in EntryType /\ Gw!Entry(r).input = r.input
  BY <1>1, <1>2, <1>3 DEF ToolInv, RunsInv, Gw!JournalRefuses
<1>5. Gw!Entry(r) = [input |-> r.input, result |-> Gw!Entry(r).result]
  BY <1>4 DEF EntryType
<1>6. e.at = "returned" /\ e.req = Gw!Bound(r) /\ e.result = Gw!Entry(r).result
  OBVIOUS
<1>7. Gw!Bound(r) \in BoundType /\ Gw!Bound(r).tool = r.tool /\ Gw!Bound(r).key = r.key
      /\ Gw!Bound(r).input = r.input
  BY <1>2 DEF BoundType, Gw!Bound
<1> HIDE DEF e
<1>8. InvocationInv(registered, e, journal, adapterRuns) /\ ~Holding(e)
  BY <1>3, <1>5, <1>6, <1>7 DEF InvocationInv, Holding
<1>9. UNCHANGED <<registered, journal, adapterRuns>>
  BY DEF Gw!Replay
<1> QED  BY <1>1, <1>8, <1>9, Retires DEF e

\* An invocation under way ends without a result, and keeps its key closed.
LEMMA EndsOpen ==
    ASSUME ToolInv, NEW c \in ToolCalls, toolCall[c].at \in {"waiting", "running"},
           NEW e, toolCall' = [toolCall EXCEPT ![c] = e], e.req = toolCall[c].req,
           e.at \in {"refused", "raised"}, e.at = "refused" => e.output = "oversize",
           UNCHANGED <<registered, journal, adapterRuns>>
    PROVE  ToolInv'
<1>1. /\ RunsInv(registered, journal, adapterRuns) /\ ClaimInv
      /\ \A d \in ToolCalls : InvocationInv(registered, toolCall[d], journal, adapterRuns)
  BY DEF ToolInv
<1>2. InvocationInv(registered, e, journal, adapterRuns)
  BY <1>1 DEF InvocationInv, Holding
<1>3. \A d \in ToolCalls \ {c} : e.req.key # NoKey => ~Claims(toolCall[d], e.req.tool, e.req.key)
  BY <1>1 DEF ClaimInv, Holding
<1>4. /\ RunsInv(registered, journal', adapterRuns')
      /\ InvocationInv(registered, e, journal', adapterRuns')
      /\ \A d \in ToolCalls : InvocationInv(registered, toolCall[d], journal', adapterRuns')
  BY <1>1, <1>2
<1> QED  BY <1>3, <1>4, OneInvocation

LEMMA Raised == ASSUME ToolInv, NEW c \in ToolCalls, Gw!Raise(c) PROVE ToolInv'
<1> DEFINE e == [toolCall[c] EXCEPT !.at = "raised"]
<1>1. /\ toolCall' = [toolCall EXCEPT ![c] = e] /\ UNCHANGED <<registered, journal, adapterRuns>>
      /\ toolCall[c].at \in {"waiting", "running"}
  BY DEF Gw!Raise
<1>2. e.req = toolCall[c].req /\ (e.at = "raised" \/ e = toolCall[c])
  OBVIOUS
<1>3. CASE e.at = "raised"
  <2> HIDE DEF e
  <2> QED  BY <1>1, <1>2, <1>3, EndsOpen
<1>4. CASE e = toolCall[c]
  <2> HIDE DEF e
  <2>1. toolCall' = toolCall
    BY <1>1, <1>4 DEF ToolInv
  <2> QED  BY <1>1, <2>1 DEF ToolInv, RegisteredInv, ClaimInv
<1> QED  BY <1>2, <1>3, <1>4

\* Whatever the provider does, the registry accepts the result of its adapter but for
\* its size, and its own timeout result.
LEMMA Accepted ==
    ASSUME ToolInv, NEW t \in Tools
    PROVE  /\ \A p \in Gw!ProviderActs :
                 \/ Gw!ResultValid(t, Gw!Execute(registered[t], p))
                 \/ Gw!Execute(registered[t], p).output = "oversize"
           /\ Gw!ResultValid(t, Gw!Result("TIMEOUT", "TOOL_TIMEOUT",
                                         Gw!published[t].recovery = "RETRY_READ_ONLY", "empty"))
<1> DEFINE r == registered[t]
<1>1. /\ Gw!published[t].errors = r.errors \cup Gw!StandardAdapterErrors
      /\ Gw!published[t].sideEffect = r.sideEffect
      /\ Gw!published[t].recovery = r.recovery
  BY DEF Gw!published, Gw!AdapterToolDefinition
<1>2. r.recovery = "RETRY_READ_ONLY" => r.sideEffect = "READ_ONLY"
  BY DEF ToolInv, RegisteredInv, Gw!ValidRegistration
<1>3. {"ADAPTER_PROVIDER_FAILED", "ADAPTER_RESPONSE_INVALID", "ADAPTER_OUTPUT_INVALID",
       "ADAPTER_PROVENANCE_INVALID", "ADAPTER_ARTIFACT_INVALID"} \subseteq Gw!StandardAdapterErrors
  BY DEF Gw!StandardAdapterErrors
<1> HIDE DEF r
<1>4. ASSUME NEW p \in Gw!ProviderActs
      PROVE  Gw!ResultValid(t, Gw!Execute(r, p)) \/ Gw!Execute(r, p).output = "oversize"
  <2>1. p.kind \in {"reply", "error", "raise"} /\ (p.kind = "error" => p.code # Gw!NoCode)
    <3>1. CASE p \in Gw!Deviations
      BY <3>1 DEF Gw!Deviations, Gw!GoodReply
    <3>2. CASE p \in Gw!Shortfalls
      BY <3>2 DEF Gw!Shortfalls
    <3>3. CASE p \in Gw!ProviderErrors
      BY <3>3 DEF Gw!ProviderErrors, Gw!GoodReply, Gw!NoCode
    <3> QED  BY <3>1, <3>2, <3>3 DEF Gw!ProviderActs
  <2>2. CASE p.kind = "raise"
    <3>1. PICK b : b = Gw!RetryAllowed(r)
      OBVIOUS
    <3>2. Gw!Execute(r, p) = [status |-> "FAILED", code |-> "ADAPTER_PROVIDER_FAILED", retryable |-> b,
                             output |-> "envelope"]
      BY <2>2, <3>1 DEF Gw!Execute, Gw!Failure, Gw!Result
    <3>3. b => r.sideEffect = "READ_ONLY" /\ r.recovery = "RETRY_READ_ONLY"
      BY <3>1 DEF Gw!RetryAllowed
    <3> QED  BY <1>1, <1>3, <3>2, <3>3 DEF Gw!ResultValid, Gw!NoCode
  <2>3. CASE p.kind = "error"
    <3>1. PICK code, status, b :
              /\ Gw!Execute(r, p) = [status |-> status, code |-> code, retryable |-> b,
                                     output |-> "envelope"]
              /\ status \notin {"SUCCESS", "TIMEOUT"}
              /\ \/ code = p.code /\ p.code \in r.errors \cup Gw!StandardAdapterErrors
                 \/ code = "ADAPTER_RESPONSE_INVALID"
              /\ b => r.sideEffect = "READ_ONLY" /\ r.recovery = "RETRY_READ_ONLY"
      <4> DEFINE code == IF p.code \in r.errors \cup Gw!StandardAdapterErrors THEN p.code
                         ELSE "ADAPTER_RESPONSE_INVALID"
                 status == IF code = "ADAPTER_PROVIDER_UNAVAILABLE" THEN "BLOCKED" ELSE "FAILED"
                 b == p.retryable /\ Gw!RetryAllowed(r) /\ code # "ADAPTER_RESPONSE_INVALID"
      <4>1. Gw!Execute(r, p) = [status |-> status, code |-> code, retryable |-> b,
                               output |-> "envelope"]
        BY <2>3 DEF Gw!Execute, Gw!ProviderError, Gw!Failure, Gw!Result
      <4>2. status \notin {"SUCCESS", "TIMEOUT"}
        OBVIOUS
      <4>3. \/ code = p.code /\ p.code \in r.errors \cup Gw!StandardAdapterErrors
            \/ code = "ADAPTER_RESPONSE_INVALID"
        OBVIOUS
      <4>4. b => r.sideEffect = "READ_ONLY" /\ r.recovery = "RETRY_READ_ONLY"
        BY DEF Gw!RetryAllowed
      <4> HIDE DEF code, status, b
      <4> QED  BY <4>1, <4>2, <4>3, <4>4
    <3> QED  BY <1>1, <1>3, <2>1, <2>3, <3>1 DEF Gw!ResultValid, Gw!NoCode
  <2>4. CASE p.kind = "reply" /\ Gw!ReplyError(r, p) = Gw!NoCode
    <3>1. /\ Gw!Execute(r, p) = [status |-> p.status, code |-> p.code, retryable |-> p.retryable,
                                output |-> Gw!Envelope(p)]
          /\ Gw!Envelope(p) \in {"envelope", "oversize"}
      BY <2>4 DEF Gw!Execute, Gw!Result, Gw!Envelope
    <3>2. /\ Gw!ConsistentReply(p)
          /\ p.code # Gw!NoCode => p.code \in r.errors \cup Gw!StandardAdapterErrors
          /\ p.retryable => Gw!RetryAllowed(r)
      BY <2>4 DEF Gw!ReplyError, Gw!NoCode
    <3> QED  BY <1>1, <1>2, <3>1, <3>2 DEF Gw!ResultValid, Gw!RetryAllowed, Gw!ConsistentReply
  <2>5. CASE p.kind = "reply" /\ Gw!ReplyError(r, p) # Gw!NoCode
    <3>1. Gw!Execute(r, p) = [status |-> "FAILED", code |-> Gw!ReplyError(r, p), retryable |-> FALSE,
                             output |-> "envelope"]
      BY <2>5 DEF Gw!Execute, Gw!Failure, Gw!Result
    <3>2. Gw!ReplyError(r, p) \in Gw!StandardAdapterErrors
      BY <1>3, <2>5 DEF Gw!ReplyError
    <3> QED  BY <1>1, <2>5, <3>1, <3>2 DEF Gw!ResultValid, Gw!NoCode
  <2> QED  BY <2>1, <2>2, <2>3, <2>4, <2>5
<1>5. Gw!ResultValid(t, Gw!Result("TIMEOUT", "TOOL_TIMEOUT", r.recovery = "RETRY_READ_ONLY", "empty"))
  BY <1>1, <1>2 DEF Gw!ResultValid, Gw!Result, Gw!NoCode
<1> QED  BY <1>1, <1>4, <1>5 DEF r

\* The first run of an adapter for a key that the journal knows, or one of a tool
\* without effects and without a key.
LEMMA FirstRun ==
    ASSUME NEW reg, NEW jn, NEW runs, RunsInv(reg, jn, runs), NEW r \in BoundType,
           r.key # NoKey => /\ jn[<<r.tool, r.key>>] # Gw!Absent
                            /\ \A i \in ValidInputs : runs[<<r.tool, r.key, i>>] = 0,
           HasEffects(reg, r.tool) => r.key # NoKey
    PROVE  RunsInv(reg, jn, [runs EXCEPT ![<<r.tool, r.key, r.input>>] = runs[<<r.tool, r.key, r.input>>] + 1])
<1> DEFINE n == runs[<<r.tool, r.key, r.input>>] + 1
           next == [runs EXCEPT ![<<r.tool, r.key, r.input>>] = n]
<1>1. <<r.tool, r.key, r.input>> \in Tools \X (Keys \cup {NoKey}) \X ValidInputs
  BY DEF BoundType
<1>2. n \in Nat /\ (r.key # NoKey => n = 1)
  BY <1>1 DEF RunsInv, BoundType
<1> HIDE DEF n
<1>3. /\ next \in [Tools \X (Keys \cup {NoKey}) \X ValidInputs -> Nat]
      /\ \A t \in Tools, k \in Keys \cup {NoKey}, i \in ValidInputs :
            next[<<t, k, i>>] = IF t = r.tool /\ k = r.key /\ i = r.input THEN n
                                ELSE runs[<<t, k, i>>]
  BY <1>1, <1>2 DEF RunsInv
<1> HIDE DEF next
<1>4. ASSUME NEW t \in Tools, NEW k \in Keys \ {NoKey}
      PROVE  /\ jn[<<t, k>>] = Gw!Absent => \A i \in ValidInputs : next[<<t, k, i>>] = 0
             /\ \A i \in ValidInputs : next[<<t, k, i>>] <= 1
             /\ \A i, j \in ValidInputs : next[<<t, k, i>>] = 1 /\ next[<<t, k, j>>] = 1 => i = j
  <2>1. CASE t = r.tool /\ k = r.key
    BY <1>2, <1>3, <2>1
  <2>2. CASE ~(t = r.tool /\ k = r.key)
    BY <1>3, <2>2 DEF RunsInv
  <2> QED  BY <2>1, <2>2
<1>5. \A t \in Tools, i \in ValidInputs : HasEffects(reg, t) => next[<<t, NoKey, i>>] = 0
  BY <1>3 DEF RunsInv
<1>6. jn \in [Tools \X Keys -> EntryType \cup {Gw!Absent}]
  BY DEF RunsInv
<1> QED  BY <1>3, <1>4, <1>5, <1>6 DEF RunsInv, n, next

\* A journal that grows by an entry, or commits one, keeps what the runs promise.
LEMMA Journalled ==
    ASSUME NEW reg, NEW jn, NEW runs, RunsInv(reg, jn, runs),
           NEW x \in Tools \X Keys, NEW entry \in EntryType
    PROVE  RunsInv(reg, [jn EXCEPT ![x] = entry], runs)
<1> DEFINE next == [jn EXCEPT ![x] = entry]
<1>1. /\ next \in [Tools \X Keys -> EntryType \cup {Gw!Absent}]
      /\ \A t \in Tools, k \in Keys : next[<<t, k>>] = Gw!Absent => jn[<<t, k>>] = Gw!Absent
  BY AbsentIs DEF RunsInv
<1> HIDE DEF next
<1>2. RunsInv(reg, next, runs)
  BY <1>1 DEF RunsInv
<1> QED  BY <1>2 DEF next

\* Runs without a key disturb no other invocation.
LEMMA KeylessRun ==
    ASSUME NEW reg, NEW e, NEW jn, NEW runs, NEW runs2, InvocationInv(reg, e, jn, runs),
           \A u, l, i : l # NoKey => runs2[<<u, l, i>>] = runs[<<u, l, i>>]
    PROVE  InvocationInv(reg, e, jn, runs2)
BY DEF InvocationInv

\* An adapter starts for the invocation e of c, whose key is new or c's own.
LEMMA AdapterStarts ==
    ASSUME ToolInv, NEW c \in ToolCalls, NEW jn, NEW e, e.req \in BoundType, e.at = "running",
           RunsInv(registered, jn, adapterRuns),
           HasEffects(registered, e.req.tool) => e.req.key # NoKey,
           e.req.key # NoKey =>
               /\ jn[<<e.req.tool, e.req.key>>] = [input |-> e.req.input, result |-> Gw!Uncommitted]
               /\ \A i \in ValidInputs : adapterRuns[<<e.req.tool, e.req.key, i>>] = 0
               /\ \A d \in ToolCalls \ {c} : ~Claims(toolCall[d], e.req.tool, e.req.key),
           \A d \in ToolCalls \ {c} : InvocationInv(registered, toolCall[d], jn, adapterRuns),
           toolCall' = [toolCall EXCEPT ![c] = e], journal' = jn, UNCHANGED registered,
           Gw!RunAdapter(e.req)
    PROVE  ToolInv'
<1> DEFINE r == e.req
           runs == [adapterRuns EXCEPT ![<<r.tool, r.key, r.input>>] =
                      adapterRuns[<<r.tool, r.key, r.input>>] + 1]
<1>1. adapterRuns' = runs
  BY DEF Gw!RunAdapter
<1>2. RunsInv(registered, jn, runs)
  BY AbsentIs, FirstRun
<1>3. /\ \A u, l, i : <<u, l>> # <<r.tool, r.key>> => runs[<<u, l, i>>] = adapterRuns[<<u, l, i>>]
      /\ r.key = NoKey => \A u, l, i : l # NoKey => runs[<<u, l, i>>] = adapterRuns[<<u, l, i>>]
  BY DEF RunsInv
<1> HIDE DEF runs
<1>4. InvocationInv(registered, e, jn, runs)
  BY DEF InvocationInv, Holding
<1>5. ASSUME NEW d \in ToolCalls \ {c} PROVE InvocationInv(registered, toolCall[d], jn, runs)
  <2>1. CASE r.key = NoKey
    BY <1>3, <2>1, KeylessRun
  <2>2. CASE r.key # NoKey
    <3>1. jn[<<r.tool, r.key>>].result = Gw!Uncommitted
      BY <2>2
    <3>2. ~Claims(toolCall[d], r.tool, r.key)
      BY <2>2
    <3> QED  BY <1>3, <3>1, <3>2, OthersStay
  <2> QED  BY <2>1, <2>2
<1> QED  BY <1>1, <1>2, <1>4, <1>5, OneInvocation

LEMMA Acquired == ASSUME ToolInv, NEW c \in ToolCalls, Gw!Acquire(c) PROVE ToolInv'
<1> DEFINE e == [toolCall[c] EXCEPT !.at = "running"]
<1>1. /\ toolCall[c].at = "waiting" /\ UNCHANGED <<registered, journal>>
      /\ toolCall' = [toolCall EXCEPT ![c] = e] /\ Gw!RunAdapter(toolCall[c].req)
  BY DEF Gw!Acquire
<1>2. e.at = "running" \/ e = toolCall[c]
  OBVIOUS
<1>3. e.req = toolCall[c].req
  OBVIOUS
<1>4. e.at = "running"
  OBVIOUS
<1> HIDE DEF e
<1>5. /\ InvocationInv(registered, toolCall[c], journal, adapterRuns)
      /\ RunsInv(registered, journal, adapterRuns) /\ ClaimInv
      /\ \A d \in ToolCalls : InvocationInv(registered, toolCall[d], journal, adapterRuns)
  BY DEF ToolInv
<1>6. /\ e.req \in BoundType
      /\ HasEffects(registered, e.req.tool) => e.req.key # NoKey
      /\ e.req.key # NoKey =>
            /\ journal[<<e.req.tool, e.req.key>>] = [input |-> e.req.input, result |-> Gw!Uncommitted]
            /\ \A i \in ValidInputs : adapterRuns[<<e.req.tool, e.req.key, i>>] = 0
  BY <1>1, <1>3, <1>5 DEF InvocationInv, Holding
<1>7. e.req.key # NoKey => \A d \in ToolCalls \ {c} : ~Claims(toolCall[d], e.req.tool, e.req.key)
  BY <1>1, <1>3, <1>5 DEF ClaimInv, Holding
<1>8. Gw!RunAdapter(e.req)
  BY <1>1, <1>3
<1> QED  BY <1>1, <1>4, <1>5, <1>6, <1>7, <1>8, AdapterStarts

LEMMA Started == ASSUME ToolInv, NEW c \in ToolCalls, Gw!Start(c) PROVE ToolInv'
<1>1. PICK r \in Gw!Requests :
          /\ Gw!FunctionAdmits(r) /\ Gw!Preflight(r) /\ Gw!Entry(r) = Gw!Absent
          /\ journal' = IF r.key = NoKey THEN journal
                        ELSE [journal EXCEPT ![<<r.tool, r.key>>] =
                                [input |-> r.input, result |-> Gw!Uncommitted]]
          /\ toolCall' = [toolCall EXCEPT ![c] =
               [at |-> IF Gw!Free(r.tool) THEN "running" ELSE "waiting", req |-> Gw!Bound(r)]]
          /\ IF Gw!Free(r.tool) THEN Gw!RunAdapter(r) ELSE UNCHANGED adapterRuns
  BY DEF Gw!Start
<1> DEFINE q == Gw!Bound(r)
           e == [at |-> IF Gw!Free(r.tool) THEN "running" ELSE "waiting", req |-> q]
           entry == [input |-> r.input, result |-> Gw!Uncommitted]
           jn == IF r.key = NoKey THEN journal ELSE [journal EXCEPT ![<<r.tool, r.key>>] = entry]
<1>2. /\ r.tool \in Tools /\ r.key \in Keys \cup {NoKey} /\ r.input \in ValidInputs
      /\ q \in BoundType /\ q.tool = r.tool /\ q.key = r.key /\ q.input = r.input
  BY <1>1 DEF Gw!Requests, Gw!FunctionAdmits, Gw!Bound, BoundType
<1>3. UNCHANGED registered
  BY DEF Gw!Start
<1>4. e.req = q /\ e.at \in {"waiting", "running"}
  OBVIOUS
<1>5. HasEffects(registered, r.tool) => r.key # NoKey
  BY <1>1, <1>2 DEF HasEffects, ToolInv, RegisteredInv, Gw!ValidRegistration, Gw!Preflight,
                    Gw!published, Gw!AdapterToolDefinition
<1>6. /\ RunsInv(registered, journal, adapterRuns)
      /\ \A d \in ToolCalls : InvocationInv(registered, toolCall[d], journal, adapterRuns)
  BY DEF ToolInv
<1>7. r.key # NoKey => /\ journal[<<r.tool, r.key>>] = Gw!Absent
                       /\ \A i \in ValidInputs : adapterRuns[<<r.tool, r.key, i>>] = 0
  BY <1>1, <1>2, <1>6 DEF Gw!Entry, RunsInv
<1>8. r.key # NoKey => \A d \in ToolCalls : ~Claims(toolCall[d], r.tool, r.key)
  <2> SUFFICES ASSUME NEW d \in ToolCalls, r.key # NoKey, Claims(toolCall[d], r.tool, r.key)
                PROVE  FALSE
    OBVIOUS
  <2>1. journal[<<r.tool, r.key>>] = [input |-> toolCall[d].req.input, result |-> Gw!Uncommitted]
    BY <1>6 DEF Claims, InvocationInv
  <2> QED  BY <1>7, <2>1, AbsentIs
<1>9. entry \in EntryType
  BY <1>2 DEF EntryType
<1>10. jn \in [Tools \X Keys -> EntryType \cup {Gw!Absent}] /\ RunsInv(registered, jn, adapterRuns)
  <2> HIDE DEF entry
  <2>1. CASE r.key = NoKey
    BY <1>6, <2>1 DEF RunsInv
  <2>2. CASE r.key # NoKey
    <3>1. <<r.tool, r.key>> \in Tools \X Keys
      BY <1>2, <2>2
    <3>2. RunsInv(registered, [journal EXCEPT ![<<r.tool, r.key>>] = entry], adapterRuns)
      BY <1>6, <1>9, <3>1, Journalled
    <3> QED  BY <2>2, <3>2 DEF RunsInv
  <2> QED  BY <2>1, <2>2
<1>11. /\ r.key # NoKey => jn[<<r.tool, r.key>>] = entry
       /\ \A x : x # <<r.tool, r.key>> => jn[x] = journal[x]
       /\ r.key = NoKey => jn = journal
  BY <1>2, <1>6 DEF RunsInv
<1>12. journal' = jn
  BY <1>1
<1>13. toolCall' = [toolCall EXCEPT ![c] = e]
  BY <1>1
<1> HIDE DEF jn
<1>14. \A d \in ToolCalls : InvocationInv(registered, toolCall[d], jn, adapterRuns)
  <2>1. CASE r.key = NoKey
    BY <1>6, <1>11, <2>1
  <2>2. CASE r.key # NoKey
    BY <1>6, <1>7, <1>8, <1>11, <2>2, OthersStay
  <2> QED  BY <2>1, <2>2
<1>15. CASE Gw!Free(r.tool)
  <2>1. e.at = "running" /\ Gw!RunAdapter(r)
    BY <1>1, <1>15
  <2> HIDE DEF e, q
  <2>2. Gw!RunAdapter(e.req)
    BY <1>2, <1>4, <2>1 DEF Gw!RunAdapter
  <2> QED  BY <1>2, <1>3, <1>4, <1>5, <1>7, <1>8, <1>10, <1>11, <1>12, <1>13, <1>14, <2>1, <2>2,
              AdapterStarts
<1>16. CASE ~Gw!Free(r.tool)
  <2>1. e.at = "waiting" /\ adapterRuns' = adapterRuns
    BY <1>1, <1>16
  <2> HIDE DEF e, q
  <2>2. InvocationInv(registered, e, jn, adapterRuns)
    BY <1>2, <1>4, <1>5, <1>7, <1>11, <2>1 DEF InvocationInv, Holding
  <2> QED  BY <1>2, <1>3, <1>4, <1>8, <1>10, <1>12, <1>13, <1>14, <2>1, <2>2, OneInvocation
<1> QED  BY <1>15, <1>16

LEMMA Settles ==
    ASSUME ToolInv, NEW c \in ToolCalls, NEW res, toolCall[c].at = "running", Gw!Settle(c, res),
           Gw!ResultValid(toolCall[c].req.tool, res)
    PROVE  ToolInv'
<1> DEFINE r == toolCall[c].req
           result == <<res.status, c>>
           e == [at |-> "returned", req |-> r, result |-> result, output |-> res.output]
           entry == [input |-> r.input, result |-> result]
           commits == r.key # NoKey /\ res.status = "SUCCESS"
           jn == IF commits THEN [journal EXCEPT ![<<r.tool, r.key>>] = entry] ELSE journal
<1>1. /\ toolCall' = [toolCall EXCEPT ![c] = e] /\ journal' = jn
      /\ UNCHANGED <<registered, adapterRuns>>
  BY DEF Gw!Settle
<1>2. /\ InvocationInv(registered, toolCall[c], journal, adapterRuns)
      /\ RunsInv(registered, journal, adapterRuns) /\ ClaimInv
      /\ \A d \in ToolCalls : InvocationInv(registered, toolCall[d], journal, adapterRuns)
  BY DEF ToolInv
<1>3. /\ r \in BoundType
      /\ r.key # NoKey => journal[<<r.tool, r.key>>] = [input |-> r.input, result |-> Gw!Uncommitted]
  BY <1>2 DEF InvocationInv, Holding
<1>4. r.tool \in Tools /\ r.key \in Keys \cup {NoKey} /\ r.input \in ValidInputs
  BY <1>3 DEF BoundType
<1>5. r.key # NoKey => \A d \in ToolCalls \ {c} : ~Claims(toolCall[d], r.tool, r.key)
  BY <1>2 DEF ClaimInv, Holding
<1>6. commits => entry \in EntryType /\ <<r.tool, r.key>> \in Tools \X Keys
  BY <1>4 DEF EntryType
<1>7. /\ e.at = "returned" /\ e.req = r /\ e.result = result /\ (result[1] = "SUCCESS" => res.status = "SUCCESS")
  OBVIOUS
<1> HIDE DEF r, e
<1>8. /\ RunsInv(registered, jn, adapterRuns)
      /\ commits => jn[<<r.tool, r.key>>] = entry
      /\ \A x : x # <<r.tool, r.key>> => jn[x] = journal[x]
      /\ ~commits => jn = journal
  <2> HIDE DEF entry
  <2>1. CASE commits
    <3>1. jn = [journal EXCEPT ![<<r.tool, r.key>>] = entry]
      BY <2>1
    <3>2. RunsInv(registered, [journal EXCEPT ![<<r.tool, r.key>>] = entry], adapterRuns)
      BY <1>2, <1>6, <2>1, Journalled
    <3>3. journal \in [Tools \X Keys -> EntryType \cup {Gw!Absent}]
      BY <1>2 DEF RunsInv
    <3>4. <<r.tool, r.key>> \in Tools \X Keys
      BY <1>6, <2>1
    <3> HIDE DEF jn
    <3> QED  BY <2>1, <3>1, <3>2, <3>3, <3>4
  <2>2. CASE ~commits
    BY <1>2, <2>2
  <2> QED  BY <2>1, <2>2
<1> HIDE DEF jn
<1>9. InvocationInv(registered, e, jn, adapterRuns) /\ ~Holding(e)
  BY <1>3, <1>7, <1>8 DEF InvocationInv, Holding
<1>10. \A d \in ToolCalls \ {c} : InvocationInv(registered, toolCall[d], jn, adapterRuns)
  <2>1. CASE commits
    <3>1. journal[<<r.tool, r.key>>].result = Gw!Uncommitted
      BY <1>3, <2>1
    <3> QED  BY <1>2, <1>5, <1>8, <2>1, <3>1, OthersStay
  <2>2. CASE ~commits
    BY <1>2, <1>8, <2>2
  <2> QED  BY <2>1, <2>2
<1> QED  BY <1>1, <1>8, <1>9, <1>10, OneInvocation

LEMMA EndsRefused ==
    ASSUME ToolInv, NEW c \in ToolCalls, NEW res, toolCall[c].at = "running", Gw!Settle(c, res),
           ~Gw!ResultValid(toolCall[c].req.tool, res), res.output = "oversize"
    PROVE  ToolInv'
<1> DEFINE e == [at |-> "refused", req |-> toolCall[c].req, result |-> <<res.status, c>>,
                 output |-> res.output]
<1>1. toolCall' = [toolCall EXCEPT ![c] = e] /\ UNCHANGED <<registered, journal, adapterRuns>>
  BY DEF Gw!Settle
<1>2. e.at = "refused" /\ e.req = toolCall[c].req /\ e.output = "oversize"
  OBVIOUS
<1> HIDE DEF e
<1> QED  BY <1>1, <1>2, EndsOpen

LEMMA Ending == ASSUME ToolInv, NEW c \in ToolCalls, Gw!Return(c) \/ Gw!Timeout(c) PROVE ToolInv'
<1>1. toolCall[c].at = "running"
  BY DEF Gw!Return, Gw!Timeout
<1>2. toolCall[c].req.tool \in Tools
  BY <1>1 DEF ToolInv, InvocationInv, BoundType
<1>3. PICK res : /\ Gw!Settle(c, res)
                 /\ Gw!ResultValid(toolCall[c].req.tool, res) \/ res.output = "oversize"
  BY <1>2, Accepted DEF Gw!Return, Gw!Timeout
<1> QED  BY <1>1, <1>3, Settles, EndsRefused

LEMMA ToolInvInit == ASSUME Gw!Init PROVE ToolInv
<1>1. RegisteredInv /\ toolCall = [c \in ToolCalls |-> toolCall[c]]
  BY DEF Gw!Init, RegisteredInv
<1>2. \A c \in ToolCalls : toolCall[c].at = "idle"
  BY DEF Gw!Init, Gw!Idle
<1>3. (\A c \in ToolCalls : InvocationInv(registered, toolCall[c], journal, adapterRuns)) /\ ClaimInv
  BY <1>2 DEF InvocationInv, ClaimInv, Claims, Holding
<1>4. RunsInv(registered, journal, adapterRuns)
  BY DEF Gw!Init, RunsInv
<1> QED  BY <1>1, <1>3, <1>4 DEF ToolInv

LEMMA ToolKeeps == ASSUME ToolInv, [Gw!Next]_(Gw!gwVars) PROVE ToolInv'
<1>1. ASSUME UNCHANGED <<registered, toolCall, journal, adapterRuns>> PROVE ToolInv'
  BY <1>1 DEF ToolInv, RegisteredInv, InvocationInv, RunsInv, ClaimInv, Claims, Holding, HasEffects,
              Gw!ValidRegistration, Gw!ValidDefinition, Gw!AdapterToolDefinition
<1>2. ASSUME NEW c \in ToolCalls,
             \/ Gw!DenyFunction(c) \/ Gw!DenyInvoke(c) \/ Gw!Replay(c) \/ Gw!Start(c)
             \/ Gw!Acquire(c) \/ Gw!Return(c) \/ Gw!Timeout(c) \/ Gw!Raise(c)
      PROVE  ToolInv'
  BY <1>2, Denied, Replayed, Started, Acquired, Ending, Raised
<1>3. ASSUME NEW ctx \in Contexts, NEW p \in Policies, Gw!LoadCatalog(ctx, p) PROVE ToolInv'
  BY <1>1, <1>3 DEF Gw!LoadCatalog
<1>4. ASSUME Gw!NewGateway PROVE ToolInv'
  BY <1>1, <1>4 DEF Gw!NewGateway
<1>5. ASSUME Gw!Done \/ UNCHANGED Gw!gwVars PROVE ToolInv'
  BY <1>1, <1>5 DEF Gw!Done, Gw!gwVars
<1> QED  BY <1>2, <1>3, <1>4, <1>5 DEF Gw!Next

LEMMA ToolInvImplies == ASSUME ToolInv PROVE IdempotencyHolds
<1>1. ASSUME NEW t \in Tools, NEW k \in Keys \cup {NoKey}, Gw!Effecting(t)
      PROVE  /\ \A i, j \in ValidInputs :
                   adapterRuns[<<t, k, i>>] + (IF i = j THEN 0 ELSE adapterRuns[<<t, k, j>>]) <= 1
             /\ k = NoKey => \A i \in ValidInputs : adapterRuns[<<t, k, i>>] = 0
  <2>1. HasEffects(registered, t)
    BY <1>1 DEF Gw!Effecting, Gw!published, Gw!AdapterToolDefinition, HasEffects
  <2>2. CASE k = NoKey
    BY <2>1, <2>2 DEF ToolInv, RunsInv
  <2>3. CASE k # NoKey
    <3>1. \A i \in ValidInputs : adapterRuns[<<t, k, i>>] \in Nat
      BY DEF ToolInv, RunsInv
    <3>2. /\ \A i \in ValidInputs : adapterRuns[<<t, k, i>>] <= 1
          /\ \A i, j \in ValidInputs :
                adapterRuns[<<t, k, i>>] = 1 /\ adapterRuns[<<t, k, j>>] = 1 => i = j
      BY <2>3 DEF ToolInv, RunsInv
    <3> QED  BY <2>3, <3>1, <3>2
  <2> QED  BY <2>2, <2>3
<1>2. Gw!ToolEffectAtMostOnce
  BY <1>1 DEF Gw!ToolEffectAtMostOnce
<1>3. Gw!OneResultPerKey
  BY DEF ToolInv, InvocationInv, Gw!OneResultPerKey
<1>4. Gw!UncommittedStaysClosed
  BY DEF ToolInv, InvocationInv, Holding, Gw!UncommittedStaysClosed
<1> QED  BY <1>2, <1>3, <1>4 DEF IdempotencyHolds, Gw!IdempotencyHolds

\* Whatever timeouts, failures, restarts of the gateway and concurrent calls with
\* one idempotency key do, a tool with effects runs once for it, whoever is told a
\* success is told the committed one, the registry refuses an adapter's result for its
\* size alone, and the key of a call whose result was refused or lost stays closed
\* (FunctionGateway.invoke, ToolRegistry.invoke, RegisteredAdapter.execute).
THEOREM ToolIdempotent == Gw!Spec => []IdempotencyHolds
<1>1. Gw!Init => ToolInv
  BY ToolInvInit
<1>2. ToolInv /\ [Gw!Next]_(Gw!gwVars) => ToolInv'
  BY ToolKeeps
<1>3. ToolInv => IdempotencyHolds
  BY ToolInvImplies
<1> QED  BY <1>1, <1>2, <1>3, PTL DEF Gw!Spec

-----------------------------------------------------------------------------
(* The file gateway.                                                        *)

LEMMA FileRefusal == \A rules : File!FirstRefusal(rules) = FirstRefusal(rules) /\ File!None = None
BY DEF File!FirstRefusal, FirstRefusal, File!None, None

\* What successful edits replaced is known, what is known is stored, and what is
\* stored is text.
FileInv ==
  /\ replaced \subseteq versions
  /\ versions \subseteq store
  /\ \A v \in store : File!Decodes(v)

\* An edit that is not refused replaces text.
LEMMA EditReplacesText ==
    ASSUME NEW p, NEW expected, NEW inRange \in BOOLEAN,
           File!EditError(p, expected, inRange) = File!None
    PROVE  File!Decodes(expected)
<1> DEFINE e == File!PathError(p, TRUE, TRUE)
           a1 == e # File!None
           a2 == disk[p] # expected
           a3 == ~File!Decodes(expected)
           a4 == ~inRange
           rules == << <<a1, e>>, <<a2, "FILE_VERSION_CONFLICT">>,
                       <<a3, "FILE_ENCODING_UNCERTAIN">>, <<a4, "FILE_EDIT_RANGE_INVALID">> >>
<1>1. File!EditError(p, expected, inRange) = File!FirstRefusal(rules)
  BY Zenon DEF File!EditError
<1>2. FirstRefusal(rules) = None
  <2> HIDE DEF rules
  <2> QED  BY <1>1, FileRefusal
<1>3. a1 => e # None
  BY FileRefusal
<1>4. a3 \in BOOLEAN
  OBVIOUS
<1> HIDE DEF e, a1, a2, a3, a4
<1>5. /\ DOMAIN rules = 1..4 /\ rules[3][1] = a3
      /\ \A i \in 1..4 : rules[i][1] => rules[i][2] # None
  BY <1>3 DEF None
<1>6. PICK n \in Nat : n = 4
  OBVIOUS
<1> HIDE DEF rules
<1>7. \A i \in 1..n : ~rules[i][1]
  BY <1>2, <1>5, <1>6, Refused
<1>8. ~rules[3][1]
  BY <1>6, <1>7
<1> QED  BY <1>4, <1>5, <1>8, Zenon DEF a3

\* A rollback that is not refused writes a stored version.
LEMMA RollbackRestores ==
    ASSUME NEW p, NEW expected, NEW v, File!RollbackError(p, expected, v) = File!None
    PROVE  v \in versions \cap store
<1> DEFINE e == File!PathError(p, TRUE, TRUE)
           a1 == e # File!None
           a2 == disk[p] # expected
           a3 == v \notin versions \cap store
           rules == << <<a1, e>>, <<a2, "FILE_VERSION_CONFLICT">>,
                       <<a3, "FILE_VERSION_NOT_FOUND">> >>
<1>1. File!RollbackError(p, expected, v) = File!FirstRefusal(rules)
  BY Zenon DEF File!RollbackError
<1>2. FirstRefusal(rules) = None
  <2> HIDE DEF rules
  <2> QED  BY <1>1, FileRefusal
<1>3. a1 => e # None
  BY FileRefusal
<1>4. a3 \in BOOLEAN
  OBVIOUS
<1> HIDE DEF e, a1, a2, a3
<1>5. /\ DOMAIN rules = 1..3 /\ rules[3][1] = a3
      /\ \A i \in 1..3 : rules[i][1] => rules[i][2] # None
  BY <1>3 DEF None
<1>6. PICK n \in Nat : n = 3
  OBVIOUS
<1> HIDE DEF rules
<1>7. \A i \in 1..n : ~rules[i][1]
  BY <1>2, <1>5, <1>6, Refused
<1>8. ~rules[3][1]
  BY <1>6, <1>7
<1> QED  BY <1>4, <1>5, <1>8, Zenon DEF a3

LEMMA FileInit == File!Init => FileInv
BY DEF File!Init, FileInv

\* Writing a content answers with it or fails; neither is a denial.
LEMMA WrittenIsNotDenied ==
    ASSUME NEW c, NEW p, NEW raw, File!Written(c, p, raw)
    PROVE  lastReply' # File!Denied
BY DEF File!Written, File!Reply, File!Success, File!Failed, File!Denied

LEMMA FileStep ==
    ASSUME FileInv, [File!Next]_(File!fileVars)
    PROVE  FileInv' /\ File!DeniedLeavesFiles
<1>1. ASSUME UNCHANGED <<disk, store, versions, replaced>>
      PROVE  FileInv' /\ File!DeniedLeavesFiles
  BY <1>1 DEF FileInv, File!DeniedLeavesFiles, File!Decodes
<1>2. CASE UNCHANGED File!fileVars
  BY <1>1, <1>2 DEF File!fileVars
<1>3. ASSUME NEW c \in FileCallers,
             File!ScopeDenied(c) \/ File!CommandReads(c) \/ File!CommandFails(c)
               \/ File!EndReader(c)
      PROVE  FileInv' /\ File!DeniedLeavesFiles
  BY <1>1, <1>3 DEF File!ScopeDenied, File!CommandReads, File!CommandFails, File!EndReader
<1>4. ASSUME NEW c \in FileCallers, NEW op \in File!Readers, NEW p \in File!Paths,
             File!StartReader(c, op, p)
               \/ \E known \in BOOLEAN : File!RefuseReader(c, op, p, known)
      PROVE  FileInv' /\ File!DeniedLeavesFiles
  BY <1>1, <1>4 DEF File!StartReader, File!RefuseReader
<1>5. ASSUME NEW c \in FileCallers, NEW p \in File!Paths, NEW raw, File!Write(c, p, raw)
      PROVE  FileInv' /\ File!DeniedLeavesFiles
  <2>1. UNCHANGED <<store, versions, replaced>>
    BY <1>5 DEF File!Write
  <2>2. UNCHANGED disk \/ File!Written(c, p, raw)
    BY <1>5 DEF File!Write
  <2> QED  BY <2>1, <2>2, WrittenIsNotDenied DEF FileInv, File!DeniedLeavesFiles
<1>6. ASSUME NEW c \in FileCallers, NEW p \in File!Paths, NEW expected, NEW raw,
             NEW inRange \in BOOLEAN, File!Edit(c, p, expected, inRange, raw)
      PROVE  FileInv' /\ File!DeniedLeavesFiles
  <2>1. CASE File!EditError(p, expected, inRange) # File!None
    BY <1>1, <1>6, <2>1 DEF File!Edit
  <2>2. CASE File!EditError(p, expected, inRange) = File!None
    <3>1. File!Decodes(expected)
      BY <2>2, EditReplacesText
    <3>2. CASE /\ replaced' = replaced \cup {expected}
               /\ File!Written(c, p, raw)
               /\ File!SaveVersion(expected)
      BY <3>1, <3>2, WrittenIsNotDenied DEF File!SaveVersion, FileInv, File!DeniedLeavesFiles
    <3>3. CASE /\ File!Reply(c, File!Failed)
               /\ File!SaveVersion(expected) \/ UNCHANGED <<store, versions>>
               /\ UNCHANGED <<disk, replaced>>
      BY <3>1, <3>3 DEF File!SaveVersion, FileInv, File!DeniedLeavesFiles
    <3> QED  BY <1>6, <2>2, <3>2, <3>3 DEF File!Edit
  <2> QED  BY <2>1, <2>2
<1>7. ASSUME NEW c \in FileCallers, NEW p \in File!Paths, NEW expected, NEW v,
             File!Rollback(c, p, expected, v)
      PROVE  FileInv' /\ File!DeniedLeavesFiles
  <2>1. UNCHANGED <<store, versions, replaced>>
    BY <1>7 DEF File!Rollback
  <2>2. CASE File!RollbackError(p, expected, v) # File!None
    BY <1>1, <1>7, <2>2 DEF File!Rollback
  <2>3. CASE File!RollbackError(p, expected, v) = File!None
    <3>1. File!Decodes(v)
      BY <2>3, RollbackRestores DEF FileInv
    <3>2. UNCHANGED disk \/ File!Written(c, p, v)
      BY <1>7, <2>3, <3>1 DEF File!Rollback
    <3> QED  BY <2>1, <3>2, WrittenIsNotDenied DEF FileInv, File!DeniedLeavesFiles
  <2> QED  BY <2>2, <2>3
<1>8. ASSUME NEW c \in FileCallers, NEW p \in File!Paths, NEW change \in BOOLEAN,
             File!ReadSource(c, p, change)
      PROVE  FileInv' /\ File!DeniedLeavesFiles
  BY <1>1, <1>8 DEF File!ReadSource
<1>9. CASE File!RestartGateway
  BY <1>9 DEF File!RestartGateway, FileInv, File!DeniedLeavesFiles
<1>10. CASE File!ExecutableChanges
  BY <1>1, <1>10 DEF File!ExecutableChanges
<1> QED
  <2>1. CASE File!Next
    BY <1>3, <1>4, <1>5, <1>6, <1>7, <1>8, <1>9, <1>10, <2>1 DEF File!Next
  <2> QED  BY <1>2, <2>1

\* Since an edit saves only text, a rollback that has written its version can
\* decode it, and its answer tells whether the file changed; what was replaced can
\* be rolled back to (file_gateway.py, edit, _save_version and rollback).
THEOREM FilesSafe == File!Spec => FilesAreSafe
<1>1. File!Init => FileInv
  BY FileInit
<1>2. FileInv /\ [File!Next]_(File!fileVars) => FileInv'
  BY FileStep
<1>3. FileInv /\ FileInv' /\ [File!Next]_(File!fileVars)
        => [File!EditedContentIsKept' /\ File!DeniedLeavesFiles]_(File!fileVars)
  BY FileStep DEF FileInv, File!EditedContentIsKept
<1> QED  BY <1>1, <1>2, <1>3, PTL DEF File!Spec, FilesAreSafe, File!FilesAreSafe

-----------------------------------------------------------------------------
(* Web search.                                                              *)

LEMMA WebRefusal == \A rules : Web!FirstRefusal(rules) = FirstRefusal(rules) /\ Web!None = None
BY DEF Web!FirstRefusal, FirstRefusal, Web!None, None

LEMMA WebCardinality == \A S : Web!Cardinality(S) = Cardinality(S)
BY DEF Web!Cardinality, Cardinality

\* Evidence that a search started at time t under a policy may return for r.
Admissible(evidence, r, policy, t) ==
  LET domains == Web!RequestedDomains(r, policy) IN
  /\ IsFiniteSet(evidence)
  /\ domains \subseteq PolicyDomains[policy]
  /\ \A e \in evidence :
       /\ Web!AllowedUrl(e.url, domains)
       /\ e.accessed = t
       /\ r.current => Web!IsCurrent(e.published, t)
  /\ \A e, f \in evidence : e.url = f.url => e = f

\* A search under way: its evidence is admissible, each piece from a page it has
\* opened and an address it has seen.
SearchFields == {"at", "req", "policy", "now", "queries", "candidates", "opened", "seen",
                 "evidence"}
Searching(st) ==
  /\ DOMAIN st = SearchFields
  /\ st.req.queries \in Nat /\ st.req.queries <= QueryLimit
  /\ st.now \in Int
  /\ st.opened \in Nat /\ st.opened <= PageLimit
  /\ Admissible(st.evidence, st.req, st.policy, st.now)
  /\ \A e \in st.evidence : e.url \in st.seen
  /\ Cardinality(st.evidence) <= st.opened

\* The cache keeps what searches found, made as of their start; none was for
\* current information.
Kept(x) ==
  \E r, policy :
    /\ x.key = <<r, policy>>
    /\ ~r.current
    /\ x.created \in Int
    /\ Admissible(x.evidence, r, policy, x.created)
    /\ x.evidence # {} /\ Cardinality(x.evidence) <= PageLimit

WebInv ==
  /\ webClock \in Int
  /\ DOMAIN search = Searches
  /\ \A s \in Searches :
       search[s].at # "idle" =>
         Searching(search[s]) /\ (search[s].at = "open" => search[s].opened < PageLimit)
  /\ \A x \in cache : Kept(x)
  /\ Web!EvidenceIsSound

LEMMA WebInit == Web!Init => WebInv
BY DEF Web!Init, WebInv, Web!EvidenceIsSound, Web!EvidenceIsAdmissible, Web!CacheHitIsFresh,
       Web!Succeeded, Web!NoReply, Web!Waiting

LEMMA FailedIsSound ==
    ASSUME WebInv, NEW s \in Searches, Web!Answer(s, Web!Failed), UNCHANGED webClock,
           \A x \in cache' : x \in cache \/ Kept(x)
    PROVE  WebInv'
<1>1. webReply' = Web!NoReply /\ search' = [search EXCEPT ![s] = Web!Waiting]
  BY DEF Web!Answer, Web!Failed
<1>2. Web!EvidenceIsSound'
  BY <1>1 DEF Web!EvidenceIsSound, Web!EvidenceIsAdmissible, Web!CacheHitIsFresh,
              Web!Succeeded, Web!NoReply
<1>3. DOMAIN search' = Searches /\ \A z \in Searches : search'[z] = IF z = s THEN Web!Waiting ELSE search[z]
  BY <1>1 DEF WebInv
<1>4. \A z \in Searches :
       search'[z].at # "idle" =>
         Searching(search'[z]) /\ (search'[z].at = "open" => search'[z].opened < PageLimit)
  BY <1>3 DEF WebInv, Web!Waiting
<1>5. \A x \in cache' : Kept(x)
  BY DEF WebInv
<1> QED  BY <1>2, <1>3, <1>4, <1>5 DEF WebInv

\* An answer with admissible evidence within the budgets is sound; one from the
\* cache also has to be fresh.
LEMMA SuccessIsSound ==
    ASSUME Web!LimitFacts, NEW reply, webReply' = reply,
           Admissible(reply.evidence, reply.req, reply.policy, reply.at)
             \/ (\E t \in Int : /\ Admissible(reply.evidence, reply.req, reply.policy, t)
                               /\ ~reply.req.current
                               /\ reply.at - t < RetrievalTtl),
           reply.state = "HIT" =>
             \E t \in Int : /\ Admissible(reply.evidence, reply.req, reply.policy, t)
                            /\ ~reply.req.current
                            /\ reply.at - t < RetrievalTtl,
           reply.evidence # {}, Cardinality(reply.evidence) <= PageLimit,
           reply.calls <= QueryLimit + PageLimit
    PROVE  Web!EvidenceIsSound'
<1>1. Web!EvidenceIsAdmissible'
  <2>1. Cardinality(reply.evidence) = Web!Cardinality(reply.evidence)
    BY WebCardinality
  <2> QED  BY <2>1 DEF Web!EvidenceIsAdmissible, Web!Succeeded, Admissible,
                       Web!RequestedDomains, Web!AllowedUrl, Web!IsCurrent
<1>2. Web!CacheHitIsFresh'
  BY DEF Web!CacheHitIsFresh, Web!Succeeded, Admissible
<1> QED  BY <1>1, <1>2 DEF Web!EvidenceIsSound

\* A search that has opened its last page answers with what it found.
LEMMA ConcludeKeeps ==
    ASSUME Web!LimitFacts, WebInv, NEW s \in Searches, NEW st, Searching(st),
           Web!Conclude(s, st), UNCHANGED webClock
    PROVE  WebInv'
<1>1. \A x \in cache' : x \in cache \/ Kept(x)
  <2>1. CASE st.evidence = {} \/ st.req.current
    BY <2>1 DEF Web!Conclude
  <2>2. CASE ~(st.evidence = {} \/ st.req.current)
    <3> DEFINE new == [key |-> Web!CacheKey(st), manifest |-> Web!Manifest(st),
                       evidence |-> st.evidence, created |-> st.now]
    <3>1. \A x \in cache' : x \in cache \/ x = new
      BY <2>2 DEF Web!Conclude, Web!Put
    <3>2. new.key = <<st.req, st.policy>> /\ new.created = st.now /\ new.evidence = st.evidence
      BY DEF Web!CacheKey
    <3>3. Cardinality(st.evidence) <= PageLimit
      BY FS_CardinalityType DEF Searching, Admissible, Web!LimitFacts
    <3> HIDE DEF new
    <3>4. Kept(new)
      BY <2>2, <3>2, <3>3 DEF Kept, Searching
    <3> QED  BY <3>1, <3>4
  <2> QED  BY <2>1, <2>2
<1>2. CASE st.evidence = {}
  <2>1. Web!Answer(s, Web!Failed)
    BY <1>2 DEF Web!Conclude
  <2> QED  BY <1>1, <2>1, FailedIsSound
<1>3. CASE st.evidence # {}
  <2>1. webReply' = Web!Found(st) /\ search' = [search EXCEPT ![s] = Web!Waiting]
    BY <1>3 DEF Web!Conclude, Web!Answer
  <2>2. PICK reply : reply = Web!Found(st)
    OBVIOUS
  <2>3. /\ reply.state = Web!CacheState(st) /\ reply.req = st.req /\ reply.policy = st.policy
        /\ reply.evidence = st.evidence /\ reply.calls = st.req.queries + st.opened
        /\ reply.at = st.now
    BY <2>2 DEF Web!Found
  <2>4. reply.state # "HIT"
    BY <2>3 DEF Web!CacheState
  <2>5. Cardinality(st.evidence) <= PageLimit
    BY FS_CardinalityType DEF Searching, Admissible, Web!LimitFacts
  <2>6. reply.calls <= QueryLimit + PageLimit
    BY <2>3 DEF Searching, Web!LimitFacts
  <2>7. Admissible(reply.evidence, reply.req, reply.policy, reply.at)
    BY <2>3 DEF Searching
  <2>8. Web!EvidenceIsSound'
    BY <1>3, <2>1, <2>2, <2>3, <2>4, <2>5, <2>6, <2>7, SuccessIsSound
  <2>9. DOMAIN search' = Searches
        /\ \A z \in Searches : search'[z] = IF z = s THEN Web!Waiting ELSE search[z]
    BY <2>1 DEF WebInv
  <2>10. \A z \in Searches :
          search'[z].at # "idle" =>
            Searching(search'[z]) /\ (search'[z].at = "open" => search'[z].opened < PageLimit)
    BY <2>9 DEF WebInv, Web!Waiting
  <2>11. \A x \in cache' : Kept(x)
    BY <1>1 DEF WebInv
  <2> QED  BY <2>8, <2>9, <2>10, <2>11 DEF WebInv
<1> QED  BY <1>2, <1>3

LEMMA ProceedKeeps ==
    ASSUME Web!LimitFacts, WebInv, NEW s \in Searches, NEW st, Searching(st),
           Web!Proceed(s, st), UNCHANGED webClock
    PROVE  WebInv'
<1> DEFINE waits == st.queries > 0 \/ (st.candidates # {} /\ st.opened < PageLimit)
           next == [st EXCEPT !.at = IF st.queries > 0 THEN "query" ELSE "open"]
<1>1. CASE ~waits
  <2>1. Web!Conclude(s, st)
    BY <1>1 DEF Web!Proceed
  <2> QED  BY <2>1, ConcludeKeeps
<1>2. CASE waits
  <2>1. search' = [search EXCEPT ![s] = next] /\ UNCHANGED <<cache, webReply>>
    BY <1>2 DEF Web!Proceed
  <2>2. /\ DOMAIN next = SearchFields
        /\ next.req = st.req /\ next.policy = st.policy /\ next.now = st.now
        /\ next.opened = st.opened /\ next.seen = st.seen /\ next.evidence = st.evidence
        /\ next.at = "open" => st.opened < PageLimit
    BY <1>2 DEF Searching, SearchFields
  <2> HIDE DEF next
  <2>3. Searching(next)
    BY <2>2 DEF Searching
  <2>4. DOMAIN search' = Searches
        /\ \A z \in Searches : search'[z] = IF z = s THEN next ELSE search[z]
    BY <2>1 DEF WebInv
  <2>5. \A z \in Searches :
          search'[z].at # "idle" =>
            Searching(search'[z]) /\ (search'[z].at = "open" => search'[z].opened < PageLimit)
    BY <2>2, <2>3, <2>4 DEF WebInv
  <2>6. Web!EvidenceIsSound'
    BY <2>1 DEF WebInv, Web!EvidenceIsSound, Web!EvidenceIsAdmissible, Web!CacheHitIsFresh,
                Web!Succeeded
  <2> QED  BY <2>1, <2>4, <2>5, <2>6 DEF WebInv
<1> QED  BY <1>1, <1>2

\* A request that is not refused stays within the query budget and the policy.
LEMMA RequestAdmitted ==
    ASSUME NEW r, Web!RequestError(r, TRUE) = Web!None
    PROVE  /\ ~(r.queries > QueryLimit)
           /\ Web!RequestedDomains(r, webPolicy) \subseteq PolicyDomains[webPolicy]
<1> DEFINE a == ~TRUE
           b == r.queries > QueryLimit
           e == ~(Web!RequestedDomains(r, webPolicy) \subseteq PolicyDomains[webPolicy])
<1>1. FirstRefusal(<< <<a, "WEB_RESPONSE_INVALID">>, <<b, "WEB_BUDGET_EXCEEDED">>,
                      <<e, "WEB_SOURCE_POLICY_DENIED">> >>) = None
  BY WebRefusal DEF Web!RequestError
<1>2. PICK x, y, z : x = "WEB_RESPONSE_INVALID" /\ y = "WEB_BUDGET_EXCEEDED"
                     /\ z = "WEB_SOURCE_POLICY_DENIED"
  OBVIOUS
<1>3. PICK p \in BOOLEAN, q \in BOOLEAN, w \in BOOLEAN : (p <=> a) /\ (q <=> b) /\ (w <=> e)
  OBVIOUS
<1>4. p = a /\ q = b /\ w = e
  BY <1>3
<1> HIDE DEF a, b, e
<1>5. FirstRefusal(<< <<p, x>>, <<q, y>>, <<w, z>> >>) = None
  BY <1>1, <1>2, <1>4
<1>6. x # None /\ y # None /\ z # None
  BY <1>2 DEF None
<1>7. ~q /\ ~w
  BY <1>5, <1>6, ThreeChecks
<1> QED  BY <1>3, <1>7 DEF b, e

LEMMA StartKeeps ==
    ASSUME Web!LimitFacts, WebInv, NEW s \in Searches, NEW r \in WebRequests, Web!Start(s, r)
    PROVE  WebInv'
<1> DEFINE st == Web!Started(r)
           found == IF r.current THEN {} ELSE Web!Lookup(Web!CacheKey(st))
           usable == {x \in found : ~Web!Stale(x, webClock, Web!Manifest(st))}
<1>1. /\ ~(r.queries > QueryLimit)
      /\ Web!RequestedDomains(r, webPolicy) \subseteq PolicyDomains[webPolicy]
  BY RequestAdmitted DEF Web!Start
<1>2. st.req = r /\ st.policy = webPolicy
  BY DEF Web!Started
<1>3. UNCHANGED <<webClock, webPolicy>>
  BY DEF Web!Start
<1>4. CASE usable # {}
  <2>1. PICK x \in usable :
          Web!Answer(s, [state |-> "HIT", status |-> "SUCCESS", req |-> r, policy |-> webPolicy,
                         evidence |-> x.evidence, calls |-> 0, at |-> webClock])
    BY <1>4 DEF Web!Start
  <2>2. UNCHANGED cache
    BY <1>4 DEF Web!Start
  <2>3. /\ x \in cache /\ x.key = <<r, webPolicy>> /\ ~r.current
        /\ ~(x.created + RetrievalTtl <= webClock)
    BY <1>2, <1>4 DEF Web!Lookup, Web!CacheKey, Web!Stale
  <2>4. /\ x.created \in Int
        /\ Admissible(x.evidence, r, webPolicy, x.created)
        /\ x.evidence # {} /\ Cardinality(x.evidence) <= PageLimit
    <3>1. PICK q, policy : /\ x.key = <<q, policy>>
                           /\ x.created \in Int
                           /\ Admissible(x.evidence, q, policy, x.created)
                           /\ x.evidence # {} /\ Cardinality(x.evidence) <= PageLimit
      BY <2>3 DEF WebInv, Kept
    <3>2. q = r /\ policy = webPolicy
      BY <2>3, <3>1
    <3> QED  BY <3>1, <3>2
  <2>5. PICK reply : reply = [state |-> "HIT", status |-> "SUCCESS", req |-> r,
                              policy |-> webPolicy, evidence |-> x.evidence, calls |-> 0,
                              at |-> webClock]
    OBVIOUS
  <2>6. /\ reply.req = r /\ reply.policy = webPolicy /\ reply.evidence = x.evidence
        /\ reply.calls = 0 /\ reply.at = webClock
    BY <2>5
  <2>7. webReply' = reply /\ search' = [search EXCEPT ![s] = Web!Waiting]
    BY <2>1, <2>5 DEF Web!Answer
  <2>8. webClock - x.created < RetrievalTtl
    BY <2>3, <2>4 DEF WebInv, Web!LimitFacts
  <2>9. \E t \in Int : /\ Admissible(reply.evidence, reply.req, reply.policy, t)
                       /\ ~reply.req.current
                       /\ reply.at - t < RetrievalTtl
    BY <2>3, <2>4, <2>6, <2>8
  <2>10. reply.calls <= QueryLimit + PageLimit
    BY <2>6 DEF Web!LimitFacts
  <2>11. Web!EvidenceIsSound'
    BY <2>4, <2>6, <2>7, <2>9, <2>10, SuccessIsSound
  <2>12. DOMAIN search' = Searches
         /\ \A z \in Searches : search'[z] = IF z = s THEN Web!Waiting ELSE search[z]
    BY <2>7 DEF WebInv
  <2>13. \A z \in Searches :
          search'[z].at # "idle" =>
            Searching(search'[z]) /\ (search'[z].at = "open" => search'[z].opened < PageLimit)
    BY <2>12 DEF WebInv, Web!Waiting
  <2> QED  BY <1>3, <2>2, <2>11, <2>12, <2>13 DEF WebInv
<1>5. CASE usable = {}
  <2>1. /\ search' = [search EXCEPT ![s] = st]
        /\ \A x \in cache' : x \in cache
        /\ UNCHANGED webReply
    BY <1>5 DEF Web!Start
  <2>2. Searching(st) /\ st.at = "query"
    <3>1. /\ DOMAIN st = SearchFields /\ st.now = webClock /\ st.opened = 0
          /\ st.evidence = {} /\ st.at = "query"
      BY DEF Web!Started, SearchFields
    <3>2. Cardinality({}) = 0 /\ IsFiniteSet({})
      BY FS_EmptySet
    <3>3. Admissible({}, r, webPolicy, webClock)
      BY <1>1, <3>2 DEF Admissible
    <3>4. r.queries \in Nat /\ r.queries <= QueryLimit
      BY <1>1 DEF Web!LimitFacts
    <3> HIDE DEF st
    <3> QED  BY <1>2, <3>1, <3>2, <3>3, <3>4 DEF Searching, WebInv, Web!LimitFacts
  <2> HIDE DEF st
  <2>3. DOMAIN search' = Searches
        /\ \A z \in Searches : search'[z] = IF z = s THEN st ELSE search[z]
    BY <2>1 DEF WebInv
  <2>4. \A z \in Searches :
          search'[z].at # "idle" =>
            Searching(search'[z]) /\ (search'[z].at = "open" => search'[z].opened < PageLimit)
    BY <2>2, <2>3 DEF WebInv
  <2>5. Web!EvidenceIsSound'
    BY <2>1 DEF WebInv, Web!EvidenceIsSound, Web!EvidenceIsAdmissible, Web!CacheHitIsFresh,
                Web!Succeeded
  <2> QED  BY <1>3, <2>1, <2>3, <2>4, <2>5 DEF WebInv
<1> QED  BY <1>4, <1>5

LEMMA QueryKeeps ==
    ASSUME Web!LimitFacts, WebInv, NEW s \in Searches, NEW hits, Web!QueryReturns(s, hits)
    PROVE  WebInv'
<1> DEFINE st == search[s]
           allowed == {u \in hits : Web!AllowedUrl(u, Web!RequestedDomains(st.req, st.policy))}
           next == [st EXCEPT !.queries = @ - 1, !.candidates = @ \cup allowed]
<1>1. Web!Proceed(s, next) /\ st.at = "query" /\ UNCHANGED webClock
  BY DEF Web!QueryReturns
<1>2. Searching(st)
  BY <1>1 DEF WebInv
<1>3. /\ DOMAIN next = SearchFields
      /\ next.req = st.req /\ next.policy = st.policy /\ next.now = st.now
      /\ next.opened = st.opened /\ next.seen = st.seen /\ next.evidence = st.evidence
  BY <1>2 DEF Searching, SearchFields
<1> HIDE DEF next
<1>4. Searching(next)
  BY <1>2, <1>3 DEF Searching
<1> QED  BY <1>1, <1>4, ProceedKeeps

\* A page adds evidence from an allowed address not seen before, or none.
LEMMA AdmitKeeps ==
    ASSUME Web!LimitFacts, NEW st, Searching(st), Cardinality(st.evidence) + 1 <= st.opened,
           NEW page
    PROVE  Searching(Web!Admit(st, page, Web!RequestedDomains(st.req, st.policy)))
<1> DEFINE domains == Web!RequestedDomains(st.req, st.policy)
           unread == page.large \/ (st.req.current /\ ~Web!IsCurrent(page.published, st.now))
           e == [url |-> page.url, published |-> page.published, accessed |-> st.now]
<1>1. CASE ~Web!AllowedUrl(page.url, domains) \/ page.url \in st.seen
  BY <1>1 DEF Web!Admit
<1>2. CASE ~(~Web!AllowedUrl(page.url, domains) \/ page.url \in st.seen) /\ unread
  <2> DEFINE next == [st EXCEPT !.seen = @ \cup {page.url}]
  <2>1. Web!Admit(st, page, domains) = next
    BY <1>2 DEF Web!Admit
  <2>2. /\ DOMAIN next = SearchFields
        /\ next.req = st.req /\ next.policy = st.policy /\ next.now = st.now
        /\ next.opened = st.opened /\ next.seen = st.seen \cup {page.url}
        /\ next.evidence = st.evidence
    BY DEF Searching, SearchFields
  <2> HIDE DEF next
  <2> QED  BY <2>1, <2>2 DEF Searching
<1>3. CASE ~(~Web!AllowedUrl(page.url, domains) \/ page.url \in st.seen) /\ ~unread
  <2> DEFINE next == [st EXCEPT !.seen = @ \cup {page.url}, !.evidence = @ \cup {e}]
  <2>1. Web!Admit(st, page, domains) = next
    BY <1>3 DEF Web!Admit
  <2>2. /\ DOMAIN next = SearchFields
        /\ next.req = st.req /\ next.policy = st.policy /\ next.now = st.now
        /\ next.opened = st.opened /\ next.seen = st.seen \cup {page.url}
        /\ next.evidence = st.evidence \cup {e}
    BY DEF Searching, SearchFields
  <2>3. e.url = page.url /\ e.published = page.published /\ e.accessed = st.now
    OBVIOUS
  <2> HIDE DEF next, e
  <2>4. e \notin st.evidence
    BY <1>3, <2>3 DEF Searching
  <2>5. /\ IsFiniteSet(st.evidence \cup {e})
        /\ Cardinality(st.evidence \cup {e}) = Cardinality(st.evidence) + 1
    BY <2>4, FS_AddElement DEF Searching, Admissible
  <2>6. Admissible(next.evidence, next.req, next.policy, next.now)
    BY <1>3, <2>2, <2>3, <2>5 DEF Searching, Admissible
  <2>7. \A f \in next.evidence : f.url \in next.seen
    BY <2>2, <2>3 DEF Searching
  <2> QED  BY <2>1, <2>2, <2>5, <2>6, <2>7 DEF Searching
<1> QED  BY <1>1, <1>2, <1>3

LEMMA OpenKeeps ==
    ASSUME Web!LimitFacts, WebInv, NEW s \in Searches, NEW page, Web!OpenReturns(s, page)
    PROVE  WebInv'
<1> DEFINE st == search[s]
<1>1. PICK u : Web!Proceed(s, Web!Admit([st EXCEPT !.candidates = @ \ {u}, !.opened = @ + 1],
                                        page, Web!RequestedDomains(st.req, st.policy)))
  BY DEF Web!OpenReturns
<1>2. st.at = "open" /\ UNCHANGED webClock
  BY DEF Web!OpenReturns
<1>3. Searching(st) /\ st.opened < PageLimit
  BY <1>2 DEF WebInv
<1> DEFINE opened == [st EXCEPT !.candidates = @ \ {u}, !.opened = @ + 1]
<1>4. /\ DOMAIN opened = SearchFields
      /\ opened.req = st.req /\ opened.policy = st.policy /\ opened.now = st.now
      /\ opened.opened = st.opened + 1 /\ opened.seen = st.seen /\ opened.evidence = st.evidence
  BY <1>3 DEF Searching, SearchFields
<1>5. Web!Proceed(s, Web!Admit(opened, page, Web!RequestedDomains(opened.req, opened.policy)))
  BY <1>1, <1>4
<1> HIDE DEF opened
<1>6. Cardinality(st.evidence) \in Nat
  BY <1>3, FS_CardinalityType DEF Searching, Admissible
<1>7. Searching(opened) /\ Cardinality(opened.evidence) + 1 <= opened.opened
  BY <1>3, <1>4, <1>6 DEF Searching, Web!LimitFacts
<1>8. Searching(Web!Admit(opened, page, Web!RequestedDomains(opened.req, opened.policy)))
  BY <1>7, AdmitKeeps
<1> QED  BY <1>2, <1>5, <1>8, ProceedKeeps

LEMMA WebStep ==
    ASSUME Web!LimitFacts, WebInv, [Web!Next]_(Web!webVars)
    PROVE  WebInv'
<1>1. ASSUME UNCHANGED <<search, webReply>>, webClock' \in Int, \A x \in cache' : x \in cache
      PROVE  WebInv'
  <2>1. Web!EvidenceIsSound'
    BY <1>1 DEF WebInv, Web!EvidenceIsSound, Web!EvidenceIsAdmissible, Web!CacheHitIsFresh,
                Web!Succeeded
  <2> QED  BY <1>1, <2>1 DEF WebInv
<1>2. CASE UNCHANGED Web!webVars
  BY <1>1, <1>2 DEF Web!webVars, WebInv
<1>3. ASSUME NEW s \in Searches, NEW r \in WebRequests, Web!Start(s, r) PROVE WebInv'
  BY <1>3, StartKeeps
<1>4. ASSUME NEW s \in Searches, NEW r \in WebRequests, NEW parsed \in BOOLEAN,
             Web!Refuse(s, r, parsed)
      PROVE  WebInv'
  BY <1>4, FailedIsSound DEF Web!Refuse
<1>5. ASSUME NEW s \in Searches, NEW hits, Web!QueryReturns(s, hits) PROVE WebInv'
  BY <1>5, QueryKeeps
<1>6. ASSUME NEW s \in Searches, NEW page, Web!OpenReturns(s, page) PROVE WebInv'
  BY <1>6, OpenKeeps
<1>7. ASSUME NEW s \in Searches, Web!ProviderFails(s) PROVE WebInv'
  BY <1>7, FailedIsSound DEF Web!ProviderFails
<1>8. ASSUME NEW p, Web!PolicyChanges(p) \/ Web!Invalidate(p) PROVE WebInv'
  BY <1>1, <1>8 DEF Web!PolicyChanges, Web!Invalidate, WebInv
<1>9. CASE Web!Tick
  BY <1>1, <1>9 DEF Web!Tick, WebInv
<1> QED
  <2>1. CASE Web!Next
    BY <1>3, <1>4, <1>5, <1>6, <1>7, <1>8, <1>9, <2>1 DEF Web!Next
  <2> QED  BY <1>2, <2>1

\* Evidence is checked where it is admitted, after redirects, and what a slow
\* search stores counts as made when the search started, so a record that is not
\* expired is admissible and fresh (web_search.py, execute; cache/service.py, get).
THEOREM EvidenceSound == ASSUME Web!LimitFacts PROVE Web!Spec => []EvidenceIsSound
<1>1. Web!Init => WebInv
  BY WebInit
<1>2. WebInv /\ [Web!Next]_(Web!webVars) => WebInv'
  BY WebStep
<1>3. WebInv => EvidenceIsSound
  BY DEF WebInv, EvidenceIsSound
<1> QED  BY <1>1, <1>2, <1>3, PTL DEF Web!Spec
=============================================================================
