----------------------------- MODULE IngestProofs -----------------------------
(***************************************************************************)
(* Proofs about module Ingest, for any finite set of agents, any number of *)
(* posts and any columns found on the volume.                              *)
(***************************************************************************)
EXTENDS Ingest, FiniteSetTheorems, TLAPS

-----------------------------------------------------------------------------
(* Ids of servers                                                          *)

Known == {a \in Agents : servers[a] # 0}

LEMMA KnownFinite ==
  /\ IsFiniteSet(Known)
  /\ Cardinality(Known) \in Nat
  /\ Cardinality(Agents) \in Nat
  /\ Cardinality(Known) <= Cardinality(Agents)
  BY AgentsAssumption, FS_Subset, FS_CardinalityType DEF Known

\* There is an id left for a hostname that has none.
LEMMA KnownStrict ==
  ASSUME NEW a \in Agents, servers[a] = 0
  PROVE  Cardinality(Known) + 1 <= Cardinality(Agents)
<1>1. IsFiniteSet(Agents \ {a}) /\ Cardinality(Agents \ {a}) = Cardinality(Agents) - 1
  BY AgentsAssumption, FS_RemoveElement
<1>2. Known \subseteq Agents \ {a}
  BY DEF Known
<1>3. Cardinality(Known) <= Cardinality(Agents \ {a})
  BY <1>1, <1>2, FS_Subset
<1> QED
  BY <1>1, <1>3, KnownFinite

LEMMA UpsertedIDType ==
  ASSUME TypeOK, NEW a \in Agents
  PROVE  UpsertedID(a) \in 1 .. Cardinality(Agents)
<1>1. CASE servers[a] = 0
  BY <1>1, KnownStrict, KnownFinite DEF UpsertedID, NewID, Known
<1>2. CASE servers[a] # 0
  BY <1>2, KnownFinite DEF UpsertedID, TypeOK
<1> QED
  BY <1>1, <1>2

LEMMA UpsertType ==
  ASSUME TypeOK, NEW a \in Agents, Upsert(a)
  PROVE  servers' \in [Agents -> 0 .. Cardinality(Agents)]
  BY UpsertedIDType, KnownFinite DEF Upsert, TypeOK

-----------------------------------------------------------------------------
(* Type correctness                                                        *)

\* What the agent waits for goes with where its main is; without it the step
\* after a send could be no step at all.
Control ==
  \A a \in Agents :
    /\ waiting[a] # 0 => step[a] \in Kinds
    /\ reg[a] # "none" => step[a] = "register"

LEMMA TypeInit == Init => TypeOK
  BY KnownFinite, MaxPostsAssumption DEF Init, TypeOK, Posts, Kinds

LEMMA TypeRegistration ==
  ASSUME TypeOK, NEW a \in Agents, Registration(a)
  PROVE  TypeOK'
<1> USE DEF agentVars, regVars, loopVars, postVars, databaseVars
<1>1. CASE Register(a)
  BY <1>1 DEF TypeOK, Register
<1>2. CASE RegisterUpsert(a)
  <2>1. UpsertedID(a) \in Nat
    BY UpsertedIDType, KnownFinite
  <2>2. servers' \in [Agents -> 0 .. Cardinality(Agents)]
    BY <1>2, UpsertType DEF RegisterUpsert
  <2>3. reg' \in [Agents -> {"none", "upsert", "created", "error", "lost"}]
    BY <1>2 DEF TypeOK, RegisterUpsert
  <2>4. answer' \in [Agents -> Nat]
    BY <1>2, <2>1 DEF TypeOK, RegisterUpsert
  <2> QED
    BY <1>2, <2>2, <2>3, <2>4 DEF TypeOK, RegisterUpsert
<1>3. CASE RegisterError(a)
  <2>1. servers' \in [Agents -> 0 .. Cardinality(Agents)]
    BY <1>3, UpsertType DEF TypeOK, RegisterError
  <2> QED
    BY <1>3, <2>1 DEF TypeOK, RegisterError
<1>4. CASE Registered(a)
  BY <1>4 DEF TypeOK, Registered, Unregistering
<1>5. CASE RegisterFailed(a)
  BY <1>5 DEF TypeOK, RegisterFailed, Unregistering
<1>6. CASE RegisterTimeout(a)
  BY <1>6 DEF TypeOK, RegisterTimeout, Unregistering
<1>7. CASE LateRegister(a)
  <2>1. servers' \in [Agents -> 0 .. Cardinality(Agents)]
    BY <1>7, UpsertType DEF TypeOK, LateRegister
  <2> QED
    BY <1>7, <2>1 DEF TypeOK, LateRegister
<1> QED
  BY <1>1, <1>2, <1>3, <1>4, <1>5, <1>6, <1>7 DEF Registration

LEMMA AfterType == \A k \in Kinds : After[k] \in {"rest"} \cup Kinds
  BY DEF After, Kinds

\* The post an agent waits for is one.
LEMMA WaitingPost ==
  ASSUME TypeOK, NEW a \in Agents, waiting[a] # 0
  PROVE  <<a, waiting[a]>> \in Posts
  BY MaxPostsAssumption DEF TypeOK, Posts

LEMMA PostNumber ==
  ASSUME NEW a \in Agents, NEW n, <<a, n>> \in Posts
  PROVE  n \in 1 .. MaxPosts
  BY DEF Posts

LEMMA MoveOnType ==
  ASSUME TypeOK, NEW a \in Agents, step[a] \in Kinds, MoveOn(a)
  PROVE  /\ waiting' \in [Agents -> 0 .. MaxPosts]
         /\ step' \in [Agents -> {"register", "rest"} \cup Kinds]
  BY AfterType, MaxPostsAssumption DEF TypeOK, MoveOn

LEMMA GoToType ==
  ASSUME TypeOK, NEW p \in Posts,
         NEW s \in {"unsent", "touch", "insert", "broadcast", "ok", "error", "over"},
         GoTo(p, s)
  PROVE  stage' \in [Posts -> {"unsent", "touch", "insert", "broadcast", "ok", "error", "over"}]
  BY DEF TypeOK, GoTo

LEMMA AnswerType ==
  ASSUME TypeOK, NEW p \in Posts, NEW s \in {"broadcast", "ok", "error"}, Answer(p, s)
  PROVE  stage' \in [Posts -> {"unsent", "touch", "insert", "broadcast", "ok", "error", "over"}]
  BY GoToType DEF Answer

LEMMA ForsakeType ==
  ASSUME TypeOK, NEW p, Forsake(p)
  PROVE  /\ forsaken' \subseteq Posts
         /\ stage' \in [Posts -> {"unsent", "touch", "insert", "broadcast", "ok", "error", "over"}]
  BY DEF TypeOK, Forsake

LEMMA AppendType ==
  ASSUME NEW T, NEW s \in Seq(T), NEW e \in T
  PROVE  Append(s, e) \in Seq(T)
  OBVIOUS

LEMMA TypeLoop ==
  ASSUME TypeOK, Control, NEW a \in Agents, Loop(a) \/ AgentRestart(a)
  PROVE  TypeOK'
<1> DEFINE p == <<a, waiting[a]>>
<1> USE DEF agentVars, regVars, loopVars, postVars, databaseVars
<1>1. CASE Tick(a)
  BY <1>1 DEF TypeOK, Tick, Kinds
<1>2. CASE Skip(a)
  BY <1>2, AfterType DEF TypeOK, Skip
<1>3. CASE Post(a)
  <2>1. posts[a] + 1 \in 1 .. MaxPosts
    BY <1>3, PostNumber DEF Post, Number
  <2>2. /\ posts' \in [Agents -> 0 .. MaxPosts]
        /\ waiting' \in [Agents -> 0 .. MaxPosts]
    BY <1>3, <2>1, MaxPostsAssumption DEF TypeOK, Post, Number
  <2>3. kind' \in [Posts -> Kinds] /\ target' \in [Posts -> Nat]
    BY <1>3 DEF TypeOK, Post
  <2>4. stage' \in [Posts -> {"unsent", "touch", "insert", "broadcast", "ok", "error", "over"}]
    BY <1>3 DEF TypeOK, Post, FirstStage
  <2> QED
    BY <1>3, <2>2, <2>3, <2>4 DEF TypeOK, Post
<1>4. CASE Acknowledged(a)
  <2>1. p \in Posts /\ step[a] \in Kinds
    BY <1>4, WaitingPost DEF Acknowledged, Control
  <2>2. GoTo(p, "over") /\ MoveOn(a)
    BY <1>4 DEF Acknowledged, GoTo
  <2> HIDE DEF p
  <2>3. acked' \subseteq Posts
    BY <1>4, <2>1 DEF TypeOK, Acknowledged, p
  <2> QED
    BY <1>4, <2>1, <2>2, <2>3, MoveOnType, GoToType DEF TypeOK, Acknowledged
<1>5. CASE PostFailed(a)
  <2>1. p \in Posts /\ step[a] \in Kinds
    BY <1>5, WaitingPost DEF PostFailed, Control
  <2>2. GoTo(p, "over") /\ MoveOn(a)
    BY <1>5 DEF PostFailed, GoTo
  <2> HIDE DEF p
  <2> QED
    BY <1>5, <2>1, <2>2, MoveOnType, GoToType DEF TypeOK, PostFailed
<1>6. CASE PostTimeout(a)
  <2>1. p \in Posts /\ step[a] \in Kinds
    BY <1>6, WaitingPost DEF PostTimeout, Control
  <2> HIDE DEF p
  <2>2. Forsake(p) /\ MoveOn(a)
    BY <1>6 DEF PostTimeout, p
  <2> QED
    BY <1>6, <2>1, <2>2, MoveOnType, ForsakeType DEF TypeOK, PostTimeout
<1>7. CASE AgentRestart(a)
  <2>1. /\ forsaken' \subseteq Posts
        /\ stage' \in [Posts -> {"unsent", "touch", "insert", "broadcast", "ok", "error", "over"}]
    BY <1>7, ForsakeType DEF AgentRestart
  <2>2. waiting' \in [Agents -> 0 .. MaxPosts]
    BY <1>7, MaxPostsAssumption DEF TypeOK, AgentRestart
  <2>3. late' \in [Agents -> BOOLEAN]
    BY <1>7 DEF TypeOK, AgentRestart
  <2> QED
    BY <1>7, <2>1, <2>2, <2>3 DEF TypeOK, AgentRestart, Unregistering
<1> QED
  BY <1>1, <1>2, <1>3, <1>4, <1>5, <1>6, <1>7 DEF Loop

LEMMA TypeHandler ==
  ASSUME TypeOK, NEW p \in Posts, Handler(p)
  PROVE  TypeOK'
<1> USE DEF agentVars, regVars, loopVars, postVars, databaseVars
<1>1. CASE Touch(p)
  BY <1>1, GoToType DEF TypeOK, Touch
<1>2. CASE TouchError(p)
  BY <1>2, AnswerType DEF TypeOK, TouchError
<1>3. CASE Insert(p)
  BY <1>3, GoToType, AppendType DEF TypeOK, Insert, Commit
<1>4. CASE InsertError(p)
  <2>1. stored' \in Seq(Posts)
    <3>1. stored \in Seq(Posts)
      BY DEF TypeOK
    <3>2. Append(stored, p) \in Seq(Posts)
      BY <3>1, AppendType
    <3> QED
      BY <1>4, <3>1, <3>2 DEF InsertError, Commit
  <2> QED
    BY <1>4, <2>1, AnswerType DEF TypeOK, InsertError, AfterInsertError
<1>5. CASE Broadcast(p)
  <2>1. streamed' \in Seq(Posts)
    <3>1. streamed \in Seq(Posts)
      BY DEF TypeOK
    <3>2. Append(streamed, p) \in Seq(Posts)
      BY <3>1, AppendType
    <3> QED
      BY <1>5, <3>1, <3>2 DEF Broadcast
  <2> QED
    BY <1>5, <2>1, AnswerType DEF TypeOK, Broadcast
<1> QED
  BY <1>1, <1>2, <1>3, <1>4, <1>5 DEF Handler

LEMMA TypeBackend ==
  ASSUME TypeOK, BackendStops \/ BackendStarts
  PROVE  TypeOK'
<1> USE DEF agentVars, regVars, loopVars, postVars, databaseVars
<1>1. CASE BackendStops
  <2>1. stage' \in [Posts -> {"unsent", "touch", "insert", "broadcast", "ok", "error", "over"}]
    BY <1>1 DEF TypeOK, BackendStops
  <2>2. /\ reg' \in [Agents -> {"none", "upsert", "created", "error", "lost"}]
        /\ answer' \in [Agents -> Nat]
        /\ late' \in [Agents -> BOOLEAN]
    BY <1>1 DEF TypeOK, BackendStops
  <2> QED
    BY <1>1, <2>1, <2>2 DEF TypeOK, BackendStops
<1>2. CASE BackendStarts
  BY <1>2 DEF TypeOK, BackendStarts
<1> QED
  BY <1>1, <1>2

LEMMA TypeStep == TypeOK /\ Control /\ [Next]_vars => TypeOK'
<1> SUFFICES ASSUME TypeOK, Control, [Next]_vars
             PROVE  TypeOK'
  OBVIOUS
<1>1. CASE UNCHANGED vars
  BY <1>1 DEF TypeOK, vars, agentVars, regVars, loopVars, postVars, databaseVars
<1>2. CASE Next
  BY <1>2, TypeRegistration, TypeLoop, TypeHandler, TypeBackend DEF Next
<1> QED
  BY <1>1, <1>2

LEMMA ControlInit == Init => Control
  BY DEF Init, Control

LEMMA ControlStep == TypeOK /\ Control /\ [Next]_vars => Control'
<1> SUFFICES ASSUME TypeOK, Control, [Next]_vars
             PROVE  Control'
  OBVIOUS
<1> USE DEF TypeOK, Control, agentVars, regVars, loopVars, postVars, databaseVars
<1>1. ASSUME NEW a \in Agents, Registration(a)
      PROVE  Control'
  BY <1>1 DEF Registration, Register, RegisterUpsert, RegisterError, Registered,
              RegisterFailed, RegisterTimeout, LateRegister, Unregistering, Kinds
<1>2. ASSUME NEW a \in Agents, Tick(a) \/ Skip(a) \/ Post(a)
      PROVE  Control'
  BY <1>2 DEF Tick, Skip, Post, Free, Kinds
<1>3. ASSUME NEW a \in Agents, Acknowledged(a) \/ PostFailed(a) \/ PostTimeout(a)
      PROVE  Control'
  BY <1>3 DEF Acknowledged, PostFailed, PostTimeout, MoveOn, Kinds
<1>4. ASSUME NEW a \in Agents, AgentRestart(a)
      PROVE  Control'
  BY <1>4 DEF AgentRestart, Unregistering, Kinds
<1>5. ASSUME NEW p \in Posts, Handler(p)
      PROVE  Control'
  BY <1>5 DEF Handler, Touch, TouchError, Insert, InsertError, Broadcast
<1>6. CASE BackendStops \/ BackendStarts
  BY <1>6 DEF BackendStops, BackendStarts
<1>7. CASE UNCHANGED vars
  BY <1>7 DEF vars
<1> QED
  BY <1>1, <1>2, <1>3, <1>4, <1>5, <1>6, <1>7 DEF Next, Loop

LEMMA Typed == Spec => [](TypeOK /\ Control)
  BY TypeInit, ControlInit, TypeStep, ControlStep, PTL DEF Spec

\* Every variable keeps its type, and no hostname takes a second row.
THEOREM TypeCorrect == Spec => []TypeOK
  BY Typed, PTL

-----------------------------------------------------------------------------
(* The course of a post                                                    *)

\* Before stage s of its handler, for the stages that commit and stream.
BeforeInsert    == {"unsent", "touch", "insert"}
BeforeBroadcast == BeforeInsert \cup {"broadcast"}

\* Where the handler of a post is, and what it has done.
FlowOf(p) ==
  /\ stage[p] = "unsent" <=> posts[p[1]] < p[2]
  /\ stage[p] \in {"broadcast", "ok"} => p \in RangeOf(stored)
  /\ p \in RangeOf(stored) => stage[p] \notin BeforeInsert
  /\ p \in RangeOf(streamed) => stage[p] \notin BeforeBroadcast
  /\ kind[p] = "metrics" /\ stage[p] \in {"insert", "broadcast"} => p \in seen
  /\ stage[p] \in {"touch", "insert", "broadcast"} =>
       p \in forsaken \/ waiting[p[1]] = p[2]

Flow ==
  /\ \A p \in Posts : FlowOf(p)
  /\ \A a \in Agents : waiting[a] \in {0, posts[a]}

IInv == /\ TypeOK
        /\ Control
        /\ Flow
        /\ AtMostOnce
        /\ AckedIsStored
        /\ StreamedIsStored
        /\ OvertakenWasForsaken

LEMMA RangeAppend ==
  ASSUME NEW T, NEW s \in Seq(T), NEW e \in T
  PROVE  RangeOf(Append(s, e)) = RangeOf(s) \cup {e}
<1>1. /\ DOMAIN Append(s, e) = 1 .. Len(s) + 1
      /\ DOMAIN s = 1 .. Len(s)
      /\ Len(s) \in Nat
      /\ Append(s, e)[Len(s) + 1] = e
      /\ \A i \in 1 .. Len(s) : Append(s, e)[i] = s[i]
  OBVIOUS
<1>2. ASSUME NEW x \in RangeOf(Append(s, e))
      PROVE  x \in RangeOf(s) \cup {e}
  BY <1>1, <1>2 DEF RangeOf
<1>3. ASSUME NEW x \in RangeOf(s)
      PROVE  x \in RangeOf(Append(s, e))
  BY <1>1, <1>3 DEF RangeOf
<1>4. e \in RangeOf(Append(s, e))
  BY <1>1 DEF RangeOf
<1> QED
  BY <1>2, <1>3, <1>4

LEMMA FlowInit == Init => Flow
<1> SUFFICES ASSUME Init
             PROVE  Flow
  OBVIOUS
<1>1. ASSUME NEW p \in Posts
      PROVE  FlowOf(p)
  <2>1. p[1] \in Agents /\ p[2] \in 1 .. MaxPosts
    BY DEF Posts
  <2> QED
    BY <2>1, MaxPostsAssumption DEF Init, FlowOf, RangeOf
<1> QED
  BY <1>1 DEF Flow, Init

\* A step that leaves a post's flow alone.
LEMMA FlowFrame ==
  ASSUME Flow, UNCHANGED <<posts, waiting, stage, kind, stored, streamed, seen, forsaken>>
  PROVE  Flow'
  BY DEF Flow, FlowOf, RangeOf

LEMMA InductiveInit == Init => IInv
<1>1. Init => TypeOK /\ Control /\ Flow
  BY TypeInit, ControlInit, FlowInit
<1>2. Init => AtMostOnce /\ AckedIsStored /\ StreamedIsStored /\ OvertakenWasForsaken
  BY DEF Init, AtMostOnce, AckedIsStored, StreamedIsStored, OvertakenWasForsaken, RangeOf
<1> QED
  BY <1>1, <1>2 DEF IInv

-----------------------------------------------------------------------------
LEMMA FlowPost ==
  ASSUME TypeOK, Flow, NEW a \in Agents, Post(a)
  PROVE  Flow'
<1> DEFINE n == posts[a] + 1
<1> DEFINE q == <<a, n>>
<1> USE DEF agentVars, databaseVars
<1>1. /\ q \in Posts
      /\ waiting[a] = 0
      /\ n \in Nat
      /\ posts' = [posts EXCEPT ![a] = n]
      /\ waiting' = [waiting EXCEPT ![a] = n]
      /\ kind' = [kind EXCEPT ![q] = step[a]]
      /\ stage' = [stage EXCEPT ![q] = FirstStage(step[a])]
      /\ UNCHANGED <<seen, stored, streamed, forsaken>>
  BY DEF Post, Number, Free, TypeOK
<1>2. stage[q] = "unsent"
  BY <1>1 DEF Flow, FlowOf, TypeOK
<1>3. ASSUME NEW p \in Posts
      PROVE  FlowOf(p)'
  <2>1. p[1] \in Agents /\ p[2] \in Nat \ {0} /\ p = <<p[1], p[2]>>
    BY MaxPostsAssumption DEF Posts
  <2>2. CASE p = q
    <3>1. /\ stage'[p] = FirstStage(step[a])
          /\ kind'[p] = step[a]
          /\ posts'[p[1]] = p[2]
          /\ waiting'[p[1]] = p[2]
      BY <1>1, <2>2 DEF TypeOK
    <3>2. p \notin RangeOf(stored) /\ p \notin RangeOf(streamed)
      BY <1>2, <2>2 DEF Flow, FlowOf, BeforeInsert, BeforeBroadcast
    <3> HIDE DEF q
    <3> QED
      BY <1>1, <2>1, <3>1, <3>2 DEF FlowOf, FirstStage, BeforeInsert, BeforeBroadcast, RangeOf
  <2>3. CASE p # q
    <3>1. stage'[p] = stage[p] /\ kind'[p] = kind[p]
      BY <1>1, <2>3 DEF TypeOK
    <3>2. stage'[p] = "unsent" <=> posts'[p[1]] < p[2]
      BY <1>1, <2>1, <2>3, <3>1 DEF Flow, FlowOf, TypeOK
    <3>3. stage[p] \in {"touch", "insert", "broadcast"} =>
            p \in forsaken \/ waiting'[p[1]] = p[2]
      BY <1>1, <2>1, <2>3 DEF Flow, FlowOf, TypeOK
    <3> HIDE DEF q
    <3> QED
      BY <1>1, <3>1, <3>2, <3>3 DEF Flow, FlowOf, RangeOf
  <2> QED
    BY <2>2, <2>3
<1>4. \A b \in Agents : waiting'[b] \in {0, posts'[b]}
  BY <1>1 DEF Flow, TypeOK
<1> QED
  BY <1>3, <1>4 DEF Flow

\* The agent leaves a send: the post it waited for is over or forsaken.
LEMMA FlowLeave ==
  ASSUME TypeOK, Flow, NEW a \in Agents,
         Acknowledged(a) \/ PostFailed(a) \/ PostTimeout(a) \/ AgentRestart(a)
  PROVE  Flow'
<1> DEFINE q == <<a, waiting[a]>>
<1> USE DEF agentVars, databaseVars, postVars
<1>1. /\ waiting' = [waiting EXCEPT ![a] = 0]
      /\ UNCHANGED <<posts, kind, seen, stored, streamed>>
  BY DEF Acknowledged, PostFailed, PostTimeout, AgentRestart, MoveOn
<1>2. \/ /\ stage[q] \notin {"unsent", "touch", "insert", "broadcast"}
         /\ stage' = [stage EXCEPT ![q] = "over"]
         /\ UNCHANGED forsaken
      \/ Forsake(q)
  BY WaitingPost DEF Acknowledged, PostFailed, PostTimeout, AgentRestart
<1>3. ASSUME NEW p \in Posts
      PROVE  FlowOf(p)'
  <2>1. p[1] \in Agents /\ p[2] \in Nat \ {0} /\ p = <<p[1], p[2]>>
    BY MaxPostsAssumption DEF Posts
  <2>2. /\ stage'[p] \in {stage[p], "over"}
        /\ stage'[p] = "unsent" <=> stage[p] = "unsent"
        /\ forsaken \subseteq forsaken'
    BY <1>2 DEF TypeOK, Forsake
  <2>3. stage'[p] \in {"touch", "insert", "broadcast"} =>
          p \in forsaken' \/ waiting'[p[1]] = p[2]
    <3>1. CASE p = q
      BY <1>2, <3>1 DEF TypeOK, Forsake
    <3>2. CASE p # q
      <4>1. waiting[p[1]] = p[2] => p[1] # a
        BY <2>1, <3>2
      <4> QED
        BY <1>1, <2>1, <2>2, <4>1 DEF Flow, FlowOf, TypeOK
    <3> QED
      BY <3>1, <3>2
  <2> QED
    BY <1>1, <2>2, <2>3 DEF Flow, FlowOf, RangeOf, BeforeInsert, BeforeBroadcast
<1>4. \A b \in Agents : waiting'[b] \in {0, posts'[b]}
  BY <1>1 DEF Flow, TypeOK
<1> QED
  BY <1>3, <1>4 DEF Flow

LEMMA FlowHandler ==
  ASSUME TypeOK, Flow, NEW q \in Posts, Handler(q)
  PROVE  Flow'
<1> USE DEF agentVars, loopVars, databaseVars
<1>1. /\ UNCHANGED <<posts, waiting, kind, forsaken>>
      /\ \A p \in Posts : p # q => stage'[p] = stage[p]
      /\ seen \subseteq seen'
  BY DEF Handler, Touch, TouchError, Insert, InsertError, Broadcast, Answer, GoTo, TypeOK
<1>0. /\ RangeOf(Append(stored, q)) = RangeOf(stored) \cup {q}
      /\ RangeOf(Append(streamed, q)) = RangeOf(streamed) \cup {q}
  <2>1. stored \in Seq(Posts) /\ streamed \in Seq(Posts)
    BY DEF TypeOK
  <2> QED
    BY <2>1, RangeAppend
<1>2. stored' = stored \/ (stage[q] = "insert" /\ RangeOf(stored') = RangeOf(stored) \cup {q})
  <2>1. stored' = stored \/ (stage[q] = "insert" /\ stored' = Append(stored, q))
    BY DEF Handler, Touch, TouchError, Insert, InsertError, Broadcast, Commit
  <2> QED
    BY <1>0, <2>1
<1>3. \/ streamed' = streamed
      \/ stage[q] = "broadcast" /\ RangeOf(streamed') = RangeOf(streamed) \cup {q}
  <2>1. streamed' = streamed \/ (stage[q] = "broadcast" /\ streamed' = Append(streamed, q))
    BY DEF Handler, Touch, TouchError, Insert, InsertError, Broadcast
  <2> QED
    BY <1>0, <2>1
<1>4. FlowOf(q)'
  <2>1. FlowOf(q)
    BY DEF Flow
  <2>2. CASE Touch(q)
    BY <1>1, <2>1, <2>2 DEF Touch, GoTo, FlowOf, RangeOf, BeforeInsert, BeforeBroadcast, TypeOK
  <2>3. CASE TouchError(q)
    BY <1>1, <2>1, <2>3 DEF TouchError, Answer, GoTo, FlowOf, RangeOf, BeforeInsert, BeforeBroadcast, TypeOK
  <2>4. CASE Insert(q)
    <3>1. RangeOf(stored') = RangeOf(stored) \cup {q}
      BY <1>0, <2>4 DEF Insert, Commit
    <3>2. stage[q] = "insert" /\ stage'[q] = "broadcast" /\ UNCHANGED <<streamed, seen>>
      BY <2>4 DEF Insert, GoTo, TypeOK
    <3> QED
      BY <1>1, <2>1, <3>1, <3>2 DEF FlowOf, RangeOf, BeforeInsert, BeforeBroadcast
  <2>5. CASE InsertError(q)
    <3>1. stage[q] = "insert" /\ stage'[q] \in {"error", "over"} /\ UNCHANGED <<streamed, seen>>
      BY <2>5 DEF InsertError, Answer, GoTo, AfterInsertError, TypeOK
    <3> QED
      BY <1>1, <2>1, <3>1 DEF FlowOf, RangeOf, BeforeInsert, BeforeBroadcast
  <2>6. CASE Broadcast(q)
    <3>1. stage[q] = "broadcast" /\ stage'[q] \in {"ok", "over"} /\ UNCHANGED <<stored, seen>>
      BY <2>6 DEF Broadcast, Answer, GoTo, TypeOK
    <3> QED
      BY <1>1, <2>1, <3>1 DEF FlowOf, RangeOf, BeforeInsert, BeforeBroadcast
  <2> QED
    BY <2>2, <2>3, <2>4, <2>5, <2>6 DEF Handler
<1>5. ASSUME NEW p \in Posts, p # q
      PROVE  FlowOf(p)'
  <2>1. /\ stage'[p] = stage[p]
        /\ p \in RangeOf(stored') <=> p \in RangeOf(stored)
        /\ p \in RangeOf(streamed') <=> p \in RangeOf(streamed)
    BY <1>1, <1>2, <1>3, <1>5
  <2> QED
    BY <1>1, <2>1 DEF Flow, FlowOf, RangeOf
<1> QED
  BY <1>1, <1>4, <1>5 DEF Flow

LEMMA FlowBackend ==
  ASSUME TypeOK, Flow, BackendStops
  PROVE  Flow'
<1> USE DEF databaseVars
<1>1. /\ UNCHANGED <<posts, waiting, kind, seen, stored, streamed, forsaken>>
      /\ \A p \in Posts : stage'[p] = IF stage[p] = "unsent" THEN "unsent" ELSE "over"
  BY DEF BackendStops
<1> QED
  BY <1>1 DEF Flow, FlowOf, RangeOf, BeforeInsert, BeforeBroadcast

LEMMA FlowStep == TypeOK /\ Flow /\ [Next]_vars => Flow'
<1> SUFFICES ASSUME TypeOK, Flow, [Next]_vars
             PROVE  Flow'
  OBVIOUS
<1> USE DEF agentVars, regVars, loopVars, postVars, databaseVars
<1>1. ASSUME NEW a \in Agents, Registration(a) \/ Tick(a) \/ Skip(a)
      PROVE  Flow'
  BY <1>1, FlowFrame DEF Registration, Register, RegisterUpsert, RegisterError, Registered,
              RegisterFailed, RegisterTimeout, LateRegister, Tick, Skip
<1>2. CASE BackendStarts \/ UNCHANGED vars
  BY <1>2, FlowFrame DEF BackendStarts, vars
<1> QED
  BY <1>1, <1>2, FlowPost, FlowLeave, FlowHandler, FlowBackend DEF Next, Loop

-----------------------------------------------------------------------------
(* What is stored, streamed and acknowledged                               *)

\* Steps append to stored and streamed, and only a post that is not there and
\* that the agent waits for, unless it has forsaken it.
MayCommit(q) ==
  /\ q \in Posts
  /\ q \notin RangeOf(stored)
  /\ stored' = Append(stored, q)

MayStream(q) ==
  /\ q \in RangeOf(stored)
  /\ q \notin RangeOf(streamed)
  /\ streamed' = Append(streamed, q)

\* Nothing of its agent that is later than q has been sent, or q is forsaken.
InTurn(q) == q \in forsaken \/ \A p \in Posts : p[1] = q[1] /\ q[2] < p[2] => stage[p] = "unsent"

LEMMA Courses ==
  ASSUME IInv, [Next]_vars
  PROVE  /\ UNCHANGED stored \/ \E q \in Posts : InTurn(q) /\ MayCommit(q)
         /\ UNCHANGED streamed \/ \E q \in Posts : InTurn(q) /\ MayStream(q)
                                     /\ (kind[q] = "metrics" => q \in seen)
         /\ seen \subseteq seen'
         /\ forsaken \subseteq forsaken'
         /\ \A p \in Posts : stage[p] # "unsent" => kind'[p] = kind[p]
         /\ \A p \in acked' \ acked : p \in RangeOf(stored)
<1> USE DEF agentVars, regVars, loopVars, postVars, databaseVars
<1>1. ASSUME NEW q \in Posts, stage[q] \in {"touch", "insert", "broadcast"}
      PROVE  InTurn(q)
  <2>1. ASSUME NEW p \in Posts, p[1] = q[1], q[2] < p[2], q \notin forsaken
        PROVE  stage[p] = "unsent"
    <3>1. q[1] \in Agents /\ q[2] \in Nat \ {0} /\ p[2] \in Nat
      BY MaxPostsAssumption DEF Posts
    <3>2. waiting[q[1]] = q[2]
      BY <1>1, <2>1 DEF IInv, Flow, FlowOf
    <3>3. posts[q[1]] = q[2]
      BY <3>1, <3>2 DEF IInv, Flow
    <3> QED
      BY <2>1, <3>3 DEF IInv, Flow, FlowOf
  <2> QED
    BY <2>1 DEF InTurn
<1>2. ASSUME NEW q \in Posts, stage[q] = "insert", stored' = Append(stored, q)
      PROVE  InTurn(q) /\ MayCommit(q)
  BY <1>1, <1>2 DEF MayCommit, IInv, Flow, FlowOf, BeforeInsert
<1>3. ASSUME NEW q \in Posts, stage[q] = "broadcast", streamed' = Append(streamed, q)
      PROVE  InTurn(q) /\ MayStream(q) /\ (kind[q] = "metrics" => q \in seen)
  BY <1>1, <1>3 DEF MayStream, IInv, Flow, FlowOf, BeforeBroadcast
<1>4. ASSUME NEW q \in Posts, Handler(q)
      PROVE  /\ UNCHANGED stored \/ (stage[q] = "insert" /\ stored' = Append(stored, q))
             /\ UNCHANGED streamed \/ (stage[q] = "broadcast" /\ streamed' = Append(streamed, q))
             /\ seen \subseteq seen'
             /\ UNCHANGED <<forsaken, kind, acked>>
  BY <1>4 DEF Handler, Touch, TouchError, Insert, InsertError, Broadcast, Commit
<1>5. ASSUME NEW a \in Agents, Registration(a) \/ Tick(a) \/ Skip(a)
      PROVE  UNCHANGED <<stored, streamed, seen, forsaken, kind, acked>>
  BY <1>5 DEF Registration, Register, RegisterUpsert, RegisterError, Registered,
              RegisterFailed, RegisterTimeout, LateRegister, Tick, Skip
<1>6. ASSUME NEW a \in Agents, Post(a)
      PROVE  /\ UNCHANGED <<stored, streamed, seen, forsaken, acked>>
             /\ \A p \in Posts : stage[p] # "unsent" => kind'[p] = kind[p]
  <2> DEFINE q == <<a, posts[a] + 1>>
  <2>1. /\ q \in Posts
        /\ kind' = [kind EXCEPT ![q] = step[a]]
        /\ UNCHANGED <<stored, streamed, seen, forsaken, acked>>
    BY <1>6 DEF Post, Number
  <2>2. stage[q] = "unsent"
    BY <2>1 DEF IInv, Flow, FlowOf, TypeOK
  <2> QED
    BY <2>1, <2>2 DEF IInv, TypeOK
<1>7. ASSUME NEW a \in Agents, PostFailed(a) \/ PostTimeout(a) \/ AgentRestart(a)
      PROVE  UNCHANGED <<stored, streamed, seen, kind, acked>> /\ forsaken \subseteq forsaken'
  BY <1>7 DEF PostFailed, PostTimeout, AgentRestart, Forsake
<1>8. ASSUME NEW a \in Agents, Acknowledged(a)
      PROVE  /\ UNCHANGED <<stored, streamed, seen, kind, forsaken>>
             /\ \A p \in acked' \ acked : p \in RangeOf(stored)
  <2> DEFINE q == <<a, waiting[a]>>
  <2>1. q \in Posts
    BY <1>8, WaitingPost DEF IInv, Acknowledged
  <2>2. q \in RangeOf(stored)
    BY <1>8, <2>1 DEF IInv, Flow, FlowOf, Acknowledged
  <2> QED
    BY <1>8, <2>2 DEF Acknowledged
<1>9. CASE BackendStops \/ BackendStarts \/ UNCHANGED vars
  BY <1>9 DEF BackendStops, BackendStarts, vars
<1>10. CASE \E q \in Posts : Handler(q)
  BY <1>2, <1>3, <1>4, <1>10
<1> QED
  BY <1>5, <1>6, <1>7, <1>8, <1>9, <1>10 DEF Next, Loop

-----------------------------------------------------------------------------
(* The invariant                                                           *)

Once(s) == \A i, j \in DOMAIN s : s[i] = s[j] => i = j

InOrder(s, f) ==
  \A i, j \in DOMAIN s : i < j /\ s[i][1] = s[j][1] /\ s[j][2] < s[i][2] => s[j] \in f

LEMMA AppendFacts ==
  ASSUME NEW s \in Seq(Posts), NEW q \in Posts
  PROVE  /\ DOMAIN Append(s, q) = DOMAIN s \cup {Len(s) + 1}
         /\ DOMAIN s = 1 .. Len(s)
         /\ Len(s) \in Nat
         /\ Append(s, q)[Len(s) + 1] = q
         /\ \A i \in DOMAIN s : Append(s, q)[i] = s[i] /\ s[i] \in RangeOf(s) /\ s[i] \in Posts
  BY DEF RangeOf

LEMMA AppendOnce ==
  ASSUME NEW s \in Seq(Posts), NEW q \in Posts, q \notin RangeOf(s), Once(s)
  PROVE  Once(Append(s, q))
  BY AppendFacts DEF Once

LEMMA AppendInOrder ==
  ASSUME NEW s \in Seq(Posts), NEW q \in Posts, NEW f, InOrder(s, f),
         q \in f \/ \A p \in RangeOf(s) : ~ (p[1] = q[1] /\ q[2] < p[2])
  PROVE  InOrder(Append(s, q), f)
<1>1. ASSUME NEW i \in DOMAIN Append(s, q), NEW j \in DOMAIN Append(s, q), i < j,
             Append(s, q)[i][1] = Append(s, q)[j][1],
             Append(s, q)[j][2] < Append(s, q)[i][2]
      PROVE  Append(s, q)[j] \in f
  <2>1. CASE j \in DOMAIN s
    <3>1. i \in DOMAIN s
      BY <1>1, <2>1, AppendFacts
    <3> QED
      BY <1>1, <2>1, <3>1, AppendFacts DEF InOrder
  <2>2. CASE j = Len(s) + 1
    <3>1. i \in DOMAIN s /\ Append(s, q)[j] = q
      BY <1>1, <2>2, AppendFacts
    <3>2. Append(s, q)[i] = s[i] /\ s[i] \in RangeOf(s)
      BY <3>1, AppendFacts
    <3> QED
      BY <1>1, <3>1, <3>2
  <2> QED
    BY <2>1, <2>2, AppendFacts
<1> QED
  BY <1>1 DEF InOrder

\* What has been sent cannot be unsent: a later post in a sequence is sent.
LEMMA InTurnIsLast ==
  ASSUME Flow, NEW q \in Posts, InTurn(q), NEW s \in {stored, streamed}, s \in Seq(Posts)
  PROVE  q \in forsaken \/ \A p \in RangeOf(s) : ~ (p[1] = q[1] /\ q[2] < p[2])
<1>1. ASSUME NEW p \in RangeOf(s)
      PROVE  p \in Posts /\ stage[p] # "unsent"
  <2>1. p \in Posts
    BY AppendFacts DEF RangeOf
  <2> QED
    BY <1>1, <2>1 DEF Flow, FlowOf, BeforeInsert, BeforeBroadcast
<1> QED
  BY <1>1 DEF InTurn

LEMMA OrderGrows ==
  ASSUME NEW s, NEW f, NEW g, InOrder(s, f), f \subseteq g
  PROVE  InOrder(s, g)
  BY DEF InOrder

LEMMA InductiveStep == IInv /\ [Next]_vars => IInv'
<1> SUFFICES ASSUME IInv, [Next]_vars
             PROVE  IInv'
  OBVIOUS
<1>1. TypeOK' /\ Control' /\ Flow'
  BY TypeStep, ControlStep, FlowStep DEF IInv
<1>2. stored \in Seq(Posts) /\ streamed \in Seq(Posts)
  BY DEF IInv, TypeOK
<1>3. /\ Once(stored) /\ Once(streamed)
      /\ InOrder(stored, forsaken) /\ InOrder(streamed, forsaken)
  BY DEF IInv, AtMostOnce, OvertakenWasForsaken, Once, InOrder
<1>4. forsaken \subseteq forsaken'
  BY Courses
<1>5. Once(stored') /\ InOrder(stored', forsaken')
  <2>1. CASE UNCHANGED stored
    BY <1>3, <1>4, <2>1, OrderGrows
  <2>2. ASSUME NEW q \in Posts, InTurn(q), MayCommit(q)
        PROVE  Once(stored') /\ InOrder(stored', forsaken)
    <3>1. q \in forsaken \/ \A p \in RangeOf(stored) : ~ (p[1] = q[1] /\ q[2] < p[2])
      BY <1>2, <2>2, InTurnIsLast DEF IInv
    <3> QED
      BY <1>2, <1>3, <2>2, <3>1, AppendOnce, AppendInOrder DEF MayCommit
  <2> QED
    BY <1>4, <2>1, <2>2, Courses, OrderGrows
<1>6. Once(streamed') /\ InOrder(streamed', forsaken')
  <2>1. CASE UNCHANGED streamed
    BY <1>3, <1>4, <2>1, OrderGrows
  <2>2. ASSUME NEW q \in Posts, InTurn(q), MayStream(q)
        PROVE  Once(streamed') /\ InOrder(streamed', forsaken)
    <3>1. q \in forsaken \/ \A p \in RangeOf(streamed) : ~ (p[1] = q[1] /\ q[2] < p[2])
      BY <1>2, <2>2, InTurnIsLast DEF IInv
    <3> QED
      BY <1>2, <1>3, <2>2, <3>1, AppendOnce, AppendInOrder DEF MayStream
  <2> QED
    BY <1>4, <2>1, <2>2, Courses, OrderGrows
<1>7. RangeOf(stored) \subseteq RangeOf(stored')
  <2>1. CASE UNCHANGED stored
    BY <2>1
  <2>2. ASSUME NEW q \in Posts, MayCommit(q)
        PROVE  RangeOf(stored) \subseteq RangeOf(stored')
    BY <1>2, <2>2, RangeAppend DEF MayCommit
  <2> QED
    BY <2>1, <2>2, Courses
<1>8. AckedIsStored'
  <2>1. acked \subseteq RangeOf(stored)
    BY DEF IInv, AckedIsStored
  <2>2. \A p \in acked' : p \in RangeOf(stored)
    BY <2>1, Courses
  <2> QED
    BY <1>7, <2>2 DEF AckedIsStored, RangeOf
<1>9. StreamedIsStored'
  <2>1. ASSUME NEW p \in RangeOf(streamed')
        PROVE  p \in RangeOf(stored) /\ (kind'[p] = "metrics" => p \in seen')
    <3>1. CASE p \in RangeOf(streamed)
      <4>1. p \in Posts /\ stage[p] # "unsent"
        BY <1>2, <3>1, AppendFacts DEF IInv, Flow, FlowOf, BeforeBroadcast, BeforeInsert, RangeOf
      <4> QED
        BY <3>1, <4>1, Courses DEF IInv, StreamedIsStored
    <3>2. CASE p \notin RangeOf(streamed)
      <4>1. PICK q \in Posts : MayStream(q) /\ (kind[q] = "metrics" => q \in seen)
        BY <2>1, <3>2, Courses DEF RangeOf
      <4>2. p = q
        BY <1>2, <2>1, <3>2, <4>1, RangeAppend DEF MayStream
      <4>3. stage[q] # "unsent"
        BY <4>1 DEF MayStream, IInv, Flow, FlowOf, BeforeInsert
      <4> QED
        BY <4>1, <4>2, <4>3, Courses DEF MayStream
    <3> QED
      BY <3>1, <3>2
  <2> QED
    BY <1>7, <2>1 DEF StreamedIsStored, RangeOf
<1>10. AtMostOnce' /\ OvertakenWasForsaken'
  BY <1>5, <1>6 DEF AtMostOnce, OvertakenWasForsaken, Once, InOrder
<1> QED
  BY <1>1, <1>8, <1>9, <1>10 DEF IInv

LEMMA Inductive == Spec => []IInv
  BY InductiveInit, InductiveStep, PTL DEF Spec

\* No post is stored twice, or streamed twice.
THEOREM AtMostOnceAlways == Spec => []AtMostOnce
<1>1. IInv => AtMostOnce
  BY DEF IInv
<1> QED
  BY <1>1, Inductive, PTL

\* What the agent was told is stored is stored, and stays.
THEOREM AckedIsStoredAlways == Spec => []AckedIsStored
<1>1. IInv => AckedIsStored
  BY DEF IInv
<1> QED
  BY <1>1, Inductive, PTL

\* What is shown live is in the database, under a last_seen as recent.
THEOREM StreamedIsStoredAlways == Spec => []StreamedIsStored
<1>1. IInv => StreamedIsStored
  BY DEF IInv
<1> QED
  BY <1>1, Inductive, PTL

\* Only a post that its agent gave up on is overtaken.
THEOREM OvertakenAlways == Spec => []OvertakenWasForsaken
<1>1. IInv => OvertakenWasForsaken
  BY DEF IInv
<1> QED
  BY <1>1, Inductive, PTL

\* No container snapshot older than an acknowledged one is served.
THEOREM NewestServedAlways == Spec => []NewestServed
<1>1. IInv => NewestServed
  BY DEF IInv, AckedIsStored, NewestServed, ContainerPosts, IsLatest
<1> QED
  BY <1>1, Inductive, PTL

-----------------------------------------------------------------------------
(* Identity                                                                *)

\* Ids are given out one after the other and once each.
Numbering ==
  /\ \A a \in Agents : servers[a] <= Cardinality(Known)
  /\ \A a, b \in Agents : servers[a] = servers[b] => a = b \/ servers[a] = 0

\* What an agent holds, or is being told, is the id of its row.
Holding ==
  \A a \in Agents :
    /\ serverID[a] \in {0, servers[a]}
    /\ answer[a] \in {0, servers[a]}
    /\ reg[a] = "created" => answer[a] # 0
    /\ step[a] # "register" => serverID[a] # 0

Targets ==
  \A p \in Posts : stage[p] # "unsent" => target[p] = servers[p[1]] /\ target[p] # 0

IdInv == TypeOK /\ Control /\ Numbering /\ Holding /\ Targets

LEMMA IdInit == Init => IdInv
<1>1. Init => TypeOK /\ Control
  BY TypeInit, ControlInit
<1>2. Init => Numbering /\ Holding /\ Targets
  BY KnownFinite DEF Init, Numbering, Holding, Targets
<1> QED
  BY <1>1, <1>2 DEF IdInv

\* An upsert leaves the other rows alone, and a known hostname its id.
LEMMA UpsertEffect ==
  ASSUME TypeOK, Numbering, NEW a \in Agents, Upsert(a)
  PROVE  /\ servers' = [servers EXCEPT ![a] = UpsertedID(a)]
         /\ servers'[a] = UpsertedID(a)
         /\ UpsertedID(a) # 0
         /\ \A b \in Agents : servers[b] # 0 => servers'[b] = servers[b]
         /\ Numbering'
<1>1. /\ servers' = [servers EXCEPT ![a] = UpsertedID(a)]
      /\ servers \in [Agents -> 0 .. Cardinality(Agents)]
  BY DEF TypeOK, Upsert
<1>2. UpsertedID(a) \in 1 .. Cardinality(Agents)
  BY UpsertedIDType
<1>3. CASE servers[a] # 0
  <2>1. UpsertedID(a) = servers[a]
    BY <1>3 DEF UpsertedID
  <2>2. servers' = servers
    BY <1>1, <2>1
  <2> QED
    BY <1>1, <1>3, <2>1, <2>2 DEF Numbering, Known
<1>4. CASE servers[a] = 0
  <2>1. UpsertedID(a) = Cardinality(Known) + 1
    BY <1>4 DEF UpsertedID, NewID, Known
  <2>2. Known' = Known \cup {a} /\ a \notin Known
    BY <1>1, <1>2, <1>4, KnownFinite DEF Known
  <2>3. Cardinality(Known') = Cardinality(Known) + 1
    BY <2>2, KnownFinite, FS_AddElement
  <2>4. \A b \in Agents : servers'[b] = IF b = a THEN Cardinality(Known) + 1 ELSE servers[b]
    BY <1>1, <2>1
  <2>5. \A b \in Agents : servers'[b] <= Cardinality(Known')
    BY <1>1, <2>3, <2>4, KnownFinite DEF Numbering
  <2>6. \A b, c \in Agents : servers'[b] = servers'[c] => b = c \/ servers'[b] = 0
    BY <1>1, <2>4, KnownFinite DEF Numbering
  <2> QED
    BY <1>1, <1>2, <1>4, <2>4, <2>5, <2>6, KnownFinite DEF Numbering
<1> QED
  BY <1>3, <1>4

LEMMA IdStep == IdInv /\ [Next]_vars => IdInv'
<1> SUFFICES ASSUME IdInv, [Next]_vars
             PROVE  IdInv'
  OBVIOUS
<1> USE DEF agentVars, regVars, loopVars, postVars, databaseVars
<1>1. TypeOK' /\ Control'
  BY TypeStep, ControlStep DEF IdInv
<1>2. TypeOK /\ Control /\ Numbering /\ Holding /\ Targets
  BY DEF IdInv
<1>3. ASSUME NEW p \in Posts
      PROVE  p[1] \in Agents
  BY DEF Posts
<1>4. ASSUME UNCHANGED servers
      PROVE  Numbering'
  BY <1>2, <1>4 DEF Numbering, Known
<1>5. ASSUME NEW a \in Agents, Upsert(a), UNCHANGED <<serverID, step, stage, target>>,
             \/ UNCHANGED answer /\ (reg'[a] # "created" \/ UNCHANGED reg)
             \/ answer' = [answer EXCEPT ![a] = UpsertedID(a)],
             \A b \in Agents \ {a} : reg'[b] = reg[b]
      PROVE  Numbering' /\ Holding' /\ Targets'
  <2>1. /\ servers'[a] = UpsertedID(a)
        /\ UpsertedID(a) # 0
        /\ \A b \in Agents : servers[b] # 0 => servers'[b] = servers[b]
        /\ Numbering'
    BY <1>2, <1>5, UpsertEffect
  <2>2. Targets'
    BY <1>2, <1>3, <1>5, <2>1 DEF Targets
  <2>3. ASSUME NEW b \in Agents
        PROVE  /\ serverID'[b] \in {0, servers'[b]}
               /\ answer'[b] \in {0, servers'[b]}
               /\ reg'[b] = "created" => answer'[b] # 0
               /\ step'[b] # "register" => serverID'[b] # 0
    <3>1. /\ serverID'[b] \in {0, servers'[b]}
          /\ step'[b] # "register" => serverID'[b] # 0
      BY <1>2, <1>5, <2>1 DEF Holding
    <3>2. CASE UNCHANGED answer /\ (reg'[a] # "created" \/ UNCHANGED reg)
      <4>1. answer'[b] \in {0, servers'[b]}
        BY <1>2, <2>1, <3>2 DEF Holding
      <4>2. reg'[b] = "created" => reg[b] = "created"
        BY <1>5, <3>2
      <4> QED
        BY <1>2, <3>1, <3>2, <4>1, <4>2 DEF Holding
    <3>3. CASE answer' = [answer EXCEPT ![a] = UpsertedID(a)]
      BY <1>2, <1>5, <2>1, <3>1, <3>3 DEF Holding, TypeOK
    <3> QED
      BY <1>5, <3>1, <3>2, <3>3
  <2> QED
    BY <2>1, <2>2, <2>3 DEF Holding
<1>6. ASSUME NEW a \in Agents, RegisterUpsert(a) \/ RegisterError(a) \/ LateRegister(a)
      PROVE  Numbering' /\ Holding' /\ Targets'
  <2>1. CASE RegisterUpsert(a)
    BY <1>2, <1>5, <2>1 DEF RegisterUpsert, TypeOK
  <2>2. CASE RegisterError(a) /\ Upsert(a)
    BY <1>2, <1>5, <2>2 DEF RegisterError, TypeOK
  <2>3. CASE RegisterError(a) /\ UNCHANGED servers
    BY <1>2, <1>4, <2>3 DEF RegisterError, Holding, Targets, TypeOK
  <2>4. CASE LateRegister(a) /\ Upsert(a)
    BY <1>2, <1>5, <2>4 DEF LateRegister, TypeOK
  <2>5. CASE LateRegister(a) /\ UNCHANGED servers
    BY <1>2, <1>4, <2>5 DEF LateRegister, Holding, Targets
  <2> QED
    BY <1>6, <2>1, <2>2, <2>3, <2>4, <2>5 DEF RegisterError, LateRegister
<1>7. ASSUME NEW a \in Agents,
             Register(a) \/ Registered(a) \/ RegisterFailed(a) \/ RegisterTimeout(a)
      PROVE  Numbering' /\ Holding' /\ Targets'
  BY <1>2, <1>4, <1>7 DEF Register, Registered, RegisterFailed, RegisterTimeout,
                          Unregistering, Holding, Targets, TypeOK
<1>8. ASSUME NEW a \in Agents, Tick(a) \/ Skip(a)
      PROVE  Numbering' /\ Holding' /\ Targets'
  BY <1>2, <1>4, <1>8 DEF Tick, Skip, Kinds, Holding, Targets, TypeOK
<1>9. ASSUME NEW a \in Agents, Post(a)
      PROVE  Numbering' /\ Holding' /\ Targets'
  <2> DEFINE q == <<a, posts[a] + 1>>
  <2>1. serverID[a] = servers[a] /\ serverID[a] # 0
    BY <1>2, <1>9 DEF Post, Kinds, Holding
  <2>2. /\ q \in Posts
        /\ target' = [target EXCEPT ![q] = serverID[a]]
        /\ \A p \in Posts : p # q => stage'[p] = stage[p]
        /\ UNCHANGED <<servers, serverID, answer, reg, step>>
    BY <1>2, <1>9 DEF Post, Number, TypeOK
  <2>3. Targets'
    <3>1. \A p \in Posts : target'[p] = IF p = q THEN serverID[a] ELSE target[p]
      BY <1>2, <2>2 DEF TypeOK
    <3>2. q[1] = a
      OBVIOUS
    <3> HIDE DEF q
    <3> QED
      BY <1>2, <2>1, <2>2, <3>1, <3>2 DEF Targets
  <2> QED
    BY <1>2, <1>4, <2>2, <2>3 DEF Holding
<1>10. ASSUME NEW a \in Agents,
              Acknowledged(a) \/ PostFailed(a) \/ PostTimeout(a) \/ AgentRestart(a)
       PROVE  Numbering' /\ Holding' /\ Targets'
  <2>1. /\ \A p \in Posts : stage'[p] # "unsent" => stage[p] # "unsent"
        /\ UNCHANGED <<servers, target>>
    <3>1. CASE Acknowledged(a) \/ PostFailed(a)
      BY <1>2, <3>1 DEF Acknowledged, PostFailed, TypeOK
    <3>2. CASE PostTimeout(a) \/ AgentRestart(a)
      <4>1. \E q : Forsake(q)
        BY <3>2 DEF PostTimeout, AgentRestart
      <4>2. \A p \in Posts : stage'[p] # "unsent" => stage[p] # "unsent"
        BY <1>2, <4>1 DEF Forsake, TypeOK
      <4> QED
        BY <3>2, <4>2 DEF PostTimeout, AgentRestart
    <3> QED
      BY <1>10, <3>1, <3>2
  <2>2. Holding'
    <3>1. CASE AgentRestart(a)
      BY <1>2, <3>1 DEF AgentRestart, Unregistering, Holding, TypeOK
    <3>2. CASE Acknowledged(a) \/ PostFailed(a) \/ PostTimeout(a)
      <4>1. step[a] # "register"
        BY <1>2, <3>2 DEF Acknowledged, PostFailed, PostTimeout, Control, Kinds
      <4>2. /\ \A b \in Agents \ {a} : step'[b] = step[b]
            /\ UNCHANGED <<servers, serverID, answer, reg>>
        BY <1>2, <3>2 DEF Acknowledged, PostFailed, PostTimeout, MoveOn, TypeOK
      <4> QED
        BY <1>2, <4>1, <4>2 DEF Holding
    <3> QED
      BY <1>10, <3>1, <3>2
  <2> QED
    BY <1>2, <1>4, <2>1, <2>2 DEF Targets
<1>11. ASSUME NEW q \in Posts, Handler(q)
       PROVE  Numbering' /\ Holding' /\ Targets'
  <2>1. /\ \A p \in Posts : stage'[p] # "unsent" => stage[p] # "unsent"
        /\ UNCHANGED <<servers, serverID, answer, reg, step, target>>
    BY <1>2, <1>11 DEF Handler, Touch, TouchError, Insert, InsertError, Broadcast, Answer, GoTo, TypeOK
  <2> QED
    BY <1>2, <1>4, <2>1 DEF Holding, Targets
<1>12. ASSUME BackendStops
       PROVE  Numbering' /\ Holding' /\ Targets'
  <2>1. /\ \A p \in Posts : stage'[p] # "unsent" => stage[p] # "unsent"
        /\ \A a \in Agents : answer'[a] = 0 /\ reg'[a] # "created"
        /\ UNCHANGED <<servers, serverID, step, target>>
    BY <1>12 DEF BackendStops
  <2>2. Numbering'
    BY <1>4, <2>1
  <2>3. Holding'
    BY <1>2, <2>1 DEF Holding
  <2>4. Targets'
    BY <1>2, <2>1 DEF Targets
  <2> QED
    BY <2>2, <2>3, <2>4
<1>13. ASSUME BackendStarts \/ UNCHANGED vars
       PROVE  Numbering' /\ Holding' /\ Targets'
  <2>1. UNCHANGED <<servers, serverID, answer, reg, step, target, stage>>
    BY <1>13 DEF BackendStarts, vars
  <2>2. Numbering'
    BY <1>4, <2>1
  <2>3. Holding'
    BY <1>2, <2>1 DEF Holding
  <2>4. Targets'
    BY <1>2, <2>1 DEF Targets
  <2> QED
    BY <2>2, <2>3, <2>4
<1>14. Numbering' /\ Holding' /\ Targets'
  BY <1>6, <1>7, <1>8, <1>9, <1>10, <1>11, <1>12, <1>13 DEF Next, Registration, Loop
<1> QED
  BY <1>1, <1>14 DEF IdInv

\* A hostname keeps its id, alone, and its posts are filed under it.
THEOREM IdentityAlways == Spec => []Identity
<1>1. IdInv => Identity
  BY DEF IdInv, Numbering, Holding, Targets, Identity
<1> QED
  BY <1>1, IdInit, IdStep, PTL DEF Spec
=============================================================================
