--------------------------- MODULE ActuationProofs ---------------------------
(***************************************************************************)
(* Proofs about Actuation, for all actuators, messages and numbers of      *)
(* frames in flight: the copies of the node's state agree with the         *)
(* outputs, an actuator is as the last message with a field of it asked,   *)
(* where that is claimed (Ask), once nothing is in flight, and every step  *)
(* is one of the switch panel's.                                           *)
(***************************************************************************)
EXTENDS Actuation, SubsequenceProofs

-----------------------------------------------------------------------------
(* Duties                                                                   *)

\* A running output is never driven at the duty of one that is off; at level 0, which
\* is all the node ever applies, duties fit the 12 bits of a channel.
LEMMA DriveRuns ==
    ASSUME NEW a \in Endpoints, NEW on \in BOOLEAN
    PROVE  /\ Drive(a, on, 0) \in 0 .. 4095
           /\ on <=> Drive(a, on, 0) # OutputsOff[a]
<1> DEFINE duty == Drive(a, on, 0)
           off == OutputsOff[a]
<1>1. ServoDuty(on) = (IF on THEN 409 ELSE 204)
  <2>1. (1000 * 100) \div 100 = 1000 /\ (1000 * 0) \div 100 = 0
        OBVIOUS
  <2>2. (2000 * 50 * 4095) \div 1000000 = 409 /\ (1000 * 50 * 4095) \div 1000000 = 204
        OBVIOUS
  <2> QED BY <2>1, <2>2 DEF ServoDuty
<1>2. off = IF a \in Dimmable THEN 0 ELSE IF a \in Servos THEN 204 ELSE 0
  <2>1. (1000 * 0) \div 100 = 0 /\ (1000 * 50 * 4095) \div 1000000 = 204
        OBVIOUS
  <2> QED BY <2>1 DEF OutputsOff, Drive, PwmDuty, ServoDuty
<1>3. duty = IF a \in Dimmable THEN (IF on THEN 4095 ELSE 0)
             ELSE IF a \in Servos THEN (IF on THEN 409 ELSE 204)
             ELSE (IF on THEN 1 ELSE 0)
      BY <1>1 DEF Drive, PwmDuty
<1> HIDE DEF duty, off
<1>4. duty \in 0 .. 4095
      BY <1>3
<1>5. on <=> duty # off
      BY <1>2, <1>3
<1> QED BY <1>4, <1>5 DEF duty, off

-----------------------------------------------------------------------------
(* The first and the last bit of a mask                                     *)

\* A finite set of numbers that is not empty has a least and a greatest element.
LEMMA Extremes ==
    ASSUME NEW M \in SUBSET Int, IsFiniteSet(M), M # {}
    PROVE  Min(M) \in M /\ Max(M) \in M
<1>1. Cardinality(M) \in Nat /\ Cardinality(M) # 0
      BY FS_CardinalityType, FS_EmptySet
<1>2. PICK i \in M : Rank(M, i) = 1
      BY <1>1, RankOnto
<1>3. PICK j \in M : Rank(M, j) = Cardinality(M)
      BY <1>1, RankOnto
<1>4. \A k \in M : i <= k
  <2> SUFFICES ASSUME NEW k \in M, k < i PROVE FALSE
      OBVIOUS
  <2>1. Rank(M, k) < 1 /\ Rank(M, k) \in 1 .. Cardinality(M)
        BY <1>2, RankMonotone, RankInRange
  <2> QED BY <1>1, <2>1
<1>5. \A k \in M : j >= k
  <2> SUFFICES ASSUME NEW k \in M, j < k PROVE FALSE
      OBVIOUS
  <2>1. Cardinality(M) < Rank(M, k) /\ Rank(M, k) \in 1 .. Cardinality(M)
        BY <1>3, RankMonotone, RankInRange
  <2> QED BY <1>1, <2>1
<1> QED BY <1>4, <1>5 DEF Min, Max

\* The bounds of a set with one element.
LEMMA ExtremesOfOne ==
    ASSUME NEW a \in Int
    PROVE  Min({a}) = a /\ Max({a}) = a
BY DEF Min, Max

-----------------------------------------------------------------------------
(* The parser and the frames                                                *)

\* What the parser makes of a payload: a state of the actuators and a mask of them.
LEMMA ParseType ==
    ASSUME NEW p, IsPayload(p)
    PROVE  /\ Parse(p).on \in [Endpoints -> BOOLEAN]
           /\ Parse(p).level \in [Endpoints -> 0 .. 255]
           /\ Parse(p).mask \in SUBSET Endpoints /\ IsFiniteSet(Parse(p).mask)
           /\ Parse(p).mask \in SUBSET Int
           /\ Message(Parse(p)) \in ActStates
<1>1. Switched(p) \in SUBSET Endpoints /\ Levelled(p) \in SUBSET Endpoints
      BY EndpointsAssumption DEF IsPayload, Switched, Levelled
<1>2. \A a \in Levelled(p) : p.level[a] \in 0 .. 255
      BY DEF IsPayload, Levelled
<1>3. Parse(p).level \in [Endpoints -> 0 .. 255]
      BY <1>2 DEF Parse
<1>4. Parse(p).on \in [Endpoints -> BOOLEAN]
      BY DEF Parse
<1>5. Parse(p).mask \in SUBSET Endpoints
      BY <1>1 DEF Parse
<1>6. IsFiniteSet(Parse(p).mask) /\ Parse(p).mask \in SUBSET Int
  <2>1. IsFiniteSet(Endpoints) /\ Endpoints \in SUBSET Int
        BY EndpointsAssumption
  <2> QED BY <1>5, <2>1, FS_Subset
<1> QED BY <1>3, <1>4, <1>5, <1>6 DEF Message, ActStates

\* The on/off frame goes to an actuator of the mask, or to endpoint 0 when there is none.
LEMMA OnOffFrameType ==
    ASSUME NEW p, IsPayload(p)
    PROVE  /\ OnOffFrame(Parse(p)) \in AirFrames
           /\ TargetEndpoint(Parse(p)) \in Parse(p).mask \cup {0}
<1> DEFINE c == Parse(p)
<1>1. c.mask = {} => TargetEndpoint(c) = 0 /\ ActOn(c) = FALSE
      BY DEF TargetEndpoint, ActOn
<1>2. c.mask # {} => Min(c.mask) \in c.mask /\ Max(c.mask) \in c.mask
      BY ParseType, Extremes
<1>3. TargetEndpoint(c) \in c.mask \cup {0}
      BY <1>2 DEF TargetEndpoint
<1>4. ActOn(c) \in BOOLEAN
      BY DEF ActOn
<1> HIDE DEF c
<1>5. TargetEndpoint(c) \in Endpoints \cup {0}
      BY <1>3, ParseType DEF c
<1>6. OnOffFrame(c) \in AirFrames
      BY <1>4, <1>5 DEF OnOffFrame, AirFrames
<1> QED BY <1>3, <1>6 DEF c

\* Two sequences of one element, one behind the other.
LEMMA TwoInARow ==
    ASSUME NEW x, NEW y
    PROVE  <<x>> \o <<y>> = <<x, y>>
<1>1. /\ <<x>> \o <<y>> \in Seq({x, y}) /\ Len(<<x>> \o <<y>>) = 2
      /\ (<<x>> \o <<y>>)[1] = x /\ (<<x>> \o <<y>>)[2] = y
      OBVIOUS
<1>2. <<x, y>> \in Seq({x, y}) /\ Len(<<x, y>>) = 2
      OBVIOUS
<1>3. \A k \in 1 .. 2 : (<<x>> \o <<y>>)[k] = <<x, y>>[k]
      BY <1>1
<1> QED BY <1>1, <1>2, <1>3, SeqEqual

\* The frames of a command: the on/off frame, and behind it a level frame, if any.
LEMMA FramesType ==
    ASSUME NEW p, IsPayload(p)
    PROVE  \/ Frames(Parse(p)) = <<OnOffFrame(Parse(p))>>
           \/ /\ Frames(Parse(p)) = <<OnOffFrame(Parse(p)), LevelFrame(Parse(p))>>
              /\ LevelFrame(Parse(p)) \in AirFrames /\ LevelFrame(Parse(p)).kind = "level"
<1> DEFINE c == Parse(p)
<1>1. CASE ~HasLevel(c)
      BY <1>1 DEF Frames
<1>2. CASE HasLevel(c)
  <2>1. TargetEndpoint(c) \in Dimmable /\ c.level[TargetEndpoint(c)] \in 1 .. 255
    <3>1. TargetEndpoint(c) \in Dimmable /\ c.level[TargetEndpoint(c)] > 0
          BY <1>2 DEF HasLevel
    <3>2. c.level \in [Endpoints -> 0 .. 255] /\ TargetEndpoint(c) \in Endpoints
          BY <3>1, ParseType, EndpointsAssumption
    <3> HIDE DEF c
    <3> QED BY <3>1, <3>2
  <2>2. LevelFrame(c) \in AirFrames /\ LevelFrame(c).kind = "level"
        BY <2>1 DEF LevelFrame, AirFrames
  <2>3. Frames(c) = <<OnOffFrame(c), LevelFrame(c)>>
    <3>1. Frames(c) = <<OnOffFrame(c)>> \o <<LevelFrame(c)>>
          BY <1>2 DEF Frames
    <3> QED BY <3>1, TwoInARow
  <2> QED BY <2>2, <2>3
<1> QED BY <1>1, <1>2

\* A payload with the switch of one actuator and no other field makes a frame for that
\* actuator with its value.
LEMMA FrameOfOneSwitch ==
    ASSUME NEW p, IsPayload(p), NEW a, Fields(p) = {a},
           a \in DOMAIN p.switch, p.switch[a] \notin QuotedForms
    PROVE  /\ OnOffFrame(Parse(p)).ep = a
           /\ OnOffFrame(Parse(p)).on = (p.switch[a] \in TrueForms)
<1>0. a \in Switched(p) /\ Parse(p).mask = {a}
  <2>1. a \in Switched(p)
        BY DEF Switched
  <2>2. Parse(p).mask \subseteq Fields(p)
        BY DEF Parse, Switched, Levelled, Fields
  <2>3. a \in Parse(p).mask
        BY <2>1 DEF Parse
  <2> QED BY <2>1, <2>2, <2>3
<1>1. a \in Endpoints /\ a \in Int
      BY <1>0, ParseType
<1>2. TargetEndpoint(Parse(p)) = a /\ ActOn(Parse(p)) = Parse(p).on[a]
      BY <1>0, <1>1, ParseType, ExtremesOfOne DEF TargetEndpoint, ActOn
<1>3. Parse(p).on[a] = (p.switch[a] \in TrueForms)
      BY <1>0, <1>1 DEF Parse
<1> QED BY <1>2, <1>3 DEF OnOffFrame

-----------------------------------------------------------------------------
(* Topics                                                                   *)

\* A message of the run: what the broker delivers, or the rest of a long message.
LEMMA TopicType ==
    ASSUME NEW m \in Messages
    PROVE  /\ IsPayload(m.payload) /\ m.topic \in Seq(STRING)
           /\ m.topic = NoTopic \/ Subscribed(m.topic)
BY MessagesAssumption

\* A complete topic of the node is recognised, whatever the pointer holds, and names it.
LEMMA CompleteIsTaken ==
    ASSUME NEW t \in Seq(STRING), t = NoTopic \/ Subscribed(t), IsComplete(t)
    PROVE  /\ \A junk \in BOOLEAN : Recognised(t, junk)
           /\ NodeNamed(Tokens(t)) = Node
<1>1. Subscribed(t) /\ t[4] = Node
      BY DEF IsComplete, NamesNode
<1>2. Len(t) = 7 /\ t[1] = "agrinet" /\ t[3] = "nodes" /\ t[5] = "actuators" /\ t[7] = "set"
      BY <1>1 DEF Subscribed
<1>3. \A k \in 1 .. Len(t) : t[k] # "" /\ t[k] # LongName
      BY DEF IsComplete
<1>4. {k \in 1 .. Len(t) : t[k] # ""} = 1 .. Len(t)
      BY <1>3
<1>5. Tokens(t) = t
      BY <1>4, SubsequenceAll DEF Tokens
<1> DEFINE tok == Tokens(t)
<1> HIDE DEF tok
<1>6. /\ Len(tok) >= 6 /\ Len(tok) >= 7
      /\ tok[1] = "agrinet" /\ tok[3] = "nodes" /\ tok[5] = "actuators" /\ tok[7] = "set"
      /\ tok[4] = Node
  <2>1. tok = t
        BY <1>5 DEF tok
  <2>2. Len(t) >= 6 /\ Len(t) >= 7
        BY <1>2
  <2> QED BY <1>1, <1>2, <2>1, <2>2, Zenon
<1>7. ASSUME NEW junk \in BOOLEAN PROVE Recognised(t, junk)
      BY <1>3, <1>6, Zenon DEF Recognised, tok
<1>8. NodeNamed(Tokens(t)) = Node
      BY <1>6, Zenon DEF NodeNamed, tok
<1> QED BY <1>7, <1>8

\* A topic with an empty level is taken for the node's only when its fourth level is the
\* node: an empty level before that would move "actuators" into its place.
LEMMA TakenNamesNode ==
    ASSUME NEW t \in Seq(STRING), t = NoTopic \/ Subscribed(t), NEW junk \in BOOLEAN,
           Recognised(t, junk), NodeNamed(Tokens(t)) = Node
    PROVE  NamesNode(t)
<1> DEFINE P == {k \in 1 .. Len(t) : t[k] # ""}
           tok == Subsequence(t, P)
<1>1. P \in SUBSET (1 .. Len(t))
      OBVIOUS
<1>2. Tokens(t) = tok
      BY DEF Tokens
<1> HIDE DEF P
<1>3. IsFiniteSet(P) /\ Cardinality(P) \in Nat /\ Len(tok) = Cardinality(P)
      BY <1>1, SubsequenceType
<1> HIDE DEF tok
<1>4. Len(tok) >= 6 /\ tok[4] = Node
      BY <1>2 DEF Recognised, NodeNamed
<1>5. t # NoTopic
  <2> SUFFICES ASSUME t = NoTopic PROVE FALSE
      OBVIOUS
  <2>1. Len(t) = 0
        BY DEF NoTopic
  <2>2. P = {}
        BY <1>1, <2>1
  <2> QED BY <1>3, <1>4, <2>2, FS_EmptySet
<1>6. Len(t) = 7 /\ t[5] = "actuators"
      BY <1>5 DEF Subscribed
<1>7. IsFiniteSet(1 .. Len(t)) /\ Cardinality(1 .. Len(t)) = 7
      BY <1>6, IntervalSize
<1>8. CASE P = 1 .. Len(t)
  <2>1. tok = t
        BY <1>8, SubsequenceAll DEF tok
  <2> QED BY <1>4, <1>5, <2>1 DEF NamesNode
<1>9. CASE P # 1 .. Len(t)
  <2>1. PICK e \in 1 .. Len(t) : e \notin P
        BY <1>1, <1>9
  <2> DEFINE R == (1 .. Len(t)) \ {e}
  <2>2. IsFiniteSet(R) /\ Cardinality(R) = Cardinality(1 .. Len(t)) - 1
    <3> DEFINE I == 1 .. Len(t)
    <3>1. e \in I
          BY <2>1
    <3> HIDE DEF I
    <3> QED BY <1>7, <3>1, FS_RemoveElement DEF I
  <2>3. P \subseteq R
        BY <1>1, <2>1
  <2> HIDE DEF R
  <2>4. P = R
        BY <1>3, <1>4, <1>7, <2>2, <2>3, FS_Subset
  <2>5. tok = [k \in 1 .. Len(t) - 1 |-> IF k < e THEN t[k] ELSE t[k + 1]]
        BY <2>4, SubsequenceWithout DEF tok, R
  <2>6. tok[4] = IF 4 < e THEN t[4] ELSE t[5]
        BY <1>6, <2>5
  <2> QED BY <1>4, <1>5, <1>6, <2>6, NodeAssumption DEF NamesNode
<1> QED BY <1>8, <1>9

-----------------------------------------------------------------------------
(* Frames in flight                                                         *)

\* Frame k of q switches actuator a; no frame behind position k does.
OrderFor(q, k, a) == q[k].kind = "onoff" /\ q[k].ep = a
NoneBehind(q, k, a) == \A j \in k + 1 .. Len(q) : ~OrderFor(q, j, a)

\* The last frame of q for a switches it on when w is "on", and off when it is not.
LastSays(q, a, w) ==
    \A k \in 1 .. Len(q) :
        OrderFor(q, k, a) /\ NoneBehind(q, k, a) => (q[k].on <=> w = "on")

\* A frame for nobody or another actuator, behind the others, changes nothing for a.
LEMMA OtherAppended ==
    ASSUME NEW q \in Seq(AirFrames), NEW f \in AirFrames, NEW a, NEW w,
           ~(f.kind = "onoff" /\ f.ep = a)
    PROVE  /\ LastSays(q, a, w) => LastSays(Append(q, f), a, w)
           /\ NoneBehind(q, 0, a) <=> NoneBehind(Append(q, f), 0, a)
<1> DEFINE r == Append(q, f)
<1>1. Len(r) = Len(q) + 1 /\ Len(q) \in Nat /\ r[Len(q) + 1] = f
      OBVIOUS
<1>2. \A k \in 1 .. Len(q) : r[k] = q[k]
      OBVIOUS
<1> HIDE DEF r
<1>3. \A k \in 1 .. Len(q) : OrderFor(r, k, a) <=> OrderFor(q, k, a)
      BY <1>2 DEF OrderFor
<1>4. ~OrderFor(r, Len(q) + 1, a)
      BY <1>1 DEF OrderFor
<1>5. \A k \in 0 .. Len(q) : NoneBehind(r, k, a) <=> NoneBehind(q, k, a)
  <2> TAKE k \in 0 .. Len(q)
  <2>1. \A j \in k + 1 .. Len(r) : j \in k + 1 .. Len(q) \/ j = Len(q) + 1
        BY <1>1
  <2>2. \A j \in k + 1 .. Len(q) : j \in k + 1 .. Len(r) /\ j \in 1 .. Len(q)
        BY <1>1
  <2> QED BY <1>3, <1>4, <2>1, <2>2 DEF NoneBehind
<1>6. ASSUME LastSays(q, a, w), NEW k \in 1 .. Len(r), OrderFor(r, k, a), NoneBehind(r, k, a)
      PROVE  r[k].on <=> w = "on"
  <2>1. k \in 1 .. Len(q)
        BY <1>1, <1>4, <1>6
  <2>2. OrderFor(q, k, a) /\ NoneBehind(q, k, a)
        BY <1>3, <1>5, <1>6, <2>1
  <2> QED BY <1>2, <1>6, <2>1, <2>2 DEF LastSays
<1>7. LastSays(q, a, w) => LastSays(r, a, w)
      BY <1>6 DEF LastSays
<1>8. NoneBehind(q, 0, a) <=> NoneBehind(r, 0, a)
      BY <1>1, <1>5
<1> QED BY <1>7, <1>8 DEF r

\* A frame for a, behind the others, is the last one for it.
LEMMA OrderAppended ==
    ASSUME NEW q \in Seq(AirFrames), NEW f \in AirFrames, NEW a, NEW w,
           f.kind = "onoff", f.ep = a, f.on <=> w = "on"
    PROVE  LastSays(Append(q, f), a, w) /\ ~NoneBehind(Append(q, f), 0, a)
<1> DEFINE r == Append(q, f)
<1>1. Len(r) = Len(q) + 1 /\ Len(q) \in Nat /\ r[Len(q) + 1] = f
      OBVIOUS
<1> HIDE DEF r
<1>2. OrderFor(r, Len(q) + 1, a)
      BY <1>1 DEF OrderFor
<1>3. \A k \in 0 .. Len(q) : Len(q) + 1 \in k + 1 .. Len(r)
      BY <1>1
<1>4. \A k \in 0 .. Len(q) : ~NoneBehind(r, k, a)
      BY <1>2, <1>3 DEF NoneBehind
<1>5. \A k \in 1 .. Len(r) : k \in 0 .. Len(q) \/ k = Len(q) + 1
      BY <1>1
<1>6. LastSays(r, a, w)
      BY <1>1, <1>4, <1>5 DEF LastSays
<1>7. ~NoneBehind(r, 0, a)
      BY <1>1, <1>4
<1> QED BY <1>6, <1>7 DEF r

\* Without the first frame the last one for a is the same, unless the first was the last.
LEMMA HeadTaken ==
    ASSUME NEW q \in Seq(AirFrames), q # <<>>, NEW a, NEW w, LastSays(q, a, w)
    PROVE  /\ LastSays(Tail(q), a, w)
           /\ NoneBehind(Tail(q), 0, a) =>
                \/ ~OrderFor(q, 1, a) /\ NoneBehind(q, 0, a)
                \/ OrderFor(q, 1, a) /\ (q[1].on <=> w = "on")
<1> DEFINE r == Tail(q)
<1>1. Len(q) = Len(r) + 1 /\ Len(r) \in Nat /\ \A k \in 1 .. Len(r) : r[k] = q[k + 1]
      OBVIOUS
<1> HIDE DEF r
<1>2. \A k \in 1 .. Len(r) : OrderFor(r, k, a) <=> OrderFor(q, k + 1, a)
      BY <1>1 DEF OrderFor
<1>3. \A k \in 0 .. Len(r) : NoneBehind(r, k, a) => NoneBehind(q, k + 1, a)
  <2> SUFFICES ASSUME NEW k \in 0 .. Len(r), NoneBehind(r, k, a),
                      NEW j \in k + 2 .. Len(q)
               PROVE  ~OrderFor(q, j, a)
      BY <1>1 DEF NoneBehind
  <2>1. j - 1 \in k + 1 .. Len(r) /\ j - 1 \in 1 .. Len(r) /\ (j - 1) + 1 = j
        BY <1>1
  <2>2. ~OrderFor(r, j - 1, a)
        BY <2>1 DEF NoneBehind
  <2> QED BY <1>2, <2>1, <2>2
<1>4. ASSUME NEW k \in 1 .. Len(r), OrderFor(r, k, a), NoneBehind(r, k, a)
      PROVE  r[k].on <=> w = "on"
  <2>1. OrderFor(q, k + 1, a) /\ NoneBehind(q, k + 1, a)
        BY <1>2, <1>3, <1>4
  <2>2. k + 1 \in 1 .. Len(q) /\ r[k] = q[k + 1]
        BY <1>1
  <2>3. q[k + 1].on <=> w = "on"
        BY <2>1, <2>2 DEF LastSays
  <2> QED BY <2>2, <2>3
<1>5. LastSays(r, a, w)
      BY <1>4 DEF LastSays
<1>6. ASSUME NoneBehind(r, 0, a)
      PROVE  \/ ~OrderFor(q, 1, a) /\ NoneBehind(q, 0, a)
             \/ OrderFor(q, 1, a) /\ (q[1].on <=> w = "on")
  <2>1. NoneBehind(q, 1, a) /\ 1 \in 1 .. Len(q)
        BY <1>1, <1>3, <1>6
  <2>2. CASE OrderFor(q, 1, a)
        BY <2>1, <2>2 DEF LastSays
  <2>3. CASE ~OrderFor(q, 1, a)
    <3>1. \A j \in 1 .. Len(q) : j = 1 \/ j \in 1 + 1 .. Len(q)
          OBVIOUS
    <3> QED BY <2>1, <2>3, <3>1 DEF NoneBehind
  <2> QED BY <2>2, <2>3
<1> QED BY <1>5, <1>6 DEF r

\* What a command appends: the on/off frame, then perhaps a level frame.
LEMMA FramesAppended ==
    ASSUME NEW p, IsPayload(p), NEW q \in Seq(AirFrames)
    PROVE  LET f == OnOffFrame(Parse(p))
               g == LevelFrame(Parse(p))
           IN \/ q \o Frames(Parse(p)) = Append(q, f)
              \/ /\ q \o Frames(Parse(p)) = Append(Append(q, f), g)
                 /\ g \in AirFrames /\ g.kind = "level"
<1> DEFINE f == OnOffFrame(Parse(p))
           g == LevelFrame(Parse(p))
           F == Frames(Parse(p))
<1>1. f \in AirFrames
      BY OnOffFrameType
<1>2. \/ F = <<f>>
      \/ F = <<f, g>> /\ g \in AirFrames /\ g.kind = "level"
      BY FramesType
<1> HIDE DEF f, g, F
<1>3. CASE F = <<f>>
  <2>1. q \o <<f>> = Append(q, f)
        BY <1>1, AppendIsConcat
  <2> QED BY <1>3, <2>1 DEF F, f
<1>4. CASE F = <<f, g>> /\ g \in AirFrames /\ g.kind = "level"
  <2>1. <<f, g>> = <<f>> \o <<g>>
        BY TwoInARow
  <2>2. q \o (<<f>> \o <<g>>) = (q \o <<f>>) \o <<g>>
        BY <1>1, <1>4, ConcatAssociative
  <2>3. q \o <<f>> = Append(q, f) /\ Append(q, f) \in Seq(AirFrames)
        BY <1>1, AppendIsConcat
  <2>4. Append(q, f) \o <<g>> = Append(Append(q, f), g)
        BY <1>4, <2>3, AppendIsConcat
  <2> QED BY <1>4, <2>1, <2>2, <2>3, <2>4 DEF F, f, g
<1> QED BY <1>2, <1>3, <1>4

-----------------------------------------------------------------------------
(* The node                                                                 *)

NoLevels == [a \in Endpoints |-> 0]

\* The node's part of the state: main.c's copy is the driver's, every output is driven
\* as it says, and no level has ever been stored.
NodeOK ==
    /\ s_act_state \in ActStates /\ s_act_state = s_state
    /\ s_state.level = NoLevels
    /\ output \in [Endpoints -> 0 .. 4095]
    /\ \A a \in Endpoints : output[a] = Drive(a, s_state.on[a], 0)

\* The output of an actuator runs exactly when the node's copies have it on.
LEMMA RunsWhenOn ==
    ASSUME NodeOK, NEW a \in Endpoints
    PROVE  s_state.on[a] \in BOOLEAN /\ (IsRunning(a) <=> s_state.on[a])
<1>1. s_state.on[a] \in BOOLEAN
      BY DEF NodeOK, ActStates
<1>2. output[a] = Drive(a, s_state.on[a], 0)
      BY DEF NodeOK
<1>3. s_state.on[a] <=> Drive(a, s_state.on[a], 0) # OutputsOff[a]
      BY <1>1, DriveRuns
<1> QED BY <1>1, <1>2, <1>3 DEF IsRunning

\* A step that leaves the node alone.
LEMMA NodeUnchanged ==
    ASSUME NodeOK, UNCHANGED nodeVars
    PROVE  NodeOK'
<1>1. s_act_state' = s_act_state /\ s_state' = s_state /\ output' = output
      BY DEF nodeVars
<1>2. \A a \in Endpoints : output'[a] = Drive(a, s_state'.on[a], 0)
      BY <1>1 DEF NodeOK
<1> QED BY <1>1, <1>2 DEF NodeOK, NoLevels

\* A callback switches one actuator in both copies and at its output.
LEMMA CallbackKeepsNode ==
    ASSUME NodeOK, NEW ep \in Endpoints, NEW isOnOff \in BOOLEAN, NEW value \in BOOLEAN,
           ZclCallback(ep, isOnOff, value)
    PROVE  /\ NodeOK'
           /\ s_state'.on = [s_state.on EXCEPT ![ep] = isOnOff /\ value]
<1> DEFINE v == isOnOff /\ value
           st == [s_act_state EXCEPT !.on[ep] = v]
<1>1. v \in BOOLEAN
      OBVIOUS
<1>2. /\ s_act_state' = st
      /\ s_state' = [s_state EXCEPT !.on[ep] = st.on[ep], !.level[ep] = st.level[ep]]
      /\ output' = [output EXCEPT ![ep] = Drive(ep, st.on[ep], st.level[ep])]
      BY DEF ZclCallback, Apply
<1> HIDE DEF v
<1>3. /\ s_act_state.on \in [Endpoints -> BOOLEAN] /\ s_act_state.level = NoLevels
      /\ s_act_state = [on |-> s_act_state.on, level |-> NoLevels]
      /\ s_state = s_act_state
      BY DEF NodeOK, ActStates
<1>4. st = [on |-> [s_act_state.on EXCEPT ![ep] = v], level |-> NoLevels]
      BY <1>3
<1>5. st.on[ep] = v /\ st.level[ep] = 0 /\ st.level = NoLevels
      BY <1>3, <1>4 DEF NoLevels
<1>6. s_state' = st
  <2>1. [NoLevels EXCEPT ![ep] = 0] = NoLevels
        BY DEF NoLevels
  <2> HIDE DEF st
  <2>2. s_state' = [on |-> [s_act_state.on EXCEPT ![ep] = v],
                    level |-> [NoLevels EXCEPT ![ep] = 0]]
        BY <1>2, <1>3, <1>5
  <2> QED BY <1>4, <2>1, <2>2
<1>7. output' = [output EXCEPT ![ep] = Drive(ep, v, 0)]
      BY <1>2, <1>5
<1> HIDE DEF st
<1>8. s_state'.on = [s_state.on EXCEPT ![ep] = v]
      BY <1>3, <1>4, <1>6
<1>9. s_act_state' \in ActStates /\ s_act_state' = s_state' /\ s_state'.level = NoLevels
  <2>1. [s_act_state.on EXCEPT ![ep] = v] \in [Endpoints -> BOOLEAN]
        BY <1>1, <1>3
  <2>2. NoLevels \in [Endpoints -> 0 .. 255]
        BY DEF NoLevels
  <2>3. st \in ActStates
        BY <1>4, <2>1, <2>2 DEF ActStates
  <2> QED BY <1>2, <1>5, <1>6, <2>3
<1>10. output' \in [Endpoints -> 0 .. 4095]
  <2>1. Drive(ep, v, 0) \in 0 .. 4095
        BY <1>1, DriveRuns
  <2>2. output \in [Endpoints -> 0 .. 4095]
        BY DEF NodeOK
  <2> QED BY <1>7, <2>1, <2>2
<1>11. \A a \in Endpoints : output'[a] = Drive(a, s_state'.on[a], 0)
  <2> TAKE a \in Endpoints
  <2>1. DOMAIN output = Endpoints /\ DOMAIN s_state.on = Endpoints
        BY <1>3 DEF NodeOK
  <2>2. CASE a = ep
    <3>1. output'[a] = Drive(a, v, 0) /\ s_state'.on[a] = v
          BY <1>7, <1>8, <2>1, <2>2
    <3> QED BY <3>1
  <2>3. CASE a # ep
    <3>1. output'[a] = output[a] /\ s_state'.on[a] = s_state.on[a]
          BY <1>7, <1>8, <2>1, <2>3
    <3>2. output[a] = Drive(a, s_state.on[a], 0)
          BY DEF NodeOK
    <3> QED BY <3>1, <3>2
  <2> QED BY <2>2, <2>3
<1>12. NodeOK'
       BY <1>9, <1>10, <1>11 DEF NodeOK, NoLevels
<1> QED BY <1>8, <1>12 DEF v

\* The node's copies as app_main leaves them after power-on or a reset: all off.
LEMMA OffIsTyped ==
    /\ AllOff \in ActStates
    /\ AllOff.on = [a \in Endpoints |-> FALSE] /\ AllOff.level = NoLevels
<1>1. AllOff = [on |-> [a \in Endpoints |-> FALSE], level |-> NoLevels]
      BY DEF AllOff, NoLevels
<1>2. NoLevels \in [Endpoints -> 0 .. 255]
      BY DEF NoLevels
<1> QED BY <1>1, <1>2 DEF ActStates

\* An output that is off is driven, at level 0, as app_actuators_init drives it.
LEMMA OffIsDriven ==
    ASSUME NEW a \in Endpoints, NEW on \in BOOLEAN, ~on
    PROVE  Drive(a, on, 0) = OutputsOff[a] /\ OutputsOff[a] \in 0 .. 4095
BY DriveRuns

-----------------------------------------------------------------------------
(* The inductive invariant                                                  *)

\* What the messages asked of a, when a claim is made (Ask): the last frame in flight for it
\* says the same, and when there is none, the node has it so already.
Follows(q, a, w, on) ==
    w # "any" => LastSays(q, a, w) /\ (NoneBehind(q, 0, a) => (on <=> w = "on"))

GatewayOK ==
    /\ air \in Seq(AirFrames) /\ Len(air) <= MaxAir
    /\ published \in ActStates
    /\ attr \in [Endpoints -> BOOLEAN]
    /\ wanted \in [Endpoints -> {"on", "off", "any"}]

AllFollow == \A a \in Endpoints : Follows(air, a, wanted[a], s_state.on[a])

ActInv == GatewayOK /\ NodeOK /\ AllFollow

\* The node and the gateway start with everything off and nothing in flight.
LEMMA InitActuation == Init => ActInv
<1> SUFFICES ASSUME Init PROVE ActInv
    OBVIOUS
<1>1. NodeOK /\ AllOff \in ActStates /\ AllOff.on = [a \in Endpoints |-> FALSE]
  <2>1. s_act_state = AllOff /\ s_state = AllOff /\ output = OutputsOff
        BY DEF Init
  <2>2. \A a \in Endpoints : output[a] = Drive(a, s_state.on[a], 0) /\ output[a] \in 0 .. 4095
    <3> TAKE a \in Endpoints
    <3>1. s_state.on[a] \in BOOLEAN /\ ~s_state.on[a]
          BY <2>1, OffIsTyped
    <3>2. Drive(a, s_state.on[a], 0) = OutputsOff[a] /\ OutputsOff[a] \in 0 .. 4095
          BY <3>1, OffIsDriven
    <3> QED BY <2>1, <3>2
  <2>3. output \in [Endpoints -> 0 .. 4095]
    <3>1. OutputsOff = [a \in Endpoints |-> OutputsOff[a]]
          BY DEF OutputsOff
    <3> QED BY <2>1, <2>2, <3>1
  <2>4. s_act_state \in ActStates /\ s_act_state = s_state /\ s_state.level = NoLevels
        BY <2>1, OffIsTyped
  <2> QED BY <2>2, <2>3, <2>4, OffIsTyped DEF NodeOK
<1>2. GatewayOK
  <2>1. air = <<>> /\ Len(air) = 0 /\ Len(air) <= MaxAir
        BY ActuationAssumption DEF Init
  <2> QED BY <1>1, <2>1 DEF Init, GatewayOK
<1>3. AllFollow
  <2>1. air = <<>> /\ wanted = [a \in Endpoints |-> "off"] /\ s_state = AllOff
        BY DEF Init
  <2>2. \A a \in Endpoints : wanted[a] = "off" /\ ~s_state.on[a]
        BY <1>1, <2>1
  <2>3. \A a \in Endpoints : LastSays(air, a, "off")
        BY <2>1 DEF LastSays
  <2> QED BY <2>2, <2>3 DEF AllFollow, Follows
<1> QED BY <1>1, <1>2, <1>3 DEF ActInv

\* An actuator that is asked nothing new and gets no frame is as before, whatever the
\* command appended.
LEMMA OthersFollow ==
    ASSUME NEW p, IsPayload(p), NEW q \in Seq(AirFrames),
           NEW a \in Endpoints, NEW w, NEW on,
           a \notin Parse(p).mask, Follows(q, a, w, on)
    PROVE  Follows(q \o Frames(Parse(p)), a, w, on)
<1> DEFINE f == OnOffFrame(Parse(p))
           g == LevelFrame(Parse(p))
           r == q \o Frames(Parse(p))
<1>1. f \in AirFrames
      BY OnOffFrameType
<1>2. f.ep # a
  <2>1. f.ep = TargetEndpoint(Parse(p))
        BY DEF OnOffFrame
  <2>2. a # 0
        BY EndpointsAssumption
  <2> QED BY <2>1, <2>2, OnOffFrameType
<1>3. \/ r = Append(q, f)
      \/ r = Append(Append(q, f), g) /\ g \in AirFrames /\ g.kind = "level"
      BY FramesAppended
<1> HIDE DEF f, g, r
<1>4. Append(q, f) \in Seq(AirFrames)
      BY <1>1
<1>5. Follows(Append(q, f), a, w, on)
      BY <1>1, <1>2, OtherAppended DEF Follows
<1>6. ASSUME g \in AirFrames, g.kind = "level"
      PROVE  Follows(Append(Append(q, f), g), a, w, on)
  <2> DEFINE u == Append(q, f)
  <2>1. ~(g.kind = "onoff" /\ g.ep = a)
        BY <1>6
  <2>2. u \in Seq(AirFrames) /\ Follows(u, a, w, on)
        BY <1>4, <1>5
  <2> HIDE DEF u
  <2>3. /\ LastSays(u, a, w) => LastSays(Append(u, g), a, w)
        /\ NoneBehind(u, 0, a) <=> NoneBehind(Append(u, g), 0, a)
        BY <1>6, <2>1, <2>2, OtherAppended
  <2>4. Follows(Append(u, g), a, w, on)
        BY <2>2, <2>3 DEF Follows
  <2> QED BY <2>4 DEF u
<1>7. Follows(r, a, w, on)
      BY <1>3, <1>5, <1>6
<1> QED BY <1>7 DEF r

\* A complete message for one actuator puts a frame with its value behind the others.
LEMMA AskedFollows ==
    ASSUME NEW p, IsPayload(p), NEW q \in Seq(AirFrames), NEW a \in Endpoints, NEW on
    PROVE  Follows(q \o Frames(Parse(p)), a, Ask(p, a), on)
<1> DEFINE f == OnOffFrame(Parse(p))
           g == LevelFrame(Parse(p))
           r == q \o Frames(Parse(p))
           w == Ask(p, a)
<1>1. CASE w = "any"
      BY <1>1 DEF Follows
<1>2. CASE w # "any"
  <2>1. Fields(p) = {a} /\ a \in DOMAIN p.switch /\ p.switch[a] \notin QuotedForms
        BY <1>2 DEF Ask
  <2>2. w = "on" <=> p.switch[a] \in TrueForms
        BY <2>1 DEF Ask
  <2>3. f.ep = a /\ f.on = (p.switch[a] \in TrueForms) /\ f.kind = "onoff"
        BY <2>1, FrameOfOneSwitch DEF OnOffFrame
  <2>4. f \in AirFrames
        BY OnOffFrameType
  <2>5. \/ r = Append(q, f)
        \/ r = Append(Append(q, f), g) /\ g \in AirFrames /\ g.kind = "level"
        BY FramesAppended
  <2> HIDE DEF f, g, r, w
  <2>6. Append(q, f) \in Seq(AirFrames)
        BY <2>4
  <2>7. Follows(Append(q, f), a, w, on)
        BY <2>2, <2>3, <2>4, OrderAppended DEF Follows
  <2>8. g \in AirFrames /\ g.kind = "level" => Follows(Append(Append(q, f), g), a, w, on)
        BY <2>6, <2>7, OtherAppended DEF Follows
  <2>9. Follows(r, a, w, on)
        BY <2>5, <2>7, <2>8
  <2> QED BY <2>9 DEF r, w
<1> QED BY <1>1, <1>2

\* Whatever is asked is "on", "off" or "any".
LEMMA AskedType ==
    ASSUME wanted \in [Endpoints -> {"on", "off", "any"}],
           NEW t, NEW p
    PROVE  Asked(t, p) \in [Endpoints -> {"on", "off", "any"}]
<1>1. \A a \in Endpoints : Ask(p, a) \in {"on", "off", "any"}
      BY DEF Ask
<1> QED BY <1>1 DEF Asked

\* A command that is sent.
LEMMA CommandFollows ==
    ASSUME ActInv, NEW m \in Messages, Command(m.topic, m.payload)
    PROVE  ActInv'
<1> DEFINE t == m.topic
           p == m.payload
           F == Frames(Parse(p))
<1>1. IsPayload(p) /\ t \in Seq(STRING) /\ (t = NoTopic \/ Subscribed(t))
      BY TopicType
<1>2. /\ \E junk \in BOOLEAN : Recognised(t, junk)
      /\ NodeNamed(Tokens(t)) = Node
      /\ Len(air) + Len(F) <= MaxAir
      /\ air' = air \o F
      /\ published' \in {published, Message(Parse(p))}
      /\ wanted' = Asked(t, p)
      /\ attr' = attr /\ s_act_state' = s_act_state /\ s_state' = s_state /\ output' = output
      BY DEF Command, nodeVars
<1> HIDE DEF t, p
<1>3. NamesNode(t)
      BY <1>1, <1>2, TakenNamesNode
<1>4. GatewayOK'
  <2>1. F \in Seq(AirFrames)
    <3> DEFINE f == OnOffFrame(Parse(p))
               g == LevelFrame(Parse(p))
    <3>1. f \in AirFrames
          BY <1>1, OnOffFrameType
    <3>2. F = <<f>> \/ (F = <<f, g>> /\ g \in AirFrames)
          BY <1>1, FramesType
    <3> HIDE DEF f, g, F
    <3>3. CASE F = <<f>>
          BY <3>1, <3>3
    <3>4. CASE F = <<f, g>> /\ g \in AirFrames
          BY <3>1, <3>4
    <3> QED BY <3>2, <3>3, <3>4
  <2> HIDE DEF F
  <2>2. air' \in Seq(AirFrames) /\ Len(air') <= MaxAir
        BY <1>2, <2>1, ConcatProperties DEF ActInv, GatewayOK
  <2>3. published' \in ActStates
        BY <1>1, <1>2, ParseType DEF ActInv, GatewayOK
  <2>4. wanted' \in [Endpoints -> {"on", "off", "any"}]
        BY <1>2, AskedType DEF ActInv, GatewayOK
  <2> QED BY <1>2, <2>2, <2>3, <2>4 DEF ActInv, GatewayOK
<1>5. NodeOK'
      BY <1>2, NodeUnchanged DEF ActInv, nodeVars
<1>6. AllFollow'
  <2> SUFFICES ASSUME NEW a \in Endpoints
               PROVE  Follows(air', a, wanted'[a], s_state'.on[a])
      BY DEF AllFollow
  <2>1. air \in Seq(AirFrames) /\ Follows(air, a, wanted[a], s_state.on[a])
        BY DEF ActInv, GatewayOK, AllFollow
  <2>2. CASE a \in Fields(p) /\ IsComplete(t)
    <3>1. wanted'[a] = Ask(p, a)
          BY <1>2, <2>2 DEF Asked
    <3> QED BY <1>1, <1>2, <2>1, <3>1, AskedFollows
  <2>3. CASE a \in Fields(p) /\ ~IsComplete(t)
    <3>1. wanted'[a] = "any"
          BY <1>2, <1>3, <2>3 DEF Asked
    <3> QED BY <3>1 DEF Follows
  <2>4. CASE a \notin Fields(p)
    <3>1. wanted'[a] = wanted[a]
          BY <1>2, <2>4 DEF Asked
    <3>2. a \notin Parse(p).mask
          BY <2>4 DEF Parse, Switched, Levelled, Fields
    <3> QED BY <1>1, <1>2, <2>1, <3>1, <3>2, OthersFollow
  <2> QED BY <2>2, <2>3, <2>4
<1> QED BY <1>4, <1>5, <1>6 DEF ActInv

\* A message that sends nothing asks nothing: a complete one of this node with a field in
\* it is never ignored.
LEMMA IgnoredFollows ==
    ASSUME ActInv, NEW m \in Messages, NoCommand(m.topic, m.payload)
    PROVE  ActInv'
<1> DEFINE t == m.topic
           p == m.payload
<1>1. t \in Seq(STRING) /\ (t = NoTopic \/ Subscribed(t))
      BY TopicType
<1>2. /\ \/ \E junk \in BOOLEAN : ~Recognised(t, junk)
         \/ NodeNamed(Tokens(t)) # Node
         \/ Fields(p) = {}
      /\ wanted' = Asked(t, p)
      /\ air' = air /\ published' = published
      /\ attr' = attr /\ s_act_state' = s_act_state /\ s_state' = s_state /\ output' = output
      BY DEF NoCommand, nodeVars
<1> HIDE DEF t, p
<1>3. ~IsComplete(t) \/ Fields(p) = {}
      BY <1>1, <1>2, CompleteIsTaken
<1>4. \A a \in Endpoints : wanted'[a] \in {wanted[a], "any"}
      BY <1>2, <1>3 DEF Asked
<1>5. NodeOK'
      BY <1>2, NodeUnchanged DEF ActInv, nodeVars
<1>6. GatewayOK'
  <2>1. wanted' \in [Endpoints -> {"on", "off", "any"}]
        BY <1>2, AskedType DEF ActInv, GatewayOK
  <2> QED BY <1>2, <2>1 DEF ActInv, GatewayOK
<1>7. AllFollow'
      BY <1>2, <1>4 DEF ActInv, AllFollow, Follows
<1> QED BY <1>5, <1>6, <1>7 DEF ActInv

\* The first frame in flight, and what is left when it is taken.
LEMMA AirTail ==
    ASSUME GatewayOK, air # <<>>
    PROVE  /\ air[1] \in AirFrames /\ Head(air) = air[1]
           /\ Tail(air) \in Seq(AirFrames) /\ Len(Tail(air)) <= MaxAir
<1>1. air \in Seq(AirFrames) /\ Len(air) <= MaxAir /\ MaxAir \in Nat
      BY ActuationAssumption DEF GatewayOK
<1>2. 1 \in 1 .. Len(air) /\ Head(air) = air[1]
      BY <1>1
<1>3. Len(Tail(air)) = Len(air) - 1 /\ Tail(air) \in Seq(AirFrames) /\ Len(air) \in Nat
      BY <1>1, HeadTailProperties
<1> QED BY <1>1, <1>2, <1>3

\* When a frame that is no order for a is taken, a stays as it was.
LEMMA TailFollows ==
    ASSUME NEW q \in Seq(AirFrames), q # <<>>, NEW a, NEW w, NEW on,
           Follows(q, a, w, on), ~OrderFor(q, 1, a)
    PROVE  Follows(Tail(q), a, w, on)
<1>1. CASE w = "any"
      BY <1>1 DEF Follows
<1>2. CASE w # "any"
  <2>1. LastSays(q, a, w) /\ (NoneBehind(q, 0, a) => (on <=> w = "on"))
        BY <1>2 DEF Follows
  <2>2. LastSays(Tail(q), a, w) /\ (NoneBehind(Tail(q), 0, a) => NoneBehind(q, 0, a))
        BY <2>1, HeadTaken
  <2> QED BY <2>1, <2>2 DEF Follows
<1> QED BY <1>1, <1>2

\* The node carries out the first frame: either another one for the actuator is behind it,
\* or it was the last and the actuator is as asked.
LEMMA ReceiveFollows ==
    ASSUME ActInv, ReceiveOnOff
    PROVE  ActInv'
<1> DEFINE f == air[1]
           ep == Head(air).ep
           v == Head(air).on
<1>1. air # <<>> /\ air \in Seq(AirFrames) /\ GatewayOK /\ NodeOK /\ AllFollow
      BY DEF ReceiveOnOff, ActInv, GatewayOK
<1>2. /\ f \in AirFrames /\ Head(air) = f
      /\ Tail(air) \in Seq(AirFrames) /\ Len(Tail(air)) <= MaxAir
      BY <1>1, AirTail
<1>3. f.kind = "onoff" /\ ep \in Endpoints /\ ep = f.ep /\ v = f.on
      BY <1>2 DEF ReceiveOnOff
<1>4. v \in BOOLEAN
      BY <1>2, <1>3 DEF AirFrames
<1>5. /\ attr' = [attr EXCEPT ![ep] = v]
      /\ ZclCallback(ep, TRUE, v)
      /\ air' = Tail(air) /\ published' = published /\ wanted' = wanted
      BY DEF ReceiveOnOff
<1> HIDE DEF ep, v, f
<1>6. NodeOK' /\ s_state'.on = [s_state.on EXCEPT ![ep] = v]
  <2>1. NodeOK' /\ s_state'.on = [s_state.on EXCEPT ![ep] = TRUE /\ v]
        BY <1>1, <1>3, <1>4, <1>5, CallbackKeepsNode
  <2>2. (TRUE /\ v) = v
        BY <1>4
  <2> QED BY <2>1, <2>2
<1>7. GatewayOK'
  <2>1. attr' \in [Endpoints -> BOOLEAN]
        BY <1>1, <1>4, <1>5 DEF GatewayOK
  <2> QED BY <1>1, <1>2, <1>5, <2>1 DEF GatewayOK
<1>8. AllFollow'
  <2> SUFFICES ASSUME NEW a \in Endpoints
               PROVE  Follows(air', a, wanted'[a], s_state'.on[a])
      BY DEF AllFollow
  <2>1. Follows(air, a, wanted[a], s_state.on[a])
        BY <1>1 DEF AllFollow
  <2>2. DOMAIN s_state.on = Endpoints
        BY <1>1 DEF NodeOK, ActStates
  <2>3. CASE a = ep
    <3>1. s_state'.on[a] = v
          BY <1>6, <2>2, <2>3
    <3>2. OrderFor(air, 1, a)
          BY <1>3, <2>3 DEF OrderFor, f
    <3>3. ASSUME wanted[a] # "any"
          PROVE  LastSays(Tail(air), a, wanted[a])
                   /\ (NoneBehind(Tail(air), 0, a) => (v <=> wanted[a] = "on"))
      <4>1. LastSays(air, a, wanted[a])
            BY <2>1, <3>3 DEF Follows
      <4>2. NoneBehind(Tail(air), 0, a) => (air[1].on <=> wanted[a] = "on")
            BY <1>1, <3>2, <4>1, HeadTaken
      <4> QED BY <1>1, <1>3, <4>1, <4>2, HeadTaken DEF f
    <3> QED BY <1>5, <3>1, <3>3 DEF Follows
  <2>4. CASE a # ep
    <3>1. s_state'.on[a] = s_state.on[a]
          BY <1>6, <2>2, <2>4
    <3>2. ~OrderFor(air, 1, a)
          BY <1>3, <2>4 DEF OrderFor, f
    <3> QED BY <1>1, <1>5, <2>1, <3>1, <3>2, TailFollows
  <2> QED BY <2>3, <2>4
<1> QED BY <1>6, <1>7, <1>8 DEF ActInv

\* A frame that nothing takes.
LEMMA IgnoreFollows ==
    ASSUME ActInv, IgnoreFrame
    PROVE  ActInv'
<1>1. air # <<>> /\ air \in Seq(AirFrames) /\ GatewayOK /\ NodeOK /\ AllFollow
      BY DEF IgnoreFrame, ActInv, GatewayOK
<1>2. /\ air[1] \in AirFrames /\ Head(air) = air[1]
      /\ Tail(air) \in Seq(AirFrames) /\ Len(Tail(air)) <= MaxAir
      BY <1>1, AirTail
<1>3. /\ air[1].kind = "level" \/ air[1].ep \notin Endpoints
      /\ air' = Tail(air) /\ published' = published /\ wanted' = wanted
      /\ UNCHANGED nodeVars
      BY <1>2 DEF IgnoreFrame
<1>4. NodeOK' /\ attr' = attr /\ s_state' = s_state
      BY <1>1, <1>3, NodeUnchanged DEF nodeVars
<1>5. \A a \in Endpoints : ~OrderFor(air, 1, a)
      BY <1>3 DEF OrderFor
<1>6. AllFollow'
  <2>1. \A a \in Endpoints : Follows(air, a, wanted[a], s_state.on[a])
        BY <1>1 DEF AllFollow
  <2>2. \A a \in Endpoints : Follows(Tail(air), a, wanted[a], s_state.on[a])
        BY <1>1, <1>5, <2>1, TailFollows
  <2> QED BY <1>3, <1>4, <2>2 DEF AllFollow
<1>7. GatewayOK'
      BY <1>1, <1>2, <1>3, <1>4 DEF GatewayOK
<1> QED BY <1>4, <1>6, <1>7 DEF ActInv

\* A frame that is lost: what is asked of its actuator is no longer said.
LEMMA LoseFollows ==
    ASSUME ActInv, LoseFrame
    PROVE  ActInv'
<1> DEFINE ep == Head(air).ep
<1>1. air # <<>> /\ air \in Seq(AirFrames) /\ GatewayOK /\ NodeOK /\ AllFollow
      BY DEF LoseFrame, ActInv, GatewayOK
<1>2. /\ air[1] \in AirFrames /\ Head(air) = air[1]
      /\ Tail(air) \in Seq(AirFrames) /\ Len(Tail(air)) <= MaxAir
      BY <1>1, AirTail
<1>3. /\ air' = Tail(air) /\ published' = published /\ UNCHANGED nodeVars
      /\ wanted' = IF ep \in Endpoints THEN [wanted EXCEPT ![ep] = "any"] ELSE wanted
      BY DEF LoseFrame
<1>4. NodeOK' /\ attr' = attr /\ s_state' = s_state
      BY <1>1, <1>3, NodeUnchanged DEF nodeVars
<1>5. ep = air[1].ep
      BY <1>2
<1> HIDE DEF ep
<1>6. wanted' \in [Endpoints -> {"on", "off", "any"}]
      BY <1>1, <1>3 DEF GatewayOK
<1>7. AllFollow'
  <2> SUFFICES ASSUME NEW a \in Endpoints
               PROVE  Follows(air', a, wanted'[a], s_state'.on[a])
      BY DEF AllFollow
  <2>1. Follows(air, a, wanted[a], s_state.on[a]) /\ DOMAIN wanted = Endpoints
        BY <1>1 DEF AllFollow, GatewayOK
  <2>2. CASE a = ep
    <3>1. wanted'[a] = "any"
          BY <1>3, <2>1, <2>2
    <3> QED BY <3>1 DEF Follows
  <2>3. CASE a # ep
    <3>1. wanted'[a] = wanted[a]
          BY <1>3, <2>1, <2>3
    <3>2. ~OrderFor(air, 1, a)
          BY <1>5, <2>3 DEF OrderFor
    <3> QED BY <1>1, <1>3, <1>4, <2>1, <3>1, <3>2, TailFollows
  <2> QED BY <2>2, <2>3
<1>8. GatewayOK'
      BY <1>1, <1>2, <1>3, <1>4, <1>6 DEF GatewayOK
<1> QED BY <1>4, <1>7, <1>8 DEF ActInv

\* A written identify time switches the actuator off, whatever was asked.
LEMMA IdentifyFollows ==
    ASSUME ActInv, NEW ep \in Identified, Identify(ep)
    PROVE  ActInv'
<1>1. ep \in Endpoints
      BY ActuationAssumption
<1>2. /\ ZclCallback(ep, FALSE, FALSE)
      /\ wanted' = [wanted EXCEPT ![ep] = "any"]
      /\ air' = air /\ attr' = attr /\ published' = published
      BY DEF Identify
<1>3. NodeOK' /\ s_state'.on = [s_state.on EXCEPT ![ep] = FALSE /\ FALSE]
      BY <1>1, <1>2, CallbackKeepsNode DEF ActInv
<1>4. GatewayOK'
  <2>1. wanted' \in [Endpoints -> {"on", "off", "any"}]
        BY <1>2 DEF ActInv, GatewayOK
  <2> QED BY <1>2, <2>1 DEF ActInv, GatewayOK
<1>5. AllFollow'
  <2> SUFFICES ASSUME NEW a \in Endpoints
               PROVE  Follows(air', a, wanted'[a], s_state'.on[a])
      BY DEF AllFollow
  <2>1. /\ Follows(air, a, wanted[a], s_state.on[a])
        /\ DOMAIN wanted = Endpoints /\ DOMAIN s_state.on = Endpoints
        BY DEF ActInv, AllFollow, GatewayOK, NodeOK, ActStates
  <2>2. CASE a = ep
    <3>1. wanted'[a] = "any"
          BY <1>2, <2>1, <2>2
    <3> QED BY <3>1 DEF Follows
  <2>3. CASE a # ep
    <3>1. wanted'[a] = wanted[a] /\ s_state'.on[a] = s_state.on[a]
          BY <1>2, <1>3, <2>1, <2>3
    <3> QED BY <1>2, <2>1, <3>1
  <2> QED BY <2>2, <2>3
<1> QED BY <1>3, <1>4, <1>5 DEF ActInv

\* A reset switches off what no frame in flight will switch.
LEMMA ResetFollows ==
    ASSUME ActInv, Reset
    PROVE  ActInv'
<1>1. /\ attr' = [a \in Endpoints |-> FALSE]
      /\ s_act_state' = AllOff /\ s_state' = AllOff /\ output' = OutputsOff
      /\ wanted' = [a \in Endpoints |->
                      IF \E k \in 1 .. Len(air) : air[k].kind = "onoff" /\ air[k].ep = a
                      THEN wanted[a] ELSE "off"]
      /\ air' = air /\ published' = published
      BY DEF Reset
<1>2. NodeOK'
  <2>1. \A a \in Endpoints : output'[a] = Drive(a, s_state'.on[a], 0) /\ output'[a] \in 0 .. 4095
    <3> TAKE a \in Endpoints
    <3>1. s_state'.on[a] \in BOOLEAN /\ ~s_state'.on[a]
          BY <1>1, OffIsTyped
    <3>2. Drive(a, s_state'.on[a], 0) = OutputsOff[a] /\ OutputsOff[a] \in 0 .. 4095
          BY <3>1, OffIsDriven
    <3> QED BY <1>1, <3>2
  <2>2. output' \in [Endpoints -> 0 .. 4095]
    <3>1. output' = [a \in Endpoints |-> output'[a]]
          BY <1>1 DEF OutputsOff
    <3> QED BY <2>1, <3>1
  <2>3. s_act_state' \in ActStates /\ s_act_state' = s_state' /\ s_state'.level = NoLevels
        BY <1>1, OffIsTyped
  <2> QED BY <2>1, <2>2, <2>3 DEF NodeOK, NoLevels
<1>3. AllOff.on = [a \in Endpoints |-> FALSE]
      BY OffIsTyped
<1>4. GatewayOK'
  <2>1. wanted' \in [Endpoints -> {"on", "off", "any"}]
        BY <1>1 DEF ActInv, GatewayOK
  <2> QED BY <1>1, <2>1 DEF ActInv, GatewayOK
<1>5. AllFollow'
  <2> SUFFICES ASSUME NEW a \in Endpoints
               PROVE  Follows(air', a, wanted'[a], s_state'.on[a])
      BY DEF AllFollow
  <2>1. Follows(air, a, wanted[a], s_state.on[a])
        BY DEF ActInv, AllFollow
  <2>2. ~s_state'.on[a]
        BY <1>1, <1>3
  <2>3. air \in Seq(AirFrames)
        BY DEF ActInv, GatewayOK
  <2>4. 0 + 1 = 1
        OBVIOUS
  <2>5. CASE NoneBehind(air, 0, a)
    <3>1. \A k \in 1 .. Len(air) : ~OrderFor(air, k, a)
          BY <2>4, <2>5 DEF NoneBehind
    <3>2. wanted'[a] = "off"
          BY <1>1, <3>1 DEF OrderFor
    <3>3. LastSays(air, a, "off")
          BY <3>1 DEF LastSays
    <3> QED BY <1>1, <2>2, <3>2, <3>3 DEF Follows
  <2>6. CASE ~NoneBehind(air, 0, a)
    <3>1. \E k \in 1 .. Len(air) : OrderFor(air, k, a)
          BY <2>4, <2>6 DEF NoneBehind
    <3>2. wanted'[a] = wanted[a]
          BY <1>1, <3>1 DEF OrderFor
    <3> QED BY <1>1, <2>1, <2>6, <3>2 DEF Follows
  <2> QED BY <2>5, <2>6
<1> QED BY <1>2, <1>4, <1>5 DEF ActInv

\* Every step keeps the invariant.
LEMMA StepActuation ==
    ASSUME ActInv, [Next]_vars
    PROVE  ActInv'
<1>1. CASE UNCHANGED vars
  <2>1. /\ air' = air /\ published' = published /\ wanted' = wanted
        /\ attr' = attr /\ s_state' = s_state /\ UNCHANGED nodeVars
        BY <1>1 DEF vars, nodeVars
  <2>2. NodeOK'
        BY <2>1, NodeUnchanged DEF ActInv
  <2> QED BY <2>1, <2>2 DEF ActInv, GatewayOK, AllFollow
<1>2. ASSUME NEW m \in Messages, Command(m.topic, m.payload) PROVE ActInv'
      BY <1>2, CommandFollows
<1>3. ASSUME NEW m \in Messages, NoCommand(m.topic, m.payload) PROVE ActInv'
      BY <1>3, IgnoredFollows
<1>4. CASE Deliver
      BY <1>4, ReceiveFollows, IgnoreFollows DEF Deliver
<1>5. CASE LoseFrame
      BY <1>5, LoseFollows
<1>6. ASSUME NEW ep \in Identified, Identify(ep) PROVE ActInv'
      BY <1>6, IdentifyFollows
<1>7. CASE Reset
      BY <1>7, ResetFollows
<1> QED BY <1>1, <1>2, <1>3, <1>4, <1>5, <1>6, <1>7 DEF Next

\* The invariant holds throughout: what is in flight for an actuator, or else what the node
\* has, is what the last message with a field of it asked, if that was complete, for it
\* alone, its switch unquoted, and nothing was lost or written to Identify since.
THEOREM FramesFollowMessages == Spec => []ActInv
<1>1. Init => ActInv
      BY InitActuation
<1>2. ActInv /\ [Next]_vars => ActInv'
      BY StepActuation
<1> QED BY <1>1, <1>2, PTL DEF Spec

-----------------------------------------------------------------------------
(* What the invariant gives                                                 *)

\* Every part of the state has its type; a duty fits the 12 bits of its channel, and no more
\* frames than MaxAir are in flight.
THEOREM ActuationTypeCorrect == Spec => []TypeOK
<1>1. ActInv => TypeOK
  <2> SUFFICES ASSUME ActInv PROVE TypeOK
      OBVIOUS
  <2>1. s_act_state \in ActStates /\ s_state \in ActStates /\ output \in [Endpoints -> 0 .. 4095]
        BY DEF ActInv, NodeOK
  <2>2. GatewayOK
        BY DEF ActInv
  <2>3. air \in Seq(AirFrames) /\ Len(air) <= MaxAir /\ published \in ActStates
        BY <2>2 DEF GatewayOK
  <2>4. attr \in [Endpoints -> BOOLEAN]
        BY <2>2 DEF GatewayOK
  <2>5. wanted \in [Endpoints -> {"on", "off", "any"}]
        BY <2>2 DEF GatewayOK
  <2> QED BY <2>1, <2>3, <2>4, <2>5, PTL DEF TypeOK
<1> QED BY <1>1, FramesFollowMessages, PTL

\* main.c's copy of the actuators' state, the driver's copy and the outputs agree, after any
\* callbacks and resets.
THEOREM CopiesAlwaysAgree == Spec => []CopiesAgree
<1>1. ActInv => CopiesAgree
  <2> SUFFICES ASSUME ActInv PROVE CopiesAgree
      OBVIOUS
  <2>1. ASSUME NEW a \in Endpoints
        PROVE  output[a] = Drive(a, s_state.on[a], s_state.level[a])
    <3>1. s_state.level[a] = 0
          BY DEF ActInv, NodeOK, NoLevels
    <3>2. output[a] = Drive(a, s_state.on[a], 0)
          BY DEF ActInv, NodeOK
    <3> QED BY <3>1, <3>2
  <2> QED BY <2>1 DEF CopiesAgree, ActInv, NodeOK
<1> QED BY <1>1, FramesFollowMessages, PTL

\* When nothing is in flight, every actuator is as the last message with a field of it asked,
\* where that message is one Ask makes a claim of (complete, no other actuator's field, an
\* unquoted switch) and no frame for it was lost and no Identify written since: no topic or
\* payload in between puts another actuator, or another node, in its place.
THEOREM ActuatorsSettle == Spec => []SettledAsCommanded
<1>1. ActInv => SettledAsCommanded
  <2> SUFFICES ASSUME ActInv, air = <<>>, NEW a \in Endpoints, wanted[a] # "any"
               PROVE  IsRunning(a) = (wanted[a] = "on")
      BY DEF SettledAsCommanded
  <2>1. IsRunning(a) <=> s_state.on[a]
        BY RunsWhenOn DEF ActInv
  <2>2. NoneBehind(air, 0, a)
        BY DEF NoneBehind
  <2>3. s_state.on[a] <=> wanted[a] = "on"
        BY <2>2 DEF ActInv, AllFollow, Follows
  <2>4. IsRunning(a) \in BOOLEAN
        BY DEF IsRunning
  <2> QED BY <2>1, <2>3, <2>4
<1> QED BY <1>1, FramesFollowMessages, PTL

-----------------------------------------------------------------------------
(* Orders in flight                                                         *)

\* The positions of the orders in q, and the orders there: OrdersInAir, of any frames.
OrderAt(q) == {k \in 1 .. Len(q) : IsOrder(q[k])}
OrderOf(f) == <<f.ep, f.on>>
OrdersIn(q) ==
    LET frames == Subsequence(q, OrderAt(q)) IN [k \in DOMAIN frames |-> OrderOf(frames[k])]

\* Frames are turned into orders one by one.
LEMMA OrdersOfFrames ==
    ASSUME NEW frames \in Seq(AirFrames), NEW f \in AirFrames
    PROVE  LET orders(s) == [k \in DOMAIN s |-> OrderOf(s[k])]
           IN /\ orders(Append(frames, f)) = Append(orders(frames), OrderOf(f))
              /\ frames # <<>> =>
                    /\ orders(frames) # <<>> /\ orders(frames)[1] = OrderOf(Head(frames))
                    /\ orders(Tail(frames)) = Tail(orders(frames))
<1> DEFINE orders(s) == [k \in DOMAIN s |-> OrderOf(s[k])]
           O == {OrderOf(g) : g \in AirFrames}
<1>1. ASSUME NEW s \in Seq(AirFrames)
      PROVE  /\ orders(s) \in Seq(O) /\ Len(orders(s)) = Len(s)
             /\ \A k \in 1 .. Len(s) : orders(s)[k] = OrderOf(s[k])
  <2>1. DOMAIN s = 1 .. Len(s) /\ Len(s) \in Nat /\ \A k \in 1 .. Len(s) : s[k] \in AirFrames
        OBVIOUS
  <2>2. orders(s) \in [1 .. Len(s) -> O]
        BY <2>1
  <2> QED BY <2>1, <2>2
<1> HIDE DEF orders, O
<1>2. OrderOf(f) \in O
      BY DEF O
<1>3. orders(Append(frames, f)) = Append(orders(frames), OrderOf(f))
  <2> DEFINE s == Append(frames, f)
             x == orders(s)
             y == Append(orders(frames), OrderOf(f))
  <2>1. s \in Seq(AirFrames) /\ Len(s) = Len(frames) + 1 /\ Len(frames) \in Nat
          /\ s[Len(frames) + 1] = f /\ \A k \in 1 .. Len(frames) : s[k] = frames[k]
        OBVIOUS
  <2> HIDE DEF s
  <2>2. x \in Seq(O) /\ Len(x) = Len(s) /\ \A k \in 1 .. Len(s) : x[k] = OrderOf(s[k])
        BY <1>1, <2>1
  <2>3. /\ y \in Seq(O) /\ Len(y) = Len(frames) + 1 /\ y[Len(frames) + 1] = OrderOf(f)
        /\ \A k \in 1 .. Len(frames) : y[k] = OrderOf(frames[k])
        BY <1>1, <1>2, AppendProperties
  <2> HIDE DEF x, y
  <2>4. \A k \in 1 .. Len(x) : x[k] = y[k]
    <3>1. \A k \in 1 .. Len(x) : k \in 1 .. Len(frames) \/ k = Len(frames) + 1
          BY <2>1, <2>2
    <3> QED BY <2>1, <2>2, <2>3, <3>1
  <2>5. x = y
        BY <2>1, <2>2, <2>3, <2>4, SeqEqual
  <2> QED BY <2>5 DEF x, y, s
<1>4. ASSUME frames # <<>>
      PROVE  /\ orders(frames) # <<>> /\ orders(frames)[1] = OrderOf(Head(frames))
             /\ orders(Tail(frames)) = Tail(orders(frames))
  <2> DEFINE s == Tail(frames)
             x == orders(s)
             z == orders(frames)
             y == Tail(z)
  <2>1. s \in Seq(AirFrames) /\ Len(frames) = Len(s) + 1 /\ Len(s) \in Nat
          /\ Head(frames) = frames[1] /\ \A k \in 1 .. Len(s) : s[k] = frames[k + 1]
        BY <1>4
  <2> HIDE DEF s
  <2>2. x \in Seq(O) /\ Len(x) = Len(s) /\ \A k \in 1 .. Len(s) : x[k] = OrderOf(s[k])
        BY <1>1, <2>1
  <2>3. z \in Seq(O) /\ Len(z) = Len(s) + 1
          /\ \A k \in 1 .. Len(s) + 1 : z[k] = OrderOf(frames[k])
        BY <1>1, <2>1
  <2> HIDE DEF x, z
  <2>4. z # <<>> /\ 1 \in 1 .. Len(s) + 1
        BY <2>1, <2>3
  <2>5. y \in Seq(O) /\ Len(y) = Len(s) /\ \A k \in 1 .. Len(s) : y[k] = z[k + 1]
        BY <2>1, <2>3, <2>4
  <2> HIDE DEF y
  <2>6. \A k \in 1 .. Len(x) : x[k] = y[k]
    <3>1. \A k \in 1 .. Len(s) : k + 1 \in 1 .. Len(s) + 1
          BY <2>1
    <3> QED BY <2>1, <2>2, <2>3, <2>5, <3>1
  <2>7. x = y
        BY <2>2, <2>5, <2>6, SeqEqual
  <2>8. z[1] = OrderOf(Head(frames))
        BY <2>1, <2>3, <2>4
  <2> QED BY <2>4, <2>7, <2>8 DEF x, y, z, s
<1> QED BY <1>3, <1>4 DEF orders

\* A frame sent behind the others is an order behind the others, or none.
LEMMA OrdersGrow ==
    ASSUME NEW q \in Seq(AirFrames), NEW f \in AirFrames
    PROVE  OrdersIn(Append(q, f)) =
               IF IsOrder(f) THEN Append(OrdersIn(q), OrderOf(f)) ELSE OrdersIn(q)
<1> DEFINE P == OrderAt(q)
           r == Append(q, f)
<1>1. P \in SUBSET (1 .. Len(q))
      BY DEF OrderAt
<1>2. Len(r) = Len(q) + 1 /\ Len(q) \in Nat /\ r[Len(q) + 1] = f
        /\ \A k \in 1 .. Len(q) : r[k] = q[k]
      OBVIOUS
<1>3. \A k : k \in 1 .. Len(q) + 1 <=> (k \in 1 .. Len(q) \/ k = Len(q) + 1)
      BY <1>2
<1> HIDE DEF r
<1>4. OrderAt(r) = IF IsOrder(f) THEN P \cup {Len(q) + 1} ELSE P
      BY <1>2, <1>3 DEF OrderAt
<1>5. /\ Subsequence(r, P) = Subsequence(q, P)
      /\ Subsequence(r, P \cup {Len(q) + 1}) = Append(Subsequence(q, P), f)
      BY <1>1, SubsequenceGrows DEF r
<1>6. Subsequence(q, P) \in Seq(AirFrames)
      BY <1>1, SubsequenceType
<1> HIDE DEF P
<1>7. CASE IsOrder(f)
  <2> DEFINE S == Subsequence(q, P)
  <2>1. Subsequence(r, OrderAt(r)) = Append(S, f) /\ S \in Seq(AirFrames)
        BY <1>4, <1>5, <1>6, <1>7
  <2> HIDE DEF S
  <2>2. OrdersIn(q) = [k \in DOMAIN S |-> OrderOf(S[k])]
        BY DEF OrdersIn, S, P
  <2>3. OrdersIn(r) = [k \in DOMAIN Append(S, f) |-> OrderOf(Append(S, f)[k])]
        BY <2>1 DEF OrdersIn
  <2>4. OrdersIn(r) = Append(OrdersIn(q), OrderOf(f))
        BY <2>1, <2>2, <2>3, OrdersOfFrames
  <2> QED BY <1>7, <2>4 DEF r
<1>8. CASE ~IsOrder(f)
      BY <1>4, <1>5, <1>8 DEF OrdersIn, P, r
<1> QED BY <1>7, <1>8

\* A frame taken from the head is the first order, or none.
LEMMA OrdersShrink ==
    ASSUME NEW q \in Seq(AirFrames), q # <<>>
    PROVE  /\ ~IsOrder(q[1]) => OrdersIn(Tail(q)) = OrdersIn(q)
           /\ IsOrder(q[1]) =>
                /\ OrdersIn(q) # <<>> /\ OrdersIn(q)[1] = OrderOf(q[1])
                /\ OrdersIn(Tail(q)) = Tail(OrdersIn(q))
<1> DEFINE P == OrderAt(q)
           R == P \ {1}
           r == Tail(q)
           S == Subsequence(q, P)
<1>1. P \in SUBSET (1 .. Len(q)) /\ R \in SUBSET (2 .. Len(q)) /\ R \in SUBSET (1 .. Len(q))
      BY DEF OrderAt
<1>2. Len(q) = Len(r) + 1 /\ Len(r) \in Nat /\ \A k \in 1 .. Len(r) : r[k] = q[k + 1]
      OBVIOUS
<1> HIDE DEF r
<1>3. OrderAt(r) = {i - 1 : i \in R}
  <2>1. ASSUME NEW k \in OrderAt(r) PROVE k \in {i - 1 : i \in R}
    <3>1. k \in 1 .. Len(r) /\ IsOrder(q[k + 1]) /\ k + 1 \in 1 .. Len(q) /\ k + 1 # 1
          BY <1>2 DEF OrderAt
    <3>2. k + 1 \in R /\ (k + 1) - 1 = k
          BY <3>1 DEF OrderAt
    <3> QED BY <3>2
  <2>2. ASSUME NEW i \in R PROVE i - 1 \in OrderAt(r)
    <3>1. i \in 2 .. Len(q) /\ IsOrder(q[i])
          BY <1>1 DEF OrderAt
    <3>2. i - 1 \in 1 .. Len(r) /\ (i - 1) + 1 = i
          BY <1>2, <3>1
    <3> QED BY <1>2, <3>1, <3>2 DEF OrderAt
  <2> QED BY <2>1, <2>2
<1>4. Subsequence(r, OrderAt(r)) = Subsequence(q, R)
      BY <1>1, <1>3, SubsequenceShifts DEF r
<1>5. 1 \in P <=> IsOrder(q[1])
      BY <1>2 DEF OrderAt
<1>6. CASE ~IsOrder(q[1])
  <2>1. R = P
        BY <1>5, <1>6
  <2> QED BY <1>4, <1>6, <2>1 DEF OrdersIn, r
<1>7. CASE IsOrder(q[1])
  <2>1. S # <<>> /\ Head(S) = q[1] /\ Subsequence(q, R) = Tail(S)
        BY <1>1, <1>5, <1>7, SubsequenceLosesHead
  <2>2. S \in Seq(AirFrames)
        BY <1>1, SubsequenceType
  <2> HIDE DEF S, R
  <2>3. OrdersIn(q) = [k \in DOMAIN S |-> OrderOf(S[k])]
        BY DEF OrdersIn, S
  <2>4. OrdersIn(r) = [k \in DOMAIN Tail(S) |-> OrderOf(Tail(S)[k])]
        BY <1>4, <2>1 DEF OrdersIn
  <2>5. \E g : g \in AirFrames
        BY <2>1, <2>2
  <2> QED BY <1>7, <2>1, <2>2, <2>3, <2>4, <2>5, OrdersOfFrames DEF r
<1> QED BY <1>6, <1>7

-----------------------------------------------------------------------------
(* The switch panel                                                         *)

\* What of the panel the state shows.
Running == [a \in Endpoints |-> IsRunning(a)]

\* The panel's orders are those in flight, and its actuators run as the copies have it.
LEMMA PanelState ==
    /\ OrdersInAir = OrdersIn(air)
    /\ NodeOK => Running = s_state.on
<1>1. OrdersInAir = OrdersIn(air)
      BY DEF OrdersInAir, OrdersIn, OrderAt, OrderOf
<1>2. ASSUME NodeOK PROVE Running = s_state.on
  <2>1. s_state.on = [a \in Endpoints |-> s_state.on[a]]
        BY <1>2 DEF NodeOK, ActStates
  <2>2. ASSUME NEW a \in Endpoints PROVE IsRunning(a) = s_state.on[a]
    <3>1. s_state.on[a] \in BOOLEAN /\ (IsRunning(a) <=> s_state.on[a])
          BY <1>2, RunsWhenOn
    <3>2. IsRunning(a) \in BOOLEAN
          BY DEF IsRunning
    <3> QED BY <3>1, <3>2
  <2> QED BY <2>1, <2>2, Zenon DEF Running
<1> QED BY <1>1, <1>2

\* A command is one order, or none.
LEMMA CommandOrders ==
    ASSUME NEW p, IsPayload(p), NEW q \in Seq(AirFrames)
    PROVE  \/ OrdersIn(q \o Frames(Parse(p))) = OrdersIn(q)
           \/ \E a \in Endpoints, on \in BOOLEAN :
                 OrdersIn(q \o Frames(Parse(p))) = Append(OrdersIn(q), <<a, on>>)
<1> DEFINE f == OnOffFrame(Parse(p))
           g == LevelFrame(Parse(p))
           r == q \o Frames(Parse(p))
<1>1. f \in AirFrames /\ f.kind = "onoff"
      BY OnOffFrameType DEF OnOffFrame
<1>2. \/ r = Append(q, f)
      \/ r = Append(Append(q, f), g) /\ g \in AirFrames /\ g.kind = "level"
      BY FramesAppended
<1> HIDE DEF f, g, r
<1>3. Append(q, f) \in Seq(AirFrames)
      BY <1>1
<1>4. ASSUME g \in AirFrames, g.kind = "level"
      PROVE  OrdersIn(Append(Append(q, f), g)) = OrdersIn(Append(q, f))
  <2>1. ~IsOrder(g)
        BY <1>4 DEF IsOrder
  <2> QED BY <1>3, <1>4, <2>1, OrdersGrow
<1>5. OrdersIn(r) = OrdersIn(Append(q, f))
      BY <1>2, <1>4
<1>6. CASE ~IsOrder(f)
      BY <1>1, <1>5, <1>6, OrdersGrow DEF r
<1>7. CASE IsOrder(f)
  <2>1. f.ep \in Endpoints /\ f.on \in BOOLEAN
        BY <1>1, <1>7 DEF IsOrder, AirFrames
  <2>2. OrdersIn(r) = Append(OrdersIn(q), <<f.ep, f.on>>)
        BY <1>1, <1>5, <1>7, OrdersGrow DEF OrderOf
  <2> QED BY <2>1, <2>2 DEF r
<1> QED BY <1>6, <1>7

\* Every step of the gateway, the radio and the node is a step of the panel, or none of it.
LEMMA StepOfPanel ==
    ASSUME ActInv, ActInv', [Next]_vars
    PROVE  [Panel!Next]_(Panel!pvars)
<1>1. /\ air \in Seq(AirFrames) /\ NodeOK /\ NodeOK'
      /\ s_state.on \in [Endpoints -> BOOLEAN]
  <2>1. GatewayOK /\ NodeOK /\ NodeOK'
        BY DEF ActInv
  <2>2. air \in Seq(AirFrames)
        BY <2>1 DEF GatewayOK
  <2>3. s_state.on \in [Endpoints -> BOOLEAN]
        BY <2>1 DEF NodeOK, ActStates
  <2> QED BY <2>1, <2>2, <2>3
<1>2. OrdersInAir = OrdersIn(air) /\ Running = s_state.on
      BY <1>1, PanelState
<1>3. OrdersInAir' = OrdersIn(air')
      BY DEF OrdersInAir, OrdersIn, OrderAt, OrderOf
<1>4. Running' = s_state'.on
  <2>1. (NodeOK => Running = s_state.on)'
        BY PanelState, PTL
  <2> QED BY <1>1, <2>1
<1>5. ASSUME OrdersIn(air') = OrdersIn(air), s_state' = s_state
      PROVE  UNCHANGED Panel!pvars
      BY <1>2, <1>3, <1>4, <1>5 DEF Panel!pvars, Running
<1>6. CASE UNCHANGED vars
      BY <1>5, <1>6 DEF vars, nodeVars
<1>7. ASSUME NEW m \in Messages, Command(m.topic, m.payload)
      PROVE  [Panel!Next]_(Panel!pvars)
  <2>1. IsPayload(m.payload)
        BY TopicType
  <2>2. air' = air \o Frames(Parse(m.payload)) /\ s_state' = s_state
        BY <1>7 DEF Command, nodeVars
  <2>3. CASE OrdersIn(air') = OrdersIn(air)
        BY <1>5, <2>2, <2>3
  <2>4. CASE OrdersIn(air') # OrdersIn(air)
    <3>1. PICK a \in Endpoints, on \in BOOLEAN :
             OrdersIn(air') = Append(OrdersIn(air), <<a, on>>)
          BY <1>1, <2>1, <2>2, <2>4, CommandOrders
    <3>2. OrdersInAir' = Append(OrdersInAir, <<a, on>>) /\ Running' = Running
          BY <1>2, <1>3, <1>4, <2>2, <3>1
    <3>3. Panel!Order(a, on)
          BY <3>2 DEF Panel!Order, Running
    <3> QED BY <3>3 DEF Panel!Next
  <2> QED BY <2>3, <2>4
<1>8. ASSUME NEW m \in Messages, NoCommand(m.topic, m.payload)
      PROVE  [Panel!Next]_(Panel!pvars)
      BY <1>5, <1>8 DEF NoCommand, nodeVars
<1>9. CASE ReceiveOnOff
  <2> DEFINE f == air[1]
  <2>1. /\ air # <<>> /\ air' = Tail(air) /\ Head(air) = f /\ f \in AirFrames
        /\ f.kind = "onoff" /\ f.ep \in Endpoints
        /\ ZclCallback(f.ep, TRUE, f.on)
    <3>1. air # <<>> /\ GatewayOK
          BY <1>9 DEF ReceiveOnOff, ActInv
    <3>2. Head(air) = f /\ f \in AirFrames
          BY <3>1, AirTail
    <3> QED BY <1>9, <3>1, <3>2 DEF ReceiveOnOff
  <2>2. f.on \in BOOLEAN
        BY <2>1 DEF AirFrames
  <2>3. IsOrder(f)
        BY <2>1 DEF IsOrder
  <2>4. OrdersInAir # <<>> /\ OrdersInAir[1] = <<f.ep, f.on>> /\ OrdersInAir' = Tail(OrdersInAir)
        BY <1>1, <1>2, <1>3, <2>1, <2>3, OrdersShrink DEF OrderOf
  <2>5. Running' = [Running EXCEPT ![f.ep] = f.on]
    <3>1. s_state'.on = [s_state.on EXCEPT ![f.ep] = TRUE /\ f.on]
          BY <1>1, <2>1, <2>2, CallbackKeepsNode
    <3>2. (TRUE /\ f.on) = f.on
          BY <2>2
    <3> QED BY <1>2, <1>4, <3>1, <3>2
  <2> HIDE DEF f
  <2>6. Panel!CarryOut
        BY <2>4, <2>5 DEF Panel!CarryOut, Running
  <2> QED BY <2>6 DEF Panel!Next
<1>10. CASE IgnoreFrame
  <2>1. /\ air # <<>> /\ air' = Tail(air) /\ s_state' = s_state
        /\ air[1].kind = "level" \/ air[1].ep \notin Endpoints
    <3>1. air # <<>> /\ GatewayOK
          BY <1>10 DEF IgnoreFrame, ActInv
    <3> QED BY <1>10, <3>1, AirTail DEF IgnoreFrame, nodeVars
  <2>2. ~IsOrder(air[1])
        BY <2>1 DEF IsOrder
  <2> QED BY <1>1, <1>5, <2>1, <2>2, OrdersShrink
<1>11. CASE LoseFrame
  <2>1. air # <<>> /\ air' = Tail(air) /\ s_state' = s_state
        BY <1>11 DEF LoseFrame, nodeVars
  <2>2. CASE ~IsOrder(air[1])
        BY <1>1, <1>5, <2>1, <2>2, OrdersShrink
  <2>3. CASE IsOrder(air[1])
    <3>1. OrdersInAir # <<>> /\ OrdersInAir' = Tail(OrdersInAir) /\ Running' = Running
          BY <1>1, <1>2, <1>3, <1>4, <2>1, <2>3, OrdersShrink
    <3>2. Panel!LoseOrder
          BY <3>1 DEF Panel!LoseOrder, Running
    <3> QED BY <3>2 DEF Panel!Next
  <2> QED BY <2>2, <2>3
<1>12. ASSUME NEW ep \in Identified, Identify(ep)
       PROVE  [Panel!Next]_(Panel!pvars)
  <2>1. ep \in Endpoints /\ ZclCallback(ep, FALSE, FALSE) /\ air' = air
        BY <1>12, ActuationAssumption DEF Identify
  <2>2. s_state'.on = [s_state.on EXCEPT ![ep] = FALSE /\ FALSE]
        BY <1>1, <2>1, CallbackKeepsNode
  <2>3. OrdersInAir' = OrdersInAir /\ Running' = [Running EXCEPT ![ep] = FALSE]
        BY <1>2, <1>3, <1>4, <2>1, <2>2
  <2>4. Panel!Disturb(ep)
        BY <2>3 DEF Panel!Disturb, Running
  <2> QED BY <2>4 DEF Panel!Next
<1>13. CASE Reset
  <2>1. air' = air /\ s_state' = AllOff
        BY <1>13 DEF Reset
  <2>2. OrdersInAir' = OrdersInAir /\ Running' = [a \in Endpoints |-> FALSE]
        BY <1>2, <1>3, <1>4, <2>1, OffIsTyped
  <2>3. Panel!Reset
        BY <2>2 DEF Panel!Reset, Running
  <2> QED BY <2>3 DEF Panel!Next
<1> QED
  BY <1>6, <1>7, <1>8, <1>9, <1>10, <1>11, <1>12, <1>13 DEF Next, Deliver

\* The gateway, the radio and the node implement the switch panel, its liveness apart:
\* orders for one actuator at a time are carried out in the order they were given, or lost,
\* and nothing but a reset or a written identify time moves an actuator besides.
THEOREM PanelImplemented == Spec => Panel!Init /\ [][Panel!Next]_(Panel!pvars)
<1>1. Init => Panel!Init
  <2> SUFFICES ASSUME Init PROVE Panel!Init
      OBVIOUS
  <2>1. NodeOK /\ air = <<>> /\ s_state = AllOff
        BY InitActuation DEF ActInv, Init
  <2>2. Running = [a \in Endpoints |-> FALSE]
        BY <2>1, PanelState, OffIsTyped
  <2>3. OrdersInAir = <<>>
    <3>1. OrderAt(air) = {} /\ air \in Seq(AirFrames)
          BY <2>1 DEF OrderAt
    <3>2. Len(Subsequence(air, {})) = 0 /\ Subsequence(air, {}) \in Seq(AirFrames)
          BY <3>1, SubsequenceType, FS_EmptySet
    <3>3. Subsequence(air, OrderAt(air)) = <<>>
          BY <3>1, <3>2, EmptySeq
    <3>4. OrdersIn(air) = <<>>
          BY <3>3 DEF OrdersIn
    <3> QED BY <3>4, PanelState
  <2> QED BY <2>2, <2>3 DEF Panel!Init, Running
<1>2. ActInv /\ ActInv' /\ [Next]_vars => [Panel!Next]_(Panel!pvars)
      BY StepOfPanel
<1> QED BY <1>1, <1>2, FramesFollowMessages, PTL DEF Spec
==============================================================================
