--------------------------- MODULE NodeTableProofs ---------------------------
(***************************************************************************)
(* Theorems about NodeTable: its safety properties hold for every size of  *)
(* the table, every set of addresses and every timing that satisfies       *)
(* TimingAssumption.  The argument is the inductive invariant IInv of      *)
(* NodeTable, proved action by action.                                     *)
(***************************************************************************)
EXTENDS NodeTable, TLAPS

-----------------------------------------------------------------------------
(* The arithmetic of the 32-bit clock                                       *)

NextClock == IF clock = ClockMod - 1 THEN 0 ELSE clock + 1

\* No time has passed since this instant.
LEMMA ElapsedZero == ASSUME NEW c \in 0 .. ClockMod - 1 PROVE Elapsed(c, c) = 0
BY TimingAssumption DEF Elapsed

\* A tick of the clock adds one to every difference that has not come round.
LEMMA ElapsedTick ==
    ASSUME clock \in 0 .. ClockMod - 1, NEW x \in 0 .. ClockMod - 1,
           Elapsed(clock, x) + 1 < ClockMod
    PROVE  Elapsed(NextClock, x) = Elapsed(clock, x) + 1
BY TimingAssumption DEF Elapsed, NextClock

\* An instant before another, seen from a third: the difference of the two is
\* the difference of their distances.
LEMMA ElapsedBetween ==
    ASSUME NEW c \in 0 .. ClockMod - 1, NEW now \in 0 .. ClockMod - 1,
           NEW x \in 0 .. ClockMod - 1,
           Elapsed(c, now) <= Elapsed(c, x)
    PROVE  Elapsed(now, x) = Elapsed(c, x) - Elapsed(c, now)
BY TimingAssumption DEF Elapsed

-----------------------------------------------------------------------------
(* Type correctness                                                         *)

\* The initial state is typed.
LEMMA InitType == Init => TypeOK
BY MaxNodesAssumption, NamesAssumption, TimingAssumption
   DEF Init, TypeOK, Slots, ZbPcs, AgeCap, PubCap

\* Every step of the table keeps every variable in its type.
LEMMA StepType == TypeOK /\ [Next]_vars => TypeOK'
<1> SUFFICES ASSUME TypeOK, [Next]_vars PROVE TypeOK'
    OBVIOUS
<1> USE MaxNodesAssumption, NamesAssumption, TimingAssumption DEF TypeOK, Slots, ZbPcs
<1>1. ASSUME NEW s \in Shorts, NEW e \in Ieees, RegKnown(s, e) PROVE TypeOK'
      BY <1>1 DEF RegKnown, FoundAt, Entries, tableVars, hbVars, timeVars
<1>2. ASSUME NEW s \in Shorts, NEW e \in Ieees, RegNew(s, e) PROVE TypeOK'
      BY <1>2 DEF RegNew, hbVars, timeVars
<1>3. ASSUME NEW s \in Shorts, MarkOffline(s) PROVE TypeOK'
      BY <1>3 DEF MarkOffline, FoundAt, Entries, zbVars, hbVars, timeVars
<1>4. CASE RegAddr
      BY <1>4 DEF RegAddr, hbVars, timeVars
<1>5. CASE RegSeen
      BY <1>5 DEF RegSeen, hbVars, AgeCap
<1>6. CASE RegOnline
      BY <1>6 DEF RegOnline, hbVars, timeVars
<1>7. CASE RegIdHead
      BY <1>7 DEF RegIdHead, hbVars, timeVars
<1>8. CASE RegIdTail
      BY <1>8 DEF RegIdTail, hbVars, timeVars
<1>9. CASE HbSample
      BY <1>9 DEF HbSample, tableVars, zbVars
<1>10. CASE HbExpired
      BY <1>10 DEF HbExpired, tableVars, zbVars, timeVars
<1>11. CASE HbPass
      BY <1>11 DEF HbPass, tableVars, zbVars, timeVars
<1>12. CASE HbMark
      BY <1>12 DEF HbMark, zbVars, timeVars
<1>13. CASE HbPublish
      BY <1>13 DEF HbPublish, tableVars, zbVars, PubCap
<1>14. CASE HbSkipPublish
      BY <1>14 DEF HbSkipPublish, tableVars, zbVars, timeVars
<1>15. CASE Tick
      BY <1>15 DEF Tick, tableVars, zbVars, hbVars, AgeCap, PubCap
<1>16. CASE UNCHANGED vars
      BY <1>16 DEF vars, tableVars, zbVars, hbVars, timeVars
<1> QED
    BY <1>1, <1>2, <1>3, <1>4, <1>5, <1>6, <1>7, <1>8, <1>9, <1>10, <1>11, <1>12,
       <1>13, <1>14, <1>15, <1>16 DEF Next, ZbCall, RegStep, HbStep

\* Every field of the table, every index and every clock keeps its C type, and
\* the indices stay within the entries in use.
THEOREM TypeCorrect == Spec => []TypeOK
BY InitType, StepType, PTL DEF Spec

-----------------------------------------------------------------------------
(* The shape of the table: unique addresses                                 *)

\* An empty table has the shape.
LEMMA InitShape == Init => TableShape
BY MaxNodesAssumption DEF Init, TableShape, UniqueShort, Entries, Slots

\* What TableShape speaks of is left alone by most steps.
LEMMA ShapeFrame ==
    ASSUME TableShape, UNCHANGED <<nodes_count, short_addr, zbPc, zbIdx, zbShort>>,
           \A i \in Slots : online'[i] => online[i]
    PROVE  TableShape'
BY DEF TableShape, UniqueShort, Entries, Slots

\* Every step keeps the shape: it is the new entry only that lacks an address,
\* and the search that failed is what makes its address new.
LEMMA StepShape == TypeOK /\ TableShape /\ [Next]_vars => TableShape'
<1> SUFFICES ASSUME TypeOK, TableShape, [Next]_vars PROVE TableShape'
    OBVIOUS
<1> USE MaxNodesAssumption, NamesAssumption DEF TypeOK, Slots, ZbPcs
<1>1. ASSUME NEW s \in Shorts, NEW e \in Ieees, RegKnown(s, e) PROVE TableShape'
      BY <1>1 DEF RegKnown, FoundAt, Entries, TableShape, UniqueShort, tableVars, hbVars, timeVars
<1>2. ASSUME NEW s \in Shorts, NEW e \in Ieees, RegNew(s, e) PROVE TableShape'
      BY <1>2 DEF RegNew, NotFound, Entries, TableShape, UniqueShort, hbVars, timeVars
<1>3. ASSUME NEW s \in Shorts, MarkOffline(s) PROVE TableShape'
      BY <1>3, ShapeFrame DEF MarkOffline, FoundAt, Entries, zbVars, hbVars, timeVars
<1>4. CASE RegAddr
      BY <1>4 DEF RegAddr, Entries, TableShape, UniqueShort, hbVars, timeVars
<1>5. CASE RegOnline
      BY <1>5 DEF RegOnline, Entries, TableShape, UniqueShort
<1>6. CASE RegSeen \/ RegIdHead \/ RegIdTail
  <2>1. zbPc # "addr" /\ zbPc' # "addr" /\ UNCHANGED <<nodes_count, short_addr, online>>
        BY <1>6 DEF RegSeen, RegIdHead, RegIdTail
  <2> QED
      BY <2>1 DEF Entries, TableShape, UniqueShort
<1>7. CASE HbStep \/ Tick
      BY <1>7, ShapeFrame DEF HbStep, HbSample, HbExpired, HbPass, HbMark, HbPublish, HbSkipPublish, Tick,
                              tableVars, zbVars
<1>8. CASE UNCHANGED vars
      BY <1>8, ShapeFrame DEF vars, tableVars, zbVars
<1> QED
    BY <1>1, <1>2, <1>3, <1>4, <1>5, <1>6, <1>7, <1>8 DEF Next, ZbCall, RegStep

\* Two entries never carry the same short address, however the registration's
\* stores interleave with the heartbeat.
THEOREM ShortsUnique == Spec => []UniqueShort
<1>1. Init => TypeOK /\ TableShape
      BY InitType, InitShape
<1>2. TypeOK /\ TableShape /\ [Next]_vars => (TypeOK /\ TableShape)'
      BY StepType, StepShape
<1>3. TableShape => UniqueShort
      BY DEF TableShape
<1> QED
    BY <1>1, <1>2, <1>3, PTL DEF Spec

\* A step writes an address only into an entry that has none.
LEMMA ShortStep ==
    TypeOK /\ TableShape /\ [Next]_vars =>
        \A i \in Slots : short_addr[i] # NoShort => short_addr'[i] = short_addr[i]
<1> SUFFICES ASSUME TypeOK, TableShape, [Next]_vars
             PROVE  \A i \in Slots : short_addr[i] # NoShort => short_addr'[i] = short_addr[i]
    OBVIOUS
<1>1. CASE RegAddr
      BY <1>1 DEF RegAddr, TypeOK, TableShape, Slots
<1>2. CASE UNCHANGED short_addr
      BY <1>2
<1> QED
    BY <1>1, <1>2 DEF Next, ZbCall, MarkOffline, RegKnown, RegNew, RegStep, RegSeen, RegOnline,
                      RegIdHead, RegIdTail, HbStep, HbSample, HbExpired, HbPass, HbMark,
                      HbPublish, HbSkipPublish, Tick, vars, tableVars

\* The address in an entry never changes once it is written, whatever other
\* registrations, heartbeats and offline marks do: a pointer into the table
\* keeps meaning the address it was looked up for.
THEOREM ShortsStable == Spec => ShortStable
<1>1. Init => TypeOK /\ TableShape
      BY InitType, InitShape
<1>2. TypeOK /\ TableShape /\ [Next]_vars => (TypeOK /\ TableShape)'
      BY StepType, StepShape
<1> QED
    BY <1>1, <1>2, ShortStep, PTL DEF Spec, ShortStable

-----------------------------------------------------------------------------
(* Time: ClockTracked, AgesBounded and VerdictJustified.  TypeOK' and       *)
(* TableShape' are known by now.                                            *)

Timing == ClockTracked /\ AgesBounded /\ VerdictJustified

\* The clock and the ages start together.
LEMMA InitTiming == Init => Timing
BY TimingAssumption, MaxNodesAssumption
   DEF Init, Timing, ClockTracked, AgesBounded, VerdictJustified, BeingSeen, Elapsed, Slots

\* The history variables never reach the values they stop at while anything
\* depends on them.
LEMMA AgesBelowCaps ==
    ASSUME TypeOK, Timing
    PROVE  /\ \A i \in Slots : BeingSeen(i) => age[i] < AgeCap
           /\ pubAge < PubCap
<1> USE TimingAssumption
<1>1. ASSUME NEW i \in Slots, BeingSeen(i) PROVE age[i] < AgeCap
      BY <1>1 DEF BeingSeen, Timing, AgesBounded, Slack, AgeCap, TypeOK, Slots
<1>2. pubAge < PubCap
      BY DEF Timing, AgesBounded, PubCap, TypeOK
<1> QED BY <1>1, <1>2

\* The condition the heartbeat tests, in true time.
LEMMA ExpiredMeans ==
    ASSUME TypeOK, Timing, NEW i \in Slots, online[i], hbAge <= age[i]
    PROVE  Elapsed(hbNow, last_seen_ms[i]) = age[i] - hbAge
BY ElapsedBetween DEF TypeOK, Timing, ClockTracked, BeingSeen

\* Every step keeps the differences of the 32-bit clock equal to true times,
\* and the ages within the bounds.
LEMMA StepTiming ==
    TypeOK /\ TypeOK' /\ TableShape /\ Timing /\ [Next]_vars => Timing'
<1> SUFFICES ASSUME TypeOK, TypeOK', TableShape, Timing, [Next]_vars PROVE Timing'
    OBVIOUS
<1> USE TimingAssumption, MaxNodesAssumption
<1> USE DEF Timing
<1>1. CASE /\ UNCHANGED <<last_seen_ms, hbVars, timeVars>>
           /\ \A i \in Slots : online'[i] => online[i]
           /\ zbPc' # "online"
      BY <1>1 DEF ClockTracked, AgesBounded, VerdictJustified, BeingSeen, Slack, Elapsed,
                  hbVars, timeVars
<1>2. CASE RegSeen
  <2>1. /\ last_seen_ms' = [last_seen_ms EXCEPT ![zbIdx] = clock]
        /\ age' = [age EXCEPT ![zbIdx] = 0]
        /\ zbPc' = "online" /\ zbPc # "online" /\ zbIdx \in Slots
        /\ UNCHANGED <<online, zbIdx, hbVars, clock, hbAge, pubAge>>
        BY <1>2 DEF RegSeen, TypeOK
  <2>2. ClockTracked'
        BY <2>1, ElapsedZero DEF ClockTracked, BeingSeen, Elapsed, hbVars, TypeOK
  <2>3. AgesBounded'
        BY <2>1 DEF AgesBounded, Slack, hbVars, TypeOK
  <2>4. VerdictJustified'
        BY <2>1 DEF VerdictJustified, hbVars, TypeOK, Slots
  <2> QED BY <2>2, <2>3, <2>4
<1>3. CASE RegOnline
  <2>1. /\ online' = [online EXCEPT ![zbIdx] = TRUE]
        /\ zbPc' = "idHead" /\ zbPc = "online" /\ zbIdx \in Slots
        /\ UNCHANGED <<last_seen_ms, zbIdx, hbVars, timeVars>>
        BY <1>3 DEF RegOnline, TypeOK
  <2>2. ClockTracked'
        BY <2>1 DEF ClockTracked, BeingSeen, Elapsed, hbVars, timeVars, TypeOK
  <2>3. AgesBounded'
        BY <2>1 DEF AgesBounded, Slack, hbVars, timeVars, TypeOK
  <2>4. VerdictJustified'
        BY <2>1 DEF VerdictJustified, hbVars, timeVars
  <2> QED BY <2>2, <2>3, <2>4
<1>4. CASE HbSample
  <2>1. /\ hbPc = "sleep" /\ hbPc' = "loop" /\ hbNow' = clock /\ hbAge' = 0 /\ hbI' = 0
        /\ UNCHANGED <<online, last_seen_ms, zbPc, zbIdx, last_state_pub, clock, age, pubAge>>
        BY <1>4 DEF HbSample, tableVars, zbVars
  <2>2. ClockTracked'
        BY <2>1, ElapsedZero DEF ClockTracked, BeingSeen, Elapsed, TypeOK
  <2>3. AgesBounded'
        BY <2>1 DEF AgesBounded, Slack, TypeOK, Slots
  <2> QED BY <2>1, <2>2, <2>3 DEF VerdictJustified
<1>5. CASE HbExpired
  <2>1. /\ hbPc = "loop" /\ hbPc' = "mark" /\ hbI \in Slots /\ Expired(hbI)
        /\ UNCHANGED <<tableVars, zbVars, hbI, hbNow, last_state_pub, timeVars>>
        BY <1>5 DEF HbExpired, TypeOK, Slots
  <2>2. VerdictJustified'
        BY <2>1, ExpiredMeans DEF VerdictJustified, Expired, TypeOK, timeVars
  <2>3. ClockTracked' /\ AgesBounded'
        BY <2>1 DEF ClockTracked, AgesBounded, BeingSeen, Slack, Elapsed, tableVars, zbVars, timeVars
  <2> QED BY <2>2, <2>3
<1>6. CASE HbPass
  <2>1. /\ hbPc = "loop" /\ hbPc' = "loop" /\ hbI \in Slots /\ ~Expired(hbI) /\ hbI' = hbI + 1
        /\ UNCHANGED <<tableVars, zbVars, hbNow, last_state_pub, timeVars>>
        BY <1>6 DEF HbPass, TypeOK, Slots
  <2>2. ASSUME online[hbI] PROVE age[hbI] <= Timeout + hbAge
        BY <2>1, <2>2, ExpiredMeans DEF Expired, TypeOK
  <2>3. AgesBounded'
        BY <2>1, <2>2 DEF AgesBounded, Slack, TypeOK, Slots, tableVars, zbVars, timeVars
  <2>4. ClockTracked'
        BY <2>1 DEF ClockTracked, BeingSeen, Elapsed, tableVars, zbVars, timeVars
  <2> QED BY <2>1, <2>3, <2>4 DEF VerdictJustified
<1>7. CASE HbMark
  <2>1. /\ hbPc = "mark" /\ hbPc' = "loop" /\ hbI \in Slots /\ hbI' = hbI + 1
        /\ online' = [online EXCEPT ![hbI] = FALSE]
        /\ UNCHANGED <<last_seen_ms, zbPc, zbIdx, hbNow, last_state_pub, timeVars>>
        BY <1>7 DEF HbMark, TypeOK, Slots, zbVars
  <2>2. AgesBounded'
        BY <2>1 DEF AgesBounded, Slack, TypeOK, Slots, timeVars
  <2>3. ClockTracked'
        BY <2>1 DEF ClockTracked, BeingSeen, Elapsed, TypeOK, timeVars
  <2> QED BY <2>1, <2>2, <2>3 DEF VerdictJustified
<1>8. CASE HbPublish \/ HbSkipPublish
  <2>1. /\ hbPc = "loop" /\ hbPc' = "sleep" /\ hbI >= nodes_count /\ hbI' = 0
        /\ UNCHANGED <<tableVars, zbVars, hbNow, clock, age, hbAge>>
        BY <1>8 DEF HbPublish, HbSkipPublish, timeVars
  <2>2. \A i \in Slots : online[i] => i < hbI
        BY <2>1 DEF TableShape, Entries, TypeOK, Slots
  <2>3. Elapsed(hbNow, last_state_pub) = pubAge - hbAge
        BY ElapsedBetween DEF ClockTracked, AgesBounded, TypeOK
  <2>4. /\ Elapsed(clock, last_state_pub') = pubAge'
        /\ hbAge <= pubAge' /\ pubAge' <= PubPeriod + hbAge
    <3>1. CASE HbPublish
          BY <3>1 DEF HbPublish, ClockTracked, TypeOK
    <3>2. CASE HbSkipPublish
          BY <3>2, <2>3 DEF HbSkipPublish, PubDue, ClockTracked, AgesBounded, TypeOK, timeVars
    <3> QED BY <1>8, <3>1, <3>2
  <2>5. AgesBounded'
        BY <2>1, <2>2, <2>4 DEF AgesBounded, Slack, tableVars, zbVars, TypeOK
  <2>6. ClockTracked'
        BY <2>1, <2>4 DEF ClockTracked, BeingSeen, Elapsed, tableVars, zbVars
  <2> QED BY <2>1, <2>5, <2>6 DEF VerdictJustified
<1>9. CASE Tick
  <2>1. /\ hbAge < HbMax /\ hbAge' = hbAge + 1
        /\ zbPc = "online" => age[zbIdx] < HbMax
        /\ clock' = NextClock
        /\ age' = [i \in Slots |-> IF age[i] < AgeCap THEN age[i] + 1 ELSE AgeCap]
        /\ pubAge' = pubAge + 1
        /\ UNCHANGED <<tableVars, zbVars, hbVars>>
        BY <1>9, AgesBelowCaps DEF Tick, NextClock
  <2>2. \A i \in Slots : BeingSeen(i) => age'[i] = age[i] + 1
        BY <2>1, AgesBelowCaps
  <2>3. Elapsed(clock', hbNow) = hbAge + 1
        BY <2>1, ElapsedTick DEF ClockTracked, TypeOK
  <2>4. Elapsed(clock', last_state_pub) = pubAge + 1
    <3>1. Elapsed(clock, last_state_pub) = pubAge /\ pubAge + 1 < ClockMod
          BY AgesBelowCaps DEF ClockTracked, TypeOK, PubCap
    <3> QED BY <2>1, <3>1, ElapsedTick DEF TypeOK
  <2>5. \A i \in Slots : BeingSeen(i) => Elapsed(clock', last_seen_ms[i]) = age[i] + 1
        BY <2>1, ElapsedTick, AgesBelowCaps DEF ClockTracked, TypeOK, AgeCap
  <2>6. ClockTracked'
        BY <2>1, <2>2, <2>3, <2>4, <2>5 DEF ClockTracked, BeingSeen, Elapsed, tableVars, zbVars, hbVars
  <2>7. AgesBounded'
        BY <2>1, <2>2 DEF AgesBounded, BeingSeen, Slack, TypeOK, Slots, tableVars, zbVars, hbVars
  <2>8. VerdictJustified'
    <3> SUFFICES ASSUME hbPc = "mark"
                 PROVE  age'[hbI] > Timeout + hbAge' \/ age'[hbI] <= hbAge'
        BY <2>1 DEF VerdictJustified, hbVars
    <3>1. hbI \in Slots
          BY DEF TypeOK, Slots
    <3>2. age'[hbI] = IF age[hbI] < AgeCap THEN age[hbI] + 1 ELSE AgeCap
          BY <2>1, <3>1
    <3> QED BY <2>1, <3>1, <3>2 DEF VerdictJustified, AgeCap, TypeOK
  <2> QED BY <2>6, <2>7, <2>8
<1>10. CASE UNCHANGED vars
      BY <1>10 DEF vars, tableVars, zbVars, hbVars, timeVars, ClockTracked, AgesBounded,
                   VerdictJustified, BeingSeen, Slack, Elapsed
<1>11. ASSUME NEW s \in Shorts, NEW e \in Ieees,
              RegKnown(s, e) \/ RegNew(s, e)
       PROVE  Timing'
       BY <1>11, <1>1 DEF RegKnown, RegNew, tableVars
<1>12. ASSUME NEW s \in Shorts, MarkOffline(s) PROVE Timing'
       BY <1>12, <1>1 DEF MarkOffline, FoundAt, zbVars, TypeOK, Slots, Entries
<1>13. CASE RegAddr \/ RegIdHead \/ RegIdTail
       BY <1>13, <1>1 DEF RegAddr, RegIdHead, RegIdTail
<1> QED
    BY <1>2, <1>3, <1>4, <1>5, <1>6, <1>7, <1>8, <1>9, <1>10, <1>11, <1>12, <1>13
       DEF Next, ZbCall, RegStep, HbStep

\* The conjunction of the parts is invariant: with the types, the table has no entry twice,
\* the differences of the wrapping clock are true times, and ages and verdicts follow them.
THEOREM Inductive == Spec => []IInv
<1>1. Init => IInv
      BY InitType, InitShape, InitTiming DEF IInv, Timing
<1>2. IInv /\ [Next]_vars => IInv'
      BY StepType, StepShape, StepTiming DEF IInv, Timing
<1> QED BY <1>1, <1>2, PTL DEF Spec

\* Whenever the heartbeat has decided to mark an entry offline, the node was
\* last registered more than Timeout before the pass sampled the 32-bit clock, or has
\* been registered since: the comparison is right across every wrap of the
\* clock, and the race with the registration is its only way to be wrong.
THEOREM VerdictsJustified == Spec => []VerdictJustified
<1>1. IInv => VerdictJustified
      BY DEF IInv
<1> QED BY <1>1, Inductive, PTL

\* No entry is online more than Timeout and two heartbeats after its node was
\* last registered.
THEOREM OfflineInTime == Spec => []OfflineDeadline
<1>1. IInv => OfflineDeadline
      BY TimingAssumption
      DEF IInv, OfflineDeadline, AgesBounded, Slack, Entries, TypeOK, Slots
<1> QED BY <1>1, Inductive, PTL

\* The gateway state is never older than PubPeriod and two heartbeats.
THEOREM PublishInTime == Spec => []PublishDeadline
<1>1. IInv => PublishDeadline
      BY TimingAssumption DEF IInv, PublishDeadline, AgesBounded, TypeOK
<1> QED BY <1>1, Inductive, PTL
==============================================================================
