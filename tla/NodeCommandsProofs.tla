------------------------- MODULE NodeCommandsProofs -------------------------
(***************************************************************************)
(* Theorems about NodeCommands: where the frames of a command can go, for  *)
(* every table, every network and every interleaving of the three tasks.   *)
(* What NodeTableProofs shows of the table still holds, as a step of the   *)
(* composition is a step of the table or leaves it alone.                  *)
(***************************************************************************)
EXTENDS NodeCommands, NodeTableProofs

\* Every step of the three tasks is one of the table, or leaves it alone.
LEMMA StepOfTable == [CNext]_cvars => [Next]_vars
BY DEF CNext, cvars, Next, ZbCall, RegStep, MeshStep, Join, Leave, Discovered, Lost, CRegAddr,
       CRegRest, Others, CmdReceive, CmdStep, CmdScan, CmdScanTail, CmdUnknown, CmdOnOff,
       CmdMoveToLevel, CmdPublish

\* What was proved of the table holds with the MQTT task next to it.
LEMMA TableInvariant == CSpec => [](TypeOK /\ TableShape)
<1>1. CInit => TypeOK /\ TableShape
      BY InitType, InitShape DEF CInit
<1>2. TypeOK /\ TableShape /\ [CNext]_cvars => (TypeOK /\ TableShape)'
      BY StepOfTable, StepType, StepShape
<1> QED BY <1>1, <1>2, PTL DEF CSpec

\* A step does not change an address that has been written.
LEMMA ShortKept ==
    TypeOK /\ TableShape /\ [CNext]_cvars =>
        \A i \in Slots : short_addr[i] # NoShort => short_addr'[i] = short_addr[i]
BY StepOfTable, ShortStep

-----------------------------------------------------------------------------
(* Type correctness                                                         *)

\* The initial state is typed.
LEMMA CInitType == CInit => CTypeOK
<1> SUFFICES ASSUME CInit PROVE CTypeOK
    OBVIOUS
<1>1. TypeOK
      BY InitType DEF CInit
<1>2. /\ cmdPc = "idle" /\ cmdI = 0 /\ cmdId = NoId /\ cmdLevel = FALSE
      /\ meshAddr = [e \in Ieees |-> NoShort] /\ assigned = {}
      BY DEF CInit
<1>3. cmdI \in 0 .. MaxNodes
      BY <1>2, MaxNodesAssumption
<1> QED BY <1>1, <1>2, <1>3 DEF CTypeOK

\* Every step keeps the MQTT task and the network in their types.
LEMMA CStepType == CTypeOK /\ TypeOK' /\ [CNext]_cvars => CTypeOK'
<1> SUFFICES ASSUME CTypeOK, TypeOK', [CNext]_cvars PROVE CTypeOK'
    OBVIOUS
<1> USE DEF CTypeOK
<1>1. nodes_count \in Nat /\ nodes_count' \in Nat /\ nodes_count <= nodes_count' /\ nodes_count <= MaxNodes
  <2>1. [Next]_vars
        BY StepOfTable
  <2>2. nodes_count' = nodes_count \/ nodes_count' = nodes_count + 1
        BY <2>1 DEF Next, ZbCall, RegKnown, RegNew, MarkOffline, RegStep, RegAddr, RegSeen, RegOnline,
                    RegIdHead, RegIdTail, HbStep, HbSample, HbExpired, HbPass, HbMark, HbPublish,
                    HbSkipPublish, Tick, vars, tableVars
  <2> QED BY <2>2, MaxNodesAssumption DEF TypeOK
<1>2. CASE MeshStep
      BY <1>2 DEF MeshStep, Join, Leave, cmdVars, vars, tableVars
<1>3. CASE CRegAddr
      BY <1>3 DEF CRegAddr, RegAddr, cmdVars, TypeOK
<1>4. CASE UNCHANGED <<cmdVars, meshVars>>
      BY <1>1, <1>4 DEF cmdVars, meshVars
<1>5. CASE \E id \in Ids, level \in BOOLEAN : CmdReceive(id, level)
      BY <1>5, MaxNodesAssumption DEF CmdReceive, meshVars
<1>6. CASE CmdScan \/ CmdScanTail
      BY <1>1, <1>6, MaxNodesAssumption DEF CmdScan, CmdScanTail, meshVars, vars, tableVars
<1>7. CASE CmdUnknown \/ CmdPublish
  <2>1. cmdPc' = "idle" /\ cmdI' = 0 /\ cmdId' = NoId /\ cmdLevel' = FALSE /\ UNCHANGED meshVars
        BY <1>7 DEF CmdUnknown, CmdPublish, NoId
  <2>2. cmdI' \in 0 .. MaxNodes
        BY <2>1, MaxNodesAssumption
  <2> QED BY <2>1, <2>2 DEF meshVars, NoId
<1>8. CASE CmdOnOff \/ CmdMoveToLevel
      BY <1>1, <1>8 DEF CmdOnOff, CmdMoveToLevel, meshVars, vars, tableVars
<1> QED
    BY <1>2, <1>3, <1>4, <1>5, <1>6, <1>7, <1>8
    DEF CNext, CmdStep, cvars, Discovered, Lost, CRegRest, Others

\* The MQTT task's index stays inside the table while the table grows, and so
\* do all the others.
THEOREM CTypeCorrect == CSpec => []CTypeOK
<1>1. CTypeOK /\ (TypeOK /\ TableShape)' /\ [CNext]_cvars => CTypeOK'
      BY CStepType
<1> QED BY <1>1, CInitType, TableInvariant, PTL DEF CSpec

-----------------------------------------------------------------------------
(* What a node_id in the table says                                         *)

\* The identifier in an entry is that of a device registered under the entry's
\* address; while it is being overwritten its tail is still that of another.
Named(i, tail) == \E e \in Ieees : <<short_addr[i], e>> \in assigned /\ tail = IdOf[e][2]

Overwriting(i) == zbPc = "idTail" /\ zbIdx = i

IdsTrace ==
    /\ zbPc \in {"seen", "online", "idHead", "idTail"} =>
           short_addr[zbIdx] = zbShort /\ <<zbShort, zbIeee>> \in assigned
    /\ \A i \in Slots : Overwriting(i) =>
           /\ node_id[i][1] = IdOf[zbIeee][1]
           /\ node_id[i][2] = Blank \/ Named(i, node_id[i][2])
    /\ \A i \in Slots : ~Overwriting(i) =>
           \/ node_id[i] = NoId
           \/ \E e \in Ieees : <<short_addr[i], e>> \in assigned /\ node_id[i] = IdOf[e]

\* There is no node_id in an empty table to account for.
LEMMA InitTrace == CInit => IdsTrace
BY DEF CInit, Init, IdsTrace, Overwriting, NoId

\* Every step keeps each half of a node_id accounted for by a registration.
LEMMA StepTrace == CTypeOK /\ TableShape /\ IdsTrace /\ [CNext]_cvars => IdsTrace'
<1> SUFFICES ASSUME CTypeOK, TableShape, IdsTrace, [CNext]_cvars PROVE IdsTrace'
    OBVIOUS
<1> USE NamesAssumption DEF CTypeOK, TypeOK
<1>1. CASE CRegAddr
  <2>1. /\ zbPc = "addr" /\ zbPc' = "seen" /\ zbIdx \in Slots
        /\ short_addr' = [short_addr EXCEPT ![zbIdx] = zbShort]
        /\ assigned' = assigned \cup {<<zbShort, zbIeee>>}
        /\ UNCHANGED <<node_id, zbIdx, zbShort, zbIeee>>
        BY <1>1 DEF CRegAddr, RegAddr
  <2>2. \A i \in Slots : short_addr[i] = NoShort => node_id[i] = NoId
        BY <2>1 DEF IdsTrace, Overwriting
  <2>3. \A i \in Slots : short_addr[i] # NoShort => short_addr'[i] = short_addr[i]
        BY <2>1 DEF TableShape
  <2> QED BY <2>1, <2>2, <2>3 DEF IdsTrace, Overwriting
<1>2. CASE RegIdHead /\ UNCHANGED assigned
  <2>1. /\ zbPc = "idHead" /\ zbPc' = "idTail" /\ zbIdx \in Slots
        /\ node_id' = [node_id EXCEPT ![zbIdx] = <<IdOf[zbIeee][1], node_id[zbIdx][2]>>]
        /\ UNCHANGED <<short_addr, zbIdx, zbShort, zbIeee, assigned>>
        BY <1>2 DEF RegIdHead
  <2>2. node_id[zbIdx] = NoId \/ Named(zbIdx, node_id[zbIdx][2])
        BY <2>1 DEF IdsTrace, Overwriting, Named
  <2>3. node_id'[zbIdx][2] = node_id[zbIdx][2] /\ node_id'[zbIdx][1] = IdOf[zbIeee][1]
        BY <2>1
  <2>4. node_id'[zbIdx][2] = Blank \/ Named(zbIdx, node_id[zbIdx][2])'
    <3>1. CASE node_id[zbIdx] = NoId
          BY <2>3, <3>1 DEF NoId
    <3>2. CASE Named(zbIdx, node_id[zbIdx][2])
          BY <2>1, <2>3, <3>2 DEF Named
    <3> QED BY <2>2, <3>1, <3>2
  <2> QED BY <2>1, <2>3, <2>4 DEF IdsTrace, Overwriting, Named
<1>3. CASE RegIdTail /\ UNCHANGED assigned
  <2>1. /\ zbPc = "idTail" /\ zbPc' = "idle" /\ zbIdx \in Slots /\ zbIeee \in Ieees
        /\ node_id' = [node_id EXCEPT ![zbIdx] = <<node_id[zbIdx][1], IdOf[zbIeee][2]>>]
        /\ UNCHANGED <<short_addr, assigned>>
        BY <1>3 DEF RegIdTail
  <2>2. <<short_addr[zbIdx], zbIeee>> \in assigned /\ node_id[zbIdx][1] = IdOf[zbIeee][1]
        BY <2>1 DEF IdsTrace, Overwriting
  <2>3. IdOf[zbIeee] = <<IdOf[zbIeee][1], IdOf[zbIeee][2]>>
        BY <2>1
  <2>4. node_id'[zbIdx] = IdOf[zbIeee]
        BY <2>1, <2>2, <2>3
  <2> QED BY <2>1, <2>2, <2>4 DEF IdsTrace, Overwriting
<1>4. CASE /\ UNCHANGED <<short_addr, node_id, assigned>>
           /\ \/ UNCHANGED <<zbPc, zbIdx, zbShort, zbIeee>>
              \/ zbPc' = "addr" /\ zbPc # "idTail"
              \/ zbPc = "seen" /\ zbPc' = "online" /\ UNCHANGED <<zbIdx, zbShort, zbIeee>>
              \/ zbPc = "online" /\ zbPc' = "idHead" /\ UNCHANGED <<zbIdx, zbShort, zbIeee>>
      BY <1>4 DEF IdsTrace, Overwriting, Named
<1>5. CASE Discovered
      BY <1>5, <1>4 DEF Discovered, RegKnown, RegNew, meshVars, tableVars
<1>6. CASE Lost
      BY <1>6, <1>4 DEF Lost, MarkOffline, meshVars, zbVars
<1>7. CASE CRegRest
      BY <1>7, <1>2, <1>3, <1>4 DEF CRegRest, RegSeen, RegOnline, meshVars
<1>8. CASE Others
      BY <1>8, <1>4 DEF Others, HbStep, HbSample, HbExpired, HbPass, HbMark, HbPublish,
                        HbSkipPublish, Tick, meshVars, tableVars, zbVars
<1>9. CASE MeshStep
      BY <1>9, <1>4 DEF MeshStep, Join, Leave, vars, tableVars, zbVars
<1>10. CASE CmdStep \/ \E id \in Ids, level \in BOOLEAN : CmdReceive(id, level)
      BY <1>10, <1>4 DEF CmdStep, CmdReceive, CmdScan, CmdScanTail, CmdUnknown, CmdOnOff,
                         CmdMoveToLevel, CmdPublish, meshVars, vars, tableVars, zbVars
<1>11. CASE UNCHANGED cvars
      BY <1>11, <1>4 DEF cvars, meshVars, vars, tableVars, zbVars
<1> QED
    BY <1>1, <1>5, <1>6, <1>7, <1>8, <1>9, <1>10, <1>11 DEF CNext

-----------------------------------------------------------------------------
(* Where frames go                                                          *)

\* A device whose identifier begins, or ends, as the command's does has been registered
\* under the address of entry i.
BeginsNamed(i) == \E f \in Ieees : <<short_addr[i], f>> \in assigned /\ IdOf[f][1] = cmdId[1]
EndsNamed(i) == \E e \in Ieees : <<short_addr[i], e>> \in assigned /\ IdOf[e][2] = cmdId[2]
IsNamed(i) == \E e \in Ieees : <<short_addr[i], e>> \in assigned /\ IdOf[e] = cmdId

\* The entry whose first half has been compared begins as the command's identifier did
\* then; the entry the MQTT task holds has an address, and under UnmixableIds that is
\* an address of a device with the command's node_id.
HeldEntry ==
    /\ cmdPc = "tail" => short_addr[cmdI] \in Shorts /\ BeginsNamed(cmdI)
    /\ cmdPc \in {"onoff", "level"} =>
           short_addr[cmdI] \in Shorts /\ (UnmixableIds => IsNamed(cmdI))

\* What has been sent went there.
SentSoFar ==
    /\ cmdPc \in {"idle", "scan", "tail", "onoff"} => sentTo = <<>>
    /\ cmdPc = "level" => sentTo = <<short_addr[cmdI]>>
    /\ cmdPc = "publish" =>
           /\ Len(sentTo) \in {1, 2}
           /\ \A k \in 1 .. Len(sentTo) : sentTo[k] \in Shorts /\ sentTo[k] = sentTo[1]
           /\ UnmixableIds =>
                  \E e \in Ieees : <<sentTo[1], e>> \in assigned /\ IdOf[e] = cmdId

Routing == HeldEntry /\ SentSoFar

\* What a device's identifier in the table begins with, and ends with, is a registered
\* device's, also while the entry is overwritten.
LEMMA HalvesAreNamed ==
    ASSUME CTypeOK, TableShape, IdsTrace, NEW i \in Entries, cmdId \in Ids
    PROVE  /\ node_id[i][1] = cmdId[1] => BeginsNamed(i)
           /\ node_id[i][2] = cmdId[2] => EndsNamed(i)
           /\ BeginsNamed(i) => short_addr[i] \in Shorts
<1> USE NamesAssumption DEF CTypeOK, TypeOK
<1>1. PICK g \in Ieees : cmdId = IdOf[g]
      BY DEF Ids
<1>2. i \in Slots /\ IdOf[g] \in Halves \X Halves
      BY DEF Entries
<1>3. cmdId[1] # Blank /\ cmdId[2] # Blank
      BY <1>1, <1>2
<1>4. BeginsNamed(i) => short_addr[i] \in Shorts
      BY DEF BeginsNamed
<1>5. CASE Overwriting(i)
  <2>1. zbIeee \in Ieees /\ <<short_addr[i], zbIeee>> \in assigned
        BY <1>5 DEF Overwriting, IdsTrace
  <2>2. node_id[i][1] = IdOf[zbIeee][1]
        BY <1>2, <1>5 DEF IdsTrace
  <2>3. node_id[i][2] = Blank \/ Named(i, node_id[i][2])
        BY <1>2, <1>5 DEF IdsTrace
  <2> QED BY <1>3, <1>4, <2>1, <2>2, <2>3 DEF Named, BeginsNamed, EndsNamed
<1>6. CASE ~Overwriting(i)
  <2>1. node_id[i] = NoId \/ \E e \in Ieees : <<short_addr[i], e>> \in assigned /\ node_id[i] = IdOf[e]
        BY <1>2, <1>6 DEF IdsTrace
  <2>2. node_id[i] = NoId => node_id[i][1] = Blank /\ node_id[i][2] = Blank
        BY DEF NoId
  <2>3. CASE node_id[i] = NoId
        BY <1>3, <1>4, <2>2, <2>3
  <2>4. CASE \E e \in Ieees : <<short_addr[i], e>> \in assigned /\ node_id[i] = IdOf[e]
        BY <1>4, <2>4 DEF BeginsNamed, EndsNamed
  <2> QED BY <2>1, <2>3, <2>4
<1> QED BY <1>5, <1>6

\* Where both halves are those of devices registered there, so is the identifier.
LEMMA MatchIsNamed ==
    ASSUME CTypeOK, NEW i \in Slots, cmdId \in Ids, UnmixableIds, BeginsNamed(i), EndsNamed(i)
    PROVE  IsNamed(i)
<1>1. PICK g \in Ieees : cmdId = IdOf[g]
      BY DEF Ids
<1>2. PICK f \in Ieees : <<short_addr[i], f>> \in assigned /\ IdOf[f][1] = cmdId[1]
      BY DEF BeginsNamed
<1>3. PICK e \in Ieees : <<short_addr[i], e>> \in assigned /\ IdOf[e][2] = cmdId[2]
      BY DEF EndsNamed
<1>4. IdOf[g] = <<IdOf[g][1], IdOf[g][2]>>
      BY NamesAssumption
<1>5. <<IdOf[f][1], IdOf[e][2]>> = IdOf[g]
      BY <1>1, <1>2, <1>3, <1>4
<1>6. IdOf[g] \in {IdOf[e], IdOf[f]}
      BY <1>5 DEF UnmixableIds
<1> QED BY <1>1, <1>2, <1>3, <1>6 DEF IsNamed

\* Every step keeps the frames that were sent addressed to the device named.
LEMMA StepRouting ==
    CTypeOK /\ TableShape /\ IdsTrace /\ Routing /\ [CNext]_cvars => Routing'
<1> SUFFICES ASSUME CTypeOK, TableShape, IdsTrace, Routing, [CNext]_cvars PROVE Routing'
    OBVIOUS
<1> USE NamesAssumption, MaxNodesAssumption DEF Routing
<1>1. \A i \in Slots : short_addr[i] \in Shorts => short_addr'[i] = short_addr[i]
      BY ShortKept DEF CTypeOK
<1>2. cmdPc \in {"tail", "onoff", "level"} => cmdI \in Slots /\ cmdI \in Entries
      BY DEF CTypeOK, TypeOK, Slots, Entries
<1>3. CASE UNCHANGED cmdVars /\ assigned \subseteq assigned'
      BY <1>1, <1>2, <1>3 DEF HeldEntry, BeginsNamed, IsNamed, SentSoFar, UnmixableIds, cmdVars
<1>4. CASE \E id \in Ids, level \in BOOLEAN : CmdReceive(id, level)
      BY <1>4 DEF CmdReceive, HeldEntry, SentSoFar
<1>5. CASE CmdScan
  <2>1. cmdI \in Entries /\ cmdId \in Ids /\ UNCHANGED <<short_addr, assigned, cmdId, sentTo>>
        BY <1>5 DEF CmdScan, CTypeOK, TypeOK, Entries, Slots, vars, tableVars, meshVars
  <2>2. cmdPc' = "tail" => cmdI' = cmdI /\ node_id[cmdI][1] = cmdId[1]
        BY <1>5 DEF CmdScan
  <2>3. sentTo' = <<>> /\ cmdPc' \in {"scan", "tail"}
        BY <1>5 DEF CmdScan, SentSoFar
  <2>4. HeldEntry'
        BY <2>1, <2>2, <2>3, HalvesAreNamed DEF HeldEntry, BeginsNamed
  <2> QED BY <2>3, <2>4 DEF SentSoFar
<1>9. CASE CmdScanTail
  <2>1. /\ cmdI \in Entries /\ cmdI \in Slots /\ cmdId \in Ids
        /\ UNCHANGED <<short_addr, assigned, cmdId, sentTo>>
        BY <1>2, <1>9 DEF CmdScanTail, CTypeOK, vars, tableVars, meshVars
  <2>2. cmdPc' = "onoff" => cmdI' = cmdI /\ node_id[cmdI][2] = cmdId[2]
        BY <1>9 DEF CmdScanTail
  <2>3. sentTo' = <<>> /\ cmdPc' \in {"scan", "onoff"}
        BY <1>9 DEF CmdScanTail, SentSoFar
  <2>4. short_addr[cmdI] \in Shorts /\ BeginsNamed(cmdI)
        BY <1>9 DEF CmdScanTail, HeldEntry
  <2>5. cmdPc' = "onoff" => EndsNamed(cmdI)
        BY <2>1, <2>2, HalvesAreNamed
  <2>6. cmdPc' = "onoff" /\ UnmixableIds => IsNamed(cmdI)
        BY <2>1, <2>4, <2>5, MatchIsNamed
  <2>7. HeldEntry'
        BY <2>1, <2>2, <2>3, <2>4, <2>6 DEF HeldEntry, IsNamed, UnmixableIds
  <2> QED BY <2>3, <2>7 DEF SentSoFar
<1>6. CASE CmdUnknown \/ CmdPublish
      BY <1>6 DEF CmdUnknown, CmdPublish, HeldEntry, SentSoFar
<1>7. CASE CmdOnOff
  <2>1. /\ cmdPc = "onoff" /\ cmdPc' \in {"level", "publish"} /\ sentTo' = <<short_addr[cmdI]>>
        /\ UNCHANGED <<short_addr, assigned, cmdId, cmdI>>
        BY <1>7 DEF CmdOnOff, vars, tableVars, meshVars
  <2> QED BY <2>1 DEF HeldEntry, IsNamed, SentSoFar, UnmixableIds
<1>8. CASE CmdMoveToLevel
  <2>1. /\ cmdPc = "level" /\ cmdPc' = "publish" /\ sentTo = <<short_addr[cmdI]>>
        /\ sentTo' = Append(sentTo, short_addr[cmdI])
        /\ UNCHANGED <<short_addr, assigned, cmdId, cmdI>>
        BY <1>8 DEF CmdMoveToLevel, SentSoFar, vars, tableVars, meshVars
  <2>2. short_addr[cmdI] \in Shorts
        BY <2>1 DEF HeldEntry
  <2>3. sentTo \in Seq(Shorts) /\ Len(sentTo) = 1
        BY <2>1, <2>2
  <2>4. /\ Len(sentTo') = 2 /\ sentTo'[1] = short_addr[cmdI] /\ sentTo'[2] = short_addr[cmdI]
        /\ cmdPc' = "publish"
        BY <2>1, <2>2, <2>3
  <2>5. HeldEntry'
        BY <2>1 DEF HeldEntry
  <2>6. UnmixableIds => \E e \in Ieees : <<short_addr[cmdI], e>> \in assigned /\ IdOf[e] = cmdId
        BY <2>1 DEF HeldEntry, IsNamed
  <2> QED BY <2>1, <2>2, <2>3, <2>4, <2>5, <2>6 DEF SentSoFar, UnmixableIds
<1> QED
    BY <1>3, <1>4, <1>5, <1>6, <1>7, <1>8, <1>9
    DEF CNext, CmdStep, cvars, MeshStep, Join, Leave, Discovered, Lost, CRegAddr, CRegRest, Others,
        meshVars

\* The conjunction of the parts is invariant.
LEMMA CommandInvariant ==
    CSpec => [](CTypeOK /\ TableShape /\ IdsTrace /\ Routing)
<1>1. CInit => IdsTrace /\ Routing
      BY InitTrace DEF CInit, Routing, HeldEntry, SentSoFar
<1>2. CTypeOK /\ TableShape /\ IdsTrace /\ Routing /\ [CNext]_cvars => (IdsTrace /\ Routing)'
      BY StepTrace, StepRouting
<1> QED BY <1>1, <1>2, CTypeCorrect, TableInvariant, PTL DEF CSpec

\* No frame of a command goes to 0x0000, and both of its frames go to the same
\* address, however devices join, leave and are registered meanwhile.
THEOREM CommandFramesAddressed == CSpec => []FramesAddressed
<1>1. CTypeOK /\ Routing => FramesAddressed
      BY NamesAssumption DEF CTypeOK, Routing, HeldEntry, SentSoFar, FramesAddressed
<1> QED BY <1>1, CommandInvariant, PTL

\* When no mixture of two devices' identifiers is the identifier of a third, a
\* command's frames only go to addresses under which a device so named has
\* been registered: a half-overwritten entry misleads no command.
THEOREM CommandsReachNamed == CSpec => []FramesToNamedDevice
<1>1. CTypeOK /\ Routing => FramesToNamedDevice
  <2> SUFFICES ASSUME CTypeOK, Routing, UnmixableIds, NEW k \in 1 .. Len(sentTo)
               PROVE  \E e \in Ieees : IdOf[e] = cmdId /\ <<sentTo[k], e>> \in assigned
      BY DEF FramesToNamedDevice
  <2>1. CASE cmdPc = "publish"
    <3>1. sentTo[k] = sentTo[1]
          BY <2>1 DEF Routing, SentSoFar
    <3> QED BY <2>1, <3>1 DEF Routing, SentSoFar
  <2>2. CASE cmdPc = "level"
    <3>1. sentTo[k] = short_addr[cmdI]
          BY <2>2 DEF Routing, SentSoFar
    <3> QED BY <2>2, <3>1 DEF Routing, HeldEntry, IsNamed
  <2>3. CASE cmdPc \in {"idle", "scan", "tail", "onoff"}
        BY <2>3 DEF Routing, SentSoFar
  <2> QED BY <2>1, <2>2, <2>3 DEF CTypeOK
<1> QED BY <1>1, CommandInvariant, PTL
==============================================================================
