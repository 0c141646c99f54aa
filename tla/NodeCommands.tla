---------------------------- MODULE NodeCommands ----------------------------
(***************************************************************************)
(* The third task at the node table: the MQTT client's, which runs         *)
(* app_gateway_send_actuator_cmd for every command that arrives, and holds *)
(* a pointer into the table over two radio requests while the Zigbee task  *)
(* (NodeTable) registers devices.                                          *)
(*                                                                         *)
(* The radio network is modelled from how the gateway uses it: it gives    *)
(* every device in it one short address, another one when the device       *)
(* rejoins, and an address that was given up may go to another device.     *)
(* register_node is called for a device that has joined or is discovered,  *)
(* with the address the device holds at that moment (app_gateway.h:93-95). *)
(*                                                                         *)
(* Which endpoint and which value a frame carries is Actuation.tla's       *)
(* subject; here a frame is the address it is sent to.                     *)
(***************************************************************************)
EXTENDS NodeTable, Sequences

VARIABLES
    cmdPc,      \* where the MQTT task is in app_gateway_send_actuator_cmd
    cmdI,       \* its loop index, then its node pointer
    cmdId,      \* its node_id argument
    cmdLevel,   \* the command carries a level: a second frame follows
    sentTo,     \* addresses of the frames of the command, in order
    meshAddr,   \* the short address of each device in the network
    assigned    \* history: <<address, device>> pairs written to the table

cmdVars == <<cmdPc, cmdI, cmdId, cmdLevel, sentTo>>
meshVars == <<meshAddr, assigned>>
cvars == <<vars, cmdVars, meshVars>>

Ids == {IdOf[e] : e \in Ieees}
NoId == <<Blank, Blank>>

CInit ==
    /\ Init
    /\ cmdPc = "idle" /\ cmdI = 0 /\ cmdId = NoId /\ cmdLevel = FALSE
    /\ sentTo = <<>>
    /\ meshAddr = [e \in Ieees |-> NoShort]
    /\ assigned = {}

-----------------------------------------------------------------------------
(* The network                                                              *)

Join(e, s) ==
    /\ \A f \in Ieees : meshAddr[f] # s
    /\ meshAddr' = [meshAddr EXCEPT ![e] = s]
    /\ UNCHANGED <<vars, cmdVars, assigned>>

Leave(e) ==
    /\ meshAddr[e] # NoShort
    /\ meshAddr' = [meshAddr EXCEPT ![e] = NoShort]
    /\ UNCHANGED <<vars, cmdVars, assigned>>

MeshStep == \E e \in Ieees : Leave(e) \/ \E s \in Shorts : Join(e, s)

-----------------------------------------------------------------------------
(* The Zigbee and heartbeat tasks, with the calls the network gives rise to  *)

Discovered ==
    /\ \E e \in Ieees, s \in Shorts :
           meshAddr[e] = s /\ (RegKnown(s, e) \/ RegNew(s, e))
    /\ UNCHANGED <<cmdVars, meshVars>>

Lost == (\E s \in Shorts : MarkOffline(s)) /\ UNCHANGED <<cmdVars, meshVars>>

CRegAddr ==
    /\ RegAddr
    /\ assigned' = assigned \cup {<<zbShort, zbIeee>>}
    /\ UNCHANGED <<cmdVars, meshAddr>>

CRegRest ==
    /\ RegSeen \/ RegOnline \/ RegIdHead \/ RegIdTail
    /\ UNCHANGED <<cmdVars, meshVars>>

Others == (HbStep \/ Tick) /\ UNCHANGED <<cmdVars, meshVars>>

-----------------------------------------------------------------------------
(* The MQTT task                                                            *)

CmdReceive(id, level) ==
    /\ cmdPc = "idle"
    /\ cmdPc' = "scan" /\ cmdI' = 0
    /\ cmdId' = id /\ cmdLevel' = level
    /\ sentTo' = <<>>
    /\ UNCHANGED <<vars, meshVars>>

\* Faulty variant: the index does not move past an entry that does not match.
CmdScanStuck ==
    /\ cmdPc = "scan" /\ cmdI < nodes_count
    /\ cmdPc' = IF node_id[cmdI][1] = cmdId[1] THEN "tail" ELSE "scan"
    /\ UNCHANGED <<vars, cmdI, cmdId, cmdLevel, sentTo, meshVars>>

\* One iteration of the loop; nodes_count is read again every time.  strcmp reads from
\* the left and stops at the first difference: here it reads the first half.
CmdScan ==
    /\ cmdPc = "scan" /\ cmdI < nodes_count
    /\ \/ node_id[cmdI][1] = cmdId[1] /\ cmdPc' = "tail" /\ cmdI' = cmdI
       \/ node_id[cmdI][1] # cmdId[1] /\ cmdPc' = "scan" /\ cmdI' = cmdI + 1
    /\ UNCHANGED <<vars, cmdId, cmdLevel, sentTo, meshVars>>

\* Faulty variant: the pointer is taken after the index has moved on.
CmdScanTailNext ==
    /\ cmdPc = "tail"
    /\ cmdPc' = IF node_id[cmdI][2] = cmdId[2] THEN "onoff" ELSE "scan"
    /\ cmdI' = cmdI + 1
    /\ UNCHANGED <<vars, cmdId, cmdLevel, sentTo, meshVars>>

\* The second half, of what is in the entry by now.
CmdScanTail ==
    /\ cmdPc = "tail"
    /\ \/ node_id[cmdI][2] = cmdId[2] /\ cmdPc' = "onoff" /\ cmdI' = cmdI
       \/ node_id[cmdI][2] # cmdId[2] /\ cmdPc' = "scan" /\ cmdI' = cmdI + 1
    /\ UNCHANGED <<vars, cmdId, cmdLevel, sentTo, meshVars>>

\* Faulty variant: the call goes on although no entry matched.
CmdUnknownFallsThrough ==
    /\ cmdPc = "scan" /\ cmdI >= nodes_count
    /\ cmdPc' = "onoff"
    /\ UNCHANGED <<vars, cmdI, cmdId, cmdLevel, sentTo, meshVars>>

\* ESP_ERR_NOT_FOUND.
CmdUnknown ==
    /\ cmdPc = "scan" /\ cmdI >= nodes_count
    /\ cmdPc' = "idle" /\ cmdI' = 0 /\ cmdId' = NoId /\ cmdLevel' = FALSE
    /\ UNCHANGED <<vars, sentTo, meshVars>>

\* esp_zb_zcl_on_off_cmd_req to node->short_addr, as it is now.
CmdOnOff ==
    /\ cmdPc = "onoff"
    /\ sentTo' = <<short_addr[cmdI]>>
    /\ cmdPc' = IF cmdLevel THEN "level" ELSE "publish"
    /\ UNCHANGED <<vars, cmdI, cmdId, cmdLevel, meshVars>>

\* esp_zb_zcl_level_move_to_level_cmd_req, to the address read again.
CmdMoveToLevel ==
    /\ cmdPc = "level"
    /\ sentTo' = Append(sentTo, short_addr[cmdI])
    /\ cmdPc' = "publish"
    /\ UNCHANGED <<vars, cmdI, cmdId, cmdLevel, meshVars>>

\* The command's state is published, whatever became of the frames.
CmdPublish ==
    /\ cmdPc = "publish"
    /\ cmdPc' = "idle" /\ cmdI' = 0 /\ cmdId' = NoId /\ cmdLevel' = FALSE
    /\ sentTo' = <<>>
    /\ UNCHANGED <<vars, meshVars>>

CmdStep ==
    \/ CmdScan \/ CmdScanTail \/ CmdUnknown
    \/ CmdOnOff \/ CmdMoveToLevel \/ CmdPublish

CNext ==
    \/ MeshStep
    \/ Discovered \/ Lost \/ CRegAddr \/ CRegRest
    \/ Others
    \/ \E id \in Ids, level \in BOOLEAN : CmdReceive(id, level)
    \/ CmdStep

CSpec == CInit /\ [][CNext]_cvars

\* The MQTT task is scheduled whenever it has something to do.
CFairSpec == CSpec /\ WF_cvars(CmdStep)

-----------------------------------------------------------------------------
(* Properties                                                                *)

CTypeOK ==
    /\ TypeOK
    /\ cmdPc \in {"idle", "scan", "tail", "onoff", "level", "publish"}
    /\ cmdI \in 0 .. MaxNodes
    /\ cmdPc \in {"tail", "onoff", "level"} => cmdI < nodes_count
    /\ cmdId \in Ids \cup {NoId}
    /\ cmdPc # "idle" => cmdId \in Ids
    /\ cmdLevel \in BOOLEAN
    /\ meshAddr \in [Ieees -> Shorts \cup {NoShort}]
    /\ assigned \subseteq Shorts \X Ieees

\* An entry whose node_id a command matches is far enough written to have an
\* address (node_id is the last field register_node stores): no frame goes to
\* 0x0000, the coordinator itself, and the on/off and the level frame of one
\* command go to the same address although each reads it from the table.
FramesAddressed ==
    \A k \in 1 .. Len(sentTo) : sentTo[k] \in Shorts /\ sentTo[k] = sentTo[1]

\* The first half of one device's node_id and the second half of another's are not the
\* node_id of a third device.
UnmixableIds ==
    \A e, f, g \in Ieees :
        <<IdOf[f][1], IdOf[e][2]>> = IdOf[g] => IdOf[g] \in {IdOf[e], IdOf[f]}

\* A command's frames go only to an address under which a device with the
\* node_id of the command has been registered, even when the entry is being
\* overwritten for another device while the MQTT task compares the string: it may
\* read an old half and a new one, in either order.
FramesToNamedDevice ==
    UnmixableIds =>
        \A k \in 1 .. Len(sentTo) :
            \E e \in Ieees : IdOf[e] = cmdId /\ <<sentTo[k], e>> \in assigned

\* A command is done with, although the table grows while it is scanned.
CommandEnds == cmdPc # "idle" ~> cmdPc = "idle"

\* What the interface says: registering a node refreshes its entry, and a
\* command is sent to the node.  Once a device is registered with the address
\* it holds, the first entry with its node_id has that address.
FirstWithId(id, i) ==
    /\ i \in Entries /\ node_id[i] = id
    /\ \A j \in Entries : node_id[j] = id => i <= j

CurrentRoute ==
    \A e \in Ieees, i \in Slots :
        /\ zbPc = "idle"
        /\ \E j \in Entries : ieee_addr[j] = e /\ short_addr[j] = meshAddr[e]
        /\ FirstWithId(IdOf[e], i)
        => short_addr[i] = meshAddr[e]
==============================================================================
